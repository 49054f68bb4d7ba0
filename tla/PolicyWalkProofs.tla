-------------------------- MODULE PolicyWalkProofs --------------------------
(***************************************************************************)
(* The properties of the walk of MCPolicyEngine over the contexts, from    *)
(* what is proved of the engine at each context.                           *)
(***************************************************************************)
EXTENDS MCPolicyEngine, PolicyEngineProofs

TypedContext == ctx \in PolicyContext

\* Type correctness of the walk: a step keeps the context in the engine's domain.
LEMMA WalkStaysTyped == Spec => []TypedContext
<1>1. Init => TypedContext
  BY ThresholdsAssumption DEF Init, TypedContext, PolicyContext, SENSITIVE_ACTIONS, SIM_ACTIONS
<1>2. TypedContext /\ [Next]_ctx => TypedContext'
  <2> SUFFICES ASSUME ctx \in PolicyContext, Next
               PROVE  ctx' \in PolicyContext
    BY DEF TypedContext
  <2>1. CASE \/ ctx' = [ctx EXCEPT !.is_vip = TRUE]
             \/ ctx' = [ctx EXCEPT !.fraud_suspected = TRUE]
             \/ ctx' = [ctx EXCEPT !.frustration = TRUE]
             \/ ctx' = [ctx EXCEPT !.identity_verified = FALSE]
             \/ ctx' = [ctx EXCEPT !.payment_confirmed = FALSE]
    BY <2>1 DEF PolicyContext
  <2>2. CASE \/ ctx' = [ctx EXCEPT !.clarification_attempts = @ + 1]
             \/ ctx' = [ctx EXCEPT !.identity_attempts = @ + 1]
             \/ ctx' = [ctx EXCEPT !.amount = 4]
    BY <2>2 DEF PolicyContext
  <2>3. CASE \/ ctx' = [ctx EXCEPT !.account_age_days = @ - 1]
             \/ ctx' = [ctx EXCEPT !.deferrals_this_year = @ + 1]
             \/ ctx' = [ctx EXCEPT !.unpaid_amount = @ + 1]
    BY <2>3 DEF PolicyContext
  <2> QED BY <2>1, <2>2, <2>3 DEF Next
<1> QED BY <1>1, <1>2, PTL DEF Spec

\* AUTHORIZED only if no rule objects (engine.py:3-5), in any order of the rules.
THEOREM DefaultOnlyWithoutObjection == Spec => []AuthorizedIffAllowed
<1>1. TypedContext => AuthorizedIffAllowed
  BY VerdictIsAllowed DEF AuthorizedIffAllowed, TypedContext
<1> QED BY <1>1, WalkStaysTyped, PTL

\* A mandatory trigger is never outranked (engine.py:34-36).
THEOREM MandatoryShortCircuits == Spec => []MandatoryFirst
<1>1. TypedContext => MandatoryFirst
  BY MandatoryIsTrigger DEF MandatoryFirst, TypedContext, EvaluateAction
<1> QED BY <1>1, WalkStaysTyped, PTL

\* Nothing that goes worse in a call makes the engine more permissive.
THEOREM NothingGainedByRisk == Spec => NeverMorePermissive
<1>1. TypedContext /\ TypedContext' /\ Next => NoSafer(ctx', ctx)
  BY ThresholdsAssumption DEF Next, NoSafer, AmountAtMost, TypedContext, PolicyContext
<1>2. TypedContext /\ TypedContext' /\ [Next]_ctx
      => [IsAuthorized(ctx') => IsAuthorized(ctx)]_ctx
  BY <1>1, EngineIsAntitone DEF TypedContext
<1> QED BY <1>2, WalkStaysTyped, PTL DEF Spec, NeverMorePermissive
=============================================================================
