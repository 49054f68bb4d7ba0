--------------------------- MODULE MCPolicyEngine ---------------------------
(***************************************************************************)
(* The engine on every context at and around its thresholds.  A state is a *)
(* context; a step is one thing going worse in the call it describes.      *)
(***************************************************************************)
EXTENDS PolicyEngine

VARIABLE ctx

Caps == [payment_cap |-> 3, deferral_min_age_days |-> 2, deferral_max_per_year |-> 1,
         deferral_unpaid_threshold |-> 2]

Init ==
    \E action \in {"EXECUTE_PAYMENT", "PAYMENT_DEFERRAL", "TOP_UP", "REPLACE_SIM", "OTHER"},
       verified, confirmed \in BOOLEAN, amount \in {NoAmount, -1, 3} :
        ctx = [action_type |-> action,
               is_vip |-> FALSE, fraud_suspected |-> FALSE, frustration |-> FALSE,
               identity_verified |-> verified, clarification_attempts |-> 0,
               identity_attempts |-> 0, amount |-> amount, account_age_days |-> 3,
               deferrals_this_year |-> 0, unpaid_amount |-> 2, payment_confirmed |-> confirmed]

Next ==
    \/ ctx' = [ctx EXCEPT !.is_vip = TRUE]
    \/ ctx' = [ctx EXCEPT !.fraud_suspected = TRUE]
    \/ ctx' = [ctx EXCEPT !.frustration = TRUE]
    \/ ctx' = [ctx EXCEPT !.identity_verified = FALSE]
    \/ ctx.clarification_attempts < 2 /\ ctx' = [ctx EXCEPT !.clarification_attempts = @ + 1]
    \/ ctx.identity_attempts < 3 /\ ctx' = [ctx EXCEPT !.identity_attempts = @ + 1]
    \/ ctx.amount \in -1..3 /\ ctx' = [ctx EXCEPT !.amount = 4]
    \/ ctx.account_age_days > 1 /\ ctx' = [ctx EXCEPT !.account_age_days = @ - 1]
    \/ ctx.deferrals_this_year < 2 /\ ctx' = [ctx EXCEPT !.deferrals_this_year = @ + 1]
    \/ ctx.unpaid_amount < 3 /\ ctx' = [ctx EXCEPT !.unpaid_amount = @ + 1]
    \/ ctx' = [ctx EXCEPT !.payment_confirmed = FALSE]

Spec == Init /\ [][Next]_ctx

\* "Default is AUTHORIZED only if no rule objects" (engine.py:3-5): the verdict of
\* the ordered rules is AUTHORIZED exactly when no rule, in any order, objects.
AuthorizedIffAllowed == IsAuthorized(ctx) <=> Allowed(ctx)

\* "Mandatory-escalation chain first (short-circuit)" (engine.py:3): no other rule
\* turns a mandatory escalation into a refusal or an authorization.
MandatoryFirst == MandatoryTrigger(ctx) => EvaluateAction(ctx).verdict = "escalate"

\* A call that goes worse is never authorized what it was not authorized before:
\* no counter, flag or amount makes the engine more permissive as it rises.
NeverMorePermissive == [][IsAuthorized(ctx') => IsAuthorized(ctx)]_ctx
=============================================================================
