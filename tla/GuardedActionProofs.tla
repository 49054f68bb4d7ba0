------------------------- MODULE GuardedActionProofs -------------------------
(***************************************************************************)
(* The safety of the guarded path, for any number of interleaving calls,   *)
(* any requests and any callers.                                           *)
(*                                                                         *)
(* None of the properties is inductive: what justifies an effect was read  *)
(* several awaits earlier.  GuardInv carries it along: a context is a true *)
(* copy of the profile, an identity is verified only for a fetched         *)
(* customer, and from the verdict on a call's context is an allowed one.   *)
(***************************************************************************)
EXTENDS GuardedAction, PolicyEngineProofs

\* What is known of a call from its first await inside execute_guarded_action.
TrueCopy(c) ==
    /\ context[c] \in PolicyContext
    /\ context[c].action_type = ActionOf(c)
    /\ customer # NoCustomer => /\ context[c].is_vip = customer.is_vip
                                /\ context[c].fraud_suspected = customer.fraud_suspected
    /\ context[c].identity_verified => customer # NoCustomer

GateInv ==
    /\ verified => customer # NoCustomer
    /\ \A c \in Call : pc[c] = "identity" => customer # NoCustomer

ContextInv ==
    \A c \in Call :
        pc[c] \in {"decision", "policy", "execution"} \/ c \in inflight \cup dispatched
            => TrueCopy(c)

\* Past its verdict, a call is allowed, and is not told a refusal any more.
FlightInv ==
    \A c \in Call :
        /\ pc[c] = "execution" \/ c \in inflight \cup dispatched => Allowed(context[c])
        /\ c \in inflight \cup dispatched =>
              /\ pc[c] \in {"execution", "returned"}
              /\ outcome[c].kind \in {"pending", "failed", "executed"}

AnswerInv ==
    /\ \A a \in SENSITIVE_ACTIONS :
          done[a] # NoCall => done[a] \in dispatched /\ ActionOf(done[a]) = a
    /\ ReferencesAreReal
    /\ \A c \in Call : pc[c] # "returned" => outcome[c] = Pending

GuardInv == TypeOK /\ GateInv /\ ContextInv /\ FlightInv /\ AnswerInv
-----------------------------------------------------------------------------
\* Initially nothing has been asked (server.py:33-44).
LEMMA InitGuardInv == Init => GuardInv
<1> SUFFICES ASSUME Init PROVE GuardInv OBVIOUS
<1>1. TypeOK
  <2>1. Pending \in Outcomes BY DEF Outcomes, Pending
  <2>2. outcome \in [Call -> Outcomes] /\ context \in [Call -> PolicyContext \cup {NoCall}]
    BY <2>1 DEF Init
  <2>3. attempts \in Nat /\ clarifications \in 0..CLARIFICATION_BOUND
    BY DEF Init, CLARIFICATION_BOUND
  <2>5. verified \in BOOLEAN /\ frustrated \in BOOLEAN
    BY Zenon DEF Init
  <2>4. /\ request \in [Call -> Request] /\ caller \in Caller /\ customer \in {caller, NoCustomer}
        /\ pc \in [Call -> {"idle", "returned"} \cup Waiting]
        /\ inflight \subseteq Call /\ dispatched \subseteq Call
        /\ done \in [SENSITIVE_ACTIONS -> Call \cup {NoCall}]
    BY DEF Init
  <2> QED BY <2>2, <2>3, <2>4, <2>5 DEF TypeOK
<1>2. GateInv BY DEF Init, GateInv
<1>3. ContextInv /\ FlightInv BY DEF Init, ContextInv, FlightInv
<1>4. AnswerInv BY DEF Init, AnswerInv, ReferencesAreReal, Pending
<1> QED BY <1>1, <1>2, <1>3, <1>4 DEF GuardInv

\* A context that a tool assembles is in the engine's domain, and a true copy.
LEMMA BuiltContext ==
  ASSUME TypeOK, GateInv, NEW c \in Call, NEW confirmed \in BOOLEAN, NEW unpaid \in Int,
         verified' \in BOOLEAN, verified' => customer # NoCustomer, attempts' \in Nat,
         UNCHANGED <<request, customer>>, Guard(c, confirmed, unpaid)
  PROVE  /\ TrueCopy(c)'
         /\ context' = [context EXCEPT ![c] = BuildContext(c, confirmed, unpaid)]
         /\ BuildContext(c, confirmed, unpaid) \in PolicyContext
         /\ pc' = [pc EXCEPT ![c] = "decision"]
         /\ UNCHANGED outcome
<1>1. BuildContext(c, confirmed, unpaid) \in PolicyContext
  BY RequestAssumption DEF BuildContext, PolicyContext, TypeOK, ActionOf
<1>2. /\ context' = [context EXCEPT ![c] = BuildContext(c, confirmed, unpaid)]
      /\ pc' = [pc EXCEPT ![c] = "decision"] /\ UNCHANGED outcome
  BY DEF Guard, Await
<1>3. context'[c] = BuildContext(c, confirmed, unpaid)
  BY <1>2 DEF TypeOK
<1>4. customer' = customer /\ ActionOf(c)' = ActionOf(c) BY DEF ActionOf
<1>5. customer # NoCustomer =>
        /\ BuildContext(c, confirmed, unpaid).is_vip = customer.is_vip
        /\ BuildContext(c, confirmed, unpaid).fraud_suspected = customer.fraud_suspected
  <2>1. customer # NoCustomer => customer.is_vip \in BOOLEAN /\ customer.fraud_suspected \in BOOLEAN
    BY RequestAssumption DEF TypeOK
  <2> QED BY <2>1 DEF BuildContext
<1>6. /\ BuildContext(c, confirmed, unpaid).action_type = ActionOf(c)
      /\ BuildContext(c, confirmed, unpaid).identity_verified => customer # NoCustomer
  BY DEF BuildContext
<1>7. TrueCopy(c)' BY <1>1, <1>3, <1>4, <1>5, <1>6 DEF TrueCopy
<1> QED BY <1>1, <1>2, <1>7

\* What a call that is still on its way to the verdict may do: the services and
\* the profile stay as they are, and the call moves to its next await, with a true
\* copy if that is a guarded one, or returns with an escalation.
Advances(c) ==
    /\ UNCHANGED <<request, caller, customer, frustrated, clarifications, serviceVars>>
    /\ verified' \in BOOLEAN /\ attempts' \in Nat /\ (verified' => customer # NoCustomer)
    /\ pc[c] \in {"idle", "identity", "confirmation", "invoices"}
    /\ \/ /\ \E s \in {"confirmation", "invoices", "identity"} :
                /\ pc' = [pc EXCEPT ![c] = s]
                /\ s = "identity" => customer # NoCustomer
          /\ UNCHANGED <<outcome, context>>
       \/ /\ TrueCopy(c)'
          /\ \E new \in PolicyContext : context' = [context EXCEPT ![c] = new]
          /\ pc' = [pc EXCEPT ![c] = "decision"] /\ UNCHANGED outcome
       \/ Return(c, Told("escalate")) /\ UNCHANGED context

\* The steps before the decision (guards.py, the tools, guarded_action.py:48).
LEMMA EarlySteps ==
  ASSUME GuardInv, NEW c \in Call,
         CallTool(c) \/ AnswerIdentity(c) \/ AnswerConfirmation(c) \/ ReadInvoices(c)
  PROVE  Advances(c)
<1>0. TypeOK /\ GateInv /\ verified \in BOOLEAN /\ attempts \in Nat /\ caller.unpaid \in Int
  BY RequestAssumption DEF GuardInv, TypeOK
<1>1. ASSUME Proceed(c), verified' \in BOOLEAN, attempts' \in Nat, verified' => customer # NoCustomer,
             UNCHANGED <<request, customer>>
      PROVE  \/ /\ \E s \in {"confirmation", "invoices"} : pc' = [pc EXCEPT ![c] = s]
                /\ UNCHANGED <<outcome, context>>
             \/ /\ TrueCopy(c)'
                /\ \E new \in PolicyContext : context' = [context EXCEPT ![c] = new]
                /\ pc' = [pc EXCEPT ![c] = "decision"] /\ UNCHANGED outcome
  <2>1. CASE Guard(c, FALSE, 0)
    <3>0. FALSE \in BOOLEAN /\ 0 \in Int OBVIOUS
    <3>1. /\ TrueCopy(c)' /\ BuildContext(c, FALSE, 0) \in PolicyContext
          /\ context' = [context EXCEPT ![c] = BuildContext(c, FALSE, 0)]
          /\ pc' = [pc EXCEPT ![c] = "decision"] /\ UNCHANGED outcome
      BY <3>0, <1>0, <1>1, <2>1, BuiltContext, Zenon
    <3> QED BY <3>1
  <2>2. CASE ~Guard(c, FALSE, 0) BY <1>1, <2>2 DEF Proceed, Await
  <2> QED BY <2>1, <2>2
<1>2. CASE CallTool(c)
  BY <1>0, <1>1, <1>2 DEF CallTool, Advances, Await, GateInv, sessionVars, serviceVars
<1>3. CASE AnswerIdentity(c)
  BY <1>0, <1>1, <1>3 DEF AnswerIdentity, Advances, GateInv, serviceVars
<1>4. CASE AnswerConfirmation(c)
  <2>1. PICK confirmed \in BOOLEAN : Guard(c, confirmed, 0) BY <1>4 DEF AnswerConfirmation
  <2> QED BY <1>0, <1>4, <2>1, BuiltContext
          DEF AnswerConfirmation, Advances, GateInv, sessionVars, serviceVars
<1>5. CASE ReadInvoices(c)
  <2>1. {caller.unpaid, 0} \subseteq Int BY <1>0
  <2>2. \E unpaid \in {caller.unpaid, 0} : Guard(c, FALSE, unpaid) BY <1>5 DEF ReadInvoices
  <2>3. PICK unpaid \in Int : Guard(c, FALSE, unpaid) BY <2>1, <2>2
  <2> QED BY <1>0, <1>5, <2>3, BuiltContext
          DEF ReadInvoices, Advances, GateInv, sessionVars, serviceVars
<1> QED BY <1>2, <1>3, <1>4, <1>5
-----------------------------------------------------------------------------
\* The steps before the decision keep the invariant.
LEMMA EarlyInv ==
  ASSUME GuardInv, NEW c \in Call, Advances(c)
  PROVE  GuardInv'
<1>0. TypeOK /\ GateInv /\ ContextInv /\ FlightInv /\ AnswerInv BY DEF GuardInv
<1>1. TypeOK'
  <2>1. outcome' \in [Call -> Outcomes]
    BY <1>0 DEF Advances, TypeOK, Return, Outcomes, Told
  <2>2. pc' \in [Call -> {"idle", "returned"} \cup Waiting]
    BY <1>0 DEF Advances, TypeOK, Return, Waiting
  <2>3. context' \in [Call -> PolicyContext \cup {NoCall}]
    BY <1>0 DEF Advances, TypeOK
  <2> QED BY <1>0, <2>1, <2>2, <2>3 DEF Advances, TypeOK, serviceVars
<1>2. GateInv' BY <1>0 DEF Advances, GateInv, TypeOK, Return
<1>3. c \notin inflight \cup dispatched BY <1>0 DEF Advances, FlightInv
<1>4. \A d \in Call : d # c => /\ pc'[d] = pc[d] /\ outcome'[d] = outcome[d]
                               /\ context'[d] = context[d]
  BY <1>0 DEF Advances, TypeOK, Return
<1>5. pc'[c] # "execution" /\ pc'[c] # "policy"
  BY <1>0 DEF Advances, TypeOK, Return
<1>6. UNCHANGED <<request, customer, inflight, dispatched, done>> BY DEF Advances, serviceVars
<1>7. ContextInv'
  <2>1. ASSUME NEW d \in Call, d # c, TrueCopy(d) PROVE TrueCopy(d)'
    BY <1>4, <1>6, <2>1 DEF TrueCopy, ActionOf
  <2>2. pc'[c] = "decision" => TrueCopy(c)'
    BY <1>0 DEF Advances, TypeOK, Return
  <2> QED BY <1>0, <1>3, <1>4, <1>5, <1>6, <2>1, <2>2 DEF ContextInv
<1>8. FlightInv' BY <1>0, <1>3, <1>4, <1>5, <1>6 DEF FlightInv
<1>9. AnswerInv'
  <2>1. outcome'[c].kind # "executed" /\ (pc'[c] # "returned" => outcome'[c] = Pending)
    BY <1>0 DEF Advances, TypeOK, Return, Told, AnswerInv, Pending
  <2> QED BY <1>0, <1>4, <1>6, <2>1 DEF AnswerInv, ReferencesAreReal, ActionOf
<1> QED BY <1>1, <1>2, <1>7, <1>8, <1>9 DEF GuardInv

\* The steps of the guarded path that only the call itself takes part in.
Decides(c) ==
    /\ UNCHANGED <<sessionVars, context, done, dispatched>>
    /\ \/ pc[c] = "decision" /\ Await(c, "policy") /\ UNCHANGED inflight
       \/ /\ pc[c] = "policy" /\ IsAuthorized(context[c])
          /\ Await(c, "execution") /\ inflight' = inflight \cup {c}
       \/ /\ pc[c] \in {"decision", "policy"} /\ UNCHANGED inflight
          /\ \E kind \in {"refused", "escalate"} : Return(c, Told(kind))
       \/ pc[c] = "execution" /\ Return(c, Told("failed")) /\ UNCHANGED inflight

\* The services' decisions, reduced to what they do to the call.
LEMMA DecidingSteps ==
  ASSUME GuardInv, NEW c \in Call,
         Recommend(c) \/ Judge(c) \/ PolicyUnavailable(c) \/ ExecutionTimesOut(c)
  PROVE  Decides(c)
<1>1. ASSUME context[c] \in PolicyContext, ~IsAuthorized(context[c])
      PROVE  EvaluateAction(context[c]).verdict \in {"refused", "escalate"}
  <2> DEFINE x == context[c]
  <2>1. CheckMandatory(x) # NoObjection => CheckMandatory(x).verdict = "escalate"
    BY <1>1, MandatoryIsTrigger
  <2>2. ActionRules(x).verdict \in {"authorized", "refused", "escalate"}
    BY <1>1, RulesAreDisjoint DEF CheckPayment, CheckDeferral, CheckSim, Authorized, Refused,
       Escalate, NoObjection, SIM_ACTIONS
  <2> QED BY <1>1, <2>1, <2>2 DEF EvaluateAction, IsAuthorized, Escalate
<1>2. CASE Recommend(c) BY <1>2 DEF Recommend, Decides, serviceVars
<1>3. CASE Judge(c)
  <2>1. context[c] \in PolicyContext BY <1>3 DEF Judge, GuardInv, ContextInv, TrueCopy
  <2> QED BY <1>1, <1>3, <2>1 DEF Judge, Decides
<1>4. CASE PolicyUnavailable(c) BY <1>4 DEF PolicyUnavailable, Decides, serviceVars
<1>5. CASE ExecutionTimesOut(c) BY <1>5 DEF ExecutionTimesOut, Decides, serviceVars
<1> QED BY <1>2, <1>3, <1>4, <1>5

\* From the decision to the request (guarded_action.py:50-76).
LEMMA DecidingInv ==
  ASSUME GuardInv, NEW c \in Call, Decides(c)
  PROVE  GuardInv'
<1>0. TypeOK /\ GateInv /\ ContextInv /\ FlightInv /\ AnswerInv BY DEF GuardInv
<1> USE DEF Await, Return
<1>1. TypeOK'
  <2>1. outcome' \in [Call -> Outcomes] BY <1>0 DEF Decides, TypeOK, Outcomes, Told
  <2>2. pc' \in [Call -> {"idle", "returned"} \cup Waiting] BY <1>0 DEF Decides, TypeOK, Waiting
  <2> QED BY <1>0, <2>1, <2>2 DEF Decides, TypeOK, sessionVars
<1>2. GateInv' BY <1>0 DEF Decides, GateInv, TypeOK, sessionVars
<1>4. \A d \in Call : d # c => pc'[d] = pc[d] /\ outcome'[d] = outcome[d]
  BY <1>0 DEF Decides, TypeOK
<1>5. TrueCopy(c) BY <1>0 DEF Decides, ContextInv
<1>6. UNCHANGED <<request, customer, context, dispatched, done>> BY DEF Decides, sessionVars
<1>7. inflight' \in {inflight, inflight \cup {c}} BY DEF Decides
<1>8. ContextInv'
  <2>1. \A d \in Call : TrueCopy(d)' <=> TrueCopy(d) BY <1>6 DEF TrueCopy, ActionOf
  <2> QED BY <1>0, <1>4, <1>5, <1>6, <1>7, <2>1 DEF ContextInv
<1>9. FlightInv'
  <2>1. pc[c] \in {"decision", "policy"} => c \notin inflight \cup dispatched
    BY <1>0 DEF FlightInv
  <2>2. IsAuthorized(context[c]) => Allowed(context[c]) BY <1>5, VerdictIsAllowed DEF TrueCopy
  <2>3. pc[c] # "returned" => outcome[c].kind = "pending" BY <1>0 DEF AnswerInv, Pending
  <2>4. \/ c \notin inflight' \cup dispatched' /\ pc'[c] # "execution"
        \/ /\ pc'[c] \in {"execution", "returned"} /\ Allowed(context[c])
           /\ outcome'[c].kind \in {"pending", "failed"}
    BY <1>0, <2>1, <2>2, <2>3 DEF Decides, TypeOK, FlightInv, Told
  <2> QED BY <1>0, <1>4, <1>6, <1>7, <2>4 DEF FlightInv
<1>10. AnswerInv'
  <2>1. outcome'[c].kind # "executed" /\ (pc'[c] # "returned" => outcome'[c] = Pending)
    BY <1>0 DEF Decides, TypeOK, Told, AnswerInv, Pending
  <2> QED BY <1>0, <1>4, <1>6, <2>1 DEF AnswerInv, ReferencesAreReal, ActionOf
<1> QED BY <1>1, <1>2, <1>8, <1>9, <1>10 DEF GuardInv
-----------------------------------------------------------------------------
\* execution-service ends a request: it may have dispatched it, it records the
\* dispatch for its key or not, and it answers with what is recorded, if at all.
Serves(c) ==
    /\ c \in inflight /\ inflight' = inflight \ {c}
    /\ UNCHANGED <<sessionVars, context>>
    /\ dispatched \subseteq dispatched' /\ dispatched' \subseteq dispatched \cup {c}
    /\ \/ UNCHANGED done
       \/ done' = [done EXCEPT ![ActionOf(c)] = c] /\ c \in dispatched'
    /\ \/ UNCHANGED <<pc, outcome>>
       \/ pc[c] = "execution" /\ Return(c, Told("failed"))
       \/ /\ pc[c] = "execution" /\ done'[ActionOf(c)] # NoCall
          /\ Return(c, Executed(done'[ActionOf(c)]))

\* execution-service's steps, reduced to what they do to the call and its key.
LEMMA ServingSteps ==
  ASSUME GuardInv, NEW c \in Call, ServiceStep(c)
  PROVE  Serves(c)
<1>0. TypeOK /\ ActionOf(c) \in SENSITIVE_ACTIONS /\ c # NoCall
  BY RequestAssumption DEF GuardInv, TypeOK, ActionOf
<1>1. CASE Serve(c)
  <2>1. CASE done[ActionOf(c)] = NoCall
    <3>1. done' = [done EXCEPT ![ActionOf(c)] = c] /\ done'[ActionOf(c)] = c
      BY <1>0, <1>1, <2>1 DEF Serve, TypeOK
    <3> QED BY <1>0, <1>1, <2>1, <3>1 DEF Serve, Serves, Respond
  <2>2. CASE done[ActionOf(c)] # NoCall
    BY <1>0, <1>1, <2>2 DEF Serve, Serves, Respond
  <2> QED BY <2>1, <2>2
<1>2. CASE ServeFails(c) BY <1>2 DEF ServeFails, Serves, Respond
<1> QED BY <1>1, <1>2 DEF ServiceStep

\* What the service does keeps the invariant, the client waiting or gone.
LEMMA ServingInv ==
  ASSUME GuardInv, NEW c \in Call, Serves(c)
  PROVE  GuardInv'
<1>0. TypeOK /\ GateInv /\ ContextInv /\ FlightInv /\ AnswerInv BY DEF GuardInv
<1> USE DEF Return
<1>1. ActionOf(c) \in SENSITIVE_ACTIONS /\ c # NoCall
  BY <1>0, RequestAssumption DEF TypeOK, ActionOf
<1>2. UNCHANGED <<request, customer, context>> BY DEF Serves, sessionVars
<1>3. done' \in [SENSITIVE_ACTIONS -> Call \cup {NoCall}] BY <1>0, <1>1 DEF Serves, TypeOK
<1>4. TypeOK'
  <2>1. outcome' \in [Call -> Outcomes]
    BY <1>0, <1>1, <1>3 DEF Serves, TypeOK, Outcomes, Told
  <2>2. pc' \in [Call -> {"idle", "returned"} \cup Waiting] BY <1>0 DEF Serves, TypeOK
  <2> QED BY <1>0, <1>3, <2>1, <2>2 DEF Serves, TypeOK, sessionVars
<1>5. GateInv' BY <1>0 DEF Serves, GateInv, TypeOK, sessionVars
<1>6. \A d \in Call : d # c => pc'[d] = pc[d] /\ outcome'[d] = outcome[d]
  BY <1>0 DEF Serves, TypeOK
<1>7. inflight' \cup dispatched' \subseteq inflight \cup dispatched BY DEF Serves
<1>8. pc'[c] = pc[c] \/ pc'[c] = "returned" BY <1>0 DEF Serves, TypeOK
<1>9. ContextInv'
  <2>1. \A d \in Call : TrueCopy(d)' <=> TrueCopy(d) BY <1>2 DEF TrueCopy, ActionOf
  <2> QED BY <1>0, <1>6, <1>7, <1>8, <2>1 DEF ContextInv
<1>10. FlightInv'
  <2>1. outcome'[c].kind \in {"pending", "failed", "executed"}
    BY <1>0 DEF Serves, FlightInv, TypeOK, Told, Executed
  <2>2. pc[c] \in {"execution", "returned"} BY <1>0 DEF Serves, FlightInv
  <2> QED BY <1>0, <1>2, <1>6, <1>7, <1>8, <2>1, <2>2 DEF FlightInv
<1>11. AnswerInv'
  <2>1. \A a \in SENSITIVE_ACTIONS :
          done'[a] # NoCall => done'[a] \in dispatched' /\ ActionOf(done'[a]) = a
    BY <1>0, <1>1 DEF Serves, AnswerInv, TypeOK
  <2>2. \A d : ActionOf(d)' = ActionOf(d) BY <1>2 DEF ActionOf
  <2>3. ReferencesAreReal'
    <3>1. outcome'[c].kind = "executed" =>
             outcome'[c].reference \in dispatched' /\ ActionOf(outcome'[c].reference) = ActionOf(c)
      BY <1>0, <1>1, <2>1 DEF Serves, AnswerInv, ReferencesAreReal, TypeOK, Told, Executed
    <3>2. dispatched \subseteq dispatched' BY DEF Serves
    <3> QED BY <1>0, <1>6, <2>2, <3>1, <3>2 DEF AnswerInv, ReferencesAreReal
  <2>4. \A d \in Call : pc'[d] # "returned" => outcome'[d] = Pending
    BY <1>0, <1>6 DEF Serves, AnswerInv, TypeOK
  <2> QED BY <2>1, <2>2, <2>3, <2>4 DEF AnswerInv
<1> QED BY <1>4, <1>5, <1>9, <1>10, <1>11 DEF GuardInv

\* The caller's turns and a stuttering step touch nothing the invariant is about.
LEMMA TurnInv ==
  ASSUME GuardInv, CallerTurn \/ RequestClarification \/ UNCHANGED vars
  PROVE  GuardInv'
<1>0. TypeOK /\ GateInv /\ ContextInv /\ FlightInv /\ AnswerInv BY DEF GuardInv
<1>1. /\ frustrated' \in BOOLEAN /\ clarifications' \in 0..CLARIFICATION_BOUND
      /\ UNCHANGED <<request, caller, customer, verified, attempts, pc, context, outcome,
                     inflight, done, dispatched>>
  BY <1>0 DEF CallerTurn, RequestClarification, vars, sessionVars, serviceVars, TypeOK,
     CLARIFICATION_BOUND
<1>2. TypeOK' BY <1>0, <1>1 DEF TypeOK
<1>3. GateInv' /\ FlightInv' BY <1>0, <1>1 DEF GateInv, FlightInv
<1>4. ContextInv' BY <1>0, <1>1 DEF ContextInv, TrueCopy, ActionOf
<1>5. AnswerInv' BY <1>0, <1>1 DEF AnswerInv, ReferencesAreReal, ActionOf
<1> QED BY <1>2, <1>3, <1>4, <1>5 DEF GuardInv

\* The strengthening is an invariant of the guarded path.
THEOREM GuardInvariant == Spec => []GuardInv
<1>1. GuardInv /\ [Next]_vars => GuardInv'
  <2> SUFFICES ASSUME GuardInv, [Next]_vars PROVE GuardInv' OBVIOUS
  <2>1. ASSUME NEW c \in Call, CallStep(c) PROVE GuardInv'
    BY <2>1, EarlySteps, EarlyInv, DecidingSteps, DecidingInv DEF CallStep
  <2>2. ASSUME NEW c \in Call, ServiceStep(c) PROVE GuardInv'
    BY <2>2, ServingSteps, ServingInv
  <2> QED BY <2>1, <2>2, TurnInv DEF Next
<1> QED BY <1>1, InitGuardInv, PTL DEF Spec

\* Type correctness of the session.
THEOREM SessionTypeCorrect == Spec => []TypeOK
  BY GuardInvariant, PTL DEF GuardInv

\* Only AUTHORIZED reaches Execution (guarded_action.py:6), across every await.
THEOREM OnlyAllowedEffects == Spec => []EffectsWereAllowed
<1>1. GuardInv => EffectsWereAllowed
  BY DEF GuardInv, TypeOK, FlightInv, EffectsWereAllowed
<1> QED BY <1>1, GuardInvariant, PTL

\* Protected callers are left to people, known or not (mandatory_escalation.py:12-15):
\* an unknown caller cannot be verified, and the engine's backstop does the rest.
THEOREM ProtectedUntouched == Spec => []ProtectedCallersUntouched
<1>1. GuardInv => ProtectedCallersUntouched
  <2> SUFFICES ASSUME GuardInv, caller.is_vip \/ caller.fraud_suspected, NEW c \in dispatched
               PROVE  FALSE
    BY DEF ProtectedCallersUntouched
  <2>1. c \in Call /\ TrueCopy(c) /\ Allowed(context[c])
    BY DEF GuardInv, TypeOK, FlightInv, ContextInv
  <2>2. context[c].action_type \in SENSITIVE_ACTIONS
    BY <2>1, RequestAssumption DEF GuardInv, TypeOK, TrueCopy, ActionOf
  <2>3. customer = caller BY <2>1, <2>2 DEF GuardInv, TypeOK, TrueCopy, Allowed
  <2>4. customer # NoCustomer BY <2>3, RequestAssumption DEF GuardInv, TypeOK
  <2> QED BY <2>1, <2>3, <2>4 DEF TrueCopy, Allowed, MandatoryTrigger
<1> QED BY <1>1, GuardInvariant, PTL

\* A refusal or a hand-over is final (guarded_action.py:55-63).
THEOREM RefusalsAreFinal == Spec => []RefusalIsFinal
<1>1. GuardInv => RefusalIsFinal
  BY DEF GuardInv, FlightInv, RefusalIsFinal
<1> QED BY <1>1, GuardInvariant, PTL

\* No reference is made up: what is told was done (outcomes.py:36-53).
THEOREM ToldReferencesAreReal == Spec => []ReferencesAreReal
  BY GuardInvariant, PTL DEF GuardInv, AnswerInv
=============================================================================
