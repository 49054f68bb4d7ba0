---------------------------- MODULE GuardedAction ----------------------------
(***************************************************************************)
(* The agent worker's sensitive tools in one voice session, against the    *)
(* context, decision, policy and execution services: the identity gate, the*)
(* confirmation of a payment, and execute_guarded_action, Decision ->      *)
(* Policy -> Execution.                                                    *)
(*                                                                         *)
(* A tool call is one asyncio task: it interleaves with the caller's turns *)
(* and with the other calls at each await, and each remote call may fail or*)
(* exceed its client's timeout.  execution-service appears by its contract,*)
(* IdempotentActions, which ExecutionService implements, with the failures *)
(* of its dispatch.  The session keeps one idempotency key per action type,*)
(* so the action type stands for the key.                                  *)
(***************************************************************************)
EXTENDS PolicyEngine

CONSTANTS Call,        \* the tool calls the model makes in the session
          NoCall,
          Request,     \* what the model may ask for: [action_type, amount]
          Caller,      \* who may be calling: [is_vip, fraud_suspected, age, unpaid]
          NoCustomer   \* the snapshot could not be fetched

ASSUME RequestAssumption ==
    /\ Request \subseteq [action_type : SENSITIVE_ACTIONS, amount : Int \cup {NoAmount}]
    /\ NoCall \notin Call
    /\ Caller \subseteq [is_vip : BOOLEAN, fraud_suspected : BOOLEAN, age : Int, unpaid : Int]
    /\ NoCustomer \notin Caller

VARIABLES request,         \* the tool and the arguments the model chooses for each call
          caller,          \* who is calling, as the context-service's tables have it
          customer,        \* customer_context: the prefetched snapshot, or NoCustomer
          verified,        \* identity_verified
          attempts,        \* identity_attempts
          frustrated,      \* consecutive_negative_turns >= 3
          clarifications,  \* clarification_attempts
          pc,              \* what each call is waiting for
          context,         \* the policy context each call has assembled
          outcome,         \* the standard outcome each call has returned
          inflight,        \* requests that execution-service has not finished with
          done,            \* action_ledger: the call recorded for each key
          dispatched       \* the calls whose effect reached the legacy system

sessionVars == <<request, caller, customer, verified, attempts, frustrated, clarifications>>
serviceVars == <<inflight, done, dispatched>>
vars == <<sessionVars, pc, context, outcome, serviceVars>>

CLARIFICATION_BOUND == 2  \* a bound of the model: more clarifications change nothing

ActionOf(c) == request[c].action_type

\* The tools that begin with ensure_identity_verified; account_tools do not.
Gated(c) == ActionOf(c) \in {"EXECUTE_PAYMENT", "PAYMENT_DEFERRAL", "UNBLOCK_SIM"}

Pending == [kind |-> "pending", reference |-> NoCall]
Told(kind) == [kind |-> kind, reference |-> NoCall]
Executed(c) == [kind |-> "executed", reference |-> c]

Return(c, result) ==
    /\ pc' = [pc EXCEPT ![c] = "returned"]
    /\ outcome' = [outcome EXCEPT ![c] = result]

Await(c, what) == pc' = [pc EXCEPT ![c] = what] /\ UNCHANGED outcome
-----------------------------------------------------------------------------
\* _prefetch_user_data: an outage leaves the session without a customer.
Init ==
    /\ request \in [Call -> Request]
    /\ caller \in Caller
    /\ customer \in {caller, NoCustomer}
    /\ verified = FALSE /\ attempts = 0 /\ frustrated = FALSE /\ clarifications = 0
    /\ pc = [c \in Call |-> "idle"]
    /\ context = [c \in Call |-> NoCall]
    /\ outcome = [c \in Call |-> Pending]
    /\ inflight = {} /\ dispatched = {}
    /\ done = [a \in SENSITIVE_ACTIONS |-> NoCall]

\* Mutant: a customer whose snapshot is missing is taken for verified.
BuildContextTrusting(c, confirmed, unpaid) ==
    [action_type |-> ActionOf(c),
     is_vip |-> customer # NoCustomer /\ customer.is_vip,
     fraud_suspected |-> customer # NoCustomer /\ customer.fraud_suspected,
     frustration |-> frustrated,
     identity_verified |-> verified' \/ customer = NoCustomer,
     clarification_attempts |-> clarifications,
     identity_attempts |-> attempts',
     amount |-> request[c].amount,
     account_age_days |-> IF customer = NoCustomer THEN 0 ELSE customer.age,
     deferrals_this_year |-> 0,
     unpaid_amount |-> unpaid,
     payment_confirmed |-> confirmed]

\* _build_context with the tool's payload; the fields that a tool does not send
\* have their PolicyContext defaults.  The gate's result, when the gate ends in
\* the same step, is already in the session.
BuildContext(c, confirmed, unpaid) ==
    [action_type |-> ActionOf(c),
     is_vip |-> customer # NoCustomer /\ customer.is_vip,
     fraud_suspected |-> customer # NoCustomer /\ customer.fraud_suspected,
     frustration |-> frustrated,
     identity_verified |-> verified',
     clarification_attempts |-> clarifications,
     identity_attempts |-> attempts',
     amount |-> request[c].amount,
     account_age_days |-> IF customer = NoCustomer THEN 0 ELSE customer.age,
     deferrals_this_year |-> 0,
     unpaid_amount |-> unpaid,
     payment_confirmed |-> confirmed]

\* execute_guarded_action begins: the context is read before the first await.
Guard(c, confirmed, unpaid) ==
    /\ context' = [context EXCEPT ![c] = BuildContext(c, confirmed, unpaid)]
    /\ Await(c, "decision")

\* The tool's body after its gate, up to the next await.
Proceed(c) ==
    \/ ActionOf(c) = "EXECUTE_PAYMENT" /\ Await(c, "confirmation") /\ UNCHANGED context
    \/ ActionOf(c) = "PAYMENT_DEFERRAL" /\ Await(c, "invoices") /\ UNCHANGED context
    \/ ActionOf(c) \notin {"EXECUTE_PAYMENT", "PAYMENT_DEFERRAL"} /\ Guard(c, FALSE, 0)

CallTool(c) ==
    /\ pc[c] = "idle"
    /\ UNCHANGED <<sessionVars, serviceVars>>
    /\ \/ (Gated(c) => verified) /\ Proceed(c)
       \/ Gated(c) /\ ~verified /\ customer = NoCustomer
             /\ Return(c, Told("escalate")) /\ UNCHANGED context
       \/ Gated(c) /\ ~verified /\ customer # NoCustomer
             /\ Await(c, "identity") /\ UNCHANGED context

\* IdentityVerificationTask ends: the answer matched, or three did not, or the
\* context-service could not be asked, which counts as a mismatch.
AnswerIdentity(c) ==
    /\ pc[c] = "identity"
    /\ verified' \in BOOLEAN
    /\ attempts' = attempts + 1
    /\ UNCHANGED <<request, caller, customer, frustrated, clarifications, serviceVars>>
    /\ \/ verified' /\ Proceed(c)
       \/ ~verified' /\ Return(c, Told("escalate")) /\ UNCHANGED context

\* PaymentConfirmTask ends with a yes or a no.
AnswerConfirmation(c) ==
    /\ pc[c] = "confirmation"
    /\ UNCHANGED <<sessionVars, serviceVars>>
    /\ \E confirmed \in BOOLEAN : Guard(c, confirmed, 0)

\* get_invoices: the unpaid total, or an empty list if the service is out.
ReadInvoices(c) ==
    /\ pc[c] = "invoices"
    /\ UNCHANGED <<sessionVars, serviceVars>>
    /\ \E unpaid \in {caller.unpaid, 0} : Guard(c, FALSE, unpaid)

\* decision-service ranks the candidate; an error is a confidence of zero.
CONFIDENCE_THRESHOLD == 5

Recommend(c) ==
    /\ pc[c] = "decision"
    /\ \E confidence \in {Confidence(ActionOf(c), context[c].identity_verified), 0} :
          \/ confidence < CONFIDENCE_THRESHOLD /\ Return(c, Told("escalate"))
          \/ confidence >= CONFIDENCE_THRESHOLD /\ Await(c, "policy")
    /\ UNCHANGED <<sessionVars, context, serviceVars>>

\* Mutant: only a refusal stops the call.
JudgeRefusalsOnly(c) ==
    /\ pc[c] = "policy"
    /\ IF EvaluateAction(context[c]).verdict = "refused"
       THEN Return(c, Told("refused")) /\ UNCHANGED inflight
       ELSE Await(c, "execution") /\ inflight' = inflight \cup {c}
    /\ UNCHANGED <<sessionVars, context, done, dispatched>>

\* Mutant: the outcome carries the rule in place of the verdict.
JudgeNamingTheRule(c) ==
    /\ pc[c] = "policy"
    /\ \/ IsAuthorized(context[c]) /\ Await(c, "execution") /\ inflight' = inflight \cup {c}
       \/ ~IsAuthorized(context[c])
             /\ Return(c, Told(EvaluateAction(context[c]).rule_id)) /\ UNCHANGED inflight
    /\ UNCHANGED <<sessionVars, context, done, dispatched>>

\* policy-service's verdict.  An authorization with its id goes on to execution
\* in the same step; one without an id is not acted on.
Judge(c) ==
    /\ pc[c] = "policy"
    /\ \/ IsAuthorized(context[c]) /\ Await(c, "execution") /\ inflight' = inflight \cup {c}
       \/ IsAuthorized(context[c]) /\ Return(c, Told("escalate")) /\ UNCHANGED inflight
       \/ ~IsAuthorized(context[c])
             /\ Return(c, Told(EvaluateAction(context[c]).verdict)) /\ UNCHANGED inflight
    /\ UNCHANGED <<sessionVars, context, done, dispatched>>

\* The policy client fails closed.
PolicyUnavailable(c) ==
    /\ pc[c] = "policy"
    /\ Return(c, Told("escalate"))
    /\ UNCHANGED <<sessionVars, context, serviceVars>>

\* The response of execution-service, if its client is still waiting for it.
Respond(c, result) ==
    IF pc[c] = "execution" THEN Return(c, result) ELSE UNCHANGED <<pc, outcome>>

\* Mutant: the key is looked up by session alone.
ServeAnyKey(c) ==
    /\ c \in inflight
    /\ inflight' = inflight \ {c}
    /\ \/ /\ \A a \in SENSITIVE_ACTIONS : done[a] = NoCall
          /\ dispatched' = dispatched \cup {c}
          /\ done' = [done EXCEPT ![ActionOf(c)] = c]
          /\ Respond(c, Executed(c))
       \/ /\ \E a \in SENSITIVE_ACTIONS : done[a] # NoCall /\ Respond(c, Executed(done[a]))
          /\ UNCHANGED <<done, dispatched>>
    /\ UNCHANGED <<sessionVars, context>>

\* execution-service completes a request: a dispatch recorded under its key, or
\* the replay of the reference that the key already has.
Serve(c) ==
    /\ c \in inflight
    /\ inflight' = inflight \ {c}
    /\ \/ /\ done[ActionOf(c)] = NoCall
          /\ dispatched' = dispatched \cup {c}
          /\ done' = [done EXCEPT ![ActionOf(c)] = c]
          /\ Respond(c, Executed(c))
       \/ /\ done[ActionOf(c)] # NoCall
          /\ Respond(c, Executed(done[ActionOf(c)]))
          /\ UNCHANGED <<done, dispatched>>
    /\ UNCHANGED <<sessionVars, context>>

\* It fails and rolls back, the legacy system having acted or not.
ServeFails(c) ==
    /\ c \in inflight
    /\ inflight' = inflight \ {c}
    /\ Respond(c, Told("failed"))
    /\ \/ UNCHANGED dispatched
       \/ done[ActionOf(c)] = NoCall /\ dispatched' = dispatched \cup {c}
    /\ UNCHANGED <<sessionVars, context, done>>

\* Mutant: a timeout is reported as a case for a human.
ExecutionTimesOutEscalating(c) ==
    /\ pc[c] = "execution"
    /\ Return(c, Told("escalate"))
    /\ UNCHANGED <<sessionVars, context, serviceVars>>

\* Mutant: a client without a timeout.
ExecutionNeverTimesOut(c) ==
    /\ pc[c] = "execution"
    /\ c \notin inflight
    /\ Return(c, Told("failed"))
    /\ UNCHANGED <<sessionVars, context, serviceVars>>

\* The execution client stops waiting after five seconds; the service does not.
ExecutionTimesOut(c) ==
    /\ pc[c] = "execution"
    /\ Return(c, Told("failed"))
    /\ UNCHANGED <<sessionVars, context, serviceVars>>

\* A completed turn of the caller moves the streak of negative turns.
CallerTurn ==
    /\ frustrated' \in BOOLEAN
    /\ UNCHANGED <<request, caller, customer, verified, attempts, clarifications, pc, context, outcome,
                   serviceVars>>

\* request_clarification counts an attempt.
RequestClarification ==
    /\ clarifications < CLARIFICATION_BOUND
    /\ clarifications' = clarifications + 1
    /\ UNCHANGED <<request, caller, customer, verified, attempts, frustrated, pc, context, outcome,
                   serviceVars>>

CallStep(c) ==
    \/ CallTool(c)
    \/ AnswerIdentity(c)
    \/ AnswerConfirmation(c)
    \/ ReadInvoices(c)
    \/ Recommend(c)
    \/ Judge(c)
    \/ PolicyUnavailable(c)
    \/ ExecutionTimesOut(c)

ServiceStep(c) == Serve(c) \/ ServeFails(c)

Next ==
    \/ \E c \in Call : CallStep(c) \/ ServiceStep(c)
    \/ CallerTurn
    \/ RequestClarification

Spec == Init /\ [][Next]_vars

(***************************************************************************)
(* Every remote call of the guarded path has a client timeout, so it comes *)
(* to an end; execution-service owes its clients nothing.  The caller may  *)
(* leave an identity or a confirmation question unanswered for ever.       *)
(***************************************************************************)
FairSpec ==
    Spec /\ \A c \in Call :
        /\ WF_vars(ReadInvoices(c))
        /\ WF_vars(Recommend(c))
        /\ WF_vars(Judge(c) \/ PolicyUnavailable(c))
        /\ WF_vars(ExecutionTimesOut(c))
-----------------------------------------------------------------------------
Waiting == {"identity", "confirmation", "invoices", "decision", "policy", "execution"}

Outcomes ==
    [kind : {"pending", "refused", "escalate", "failed"}, reference : {NoCall}]
        \cup {Executed(c) : c \in Call}

\* Type correctness of the session and of the services it calls.
TypeOK ==
    /\ request \in [Call -> Request]
    /\ caller \in Caller /\ customer \in {caller, NoCustomer}
    /\ verified \in BOOLEAN /\ attempts \in Nat
    /\ frustrated \in BOOLEAN /\ clarifications \in 0..CLARIFICATION_BOUND
    /\ pc \in [Call -> {"idle", "returned"} \cup Waiting]
    /\ context \in [Call -> PolicyContext \cup {NoCall}]
    /\ outcome \in [Call -> Outcomes]
    /\ inflight \subseteq Call /\ dispatched \subseteq Call
    /\ done \in [SENSITIVE_ACTIONS -> Call \cup {NoCall}]

\* "Only AUTHORIZED reaches Execution" (guarded_action.py:6): whatever interleaves
\* with the call and whichever tool skips its gate, an action that takes effect was
\* allowed, in the context its tool assembled, by every rule of the policy.
EffectsWereAllowed ==
    \A c \in dispatched : Allowed(context[c])

\* VIP and suspected-fraud callers are handled by people (mandatory_escalation.py:
\* 12-15), also when their profile could not be fetched and looks like any other.
ProtectedCallersUntouched ==
    caller.is_vip \/ caller.fraud_suspected => dispatched = {}

\* A caller who is refused or handed over is not charged later: no effect of the
\* call is, or can still be, on its way (guarded_action.py:55-63).
RefusalIsFinal ==
    \A c \in Call :
        outcome[c].kind \in {"refused", "escalate"} => c \notin dispatched \cup inflight

\* "Never claim success" (outcomes.py:48): a reference told to the caller is that
\* of an effect of the same kind of action that did take place.
ReferencesAreReal ==
    \A c \in Call : outcome[c].kind = "executed" =>
        /\ outcome[c].reference \in dispatched
        /\ ActionOf(outcome[c].reference) = ActionOf(c)

\* A guarded call whose services are slow, failing or gone still gives the caller
\* one of the standard outcomes.
GuardedCallsReturn ==
    \A c \in Call : pc[c] \in {"invoices", "decision", "policy", "execution"} ~> pc[c] = "returned"

\* "A token generated once per confirmed action" (value_objects.py:89): what the
\* caller is told was executed is what this call asked for.
ExecutedMeansRequested ==
    \A c \in Call :
        outcome[c].kind = "executed" => request[outcome[c].reference] = request[c]

\* "Unpaid-amount review" (deferral.py:1): a deferral for a caller who owes more
\* than the threshold "needs review" (deferral.py:23) and does not just go through.
LargeDeferralsReviewed ==
    \A c \in dispatched : ActionOf(c) = "PAYMENT_DEFERRAL" =>
        caller.unpaid <= Thresholds.deferral_unpaid_threshold
=============================================================================
