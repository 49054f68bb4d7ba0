--------------------------- MODULE ExecutionService ---------------------------
(***************************************************************************)
(* execution-service beside policy-service over one database and one audit *)
(* ledger: ExecutionService.execute as it runs in several threads and      *)
(* processes at once, with the legacy system it dispatches to.             *)
(*                                                                         *)
(* A request is one HTTP call and one transaction; a retry by the client is*)
(* another request with the same idempotency key.  The reference that the  *)
(* legacy system returns is unique to the dispatch, so it is the request.  *)
(***************************************************************************)
EXTENDS PolicyService

CONSTANTS Request,    \* the calls of POST /execute
          Key,        \* idempotency keys
          KeyOf,      \* the key each request carries
          VerdictOf,  \* the policy_verdict_id each request carries
          NoAnswer    \* a request that has returned nothing

ASSUME RequestAssumption ==
    /\ Tx = Evaluation \cup Request
    /\ Evaluation \cap Request = {}
    /\ KeyOf \in [Request -> Key]
    /\ VerdictOf \in [Request -> Evaluation]
    /\ NoAnswer \notin Request
    /\ "execution_result" \in Label

VARIABLES ledger,      \* execution.action_ledger, with the rows not yet committed
          dispatched,  \* the requests whose effect reached the legacy system
          effects,     \* the projected domain rows: payments, plans, recharges, ...
          answer       \* the reference each request has returned

executionVars == <<ledger, dispatched, effects, answer>>
vars == <<auditVars, policyVars, executionVars>>

CommittedRows == {row \in ledger : txState[row.request] = "committed"}

\* The rows of other transactions that still may commit: they block an insert
\* of the same unique key.
UncommittedRivals(r) ==
    {row \in ledger : row.key = KeyOf[r] /\ row.request # r /\ row \notin CommittedRows}

ByKey(key) == {row \in CommittedRows : row.key = key}

Goto(t, s) == stage' = [stage EXCEPT ![t] = s]
-----------------------------------------------------------------------------
ExecutionInit ==
    /\ AuditInit /\ PolicyInit
    /\ ledger = {}
    /\ dispatched = {}
    /\ effects = {}
    /\ answer = [r \in Request |-> NoAnswer]

\* _replay: the stored reference, without a dispatch.
Replay(r) ==
    \E row \in ByKey(KeyOf[r]) :
        /\ answer' = [answer EXCEPT ![r] = row.reference]
        /\ Goto(r, "answered")
        /\ UNCHANGED <<auditVars, verdicts, ledger, dispatched, effects>>

\* existing = self._by_key(...), and the early return when there is one.
Lookup(r) ==
    /\ stage[r] = "new"
    /\ \/ Replay(r)
       \/ /\ ByKey(KeyOf[r]) = {}
          /\ Goto(r, "missed")
          /\ UNCHANGED <<auditVars, verdicts, executionVars>>

PendingRow(r) ==
    [key |-> KeyOf[r], request |-> r, verdict |-> VerdictOf[r],
     status |-> "pending", reference |-> NoAnswer]

\* Mutant: no UNIQUE constraint behind the lookup.
InsertPendingNotUnique(r) ==
    /\ stage[r] = "missed"
    /\ VerdictOf[r] \in CommittedVerdicts
    /\ ledger' = ledger \cup {PendingRow(r)}
    /\ Goto(r, "pending")
    /\ UNCHANGED <<auditVars, verdicts, dispatched, effects, answer>>

\* Mutant: no foreign key on policy_verdict_id.
InsertPendingNoForeignKey(r) ==
    /\ stage[r] = "missed"
    /\ UncommittedRivals(r) = {}
    /\ ByKey(KeyOf[r]) = {}
    /\ ledger' = ledger \cup {PendingRow(r)}
    /\ Goto(r, "pending")
    /\ UNCHANGED <<auditVars, verdicts, dispatched, effects, answer>>

\* The insert of the pending row.  Postgres makes it wait for a rival that has
\* inserted the same key and not ended; then the UNIQUE key and the foreign key
\* on the verdict decide.
InsertPending(r) ==
    /\ stage[r] = "missed"
    /\ UncommittedRivals(r) = {}
    /\ ByKey(KeyOf[r]) = {}
    /\ VerdictOf[r] \in CommittedVerdicts
    /\ ledger' = ledger \cup {PendingRow(r)}
    /\ Goto(r, "pending")
    /\ UNCHANGED <<auditVars, verdicts, dispatched, effects, answer>>

\* IntegrityError: the session is rolled back before anything else is done.
InsertRefused(r) ==
    /\ stage[r] = "missed"
    /\ UncommittedRivals(r) = {}
    /\ \/ ByKey(KeyOf[r]) # {}
       \/ VerdictOf[r] \notin CommittedVerdicts
    /\ Rollback(r)
    /\ Goto(r, "refused")
    /\ UNCHANGED <<verdicts, executionVars>>

\* After the rollback: replay the winner of the race, or raise.
LookupAgain(r) ==
    /\ stage[r] = "refused"
    /\ \/ Replay(r)
       \/ /\ ByKey(KeyOf[r]) = {}
          /\ Goto(r, "failed")
          /\ UNCHANGED <<auditVars, verdicts, executionVars>>

\* Mutant: the key is stored where the reference belongs.
DispatchStoringKey(r) ==
    /\ stage[r] = "pending"
    /\ dispatched' = dispatched \cup {r}
    /\ ledger' = {IF row.request = r
                  THEN [row EXCEPT !.status = "succeeded", !.reference = KeyOf[r]]
                  ELSE row : row \in ledger}
    /\ Goto(r, "dispatched")
    /\ UNCHANGED <<auditVars, verdicts, effects, answer>>

\* dispatch() returns a reference; the row is marked succeeded with it.
Dispatch(r) ==
    /\ stage[r] = "pending"
    /\ dispatched' = dispatched \cup {r}
    /\ ledger' = {IF row.request = r
                  THEN [row EXCEPT !.status = "succeeded", !.reference = r]
                  ELSE row : row \in ledger}
    /\ Goto(r, "dispatched")
    /\ UNCHANGED <<auditVars, verdicts, effects, answer>>

\* Mutant: the audit entry is written through a session of its own.
DiscardKeepingEntry(r) ==
    /\ IF txState[r] = "inserted" THEN Commit(r) ELSE Rollback(r)
    /\ ledger' = {row \in ledger : row.request # r}
    /\ effects' = effects \ {r}
    /\ UNCHANGED <<verdicts, answer>>

\* Mutant: the projection is written through a session of its own.
DiscardKeepingEffect(r) ==
    /\ Rollback(r)
    /\ ledger' = {row \in ledger : row.request # r}
    /\ UNCHANGED <<verdicts, effects, answer>>

\* What a transaction that ends without a commit leaves behind: nothing.
Discard(r) ==
    /\ Rollback(r)
    /\ ledger' = {row \in ledger : row.request # r}
    /\ effects' = effects \ {r}
    /\ UNCHANGED <<verdicts, answer>>

\* dispatch() raises, for a timeout after the legacy system has acted or before:
\* the exception leaves execute() and closing the session rolls back.
DispatchRaises(r) ==
    /\ stage[r] = "pending"
    /\ dispatched' \in {dispatched, dispatched \cup {r}}
    /\ Discard(r)
    /\ Goto(r, "raised")

AuditResult(r) ==
    /\ stage[r] = "dispatched"
    /\ AuditAppend(r, "execution_result")
    /\ UNCHANGED <<policyVars, executionVars>>

\* Mutant: no savepoint, so that a failing projection rolls back the session and
\* the commit that follows commits nothing.
ProjectWithoutSavepoint(r) ==
    /\ stage[r] = "dispatched"
    /\ txState[r] = "inserted"
    /\ \/ /\ effects' = effects \cup {r}
          /\ Goto(r, "projected")
          /\ UNCHANGED <<auditVars, verdicts, ledger, answer>>
       \/ /\ Discard(r)
          /\ Goto(r, "committed")
    /\ UNCHANGED dispatched

\* project_domain_effect in a savepoint: it writes its row, or skips for missing
\* data, or fails and is rolled back alone.
Project(r) ==
    /\ stage[r] = "dispatched"
    /\ txState[r] = "inserted"
    /\ effects' \in {effects, effects \cup {r}}
    /\ Goto(r, "projected")
    /\ UNCHANGED <<auditVars, verdicts, ledger, dispatched, answer>>

CommitResult(r) ==
    /\ stage[r] = "projected"
    /\ Commit(r)
    /\ Goto(r, "committed")
    /\ UNCHANGED <<verdicts, executionVars>>

Answer(r) ==
    /\ stage[r] = "committed"
    /\ answer' = [answer EXCEPT ![r] = r]
    /\ Goto(r, "answered")
    /\ UNCHANGED <<auditVars, verdicts, ledger, dispatched, effects>>

Ended == {"answered", "failed", "raised"}

\* The process or its connection dies: before the commit everything is rolled
\* back; after it only the answer is lost.
Crash(r) ==
    /\ stage[r] \notin Ended
    /\ \/ txState[r] \notin {"committed", "aborted"} /\ Discard(r)
       \/ txState[r] \in {"committed", "aborted"}
          /\ UNCHANGED <<auditVars, verdicts, ledger, effects, answer>>
    /\ Goto(r, "failed")
    /\ UNCHANGED dispatched

ExecutionStep(r) ==
    \/ Lookup(r)
    \/ InsertPending(r)
    \/ InsertRefused(r)
    \/ LookupAgain(r)
    \/ Dispatch(r)
    \/ DispatchRaises(r)
    \/ AuditResult(r)
    \/ Project(r)
    \/ CommitResult(r)
    \/ Answer(r)
    \/ Crash(r)

\* Every call has ended, one way or another.
Terminated == \A t \in Tx : stage[t] \in Ended

Next ==
    \/ \E e \in Evaluation : PolicyStep(e) /\ UNCHANGED executionVars
    \/ \E r \in Request : ExecutionStep(r)
    \/ Terminated /\ UNCHANGED vars

Spec == ExecutionInit /\ [][Next]_vars

(***************************************************************************)
(* Nothing obliges a call to fail; every call that can go on does.  The    *)
(* waits, on a rival's key and on the advisory lock, are Postgres queues.  *)
(***************************************************************************)
Progress(t) ==
    \/ t \in Evaluation /\ UNCHANGED executionVars
          /\ (FlushVerdict(t) \/ AuditVerdict(t) \/ CommitVerdict(t))
    \/ t \in Request
          /\ \/ Lookup(t) \/ InsertPending(t) \/ InsertRefused(t) \/ LookupAgain(t)
             \/ Dispatch(t) \/ AuditResult(t) \/ Project(t) \/ CommitResult(t) \/ Answer(t)

FairSpec == Spec /\ \A t \in Tx : WF_vars(Progress(t))
-----------------------------------------------------------------------------
RowType ==
    [key : Key, request : Request, verdict : Evaluation,
     status : {"pending", "succeeded"}, reference : Request \cup {NoAnswer}]

Stages == {"new", "flushed", "missed", "refused", "pending", "dispatched", "projected",
           "committed"} \cup Ended

\* Type correctness of the two services' state.
TypeOK ==
    /\ AuditTypeOK
    /\ verdicts \subseteq Evaluation
    /\ stage \in [Tx -> Stages]
    /\ ledger \subseteq RowType
    /\ dispatched \subseteq Request
    /\ effects \subseteq Request
    /\ answer \in [Request -> Request \cup {NoAnswer}]

\* "UNIQUE key enforces at-most-once even under a race" (service.py:4): of the
\* requests with one key that reached the legacy system, at most one has not
\* been rolled back, whatever lookups, inserts and retries interleave.
AtMostOnceUnderRace ==
    \A r, s \in dispatched :
        KeyOf[r] = KeyOf[s] /\ txState[r] # "aborted" /\ txState[s] # "aborted" => r = s

\* "No action without a verdict" (models/execution.py:4), in the audit's order: in
\* the chain, the entry of the verdict comes before that of the action it allowed.
VerdictAuditedFirst ==
    \A row \in CommittedRows :
        \E v, a \in Committed :
            /\ v.event = row.verdict /\ v.label = "policy_verdict"
            /\ a.event = row.request /\ a.label = "execution_result"
            /\ v.seq < a.seq

\* Nothing is audited that was undone: the verdict or the succeeded action that
\* an entry reports is committed with it.
EntriesBacked ==
    \A entry \in Committed :
        \/ entry.label = "policy_verdict" /\ entry.event \in CommittedVerdicts
        \/ /\ entry.label = "execution_result"
           /\ \E row \in CommittedRows : /\ row.request = entry.event
                                         /\ row.status = "succeeded"
                                         /\ row.reference \in dispatched

\* A payment, plan change or SIM case is on the books only with the succeeded row
\* and the audit entry of its own dispatch beside it, and once per key: the three
\* are kept or undone together, wherever the call failed or lost its race.
EffectsBacked ==
    \A r \in effects :
        /\ \E row \in ledger : /\ row.request = r
                               /\ row.status = "succeeded"
                               /\ row.reference \in dispatched
        /\ \E entry \in table : entry.event = r /\ txState[entry.tx] # "aborted"
        /\ \A s \in effects : KeyOf[s] = KeyOf[r] => s = r

\* The service implements the idempotent store its callers rely on: one
\* reference per key, and every answer, first or replayed, is that reference.
DoneFor(k) ==
    IF ByKey(k) = {} THEN NoAnswer ELSE (CHOOSE row \in ByKey(k) : TRUE).reference

Idempotent == INSTANCE IdempotentActions WITH done <- [k \in Key |-> DoneFor(k)]

ImplementsIdempotence == Idempotent!Spec

\* Callers blocked on a key or on the audit chain are all released in the end.
CallsEnd == \A t \in Tx : stage[t] # "new" ~> stage[t] \in Ended

\* "the ledger still records the attempt" (executor.py:58).
FailedDispatchRecorded ==
    \A r \in Request : stage[r] = "raised" => \E row \in CommittedRows : row.request = r
=============================================================================
