---------------------------- MODULE PolicyService ----------------------------
(***************************************************************************)
(* policy-service: every evaluation persists its verdict and the audit     *)
(* entry that records it in one transaction (service.py, _persist).  What  *)
(* the verdict is, the pure engine decides: see PolicyEngine.              *)
(*                                                                         *)
(* An evaluation is one HTTP request and one database transaction; it is   *)
(* also the id of the verdict it creates.                                  *)
(***************************************************************************)
EXTENDS AuditLedger

CONSTANTS Evaluation  \* the evaluations, each the transaction that persists it

ASSUME EvaluationAssumption ==
    /\ Evaluation \subseteq Tx
    /\ Tx \subseteq Event
    /\ "policy_verdict" \in Label

VARIABLES verdicts,  \* policy.policy_verdicts, with the rows not yet committed
          stage      \* how far each service call has come

policyVars == <<verdicts, stage>>

\* The verdicts that another transaction can see.
CommittedVerdicts == {e \in verdicts : txState[e] = "committed"}

PolicyInit == verdicts = {} /\ stage = [t \in Tx |-> "new"]

\* session.add(verdict); session.flush()
FlushVerdict(e) ==
    /\ stage[e] = "new"
    /\ verdicts' = verdicts \cup {e}
    /\ stage' = [stage EXCEPT ![e] = "flushed"]
    /\ UNCHANGED auditVars

\* The statements of PgAuditLedger.append, one by one.
AuditAppend(t, label) ==
    \/ CallAppend(t)
    \/ AcquireLock(t)
    \/ ReadLast(t)
    \/ InsertRow(t, t, label)

AuditVerdict(e) ==
    /\ stage[e] = "flushed"
    /\ AuditAppend(e, "policy_verdict")
    /\ UNCHANGED policyVars

CommitVerdict(e) ==
    /\ stage[e] = "flushed"
    /\ Commit(e)
    /\ stage' = [stage EXCEPT ![e] = "answered"]
    /\ UNCHANGED verdicts

\* An exception, a lost connection or a crash: the verdict goes with the entry.
FailEvaluation(e) ==
    /\ stage[e] \in {"new", "flushed"}
    /\ Rollback(e)
    /\ verdicts' = verdicts \ {e}
    /\ stage' = [stage EXCEPT ![e] = "failed"]

PolicyStep(e) ==
    \/ FlushVerdict(e)
    \/ AuditVerdict(e)
    \/ CommitVerdict(e)
    \/ FailEvaluation(e)
=============================================================================
