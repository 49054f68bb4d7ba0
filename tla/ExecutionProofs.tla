--------------------------- MODULE ExecutionProofs ---------------------------
(***************************************************************************)
(* The two services' safety, for any requests, evaluations and keys.       *)
(*                                                                         *)
(* Every step of a service is a step of the audit ledger or leaves it      *)
(* alone, so the ledger's theorems hold of the composition.  On top of     *)
(* them, ServiceInv ties the stage of each call to its transaction, its    *)
(* row and its audit entry; uniqueness of the key is needed of uncommitted *)
(* rows too, because that is what a blocked insert waits for.              *)
(***************************************************************************)
EXTENDS ExecutionService, AuditLedgerProofs

Open == {"idle", "waiting", "locked", "read", "inserted"}

EvaluationStage(e) ==
    \/ stage[e] = "new" /\ txState[e] = "idle" /\ e \notin verdicts
    \/ stage[e] = "flushed" /\ txState[e] \in Open /\ e \in verdicts
    \/ stage[e] = "answered" /\ txState[e] = "committed" /\ e \in verdicts
    \/ stage[e] = "failed" /\ txState[e] = "aborted" /\ e \notin verdicts

HasRow(r) == \E row \in ledger : row.request = r

RequestStage(r) ==
    \/ stage[r] \in {"new", "missed"} /\ txState[r] = "idle" /\ ~HasRow(r) /\ r \notin dispatched
    \/ stage[r] = "pending" /\ txState[r] = "idle" /\ HasRow(r) /\ r \notin dispatched
    \/ stage[r] = "dispatched" /\ txState[r] \in Open /\ HasRow(r)
    \/ stage[r] = "projected" /\ txState[r] = "inserted" /\ HasRow(r)
    \/ stage[r] \in {"committed", "answered", "failed"} /\ txState[r] = "committed" /\ HasRow(r)
    \/ stage[r] = "answered" /\ txState[r] = "idle" /\ ~HasRow(r) /\ r \notin dispatched
    \/ stage[r] \in {"refused", "answered", "failed", "raised"} /\ txState[r] = "aborted" /\ ~HasRow(r)

StageInv ==
    /\ \A e \in Evaluation : EvaluationStage(e)
    /\ \A r \in Request : RequestStage(r)
    /\ \A r \in Request : stage[r] # "answered" => answer[r] = NoAnswer

\* A row says what its request asked, under a committed verdict, and is marked
\* succeeded exactly when its request has been dispatched.
RowSays(row) ==
    /\ row.key = KeyOf[row.request]
    /\ row.verdict = VerdictOf[row.request]
    /\ row.verdict \in CommittedVerdicts
    /\ IF stage[row.request] = "pending"
       THEN row.reference = NoAnswer
       ELSE /\ row.status = "succeeded"
            /\ row.reference = row.request
            /\ row.request \in dispatched

RowContents == \A row \in ledger : RowSays(row)

KeyUnique == \A p, q \in ledger : p.key = q.key => p = q

\* An entry is about the call whose transaction wrote it, and is there as soon
\* as that transaction has inserted.
EntryInv ==
    /\ \A entry \in table :
          /\ entry.event = entry.tx
          /\ entry.label = IF entry.tx \in Evaluation THEN "policy_verdict" ELSE "execution_result"
    /\ \A t \in Tx : txState[t] \in {"inserted", "committed"} => \E entry \in table : entry.tx = t

\* The entry of an action comes after that of its verdict, committed or not.
OrderInv ==
    \A row \in ledger : \A v, a \in table :
        v.tx = row.verdict /\ a.tx = row.request => v.seq < a.seq

ServiceInv ==
    TypeOK /\ StageInv /\ RowContents /\ KeyUnique /\ EntryInv /\ OrderInv
-----------------------------------------------------------------------------
\* Every step of a call is one of its transaction on the ledger, or none.
LEMMA PolicyStepAudit ==
  ASSUME NEW e \in Evaluation, PolicyStep(e)
  PROVE  AuditStep(e) \/ UNCHANGED auditVars
  BY EvaluationAssumption DEF PolicyStep, FlushVerdict, AuditVerdict, AuditAppend,
      CommitVerdict,
     FailEvaluation, AuditStep

\* A step of execution-service is, for the audit ledger, a step of its own or none.
LEMMA ExecutionStepAudit ==
  ASSUME NEW r \in Request, ExecutionStep(r)
  PROVE  AuditStep(r) \/ UNCHANGED auditVars
<1> USE EvaluationAssumption, RequestAssumption DEF AuditStep
<1>1. CASE AuditResult(r) BY <1>1 DEF AuditResult, AuditAppend
<1>2. CASE InsertRefused(r) \/ DispatchRaises(r) \/ CommitResult(r) \/ Crash(r)
  BY <1>2 DEF InsertRefused, DispatchRaises, Discard, CommitResult, Crash
<1>3. CASE Lookup(r) \/ InsertPending(r) \/ LookupAgain(r) \/ Dispatch(r) \/ Project(r) \/ Answer(r)
  BY <1>3 DEF Lookup, InsertPending, LookupAgain, Replay, Dispatch, Project, Answer
<1> QED BY <1>1, <1>2, <1>3 DEF ExecutionStep

\* The composition implements the ledger, so what is proved of it holds here.
THEOREM ServicesUseLedger == Spec => AuditSpec
<1>1. ExecutionInit => AuditInit
  BY DEF ExecutionInit
<1>2. [Next]_vars => [AuditNext]_auditVars
  BY PolicyStepAudit, ExecutionStepAudit, EvaluationAssumption, RequestAssumption
     DEF Next, AuditNext, vars
<1> QED BY <1>1, <1>2, PTL DEF Spec, AuditSpec
-----------------------------------------------------------------------------
\* The services start in the invariant: nothing is stored.
LEMMA InitServiceInv == ExecutionInit => ServiceInv
  BY EvaluationAssumption, RequestAssumption, NoTxAssumption
     DEF ExecutionInit, AuditInit, PolicyInit, ServiceInv, TypeOK, AuditTypeOK, TxStates,
         Stages,
     Ended, StageInv, EvaluationStage, RequestStage, HasRow, RowContents, RowSays, KeyUnique, EntryInv, OrderInv

\* Marking a row succeeded keeps its key, request and verdict.
Marked(row, r) ==
    IF row.request = r THEN [row EXCEPT !.status = "succeeded", !.reference = r] ELSE row

\* What Dispatch does to the action ledger, row by row.
LEMMA DispatchMarks ==
  ASSUME NEW r \in Request, ledger \subseteq RowType, Dispatch(r)
  PROVE  /\ ledger' = {Marked(row, r) : row \in ledger}
         /\ \A row \in ledger :
               /\ Marked(row, r) \in RowType
               /\ Marked(row, r).key = row.key
               /\ Marked(row, r).request = row.request
               /\ Marked(row, r).verdict = row.verdict
               /\ row.request = r => /\ Marked(row, r).status = "succeeded"
                                     /\ Marked(row, r).reference = r
               /\ row.request # r => Marked(row, r) = row
<1>1. ledger' = {Marked(row, r) : row \in ledger}
  BY DEF Dispatch, Marked
<1>2. ASSUME NEW row \in ledger, row.request = r
      PROVE  Marked(row, r) = [key |-> row.key, request |-> row.request, verdict |-> row.verdict,
                               status |-> "succeeded", reference |-> r]
  BY <1>2 DEF Marked, RowType
<1>3. ASSUME NEW row \in ledger, row.request # r
      PROVE  Marked(row, r) = row
  BY <1>3 DEF Marked
<1> QED BY <1>1, <1>2, <1>3 DEF RowType

\* Type correctness of the services, given that of the ledger.
LEMMA TypePolicy ==
  ASSUME ServiceInv, LedgerInv, NEW e \in Evaluation, PolicyStep(e), UNCHANGED executionVars
  PROVE  TypeOK'
<1> USE EvaluationAssumption, RequestAssumption DEF ServiceInv, TypeOK, AuditTypeOK, TxStates,
    Stages, Ended, RowType, RowContents, RowSays, auditVars, policyVars, executionVars,
    CommittedVerdicts
<1>0. ServiceInv /\ LedgerInv OBVIOUS
<1>1. CASE FlushVerdict(e) BY <1>0, <1>1 DEF FlushVerdict
<1>2. CASE AuditVerdict(e)
  BY <1>0, <1>2 DEF AuditVerdict, AuditAppend, CallAppend, AcquireLock, ReadLast, InsertRow,
     NewRow
<1>3. CASE CommitVerdict(e) BY <1>0, <1>3 DEF CommitVerdict, Commit
<1>4. CASE FailEvaluation(e) BY <1>0, <1>4 DEF FailEvaluation, Rollback
<1> QED BY <1>1, <1>2, <1>3, <1>4 DEF PolicyStep

\* execution-service keeps the types.
LEMMA TypeExecution ==
  ASSUME ServiceInv, LedgerInv, NEW r \in Request, ExecutionStep(r)
  PROVE  TypeOK'
<1> USE EvaluationAssumption, RequestAssumption DEF ServiceInv, TypeOK, AuditTypeOK, TxStates,
    Stages, Ended, RowType, RowContents, RowSays, auditVars, policyVars, executionVars,
    CommittedVerdicts
<1>0. ServiceInv /\ LedgerInv OBVIOUS
<1>1. CASE Lookup(r) BY <1>0, <1>1 DEF Lookup, Replay, Goto, ByKey, CommittedRows
<1>2. CASE InsertPending(r) BY <1>0, <1>2 DEF InsertPending, PendingRow, Goto
<1>3. CASE InsertRefused(r) BY <1>0, <1>3 DEF InsertRefused, Rollback, Goto
<1>4. CASE LookupAgain(r) BY <1>0, <1>4 DEF LookupAgain, Replay, Goto, ByKey, CommittedRows
<1>5. CASE Dispatch(r)
  <2>1. ledger' \subseteq RowType BY <1>0, <1>5, DispatchMarks
  <2> QED BY <1>0, <1>5, <2>1 DEF Dispatch, Goto
<1>6. CASE DispatchRaises(r) BY <1>0, <1>6 DEF DispatchRaises, Discard, Rollback, Goto
<1>7. CASE AuditResult(r)
  BY <1>0, <1>7 DEF AuditResult, AuditAppend, CallAppend, AcquireLock, ReadLast, InsertRow,
     NewRow
<1>8. CASE Project(r) BY <1>0, <1>8 DEF Project, Goto
<1>9. CASE CommitResult(r) BY <1>0, <1>9 DEF CommitResult, Commit, Goto
<1>10. CASE Answer(r) BY <1>0, <1>10 DEF Answer, Goto
<1>11. CASE Crash(r) BY <1>0, <1>11 DEF Crash, Discard, Rollback, Goto
<1> QED BY <1>1, <1>2, <1>3, <1>4, <1>5, <1>6, <1>7, <1>8, <1>9, <1>10, <1>11 DEF ExecutionStep

\* The fields of the row that InsertPending adds.
LEMMA PendingFacts ==
  ASSUME NEW r \in Request, InsertPending(r)
  PROVE  /\ ledger' = ledger \cup {PendingRow(r)}
         /\ PendingRow(r).key = KeyOf[r]
         /\ PendingRow(r).request = r
         /\ PendingRow(r).verdict = VerdictOf[r]
         /\ PendingRow(r).reference = NoAnswer
  BY DEF InsertPending, PendingRow

\* The steps of an append: only the insert writes, and what it writes.
LEMMA AppendFacts ==
  ASSUME NEW t \in Tx, NEW label, AuditAppend(t, label)
  PROVE  \/ /\ UNCHANGED table
            /\ \E s \in {"waiting", "locked", "read"} : txState' = [txState EXCEPT ![t] = s]
         \/ /\ table' = table \cup {NewRow(t, t, label)}
            /\ txState[t] = "read"
            /\ txState' = [txState EXCEPT ![t] = "inserted"]
            /\ NewRow(t, t, label).tx = t
            /\ NewRow(t, t, label).event = t
            /\ NewRow(t, t, label).label = label
            /\ NewRow(t, t, label).seq = nextSeq
  BY DEF AuditAppend, CallAppend, AcquireLock, ReadLast, InsertRow, NewRow

\* The stage of a call says how far its transaction is and whether it has a row.
LEMMA StagePolicy ==
  ASSUME ServiceInv, LedgerInv, NEW e \in Evaluation, PolicyStep(e), UNCHANGED executionVars
  PROVE  StageInv'
<1> USE EvaluationAssumption, RequestAssumption DEF ServiceInv, TypeOK, AuditTypeOK, TxStates,
    Stages, Ended, StageInv, EvaluationStage, RequestStage, HasRow, Open, auditVars, policyVars,
    executionVars
<1>0. ServiceInv /\ LedgerInv OBVIOUS
<1>1. CASE FlushVerdict(e) BY <1>0, <1>1 DEF FlushVerdict
<1>2. CASE AuditVerdict(e)
  BY <1>0, <1>2 DEF AuditVerdict, AuditAppend, CallAppend, AcquireLock, ReadLast, InsertRow,
     NewRow
<1>3. CASE CommitVerdict(e) BY <1>0, <1>3 DEF CommitVerdict, Commit
<1>4. CASE FailEvaluation(e) BY <1>0, <1>4 DEF FailEvaluation, Rollback
<1> QED BY <1>1, <1>2, <1>3, <1>4 DEF PolicyStep

\* A dispatch moves its own call to the next stage and leaves the others where they are.
LEMMA StageDispatch ==
  ASSUME ServiceInv, NEW r \in Request, Dispatch(r)
  PROVE  StageInv'
<1>1. /\ r \in Tx /\ stage \in [Tx -> Stages] /\ stage[r] = "pending"
      /\ stage' = [stage EXCEPT ![r] = "dispatched"]
      /\ dispatched' = dispatched \cup {r}
      /\ UNCHANGED <<auditVars, verdicts, answer>>
  BY RequestAssumption DEF ServiceInv, TypeOK, Dispatch, Goto
<1>2. \A s \in Request : HasRow(s)' <=> HasRow(s)
  BY DispatchMarks DEF ServiceInv, TypeOK, HasRow
<1>3. UNCHANGED txState BY <1>1 DEF auditVars
<1>4. ASSUME NEW e \in Evaluation PROVE EvaluationStage(e)'
  <2>1. EvaluationStage(e) BY DEF ServiceInv, StageInv
  <2>2. e # r /\ e \in Tx BY RequestAssumption
  <2>3. stage'[e] = stage[e] BY <1>1, <2>2
  <2> QED BY <1>1, <1>3, <2>1, <2>3 DEF EvaluationStage
<1>5. ASSUME NEW s \in Request PROVE RequestStage(s)'
  <2>1. RequestStage(s) /\ s \in Tx BY RequestAssumption DEF ServiceInv, StageInv
  <2>2. CASE s # r
    <3>1. stage'[s] = stage[s] /\ (s \in dispatched' <=> s \in dispatched) BY <1>1, <2>1, <2>2
    <3> QED BY <1>2, <1>3, <2>1, <3>1 DEF RequestStage
  <2>3. CASE s = r
    <3>1. stage'[r] = "dispatched" /\ r \in dispatched' BY <1>1
    <3>2. txState'[r] = "idle" /\ HasRow(r)' BY <1>1, <1>2, <1>3, <2>1, <2>3 DEF RequestStage
    <3> QED BY <2>3, <3>1, <3>2 DEF RequestStage, Open
  <2> QED BY <2>2, <2>3
<1>6. ASSUME NEW s \in Request, stage'[s] # "answered" PROVE answer'[s] = NoAnswer
  <2>1. stage[s] # "answered" BY <1>1, <1>6, RequestAssumption
  <2> QED BY <1>1, <2>1 DEF ServiceInv, StageInv
<1> QED BY <1>4, <1>5, <1>6 DEF StageInv

\* execution-service keeps each transaction where its stage says it is.
LEMMA StageExecution ==
  ASSUME ServiceInv, LedgerInv, NEW r \in Request, ExecutionStep(r)
  PROVE  StageInv'
<1> USE EvaluationAssumption, RequestAssumption DEF ServiceInv, TypeOK, AuditTypeOK, TxStates,
    Stages, Ended, StageInv, EvaluationStage, RequestStage, HasRow, Open, auditVars, policyVars,
    executionVars
<1>0. ServiceInv /\ LedgerInv OBVIOUS
<1>1. CASE Lookup(r) BY <1>0, <1>1 DEF Lookup, Replay, Goto, ByKey, CommittedRows
<1>2. CASE InsertPending(r)
  <2>1. HasRow(r)' BY <1>2, PendingFacts
  <2>2. \A s \in Request : s # r => (HasRow(s)' <=> HasRow(s)) BY <1>2, PendingFacts
  <2> QED BY <1>0, <1>2, <2>1, <2>2 DEF InsertPending, Goto
<1>3. CASE InsertRefused(r) BY <1>0, <1>3 DEF InsertRefused, Rollback, Goto
<1>4. CASE LookupAgain(r) BY <1>0, <1>4 DEF LookupAgain, Replay, Goto, ByKey, CommittedRows
<1>5. CASE Dispatch(r) BY <1>5, StageDispatch
<1>6. CASE DispatchRaises(r) BY <1>0, <1>6 DEF DispatchRaises, Discard, Rollback, Goto
<1>7. CASE AuditResult(r)
  BY <1>0, <1>7 DEF AuditResult, AuditAppend, CallAppend, AcquireLock, ReadLast, InsertRow,
     NewRow
<1>8. CASE Project(r) BY <1>0, <1>8 DEF Project, Goto
<1>9. CASE CommitResult(r) BY <1>0, <1>9 DEF CommitResult, Commit, Goto
<1>10. CASE Answer(r) BY <1>0, <1>10 DEF Answer, Goto
<1>11. CASE Crash(r) BY <1>0, <1>11 DEF Crash, Discard, Rollback, Goto
<1> QED BY <1>1, <1>2, <1>3, <1>4, <1>5, <1>6, <1>7, <1>8, <1>9, <1>10, <1>11 DEF ExecutionStep

\* A row keeps saying what its request asked.
LEMMA RowsPolicy ==
  ASSUME ServiceInv, LedgerInv, NEW e \in Evaluation, PolicyStep(e), UNCHANGED executionVars
  PROVE  RowContents'
<1> USE EvaluationAssumption, RequestAssumption DEF ServiceInv, TypeOK, AuditTypeOK, StageInv,
    EvaluationStage, RequestStage, HasRow, Open, Ended, RowContents, RowSays, CommittedVerdicts,
    auditVars, policyVars, executionVars
<1>0. ServiceInv /\ LedgerInv OBVIOUS
<1>1. CASE FlushVerdict(e) BY <1>0, <1>1 DEF FlushVerdict
<1>2. CASE AuditVerdict(e)
  BY <1>0, <1>2 DEF AuditVerdict, AuditAppend, CallAppend, AcquireLock, ReadLast, InsertRow,
     NewRow
<1>3. CASE CommitVerdict(e) BY <1>0, <1>3 DEF CommitVerdict, Commit
<1>4. CASE FailEvaluation(e) BY <1>0, <1>4 DEF FailEvaluation, Rollback
<1> QED BY <1>1, <1>2, <1>3, <1>4 DEF PolicyStep

\* execution-service keeps the rows as their stages say.
LEMMA RowsExecution ==
  ASSUME ServiceInv, LedgerInv, NEW r \in Request, ExecutionStep(r)
  PROVE  RowContents'
<1> USE EvaluationAssumption, RequestAssumption DEF ServiceInv, TypeOK, AuditTypeOK, StageInv,
    EvaluationStage, RequestStage, HasRow, Open, Ended, RowContents, RowSays, CommittedVerdicts,
    auditVars, policyVars, executionVars
<1>0. ServiceInv /\ LedgerInv OBVIOUS
<1>1. CASE Lookup(r)
  <2>1. \A row \in ledger : row.request # r BY <1>0, <1>1 DEF Lookup
  <2> QED BY <1>0, <1>1, <2>1 DEF Lookup, Replay, Goto, RowType
<1>2. CASE InsertPending(r) BY <1>0, <1>2 DEF InsertPending, PendingRow, Goto
<1>3. CASE InsertRefused(r) BY <1>0, <1>3 DEF InsertRefused, Rollback, Goto
<1>4. CASE LookupAgain(r)
  <2>1. \A row \in ledger : row.request # r BY <1>0, <1>4 DEF LookupAgain
  <2> QED BY <1>0, <1>4, <2>1 DEF LookupAgain, Replay, Goto, RowType
<1>5. CASE Dispatch(r)
  <2>1. \A row \in ledger : row \in RowType BY <1>0
  <2>2. ASSUME NEW new \in ledger' PROVE RowSays(new)'
    <3>1. PICK row \in ledger : new = Marked(row, r) BY <1>0, <1>5, DispatchMarks
    <3>2. new.request = row.request /\ new.key = row.key /\ new.verdict = row.verdict
      BY <1>0, <1>5, <3>1, DispatchMarks
    <3>3. verdicts' = verdicts /\ txState' = txState /\ RowSays(row)
      BY <1>0, <1>5, <3>1 DEF Dispatch, auditVars
    <3>4. CASE row.request = r
      <4>1. new.status = "succeeded" /\ new.reference = r BY <1>0, <1>5, <3>1, <3>4, DispatchMarks
      <4>2. stage'[r] = "dispatched" /\ r \in dispatched' BY <1>0, <1>5 DEF Dispatch, Goto
      <4> QED BY <3>2, <3>3, <3>4, <4>1, <4>2
    <3>5. CASE row.request # r
      <4>1. new = row BY <1>0, <1>5, <3>1, <3>5, DispatchMarks
      <4>2. stage'[row.request] = stage[row.request]
        BY <1>0, <1>5, <2>1, <3>5 DEF Dispatch, Goto, RowType
      <4>3. dispatched \subseteq dispatched' BY <1>5 DEF Dispatch
      <4> QED BY <3>3, <4>1, <4>2, <4>3
    <3> QED BY <3>4, <3>5
  <2> QED BY <2>2
<1>6. CASE DispatchRaises(r) BY <1>0, <1>6 DEF DispatchRaises, Discard, Rollback, Goto
<1>7. CASE AuditResult(r)
  BY <1>0, <1>7 DEF AuditResult, AuditAppend, CallAppend, AcquireLock, ReadLast, InsertRow,
     NewRow
<1>8. CASE Project(r) BY <1>0, <1>8 DEF Project, Goto
<1>9. CASE CommitResult(r) BY <1>0, <1>9 DEF CommitResult, Commit, Goto
<1>10. CASE Answer(r) BY <1>0, <1>10 DEF Answer, Goto
<1>11. CASE Crash(r) BY <1>0, <1>11 DEF Crash, Discard, Rollback, Goto
<1> QED BY <1>1, <1>2, <1>3, <1>4, <1>5, <1>6, <1>7, <1>8, <1>9, <1>10, <1>11 DEF ExecutionStep

\* The unique key is kept, uncommitted rows included.
LEMMA KeyPolicy ==
  ASSUME ServiceInv, LedgerInv, NEW e \in Evaluation, PolicyStep(e), UNCHANGED executionVars
  PROVE  KeyUnique'
<1> USE EvaluationAssumption, RequestAssumption DEF ServiceInv, TypeOK, RowType, KeyUnique,
    RowContents, RowSays, auditVars, policyVars, executionVars
<1>0. ServiceInv /\ LedgerInv OBVIOUS
<1>1. CASE FlushVerdict(e) BY <1>0, <1>1 DEF FlushVerdict
<1>2. CASE AuditVerdict(e)
  BY <1>0, <1>2 DEF AuditVerdict, AuditAppend, CallAppend, AcquireLock, ReadLast, InsertRow,
     NewRow
<1>3. CASE CommitVerdict(e) BY <1>0, <1>3 DEF CommitVerdict, Commit
<1>4. CASE FailEvaluation(e) BY <1>0, <1>4 DEF FailEvaluation, Rollback
<1> QED BY <1>1, <1>2, <1>3, <1>4 DEF PolicyStep

\* execution-service keeps the keys of live rows unique.
LEMMA KeyExecution ==
  ASSUME ServiceInv, LedgerInv, NEW r \in Request, ExecutionStep(r)
  PROVE  KeyUnique'
<1> USE EvaluationAssumption, RequestAssumption DEF ServiceInv, TypeOK, RowType, KeyUnique,
    RowContents, RowSays, auditVars, policyVars, executionVars
<1>0. ServiceInv /\ LedgerInv OBVIOUS
<1>1. CASE Lookup(r) BY <1>0, <1>1 DEF Lookup, Replay, Goto, ByKey, CommittedRows
<1>2. CASE InsertPending(r)
  <2>1. \A row \in ledger : row.key # KeyOf[r]
    BY <1>0, <1>2 DEF InsertPending, UncommittedRivals, ByKey, CommittedRows, StageInv,
        RequestStage, HasRow
  <2> QED BY <1>0, <1>2, <2>1, PendingFacts
<1>3. CASE InsertRefused(r) BY <1>0, <1>3 DEF InsertRefused, Rollback, Goto
<1>4. CASE LookupAgain(r) BY <1>0, <1>4 DEF LookupAgain, Replay, Goto, ByKey, CommittedRows
<1>5. CASE Dispatch(r)
  <2>1. \A new \in ledger' : \E row \in ledger : new = Marked(row, r) /\ new.key = row.key
    BY <1>0, <1>5, DispatchMarks
  <2> QED BY <1>0, <2>1
<1>6. CASE DispatchRaises(r) BY <1>0, <1>6 DEF DispatchRaises, Discard, Rollback, Goto
<1>7. CASE AuditResult(r)
  BY <1>0, <1>7 DEF AuditResult, AuditAppend, CallAppend, AcquireLock, ReadLast, InsertRow,
     NewRow
<1>8. CASE Project(r) BY <1>0, <1>8 DEF Project, Goto
<1>9. CASE CommitResult(r) BY <1>0, <1>9 DEF CommitResult, Commit, Goto
<1>10. CASE Answer(r) BY <1>0, <1>10 DEF Answer, Goto
<1>11. CASE Crash(r) BY <1>0, <1>11 DEF Crash, Discard, Rollback, Goto
<1> QED BY <1>1, <1>2, <1>3, <1>4, <1>5, <1>6, <1>7, <1>8, <1>9, <1>10, <1>11 DEF ExecutionStep

\* An entry is about the call that wrote it.
LEMMA EntryPolicy ==
  ASSUME ServiceInv, LedgerInv, NEW e \in Evaluation, PolicyStep(e), UNCHANGED executionVars
  PROVE  EntryInv'
<1> USE EvaluationAssumption, RequestAssumption DEF ServiceInv, TypeOK, AuditTypeOK, TxStates,
    EntryInv, auditVars, policyVars, executionVars
<1>0. ServiceInv /\ LedgerInv OBVIOUS
<1>1. CASE FlushVerdict(e) BY <1>0, <1>1 DEF FlushVerdict
<1>2. CASE AuditVerdict(e)
  <2>1. \A t \in {e} : t \in Tx OBVIOUS
  <2>2. AuditAppend(e, "policy_verdict") BY <1>2 DEF AuditVerdict
  <2> QED BY <1>0, <2>1, <2>2, AppendFacts
<1>3. CASE CommitVerdict(e) BY <1>0, <1>3 DEF CommitVerdict, Commit
<1>4. CASE FailEvaluation(e) BY <1>0, <1>4 DEF FailEvaluation, Rollback
<1> QED BY <1>1, <1>2, <1>3, <1>4 DEF PolicyStep

\* execution-service keeps every entry that counts backed by what it reports.
LEMMA EntryExecution ==
  ASSUME ServiceInv, LedgerInv, NEW r \in Request, ExecutionStep(r)
  PROVE  EntryInv'
<1> USE EvaluationAssumption, RequestAssumption DEF ServiceInv, TypeOK, AuditTypeOK, TxStates,
    EntryInv, auditVars, policyVars, executionVars
<1>0. ServiceInv /\ LedgerInv OBVIOUS
<1>1. CASE Lookup(r) BY <1>0, <1>1 DEF Lookup, Replay, Goto, ByKey, CommittedRows
<1>2. CASE InsertPending(r) BY <1>0, <1>2 DEF InsertPending, PendingRow, Goto
<1>3. CASE InsertRefused(r) BY <1>0, <1>3 DEF InsertRefused, Rollback, Goto
<1>4. CASE LookupAgain(r) BY <1>0, <1>4 DEF LookupAgain, Replay, Goto, ByKey, CommittedRows
<1>5. CASE Dispatch(r) BY <1>0, <1>5 DEF Dispatch, Goto
<1>6. CASE DispatchRaises(r) BY <1>0, <1>6 DEF DispatchRaises, Discard, Rollback, Goto
<1>7. CASE AuditResult(r)
  <2>1. \A t \in {r} : t \in Tx OBVIOUS
  <2>2. AuditAppend(r, "execution_result") BY <1>7 DEF AuditResult
  <2> QED BY <1>0, <2>1, <2>2, AppendFacts
<1>8. CASE Project(r) BY <1>0, <1>8 DEF Project, Goto
<1>9. CASE CommitResult(r) BY <1>0, <1>9 DEF CommitResult, Commit, Goto
<1>10. CASE Answer(r) BY <1>0, <1>10 DEF Answer, Goto
<1>11. CASE Crash(r) BY <1>0, <1>11 DEF Crash, Discard, Rollback, Goto
<1> QED BY <1>1, <1>2, <1>3, <1>4, <1>5, <1>6, <1>7, <1>8, <1>9, <1>10, <1>11 DEF ExecutionStep

\* An action is audited after its verdict.
LEMMA OrderPolicy ==
  ASSUME ServiceInv, LedgerInv, NEW e \in Evaluation, PolicyStep(e), UNCHANGED executionVars
  PROVE  OrderInv'
<1> USE EvaluationAssumption, RequestAssumption DEF ServiceInv, TypeOK, AuditTypeOK, TxStates,
    Stages, StageInv, EvaluationStage, RequestStage, HasRow, Open, RowContents, RowSays,
    CommittedVerdicts, EntryInv, OrderInv, auditVars, policyVars, executionVars
<1>0. ServiceInv /\ LedgerInv OBVIOUS
<1>1. CASE FlushVerdict(e) BY <1>0, <1>1 DEF FlushVerdict
<1>2. CASE AuditVerdict(e)
  BY <1>0, <1>2 DEF AuditVerdict, AuditAppend, CallAppend, AcquireLock, ReadLast, InsertRow,
     NewRow
<1>3. CASE CommitVerdict(e) BY <1>0, <1>3 DEF CommitVerdict, Commit
<1>4. CASE FailEvaluation(e) BY <1>0, <1>4 DEF FailEvaluation, Rollback
<1> QED BY <1>1, <1>2, <1>3, <1>4 DEF PolicyStep

\* execution-service keeps verdicts audited before their actions.
LEMMA OrderExecution ==
  ASSUME ServiceInv, LedgerInv, NEW r \in Request, ExecutionStep(r)
  PROVE  OrderInv'
<1> USE EvaluationAssumption, RequestAssumption DEF ServiceInv, TypeOK, AuditTypeOK, TxStates,
    Stages, StageInv, EvaluationStage, RequestStage, HasRow, Open, RowContents, RowSays,
    CommittedVerdicts, EntryInv, OrderInv, auditVars, policyVars, executionVars
<1>0. ServiceInv /\ LedgerInv OBVIOUS
<1>1. CASE Lookup(r) BY <1>0, <1>1 DEF Lookup, Replay, Goto, ByKey, CommittedRows
<1>2. CASE InsertPending(r)
  <2>1. \A entry \in table : entry.tx # r BY <1>0, <1>2 DEF InsertPending, LedgerInv, RowInv
  <2>2. UNCHANGED table BY <1>2 DEF InsertPending
  <2> QED BY <1>0, <1>2, <2>1, <2>2, PendingFacts
<1>3. CASE InsertRefused(r) BY <1>0, <1>3 DEF InsertRefused, Rollback, Goto
<1>4. CASE LookupAgain(r) BY <1>0, <1>4 DEF LookupAgain, Replay, Goto, ByKey, CommittedRows
<1>5. CASE Dispatch(r)
  <2>1. \A new \in ledger' : \E row \in ledger : new.request = row.request /\ new.verdict = row.verdict
    BY <1>0, <1>5, DispatchMarks
  <2>2. UNCHANGED table BY <1>5 DEF Dispatch
  <2> QED BY <1>0, <2>1, <2>2
<1>6. CASE DispatchRaises(r) BY <1>0, <1>6 DEF DispatchRaises, Discard, Rollback, Goto
<1>7. CASE AuditResult(r)
  <2>1. AuditAppend(r, "execution_result") /\ UNCHANGED ledger BY <1>7 DEF AuditResult
  <2>2. \A entry \in table : entry.seq < nextSeq BY <1>0 DEF LedgerInv, RowInv
  <2>3. \A row \in ledger : row.verdict # r BY <1>0
  <2>4. CASE UNCHANGED table BY <1>0, <2>1, <2>4
  <2>5. CASE ~UNCHANGED table
    <3>1. \A entry \in table : entry.tx # r
      BY <1>0, <2>1, <2>5, AppendFacts DEF LedgerInv, RowInv
    <3> QED BY <1>0, <2>1, <2>2, <2>3, <2>5, <3>1, AppendFacts
  <2> QED BY <2>4, <2>5
<1>8. CASE Project(r) BY <1>0, <1>8 DEF Project, Goto
<1>9. CASE CommitResult(r) BY <1>0, <1>9 DEF CommitResult, Commit, Goto
<1>10. CASE Answer(r) BY <1>0, <1>10 DEF Answer, Goto
<1>11. CASE Crash(r) BY <1>0, <1>11 DEF Crash, Discard, Rollback, Goto
<1> QED BY <1>1, <1>2, <1>3, <1>4, <1>5, <1>6, <1>7, <1>8, <1>9, <1>10, <1>11 DEF ExecutionStep
-----------------------------------------------------------------------------
\* A step that changes nothing keeps the invariant.
LEMMA StutterServiceInv ==
  ASSUME ServiceInv, UNCHANGED vars
  PROVE  ServiceInv'
<1> USE DEF vars, auditVars, policyVars, executionVars
<1>1. TypeOK' BY DEF ServiceInv, TypeOK, AuditTypeOK
<1>2. StageInv' BY DEF ServiceInv, StageInv, EvaluationStage, RequestStage, HasRow
<1>3. RowContents' BY DEF ServiceInv, RowContents, RowSays, CommittedVerdicts
<1>4. KeyUnique' /\ EntryInv' /\ OrderInv' BY DEF ServiceInv, KeyUnique, EntryInv, OrderInv
<1> QED BY <1>1, <1>2, <1>3, <1>4 DEF ServiceInv

\* The invariant is inductive, relative to the ledger's own.
LEMMA ServiceInvStep ==
  ASSUME ServiceInv, LedgerInv, [Next]_vars
  PROVE  ServiceInv'
<1>1. ASSUME NEW e \in Evaluation, PolicyStep(e), UNCHANGED executionVars
      PROVE  ServiceInv'
  BY <1>1, TypePolicy, StagePolicy, RowsPolicy, KeyPolicy, EntryPolicy, OrderPolicy DEF
      ServiceInv
<1>2. ASSUME NEW r \in Request, ExecutionStep(r)
      PROVE  ServiceInv'
  BY <1>2, TypeExecution, StageExecution, RowsExecution, KeyExecution, EntryExecution,
     OrderExecution DEF ServiceInv
<1>3. CASE UNCHANGED vars
  BY <1>3, StutterServiceInv
<1> QED BY <1>1, <1>2, <1>3 DEF Next

\* The strengthening, with the ledger's own, is an invariant of the two services.
THEOREM ServiceInvariant == Spec => [](ServiceInv /\ LedgerInv)
<1>1. Spec => []LedgerInv
  BY ServicesUseLedger, LedgerInvariant, PTL
<1>2. ExecutionInit => ServiceInv
  BY InitServiceInv
<1>3. ServiceInv /\ LedgerInv /\ [Next]_vars => ServiceInv'
  BY ServiceInvStep
<1> QED BY <1>1, <1>2, <1>3, PTL DEF Spec

\* Type correctness of both services.
THEOREM ServicesTypeCorrect == Spec => []TypeOK
  BY ServiceInvariant, PTL DEF ServiceInv

\* The unique key holds for uncommitted rows too, so however many calls carry
\* one key and race, at most one dispatch is not rolled back (service.py:4).
THEOREM AtMostOnce == Spec => []AtMostOnceUnderRace
<1>1. ServiceInv => AtMostOnceUnderRace
  <2> SUFFICES ASSUME ServiceInv, NEW r \in dispatched, NEW s \in dispatched, KeyOf[r] = KeyOf[s],
                      txState[r] # "aborted", txState[s] # "aborted"
               PROVE  r = s
    BY DEF AtMostOnceUnderRace
  <2>1. r \in Request /\ s \in Request BY DEF ServiceInv, TypeOK
  <2>2. HasRow(r) /\ HasRow(s) BY <2>1 DEF ServiceInv, StageInv, RequestStage, Open
  <2>3. PICK p \in ledger : p.request = r BY <2>2 DEF HasRow
  <2>4. PICK q \in ledger : q.request = s BY <2>2 DEF HasRow
  <2>5. p.key = q.key BY <2>3, <2>4 DEF ServiceInv, RowContents, RowSays
  <2> QED BY <2>3, <2>4, <2>5 DEF ServiceInv, KeyUnique
<1> QED BY <1>1, ServiceInvariant, PTL

\* No action without a verdict, in the order of the audit chain
\* (models/execution.py:4): OrderInv restricted to what is committed.
THEOREM VerdictFirst == Spec => []VerdictAuditedFirst
<1>1. ServiceInv => VerdictAuditedFirst
  <2> SUFFICES ASSUME ServiceInv, NEW row \in CommittedRows
               PROVE  \E v, a \in Committed :
                          /\ v.event = row.verdict /\ v.label = "policy_verdict"
                          /\ a.event = row.request /\ a.label = "execution_result"
                          /\ v.seq < a.seq
    BY DEF VerdictAuditedFirst
  <2>1. row \in ledger /\ txState[row.request] = "committed" BY DEF CommittedRows
  <2>2. row.request \in Request /\ row.verdict \in Evaluation
    BY <2>1 DEF ServiceInv, TypeOK, RowType
  <2>3. txState[row.verdict] = "committed"
    BY <2>1 DEF ServiceInv, RowContents, RowSays, CommittedVerdicts
  <2>4. row.request \in Tx /\ row.verdict \in Tx /\ row.request \notin Evaluation
    BY <2>2, RequestAssumption
  <2>5. PICK v \in table : v.tx = row.verdict BY <2>3, <2>4 DEF ServiceInv, EntryInv
  <2>6. PICK a \in table : a.tx = row.request BY <2>1, <2>4 DEF ServiceInv, EntryInv
  <2>7. v.seq < a.seq BY <2>1, <2>5, <2>6 DEF ServiceInv, OrderInv
  <2>8. v \in Committed /\ a \in Committed BY <2>1, <2>3, <2>5, <2>6 DEF Committed
  <2> QED BY <2>2, <2>4, <2>5, <2>6, <2>7, <2>8 DEF ServiceInv, EntryInv
<1> QED BY <1>1, ServiceInvariant, PTL

\* What is audited is committed with its entry: the entry and the row are of one
\* transaction (service.py:45-65, service.py:63-77).
THEOREM NothingUndoneIsAudited == Spec => []EntriesBacked
<1>1. ServiceInv => EntriesBacked
  <2> SUFFICES ASSUME ServiceInv, NEW entry \in Committed
               PROVE  \/ entry.label = "policy_verdict" /\ entry.event \in CommittedVerdicts
                      \/ /\ entry.label = "execution_result"
                         /\ \E row \in CommittedRows : /\ row.request = entry.event
                                                       /\ row.status = "succeeded"
                                                       /\ row.reference \in dispatched
    BY DEF EntriesBacked
  <2>1. entry \in table /\ txState[entry.tx] = "committed" BY DEF Committed
  <2>2. entry.event = entry.tx /\ entry.tx \in Tx
    BY <2>1 DEF ServiceInv, EntryInv, TypeOK, AuditTypeOK
  <2>3. CASE entry.tx \in Evaluation
    <3>1. entry.tx \in verdicts BY <2>1, <2>3 DEF ServiceInv, StageInv, EvaluationStage, Open
    <3> QED BY <2>1, <2>2, <2>3, <3>1 DEF ServiceInv, EntryInv, CommittedVerdicts
  <2>4. CASE entry.tx \in Request
    <3>1. HasRow(entry.tx) /\ stage[entry.tx] # "pending"
      BY <2>1, <2>4 DEF ServiceInv, StageInv, RequestStage, Open
    <3>2. PICK row \in ledger : row.request = entry.tx BY <3>1 DEF HasRow
    <3>3. row \in CommittedRows BY <2>1, <3>2 DEF CommittedRows
    <3>4. entry.label = "execution_result"
      BY <2>1, <2>4, RequestAssumption DEF ServiceInv, EntryInv
    <3> QED BY <2>2, <3>1, <3>2, <3>3, <3>4 DEF ServiceInv, RowContents, RowSays
  <2> QED BY <2>2, <2>3, <2>4, RequestAssumption
<1> QED BY <1>1, ServiceInvariant, PTL
-----------------------------------------------------------------------------
\* A domain row belongs to a transaction that has inserted its audit entry.
EffectInv == \A r \in effects : txState[r] \in {"inserted", "committed"}

\* Only the projection adds a domain row, and what aborts takes its own away.
LEMMA EffectStep ==
  ASSUME ServiceInv, LedgerInv, EffectInv, [Next]_vars
  PROVE  EffectInv'
<1> USE RequestAssumption, EvaluationAssumption
<1>0. /\ txState \in [Tx -> TxStates] /\ effects \subseteq Request
      /\ \A r \in Request : RequestStage(r)
  BY DEF ServiceInv, TypeOK, AuditTypeOK, StageInv
<1>1. ASSUME NEW e \in Evaluation, PolicyStep(e), UNCHANGED executionVars
      PROVE  EffectInv'
  <2>1. \A r \in Request : txState'[r] = txState[r]
    BY <1>0, <1>1 DEF PolicyStep, FlushVerdict, AuditVerdict, AuditAppend, CallAppend,
        AcquireLock, ReadLast, InsertRow, CommitVerdict, Commit, FailEvaluation, Rollback,
        auditVars
  <2> QED BY <1>0, <1>1, <2>1 DEF EffectInv, executionVars
<1>2. ASSUME NEW r \in Request, ExecutionStep(r)
      PROVE  EffectInv'
  <2>1. \A s \in Tx : s # r => txState'[s] = txState[s]
    BY <1>0, <1>2, ExecutionStepAudit DEF AuditStep, CallAppend, AcquireLock, ReadLast,
        InsertRow, Commit, Rollback, auditVars
  <2>2. effects' \subseteq effects \cup {r}
    BY <1>2 DEF ExecutionStep, Lookup, InsertPending, InsertRefused, LookupAgain, Replay, Dispatch,
        DispatchRaises, Discard, AuditResult, Project, CommitResult, Answer, Crash, executionVars
  <2>3. r \in effects' => txState'[r] \in {"inserted", "committed"}
    <3>1. CASE InsertRefused(r)
      <4>1. txState[r] = "idle" /\ effects' = effects
        BY <1>0, <3>1 DEF InsertRefused, RequestStage, executionVars
      <4> QED BY <4>1 DEF EffectInv
    <3>2. CASE DispatchRaises(r) \/ (Crash(r) /\ Discard(r))
      BY <3>2 DEF DispatchRaises, Discard
    <3>3. CASE AuditResult(r)
      <4>1. effects' = effects /\ r \in Tx /\ AuditAppend(r, "execution_result")
        BY <3>3 DEF AuditResult, executionVars
      <4>2. txState[r] # "inserted" /\ txState[r] # "committed"
        BY <1>0, <4>1 DEF AuditAppend, CallAppend, AcquireLock, ReadLast, InsertRow
      <4> QED BY <4>1, <4>2 DEF EffectInv
    <3>4. CASE CommitResult(r)
      BY <1>0, <3>4 DEF CommitResult, Commit
    <3>5. CASE Project(r)
      BY <3>5 DEF Project, auditVars
    <3>6. CASE \/ Lookup(r) \/ InsertPending(r) \/ LookupAgain(r) \/ Dispatch(r) \/ Answer(r)
               \/ Crash(r) /\ ~Discard(r)
      <4>1. effects' = effects /\ txState' = txState
        BY <3>6 DEF Lookup, InsertPending, LookupAgain, Replay, Dispatch, Answer, Crash,
            executionVars, auditVars
      <4> QED BY <4>1 DEF EffectInv
    <3> QED BY <1>2, <3>1, <3>2, <3>3, <3>4, <3>5, <3>6 DEF ExecutionStep
  <2> QED BY <1>0, <2>1, <2>2, <2>3 DEF EffectInv
<1>3. CASE UNCHANGED vars
  BY <1>3 DEF EffectInv, vars, executionVars, auditVars
<1> QED BY <1>1, <1>2, <1>3 DEF Next

\* The domain rows, the action ledger and the audit chain are kept or undone
\* together (service.py:60-77), for any number of requests and keys.
THEOREM EffectsAreBacked == Spec => []EffectsBacked
<1>1. ExecutionInit => EffectInv
  BY DEF ExecutionInit, EffectInv
<1>2. ServiceInv /\ LedgerInv /\ EffectInv /\ [Next]_vars => EffectInv'
  BY EffectStep
<1>3. ServiceInv /\ EffectInv => EffectsBacked
  <2> SUFFICES ASSUME ServiceInv, EffectInv, NEW r \in effects
               PROVE  /\ \E row \in ledger : /\ row.request = r
                                             /\ row.status = "succeeded"
                                             /\ row.reference \in dispatched
                      /\ \E entry \in table : entry.event = r /\ txState[entry.tx] # "aborted"
                      /\ \A s \in effects : KeyOf[s] = KeyOf[r] => s = r
    BY DEF EffectsBacked
  <2>1. ASSUME NEW s \in effects
        PROVE  \E row \in ledger : /\ row.request = s /\ row.key = KeyOf[s]
                                   /\ row.status = "succeeded"
                                   /\ row.reference \in dispatched
    <3>1. s \in Request /\ txState[s] \in {"inserted", "committed"}
      BY DEF ServiceInv, TypeOK, EffectInv
    <3>2. HasRow(s) /\ stage[s] # "pending"
      BY <3>1 DEF ServiceInv, StageInv, RequestStage
    <3>3. PICK row \in ledger : row.request = s BY <3>2 DEF HasRow
    <3> QED BY <3>2, <3>3 DEF ServiceInv, RowContents, RowSays
  <2>2. \A s \in effects : KeyOf[s] = KeyOf[r] => s = r
    BY <2>1 DEF ServiceInv, KeyUnique
  <2>3. \E entry \in table : entry.event = r /\ txState[entry.tx] # "aborted"
    <3>1. r \in Tx /\ txState[r] \in {"inserted", "committed"}
      BY RequestAssumption DEF ServiceInv, TypeOK, EffectInv
    <3>2. PICK entry \in table : entry.tx = r BY <3>1 DEF ServiceInv, EntryInv
    <3> QED BY <3>1, <3>2 DEF ServiceInv, EntryInv
  <2> QED BY <2>1, <2>2, <2>3
<1> QED BY <1>1, <1>2, <1>3, ServiceInvariant, PTL DEF Spec
-----------------------------------------------------------------------------
\* The reference recorded for a key is that of its one committed row.
LEMMA DoneIsReference ==
  ASSUME ServiceInv, NEW k \in Key
  PROVE  /\ ByKey(k) = {} => DoneFor(k) = NoAnswer
         /\ \A row \in ByKey(k) : /\ DoneFor(k) = row.request
                                  /\ row.reference = row.request
                                  /\ DoneFor(k) # NoAnswer
<1>1. ASSUME NEW row \in ByKey(k)
      PROVE  DoneFor(k) = row.request /\ row.reference = row.request /\ row.request \in Request
  <2>1. row \in ledger /\ row.key = k /\ txState[row.request] = "committed"
    BY DEF ByKey, CommittedRows
  <2>2. \A other \in ByKey(k) : other = row
    BY <2>1 DEF ByKey, CommittedRows, ServiceInv, KeyUnique
  <2>3. (CHOOSE other \in ByKey(k) : TRUE) = row BY <2>2
  <2>4. row.request \in Request BY <2>1 DEF ServiceInv, TypeOK, RowType
  <2>5. stage[row.request] # "pending"
    BY <2>1, <2>4 DEF ServiceInv, StageInv, RequestStage, Open
  <2>6. row.reference = row.request BY <2>1, <2>5 DEF ServiceInv, RowContents, RowSays
  <2> QED BY <2>3, <2>4, <2>6 DEF DoneFor
<1>2. ByKey(k) = {} => DoneFor(k) = NoAnswer BY DEF DoneFor
<1> QED BY <1>1, <1>2, RequestAssumption

\* Only the commit of an action changes the committed rows.
LEMMA OnlyCommitRecords ==
  ASSUME ServiceInv, LedgerInv
  PROVE  /\ \A e \in Evaluation :
               PolicyStep(e) /\ UNCHANGED executionVars => CommittedRows' = CommittedRows
         /\ \A r \in Request :
               ExecutionStep(r) /\ ~CommitResult(r) => CommittedRows' = CommittedRows
<1>0. ledger \subseteq RowType /\ txState \in [Tx -> TxStates] /\ StageInv
  BY DEF ServiceInv, TypeOK, AuditTypeOK
<1> USE RequestAssumption, EvaluationAssumption
<1>1. ASSUME NEW e \in Evaluation, PolicyStep(e), UNCHANGED executionVars
      PROVE  CommittedRows' = CommittedRows
  <2>1. \A r \in Request : txState'[r] = txState[r]
    BY <1>0, <1>1 DEF PolicyStep, FlushVerdict, AuditVerdict, AuditAppend, CallAppend,
        AcquireLock,
       ReadLast, InsertRow, CommitVerdict, Commit, FailEvaluation, Rollback, auditVars
  <2> QED BY <1>0, <1>1, <2>1 DEF CommittedRows, RowType, executionVars
<1>2. ASSUME NEW r \in Request, ExecutionStep(r), ~CommitResult(r)
      PROVE  CommittedRows' = CommittedRows
  <2>1. \A s \in Tx : s # r => txState'[s] = txState[s]
    BY <1>0, <1>2, ExecutionStepAudit DEF AuditStep, CallAppend, AcquireLock, ReadLast,
        InsertRow,
       Commit, Rollback, auditVars
  <2>2. txState'[r] = "committed" <=> txState[r] = "committed"
    BY <1>0, <1>2 DEF ExecutionStep, Lookup, InsertPending, InsertRefused, LookupAgain, Replay,
       Dispatch, DispatchRaises, Discard, Rollback, AuditResult, AuditAppend, CallAppend,
       AcquireLock, ReadLast, InsertRow, Project, Answer, Crash, auditVars
  <2>3. \A s \in Request : txState'[s] = "committed" <=> txState[s] = "committed"
    BY <2>1, <2>2
  <2>4. CASE Dispatch(r)
    <3>1. txState[r] = "idle" /\ txState' = txState
      BY <1>0, <2>4 DEF Dispatch, StageInv, RequestStage, auditVars
    <3> QED BY <1>0, <2>4, <3>1, DispatchMarks DEF CommittedRows
  <2>5. CASE InsertPending(r)
    <3>1. txState[r] = "idle" /\ txState' = txState
      BY <1>0, <2>5 DEF InsertPending, StageInv, RequestStage, auditVars
    <3> QED BY <1>0, <2>5, <3>1, PendingFacts DEF CommittedRows
  <2>6. CASE ~Dispatch(r) /\ ~InsertPending(r)
    <3>1. \/ ledger' = ledger
          \/ Rollback(r) /\ ledger' = {row \in ledger : row.request # r}
      BY <1>2, <2>6 DEF ExecutionStep, Lookup, InsertRefused, LookupAgain, Replay,
          DispatchRaises,
         Discard, AuditResult, Project, Answer, Crash, executionVars
    <3> QED BY <1>0, <2>3, <3>1 DEF CommittedRows, RowType, Rollback
  <2> QED BY <2>4, <2>5, <2>6
<1> QED BY <1>1, <1>2

\* The initial states implement the store's.
LEMMA InitIdempotent == ExecutionInit => Idempotent!Init
  BY DEF ExecutionInit, Idempotent!Init, DoneFor, ByKey, CommittedRows

\* Answers are given once, and are what is recorded for the key.
LEMMA AnswerRefines ==
  ASSUME ServiceInv, NEW r \in Request,
         Lookup(r) \/ LookupAgain(r) \/ Answer(r)
  PROVE  \/ answer' = answer
         \/ /\ DoneFor(KeyOf[r]) # NoAnswer
            /\ answer[r] = NoAnswer
            /\ answer' = [answer EXCEPT ![r] = DoneFor(KeyOf[r])]
<1>0. KeyOf[r] \in Key /\ answer \in [Request -> Request \cup {NoAnswer}]
  BY RequestAssumption DEF ServiceInv, TypeOK
<1>1. ASSUME Replay(r), stage[r] # "answered"
      PROVE  /\ DoneFor(KeyOf[r]) # NoAnswer
             /\ answer[r] = NoAnswer
             /\ answer' = [answer EXCEPT ![r] = DoneFor(KeyOf[r])]
  BY <1>0, <1>1, DoneIsReference DEF Replay, ServiceInv, StageInv
<1>2. CASE Lookup(r) BY <1>1, <1>2 DEF Lookup, executionVars
<1>3. CASE LookupAgain(r) BY <1>1, <1>3 DEF LookupAgain, executionVars
<1>4. CASE Answer(r)
  <2>1. stage[r] = "committed" /\ HasRow(r) /\ txState[r] = "committed"
    BY <1>4 DEF Answer, ServiceInv, StageInv, RequestStage, Open
  <2>2. PICK row \in ledger : row.request = r BY <2>1 DEF HasRow
  <2>3. row \in ByKey(KeyOf[r])
    BY <2>1, <2>2 DEF ByKey, CommittedRows, ServiceInv, RowContents, RowSays
  <2>4. DoneFor(KeyOf[r]) = r /\ r # NoAnswer BY <1>0, <2>2, <2>3, DoneIsReference, RequestAssumption
  <2> QED BY <1>4, <2>1, <2>4 DEF Answer, ServiceInv, StageInv
<1> QED BY <1>2, <1>3, <1>4

\* The commit records the reference, for a key that had none.
LEMMA CommitRefines ==
  ASSUME ServiceInv, LedgerInv, ServiceInv', NEW r \in Request, CommitResult(r)
  PROVE  /\ DoneFor(KeyOf[r]) = NoAnswer
         /\ DoneFor(KeyOf[r])' = r
         /\ \A k \in Key : k # KeyOf[r] => DoneFor(k)' = DoneFor(k)
<1> USE RequestAssumption
<1>0. ledger \subseteq RowType /\ txState \in [Tx -> TxStates] /\ KeyOf[r] \in Key
  BY DEF ServiceInv, TypeOK, AuditTypeOK
<1>1. txState[r] = "inserted" /\ HasRow(r)
  BY DEF CommitResult, Commit, ServiceInv, StageInv, RequestStage, Open
<1>2. PICK row \in ledger : row.request = r BY <1>1 DEF HasRow
<1>3. row.key = KeyOf[r] BY <1>2 DEF ServiceInv, RowContents, RowSays
<1>4. \A other \in ledger : other.key = KeyOf[r] => other = row
  BY <1>3 DEF ServiceInv, KeyUnique
<1>5. CommittedRows' = CommittedRows \cup {row}
  <2>1. \A other \in ledger : other.request = r => other = row
    BY <1>2, <1>4 DEF ServiceInv, RowContents, RowSays
  <2>2. ledger' = ledger /\ txState' = [txState EXCEPT ![r] = "committed"]
    BY DEF CommitResult, Commit, executionVars
  <2> QED BY <1>0, <1>2, <2>1, <2>2 DEF CommittedRows, RowType
<1>6. ByKey(KeyOf[r]) = {} BY <1>1, <1>2, <1>4 DEF ByKey, CommittedRows
<1>7. row \in ByKey(KeyOf[r])' BY <1>3, <1>5 DEF ByKey
<1>8. DoneFor(KeyOf[r])' = r
  <2>1. (CHOOSE other \in ByKey(KeyOf[r])' : TRUE) = row
    BY <1>4, <1>5, <1>7 DEF ByKey, CommittedRows
  <2>2. stage[r] = "projected" BY DEF CommitResult
  <2>3. row.reference = r BY <1>2, <2>2 DEF ServiceInv, RowContents, RowSays
  <2> QED BY <1>7, <2>1, <2>3 DEF DoneFor, ByKey
<1>9. ASSUME NEW k \in Key, k # KeyOf[r] PROVE DoneFor(k)' = DoneFor(k)
  <2>1. ByKey(k)' = ByKey(k) BY <1>3, <1>5, <1>9 DEF ByKey
  <2> QED BY <2>1 DEF DoneFor
<1> QED BY <1>0, <1>6, <1>8, <1>9, DoneIsReference

\* Every step implements a step of the store, or none.
LEMMA StepIdempotent ==
  ASSUME ServiceInv, LedgerInv, ServiceInv', [Next]_vars
  PROVE  [Idempotent!Next]_<<[k \in Key |-> DoneFor(k)], answer>>
<1> DEFINE done == [k \in Key |-> DoneFor(k)]
<1>1. ASSUME CommittedRows' = CommittedRows PROVE done' = done
  <2>1. \A k \in Key : DoneFor(k)' = DoneFor(k) BY <1>1 DEF DoneFor, ByKey
  <2> QED BY <2>1
<1>2. ASSUME NEW e \in Evaluation, PolicyStep(e), UNCHANGED executionVars
      PROVE  UNCHANGED <<done, answer>>
  BY <1>1, <1>2, OnlyCommitRecords DEF executionVars
<1>3. ASSUME NEW r \in Request, CommitResult(r)
      PROVE  Idempotent!Perform(r)
  <2>1. KeyOf[r] \in Key BY RequestAssumption
  <2>2. done' = [done EXCEPT ![KeyOf[r]] = r] BY <1>3, <2>1, CommitRefines
  <2> QED BY <1>3, <2>1, <2>2, CommitRefines DEF Idempotent!Perform, CommitResult, executionVars
<1>4. ASSUME NEW r \in Request, ExecutionStep(r), ~CommitResult(r)
      PROVE  UNCHANGED <<done, answer>> \/ Idempotent!Answer(r)
  <2>1. done' = done BY <1>1, <1>4, OnlyCommitRecords
  <2>2. CASE Lookup(r) \/ LookupAgain(r) \/ Answer(r)
    BY <2>1, <2>2, AnswerRefines, RequestAssumption DEF Idempotent!Answer
  <2>3. CASE ~(Lookup(r) \/ LookupAgain(r) \/ Answer(r))
    BY <1>4, <2>1, <2>3 DEF ExecutionStep, InsertPending, InsertRefused, Dispatch,
        DispatchRaises,
       Discard, AuditResult, Project, Crash, executionVars
  <2> QED BY <2>2, <2>3
<1>5. ASSUME UNCHANGED vars
      PROVE  UNCHANGED <<done, answer>>
  BY <1>1, <1>5 DEF vars, auditVars, executionVars, CommittedRows
<1> HIDE DEF done
<1>6. [\E r \in Request : Idempotent!Perform(r) \/ Idempotent!Answer(r)]_<<done, answer>>
  BY <1>2, <1>3, <1>4, <1>5 DEF Next
<1> QED BY <1>6 DEF Idempotent!Next, done

\* The service implements the idempotent store: one reference per key, and the
\* answer of every call, first or replayed, is that reference.
THEOREM ServiceImplementsIdempotence == Spec => ImplementsIdempotence
<1>1. ExecutionInit => Idempotent!Init BY InitIdempotent
<1>2. /\ ServiceInv /\ LedgerInv /\ (ServiceInv /\ LedgerInv)' /\ [Next]_vars
      => [Idempotent!Next]_<<[k \in Key |-> DoneFor(k)], answer>>
  BY StepIdempotent
<1> QED BY <1>1, <1>2, ServiceInvariant, PTL DEF Spec, ImplementsIdempotence, Idempotent!Spec
=============================================================================
