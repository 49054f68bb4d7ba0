--------------------------- MODULE RetentionProofs ---------------------------
(***************************************************************************)
(* The retention job's safety, for any runs, calls and turns, and beside   *)
(* any other transactions that append to the ledger.                       *)
(*                                                                         *)
(* That every turn is counted once is not inductive of committed runs: the *)
(* updates of runs that may still commit must be disjoint too (CountInv),  *)
(* which is what the row locks are for.  That a run is complete rests on   *)
(* what it has left to its rivals being purged, and staying so (CoverInv). *)
(***************************************************************************)
EXTENDS Retention, AuditLedgerProofs

Open == {"idle", "waiting", "locked", "read", "inserted"}

\* How far a run's transaction is, and what it has updated.
PhaseOf(r) ==
    \/ phase[r] \in {"new", "matched"} /\ txState[r] = "idle"
          /\ anonymized[r] = {} /\ cleared[r] = {}
    \/ phase[r] \in {"anonymized", "deleting"} /\ txState[r] = "idle" /\ cleared[r] = {}
    \/ phase[r] = "cleared" /\ txState[r] \in Open
    \/ phase[r] = "reported" /\ txState[r] = "committed"
    \/ phase[r] = "reported" /\ txState[r] = "idle" /\ anonymized[r] = {} /\ cleared[r] = {}
    \/ phase[r] = "failed" /\ txState[r] = "aborted" /\ anonymized[r] = {} /\ cleared[r] = {}

PhaseInv == \A r \in Run : PhaseOf(r)

\* No two runs have updated the same turn, committed or not.
CountInv == \A r, s \in Run : r # s => anonymized[r] \cap anonymized[s] = {}

\* A run that is past an update has left nothing of its calls to it.
CoverInv ==
    \A r \in Run :
        /\ phase[r] \in {"anonymized", "deleting", "cleared"} \/ txState[r] = "committed"
           => TurnsOf(old_ids[r]) \subseteq Purged \cup anonymized[r]
        /\ phase[r] = "cleared" \/ txState[r] = "committed" => cleared[r] = old_ids[r]

\* A run has one entry, from its insert on, and it says what the run has updated.
EntryInv ==
    /\ \A row \in table : row.tx \in Run => row.event = anonymized[row.tx]
    /\ \A p, q \in table : p.tx \in Run /\ p.tx = q.tx => p = q
    /\ \A r \in Run : txState[r] \in {"inserted", "committed"} => \E row \in table : row.tx = r

RetentionInv == TypeOK /\ PhaseInv /\ CountInv /\ CoverInv /\ EntryInv
-----------------------------------------------------------------------------
\* Nothing is old yet and nothing is updated.
LEMMA InitRetentionInv == Init => RetentionInv
  BY RetentionAssumption, NoTxAssumption
     DEF Init, AuditInit, RetentionInv, TypeOK, AuditTypeOK, TxStates, Phases, Over, PhaseInv,
         PhaseOf, CountInv, CoverInv, EntryInv

\* A step of the job is, for the audit ledger, one of its transaction or none.
LEMMA RunStepAudit ==
  ASSUME TypeOK, NEW r \in Run, RunStep(r)
  PROVE  r \in Tx /\ (AuditStep(r) \/ UNCHANGED auditVars)
<1> USE RetentionAssumption DEF AuditStep
<1>1. CASE AuditRun(r)
  <2>1. anonymized[r] \in Event BY DEF TypeOK
  <2>2. InsertRow(r, anonymized[r], "data_retention") => AuditStep(r) BY <2>1
  <2> QED BY <1>1, <2>2 DEF AuditRun
<1>2. CASE CommitRun(r) \/ FailRun(r) BY <1>2 DEF CommitRun, FailRun
<1>3. CASE SelectOld(r) \/ AnonymizeTurns(r) \/ ReadPointers(r) \/ DeleteBlob(r) \/ ClearPointers(r)
  BY <1>3 DEF SelectOld, AnonymizeTurns, ReadPointers, DeleteBlob, ClearPointers
<1> QED BY <1>1, <1>2, <1>3 DEF RunStep, RunProgress

\* What each step of a run does to its own transaction, and to no other.
LEMMA OthersAlone ==
  ASSUME TypeOK, NEW r \in Run, RunStep(r)
  PROVE  /\ phase[r] \notin Over
         /\ \A t \in Tx \ {r} : txState'[t] = txState[t]
         /\ \A s \in Run \ {r} : /\ phase'[s] = phase[s] /\ old_ids'[s] = old_ids[s]
                                 /\ anonymized'[s] = anonymized[s] /\ cleared'[s] = cleared[s]
<1> USE RetentionAssumption DEF TypeOK, AuditTypeOK, Goto, Report, Over, auditVars, retentionVars
<1>1. CASE SelectOld(r) BY <1>1 DEF SelectOld
<1>2. CASE AnonymizeTurns(r) BY <1>2 DEF AnonymizeTurns
<1>3. CASE ReadPointers(r) BY <1>3 DEF ReadPointers
<1>4. CASE DeleteBlob(r) BY <1>4 DEF DeleteBlob
<1>5. CASE ClearPointers(r) BY <1>5 DEF ClearPointers
<1>6. CASE AuditRun(r) BY <1>6 DEF AuditRun, CallAppend, AcquireLock, ReadLast, InsertRow
<1>7. CASE CommitRun(r) BY <1>7 DEF CommitRun, Commit
<1>8. CASE FailRun(r) BY <1>8 DEF FailRun, Rollback
<1> QED BY <1>1, <1>2, <1>3, <1>4, <1>5, <1>6, <1>7, <1>8 DEF RunStep, RunProgress

\* Another service's transaction changes the state of no run.
LEMMA OtherStepAlone ==
  ASSUME TypeOK, NEW t \in Tx \ Run, OtherStep(t)
  PROVE  /\ UNCHANGED retentionVars
         /\ \A r \in Run : txState'[r] = txState[r]
         /\ \A row \in table' \ table : row.tx = t
         /\ \A row \in table : row.tx # t => row \in table'
<1> USE RetentionAssumption DEF TypeOK, AuditTypeOK, OtherStep
<1>1. CASE CallAppend(t) \/ AcquireLock(t) \/ ReadLast(t) \/ Commit(t)
  BY <1>1 DEF CallAppend, AcquireLock, ReadLast, Commit
<1>2. ASSUME NEW event \in Event, NEW label \in Label, InsertRow(t, event, label)
      PROVE  /\ \A r \in Run : txState'[r] = txState[r]
             /\ \A row \in table' \ table : row.tx = t
             /\ \A row \in table : row \in table'
  BY <1>2 DEF InsertRow, NewRow
<1>3. CASE Rollback(t) BY <1>3 DEF Rollback
<1> QED BY <1>1, <1>2, <1>3 DEF AuditStep

\* The job keeps the types.
LEMMA TypeRun ==
  ASSUME RetentionInv, LedgerInv, NEW r \in Run, RunStep(r)
  PROVE  TypeOK'
<1>0. TypeOK BY DEF RetentionInv
<1>1. AuditTypeOK'
  <2>1. r \in Tx /\ (AuditStep(r) \/ UNCHANGED auditVars) BY <1>0, RunStepAudit
  <2>2. CASE AuditStep(r) BY <2>1, <2>2, TypeStep
  <2>3. CASE UNCHANGED auditVars BY <1>0, <2>3 DEF TypeOK, AuditTypeOK, auditVars
  <2> QED BY <2>1, <2>2, <2>3
<1> USE <1>0, <1>1 DEF TypeOK, Phases, Over, Goto, Report
<1>2. CASE SelectOld(r) BY <1>2 DEF SelectOld
<1>3. CASE AnonymizeTurns(r) BY <1>3 DEF AnonymizeTurns, TurnsOf
<1>4. CASE ReadPointers(r) BY <1>4 DEF ReadPointers
<1>5. CASE DeleteBlob(r) BY <1>5 DEF DeleteBlob
<1>6. CASE ClearPointers(r) BY <1>6 DEF ClearPointers
<1>7. CASE AuditRun(r) BY <1>7 DEF AuditRun, retentionVars
<1>8. CASE CommitRun(r) BY <1>8 DEF CommitRun
<1>9. CASE FailRun(r) BY <1>9 DEF FailRun
<1> QED BY <1>2, <1>3, <1>4, <1>5, <1>6, <1>7, <1>8, <1>9 DEF RunStep, RunProgress

\* The phase of a run says how far its transaction is.
LEMMA PhaseRun ==
  ASSUME RetentionInv, NEW r \in Run, RunStep(r)
  PROVE  PhaseInv'
<1>0. TypeOK /\ PhaseInv BY DEF RetentionInv
<1>1. \A s \in Run \ {r} : PhaseOf(s)'
  BY <1>0, OthersAlone, RetentionAssumption DEF PhaseInv, PhaseOf
<1>2. PhaseOf(r)'
  <2> USE <1>0, RetentionAssumption DEF TypeOK, AuditTypeOK, PhaseInv, PhaseOf, Open, Over, Goto,
          Report, auditVars, retentionVars
  <2>1. CASE SelectOld(r) BY <2>1 DEF SelectOld
  <2>2. CASE AnonymizeTurns(r) BY <2>2 DEF AnonymizeTurns
  <2>3. CASE ReadPointers(r) BY <2>3 DEF ReadPointers
  <2>4. CASE DeleteBlob(r) BY <2>4 DEF DeleteBlob
  <2>5. CASE ClearPointers(r) BY <2>5 DEF ClearPointers
  <2>6. CASE AuditRun(r) BY <2>6 DEF AuditRun, CallAppend, AcquireLock, ReadLast, InsertRow
  <2>7. CASE CommitRun(r) BY <2>7 DEF CommitRun, Commit
  <2>8. CASE FailRun(r) BY <2>8 DEF FailRun, Rollback
  <2> QED BY <2>1, <2>2, <2>3, <2>4, <2>5, <2>6, <2>7, <2>8 DEF RunStep, RunProgress
<1> QED BY <1>1, <1>2 DEF PhaseInv

\* A purged turn stays purged, and a commit adds those of its run.
LEMMA PurgedGrows ==
  ASSUME RetentionInv, NEW r \in Run, RunStep(r)
  PROVE  /\ Purged \subseteq Purged'
         /\ CommitRun(r) => anonymized[r] \subseteq Purged'
<1>0. TypeOK /\ PhaseInv BY DEF RetentionInv
<1>1. ASSUME NEW s \in CommittedRuns
      PROVE  s \in CommittedRuns' /\ anonymized'[s] = anonymized[s]
  <2>1. s # r BY <1>0, <1>1, OthersAlone DEF CommittedRuns, PhaseInv, PhaseOf, Over, Open
  <2> QED BY <1>0, <2>1, OthersAlone, RetentionAssumption DEF CommittedRuns
<1>2. Purged \subseteq Purged' BY <1>1 DEF Purged
<1>3. CommitRun(r) => r \in CommittedRuns' /\ anonymized'[r] = anonymized[r]
  BY <1>0, RetentionAssumption DEF CommitRun, Commit, CommittedRuns, TypeOK, AuditTypeOK
<1> QED BY <1>2, <1>3 DEF Purged

\* The locks on the rows, and the second look after the wait, keep updates disjoint.
LEMMA CountRun ==
  ASSUME RetentionInv, NEW r \in Run, RunStep(r)
  PROVE  CountInv'
<1>0. TypeOK /\ PhaseInv /\ CountInv BY DEF RetentionInv
<1>1. ASSUME NEW s \in Run, s # r PROVE anonymized'[r] \cap anonymized[s] = {}
  <2>1. CASE AnonymizeTurns(r)
    <3>1. anonymized'[r] = TurnsOf(old_ids[r]) \ Purged BY <1>0, <2>1 DEF AnonymizeTurns, TypeOK
    <3>2. CASE s \in CommittedRuns BY <3>1, <3>2 DEF Purged
    <3>3. CASE txState[s] = "aborted" BY <1>0, <3>3 DEF PhaseInv, PhaseOf, Open
    <3>4. CASE s \in Rivals(r) BY <2>1, <3>1, <3>4 DEF AnonymizeTurns
    <3> QED BY <1>1, <3>2, <3>3, <3>4 DEF Rivals, CommittedRuns
  <2>2. CASE ~AnonymizeTurns(r)
    <3>1. anonymized'[r] \subseteq anonymized[r]
      BY <1>0, <2>2 DEF RunStep, RunProgress, SelectOld, ReadPointers, DeleteBlob, ClearPointers,
         AuditRun, retentionVars, CommitRun, FailRun, TypeOK
    <3> QED BY <1>0, <1>1, <3>1 DEF CountInv
  <2> QED BY <2>1, <2>2
<1>2. \A s \in Run \ {r} : anonymized'[s] = anonymized[s] BY <1>0, OthersAlone
<1> QED BY <1>0, <1>1, <1>2 DEF CountInv

\* What a run leaves to others is purged, and stays so.
LEMMA CoverRun ==
  ASSUME RetentionInv, NEW r \in Run, RunStep(r)
  PROVE  CoverInv'
<1>0. TypeOK /\ PhaseInv /\ CoverInv BY DEF RetentionInv
<1>1. \A s \in Run \ {r} :
         /\ phase'[s] = phase[s] /\ txState'[s] = txState[s] /\ old_ids'[s] = old_ids[s]
         /\ anonymized'[s] = anonymized[s] /\ cleared'[s] = cleared[s]
  BY <1>0, OthersAlone, RetentionAssumption
<1>2. Purged \subseteq Purged' BY PurgedGrows
<1> DEFINE Covered(s) ==
        /\ phase[s] \in {"anonymized", "deleting", "cleared"} \/ txState[s] = "committed"
           => TurnsOf(old_ids[s]) \subseteq Purged \cup anonymized[s]
        /\ phase[s] = "cleared" \/ txState[s] = "committed" => cleared[s] = old_ids[s]
<1>3. \A s \in Run \ {r} : Covered(s)'
  <2>1. \A s \in Run \ {r} : Covered(s) BY <1>0 DEF CoverInv
  <2> QED BY <1>1, <1>2, <2>1 DEF TurnsOf
<1>4. Covered(r)'
  <2>0. Covered(r) /\ PhaseOf(r) BY <1>0 DEF CoverInv, PhaseInv
  <2> USE <1>0, <1>2, <2>0, RetentionAssumption DEF TypeOK, AuditTypeOK, PhaseOf, Open, Over, Goto,
          Report, TurnsOf, auditVars, retentionVars
  <2>1. CASE SelectOld(r) BY <2>1 DEF SelectOld
  <2>2. CASE AnonymizeTurns(r) BY <2>2 DEF AnonymizeTurns
  <2>3. CASE ReadPointers(r) BY <2>3 DEF ReadPointers
  <2>4. CASE DeleteBlob(r) BY <2>4 DEF DeleteBlob
  <2>5. CASE ClearPointers(r) BY <2>5 DEF ClearPointers
  <2>6. CASE AuditRun(r) BY <2>6 DEF AuditRun, CallAppend, AcquireLock, ReadLast, InsertRow
  <2>7. CASE CommitRun(r) BY <2>7, PurgedGrows DEF CommitRun, Commit
  <2>8. CASE FailRun(r) BY <2>8 DEF FailRun, Rollback
  <2> QED BY <2>1, <2>2, <2>3, <2>4, <2>5, <2>6, <2>7, <2>8 DEF RunStep, RunProgress
<1> QED BY <1>3, <1>4 DEF CoverInv

\* A run's entry is written once, after its last update, and goes with it.
LEMMA EntryRun ==
  ASSUME RetentionInv, LedgerInv, NEW r \in Run, RunStep(r)
  PROVE  EntryInv'
<1>0. TypeOK /\ PhaseInv /\ EntryInv /\ RowInv BY DEF RetentionInv, LedgerInv
<1>1. /\ \A t \in Tx \ {r} : txState'[t] = txState[t]
      /\ \A s \in Run \ {r} : anonymized'[s] = anonymized[s]
  BY <1>0, OthersAlone
<1>2. CASE UNCHANGED <<table, anonymized>> /\ (txState'[r] \in {"inserted", "committed"}
                                                => txState[r] \in {"inserted", "committed"})
  BY <1>0, <1>1, <1>2, RetentionAssumption DEF EntryInv
<1>3. CASE AnonymizeTurns(r)
  <2>1. txState[r] = "idle" /\ UNCHANGED auditVars
    BY <1>0, <1>3 DEF AnonymizeTurns, PhaseInv, PhaseOf
  <2>2. \A row \in table : row.tx # r BY <1>0, <2>1 DEF RowInv
  <2> QED BY <1>0, <1>1, <2>1, <2>2, RetentionAssumption DEF EntryInv, auditVars
<1>4. CASE InsertRow(r, anonymized[r], "data_retention") /\ UNCHANGED retentionVars
  <2>1. /\ table' = table \cup {NewRow(r, anonymized[r], "data_retention")}
        /\ NewRow(r, anonymized[r], "data_retention").tx = r
        /\ NewRow(r, anonymized[r], "data_retention").event = anonymized[r]
        /\ txState[r] = "read" /\ UNCHANGED anonymized
    BY <1>4 DEF InsertRow, NewRow, retentionVars
  <2>2. \A row \in table : row.tx # r BY <1>0, <2>1 DEF RowInv
  <2> QED BY <1>0, <1>1, <2>1, <2>2, RetentionAssumption DEF EntryInv
<1>5. CASE FailRun(r)
  <2>1. /\ table' = {row \in table : row.tx # r}
        /\ txState'[r] = "aborted"
    BY <1>0, <1>5, RetentionAssumption DEF FailRun, Rollback, TypeOK, AuditTypeOK
  <2> QED BY <1>0, <1>1, <2>1, RetentionAssumption DEF EntryInv
<1>6. CASE SelectOld(r) \/ ReadPointers(r) \/ DeleteBlob(r) \/ ClearPointers(r) \/ CommitRun(r)
           \/ (AuditRun(r) /\ ~InsertRow(r, anonymized[r], "data_retention"))
  BY <1>0, <1>2, <1>6, RetentionAssumption
     DEF SelectOld, ReadPointers, DeleteBlob, ClearPointers, CommitRun, Commit, AuditRun,
         CallAppend, AcquireLock, ReadLast, auditVars, retentionVars, TypeOK, AuditTypeOK
<1> QED BY <1>3, <1>4, <1>5, <1>6 DEF RunStep, RunProgress, AuditRun

\* The invariant does not depend on the other services' transactions.
LEMMA OtherStepKeeps ==
  ASSUME RetentionInv, LedgerInv, NEW t \in Tx \ Run, OtherStep(t)
  PROVE  RetentionInv'
<1>0. TypeOK /\ PhaseInv /\ CountInv /\ CoverInv /\ EntryInv BY DEF RetentionInv
<1>1. /\ UNCHANGED retentionVars
      /\ \A r \in Run : txState'[r] = txState[r]
      /\ \A row \in table' \ table : row.tx = t
      /\ \A row \in table : row.tx # t => row \in table'
  BY <1>0, OtherStepAlone
<1>2. TypeOK' BY <1>0, <1>1, TypeStep DEF TypeOK, OtherStep, retentionVars
<1>3. CommittedRuns' = CommittedRuns BY <1>1 DEF CommittedRuns
<1>4. PhaseInv' /\ CountInv' BY <1>0, <1>1 DEF PhaseInv, PhaseOf, CountInv, retentionVars
<1>5. CoverInv' BY <1>0, <1>1, <1>3 DEF CoverInv, Purged, TurnsOf, retentionVars
<1>6. EntryInv' BY <1>0, <1>1 DEF EntryInv, retentionVars
<1> QED BY <1>2, <1>4, <1>5, <1>6 DEF RetentionInv

\* The job uses the ledger as its other callers do.
LEMMA NextUsesLedger ==
  ASSUME RetentionInv, [Next]_vars
  PROVE  [AuditNext]_auditVars
<1>0. TypeOK BY DEF RetentionInv
<1> QED BY <1>0, RunStepAudit DEF Next, OtherStep, AuditNext, vars

\* The strengthening, beside the ledger's, is inductive.
THEOREM RetentionInvariant == Spec => [](RetentionInv /\ LedgerInv)
<1>1. Init => RetentionInv /\ LedgerInv
  BY InitRetentionInv, InitLedgerInv DEF Init
<1>2. RetentionInv /\ LedgerInv /\ [Next]_vars => RetentionInv' /\ LedgerInv'
  <2> SUFFICES ASSUME RetentionInv, LedgerInv, [Next]_vars
               PROVE  RetentionInv' /\ LedgerInv'
    OBVIOUS
  <2>1. LedgerInv' BY NextUsesLedger, LedgerStep
  <2>2. ASSUME NEW r \in Run, RunStep(r) PROVE RetentionInv'
    BY <2>2, TypeRun, PhaseRun, CountRun, CoverRun, EntryRun DEF RetentionInv
  <2>3. CASE UNCHANGED vars
    <3>1. UNCHANGED <<table, nextSeq, lock, txState, previous>> /\ UNCHANGED retentionVars
      BY <2>3 DEF vars, auditVars
    <3>2. TypeOK' BY <3>1 DEF RetentionInv, TypeOK, AuditTypeOK, retentionVars
    <3>3. Purged' = Purged BY <3>1 DEF Purged, CommittedRuns, retentionVars
    <3>4. PhaseInv' /\ CountInv' /\ EntryInv'
      BY <3>1 DEF RetentionInv, PhaseInv, PhaseOf, CountInv, EntryInv, retentionVars
    <3>5. CoverInv' BY <3>1, <3>3 DEF RetentionInv, CoverInv, TurnsOf, retentionVars
    <3> QED BY <2>1, <3>2, <3>4, <3>5 DEF RetentionInv
  <2> QED BY <2>1, <2>2, <2>3, OtherStepKeeps DEF Next
<1> QED BY <1>1, <1>2, PTL DEF Spec

\* Type correctness of the job's state.
THEOREM RetentionTypeCorrect == Spec => []TypeOK
  BY RetentionInvariant, PTL DEF RetentionInv

\* The job is one more client of the ledger: the chain's theorems hold beside it.
THEOREM RetentionUsesLedger == Spec => AuditSpec
<1>1. Init => AuditInit BY DEF Init
<1>2. RetentionInv /\ [Next]_vars => [AuditNext]_auditVars BY NextUsesLedger
<1> QED BY <1>1, <1>2, RetentionInvariant, PTL DEF Spec, AuditSpec

\* The ledger accounts for every anonymized turn, once, for any number of runs.
THEOREM CountedOnce == Spec => []TurnsCountedOnce
<1>1. RetentionInv /\ LedgerInv => TurnsCountedOnce
  <2> SUFFICES ASSUME RetentionInv, LedgerInv PROVE TurnsCountedOnce OBVIOUS
  <2> DEFINE entries == {row \in Committed : row.tx \in Run}
  <2>0. TypeOK /\ CountInv /\ EntryInv /\ RowInv BY DEF RetentionInv, LedgerInv
  <2>1. \A row \in entries : row.tx \in CommittedRuns /\ row.event = anonymized[row.tx]
    BY <2>0 DEF Committed, CommittedRuns, EntryInv
  <2>2. \A r \in CommittedRuns : \E row \in entries : row.tx = r
    BY <2>0 DEF Committed, CommittedRuns, EntryInv
  <2>3. Purged = UNION {row.event : row \in entries} BY <2>1, <2>2 DEF Purged
  <2>4. \A p, q \in entries : p # q => p.event \cap q.event = {}
    BY <2>0, <2>1 DEF Committed, EntryInv, CountInv
  <2> QED BY <2>3, <2>4 DEF TurnsCountedOnce
<1> QED BY <1>1, RetentionInvariant, PTL

\* A committed run has left nothing of the calls it found, whatever its rivals did.
THEOREM CompleteRuns == Spec => []RunIsComplete
<1>1. RetentionInv => RunIsComplete
  <2> SUFFICES ASSUME RetentionInv, NEW r \in CommittedRuns
               PROVE  TurnsOf(old_ids[r]) \subseteq Purged /\ old_ids[r] \subseteq NoPointer
    BY DEF RunIsComplete
  <2>1. /\ TurnsOf(old_ids[r]) \subseteq Purged \cup anonymized[r]
        /\ cleared[r] = old_ids[r]
    BY DEF RetentionInv, CoverInv, CommittedRuns
  <2> QED BY <2>1 DEF Purged, NoPointer
<1> QED BY <1>1, RetentionInvariant, PTL
=============================================================================
