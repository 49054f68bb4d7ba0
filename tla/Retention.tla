------------------------------- MODULE Retention -------------------------------
(***************************************************************************)
(* The retention job of business-api (jobs/retention.py): calls older than *)
(* a cutoff lose their transcripts and their recordings, in a transaction  *)
(* that also appends to the audit ledger.  POST /jobs/retention starts it, *)
(* in a thread of its own, as often as an administrator asks, so several   *)
(* runs may be under way; the other services append to the ledger at the   *)
(* same time.                                                              *)
(*                                                                         *)
(* A run is one HTTP call and one transaction.  Calls are numbered in the  *)
(* order in which they began; each has a recording.  The turns are those   *)
(* with a transcript.  A rowcount is modelled as the set of the rows that  *)
(* it counts, and it is what a run's audit entry says.                     *)
(***************************************************************************)
EXTENDS AuditLedger

CONSTANTS Run,        \* the calls of POST /jobs/retention
          CallSession,
          Turn,
          SessionOf   \* the call each turn belongs to

ASSUME RetentionAssumption ==
    /\ Run \subseteq Tx
    /\ CallSession \subseteq Nat
    /\ SessionOf \in [Turn -> CallSession]
    /\ SUBSET Turn \subseteq Event
    /\ "data_retention" \in Label

VARIABLES phase,       \* the statement each run has reached
          old_ids,     \* the calls each run has found to be old
          anonymized,  \* the turns that each run has updated
          urls,        \* the recordings that each run has still to delete
          cleared,     \* the calls whose audio_record_url each run has set to NULL
          blobs        \* the recordings in the object store

retentionVars == <<phase, old_ids, anonymized, urls, cleared, blobs>>
vars == <<auditVars, retentionVars>>

TurnsOf(calls) == {t \in Turn : SessionOf[t] \in calls}

\* What another transaction sees of the runs' updates.
CommittedRuns == {r \in Run : txState[r] = "committed"}
Purged == UNION {anonymized[r] : r \in CommittedRuns}
NoPointer == UNION {cleared[r] : r \in CommittedRuns}

\* The runs that may still commit; their rows are locked against an update.
Rivals(r) == {s \in Run \ {r} : txState[s] \notin {"committed", "aborted"}}

Goto(r, where) == phase' = [phase EXCEPT ![r] = where]

Report(r) == Goto(r, "reported")
-----------------------------------------------------------------------------
Init ==
    /\ AuditInit
    /\ phase = [r \in Run |-> "new"]
    /\ old_ids = [r \in Run |-> {}]
    /\ anonymized = [r \in Run |-> {}]
    /\ urls = [r \in Run |-> {}]
    /\ cleared = [r \in Run |-> {}]
    /\ blobs = CallSession

\* The boundaries that retention_days can set.
Cutoffs == CallSession \cup {s + 1 : s \in CallSession}

\* SELECT the calls before the cutoff.  A dry run, and a run that finds none,
\* report at once.
SelectOld(r) ==
    /\ phase[r] = "new"
    /\ \E cutoff \in Cutoffs, dry_run \in BOOLEAN :
          LET found == {s \in CallSession : s < cutoff} IN
          /\ old_ids' = [old_ids EXCEPT ![r] = found]
          /\ IF dry_run \/ found = {} THEN Report(r) ELSE Goto(r, "matched")
    /\ UNCHANGED <<auditVars, anonymized, urls, cleared, blobs>>

\* Mutant: the update does not leave out the turns that are purged already.
AnonymizeTurnsAgain(r) ==
    /\ phase[r] = "matched"
    /\ \A s \in Rivals(r) : anonymized[s] \cap TurnsOf(old_ids[r]) = {}
    /\ anonymized' = [anonymized EXCEPT ![r] = TurnsOf(old_ids[r])]
    /\ Goto(r, "anonymized")
    /\ UNCHANGED <<auditVars, old_ids, urls, cleared, blobs>>

\* Mutant: FOR UPDATE SKIP LOCKED instead of waiting for a rival.
AnonymizeUnlockedTurns(r) ==
    /\ phase[r] = "matched"
    /\ anonymized' = [anonymized EXCEPT ![r] =
           TurnsOf(old_ids[r]) \ (Purged \cup UNION {anonymized[s] : s \in Rivals(r)})]
    /\ Goto(r, "anonymized")
    /\ UNCHANGED <<auditVars, old_ids, urls, cleared, blobs>>

\* UPDATE turns: it waits for the rivals that have updated one of the rows, and
\* then looks again which rows still have a transcript.
AnonymizeTurns(r) ==
    /\ phase[r] = "matched"
    /\ \A s \in Rivals(r) : anonymized[s] \cap TurnsOf(old_ids[r]) = {}
    /\ anonymized' = [anonymized EXCEPT ![r] = TurnsOf(old_ids[r]) \ Purged]
    /\ Goto(r, "anonymized")
    /\ UNCHANGED <<auditVars, old_ids, urls, cleared, blobs>>

\* SELECT the pointers that are left, unless the store is disabled: it could not
\* be reached when it was first asked for.
ReadPointers(r) ==
    /\ phase[r] = "anonymized"
    /\ \E enabled \in BOOLEAN :
          urls' = [urls EXCEPT ![r] = IF enabled THEN old_ids[r] \ NoPointer ELSE {}]
    /\ Goto(r, "deleting")
    /\ UNCHANGED <<auditVars, old_ids, anonymized, cleared, blobs>>

\* store.delete(url), for one after the other; an error is passed over.
DeleteBlob(r) ==
    /\ phase[r] = "deleting"
    /\ \E s \in urls[r] :
          /\ urls' = [urls EXCEPT ![r] = @ \ {s}]
          /\ blobs' \in {blobs, blobs \ {s}}
    /\ UNCHANGED <<auditVars, phase, old_ids, anonymized, cleared>>

\* UPDATE call_sessions, with the same waiting for rivals.
ClearPointers(r) ==
    /\ phase[r] = "deleting" /\ urls[r] = {}
    /\ \A s \in Rivals(r) : cleared[s] \cap old_ids[r] = {}
    /\ cleared' = [cleared EXCEPT ![r] = old_ids[r]]
    /\ Goto(r, "cleared")
    /\ UNCHANGED <<auditVars, old_ids, anonymized, urls, blobs>>

\* Mutant: the entry says which calls matched where it should say the turns.
AuditRunCountingCalls(r) ==
    /\ phase[r] = "cleared"
    /\ CallAppend(r) \/ AcquireLock(r) \/ ReadLast(r) \/ InsertRow(r, old_ids[r], "data_retention")
    /\ UNCHANGED retentionVars

\* The run's one entry, in the run's own transaction.
AuditRun(r) ==
    /\ phase[r] = "cleared"
    /\ CallAppend(r) \/ AcquireLock(r) \/ ReadLast(r) \/ InsertRow(r, anonymized[r], "data_retention")
    /\ UNCHANGED retentionVars

CommitRun(r) ==
    /\ phase[r] = "cleared"
    /\ Commit(r)
    /\ Report(r)
    /\ UNCHANGED <<old_ids, anonymized, urls, cleared, blobs>>

Over == {"reported", "failed"}

\* Mutant: the session is not closed when the handler raises, and its
\* transaction stays open with the rows it has locked.
FailRunStayingOpen(r) ==
    /\ phase[r] \notin Over
    /\ Goto(r, "failed")
    /\ UNCHANGED <<auditVars, old_ids, anonymized, urls, cleared, blobs>>

\* A statement fails, Postgres breaks a deadlock of two updates, or the process
\* dies: the updates are undone, the deletions are not.
FailRun(r) ==
    /\ phase[r] \notin Over
    /\ Rollback(r)
    /\ Goto(r, "failed")
    /\ anonymized' = [anonymized EXCEPT ![r] = {}]
    /\ cleared' = [cleared EXCEPT ![r] = {}]
    /\ UNCHANGED <<old_ids, urls, blobs>>

RunProgress(r) ==
    \/ SelectOld(r) \/ AnonymizeTurns(r) \/ ReadPointers(r) \/ DeleteBlob(r)
    \/ ClearPointers(r) \/ AuditRun(r) \/ CommitRun(r)

RunStep(r) == RunProgress(r) \/ FailRun(r)

\* The other services' transactions, as far as the ledger sees them.
OtherStep(t) == AuditStep(t) /\ UNCHANGED retentionVars

Terminated ==
    /\ \A r \in Run : phase[r] \in Over
    /\ \A t \in Tx \ Run : txState[t] \in {"committed", "aborted"}

Next ==
    \/ \E r \in Run : RunStep(r)
    \/ \E t \in Tx \ Run : OtherStep(t)
    \/ Terminated /\ UNCHANGED vars

Spec == Init /\ [][Next]_vars

\* A run that can go on does: its waits, for rows and for the ledger, are
\* Postgres queues.  Nothing obliges a run to fail.
FairSpec ==
    /\ Spec
    /\ AuditFairness
    /\ \A r \in Run : WF_vars(RunProgress(r))
-----------------------------------------------------------------------------
Phases == {"new", "matched", "anonymized", "deleting", "cleared"} \cup Over

\* Type correctness of the job's state, beside the ledger's.
TypeOK ==
    /\ AuditTypeOK
    /\ phase \in [Run -> Phases]
    /\ old_ids \in [Run -> SUBSET CallSession]
    /\ anonymized \in [Run -> SUBSET Turn]
    /\ urls \in [Run -> SUBSET CallSession]
    /\ cleared \in [Run -> SUBSET CallSession]
    /\ blobs \subseteq CallSession

\* "The purge itself is part of the tamper-evident record" (retention.py:5): the
\* chain's entries account for every anonymized turn, and for each one once,
\* however many runs overlap, wait for one another or fail.
TurnsCountedOnce ==
    LET entries == {row \in Committed : row.tx \in Run} IN
    /\ Purged = UNION {row.event : row \in entries}
    /\ \A p, q \in entries : p # q => p.event \cap q.event = {}

\* A run that committed has left nothing: every old call it found has lost its
\* transcripts and its pointer, also where it waited for a rival that failed.
RunIsComplete ==
    \A r \in CommittedRuns : TurnsOf(old_ids[r]) \subseteq Purged /\ old_ids[r] \subseteq NoPointer

\* "Every run writes an audit entry, so the purge itself is part of the
\* tamper-evident record" (retention.py:4): once the runs are over, a recording
\* that is gone is one that a committed run answers for.  A run that fails after
\* a deletion leaves one that nobody does.
PurgeRecorded ==
    (\A r \in Run : phase[r] \in Over) =>
        \A s \in CallSession \ blobs : \E r \in CommittedRuns : s \in old_ids[r]

\* Runs that wait for each other's rows, or for the ledger, all come to an end.
RunsEnd == \A r \in Run : phase[r] = "matched" ~> phase[r] \in Over
=============================================================================
