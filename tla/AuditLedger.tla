----------------------------- MODULE AuditLedger -----------------------------
(***************************************************************************)
(* The hash-chained audit ledger of packages/audit-trail, as its callers   *)
(* run it: PgAuditLedger.append inside a database transaction that the     *)
(* caller later commits or rolls back.                                     *)
(*                                                                         *)
(* Every caller in the repository (the policy service, the execution       *)
(* service, the conversation writer and the retention job) appends once    *)
(* per transaction, so a transaction is modelled as one append.  A Postgres*)
(* statement is one step: the advisory lock, the read of the last row, the *)
(* insert and the commit interleave with those of other transactions.      *)
(***************************************************************************)
EXTENDS Naturals

CONSTANTS Tx,     \* the database transactions that call append
          NoTx,   \* nobody holds the advisory lock
          Event,  \* what an entry's hash covers: a payload and its timestamp
          Label   \* what it does not cover: event_type, session, entity reference

ASSUME NoTxAssumption == NoTx \notin Tx

VARIABLES table,     \* audit.audit_ledger, with the rows not yet committed
          nextSeq,   \* the Identity sequence of the seq column
          lock,      \* who holds the transaction-scoped advisory lock
          txState,   \* how far each transaction has come
          previous   \* the previous_hash each transaction has read

auditVars == <<table, nextSeq, lock, txState, previous>>

(***************************************************************************)
(* sha256 is modelled as collision-free: a digest is the pair it digests.  *)
(***************************************************************************)
GENESIS_HASH == <<>>

ComputeEntryHash(prev, event) == <<prev, event>>

(***************************************************************************)
(* READ COMMITTED: a statement of t sees the rows committed before the     *)
(* statement began, and those of t itself.                                 *)
(***************************************************************************)
Committed == {row \in table : txState[row.tx] = "committed"}

Visible(t) == Committed \cup {row \in table : row.tx = t}

IsLast(row, rows) == row \in rows /\ \A other \in rows : other.seq <= row.seq

(***************************************************************************)
(* The integrity check: the rows in seq order, each linked to the one      *)
(* before it and carrying the hash of its own contents.                    *)
(***************************************************************************)
Before(row, rows) == {other \in rows : other.seq < row.seq}

Linked(row, rows) ==
    \/ Before(row, rows) = {} /\ row.previous_hash = GENESIS_HASH
    \/ \E prior \in Before(row, rows) :
          /\ IsLast(prior, Before(row, rows))
          /\ row.previous_hash = prior.entry_hash

VerifyChain(rows) ==
    \A row \in rows :
        /\ Linked(row, rows)
        /\ row.entry_hash = ComputeEntryHash(row.previous_hash, row.event)
-----------------------------------------------------------------------------
AuditInit ==
    /\ table = {}
    /\ nextSeq = 1
    /\ lock = NoTx
    /\ txState = [t \in Tx |-> "idle"]
    /\ previous = [t \in Tx |-> GENESIS_HASH]

\* The call reaches pg_advisory_xact_lock and queues for the lock.
CallAppend(t) ==
    /\ txState[t] = "idle"
    /\ txState' = [txState EXCEPT ![t] = "waiting"]
    /\ UNCHANGED <<table, nextSeq, lock, previous>>

\* Mutant: append without waiting for the advisory lock.
AcquireLockUnserialized(t) ==
    /\ txState[t] = "waiting"
    /\ lock' = t
    /\ txState' = [txState EXCEPT ![t] = "locked"]
    /\ UNCHANGED <<table, nextSeq, previous>>

AcquireLock(t) ==
    /\ txState[t] = "waiting"
    /\ lock = NoTx
    /\ lock' = t
    /\ txState' = [txState EXCEPT ![t] = "locked"]
    /\ UNCHANGED <<table, nextSeq, previous>>

\* Mutant: ORDER BY seq without the DESC.
ReadFirst(t) ==
    /\ txState[t] = "locked"
    /\ \/ /\ Visible(t) = {}
          /\ previous' = [previous EXCEPT ![t] = GENESIS_HASH]
       \/ \E first \in Visible(t) :
             /\ \A other \in Visible(t) : first.seq <= other.seq
             /\ previous' = [previous EXCEPT ![t] = first.entry_hash]
    /\ txState' = [txState EXCEPT ![t] = "read"]
    /\ UNCHANGED <<table, nextSeq, lock>>

\* SELECT ... ORDER BY seq DESC LIMIT 1, and the choice of previous_hash.
ReadLast(t) ==
    /\ txState[t] = "locked"
    /\ \/ /\ Visible(t) = {}
          /\ previous' = [previous EXCEPT ![t] = GENESIS_HASH]
       \/ \E last \in Visible(t) :
             /\ IsLast(last, Visible(t))
             /\ previous' = [previous EXCEPT ![t] = last.entry_hash]
    /\ txState' = [txState EXCEPT ![t] = "read"]
    /\ UNCHANGED <<table, nextSeq, lock>>

NewRow(t, event, label) ==
    [seq |-> nextSeq, tx |-> t, label |-> label, event |-> event,
     previous_hash |-> previous[t],
     entry_hash |-> ComputeEntryHash(previous[t], event)]

\* Mutant: a session-level lock, given back as soon as append returns.
InsertRowAndUnlock(t, event, label) ==
    /\ txState[t] = "read"
    /\ table' = table \cup {NewRow(t, event, label)}
    /\ nextSeq' = nextSeq + 1
    /\ txState' = [txState EXCEPT ![t] = "inserted"]
    /\ lock' = NoTx
    /\ UNCHANGED previous

\* session.add(row); session.flush(): the row is written, and not committed.
InsertRow(t, event, label) ==
    /\ txState[t] = "read"
    /\ table' = table \cup {NewRow(t, event, label)}
    /\ nextSeq' = nextSeq + 1
    /\ txState' = [txState EXCEPT ![t] = "inserted"]
    /\ UNCHANGED <<lock, previous>>

\* The caller commits; Postgres releases the advisory lock with it.
Commit(t) ==
    /\ txState[t] = "inserted"
    /\ txState' = [txState EXCEPT ![t] = "committed"]
    /\ lock' = NoTx
    /\ UNCHANGED <<table, nextSeq, previous>>

\* Mutant: pg_advisory_lock in place of pg_advisory_xact_lock, so that a
\* rollback leaves the lock held.
RollbackKeepingLock(t) ==
    /\ txState[t] \notin {"committed", "aborted"}
    /\ txState' = [txState EXCEPT ![t] = "aborted"]
    /\ table' = {row \in table : row.tx # t}
    /\ UNCHANGED <<nextSeq, lock, previous>>

\* The caller raises, closes its session without a commit, or dies: its row
\* goes and the lock is released, but the sequence keeps the number it drew.
Rollback(t) ==
    /\ txState[t] \notin {"committed", "aborted"}
    /\ txState' = [txState EXCEPT ![t] = "aborted"]
    /\ table' = {row \in table : row.tx # t}
    /\ lock' = IF lock = t THEN NoTx ELSE lock
    /\ UNCHANGED <<nextSeq, previous>>

AuditStep(t) ==
    \/ CallAppend(t)
    \/ AcquireLock(t)
    \/ ReadLast(t)
    \/ \E event \in Event, label \in Label : InsertRow(t, event, label)
    \/ Commit(t)
    \/ Rollback(t)

AuditNext == \E t \in Tx : AuditStep(t)

AuditSpec == AuditInit /\ [][AuditNext]_auditVars

(***************************************************************************)
(* A caller runs its transaction to the end, and Postgres serves the queue *)
(* of an advisory lock in order, so that a waiter is not passed over for   *)
(* ever.  Nothing obliges a transaction to call append or to fail.         *)
(***************************************************************************)
AuditFairness ==
    \A t \in Tx :
        /\ SF_auditVars(AcquireLock(t))
        /\ WF_auditVars(ReadLast(t))
        /\ WF_auditVars(\E event \in Event, label \in Label : InsertRow(t, event, label))
        /\ WF_auditVars(Commit(t))

-----------------------------------------------------------------------------
TxStates == {"idle", "waiting", "locked", "read", "inserted", "committed", "aborted"}

Holding == {"locked", "read", "inserted"}

\* Type correctness of the ledger's state and of its transactions.
AuditTypeOK ==
    /\ nextSeq \in Nat
    /\ lock \in Tx \cup {NoTx}
    /\ txState \in [Tx -> TxStates]
    /\ DOMAIN previous = Tx
    /\ \A row \in table : row.seq \in Nat /\ row.tx \in Tx /\ row.event \in Event

\* At every instant the integrity check passes on what is committed: rollbacks,
\* gaps in seq and concurrent appends never leave a broken link (ledger.py:122).
ChainIntact == VerifyChain(Committed)

\* Two rows, committed or about to be, never extend the same predecessor: the
\* lock is held from the read to the commit, so the chain cannot fork.
NoFork ==
    \A r, s \in table : r.previous_hash = s.previous_hash => r = s

\* A reader that polls the ledger by seq misses nothing: what a step commits
\* comes after everything that was already committed, and nothing disappears.
AppendOnly ==
    [][/\ Committed \subseteq Committed'
       /\ \A new \in Committed' \ Committed, old \in Committed : old.seq < new.seq]_auditVars

\* The ledger implements the abstract chain: a commit extends its one end with
\* one entry and every other step, rollbacks included, leaves it alone.
ChainEnd ==
    IF Committed = {} THEN GENESIS_HASH
    ELSE (CHOOSE last \in Committed : IsLast(last, Committed)).entry_hash

EntryOf(row) ==
    [event |-> row.event, previous_hash |-> row.previous_hash, entry_hash |-> row.entry_hash]

Chain == INSTANCE HashChain
             WITH Genesis <- GENESIS_HASH, DigestOf <- ComputeEntryHash,
                  entries <- {EntryOf(row) : row \in Committed}, end <- ChainEnd

ImplementsChain == Chain!Spec

\* A caller waiting for the chain is eventually served or has itself failed.
AppendTerminates ==
    \A t \in Tx : txState[t] = "waiting" ~> txState[t] \in {"committed", "aborted"}
=============================================================================
