-------------------------- MODULE AuditLedgerProofs --------------------------
(***************************************************************************)
(* The audit ledger's invariants, for any set of transactions and events.  *)
(*                                                                         *)
(* ChainIntact is not inductive: a commit keeps it only because the row    *)
(* being committed already links to the end of the committed chain and     *)
(* lies after it, and that holds only because its transaction has held the *)
(* lock since it read the end.  LedgerInv states those facts.              *)
(***************************************************************************)
EXTENDS AuditLedger, TLAPS

\* The lock is held exactly from its acquisition to the end of the transaction.
LockInv == \A t \in Tx : txState[t] \in Holding <=> lock = t

\* Rows belong to transactions that have inserted, and draw distinct numbers.
RowInv ==
    /\ \A row \in table :
          /\ txState[row.tx] \in {"inserted", "committed"}
          /\ row.seq < nextSeq
          /\ row.entry_hash = ComputeEntryHash(row.previous_hash, row.event)
    /\ \A r, s \in table : r.seq = s.seq => r = s

\* A row that awaits its commit lies after every other row.
PendingLast == \A row \in table : txState[row.tx] = "inserted" => IsLast(row, table)

\* The end of the chain that a reader finds, stated of a previous_hash.
IsEnd(hash, rows) ==
    \/ rows = {} /\ hash = GENESIS_HASH
    \/ \E last \in rows : IsLast(last, rows) /\ hash = last.entry_hash

\* What a transaction has read is still the end of the chain.
ReadInv == \A t \in Tx : txState[t] = "read" => IsEnd(previous[t], Committed)

\* Every row, committed or not, links to the committed row before it.
LinkInv == \A row \in table : Linked(row, Committed)

LastExists == Committed # {} => \E last \in Committed : IsLast(last, Committed)

LedgerInv ==
    /\ AuditTypeOK /\ LockInv /\ RowInv /\ PendingLast /\ ReadInv
    /\ LinkInv /\ LastExists /\ NoFork
-----------------------------------------------------------------------------
\* Initially the ledger is empty (AuditInit).
LEMMA InitLedgerInv == AuditInit => LedgerInv
  BY NoTxAssumption DEF AuditInit, LedgerInv, AuditTypeOK, LockInv, RowInv, PendingLast,
     ReadInv, LinkInv, LastExists, NoFork, Committed, TxStates, Holding

\* Type correctness is preserved by every step of a transaction.
LEMMA TypeStep ==
  ASSUME LedgerInv, NEW t \in Tx, AuditStep(t)
  PROVE  AuditTypeOK'
<1> USE DEF AuditTypeOK, TxStates
<1>0. AuditTypeOK BY DEF LedgerInv
<1>1. CASE CallAppend(t) BY <1>0, <1>1 DEF CallAppend
<1>2. CASE AcquireLock(t) BY <1>0, <1>2 DEF AcquireLock
<1>3. CASE ReadLast(t) BY <1>0, <1>3 DEF ReadLast
<1>4. ASSUME NEW event \in Event, NEW label \in Label, InsertRow(t, event, label)
      PROVE  AuditTypeOK'
  BY <1>0, <1>4 DEF InsertRow, NewRow
<1>5. CASE Commit(t) BY <1>0, <1>5 DEF Commit
<1>6. CASE Rollback(t) BY <1>0, <1>6 DEF Rollback
<1> QED BY <1>1, <1>2, <1>3, <1>4, <1>5, <1>6 DEF AuditStep

\* Who holds the lock, and what its transaction has done (ledger.py:101).
LEMMA LockStep ==
  ASSUME LedgerInv, NEW t \in Tx, AuditStep(t)
  PROVE  LockInv'
<1> USE NoTxAssumption DEF LockInv, AuditTypeOK, TxStates, Holding
<1>0. AuditTypeOK /\ LockInv BY DEF LedgerInv
<1>1. CASE CallAppend(t) BY <1>0, <1>1 DEF CallAppend
<1>2. CASE AcquireLock(t) BY <1>0, <1>2 DEF AcquireLock
<1>3. CASE ReadLast(t) BY <1>0, <1>3 DEF ReadLast
<1>4. ASSUME NEW event \in Event, NEW label \in Label, InsertRow(t, event, label)
      PROVE  LockInv'
  BY <1>0, <1>4 DEF InsertRow
<1>5. CASE Commit(t) BY <1>0, <1>5 DEF Commit
<1>6. CASE Rollback(t) BY <1>0, <1>6 DEF Rollback
<1> QED BY <1>1, <1>2, <1>3, <1>4, <1>5, <1>6 DEF AuditStep

\* Only a commit changes what is committed; a rollback drops uncommitted rows.
LEMMA CommittedStable ==
  ASSUME LedgerInv, NEW t \in Tx, AuditStep(t), ~Commit(t)
  PROVE  Committed' = Committed
<1> USE DEF Committed, AuditTypeOK, TxStates
<1>0. AuditTypeOK /\ RowInv BY DEF LedgerInv
<1>1. CASE CallAppend(t) BY <1>0, <1>1 DEF CallAppend, RowInv
<1>2. CASE AcquireLock(t) BY <1>0, <1>2 DEF AcquireLock, RowInv
<1>3. CASE ReadLast(t) BY <1>0, <1>3 DEF ReadLast, RowInv
<1>4. ASSUME NEW event \in Event, NEW label \in Label, InsertRow(t, event, label)
      PROVE  Committed' = Committed
  BY <1>0, <1>4 DEF InsertRow, NewRow, RowInv
<1>5. CASE Rollback(t) BY <1>0, <1>5 DEF Rollback, RowInv
<1> QED BY <1>1, <1>2, <1>3, <1>4, <1>5 DEF AuditStep

\* A commit adds the pending row of its transaction, if any, after the others.
LEMMA CommitAddsLast ==
  ASSUME LedgerInv, NEW t \in Tx, Commit(t)
  PROVE  \/ Committed' = Committed
         \/ \E row \in table : /\ row \notin Committed
                               /\ Committed' = Committed \cup {row}
                               /\ IsLast(row, table)
                               /\ Before(row, Committed) = Committed
<1> USE DEF LedgerInv, AuditTypeOK, TxStates, Committed, Commit
<1>1. \A row \in Committed' : row \in Committed \/ row.tx = t
  OBVIOUS
<1>2. Committed \subseteq Committed'
  OBVIOUS
<1>3. CASE \A row \in table : row.tx # t
  BY <1>1, <1>2, <1>3
<1>4. ASSUME NEW row \in table, row.tx = t
      PROVE  /\ row \notin Committed
             /\ Committed' = Committed \cup {row}
             /\ IsLast(row, table)
             /\ Before(row, Committed) = Committed
  <2>1. txState[t] = "inserted" /\ txState'[t] = "committed"
    OBVIOUS
  <2>2. row \notin Committed /\ row \in Committed'
    BY <1>4, <2>1
  <2>3. IsLast(row, table)
    BY <1>4, <2>1 DEF PendingLast
  <2>4. \A other \in table : other.tx = t => other = row
    <3> TAKE other \in table
    <3>1. HAVE other.tx = t
    <3>2. IsLast(other, table)
      BY <3>1, <2>1 DEF PendingLast
    <3> QED BY <2>3, <3>2, <1>4 DEF IsLast, RowInv
  <2>5. \A other \in Committed : other.seq < row.seq
    <3> TAKE other \in Committed
    <3>1. other.seq <= row.seq /\ other # row /\ other.seq # row.seq
      BY <2>2, <2>3, <1>4 DEF IsLast, RowInv
    <3> QED BY <3>1, <1>4
  <2> QED BY <1>1, <1>2, <2>2, <2>3, <2>4, <2>5 DEF Before
<1> QED BY <1>3, <1>4

\* Sequence numbers are drawn once, and the row that waits is the last one.
LEMMA RowStep ==
  ASSUME LedgerInv, NEW t \in Tx, AuditStep(t)
  PROVE  RowInv' /\ PendingLast'
<1> USE DEF RowInv, PendingLast, IsLast, AuditTypeOK, TxStates
<1>0. AuditTypeOK /\ RowInv /\ PendingLast /\ LockInv BY DEF LedgerInv
<1>1. CASE CallAppend(t) BY <1>0, <1>1 DEF CallAppend
<1>2. CASE AcquireLock(t) BY <1>0, <1>2 DEF AcquireLock
<1>3. CASE ReadLast(t) BY <1>0, <1>3 DEF ReadLast
<1>4. ASSUME NEW event \in Event, NEW label \in Label, InsertRow(t, event, label)
      PROVE  RowInv' /\ PendingLast'
  <2>1. \A row \in table : txState[row.tx] = "committed"
    <3> TAKE row \in table
    <3>1. SUFFICES ASSUME txState[row.tx] = "inserted" PROVE FALSE
      BY <1>0
    <3>2. lock = row.tx /\ lock = t
      BY <1>0, <1>4, <3>1 DEF LockInv, Holding, InsertRow
    <3> QED BY <3>1, <3>2, <1>4 DEF InsertRow
  <2>2. \A row \in table : row.tx # t /\ txState'[row.tx] = "committed"
    BY <1>0, <1>4, <2>1 DEF InsertRow
  <2> QED BY <1>0, <1>4, <2>2 DEF InsertRow, NewRow
<1>5. CASE Commit(t) BY <1>0, <1>5 DEF Commit
<1>6. CASE Rollback(t) BY <1>0, <1>6 DEF Rollback
<1> QED BY <1>1, <1>2, <1>3, <1>4, <1>5, <1>6 DEF AuditStep

\* What the lock holder has read stays the end: nobody else can commit.
LEMMA ReadStep ==
  ASSUME LedgerInv, NEW t \in Tx, AuditStep(t)
  PROVE  ReadInv'
<1> SUFFICES ASSUME NEW u \in Tx, txState'[u] = "read"
             PROVE  IsEnd(previous[u], Committed)'
  BY DEF ReadInv
<1>0. AuditTypeOK /\ RowInv /\ LockInv BY DEF LedgerInv
<1>1. CASE ReadLast(t) /\ u = t
  <2>1. \A row \in table : row.tx # t
    BY <1>0, <1>1 DEF ReadLast, RowInv
  <2>2. Visible(t) = Committed
    BY <2>1 DEF Visible
  <2>3. Committed' = Committed
    BY <1>1, CommittedStable DEF ReadLast, Commit, AuditTypeOK
  <2>4. IsEnd(previous'[t], Committed)
    BY <1>0, <1>1, <2>2, Zenon DEF ReadLast, IsEnd, AuditTypeOK
  <2> QED BY <1>1, <2>3, <2>4 DEF IsEnd
<1>2. CASE ~(ReadLast(t) /\ u = t)
  <2>1. txState[u] = "read" /\ previous'[u] = previous[u]
    BY <1>0, <1>2 DEF AuditStep, CallAppend, AcquireLock, ReadLast, InsertRow, Commit,
       Rollback, AuditTypeOK, TxStates
  <2>2. ~Commit(t)
    BY <1>0, <2>1 DEF Commit, LockInv, Holding
  <2>3. Committed' = Committed
    BY <2>2, CommittedStable
  <2>4. IsEnd(previous[u], Committed)
    BY <2>1 DEF LedgerInv, ReadInv
  <2> QED BY <2>1, <2>3, <2>4 DEF IsEnd
<1> QED BY <1>1, <1>2

\* A row that is inserted links to the end of the committed chain, and a commit
\* puts its row after every other: no link is ever broken or rerouted.
LEMMA LinkStep ==
  ASSUME LedgerInv, NEW t \in Tx, AuditStep(t)
  PROVE  LinkInv' /\ LastExists'
<1>0. AuditTypeOK /\ RowInv /\ LinkInv /\ LastExists BY DEF LedgerInv
<1>1. CASE Commit(t)
  <2>1. table' = table
    BY <1>1 DEF Commit
  <2>2. CASE Committed' = Committed
    BY <1>0, <2>1, <2>2 DEF LinkInv, LastExists, Linked, Before
  <2>3. ASSUME NEW row \in table, Committed' = Committed \cup {row},
               IsLast(row, table), Before(row, Committed) = Committed
        PROVE  LinkInv' /\ LastExists'
    <3>1. \A other \in table : Before(other, Committed \cup {row}) = Before(other, Committed)
      BY <1>0, <2>3 DEF Before, IsLast, AuditTypeOK
    <3>2. LinkInv'
      BY <1>0, <2>1, <2>3, <3>1 DEF LinkInv, Linked
    <3>3. IsLast(row, Committed \cup {row})
      BY <1>0, <2>3 DEF IsLast, Committed
    <3> QED BY <3>2, <3>3, <2>3 DEF LastExists
  <2> QED BY <1>1, <2>2, <2>3, CommitAddsLast
<1>2. ASSUME NEW event \in Event, NEW label \in Label, InsertRow(t, event, label)
      PROVE  LinkInv' /\ LastExists'
  <2>1. Committed' = Committed
    BY <1>0, <1>2, CommittedStable DEF InsertRow, Commit, AuditStep
  <2> DEFINE new == NewRow(t, event, label)
  <2>2. IsEnd(previous[t], Committed)
    BY <1>2 DEF InsertRow, LedgerInv, ReadInv
  <2>3. Before(new, Committed) = Committed
    BY <1>0 DEF Before, Committed, RowInv, NewRow, AuditTypeOK
  <2>4. Linked(new, Committed)
    <3>1. new.previous_hash = previous[t]
      BY DEF NewRow
    <3> HIDE DEF new
    <3> QED BY <2>2, <2>3, <3>1 DEF Linked, IsEnd, IsLast
  <2>5. table' = table \cup {new}
    BY <1>2 DEF InsertRow
  <2> HIDE DEF new
  <2> QED BY <1>0, <2>1, <2>4, <2>5 DEF LinkInv, LastExists, Linked
<1>3. CASE ~Commit(t) /\ table' \subseteq table
  <2>1. Committed' = Committed
    BY <1>3, CommittedStable
  <2> QED BY <1>0, <1>3, <2>1 DEF LinkInv, LastExists, Linked
<1>4. CallAppend(t) \/ AcquireLock(t) \/ ReadLast(t) \/ Rollback(t) => table' \subseteq table
  BY DEF CallAppend, AcquireLock, ReadLast, Rollback
<1> QED BY <1>1, <1>2, <1>3, <1>4 DEF AuditStep

\* No two rows extend the same predecessor.  Were the inserted row to share its
\* predecessor with an older one, that one would lie after the chain's end.
LEMMA NoForkStep ==
  ASSUME LedgerInv, NEW t \in Tx, AuditStep(t)
  PROVE  NoFork'
<1>0. AuditTypeOK /\ RowInv /\ LockInv /\ LinkInv /\ NoFork BY DEF LedgerInv
<1>1. CASE table' \subseteq table
  BY <1>0, <1>1 DEF NoFork
<1>2. ASSUME NEW event \in Event, NEW label \in Label, InsertRow(t, event, label)
      PROVE  NoFork'
  <2>1. table = Committed
    BY <1>0, <1>2 DEF InsertRow, LockInv, Holding, RowInv, Committed, AuditTypeOK
  <2>2. IsEnd(previous[t], Committed)
    BY <1>2 DEF InsertRow, LedgerInv, ReadInv
  <2>3. \A row \in table : row.previous_hash # previous[t]
    <3> SUFFICES ASSUME NEW row \in table, row.previous_hash = previous[t]
                 PROVE  FALSE
      OBVIOUS
    <3>1. PICK last \in table : IsLast(last, table) /\ previous[t] = last.entry_hash
      BY <2>1, <2>2 DEF IsEnd
    <3>2. last.entry_hash = <<last.previous_hash, last.event>>
      BY <1>0 DEF RowInv, ComputeEntryHash
    <3>3. PICK prior \in Before(row, table) : row.previous_hash = prior.entry_hash
      BY <1>0, <2>1, <3>1, <3>2 DEF LinkInv, Linked, GENESIS_HASH
    <3>4. prior \in table /\ prior.seq < row.seq
      BY DEF Before
    <3>5. prior.entry_hash = <<prior.previous_hash, prior.event>>
      BY <1>0, <3>4 DEF RowInv, ComputeEntryHash
    <3>6. prior = last
      BY <1>0, <3>1, <3>2, <3>3, <3>4, <3>5 DEF NoFork
    <3> QED BY <1>0, <3>1, <3>4, <3>6 DEF IsLast, AuditTypeOK
  <2>4. NewRow(t, event, label).previous_hash = previous[t]
    BY DEF NewRow
  <2>5. table' = table \cup {NewRow(t, event, label)}
    BY <1>2 DEF InsertRow
  <2> QED BY <1>0, <2>3, <2>4, <2>5 DEF NoFork
<1>3. CallAppend(t) \/ AcquireLock(t) \/ ReadLast(t) \/ Rollback(t) \/ Commit(t)
        => table' \subseteq table
  BY DEF CallAppend, AcquireLock, ReadLast, Rollback, Commit
<1> QED BY <1>1, <1>2, <1>3 DEF AuditStep
-----------------------------------------------------------------------------
\* Every step of a transaction, or none, keeps LedgerInv.
LEMMA LedgerStep ==
  ASSUME LedgerInv, [AuditNext]_auditVars
  PROVE  LedgerInv'
<1>1. ASSUME NEW t \in Tx, AuditStep(t) PROVE LedgerInv'
  BY <1>1, TypeStep, LockStep, RowStep, ReadStep, LinkStep, NoForkStep DEF LedgerInv
<1>2. CASE UNCHANGED auditVars
  BY <1>2 DEF auditVars, LedgerInv, AuditTypeOK, LockInv, RowInv, PendingLast, ReadInv,
     LinkInv, LastExists, NoFork, Committed, IsEnd, IsLast, Linked, Before
<1> QED BY <1>1, <1>2 DEF AuditNext

\* LedgerInv holds throughout, whatever the interleaving of the transactions.
THEOREM LedgerInvariant == AuditSpec => []LedgerInv
<1>1. LedgerInv /\ [AuditNext]_auditVars => LedgerInv' BY LedgerStep
<1> QED BY <1>1, InitLedgerInv, PTL DEF AuditSpec

\* The state of the ledger stays well-typed.
THEOREM TypeCorrect == AuditSpec => []AuditTypeOK
  BY LedgerInvariant, PTL DEF LedgerInv

\* verify() would answer true at every instant (ledger.py:122-134).
THEOREM ChainCorrect == AuditSpec => []ChainIntact
<1>1. LedgerInv => ChainIntact
  BY DEF LedgerInv, ChainIntact, VerifyChain, Committed, LinkInv, RowInv
<1> QED BY <1>1, LedgerInvariant, PTL

\* Concurrent appends cannot fork the chain (ledger.py:22, ledger.py:101).
THEOREM ForkFree == AuditSpec => []NoFork
  BY LedgerInvariant, PTL DEF LedgerInv

\* What is committed stays, and what a step commits lies after it: rows become
\* visible in seq order although seq is drawn before the commit.
THEOREM CommitsInOrder == AuditSpec => AppendOnly
<1>1. LedgerInv /\ [AuditNext]_auditVars =>
        [/\ Committed \subseteq Committed'
         /\ \A new \in Committed' \ Committed, old \in Committed : old.seq < new.seq]_auditVars
  <2> SUFFICES ASSUME LedgerInv, NEW t \in Tx, AuditStep(t)
               PROVE  /\ Committed \subseteq Committed'
                      /\ \A new \in Committed' \ Committed, old \in Committed : old.seq < new.seq
    BY DEF AuditNext
  <2>1. CASE ~Commit(t) BY <2>1, CommittedStable
  <2>2. CASE Commit(t) BY <2>2, CommitAddsLast DEF Before
  <2> QED BY <2>1, <2>2
<1> QED BY <1>1, LedgerInvariant, PTL DEF AuditSpec, AppendOnly

\* The ledger implements the abstract chain: a commit extends its one end.
THEOREM LedgerImplementsChain == AuditSpec => ImplementsChain
<1>1. AuditInit => Chain!Init
  BY DEF AuditInit, Chain!Init, ChainEnd, Committed
<1>2. LedgerInv /\ [AuditNext]_auditVars => [Chain!Next]_Chain!chainVars
  <2> SUFFICES ASSUME LedgerInv, [AuditNext]_auditVars
               PROVE  [Chain!Next]_Chain!chainVars
    OBVIOUS
  <2>1. CASE Committed' = Committed
    BY <2>1 DEF Chain!chainVars, ChainEnd, IsLast, EntryOf
  <2>2. ASSUME NEW t \in Tx, Commit(t), Committed' # Committed
        PROVE  Chain!Next
    <3>1. PICK row \in table : /\ row \notin Committed
                               /\ Committed' = Committed \cup {row}
                               /\ IsLast(row, table)
                               /\ Before(row, Committed) = Committed
      BY <2>2, CommitAddsLast
    <3>2. row.event \in Event
      BY DEF LedgerInv, AuditTypeOK
    <3>3. row.entry_hash = <<row.previous_hash, row.event>>
      BY DEF LedgerInv, RowInv, ComputeEntryHash
    <3>4. row.previous_hash = ChainEnd
      <4>1. Linked(row, Committed)
        BY DEF LedgerInv, LinkInv
      <4>2. \A p, q \in Committed : IsLast(p, Committed) /\ IsLast(q, Committed) => p = q
        BY DEF IsLast, LedgerInv, RowInv, AuditTypeOK, Committed
      <4> QED BY <4>1, <4>2, <3>1 DEF Linked, ChainEnd
    <3>5. ChainEnd' = row.entry_hash
      <4>1. \A p \in Committed' : IsLast(p, Committed') <=> p = row
        BY <3>1 DEF IsLast, LedgerInv, RowInv, AuditTypeOK, Committed, Before
      <4>2. ChainEnd' = (CHOOSE last \in Committed' : IsLast(last, Committed')).entry_hash
        BY <3>1 DEF ChainEnd, IsLast
      <4>3. (CHOOSE last \in Committed' : IsLast(last, Committed')) = row
        BY <3>1, <4>1
      <4> QED BY <4>2, <4>3
    <3>6. {EntryOf(r) : r \in Committed'} = {EntryOf(r) : r \in Committed} \cup {EntryOf(row)}
      BY <3>1
    <3>7. Chain!Extend(row.event)
      BY <3>3, <3>4, <3>5, <3>6 DEF Chain!Extend, Chain!Entry, EntryOf, ComputeEntryHash
    <3> QED BY <3>2, <3>7 DEF Chain!Next
  <2>3. ASSUME NEW t \in Tx, AuditStep(t), ~Commit(t) PROVE Committed' = Committed
    BY <2>3, CommittedStable
  <2>4. CASE UNCHANGED auditVars
    BY <2>1, <2>4 DEF auditVars, Committed
  <2> QED BY <2>1, <2>2, <2>3, <2>4 DEF AuditNext
<1> QED BY <1>1, <1>2, LedgerInvariant, PTL DEF AuditSpec, ImplementsChain, Chain!Spec

\* An edit of what the hash covers is caught, wherever in the chain it is made.
THEOREM HashedEditCaught ==
  ASSUME NEW rows, VerifyChain(rows), NEW row \in rows, NEW event, event # row.event,
         NEW changed, changed.event = event, changed.previous_hash = row.previous_hash,
         changed.entry_hash = row.entry_hash
  PROVE  ~VerifyChain((rows \ {row}) \cup {changed})
  BY DEF VerifyChain, ComputeEntryHash
=============================================================================
