------------------------- MODULE ConversationWriter -------------------------
(***************************************************************************)
(* The writer of a call's record (agent-worker/conversation/writer.py).    *)
(*                                                                         *)
(* The session's callbacks put items on an asyncio queue and never wait.   *)
(* One task drains it: it hands an item to a thread, awaits the thread and *)
(* takes the next.  The thread makes one transaction of each item, which   *)
(* the database may commit, refuse or leave hanging.  The shutdown callback*)
(* queues the closing item and a sentinel and waits ten seconds at most;   *)
(* a thread that is cut off then is not stopped and may still commit.      *)
(*                                                                         *)
(* An item is its number, its kind and the one field of its row that a      *)
(* property reads: the decision of a consent and of the closing item, the  *)
(* label of a sentiment, the trigger of an escalation, the callback that a *)
(* callback's row is for.  Who queues what, and when, is AgentSession.     *)
(***************************************************************************)
EXTENDS Integers, Sequences, FiniteSets

CONSTANTS Callback,   \* the callbacks that may be scheduled
          MaxOutages, \* a bound: writes that fail for another reason than their row
          MaxBacklog  \* a bound: items that wait in the queue while the call goes on

ASSUME WriterAssumption == MaxOutages \in Nat /\ MaxBacklog \in Nat

VARIABLES count,       \* how many items have been queued, the sentinel apart
          queue,       \* asyncio.Queue
          drain,       \* the task: "waiting", "writing", "done" or "cancelled"
          thread,      \* the item a thread is writing, or Idle
          stored,      \* the items whose transaction committed
          dropped,     \* the items whose transaction failed
          call,        \* the call_sessions row, or NoRow
          audited,     \* the consents in the audit ledger
          flushed,     \* the consent that the thread's open transaction has inserted
          appended,    \* the ledger entry that it has appended
          closing      \* aclose: "open", "waiting" or "returned"

databaseVars == <<stored, dropped, call, audited, flushed, appended>>
writerVars == <<count, queue, drain, thread, databaseVars, closing>>

Decision == {"granted", "refused"}
\* Every label at or below the scorer's threshold is "negative" here.
Label == {"negative", "not negative"}
Trigger == {"frustration", "any other"}
Kind == {"session_start", "turn", "sentiment", "escalation", "callback", "consent",
         "session_finish"}
Value == Decision \cup {"unknown", "none"} \cup Label \cup Trigger \cup Callback
Item == [n : Nat, kind : Kind, value : Value]
SENTINEL == [n |-> 0, kind |-> "None"]
Idle == [n |-> 0, kind |-> "idle"]
NoRow == [finished |-> FALSE, recording_consent |-> "no row"]
Row == [finished : BOOLEAN, recording_consent : Decision \cup {"unknown"}]

NewItem(k, kind, value) == [n |-> count + k, kind |-> kind, value |-> value]
-----------------------------------------------------------------------------
\* _open_conversation: the task is created and the first item queued at once,
\* with the consent known then, which is none.
WriterInit ==
    /\ count = 1
    /\ queue = <<[n |-> 1, kind |-> "session_start", value |-> "unknown"]>>
    /\ drain = "waiting" /\ thread = Idle
    /\ stored = {} /\ dropped = {} /\ call = NoRow /\ audited = {}
    /\ flushed = {} /\ appended = {}
    /\ closing = "open"

\* Mutant: a LifoQueue.
EnqueueFirst(items) ==
    /\ queue' = items \o queue
    /\ count' = count + Cardinality({i \in DOMAIN items : items[i] # SENTINEL})

Enqueue(items) ==
    /\ queue' = queue \o items
    /\ count' = count + Cardinality({i \in DOMAIN items : items[i] # SENTINEL})

\* The record_* methods: queue and return.  The code's queue has no limit.
Record(items) ==
    /\ Len(queue) + Len(items) <= MaxBacklog
    /\ Enqueue(items)
    /\ UNCHANGED <<drain, thread, databaseVars, closing>>

\* Mutant: the closing item carries the consent known when the call was opened.
FinishConversationStale(consent) ==
    /\ closing = "open" /\ closing' = "waiting"
    /\ Enqueue(<<NewItem(1, "session_finish", "unknown"), SENTINEL>>)
    /\ UNCHANGED <<drain, thread, databaseVars>>

\* Mutant: the writer is closed before the session is finished.
FinishConversationSwapped(consent) ==
    /\ closing = "open" /\ closing' = "waiting"
    /\ Enqueue(<<SENTINEL, NewItem(1, "session_finish", consent)>>)
    /\ UNCHANGED <<drain, thread, databaseVars>>

\* _finish_conversation: finish_session and the start of aclose, with no await between.
FinishConversation(consent) ==
    /\ closing = "open" /\ closing' = "waiting"
    /\ Enqueue(<<NewItem(1, "session_finish", consent), SENTINEL>>)
    /\ UNCHANGED <<drain, thread, databaseVars>>
-----------------------------------------------------------------------------
\* _drain takes an item and hands it to a thread.
Take ==
    /\ drain = "waiting" /\ queue # <<>> /\ Head(queue) # SENTINEL
    /\ drain' = "writing" /\ thread' = Head(queue) /\ queue' = Tail(queue)
    /\ UNCHANGED <<count, databaseVars, closing>>

\* _drain takes the sentinel.
TakeSentinel ==
    /\ drain = "waiting" /\ queue # <<>> /\ Head(queue) = SENTINEL
    /\ drain' = "done" /\ queue' = Tail(queue)
    /\ UNCHANGED <<count, thread, databaseVars, closing>>

\* The foreign keys to call_sessions; consent_records has none.
RefersToCall(item) == item.kind \in {"turn", "sentiment", "escalation", "callback"}

\* session_finish: no row, no update; an unknown decision leaves the row's.
FinishedRow(item) ==
    IF call = NoRow THEN NoRow
    ELSE [finished |-> TRUE,
          recording_consent |-> IF item.value = "unknown" THEN call.recording_consent
                                                          ELSE item.value]

\* The transaction is over, and with it the thread: the task, unless it was
\* cancelled, takes the next item.
ThreadEnds ==
    /\ thread' = Idle /\ flushed' = {} /\ appended' = {}
    /\ drain' = IF drain = "writing" THEN "waiting" ELSE drain
    /\ UNCHANGED <<count, queue, closing>>

\* Mutant: session.commit() where the code has session.flush().
FlushConsentCommitting ==
    /\ thread # Idle /\ thread.kind = "consent" /\ flushed = {}
    /\ flushed' = {thread} /\ stored' = stored \cup {thread}
    /\ UNCHANGED <<count, queue, drain, thread, dropped, call, audited, appended, closing>>

\* session.flush(): the consent is inserted, for its id, and not committed.
FlushConsent ==
    /\ thread # Idle /\ thread.kind = "consent" /\ flushed = {}
    /\ flushed' = {thread}
    /\ UNCHANGED <<count, queue, drain, thread, stored, dropped, call, audited, appended, closing>>

\* PgAuditLedger.append in the same transaction: the entry refers to that id.
AppendConsent ==
    /\ flushed # {} /\ appended = {}
    /\ appended' = {item.n : item \in flushed}
    /\ UNCHANGED <<count, queue, drain, thread, stored, dropped, call, audited, flushed, closing>>

\* session_scope commits: what was flushed, what was only added, what was appended.
WriteCommits ==
    /\ thread # Idle
    /\ RefersToCall(thread) => call # NoRow
    /\ thread.kind = "consent" => appended # {}
    /\ stored' = stored \cup flushed \cup {thread}
    /\ call' = CASE thread.kind = "session_start" ->
                      [finished |-> FALSE, recording_consent |-> thread.value]
                 [] thread.kind = "session_finish" -> FinishedRow(thread)
                 [] OTHER -> call
    /\ audited' = audited \cup appended
    /\ UNCHANGED dropped
    /\ ThreadEnds

\* What a write may fail for, at any of its statements: its foreign key, or an
\* outage of the database or the ledger.
MayFail ==
    \/ RefersToCall(thread) /\ call = NoRow
    \/ Cardinality(dropped) < MaxOutages

\* Mutant: session_scope commits in a finally, also what a failed write has flushed.
WriteFailsHalfway ==
    /\ thread # Idle /\ MayFail
    /\ dropped' = dropped \cup {thread}
    /\ stored' = stored \cup flushed
    /\ UNCHANGED <<call, audited>>
    /\ ThreadEnds

\* Mutant: an item whose write failed is queued again.
WriteFailsRequeued ==
    /\ thread # Idle /\ MayFail
    /\ queue' = Append(queue, thread)
    /\ thread' = Idle /\ drain' = IF drain = "writing" THEN "waiting" ELSE drain
    /\ flushed' = {} /\ appended' = {}
    /\ UNCHANGED <<count, stored, dropped, call, audited, closing>>

\* _write raises, session_scope rolls back, _drain logs it; the item is lost.
WriteFails ==
    /\ thread # Idle /\ MayFail
    /\ dropped' = dropped \cup {thread}
    /\ UNCHANGED <<stored, call, audited>>
    /\ ThreadEnds

\* aclose: the task has ended.
CloseReturns ==
    /\ closing = "waiting" /\ drain = "done"
    /\ closing' = "returned"
    /\ UNCHANGED <<count, queue, drain, thread, databaseVars>>

\* Mutant: aclose awaits the task for as long as it takes.
CloseNeverTimesOut ==
    /\ closing = "waiting" /\ drain = "cancelled"
    /\ closing' = "returned"
    /\ UNCHANGED <<count, queue, drain, thread, databaseVars>>

\* aclose: ten seconds are over; wait_for cancels the task, but not the thread.
CloseTimesOut ==
    /\ closing = "waiting" /\ drain # "done"
    /\ closing' = "returned" /\ drain' = "cancelled"
    /\ UNCHANGED <<count, queue, thread, databaseVars>>

Drain == Take \/ TakeSentinel

\* The writer's own steps, once it is fed.
WriterStep ==
    \/ Drain
    \/ FlushConsent \/ AppendConsent \/ WriteCommits \/ WriteFails
    \/ CloseReturns \/ CloseTimesOut
-----------------------------------------------------------------------------
\* The record holds only items the call has made, at most one being written.
WriterTypeOK ==
    /\ count \in Nat
    /\ queue \in Seq(Item \cup {SENTINEL})
    /\ drain \in {"waiting", "writing", "done", "cancelled"}
    /\ thread \in Item \cup {Idle} /\ (drain = "writing" => thread # Idle)
    /\ stored \subseteq Item /\ dropped \subseteq Item /\ stored \cap dropped = {}
    /\ call \in Row \cup {NoRow}
    /\ audited \subseteq Nat /\ flushed \subseteq Item /\ appended \subseteq Nat
    /\ closing \in {"open", "waiting", "returned"}

\* Nothing reaches the database before the call that it refers to (start_session's
\* "FIFO-ordered"): when a thread has a turn, a sentiment, an escalation or a
\* callback, or is done with one, the transaction of the call's own row is over.
\* So a foreign key refuses an item only if an outage took the call's row.
CallRowFirst ==
    \A item \in stored \cup dropped \cup {thread} : RefersToCall(item) =>
        \E start \in stored \cup dropped : start.kind = "session_start"

\* A consent is on record exactly when the ledger has its entry, whichever of the
\* flush, the append and the commit fails or hangs.
ConsentAudited ==
    audited = {item.n : item \in {i \in stored : i.kind = "consent"}}

\* A call row that was finished after a consent was recorded says what the
\* consent says, although the two are written by two transactions.
RowAgreesWithConsent ==
    \A item \in stored : item.kind = "consent" /\ call # NoRow /\ call.finished =>
        call.recording_consent = item.value

\* If the task ended by itself, every item made before the closing of the call,
\* and the closing itself, was written or was logged as dropped.
FlushedOnClose ==
    drain = "done" =>
        \E finish \in stored \cup dropped :
            /\ finish.kind = "session_finish"
            /\ \A n \in 1..finish.n : \E item \in stored \cup dropped : item.n = n

\* The job's shutdown waits for the writer, but not for ever: not even a
\* database that hangs can keep it.
ShutdownReturns == closing = "waiting" ~> closing = "returned"

\* The writer keeps what a call's record promises: the items are taken in
\* order and each is stored before the next is taken, or never.
Queued == Cardinality({i \in DOMAIN queue : queue[i] # SENTINEL})
Journal == INSTANCE CallJournal WITH
    made <- count, taken <- count - Queued, stored <- {item.n : item \in stored}
ImplementsJournal == Journal!Spec
=============================================================================
