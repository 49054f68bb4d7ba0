-------------------------- MODULE AgentSessionProofs --------------------------
(***************************************************************************)
(* The safety of a call and of its record, for any number of turns,        *)
(* callbacks, outages and advisors.                                        *)
(*                                                                         *)
(* WriterInv is about the writer alone.  Items are numbered as they are    *)
(* made; the numbers up to some t have been taken, in order, the others    *)
(* are in the queue, in order.  A callback that is confirmed during the    *)
(* shutdown comes after the sentinel, which is why the sentinel need not   *)
(* be last.  The consequence that everything else uses is Numbered.        *)
(*                                                                         *)
(* SessionInv is about what the items say, in terms of all Items that were *)
(* made, wherever they have got to: a step of the writer leaves that set   *)
(* alone, a step of the session adds one or two items to it.               *)
(***************************************************************************)
EXTENDS AgentSession, SequenceTheorems, FiniteSetTheorems, TLAPS

Entry == Item \cup {SENTINEL}

Written == stored \cup dropped

\* Made, without the marks for an idle thread and for the end of the queue.
Items == Made \ {SENTINEL, Idle}

\* The items up to number t have been taken; the sentinel is at place p of the
\* queue, or not in it at all.
QueueShape(p, t) ==
    /\ Len(queue) = count - t + (IF p > Len(queue) THEN 0 ELSE 1)
    /\ \A i \in 1..Len(queue) :
          IF i = p THEN queue[i] = SENTINEL
          ELSE queue[i] \in Item /\ queue[i].n = t + (IF i < p THEN i ELSE i - 1)

\* The taken items have been written, but for the one that a thread may have.
TakenItems(t) ==
    /\ \A x \in Written : x.n \in 1..t
    /\ \A x, y \in Written : x.n = y.n => x = y
    /\ \A n \in 1..t : (thread # Idle /\ thread.n = n) \/ \E x \in Written : x.n = n
    /\ thread # Idle => thread.n = t /\ t > 0 /\ \A x \in Written : x.n # t

\* The sentinel is queued with the closing of the call, and after it.
Closing(p, t) ==
    /\ closing = "open" \/ drain = "done" => p > Len(queue)
    /\ p <= Len(queue) =>
          \E x \in Items : x.kind = "session_finish" /\ x.n < t + p

QueueInv ==
    \E p \in 1..Len(queue) + 1, t \in 0..count :
        QueueShape(p, t) /\ TakenItems(t) /\ Closing(p, t)

\* What the open transaction has flushed and appended is the thread's consent.
UnitInv ==
    /\ flushed # {} => thread # Idle /\ thread.kind = "consent" /\ flushed = {thread}
    /\ appended # {} => flushed # {} /\ appended = {thread.n}

\* The ledger has the consents that are stored, and the unit the one to come.
ConsentInv == ConsentAudited /\ UnitInv

\* The task waits for its thread, and ends after the call.
DrainInv ==
    /\ drain = "waiting" => thread = Idle
    /\ drain = "done" => closing # "open"

WriterInv ==
    /\ WriterTypeOK /\ QueueInv
    /\ DrainInv /\ FlushedOnClose /\ ConsentInv
-----------------------------------------------------------------------------
\* The last sentiment of the call, or the last two, are negative.
Sentiments == {x \in Items : x.kind = "sentiment"}

LastNegative ==
    \E t \in Sentiments : t.value = "negative" /\ \A u \in Sentiments : u.n <= t.n

BothNegative ==
    \E s, t \in Sentiments :
        /\ s.n < t.n /\ s.value = "negative" /\ t.value = "negative"
        /\ \A u \in Sentiments : u.n <= s.n \/ u = t

StreakInv ==
    /\ consecutive_negative_turns >= 1 <=> LastNegative
    /\ consecutive_negative_turns >= 2 <=> BothNegative
    /\ should_offer_escalation <=> consecutive_negative_turns >= 2
    /\ consecutive_negative_turns <= turns

\* Every item came after what it stands on.
Founded(x) ==
    /\ x.kind = "session_start" => x.n = 1 /\ x.value = "unknown"
    /\ x.kind = "consent" => x.value \in Decision /\ x.value = recording_consent
    /\ x.kind = "session_finish" => closing # "open" /\ x.value = recording_consent
    /\ RefersToCall(x) => \E c \in Items : c.kind = "consent" /\ c.n < x.n
    /\ x.kind = "callback" => \E e \in Items : e.kind = "escalation" /\ e.n < x.n
    /\ x.kind = "escalation" => (x.value = "frustration" <=> LastTwoNegative(x))

\* Who has the floor, and what has been said by then.
FloorInv ==
    /\ floor = "consent" => recording_consent = "unknown" /\ \A x \in Items : x.kind # "consent"
    /\ floor # "consent" => \E x \in Items : x.kind = "consent"
    /\ floor \in {"transferring", "offering", "confirming"} => persona = "manager"
    /\ persona = "manager" => \E x \in Items : x.kind = "escalation"

\* The call's row is there because its start was stored, and a row that was
\* finished has the decision.
RowInv ==
    /\ call # NoRow => \E s \in stored : s.kind = "session_start"
    /\ call # NoRow /\ call.finished =>
          /\ closing # "open"
          /\ recording_consent # "unknown" => call.recording_consent = recording_consent

\* A callback that was put to notification-service is being confirmed or queued.
NoticeInv ==
    /\ \A n \in texts : notice[n] # "none"
    /\ \A n \in Notice : notice[n] # "none" =>
          \/ floor = "confirming" /\ callback = n
          \/ \E x \in Items : x.kind = "callback" /\ x.value = n

\* The call began with its start.
StartMade == \E s \in Items : s.kind = "session_start" /\ s.n = 1

SessionInv ==
    /\ TypeOK /\ StreakInv /\ FloorInv /\ RowInv /\ StartMade /\ NoticeInv
    /\ \A x \in Items : Founded(x)

IInv == WriterInv /\ SessionInv
-----------------------------------------------------------------------------
\* Neither mark is an item.
LEMMA MarksAreNoItems ==
  /\ \A item \in Item : item # SENTINEL /\ item # Idle /\ item.kind \in Kind /\ item.n \in Nat
                        /\ item.value \in Value
  /\ SENTINEL # Idle /\ SENTINEL.n = 0 /\ Idle.n = 0
  /\ SENTINEL.kind \notin Kind /\ Idle.kind \notin Kind
<1>1. /\ SENTINEL.kind = "None" /\ Idle.kind = "idle" /\ SENTINEL.n = 0 /\ Idle.n = 0
  BY DEF SENTINEL, Idle
<1>2. SENTINEL.kind \notin Kind /\ Idle.kind \notin Kind BY <1>1 DEF Kind
<1>3. \A item \in Item : item.kind \in Kind /\ item.n \in Nat /\ item.value \in Value BY DEF Item
<1> QED BY <1>1, <1>2, <1>3

\* What is in the queue, at the thread or written is all there is.
Pieces ==
    /\ \A x : x \in Items <=> \/ x \in Written
                              \/ x = thread /\ thread # Idle
                              \/ \E i \in 1..Len(queue) : x = queue[i] /\ queue[i] # SENTINEL
    /\ Items \subseteq Item /\ Written \subseteq Item /\ Written \subseteq Items
    /\ queue \in Seq(Entry) /\ Len(queue) \in Nat /\ DOMAIN queue = 1..Len(queue)

\* The types say where an item can be.
LEMMA ItemsAre == WriterTypeOK => Pieces
<1> SUFFICES ASSUME WriterTypeOK PROVE Pieces OBVIOUS
<1>1. queue \in Seq(Entry) /\ thread \in Item \cup {Idle} /\ Written \subseteq Item
  BY DEF WriterTypeOK, Entry, Written
<1>2. /\ Len(queue) \in Nat /\ DOMAIN queue = 1..Len(queue)
      /\ \A i \in 1..Len(queue) : queue[i] \in Entry
  BY <1>1, LenProperties, ElementOfSeq
<1>3. \A x : x \in Items <=> \/ x \in Written
                             \/ x = thread /\ thread # Idle
                             \/ \E i \in 1..Len(queue) : x = queue[i] /\ queue[i] # SENTINEL
  BY <1>1, <1>2, MarksAreNoItems DEF Items, Made, Written, Entry
<1>4. Items \subseteq Item
  BY <1>1, <1>2, <1>3 DEF Entry
<1> QED BY <1>1, <1>2, <1>3, <1>4 DEF Pieces

\* A new item is numbered after all that were made.
LEMMA NewItemFacts ==
  ASSUME count \in Nat, NEW k \in Nat, NEW kind \in Kind, NEW value \in Value
  PROVE  /\ NewItem(k, kind, value) \in Item
         /\ NewItem(k, kind, value).n = count + k
         /\ NewItem(k, kind, value).kind = kind
         /\ NewItem(k, kind, value).value = value
  BY DEF NewItem, Item

\* How many of the entries that are put on the queue at once are items.
LEMMA CountItems ==
  ASSUME NEW s \in Seq(Item)
  PROVE  Cardinality({i \in DOMAIN s : s[i] # SENTINEL}) = Len(s)
<1>1. Len(s) \in Nat /\ DOMAIN s = 1..Len(s) /\ \A i \in 1..Len(s) : s[i] \in Item
  BY LenProperties, ElementOfSeq
<1>2. {i \in DOMAIN s : s[i] # SENTINEL} = 1..Len(s) BY <1>1, MarksAreNoItems
<1>3. Cardinality(1..Len(s)) = Len(s)
  <2>1. 1 \in Int /\ Len(s) \in Int BY <1>1
  <2>2. Cardinality(1..Len(s)) = IF 1 > Len(s) THEN 0 ELSE Len(s) - 1 + 1 BY <2>1, FS_Interval
  <2> QED BY <1>1, <2>2
<1> QED BY <1>2, <1>3

\* An item and the sentinel: one item.
LEMMA CountLast ==
  ASSUME NEW x \in Item
  PROVE  Cardinality({i \in DOMAIN <<x, SENTINEL>> : <<x, SENTINEL>>[i] # SENTINEL}) = 1
<1>1. {i \in DOMAIN <<x, SENTINEL>> : <<x, SENTINEL>>[i] # SENTINEL} = {1} BY MarksAreNoItems
<1> QED BY <1>1, FS_Singleton

\* r is q with s at its end.
IsExtended(r, q, s) ==
    /\ Len(r) = Len(q) + Len(s)
    /\ \A i \in 1..Len(q) : i \in 1..Len(r) /\ r[i] = q[i]
    /\ \A j \in 1..Len(s) : Len(q) + j \in 1..Len(r) /\ r[Len(q) + j] = s[j]
    /\ \A i \in 1..Len(r) : i \in 1..Len(q) \/ \E j \in 1..Len(s) : i = Len(q) + j

\* A sequence with another at its end.
LEMMA Extended ==
  ASSUME NEW S, NEW q \in Seq(S), NEW s \in Seq(S)
  PROVE  q \o s \in Seq(S) /\ IsExtended(q \o s, q, s)
<1>1. Len(q) \in Nat /\ Len(s) \in Nat BY LenProperties
<1>2. /\ q \o s \in Seq(S) /\ Len(q \o s) = Len(q) + Len(s)
      /\ \A i \in 1..Len(q) + Len(s) : (q \o s)[i] = IF i <= Len(q) THEN q[i] ELSE s[i - Len(q)]
  BY ConcatProperties
<1>3. ASSUME NEW j \in 1..Len(s)
      PROVE  Len(q) + j \in 1..Len(q \o s) /\ (q \o s)[Len(q) + j] = s[j]
  <2>1. Len(q) + j \in 1..Len(q) + Len(s) /\ ~(Len(q) + j <= Len(q)) /\ (Len(q) + j) - Len(q) = j
    BY <1>1
  <2> QED BY <1>2, <2>1
<1>4. ASSUME NEW i \in 1..Len(q \o s), i \notin 1..Len(q)
      PROVE  \E j \in 1..Len(s) : i = Len(q) + j
  <2>1. i - Len(q) \in 1..Len(s) /\ i = Len(q) + (i - Len(q)) BY <1>1, <1>2, <1>4
  <2> QED BY <2>1
<1>5. \A i \in 1..Len(q) : i \in 1..Len(q \o s) /\ (q \o s)[i] = q[i] BY <1>1, <1>2
<1> QED BY <1>2, <1>3, <1>4, <1>5 DEF IsExtended

\* A sequence without its first element.
LEMMA Shorter ==
  ASSUME NEW S, NEW q \in Seq(S), q # <<>>
  PROVE  /\ Tail(q) \in Seq(S)
         /\ 1 \in DOMAIN q /\ Head(q) = q[1]
         /\ \A i \in DOMAIN Tail(q) : i + 1 \in DOMAIN q /\ Tail(q)[i] = q[i + 1] /\ i \in Nat
         /\ \A i \in DOMAIN q : i # 1 => i - 1 \in DOMAIN Tail(q) /\ q[i] = Tail(q)[i - 1] /\ i \in Nat
<1>1. Len(q) \in Nat \ {0} /\ DOMAIN q = 1..Len(q) BY EmptySeq, LenProperties
<1>2. /\ Tail(q) \in Seq(S) /\ Len(Tail(q)) = Len(q) - 1
      /\ \A i \in 1..Len(Tail(q)) : Tail(q)[i] = q[i + 1]
  BY HeadTailProperties
<1>3. DOMAIN Tail(q) = 1..Len(q) - 1 BY <1>2, LenProperties
<1> QED BY <1>1, <1>2, <1>3

\* Numbers: no two items have the same, all have been given out, and whatever
\* was made before a written item has been written itself.
Numbered ==
    /\ Items \subseteq Item
    /\ \A x \in Items : x.n \in 1..count
    /\ \A x, y \in Items : x.n = y.n => x = y
    /\ \A x \in Items, y \in Written : x.n < y.n => x \in Written
    /\ thread # Idle => thread \in Items /\ \A x \in Items : x.n < thread.n => x \in Written

\* Where an item is, its number says.
LEMMA PlaceOf ==
  ASSUME WriterTypeOK, NEW p \in 1..Len(queue) + 1, NEW t \in 0..count,
         QueueShape(p, t), TakenItems(t), NEW x \in Items
  PROVE  /\ x \in Written => x.n \in 1..t /\ (thread # Idle => x.n < t)
         /\ x \notin Written => \/ x = thread /\ thread # Idle /\ x.n = t /\ t > 0
                                \/ \E i \in 1..Len(queue) :
                                      /\ i # p /\ x = queue[i] /\ x.n > t /\ x.n <= count
                                      /\ x.n = t + (IF i < p THEN i ELSE i - 1)
<1>0. /\ Len(queue) \in Nat /\ count \in Nat /\ t \in Nat /\ p \in Nat \ {0}
      /\ Items \subseteq Item /\ t <= count /\ p <= Len(queue) + 1
  BY ItemsAre DEF WriterTypeOK, Pieces
<1>1. ASSUME x \in Written PROVE x.n \in 1..t /\ (thread # Idle => x.n < t)
  <2>1. x.n \in 1..t /\ (thread # Idle => x.n # t) BY <1>1 DEF TakenItems
  <2> QED BY <2>1, <1>0
<1>2. ASSUME x = thread, thread # Idle PROVE x.n = t /\ t > 0
  BY <1>2 DEF TakenItems
<1>3. ASSUME NEW i \in 1..Len(queue), x = queue[i], queue[i] # SENTINEL
      PROVE  /\ i # p /\ x.n > t /\ x.n <= count
             /\ x.n = t + (IF i < p THEN i ELSE i - 1)
  <2>1. i # p /\ x.n = t + (IF i < p THEN i ELSE i - 1) BY <1>3 DEF QueueShape
  <2>2. Len(queue) = count - t + (IF p > Len(queue) THEN 0 ELSE 1) BY DEF QueueShape
  <2> QED BY <1>0, <2>1, <2>2
<1> QED BY <1>1, <1>2, <1>3, ItemsAre DEF Pieces

\* The queue's shape and what has been taken give the numbers their meaning.
LEMMA NumberedItems ==
  ASSUME WriterInv
  PROVE  Numbered
<1>0. WriterTypeOK BY DEF WriterInv
<1>1. PICK p \in 1..Len(queue) + 1, t \in 0..count : QueueShape(p, t) /\ TakenItems(t)
  BY DEF WriterInv, QueueInv
<1>2. /\ Items \subseteq Item /\ \A x \in Item : x.n \in Nat
      /\ count \in Nat /\ t \in Nat /\ p \in Nat /\ t <= count /\ Len(queue) \in Nat
      /\ thread # Idle => thread \in Items
  BY <1>0, ItemsAre, MarksAreNoItems DEF WriterTypeOK, Pieces
<1>3. ASSUME NEW x \in Items
      PROVE  /\ x \in Written => x.n \in 1..t /\ (thread # Idle => x.n < t)
             /\ x \notin Written => \/ x = thread /\ thread # Idle /\ x.n = t /\ t > 0
                                    \/ \E i \in 1..Len(queue) :
                                          /\ i # p /\ x = queue[i] /\ x.n > t /\ x.n <= count
                                          /\ x.n = t + (IF i < p THEN i ELSE i - 1)
  BY <1>0, <1>1, <1>3, PlaceOf
<1>4. ASSUME NEW x \in Items PROVE x.n \in 1..count
  <2>1. CASE x \in Written BY <1>2, <1>3, <2>1
  <2>2. CASE x \notin Written
    <3>1. x.n \in Nat /\ x.n > 0 /\ x.n <= count BY <1>2, <1>3, <2>2
    <3> QED BY <1>2, <3>1
  <2> QED BY <2>1, <2>2
<1>5. ASSUME NEW x \in Items, NEW y \in Items, x.n = y.n PROVE x = y
  <2>1. CASE x \in Written
    <3>1. x.n <= t /\ (thread # Idle => x.n < t) BY <1>3, <2>1
    <3>2. y \in Written BY <1>2, <1>3, <1>5, <3>1
    <3> QED BY <1>1, <1>5, <2>1, <3>2 DEF TakenItems
  <2>2. CASE x = thread /\ x \notin Written
    <3>1. thread # Idle /\ x.n = t BY <1>1, <1>2, <2>2, MarksAreNoItems DEF TakenItems
    <3>2. CASE y \in Written
      <4>1. y.n < t BY <1>3, <3>1, <3>2
      <4>2. y.n = t BY <1>5, <3>1
      <4> QED BY <1>2, <4>1, <4>2
    <3>3. CASE y \notin Written BY <1>2, <1>3, <1>5, <2>2, <3>1, <3>3
    <3> QED BY <3>2, <3>3
  <2>3. CASE x # thread /\ x \notin Written
    <3>1. PICK i \in 1..Len(queue) : i # p /\ x = queue[i] /\ x.n > t /\ x.n = t + (IF i < p THEN i ELSE i - 1)
      BY <1>3, <2>3
    <3>2. PICK j \in 1..Len(queue) : j # p /\ y = queue[j] /\ y.n = t + (IF j < p THEN j ELSE j - 1)
      BY <1>2, <1>3, <1>5, <3>1
    <3>3. i = j BY <1>2, <1>5, <3>1, <3>2
    <3> QED BY <3>1, <3>2, <3>3
  <2> QED BY <2>1, <2>2, <2>3
<1>6. ASSUME NEW x \in Items, NEW y \in Written, x.n < y.n PROVE x \in Written
  <2>1. y \in Items /\ y.n <= t /\ (thread # Idle => y.n < t) BY <1>0, <1>2, <1>3, ItemsAre DEF Pieces
  <2> QED BY <1>2, <1>3, <1>6, <2>1
<1>7. ASSUME thread # Idle, NEW x \in Items, x.n < thread.n PROVE x \in Written
  <2>1. thread.n = t BY <1>1, <1>7 DEF TakenItems
  <2> QED BY <1>2, <1>3, <1>7, <2>1
<1> QED BY <1>2, <1>4, <1>5, <1>6, <1>7 DEF Numbered
-----------------------------------------------------------------------------
\* An item put on the queue; WriterRests is the rest of the writer.
WriterRests == UNCHANGED <<drain, thread, databaseVars, closing>>

\* What a queue that has grown holds.
LEMMA ItemsGrow ==
  ASSUME WriterTypeOK, WriterTypeOK', NEW new, UNCHANGED <<thread, stored, dropped>>,
         \A x : (\E i \in 1..Len(queue') : x = queue'[i] /\ queue'[i] # SENTINEL) <=>
                \/ x \in new
                \/ \E i \in 1..Len(queue) : x = queue[i] /\ queue[i] # SENTINEL
  PROVE  Items' = Items \cup new
<1>1. Pieces /\ Pieces' BY ItemsAre, PTL
<1>2. Written' = Written BY DEF Written
<1>3. \A x : x \in Items' <=> \/ x \in Written
                              \/ x = thread /\ thread # Idle
                              \/ \E i \in 1..Len(queue') : x = queue'[i] /\ queue'[i] # SENTINEL
  BY <1>1, <1>2 DEF Pieces
<1>4. \A x : x \in Items' <=> x \in Items \/ x \in new BY <1>1, <1>3 DEF Pieces
<1> QED BY <1>4

\* What has been taken is a matter of the thread and what is written.
LEMMA TakenKept ==
  ASSUME NEW t, TakenItems(t), UNCHANGED <<thread, stored, dropped>>
  PROVE  TakenItems(t)'
<1>1. Written' = Written BY DEF Written
<1> QED BY <1>1 DEF TakenItems

\* record_*: any number of items with the next numbers.
LEMMA RecordItems ==
  ASSUME WriterInv, NEW s \in Seq(Item), \A j \in 1..Len(s) : s[j].n = count + j, Record(s)
  PROVE  /\ WriterInv' /\ WriterRests
         /\ count' = count + Len(s) /\ Items' = Items \cup {s[j] : j \in 1..Len(s)}
<1>0. /\ WriterTypeOK /\ Pieces /\ Len(s) \in Nat /\ s \in Seq(Entry)
      /\ \A j \in 1..Len(s) : s[j] \in Item /\ s[j] # SENTINEL
  <2>1. \A j \in 1..Len(s) : s[j] \in Item BY ElementOfSeq
  <2>2. s \in Seq(Entry) BY SeqMonotonic DEF Entry
  <2> QED BY <2>1, <2>2, ItemsAre, LenProperties, MarksAreNoItems DEF WriterInv
<1>1. queue' = queue \o s /\ count' = count + Len(s) /\ WriterRests
  BY CountItems DEF Record, Enqueue, WriterRests
<1>2. /\ queue' \in Seq(Entry) /\ Len(queue') = Len(queue) + Len(s)
      /\ \A i \in 1..Len(queue) : i \in 1..Len(queue') /\ queue'[i] = queue[i]
      /\ \A j \in 1..Len(s) : Len(queue) + j \in 1..Len(queue') /\ queue'[Len(queue) + j] = s[j]
      /\ \A i \in 1..Len(queue') : i \in 1..Len(queue) \/ \E j \in 1..Len(s) : i = Len(queue) + j
  <2>1. queue \in Seq(Entry) BY <1>0 DEF Pieces
  <2>2. queue \o s \in Seq(Entry) /\ IsExtended(queue \o s, queue, s) BY <1>0, <2>1, Extended
  <2> QED BY <1>1, <2>2 DEF IsExtended
<1>3. WriterTypeOK'
  <2>1. count' \in Nat BY <1>0, <1>1 DEF WriterTypeOK
  <2> QED BY <1>0, <1>1, <1>2, <2>1 DEF WriterTypeOK, WriterRests, databaseVars, Entry
<1>4. Items' = Items \cup {s[j] : j \in 1..Len(s)}
  <2>1. \A y : (\E i \in 1..Len(queue') : y = queue'[i] /\ queue'[i] # SENTINEL) <=>
               \/ y \in {s[j] : j \in 1..Len(s)}
               \/ \E i \in 1..Len(queue) : y = queue[i] /\ queue[i] # SENTINEL
    <3>1. ASSUME NEW i \in 1..Len(queue'), queue'[i] # SENTINEL
          PROVE  \/ queue'[i] \in {s[j] : j \in 1..Len(s)}
                 \/ \E k \in 1..Len(queue) : queue'[i] = queue[k] /\ queue[k] # SENTINEL
      <4>1. CASE i \in 1..Len(queue) BY <1>2, <3>1, <4>1
      <4>2. ASSUME NEW j \in 1..Len(s), i = Len(queue) + j
            PROVE  queue'[i] \in {s[k] : k \in 1..Len(s)}
        BY <1>2, <4>2
      <4> QED BY <1>2, <4>1, <4>2
    <3>2. ASSUME NEW j \in 1..Len(s)
          PROVE  \E i \in 1..Len(queue') : s[j] = queue'[i] /\ queue'[i] # SENTINEL
      BY <1>0, <1>2
    <3>3. ASSUME NEW k \in 1..Len(queue), queue[k] # SENTINEL
          PROVE  \E i \in 1..Len(queue') : queue[k] = queue'[i] /\ queue'[i] # SENTINEL
      BY <1>2, <3>3
    <3>4. ASSUME NEW y, \E i \in 1..Len(queue') : y = queue'[i] /\ queue'[i] # SENTINEL
          PROVE  \/ y \in {s[j] : j \in 1..Len(s)}
                 \/ \E i \in 1..Len(queue) : y = queue[i] /\ queue[i] # SENTINEL
      BY <3>1, <3>4
    <3>5. ASSUME NEW y, y \in {s[j] : j \in 1..Len(s)}
          PROVE  \E i \in 1..Len(queue') : y = queue'[i] /\ queue'[i] # SENTINEL
      <4>1. PICK j \in 1..Len(s) : y = s[j] BY <3>5
      <4> QED BY <3>2, <4>1
    <3>6. ASSUME NEW y, \E i \in 1..Len(queue) : y = queue[i] /\ queue[i] # SENTINEL
          PROVE  \E i \in 1..Len(queue') : y = queue'[i] /\ queue'[i] # SENTINEL
      <4>1. PICK k \in 1..Len(queue) : y = queue[k] /\ queue[k] # SENTINEL BY <3>6
      <4> QED BY <3>3, <4>1
    <3> QED BY <3>4, <3>5, <3>6
  <2> QED BY <1>0, <1>1, <1>3, <2>1, ItemsGrow DEF WriterRests, databaseVars
<1>5. QueueInv'
  <2>1. PICK p \in 1..Len(queue) + 1, t \in 0..count :
           QueueShape(p, t) /\ TakenItems(t) /\ Closing(p, t)
    BY DEF WriterInv, QueueInv
  <2>2. PICK q : q = IF p > Len(queue) THEN Len(queue') + 1 ELSE p OBVIOUS
  <2>3. Len(queue) \in Nat /\ count \in Nat /\ Len(queue') \in Nat
    BY <1>0, <1>2 DEF WriterTypeOK, Pieces
  <2>4. q \in 1..Len(queue') + 1 /\ t \in 0..count' BY <1>0, <1>1, <1>2, <2>2, <2>3
  <2>5. QueueShape(q, t)'
    <3>0. Len(queue) = count - t + (IF p > Len(queue) THEN 0 ELSE 1) BY <2>1 DEF QueueShape
    <3>1. Len(queue') = count' - t + (IF q > Len(queue') THEN 0 ELSE 1)
      <4>1. q > Len(queue') <=> p > Len(queue) BY <1>0, <1>2, <2>2, <2>3
      <4>2. Len(queue') = Len(queue) + Len(s) /\ count' = count + Len(s) /\ t \in Nat
        BY <1>1, <1>2, <2>3
      <4>3. CASE p > Len(queue)
        <5>1. Len(queue) = count - t + 0 BY <3>0, <4>3
        <5>2. Len(queue') = count' - t + 0 BY <1>0, <2>3, <4>2, <5>1
        <5> QED BY <4>1, <4>3, <5>2
      <4>4. CASE ~(p > Len(queue))
        <5>1. Len(queue) = count - t + 1 BY <3>0, <4>4
        <5>2. Len(queue') = count' - t + 1 BY <1>0, <2>3, <4>2, <5>1
        <5> QED BY <4>1, <4>4, <5>2
      <4> QED BY <4>3, <4>4
    <3>2. ASSUME NEW i \in 1..Len(queue')
          PROVE  IF i = q THEN queue'[i] = SENTINEL
                 ELSE queue'[i] \in Item /\ queue'[i].n = t + (IF i < q THEN i ELSE i - 1)
      <4>1. CASE i \in 1..Len(queue)
        <5>1. queue'[i] = queue[i] BY <1>2, <4>1
        <5>2. (i = q <=> i = p) /\ (i < q <=> i < p) BY <1>0, <1>2, <2>2, <2>3, <4>1
        <5> QED BY <2>1, <4>1, <5>1, <5>2 DEF QueueShape
      <4>2. ASSUME NEW j \in 1..Len(s), i = Len(queue) + j
            PROVE  i # q /\ queue'[i] \in Item /\ queue'[i].n = t + (IF i < q THEN i ELSE i - 1)
        <5>1. queue'[i] = s[j] /\ i # q BY <1>0, <1>2, <2>2, <2>3, <4>2
        <5>2. s[j].n = t + (IF i < q THEN i ELSE i - 1)
          <6>1. s[j].n = count + j /\ t \in Nat /\ j \in Nat /\ p \in Nat BY <1>0, <2>3
          <6>2. CASE p > Len(queue)
            <7>1. i < q BY <1>0, <1>2, <2>2, <2>3, <4>2, <6>2
            <7>2. Len(queue) = count - t + 0 BY <3>0, <6>2
            <7>3. s[j].n = t + i BY <2>3, <4>2, <6>1, <7>2
            <7> QED BY <7>1, <7>3
          <6>3. CASE ~(p > Len(queue))
            <7>1. ~(i < q) BY <1>0, <2>2, <2>3, <4>2, <6>1, <6>3
            <7>2. Len(queue) = count - t + 1 BY <3>0, <6>3
            <7>3. s[j].n = count + j /\ i = (count - t + 1) + j BY <4>2, <6>1, <7>2
            <7>4. s[j].n = t + (i - 1)
              <8>1. count \in Nat /\ t \in Nat /\ j \in Nat BY <2>3, <6>1
              <8> QED BY <7>3, <8>1
            <7> QED BY <7>1, <7>4
          <6> QED BY <6>2, <6>3
        <5> QED BY <1>0, <5>1, <5>2
      <4> QED BY <1>2, <4>1, <4>2
    <3> QED BY <3>1, <3>2 DEF QueueShape
  <2>6. TakenItems(t)' BY <1>1, <2>1, TakenKept DEF WriterRests, databaseVars
  <2>7. Closing(q, t)'
    <3>1. q > Len(queue') <=> p > Len(queue) BY <1>0, <1>2, <2>2, <2>3
    <3>2. p <= Len(queue) => q = p BY <2>2, <2>3
    <3>3. q \in Nat /\ p \in Nat BY <2>2, <2>3
    <3>4. Closing(p, t) /\ closing' = closing /\ drain' = drain BY <1>1, <2>1 DEF WriterRests
    <3>5. closing' = "open" \/ drain' = "done" => q > Len(queue') BY <3>1, <3>4 DEF Closing
    <3>6. ASSUME q <= Len(queue')
          PROVE  \E x \in Items' : x.kind = "session_finish" /\ x.n < t + q
      <4>1. p <= Len(queue) BY <2>3, <3>1, <3>3, <3>6
      <4>2. PICK x \in Items : x.kind = "session_finish" /\ x.n < t + p
        BY <3>4, <4>1 DEF Closing
      <4> QED BY <1>4, <3>2, <4>1, <4>2
    <3> QED BY <3>5, <3>6 DEF Closing
  <2> QED BY <2>4, <2>5, <2>6, <2>7 DEF QueueInv
<1>6. DrainInv' /\ FlushedOnClose' /\ ConsentInv'
  BY <1>1 DEF WriterInv, DrainInv, FlushedOnClose, ConsentInv, ConsentAudited, UnitInv, WriterRests,
                databaseVars
<1> QED BY <1>1, <1>3, <1>4, <1>5, <1>6 DEF WriterInv

\* record_consent, record_escalation, record_callback.
LEMMA RecordOne ==
  ASSUME WriterInv, NEW x \in Item, x.n = count + 1, Record(<<x>>)
  PROVE  /\ WriterInv' /\ WriterRests
         /\ count' = count + 1 /\ Items' = Items \cup {x}
<1>1. PICK s : s = <<x>> OBVIOUS
<1>2. s \in Seq(Item) /\ Len(s) = 1 /\ s[1] = x BY <1>1
<1>3. \A j : j \in 1..Len(s) <=> j = 1 BY <1>2
<1>4. {s[j] : j \in 1..Len(s)} = {x} BY <1>2, <1>3
<1> QED BY <1>1, <1>2, <1>3, <1>4, RecordItems

\* A caller's turn and its sentiment.
LEMMA RecordTwo ==
  ASSUME WriterInv, NEW x \in Item, NEW y \in Item, x.n = count + 1, y.n = count + 2,
         Record(<<x, y>>)
  PROVE  /\ WriterInv' /\ WriterRests
         /\ count' = count + 2 /\ Items' = Items \cup {x, y}
<1>1. PICK s : s = <<x, y>> OBVIOUS
<1>2. s \in Seq(Item) /\ Len(s) = 2 /\ s[1] = x /\ s[2] = y BY <1>1
<1>3. \A j : j \in 1..Len(s) <=> j = 1 \/ j = 2 BY <1>2
<1>4. {s[j] : j \in 1..Len(s)} = {x, y} BY <1>2, <1>3
<1> QED BY <1>1, <1>2, <1>3, <1>4, RecordItems

\* finish_session and the start of aclose: the closing item and the sentinel.
LEMMA FinishStep ==
  ASSUME WriterInv, NEW consent \in Decision \cup {"unknown"}, FinishConversation(consent)
  PROVE  /\ WriterInv' /\ closing = "open" /\ closing' = "waiting"
         /\ UNCHANGED <<drain, thread, databaseVars>>
         /\ count' = count + 1
         /\ Items' = Items \cup {NewItem(1, "session_finish", consent)}
<1> DEFINE x == NewItem(1, "session_finish", consent)
<1>0. WriterTypeOK /\ Pieces /\ count \in Nat BY ItemsAre DEF WriterInv, WriterTypeOK
<1>1. x \in Item /\ x.n = count + 1 /\ x.kind = "session_finish"
  BY <1>0, NewItemFacts DEF Kind, Value
<1>2. PICK s : s = <<x, SENTINEL>> OBVIOUS
<1>3. s \in Seq(Entry) /\ Len(s) = 2 /\ s[1] = x /\ s[2] = SENTINEL BY <1>1, <1>2 DEF Entry
<1>4. x # SENTINEL BY <1>1, MarksAreNoItems
<1> HIDE DEF x
<1>5. /\ queue' = queue \o s /\ count' = count + 1 /\ closing = "open" /\ closing' = "waiting"
      /\ UNCHANGED <<drain, thread, stored, dropped, call, audited, flushed, appended>>
  BY <1>1, <1>2, CountLast DEF FinishConversation, Enqueue, databaseVars, x
<1>6. /\ queue' \in Seq(Entry) /\ Len(queue') = Len(queue) + 2
      /\ \A i \in 1..Len(queue) : i \in 1..Len(queue') /\ queue'[i] = queue[i]
      /\ Len(queue) + 1 \in 1..Len(queue') /\ queue'[Len(queue) + 1] = x
      /\ Len(queue) + 2 \in 1..Len(queue') /\ queue'[Len(queue) + 2] = SENTINEL
      /\ \A i \in 1..Len(queue') :
            i \in 1..Len(queue) \/ i = Len(queue) + 1 \/ i = Len(queue) + 2
  <2>1. \A j : j \in 1..Len(s) <=> j = 1 \/ j = 2 BY <1>3
  <2>2. queue \in Seq(Entry) /\ s \in Seq(Entry) BY <1>0, <1>3 DEF Pieces
  <2>3. queue \o s \in Seq(Entry) /\ IsExtended(queue \o s, queue, s) BY <2>2, Extended
  <2>4. 1 \in 1..Len(s) /\ 2 \in 1..Len(s) BY <2>1
  <2>5. /\ Len(queue) + 1 \in 1..Len(queue') /\ queue'[Len(queue) + 1] = x
        /\ Len(queue) + 2 \in 1..Len(queue') /\ queue'[Len(queue) + 2] = SENTINEL
    BY <1>3, <1>5, <2>3, <2>4 DEF IsExtended
  <2> QED BY <1>3, <1>5, <2>1, <2>3, <2>5 DEF IsExtended
<1>7. WriterTypeOK' BY <1>0, <1>5, <1>6 DEF WriterTypeOK, Entry
<1>8. Items' = Items \cup {x}
  <2>1. \A y : (\E i \in 1..Len(queue') : y = queue'[i] /\ queue'[i] # SENTINEL) <=>
               \/ y \in {x}
               \/ \E i \in 1..Len(queue) : y = queue[i] /\ queue[i] # SENTINEL
    BY <1>4, <1>6
  <2> QED BY <1>0, <1>5, <1>7, <2>1, ItemsGrow
<1>9. QueueInv'
  <2>1. PICK p \in 1..Len(queue) + 1, t \in 0..count :
           QueueShape(p, t) /\ TakenItems(t) /\ Closing(p, t)
    BY DEF WriterInv, QueueInv
  <2>2. Len(queue) \in Nat /\ Len(queue') \in Nat BY <1>0, <1>6 DEF Pieces
  <2>3. PICK q : q = Len(queue) + 2 OBVIOUS
  <2>4. p > Len(queue) /\ Len(queue) = count - t
    <3>1. p > Len(queue) BY <1>5, <2>1 DEF Closing
    <3>2. Len(queue) = count - t + 0 BY <2>1, <3>1 DEF QueueShape
    <3> QED BY <1>0, <2>2, <3>1, <3>2
  <2>5. q \in 1..Len(queue') + 1 /\ t \in 0..count' BY <1>0, <1>5, <1>6, <2>2, <2>3
  <2>6. QueueShape(q, t)'
    <3>1. Len(queue') = count' - t + (IF q > Len(queue') THEN 0 ELSE 1)
      BY <1>0, <1>5, <1>6, <2>2, <2>3, <2>4
    <3>2. ASSUME NEW i \in 1..Len(queue')
          PROVE  IF i = q THEN queue'[i] = SENTINEL
                 ELSE queue'[i] \in Item /\ queue'[i].n = t + (IF i < q THEN i ELSE i - 1)
      <4>1. CASE i \in 1..Len(queue)
        <5>1. queue'[i] = queue[i] /\ i < q /\ i # q /\ i < p /\ i # p
          BY <1>6, <2>2, <2>3, <2>4, <4>1
        <5> QED BY <2>1, <4>1, <5>1 DEF QueueShape
      <4>2. CASE i = Len(queue) + 1
        <5>1. i < q /\ i # q /\ x.n = t + i BY <1>0, <1>1, <2>2, <2>3, <2>4, <4>2
        <5> QED BY <1>1, <1>6, <4>2, <5>1
      <4>3. CASE i = Len(queue) + 2 BY <1>6, <2>3, <4>3
      <4> QED BY <1>6, <4>1, <4>2, <4>3
    <3> QED BY <3>1, <3>2 DEF QueueShape
  <2>7. TakenItems(t)' BY <1>5, <2>1, TakenKept
  <2>8. Closing(q, t)'
    <3>1. drain' # "done" /\ closing' # "open" BY <1>5 DEF WriterInv, DrainInv
    <3>2. x \in Items' /\ x.kind = "session_finish" /\ x.n < t + q
      BY <1>0, <1>1, <1>8, <2>2, <2>3, <2>4
    <3> QED BY <3>1, <3>2 DEF Closing
  <2> QED BY <2>5, <2>6, <2>7, <2>8 DEF QueueInv
<1>10. DrainInv' /\ FlushedOnClose' /\ ConsentInv'
  BY <1>5 DEF WriterInv, DrainInv, FlushedOnClose, ConsentInv, ConsentAudited, UnitInv
<1> QED BY <1>5, <1>7, <1>8, <1>9, <1>10 DEF WriterInv, x, databaseVars
-----------------------------------------------------------------------------
\* _drain takes an item: the sentinel is one place nearer.
LEMMA TakeStep ==
  ASSUME WriterInv, Take
  PROVE  WriterInv' /\ Items' = Items
<1>0. WriterTypeOK /\ Pieces /\ count \in Nat /\ thread = Idle
  BY ItemsAre DEF WriterInv, WriterTypeOK, DrainInv, Take
<1>1. /\ queue # <<>> /\ queue[1] # SENTINEL /\ queue \in Seq(Entry)
      /\ queue' = Tail(queue) /\ thread' = queue[1] /\ 1 \in 1..Len(queue)
      /\ drain' = "writing"
      /\ UNCHANGED <<count, stored, dropped, call, audited, flushed, appended, closing>>
  BY <1>0, Shorter DEF Take, databaseVars, Pieces
<1>2. /\ queue' \in Seq(Entry) /\ Len(queue') = Len(queue) - 1
      /\ \A i \in 1..Len(queue') : i + 1 \in 1..Len(queue) /\ queue'[i] = queue[i + 1]
      /\ \A i \in 1..Len(queue) : i # 1 => i - 1 \in 1..Len(queue') /\ queue[i] = queue'[i - 1]
  <2>1. Tail(queue) \in Seq(Entry) /\ Len(Tail(queue)) = Len(queue) - 1
    BY <1>1, HeadTailProperties
  <2>2. DOMAIN Tail(queue) = 1..Len(Tail(queue)) /\ DOMAIN queue = 1..Len(queue)
    BY <1>1, <2>1, LenProperties
  <2> QED BY <1>1, <2>1, <2>2, Shorter
<1>3. thread' \in Item BY <1>0, <1>1 DEF Pieces, Entry
<1>4. WriterTypeOK'
  BY <1>0, <1>1, <1>2, <1>3, MarksAreNoItems DEF WriterTypeOK, Entry
<1>5. Items' = Items
  <2>1. Pieces' BY <1>4, ItemsAre, PTL
  <2>2. Written' = Written /\ thread' # Idle BY <1>1, <1>3, MarksAreNoItems DEF Written
  <2>3. ASSUME NEW x PROVE x \in Items' <=> x \in Items
    <3>1. x \in Items' <=> \/ x \in Written \/ x = queue[1]
                           \/ \E i \in 1..Len(queue') : x = queue'[i] /\ queue'[i] # SENTINEL
      BY <1>1, <2>1, <2>2 DEF Pieces
    <3>2. x \in Items <=> \/ x \in Written
                          \/ \E i \in 1..Len(queue) : x = queue[i] /\ queue[i] # SENTINEL
      BY <1>0 DEF Pieces
    <3>3. ASSUME NEW i \in 1..Len(queue), queue[i] # SENTINEL
          PROVE  \/ queue[i] = queue[1]
                 \/ \E k \in 1..Len(queue') : queue[i] = queue'[k] /\ queue'[k] # SENTINEL
      BY <1>2, <3>3
    <3>4. ASSUME NEW i \in 1..Len(queue'), queue'[i] # SENTINEL
          PROVE  \E k \in 1..Len(queue) : queue'[i] = queue[k] /\ queue[k] # SENTINEL
      BY <1>2, <3>4
    <3>5. ASSUME x \in Items' PROVE x \in Items
      <4>1. CASE x \in Written BY <3>2, <4>1
      <4>2. CASE x = queue[1] BY <1>1, <3>2, <4>2
      <4>3. ASSUME NEW i \in 1..Len(queue'), x = queue'[i], queue'[i] # SENTINEL
            PROVE  x \in Items
        BY <3>2, <3>4, <4>3
      <4> QED BY <3>1, <3>5, <4>1, <4>2, <4>3
    <3>6. ASSUME x \in Items PROVE x \in Items'
      <4>1. CASE x \in Written BY <3>1, <4>1
      <4>2. ASSUME NEW i \in 1..Len(queue), x = queue[i], queue[i] # SENTINEL
            PROVE  x \in Items'
        BY <3>1, <3>3, <4>2
      <4> QED BY <3>2, <3>6, <4>1, <4>2
    <3> QED BY <3>5, <3>6
  <2> QED BY <2>3
<1>6. QueueInv'
  <2>1. PICK p \in 1..Len(queue) + 1, t \in 0..count :
           QueueShape(p, t) /\ TakenItems(t) /\ Closing(p, t)
    BY DEF WriterInv, QueueInv
  <2>2. Len(queue) \in Nat /\ Len(queue') \in Nat /\ p \in Nat /\ t \in Nat /\ Len(queue) >= 1
    BY <1>0, <1>1, <1>2 DEF Pieces
  <2>3. p # 1 BY <1>1, <2>1 DEF QueueShape
  <2>4. PICK r, u : r = p - 1 /\ u = t + 1 OBVIOUS
  <2>5. Len(queue) = count - t + (IF p > Len(queue) THEN 0 ELSE 1) BY <2>1 DEF QueueShape
  <2>6. r \in 1..Len(queue') + 1 /\ u \in 0..count'
    <3>1. CASE p > Len(queue)
      <4>1. Len(queue) = count - t + 0 BY <2>5, <3>1
      <4> QED BY <1>0, <1>1, <1>2, <2>2, <2>3, <2>4, <4>1
    <3>2. CASE ~(p > Len(queue))
      <4>1. Len(queue) = count - t + 1 BY <2>5, <3>2
      <4> QED BY <1>0, <1>1, <1>2, <2>2, <2>3, <2>4, <3>2, <4>1
    <3> QED BY <3>1, <3>2
  <2>7. QueueShape(r, u)'
    <3>1. Len(queue') = count' - u + (IF r > Len(queue') THEN 0 ELSE 1)
      <4>1. r > Len(queue') <=> p > Len(queue) BY <1>2, <2>2, <2>4
      <4>2. CASE p > Len(queue)
        <5>1. Len(queue) = count - t + 0 BY <2>5, <4>2
        <5>2. Len(queue') = count' - u + 0 BY <1>0, <1>1, <1>2, <2>2, <2>4, <5>1
        <5> QED BY <4>1, <4>2, <5>2
      <4>3. CASE ~(p > Len(queue))
        <5>1. Len(queue) = count - t + 1 BY <2>5, <4>3
        <5>2. Len(queue') = count' - u + 1 BY <1>0, <1>1, <1>2, <2>2, <2>4, <5>1
        <5> QED BY <4>1, <4>3, <5>2
      <4> QED BY <4>2, <4>3
    <3>2. ASSUME NEW i \in 1..Len(queue')
          PROVE  IF i = r THEN queue'[i] = SENTINEL
                 ELSE queue'[i] \in Item /\ queue'[i].n = u + (IF i < r THEN i ELSE i - 1)
      <4>1. i + 1 \in 1..Len(queue) /\ queue'[i] = queue[i + 1] BY <1>2
      <4>2. IF i + 1 = p THEN queue'[i] = SENTINEL
            ELSE /\ queue'[i] \in Item
                 /\ queue'[i].n = t + (IF i + 1 < p THEN i + 1 ELSE (i + 1) - 1)
        BY <2>1, <4>1 DEF QueueShape
      <4>3. (i + 1 = p <=> i = r) /\ (i + 1 < p <=> i < r) BY <2>2, <2>4
      <4>4. t + (IF i + 1 < p THEN i + 1 ELSE (i + 1) - 1) = u + (IF i < r THEN i ELSE i - 1)
        <5>1. CASE i < r BY <2>2, <2>4, <4>3, <5>1
        <5>2. CASE ~(i < r) BY <2>2, <2>4, <4>3, <5>2
        <5> QED BY <5>1, <5>2
      <4> QED BY <4>2, <4>3, <4>4
    <3> QED BY <3>1, <3>2 DEF QueueShape
  <2>8. TakenItems(u)'
    <3>1. queue[1] \in Item /\ queue[1].n = u
      <4>1. queue[1] \in Item /\ queue[1].n = t + (IF 1 < p THEN 1 ELSE 1 - 1)
        BY <1>1, <2>1, <2>3 DEF QueueShape
      <4>2. 1 < p BY <2>2, <2>3
      <4> QED BY <2>4, <4>1, <4>2
    <3>2. Written' = Written BY <1>1 DEF Written
    <3>3. \A x \in Written : x.n \in 1..t BY <2>1 DEF TakenItems
    <3>4. \A n \in 1..u : n = u \/ n \in 1..t BY <2>2, <2>4
    <3>5. \A x \in Written : x.n \in 1..u /\ x.n # u BY <2>2, <2>4, <3>3
    <3>6. \A n \in 1..t : \E x \in Written : x.n = n BY <1>0, <2>1 DEF TakenItems
    <3>7. thread' # Idle /\ thread'.n = u /\ u > 0
      BY <1>1, <1>3, <2>2, <2>4, <3>1, MarksAreNoItems
    <3>8. \A x, y \in Written : x.n = y.n => x = y BY <2>1 DEF TakenItems
    <3> QED BY <3>2, <3>4, <3>5, <3>6, <3>7, <3>8 DEF TakenItems
  <2>9. Closing(r, u)'
    <3>1. r > Len(queue') <=> p > Len(queue) BY <1>2, <2>2, <2>4
    <3>2. u + r = t + p /\ (r <= Len(queue') <=> p <= Len(queue)) BY <1>2, <2>2, <2>4
    <3> QED BY <1>1, <1>5, <2>1, <3>1, <3>2 DEF Closing
  <2> QED BY <2>6, <2>7, <2>8, <2>9 DEF QueueInv
<1>7. DrainInv' /\ FlushedOnClose' /\ ConsentInv'
  <2>1. flushed' = {} /\ appended' = {} BY <1>0, <1>1 DEF WriterInv, ConsentInv, UnitInv
  <2> QED BY <1>1, <2>1
      DEF WriterInv, DrainInv, FlushedOnClose, ConsentInv, ConsentAudited, UnitInv
<1> QED BY <1>4, <1>5, <1>6, <1>7 DEF WriterInv

\* _drain takes the sentinel: everything up to the closing of the call is written.
LEMMA TakeSentinelStep ==
  ASSUME WriterInv, TakeSentinel
  PROVE  WriterInv' /\ Items' = Items
<1>0. WriterTypeOK /\ Pieces /\ count \in Nat /\ thread = Idle
  BY ItemsAre DEF WriterInv, WriterTypeOK, DrainInv, TakeSentinel
<1>1. /\ queue # <<>> /\ queue[1] = SENTINEL /\ queue \in Seq(Entry)
      /\ queue' = Tail(queue) /\ 1 \in 1..Len(queue)
      /\ drain' = "done"
      /\ UNCHANGED <<count, thread, stored, dropped, call, audited, flushed, appended, closing>>
  BY <1>0, Shorter DEF TakeSentinel, databaseVars, Pieces
<1>2. /\ queue' \in Seq(Entry) /\ Len(queue') = Len(queue) - 1
      /\ \A i \in 1..Len(queue') : i + 1 \in 1..Len(queue) /\ queue'[i] = queue[i + 1]
      /\ \A i \in 1..Len(queue) : i # 1 => i - 1 \in 1..Len(queue') /\ queue[i] = queue'[i - 1]
  <2>1. Tail(queue) \in Seq(Entry) /\ Len(Tail(queue)) = Len(queue) - 1
    BY <1>1, HeadTailProperties
  <2>2. DOMAIN Tail(queue) = 1..Len(Tail(queue)) /\ DOMAIN queue = 1..Len(queue)
    BY <1>1, <2>1, LenProperties
  <2> QED BY <1>1, <2>1, <2>2, Shorter
<1>4. WriterTypeOK' BY <1>0, <1>1, <1>2 DEF WriterTypeOK, Entry
<1>5. Items' = Items
  <2>1. PICK none : none = {} OBVIOUS
  <2>2. \A x : (\E i \in 1..Len(queue') : x = queue'[i] /\ queue'[i] # SENTINEL) <=>
               \/ x \in none
               \/ \E i \in 1..Len(queue) : x = queue[i] /\ queue[i] # SENTINEL
    <3>1. ASSUME NEW i \in 1..Len(queue'), queue'[i] # SENTINEL
          PROVE  \E k \in 1..Len(queue) : queue'[i] = queue[k] /\ queue[k] # SENTINEL
      BY <1>2, <3>1
    <3>2. ASSUME NEW i \in 1..Len(queue), queue[i] # SENTINEL
          PROVE  \E k \in 1..Len(queue') : queue[i] = queue'[k] /\ queue'[k] # SENTINEL
      <4>1. i # 1 BY <1>1, <3>2
      <4>2. i - 1 \in 1..Len(queue') /\ queue[i] = queue'[i - 1] BY <1>2, <4>1
      <4> QED BY <3>2, <4>2
    <3> QED BY <2>1, <3>1, <3>2
  <2>3. Items' = Items \cup none BY <1>0, <1>1, <1>4, <2>2, ItemsGrow
  <2> QED BY <2>1, <2>3
<1>6. PICK p \in 1..Len(queue) + 1, t \in 0..count :
         QueueShape(p, t) /\ TakenItems(t) /\ Closing(p, t)
  BY DEF WriterInv, QueueInv
<1>7. Len(queue) \in Nat /\ Len(queue') \in Nat /\ t \in Nat /\ Len(queue) >= 1
  BY <1>0, <1>1, <1>2 DEF Pieces
<1>8. p = 1 BY <1>1, <1>6, MarksAreNoItems DEF QueueShape
<1>9. QueueInv'
  <2>1. PICK r : r = Len(queue') + 1 OBVIOUS
  <2>2. r \in 1..Len(queue') + 1 /\ t \in 0..count' /\ r > Len(queue') /\ ~(r <= Len(queue'))
    BY <1>1, <1>7, <2>1
  <2>3. QueueShape(r, t)'
    <3>1. Len(queue) = count - t + (IF p > Len(queue) THEN 0 ELSE 1) BY <1>6 DEF QueueShape
    <3>2. Len(queue) = count - t + 1 BY <1>7, <1>8, <3>1
    <3>3. Len(queue') = count' - t + 0 BY <1>0, <1>1, <1>2, <1>7, <3>2
    <3>4. ASSUME NEW i \in 1..Len(queue')
          PROVE  i # r /\ queue'[i] \in Item /\ queue'[i].n = t + (IF i < r THEN i ELSE i - 1)
      <4>1. i + 1 \in 1..Len(queue) /\ queue'[i] = queue[i + 1] /\ i + 1 # p /\ ~(i + 1 < p)
        BY <1>2, <1>7, <1>8
      <4>2. queue'[i] \in Item /\ queue'[i].n = t + (IF i + 1 < p THEN i + 1 ELSE (i + 1) - 1)
        BY <1>6, <4>1 DEF QueueShape
      <4>3. queue'[i].n = t + i BY <1>7, <4>1, <4>2
      <4>4. i # r /\ i < r BY <1>7, <2>1
      <4> QED BY <4>2, <4>3, <4>4
    <3>5. Len(queue') = count' - t + (IF r > Len(queue') THEN 0 ELSE 1) BY <2>2, <3>3
    <3>6. \A i \in 1..Len(queue') :
             IF i = r THEN queue'[i] = SENTINEL
             ELSE queue'[i] \in Item /\ queue'[i].n = t + (IF i < r THEN i ELSE i - 1)
      BY <3>4
    <3> QED BY <3>5, <3>6 DEF QueueShape
  <2>4. TakenItems(t)' BY <1>1, <1>6, TakenKept
  <2>5. Closing(r, t)' BY <2>2 DEF Closing
  <2> QED BY <2>2, <2>3, <2>4, <2>5 DEF QueueInv
<1>10. DrainInv' /\ ConsentInv'
  <2>1. closing # "open" BY <1>6, <1>7, <1>8 DEF Closing
  <2> QED BY <1>1, <2>1 DEF WriterInv, DrainInv, ConsentInv, ConsentAudited, UnitInv
<1>11. FlushedOnClose'
  <2>1. PICK x \in Items : x.kind = "session_finish" /\ x.n < t + p
    BY <1>6, <1>7, <1>8 DEF Closing
  <2>2. x.n \in Nat /\ x.n <= t BY <1>0, <1>7, <1>8, <2>1, MarksAreNoItems DEF Pieces
  <2>3. x \in Written BY <1>0, <1>6, <1>7, <2>2, PlaceOf
  <2>4. \A n \in 1..x.n : \E y \in Written : y.n = n
    <3>1. \A n \in 1..x.n : n \in 1..t BY <1>7, <2>2
    <3> QED BY <1>0, <1>6, <3>1 DEF TakenItems
  <2> QED BY <1>1, <2>1, <2>3, <2>4 DEF FlushedOnClose, Written
<1> QED BY <1>4, <1>5, <1>9, <1>10, <1>11 DEF WriterInv

\* The thread is done with its item, one way or the other.
LEMMA ThreadStep ==
  ASSUME WriterInv, WriterTypeOK', thread # Idle, ThreadEnds,
         Written' = Written \cup {thread}, ConsentAudited'
  PROVE  WriterInv' /\ Items' = Items
<1>0. WriterTypeOK /\ Pieces /\ Pieces' /\ count \in Nat
  <2>1. WriterTypeOK /\ count \in Nat BY DEF WriterInv, WriterTypeOK
  <2> QED BY <2>1, ItemsAre, PTL
<1>1. /\ thread' = Idle /\ flushed' = {} /\ appended' = {} /\ UNCHANGED <<count, queue, closing>>
      /\ drain' = IF drain = "writing" THEN "waiting" ELSE drain
  BY DEF ThreadEnds
<1>2. Items' = Items
  <2>1. ASSUME NEW x PROVE x \in Items' <=> x \in Items
    <3>1. x \in Items' <=> \/ x \in Written \/ x = thread
                           \/ \E i \in 1..Len(queue) : x = queue[i] /\ queue[i] # SENTINEL
      BY <1>0, <1>1 DEF Pieces
    <3> QED BY <1>0, <3>1 DEF Pieces
  <2> QED BY <2>1
<1>3. QueueInv'
  <2>1. PICK p \in 1..Len(queue) + 1, t \in 0..count :
           QueueShape(p, t) /\ TakenItems(t) /\ Closing(p, t)
    BY DEF WriterInv, QueueInv
  <2>2. QueueShape(p, t)' BY <1>1, <2>1 DEF QueueShape
  <2>3. TakenItems(t)'
    <3>1. thread.n = t /\ t > 0 /\ t \in Nat /\ t \in 1..t BY <1>0, <2>1 DEF TakenItems
    <3>2. \A x \in Written : x.n \in 1..t /\ x.n # t BY <2>1 DEF TakenItems
    <3>3. \A x \in Written' : x.n \in 1..t BY <3>1, <3>2
    <3>4. \A x, y \in Written' : x.n = y.n => x = y
      <4>1. \A x, y \in Written : x.n = y.n => x = y BY <2>1 DEF TakenItems
      <4> QED BY <3>1, <3>2, <4>1
    <3>5. \A n \in 1..t : \E x \in Written' : x.n = n BY <2>1, <3>1 DEF TakenItems
    <3> QED BY <1>1, <3>3, <3>4, <3>5 DEF TakenItems
  <2>4. Closing(p, t)'
    <3>1. drain' = "done" => drain = "done" BY <1>1
    <3> QED BY <1>1, <1>2, <2>1, <3>1 DEF Closing
  <2>5. p \in 1..Len(queue') + 1 /\ t \in 0..count' BY <1>1
  <2> QED BY <2>2, <2>3, <2>4, <2>5 DEF QueueInv
<1>4. DrainInv' BY <1>1 DEF WriterInv, DrainInv
<1>5. FlushedOnClose'
  <2>1. drain' = "done" => drain = "done" BY <1>1
  <2> QED BY <2>1 DEF WriterInv, FlushedOnClose, Written
<1>6. ConsentInv' BY <1>1 DEF ConsentInv, UnitInv
<1> QED BY <1>2, <1>3, <1>4, <1>5, <1>6 DEF WriterInv

\* A transaction commits.  What the call's row becomes is the session's business.
LEMMA CommitStep ==
  ASSUME WriterInv, WriteCommits, call' \in Row \cup {NoRow}
  PROVE  WriterInv' /\ Items' = Items
<1>0. WriterTypeOK /\ thread \in Item /\ thread # Idle /\ ConsentAudited /\ UnitInv
  BY DEF WriterInv, ConsentInv, WriterTypeOK, WriteCommits
<1>1. thread \notin Written
  BY <1>0 DEF WriterInv, QueueInv, TakenItems
<1>2. /\ stored' = stored \cup {thread} /\ dropped' = dropped /\ ThreadEnds
      /\ audited' = IF thread.kind = "consent" THEN audited \cup {thread.n} ELSE audited
  <2>1. /\ stored' = stored \cup flushed \cup {thread} /\ dropped' = dropped /\ ThreadEnds
        /\ audited' = audited \cup appended /\ (thread.kind = "consent" => appended # {})
    BY DEF WriteCommits
  <2>2. stored' = stored \cup {thread} BY <1>0, <2>1 DEF UnitInv
  <2>3. CASE thread.kind = "consent"
    <3>1. appended = {thread.n} BY <1>0, <2>1, <2>3 DEF UnitInv
    <3> QED BY <2>1, <2>2, <2>3, <3>1
  <2>4. CASE thread.kind # "consent"
    <3>1. appended = {} BY <1>0, <2>4 DEF UnitInv
    <3> QED BY <2>1, <2>2, <2>4, <3>1
  <2> QED BY <2>3, <2>4
<1>3. WriterTypeOK'
  <2>1. audited' \subseteq Nat BY <1>0, <1>2, MarksAreNoItems DEF WriterTypeOK
  <2>2. stored' \subseteq Item /\ stored' \cap dropped' = {}
    BY <1>0, <1>1, <1>2 DEF WriterTypeOK, Written
  <2> QED BY <1>0, <1>2, <2>1, <2>2 DEF WriterTypeOK, ThreadEnds
<1>4. ConsentAudited'
  <2>1. CASE thread.kind = "consent"
    <3>1. \A n : n \in audited' <=> \E i \in stored' : i.kind = "consent" /\ n = i.n
      BY <1>0, <1>2, <2>1 DEF ConsentAudited
    <3> QED BY <3>1 DEF ConsentAudited
  <2>2. CASE thread.kind # "consent"
    <3>1. \A n : n \in audited' <=> \E i \in stored' : i.kind = "consent" /\ n = i.n
      BY <1>0, <1>2, <2>2 DEF ConsentAudited
    <3> QED BY <3>1 DEF ConsentAudited
  <2> QED BY <2>1, <2>2
<1>5. Written' = Written \cup {thread} BY <1>2 DEF Written
<1> QED BY <1>0, <1>2, <1>3, <1>4, <1>5, ThreadStep

\* A transaction fails.
LEMMA FailStep ==
  ASSUME WriterInv, WriteFails
  PROVE  WriterInv' /\ Items' = Items
<1>0. WriterTypeOK /\ thread \in Item /\ thread # Idle
  BY DEF WriterInv, WriterTypeOK, WriteFails
<1>1. thread \notin Written
  BY <1>0 DEF WriterInv, QueueInv, TakenItems
<1>2. /\ dropped' = dropped \cup {thread} /\ ThreadEnds
      /\ UNCHANGED <<stored, call, audited>>
  BY DEF WriteFails
<1>3. WriterTypeOK'
  <2>1. dropped' \subseteq Item /\ stored' \cap dropped' = {}
    BY <1>0, <1>1, <1>2 DEF WriterTypeOK, Written
  <2> QED BY <1>0, <1>2, <2>1 DEF WriterTypeOK, ThreadEnds
<1>4. ConsentAudited' BY <1>2 DEF WriterInv, ConsentInv, ConsentAudited
<1>5. Written' = Written \cup {thread} BY <1>2 DEF Written
<1> QED BY <1>0, <1>2, <1>3, <1>4, <1>5, ThreadStep

\* The transaction of a consent comes one statement further.
LEMMA UnitStep ==
  ASSUME WriterInv, FlushConsent \/ AppendConsent
  PROVE  /\ WriterInv' /\ Items' = Items
         /\ UNCHANGED <<count, thread, stored, dropped, call, closing>>
<1>0. WriterTypeOK /\ UnitInv /\ ConsentAudited BY DEF WriterInv, ConsentInv
<1>1. UNCHANGED <<count, queue, drain, thread, stored, dropped, call, audited, closing>>
  BY DEF FlushConsent, AppendConsent
<1>2. flushed' \subseteq Item /\ appended' \subseteq Nat /\ UnitInv'
  <2>1. CASE FlushConsent
    <3>1. /\ thread # Idle /\ thread.kind = "consent" /\ flushed = {}
          /\ flushed' = {thread} /\ appended' = appended
      BY <2>1 DEF FlushConsent
    <3>2. thread \in Item BY <1>0, <3>1 DEF WriterTypeOK
    <3>3. appended = {} BY <1>0, <3>1 DEF UnitInv
    <3> QED BY <1>1, <3>1, <3>2, <3>3 DEF UnitInv
  <2>2. CASE AppendConsent
    <3>1. /\ flushed # {} /\ flushed' = flushed /\ appended' = {item.n : item \in flushed}
      BY <2>2 DEF AppendConsent
    <3>2. thread # Idle /\ thread.kind = "consent" /\ flushed = {thread} /\ thread \in Item
      BY <1>0, <3>1 DEF UnitInv, WriterTypeOK
    <3>3. appended' = {thread.n} BY <3>1, <3>2
    <3> QED BY <1>1, <3>1, <3>2, <3>3, MarksAreNoItems DEF UnitInv
  <2> QED BY <2>1, <2>2
<1>3. WriterTypeOK' BY <1>0, <1>1, <1>2 DEF WriterTypeOK
<1>4. Items' = Items
  <2>1. Made' = Made BY <1>1 DEF Made
  <2> QED BY <2>1 DEF Items
<1>5. QueueInv'
  <2>1. PICK p \in 1..Len(queue) + 1, t \in 0..count :
           QueueShape(p, t) /\ TakenItems(t) /\ Closing(p, t)
    BY DEF WriterInv, QueueInv
  <2>2. QueueShape(p, t)' BY <1>1, <2>1 DEF QueueShape
  <2>3. TakenItems(t)' BY <1>1, <2>1, TakenKept
  <2>4. Closing(p, t)' BY <1>1, <1>4, <2>1 DEF Closing
  <2>5. p \in 1..Len(queue') + 1 /\ t \in 0..count' BY <1>1
  <2> QED BY <2>2, <2>3, <2>4, <2>5 DEF QueueInv
<1>6. DrainInv' /\ FlushedOnClose' /\ ConsentInv'
  BY <1>0, <1>1, <1>2 DEF WriterInv, DrainInv, FlushedOnClose, ConsentInv, ConsentAudited
<1> QED BY <1>1, <1>3, <1>4, <1>5, <1>6 DEF WriterInv

\* aclose returns, the task being done or not.
LEMMA CloseStep ==
  ASSUME WriterInv, CloseReturns \/ CloseTimesOut
  PROVE  WriterInv' /\ Items' = Items
<1>1. /\ UNCHANGED <<count, queue, thread, stored, dropped, call, audited, flushed, appended>>
      /\ closing # "open" /\ closing' = "returned"
      /\ drain' \in {drain, "cancelled"} /\ (drain' = "done" => drain = "done")
  BY DEF CloseReturns, CloseTimesOut, databaseVars
<1>2. WriterTypeOK' BY <1>1 DEF WriterInv, WriterTypeOK
<1>3. Items' = Items
  <2>1. Made' = Made BY <1>1 DEF Made
  <2> QED BY <2>1 DEF Items
<1>4. QueueInv'
  <2>1. PICK p \in 1..Len(queue) + 1, t \in 0..count :
           QueueShape(p, t) /\ TakenItems(t) /\ Closing(p, t)
    BY DEF WriterInv, QueueInv
  <2>2. QueueShape(p, t)' BY <1>1, <2>1 DEF QueueShape
  <2>3. TakenItems(t)' BY <1>1, <2>1, TakenKept
  <2>4. Closing(p, t)' BY <1>1, <1>3, <2>1 DEF Closing
  <2>5. p \in 1..Len(queue') + 1 /\ t \in 0..count' BY <1>1
  <2> QED BY <2>2, <2>3, <2>4, <2>5 DEF QueueInv
<1>5. DrainInv' /\ FlushedOnClose' /\ ConsentInv'
  BY <1>1 DEF WriterInv, DrainInv, FlushedOnClose, ConsentInv, ConsentAudited, UnitInv
<1> QED BY <1>2, <1>3, <1>4, <1>5 DEF WriterInv
-----------------------------------------------------------------------------
\* The marks are no sentiments either.
Befores == \A x : SentimentsBefore(x) = {s \in Sentiments : s.n < x.n}

\* It holds in every state.
LEMMA BeforesAre == Befores
<1>1. ASSUME NEW s \in Made, s.kind = "sentiment" PROVE s \in Sentiments
  BY <1>1, MarksAreNoItems DEF Sentiments, Items, Kind
<1>2. \A s \in Sentiments : s \in Made /\ s.kind = "sentiment" BY DEF Sentiments, Items
<1>3. ASSUME NEW x PROVE SentimentsBefore(x) = {s \in Sentiments : s.n < x.n}
  BY <1>1, <1>2 DEF SentimentsBefore
<1> QED BY <1>3 DEF Befores

\* What an item stood on when it was made, it stands on for ever.
LEMMA FoundedStays ==
  ASSUME IInv, WriterInv', NEW new, Items' = Items \cup new, \A y \in new : y.n > count,
         closing # "open" => closing' # "open",
         recording_consent' = recording_consent \/ (floor = "consent" /\ closing = "open"),
         NEW x \in Items
  PROVE  Founded(x)'
<1>1. /\ Numbered /\ Befores /\ Befores' /\ count \in Nat /\ \A y \in Items : y.n \in Nat
      /\ \A y \in Items' : y.n \in Nat
  <2>1. WriterTypeOK /\ WriterTypeOK' /\ count \in Nat /\ WriterInv
    BY DEF IInv, WriterInv, WriterTypeOK
  <2>2. Numbered BY <2>1, NumberedItems
  <2>3. Pieces' BY <2>1, ItemsAre, PTL
  <2>4. Befores /\ Befores' BY BeforesAre, PTL
  <2>5. Items \subseteq Item /\ Items' \subseteq Item BY <2>2, <2>3 DEF Numbered, Pieces
  <2> QED BY <2>1, <2>2, <2>4, <2>5, MarksAreNoItems
<1>2. x.n <= count BY <1>1 DEF Numbered
<1>3. SentimentsBefore(x)' = SentimentsBefore(x)
  <2>1. \A s \in new : ~(s.n < x.n) BY <1>1, <1>2
  <2>2. \A s : s \in Sentiments' /\ s.n < x.n <=> s \in Sentiments /\ s.n < x.n
    BY <2>1 DEF Sentiments
  <2>3. {s \in Sentiments' : s.n < x.n} = {s \in Sentiments : s.n < x.n} BY <2>2
  <2> QED BY <1>1, <2>3 DEF Befores
<1>4. LastTwoNegative(x)' <=> LastTwoNegative(x) BY <1>3 DEF LastTwoNegative
<1>5. Founded(x) BY DEF IInv, SessionInv
<1>6. x.kind = "consent" => x.value \in Decision /\ x.value = recording_consent'
  BY <1>5 DEF IInv, SessionInv, FloorInv, Founded
<1>7. x.kind = "session_finish" => closing' # "open" /\ x.value = recording_consent'
  BY <1>5 DEF Founded
<1>8. /\ RefersToCall(x)' => \E c \in Items' : c.kind = "consent" /\ c.n < x.n
      /\ x.kind = "callback" => \E e \in Items' : e.kind = "escalation" /\ e.n < x.n
  BY <1>5 DEF Founded, RefersToCall
<1> QED BY <1>4, <1>5, <1>6, <1>7, <1>8 DEF Founded

\* The streak is about the sentiments alone.
LEMMA StreakStays ==
  ASSUME StreakInv, UNCHANGED <<Sentiments, consecutive_negative_turns, should_offer_escalation, turns>>
  PROVE  StreakInv'
<1>1. (LastNegative' <=> LastNegative) /\ (BothNegative' <=> BothNegative)
  BY DEF LastNegative, BothNegative
<1> QED BY <1>1 DEF StreakInv

\* A step that makes no item and changes neither the mood nor the decision.
LEMMA QuietStep ==
  ASSUME IInv, WriterInv', Items' = Items, closing # "open" => closing' # "open",
         UNCHANGED <<userData, turns>>
  PROVE  StreakInv' /\ (\A x \in Items : Founded(x))'
<1>1. StreakInv'
  <2>1. Sentiments' = Sentiments BY DEF Sentiments
  <2> QED BY <2>1, StreakStays DEF IInv, SessionInv, userData
<1>2. ASSUME NEW x \in Items PROVE Founded(x)'
  <2>1. PICK none : none = {} OBVIOUS
  <2>2. Items' = Items \cup none /\ \A y \in none : y.n > count BY <2>1
  <2>3. recording_consent' = recording_consent BY DEF userData
  <2> QED BY <2>2, <2>3, FoundedStays
<1> QED BY <1>1, <1>2

\* Nothing of the writer changes.
LEMMA WriterStays ==
  ASSUME IInv, UNCHANGED writerVars
  PROVE  /\ WriterInv' /\ Items' = Items /\ WriterRests
         /\ UNCHANGED <<count, drain, thread, stored, dropped, call, audited, flushed,
                        appended, closing>>
<1>1. UNCHANGED <<count, queue, drain, thread, stored, dropped, call, audited, flushed,
                  appended, closing>>
  BY DEF writerVars, databaseVars
<1>2. Made' = Made /\ Written' = Written BY <1>1 DEF Made, Written
<1>3. Items' = Items BY <1>2 DEF Items
<1>4. WriterTypeOK' BY <1>1 DEF IInv, WriterInv, WriterTypeOK
<1>5. QueueInv'
  <2>1. PICK p \in 1..Len(queue) + 1, t \in 0..count :
           QueueShape(p, t) /\ TakenItems(t) /\ Closing(p, t)
    BY DEF IInv, WriterInv, QueueInv
  <2>2. QueueShape(p, t)' BY <1>1, <2>1 DEF QueueShape
  <2>3. TakenItems(t)' BY <1>1, <2>1, TakenKept
  <2>4. Closing(p, t)' BY <1>1, <1>3, <2>1 DEF Closing
  <2>5. p \in 1..Len(queue') + 1 /\ t \in 0..count' BY <1>1
  <2> QED BY <2>2, <2>3, <2>4, <2>5 DEF QueueInv
<1>6. DrainInv' /\ FlushedOnClose' /\ ConsentInv'
  BY <1>1 DEF IInv, WriterInv, DrainInv, FlushedOnClose, ConsentInv, ConsentAudited, UnitInv
<1> QED BY <1>1, <1>3, <1>4, <1>5, <1>6 DEF WriterInv, WriterRests, databaseVars
-----------------------------------------------------------------------------
\* The session's steps.  The first that make no item: the caller is passed on.
LEMMA PassedOn ==
  ASSUME IInv, Route \/ TransferToHuman \/ Transferred \/ OfferCallback \/ DeclineCallback
  PROVE  IInv'
<1>1. /\ UNCHANGED <<writerVars, notificationVars, known, turns, asked, callback, userData>>
      /\ floor' \in Floor /\ floor' # "consent" /\ floor # "consent" /\ floor # "confirming"
      /\ floor' # "confirming"
      /\ floor' \in {"transferring", "offering"} => persona' = "manager"
      /\ persona' \in Persona /\ (persona' = "manager" => persona = "manager")
  BY DEF IInv, SessionInv, FloorInv, Route, TransferToHuman, Transferred, OfferCallback,
         DeclineCallback, ToolCall, Floor, Persona, TypeOK
<1>2. /\ WriterInv' /\ Items' = Items
      /\ UNCHANGED <<stored, call, closing>>
  BY <1>1, WriterStays
<1>3. StreakInv' /\ (\A x \in Items : Founded(x))' BY <1>1, <1>2, QuietStep
<1>4. TypeOK'
  <2>1. WriterTypeOK' BY <1>2 DEF WriterInv
  <2> QED BY <1>1, <2>1 DEF IInv, SessionInv, TypeOK, userData, notificationVars
<1>5. FloorInv' BY <1>1, <1>2 DEF IInv, SessionInv, FloorInv, userData
<1>6. RowInv' BY <1>1, <1>2 DEF IInv, SessionInv, RowInv, userData
<1>7. NoticeInv' BY <1>1, <1>2 DEF IInv, SessionInv, NoticeInv, notificationVars
<1>8. StartMade' BY <1>2 DEF IInv, SessionInv, StartMade
<1> QED BY <1>2, <1>3, <1>4, <1>5, <1>6, <1>7, <1>8 DEF IInv, SessionInv

\* The request for a confirmation: the callback is in the task's hands.
LEMMA AskConfirmationStep ==
  ASSUME IInv, NEW n \in Notice, AskConfirmation(n)
  PROVE  IInv'
<1>1. /\ UNCHANGED <<writerVars, known, persona, turns, userData, texts, log>>
      /\ floor = "offering" /\ floor' = "confirming" /\ callback' = n /\ asked' = asked \cup {n}
      /\ notice' = notice \/ notice' = [notice EXCEPT ![n] = "sending"]
  BY DEF AskConfirmation, Notify, Reach, notificationVars
<1>2. /\ WriterInv' /\ Items' = Items
      /\ UNCHANGED <<stored, call, closing>>
  BY <1>1, WriterStays
<1>3. StreakInv' /\ (\A x \in Items : Founded(x))' BY <1>1, <1>2, QuietStep
<1>4. TypeOK'
  <2>1. WriterTypeOK' BY <1>2 DEF WriterInv
  <2> QED BY <1>1, <2>1 DEF IInv, SessionInv, TypeOK, userData, Floor
<1>5. FloorInv' BY <1>1, <1>2 DEF IInv, SessionInv, FloorInv, userData
<1>6. RowInv' BY <1>1, <1>2 DEF IInv, SessionInv, RowInv, userData
<1>7. NoticeInv'
  <2>1. \A m \in Notice : (m # n => notice'[m] = notice[m])
                          /\ (notice[m] # "none" => notice'[m] # "none")
    BY <1>1 DEF IInv, SessionInv, TypeOK
  <2>2. texts \subseteq Notice BY DEF IInv, SessionInv, TypeOK
  <2> QED BY <1>1, <1>2, <2>1, <2>2 DEF IInv, SessionInv, NoticeInv
<1>8. StartMade' BY <1>2 DEF IInv, SessionInv, StartMade
<1> QED BY <1>2, <1>3, <1>4, <1>5, <1>6, <1>7, <1>8 DEF IInv, SessionInv

\* The service sends a message of a request that has reached it.
LEMMA ServiceStep ==
  ASSUME IInv, NEW n \in Notice, NotificationStep(n), UNCHANGED <<writerVars, sessionVars>>
  PROVE  IInv'
<1>1. /\ UNCHANGED <<writerVars, sessionVars>> /\ notice[n] # "none"
      /\ texts' \subseteq texts \cup {n} /\ log' \subseteq log \cup {n}
      /\ \E where \in {"sent", "failed", "answered"} : notice' = [notice EXCEPT ![n] = where]
  BY DEF NotificationStep, Send, Persist, Reach
<1>2. /\ WriterInv' /\ Items' = Items
      /\ UNCHANGED <<stored, call, closing>>
  BY <1>1, WriterStays
<1>3. StreakInv' /\ (\A x \in Items : Founded(x))'
  BY <1>1, <1>2, QuietStep DEF sessionVars
<1>4. TypeOK'
  <2>1. WriterTypeOK' BY <1>2 DEF WriterInv
  <2>2. notice' \in [Notice -> {"none", "sending", "sent", "answered", "failed"}]
    BY <1>1 DEF IInv, SessionInv, TypeOK
  <2> QED BY <1>1, <2>1, <2>2 DEF IInv, SessionInv, TypeOK, sessionVars, userData
<1>5. FloorInv' BY <1>1, <1>2 DEF IInv, SessionInv, FloorInv, sessionVars, userData
<1>6. RowInv' BY <1>1, <1>2 DEF IInv, SessionInv, RowInv, sessionVars, userData
<1>7. NoticeInv'
  <2>1. \A m \in Notice : notice'[m] # "none" <=> notice[m] # "none"
    BY <1>1 DEF IInv, SessionInv, TypeOK
  <2>2. texts \subseteq Notice BY DEF IInv, SessionInv, TypeOK
  <2> QED BY <1>1, <1>2, <2>1, <2>2 DEF IInv, SessionInv, NoticeInv, sessionVars
<1>8. StartMade' BY <1>2 DEF IInv, SessionInv, StartMade
<1> QED BY <1>2, <1>3, <1>4, <1>5, <1>6, <1>7, <1>8 DEF IInv, SessionInv

\* The steps that make an item.
LEMMA RecordConsentStep ==
  ASSUME IInv, NEW decision \in Decision, RecordConsent(decision)
  PROVE  IInv'
<1>0. count \in Nat /\ WriterInv BY DEF IInv, WriterInv, WriterTypeOK
<1>1. PICK x \in Item : /\ x = NewItem(1, "consent", decision)
                        /\ x.n = count + 1 /\ x.kind = "consent" /\ x.value = decision
  BY <1>0, NewItemFacts DEF Kind, Value
<1>2. Record(<<x>>) BY <1>1 DEF RecordConsent
<1>3. /\ WriterInv' /\ Items' = Items \cup {x}
      /\ UNCHANGED <<drain, thread, stored, dropped, call, audited, flushed, appended, closing>>
  BY <1>0, <1>1, <1>2, RecordOne DEF WriterRests, databaseVars
<1>4. /\ closing = "open" /\ floor = "consent" /\ floor' = "persona"
      /\ recording_consent' = decision
      /\ UNCHANGED <<notice, texts, log, known, persona, turns, asked, callback,
                     consecutive_negative_turns, should_offer_escalation>>
  BY DEF RecordConsent, OnCall, notificationVars
<1>5. (\A y \in Items : Founded(y))'
  <2>1. PICK new : new = {x} OBVIOUS
  <2>2. Items' = Items \cup new /\ \A y \in new : y.n > count BY <1>0, <1>1, <1>3, <2>1
  <2>3. \A y \in Items : Founded(y)' BY <1>3, <1>4, <2>2, FoundedStays
  <2>4. Founded(x)' BY <1>1, <1>4 DEF Founded, RefersToCall
  <2> QED BY <1>3, <2>3, <2>4
<1>6. StreakInv'
  <2>1. Sentiments' = Sentiments BY <1>1, <1>3 DEF Sentiments
  <2> QED BY <1>4, <2>1, StreakStays DEF IInv, SessionInv
<1>7. TypeOK'
  <2>1. WriterTypeOK' BY <1>3 DEF WriterInv
  <2> QED BY <1>4, <2>1 DEF IInv, SessionInv, TypeOK, Floor
<1>8. FloorInv' BY <1>1, <1>3, <1>4 DEF IInv, SessionInv, FloorInv
<1>9. RowInv' /\ StartMade' BY <1>3, <1>4 DEF IInv, SessionInv, RowInv, StartMade
<1>10. NoticeInv' BY <1>3, <1>4 DEF IInv, SessionInv, NoticeInv
<1> QED BY <1>3, <1>5, <1>6, <1>7, <1>8, <1>9, <1>10 DEF IInv, SessionInv

\* A case: its trigger is what the last two sentiments say.
LEMMA EscalateStep ==
  ASSUME IInv, EscalateToManager
  PROVE  IInv'
<1>0. count \in Nat /\ WriterInv /\ Numbered
  <2>1. count \in Nat /\ WriterInv BY DEF IInv, WriterInv, WriterTypeOK
  <2> QED BY <2>1, NumberedItems
<1>1. PICK x \in Item : /\ x = NewItem(1, "escalation", TriggerFor)
                        /\ x.n = count + 1 /\ x.kind = "escalation" /\ x.value = TriggerFor
  <2>1. TriggerFor \in Value BY DEF Value, TriggerFor, Trigger
  <2> QED BY <1>0, <2>1, NewItemFacts DEF Kind
<1>2. Record(<<x>>) BY <1>1 DEF EscalateToManager
<1>3. /\ WriterInv' /\ Items' = Items \cup {x}
      /\ UNCHANGED <<drain, thread, stored, dropped, call, audited, flushed, appended, closing>>
  BY <1>0, <1>1, <1>2, RecordOne DEF WriterRests, databaseVars
<1>4. /\ closing = "open" /\ floor = "persona" /\ persona' = "manager"
      /\ UNCHANGED <<notice, texts, log, known, floor, turns, asked, callback, userData>>
  BY DEF EscalateToManager, ToolCall, OnCall, notificationVars
<1>5. Sentiments' = Sentiments BY <1>1, <1>3 DEF Sentiments
<1>6. (\A y \in Items : Founded(y))'
  <2>1. PICK new : new = {x} OBVIOUS
  <2>2. Items' = Items \cup new /\ \A y \in new : y.n > count BY <1>0, <1>1, <1>3, <2>1
  <2>3. \A y \in Items : Founded(y)'
    BY <1>3, <1>4, <2>2, FoundedStays DEF userData
  <2>4. Befores' BY BeforesAre, PTL
  <2>5. SentimentsBefore(x)' = Sentiments
    <3>1. \A s \in Sentiments : s.n < x.n BY <1>0, <1>1 DEF Sentiments, Numbered
    <3>2. {s \in Sentiments : s.n < x.n} = Sentiments BY <3>1
    <3> QED BY <1>5, <2>4, <3>2 DEF Befores
  <2>6. LastTwoNegative(x)' <=> BothNegative BY <2>5 DEF LastTwoNegative, BothNegative
  <2>7. x.value = "frustration" <=> LastTwoNegative(x)'
    <3>1. x.value = (IF should_offer_escalation THEN "frustration" ELSE "any other")
      BY <1>1 DEF TriggerFor
    <3>2. should_offer_escalation <=> BothNegative BY DEF IInv, SessionInv, StreakInv
    <3> QED BY <2>6, <3>1, <3>2
  <2>8. \E c \in Items : c.kind = "consent" BY <1>4 DEF IInv, SessionInv, FloorInv
  <2>9. PICK c \in Items : c.kind = "consent" /\ c.n < x.n
    BY <1>0, <1>1, <2>8 DEF Numbered
  <2>10. Founded(x)' BY <1>1, <1>3, <2>7, <2>9 DEF Founded, RefersToCall
  <2> QED BY <1>3, <2>3, <2>10
<1>7. StreakInv' BY <1>4, <1>5, StreakStays DEF IInv, SessionInv, userData
<1>8. TypeOK'
  <2>1. WriterTypeOK' BY <1>3 DEF WriterInv
  <2> QED BY <1>4, <2>1 DEF IInv, SessionInv, TypeOK, Persona, userData
<1>9. FloorInv' BY <1>1, <1>3, <1>4 DEF IInv, SessionInv, FloorInv, userData
<1>10. RowInv' /\ StartMade' BY <1>3, <1>4 DEF IInv, SessionInv, RowInv, StartMade, userData
<1>11. NoticeInv' BY <1>3, <1>4 DEF IInv, SessionInv, NoticeInv
<1> QED BY <1>3, <1>6, <1>7, <1>8, <1>9, <1>10, <1>11 DEF IInv, SessionInv

\* A callback: its manager is there because a case was made.
LEMMA ScheduleStep ==
  ASSUME IInv, NEW n \in Notice, Schedule(n)
  PROVE  IInv'
<1>0. count \in Nat /\ WriterInv /\ Numbered
  <2>1. count \in Nat /\ WriterInv BY DEF IInv, WriterInv, WriterTypeOK
  <2> QED BY <2>1, NumberedItems
<1>1. PICK x \in Item : /\ x = NewItem(1, "callback", n)
                        /\ x.n = count + 1 /\ x.kind = "callback" /\ x.value = n
  BY <1>0, NewItemFacts, SessionAssumption DEF Kind, Value
<1>2. Record(<<x>>) BY <1>1 DEF Schedule
<1>3. /\ WriterInv' /\ Items' = Items \cup {x}
      /\ UNCHANGED <<drain, thread, stored, dropped, call, audited, flushed, appended, closing>>
  BY <1>0, <1>1, <1>2, RecordOne DEF WriterRests, databaseVars
<1>4. /\ floor = "offering" \/ (floor = "confirming" /\ callback = n)
      /\ floor' = "persona" /\ callback' = "none" /\ asked' = asked \cup {n}
      /\ UNCHANGED <<notice, texts, log, known, persona, turns, userData>>
  BY DEF Schedule, notificationVars
<1>5. Sentiments' = Sentiments BY <1>1, <1>3 DEF Sentiments
<1>6. (\A y \in Items : Founded(y))'
  <2>1. PICK new : new = {x} OBVIOUS
  <2>2. Items' = Items \cup new /\ \A y \in new : y.n > count BY <1>0, <1>1, <1>3, <2>1
  <2>3. \A y \in Items : Founded(y)'
    BY <1>3, <1>4, <2>2, FoundedStays DEF userData
  <2>4. (\E c \in Items : c.kind = "consent") /\ (\E e \in Items : e.kind = "escalation")
    BY <1>4 DEF IInv, SessionInv, FloorInv
  <2>5. \A y \in Items : y.n < x.n BY <1>0, <1>1 DEF Numbered
  <2>6. PICK c \in Items, e \in Items :
           c.kind = "consent" /\ c.n < x.n /\ e.kind = "escalation" /\ e.n < x.n
    BY <2>4, <2>5
  <2>7. Founded(x)' BY <1>1, <1>3, <2>6 DEF Founded, RefersToCall
  <2> QED BY <1>3, <2>3, <2>7
<1>7. StreakInv' BY <1>4, <1>5, StreakStays DEF IInv, SessionInv, userData
<1>8. TypeOK'
  <2>1. WriterTypeOK' BY <1>3 DEF WriterInv
  <2> QED BY <1>4, <2>1 DEF IInv, SessionInv, TypeOK, Floor, userData
<1>9. FloorInv' BY <1>1, <1>3, <1>4 DEF IInv, SessionInv, FloorInv, userData
<1>10. RowInv' /\ StartMade' BY <1>3, <1>4 DEF IInv, SessionInv, RowInv, StartMade, userData
<1>11. NoticeInv' BY <1>1, <1>3, <1>4 DEF IInv, SessionInv, NoticeInv
<1> QED BY <1>3, <1>6, <1>7, <1>8, <1>9, <1>10, <1>11 DEF IInv, SessionInv

\* The streak is what the sentiments say once one more is heard.
LEMMA StreakMoves ==
  ASSUME StreakInv, NEW s, s.value \in Label, s.n \in Nat, Sentiments' = Sentiments \cup {s},
         \A u \in Sentiments : u.n \in Nat /\ u.n < s.n,
         consecutive_negative_turns \in Nat, turns \in Nat, turns' = turns + 1,
         Score(s.value)
  PROVE  StreakInv'
<1>1. /\ consecutive_negative_turns' =
            IF s.value = "negative" THEN consecutive_negative_turns + 1 ELSE 0
      /\ should_offer_escalation' <=> consecutive_negative_turns' >= 2
  BY DEF Score, ESCALATE_AFTER
<1>2. LastNegative' <=> s.value = "negative"
  <2>1. ASSUME s.value = "negative" PROVE LastNegative'
    <3>1. s \in Sentiments' /\ \A u \in Sentiments' : u.n <= s.n OBVIOUS
    <3> QED BY <2>1, <3>1 DEF LastNegative
  <2>2. ASSUME LastNegative' PROVE s.value = "negative"
    <3>1. PICK u \in Sentiments' : u.value = "negative" /\ \A v \in Sentiments' : v.n <= u.n
      BY <2>2 DEF LastNegative
    <3>2. s \in Sentiments' /\ s.n <= u.n BY <3>1
    <3>3. u \notin Sentiments BY <3>2
    <3> QED BY <3>1, <3>3
  <2> QED BY <2>1, <2>2
<1>3. BothNegative' <=> s.value = "negative" /\ LastNegative
  <2>1. ASSUME s.value = "negative", LastNegative PROVE BothNegative'
    <3>1. PICK u \in Sentiments : u.value = "negative" /\ \A v \in Sentiments : v.n <= u.n
      BY <2>1 DEF LastNegative
    <3>2. /\ u \in Sentiments' /\ s \in Sentiments' /\ u.n < s.n
          /\ \A v \in Sentiments' : v.n <= u.n \/ v = s
      BY <3>1
    <3> QED BY <2>1, <3>1, <3>2 DEF BothNegative
  <2>2. ASSUME BothNegative' PROVE s.value = "negative" /\ LastNegative
    <3>1. PICK u \in Sentiments', v \in Sentiments' :
             /\ u.n < v.n /\ u.value = "negative" /\ v.value = "negative"
             /\ \A w \in Sentiments' : w.n <= u.n \/ w = v
      BY <2>2 DEF BothNegative
    <3>2. s \in Sentiments' /\ (s.n <= u.n \/ s = v) BY <3>1
    <3>3. u # s
      <4>1. ASSUME u = s PROVE FALSE
        <5>1. v.n \in Nat /\ v.n <= s.n /\ s.n < v.n BY <3>1, <4>1
        <5> QED BY <5>1
      <4> QED BY <4>1
    <3>4. u \in Sentiments /\ u.n < s.n /\ u.n \in Nat BY <3>3
    <3>5. s = v BY <3>2, <3>4
    <3>6. \A w \in Sentiments : w.n <= u.n
      <4>1. \A w \in Sentiments : w \in Sentiments' /\ w # s OBVIOUS
      <4> QED BY <3>1, <3>5, <4>1
    <3> QED BY <3>1, <3>4, <3>5, <3>6 DEF LastNegative
  <2> QED BY <2>1, <2>2
<1>4. /\ consecutive_negative_turns >= 1 <=> LastNegative
      /\ consecutive_negative_turns <= turns
  BY DEF StreakInv
<1>5. CASE s.value = "negative" BY <1>1, <1>2, <1>3, <1>4, <1>5 DEF StreakInv
<1>6. CASE s.value # "negative" BY <1>1, <1>2, <1>3, <1>4, <1>6 DEF StreakInv
<1> QED BY <1>5, <1>6

\* A turn and its sentiment: the streak moves on.
LEMMA UserTurnStep ==
  ASSUME IInv, NEW label \in Label, UserTurn(label)
  PROVE  IInv'
<1>0. count \in Nat /\ WriterInv /\ Numbered
  <2>1. count \in Nat /\ WriterInv BY DEF IInv, WriterInv, WriterTypeOK
  <2> QED BY <2>1, NumberedItems
<1>1. PICK x \in Item : /\ x = NewItem(1, "turn", "none")
                        /\ x.n = count + 1 /\ x.kind = "turn" /\ x.value = "none"
  BY <1>0, NewItemFacts DEF Kind, Value
<1>2. PICK s \in Item : /\ s = NewItem(2, "sentiment", label)
                        /\ s.n = count + 2 /\ s.kind = "sentiment" /\ s.value = label
  BY <1>0, NewItemFacts DEF Kind, Value
<1>3. Record(<<x, s>>) BY <1>1, <1>2 DEF UserTurn
<1>4. /\ WriterInv' /\ Items' = Items \cup {x, s}
      /\ UNCHANGED <<drain, thread, stored, dropped, call, audited, flushed, appended, closing>>
  BY <1>0, <1>1, <1>2, <1>3, RecordTwo DEF WriterRests, databaseVars
<1>5. /\ closing = "open" /\ floor = "persona" /\ turns < MaxTurns /\ turns' = turns + 1
      /\ Score(label)
      /\ UNCHANGED <<notice, texts, log, known, persona, floor, asked, callback, recording_consent>>
  BY DEF UserTurn, OnCall, notificationVars
<1>6. turns \in Nat /\ turns' \in 0..MaxTurns /\ consecutive_negative_turns \in Nat
  BY <1>5, SessionAssumption DEF IInv, SessionInv, TypeOK
<1>7. StreakInv'
  <2>1. Sentiments' = Sentiments \cup {s} BY <1>1, <1>2, <1>4 DEF Sentiments
  <2>2. \A u \in Sentiments : u.n \in Nat /\ u.n < s.n
    BY <1>0, <1>2 DEF Numbered, Sentiments
  <2> QED BY <1>0, <1>2, <1>5, <1>6, <2>1, <2>2, StreakMoves DEF IInv, SessionInv
<1>8. (\A y \in Items : Founded(y))'
  <2>1. PICK new : new = {x, s} OBVIOUS
  <2>2. Items' = Items \cup new /\ \A y \in new : y.n > count
    BY <1>0, <1>1, <1>2, <1>4, <2>1
  <2>3. \A y \in Items : Founded(y)' BY <1>4, <1>5, <2>2, FoundedStays
  <2>4. \E c \in Items : c.kind = "consent" BY <1>5 DEF IInv, SessionInv, FloorInv
  <2>5. PICK c \in Items : c.kind = "consent" /\ c.n < x.n /\ c.n < s.n
    BY <1>0, <1>1, <1>2, <2>4 DEF Numbered
  <2>6. Founded(x)' BY <1>1, <1>4, <2>5 DEF Founded, RefersToCall
  <2>7. Founded(s)' BY <1>2, <1>4, <2>5 DEF Founded, RefersToCall
  <2> QED BY <1>4, <2>3, <2>6, <2>7
<1>9. TypeOK'
  <2>1. WriterTypeOK' BY <1>4 DEF WriterInv
  <2>2. consecutive_negative_turns' \in 0..MaxTurns /\ should_offer_escalation' \in BOOLEAN
    <3>1. consecutive_negative_turns' \in Nat BY <1>5, <1>6 DEF Score
    <3>2. consecutive_negative_turns' <= turns' BY <1>7 DEF StreakInv
    <3>3. should_offer_escalation' \in BOOLEAN BY <1>5 DEF Score
    <3> QED BY <1>6, <3>1, <3>2, <3>3, SessionAssumption
  <2> QED BY <1>5, <1>6, <2>1, <2>2 DEF IInv, SessionInv, TypeOK
<1>10. FloorInv' BY <1>1, <1>2, <1>4, <1>5 DEF IInv, SessionInv, FloorInv
<1>11. RowInv' /\ StartMade' BY <1>4, <1>5 DEF IInv, SessionInv, RowInv, StartMade
<1>12. NoticeInv' BY <1>4, <1>5 DEF IInv, SessionInv, NoticeInv
<1> QED BY <1>4, <1>7, <1>8, <1>9, <1>10, <1>11, <1>12 DEF IInv, SessionInv

\* The job shuts down with the decision there is by then.
LEMMA HangUpStep ==
  ASSUME IInv, HangUp
  PROVE  IInv'
<1>0. count \in Nat /\ WriterInv /\ recording_consent \in Decision \cup {"unknown"}
  BY DEF IInv, WriterInv, WriterTypeOK, SessionInv, TypeOK
<1>1. PICK x \in Item : /\ x = NewItem(1, "session_finish", recording_consent)
                        /\ x.n = count + 1 /\ x.kind = "session_finish"
                        /\ x.value = recording_consent
  BY <1>0, NewItemFacts DEF Kind, Value
<1>2. /\ WriterInv' /\ Items' = Items \cup {x} /\ closing = "open" /\ closing' = "waiting"
      /\ UNCHANGED <<drain, thread, stored, dropped, call, audited, flushed, appended>>
  <2>1. FinishConversation(recording_consent) BY DEF HangUp
  <2>2. PICK consent : consent = recording_consent OBVIOUS
  <2>3. FinishConversation(consent) /\ x = NewItem(1, "session_finish", consent)
    BY <1>1, <2>1, <2>2 DEF FinishConversation
  <2> QED BY <1>0, <2>2, <2>3, FinishStep DEF databaseVars
<1>3. UNCHANGED <<notice, texts, log, known, persona, floor, turns, asked, callback, userData>>
  BY DEF HangUp, notificationVars, sessionVars
<1>4. (\A y \in Items : Founded(y))'
  <2>1. PICK new : new = {x} OBVIOUS
  <2>2. Items' = Items \cup new /\ \A y \in new : y.n > count BY <1>0, <1>1, <1>2, <2>1
  <2>3. \A y \in Items : Founded(y)' BY <1>2, <1>3, <2>2, FoundedStays DEF userData
  <2>4. Founded(x)' BY <1>1, <1>2, <1>3 DEF Founded, RefersToCall, userData
  <2> QED BY <1>2, <2>3, <2>4
<1>5. StreakInv'
  <2>1. Sentiments' = Sentiments BY <1>1, <1>2 DEF Sentiments
  <2> QED BY <1>3, <2>1, StreakStays DEF IInv, SessionInv, userData
<1>6. TypeOK'
  <2>1. WriterTypeOK' BY <1>2 DEF WriterInv
  <2> QED BY <1>3, <2>1 DEF IInv, SessionInv, TypeOK, userData
<1>7. FloorInv' BY <1>1, <1>2, <1>3 DEF IInv, SessionInv, FloorInv, userData
<1>8. RowInv' /\ StartMade' BY <1>2, <1>3 DEF IInv, SessionInv, RowInv, StartMade, userData
<1>9. NoticeInv' BY <1>2, <1>3 DEF IInv, SessionInv, NoticeInv
<1> QED BY <1>2, <1>4, <1>5, <1>6, <1>7, <1>8, <1>9 DEF IInv, SessionInv

\* What a commit makes of the call's row: the closing has the decision.
LEMMA RowStep ==
  ASSUME IInv, WriteCommits, UNCHANGED recording_consent
  PROVE  call' \in Row \cup {NoRow} /\ RowInv'
<1>0. /\ Numbered /\ thread # Idle /\ thread \in Items /\ Written \subseteq Items
      /\ Items \subseteq Item /\ call \in Row \cup {NoRow}
      /\ recording_consent \in Decision \cup {"unknown"}
  <2>1. WriterInv /\ WriterTypeOK /\ thread # Idle BY DEF IInv, WriterInv, WriteCommits
  <2>2. Numbered /\ Pieces BY <2>1, NumberedItems, ItemsAre
  <2> QED BY <2>1, <2>2 DEF Numbered, Pieces, WriterTypeOK, IInv, SessionInv, TypeOK
<1>1. /\ thread \in stored' /\ stored \subseteq stored' /\ UNCHANGED closing
      /\ call' = CASE thread.kind = "session_start" ->
                         [finished |-> FALSE, recording_consent |-> thread.value]
                   [] thread.kind = "session_finish" -> FinishedRow(thread)
                   [] OTHER -> call
  BY DEF WriteCommits, ThreadEnds
<1>2. Founded(thread) /\ RowInv BY <1>0 DEF IInv, SessionInv
<1>3. call' \in Row \cup {NoRow} /\ RowInv'
  <2>1. CASE thread.kind = "session_start"
    <3>1. call' = [finished |-> FALSE, recording_consent |-> "unknown"]
      BY <1>1, <1>2, <2>1 DEF Founded
    <3> QED BY <1>1, <2>1, <3>1 DEF Row, RowInv
  <2>2. CASE thread.kind = "session_finish" /\ call = NoRow
    <3>1. call' = NoRow BY <1>1, <2>2 DEF FinishedRow
    <3> QED BY <3>1 DEF RowInv
  <2>3. CASE thread.kind = "session_finish" /\ call # NoRow
    <3>1. call \in Row BY <1>0, <2>3
    <3>2. closing' # "open" /\ thread.value = recording_consent BY <1>1, <1>2, <2>3 DEF Founded
    <3>3. call' = [finished |-> TRUE,
                   recording_consent |-> IF thread.value = "unknown" THEN call.recording_consent
                                         ELSE thread.value]
      BY <1>1, <2>3 DEF FinishedRow
    <3>4. call' \in Row BY <1>0, <3>1, <3>2, <3>3 DEF Row
    <3>5. call'.recording_consent = IF thread.value = "unknown" THEN call.recording_consent
                                    ELSE thread.value
      BY <3>3
    <3>6. \E start \in stored' : start.kind = "session_start" BY <1>1, <1>2, <2>3 DEF RowInv
    <3> QED BY <3>2, <3>4, <3>5, <3>6 DEF RowInv
  <2>4. CASE thread.kind # "session_start" /\ thread.kind # "session_finish"
    <3>1. call' = call BY <1>1, <2>4
    <3> QED BY <1>0, <1>1, <1>2, <3>1 DEF RowInv
  <2> QED BY <2>1, <2>2, <2>3, <2>4
<1> QED BY <1>3

\* A step of the writer leaves what the session has made as it is.
LEMMA AsideStep ==
  ASSUME IInv, Aside(WriterStep)
  PROVE  IInv'
<1>0. WriterInv /\ UNCHANGED <<notificationVars, sessionVars>>
  BY DEF IInv, Aside
<1>1. UNCHANGED <<notice, texts, log, known, persona, floor, turns, asked, callback, userData>>
  BY <1>0 DEF notificationVars, sessionVars
<1>2. /\ WriterInv' /\ Items' = Items /\ RowInv'
      /\ closing # "open" => closing' # "open"
  <2>1. CASE WriteCommits
    <3>1. call' \in Row \cup {NoRow} /\ RowInv'
      BY <1>1, <2>1, RowStep DEF userData
    <3>2. closing' = closing BY <2>1 DEF WriteCommits, ThreadEnds
    <3> QED BY <1>0, <2>1, <3>1, <3>2, CommitStep
  <2>2. CASE WriteFails
    <3>1. UNCHANGED <<stored, call, closing>> BY <2>2 DEF WriteFails, ThreadEnds
    <3>2. RowInv' BY <1>1, <3>1 DEF IInv, SessionInv, RowInv, userData
    <3> QED BY <1>0, <2>2, <3>1, <3>2, FailStep
  <2>3. CASE Take \/ TakeSentinel
    <3>1. UNCHANGED <<stored, call, closing>> BY <2>3 DEF Take, TakeSentinel, databaseVars
    <3>2. RowInv' BY <1>1, <3>1 DEF IInv, SessionInv, RowInv, userData
    <3> QED BY <1>0, <2>3, <3>1, <3>2, TakeStep, TakeSentinelStep
  <2>4. CASE CloseReturns \/ CloseTimesOut
    <3>1. UNCHANGED <<stored, call>> /\ closing' = "returned"
      BY <2>4 DEF CloseReturns, CloseTimesOut, databaseVars
    <3>2. RowInv' BY <1>1, <3>1 DEF IInv, SessionInv, RowInv, userData
    <3> QED BY <1>0, <2>4, <3>1, <3>2, CloseStep
  <2>5. CASE FlushConsent \/ AppendConsent
    <3>1. WriterInv' /\ Items' = Items /\ UNCHANGED <<stored, call, closing>>
      BY <1>0, <2>5, UnitStep
    <3> QED BY <1>1, <3>1 DEF IInv, SessionInv, RowInv, userData
  <2>6. WriterStep BY DEF Aside
  <2> QED BY <2>1, <2>2, <2>3, <2>4, <2>5, <2>6 DEF WriterStep, Drain
<1>3. StreakInv' /\ (\A x \in Items : Founded(x))' BY <1>1, <1>2, QuietStep
<1>4. TypeOK'
  <2>1. WriterTypeOK' BY <1>2 DEF WriterInv
  <2> QED BY <1>1, <2>1 DEF IInv, SessionInv, TypeOK, userData
<1>5. FloorInv' BY <1>1, <1>2 DEF IInv, SessionInv, FloorInv, userData
<1>6. NoticeInv' BY <1>1, <1>2 DEF IInv, SessionInv, NoticeInv
<1>7. StartMade' BY <1>2 DEF IInv, SessionInv, StartMade
<1> QED BY <1>2, <1>3, <1>4, <1>5, <1>6, <1>7 DEF IInv, SessionInv

\* Nothing happens.
LEMMA StutterStep ==
  ASSUME IInv, UNCHANGED vars
  PROVE  IInv'
<1>1. UNCHANGED <<writerVars, notice, texts, log, known, persona, floor, turns, asked, callback,
                  userData>>
  BY DEF vars, notificationVars, sessionVars
<1>2. /\ WriterInv' /\ Items' = Items
      /\ UNCHANGED <<stored, call, closing>>
  BY <1>1, WriterStays
<1>3. StreakInv' /\ (\A x \in Items : Founded(x))' BY <1>1, <1>2, QuietStep
<1>4. TypeOK'
  <2>1. WriterTypeOK' BY <1>2 DEF WriterInv
  <2> QED BY <1>1, <2>1 DEF IInv, SessionInv, TypeOK, userData
<1>5. FloorInv' BY <1>1, <1>2 DEF IInv, SessionInv, FloorInv, userData
<1>6. RowInv' BY <1>1, <1>2 DEF IInv, SessionInv, RowInv, userData
<1>7. NoticeInv' BY <1>1, <1>2 DEF IInv, SessionInv, NoticeInv
<1>8. StartMade' BY <1>2 DEF IInv, SessionInv, StartMade
<1> QED BY <1>2, <1>3, <1>4, <1>5, <1>6, <1>7, <1>8 DEF IInv, SessionInv
-----------------------------------------------------------------------------
\* A call begins with its start in the queue.
LEMMA InitEstablishesIInv == Init => IInv
<1> SUFFICES ASSUME Init PROVE IInv OBVIOUS
<1>1. PICK x : x = [n |-> 1, kind |-> "session_start", value |-> "unknown"] OBVIOUS
<1>2. x \in Item /\ x.n = 1 /\ x.kind = "session_start" /\ x.value = "unknown"
  BY <1>1 DEF Item, Kind, Value
<1>3. /\ count = 1 /\ queue = <<x>> /\ drain = "waiting" /\ thread = Idle
      /\ stored = {} /\ dropped = {} /\ call = NoRow /\ audited = {}
      /\ flushed = {} /\ appended = {} /\ closing = "open"
  BY <1>1 DEF Init, WriterInit
<1>4. WriterTypeOK BY <1>2, <1>3 DEF WriterTypeOK
<1>5. Len(queue) = 1 /\ queue[1] = x /\ \A i : i \in 1..Len(queue) <=> i = 1 BY <1>3
<1>6. Items = {x}
  <2>1. Pieces /\ Written = {} BY <1>3, <1>4, ItemsAre DEF Written
  <2>2. x # SENTINEL BY <1>2, MarksAreNoItems
  <2>3. \A y : y \in Items <=> y = x BY <1>3, <1>5, <2>1, <2>2 DEF Pieces
  <2> QED BY <2>3
<1>7. WriterInv
  <2>1. QueueInv
    <3>1. 2 \in 1..Len(queue) + 1 /\ 0 \in 0..count /\ 2 > Len(queue) /\ ~(2 <= Len(queue))
      BY <1>3, <1>5
    <3>2. QueueShape(2, 0) BY <1>2, <1>3, <1>5, <3>1 DEF QueueShape
    <3>3. TakenItems(0)
      <4>1. Written = {} /\ 1..0 = {} BY <1>3 DEF Written
      <4> QED BY <1>3, <4>1 DEF TakenItems
    <3>4. Closing(2, 0) BY <3>1 DEF Closing
    <3> QED BY <3>1, <3>2, <3>3, <3>4 DEF QueueInv
  <2>2. DrainInv /\ FlushedOnClose /\ ConsentInv
    BY <1>3 DEF DrainInv, FlushedOnClose, ConsentInv, ConsentAudited, UnitInv
  <2> QED BY <1>4, <2>1, <2>2 DEF WriterInv
<1>8. /\ notice = [n \in Notice |-> "none"] /\ texts = {} /\ log = {}
      /\ known \in BOOLEAN /\ persona = "triage" /\ floor = "consent" /\ turns = 0
      /\ asked = {} /\ callback = "none" /\ recording_consent = "unknown"
      /\ consecutive_negative_turns = 0 /\ should_offer_escalation = FALSE
  BY DEF Init, NotificationInit
<1>9. TypeOK
  <2>1. notice \in [Notice -> {"none", "sending", "sent", "answered", "failed"}] BY <1>8
  <2>2. 0 \in 0..MaxTurns BY SessionAssumption
  <2> QED BY <1>4, <1>8, <2>1, <2>2 DEF TypeOK, Persona, Floor
<1>10. StreakInv
  <2>1. Sentiments = {} BY <1>2, <1>6 DEF Sentiments
  <2>2. ~LastNegative /\ ~BothNegative BY <2>1 DEF LastNegative, BothNegative
  <2> QED BY <1>8, <2>2 DEF StreakInv
<1>11. FloorInv BY <1>2, <1>6, <1>8 DEF FloorInv
<1>12. RowInv /\ StartMade BY <1>2, <1>3, <1>6 DEF RowInv, StartMade
<1>13. NoticeInv BY <1>8 DEF NoticeInv
<1>14. Founded(x) BY <1>2 DEF Founded, RefersToCall
<1> QED BY <1>6, <1>7, <1>9, <1>10, <1>11, <1>12, <1>13, <1>14 DEF IInv, SessionInv

\* The inductive invariant of a call and its record.
THEOREM SessionInvariant == Spec => []IInv
<1>1. Init => IInv BY InitEstablishesIInv
<1>2. IInv /\ [Next]_vars => IInv'
  <2> SUFFICES ASSUME IInv, [Next]_vars PROVE IInv' OBVIOUS
  <2>1. CASE \E decision \in Decision : RecordConsent(decision) BY <2>1, RecordConsentStep
  <2>2. CASE \E label \in Label : UserTurn(label) BY <2>2, UserTurnStep
  <2>3. CASE Route \/ TransferToHuman \/ Transferred \/ OfferCallback \/ DeclineCallback
    BY <2>3, PassedOn
  <2>4. CASE EscalateToManager BY <2>4, EscalateStep
  <2>5. CASE \E n \in Notice : AskConfirmation(n) \/ Schedule(n)
    BY <2>5, AskConfirmationStep, ScheduleStep
  <2>6. CASE HangUp BY <2>6, HangUpStep
  <2>7. CASE Aside(WriterStep) BY <2>7, AsideStep
  <2>8. CASE \E n \in Notice : NotificationStep(n) /\ UNCHANGED <<writerVars, sessionVars>>
    BY <2>8, ServiceStep
  <2>9. CASE UNCHANGED vars BY <2>9, StutterStep
  <2> QED
    BY <2>1, <2>2, <2>3, <2>4, <2>5, <2>6, <2>7, <2>8, <2>9 DEF Next, Conversation
<1> QED BY <1>1, <1>2, PTL DEF Spec

\* Type correctness of the session, its writer and the service it calls.
THEOREM SessionTypeCorrect == Spec => []TypeOK
<1>1. IInv => TypeOK BY DEF IInv, SessionInv
<1> QED BY <1>1, SessionInvariant, PTL

\* The transaction of the call's row is over before a thread has anything that
\* refers to it: the start was made first, and items are taken in order.
THEOREM CallRowComesFirst == Spec => []CallRowFirst
<1>1. ASSUME IInv PROVE CallRowFirst
  <2>1. WriterTypeOK /\ Numbered /\ Pieces
    <3>1. WriterInv /\ WriterTypeOK BY <1>1 DEF IInv, WriterInv
    <3> QED BY <3>1, NumberedItems, ItemsAre
  <2>2. PICK s \in Items : s.kind = "session_start" /\ s.n = 1
    BY <1>1 DEF IInv, SessionInv, StartMade
  <2>3. ASSUME NEW item \in Written \cup {thread}, RefersToCall(item)
        PROVE  s \in Written
    <3>1. item # Idle /\ item # s BY <2>2, <2>3 DEF RefersToCall, Idle
    <3>2. item \in Items BY <2>1, <2>3, <3>1 DEF Pieces
    <3>3. s.n < item.n
      <4>1. item.n # s.n /\ item.n \in 1..count BY <2>1, <2>2, <3>1, <3>2 DEF Numbered
      <4>2. count \in Nat BY <2>1 DEF WriterTypeOK
      <4> QED BY <2>2, <4>1, <4>2
    <3>4. CASE item \in Written BY <2>1, <3>3, <3>4 DEF Numbered
    <3>5. CASE item = thread BY <2>1, <3>1, <3>3, <3>5 DEF Numbered
    <3> QED BY <2>3, <3>4, <3>5
  <2> QED BY <2>2, <2>3 DEF CallRowFirst, Written
<1>2. IInv => CallRowFirst BY <1>1
<1> QED BY <1>2, SessionInvariant, PTL

\* The record and the ledger have the same consents.
THEOREM ConsentsAreAudited == Spec => []ConsentAudited
<1>1. IInv => ConsentAudited BY DEF IInv, WriterInv, ConsentInv
<1> QED BY <1>1, SessionInvariant, PTL

\* A task that ended by itself has left nothing behind that was made before the
\* closing of the call.
THEOREM WriterFlushes == Spec => []FlushedOnClose
<1>1. IInv => FlushedOnClose BY DEF IInv, WriterInv
<1> QED BY <1>1, SessionInvariant, PTL

\* A finished call row and a recorded consent agree.
THEOREM RowTellsTheConsent == Spec => []RowAgreesWithConsent
<1>1. ASSUME IInv PROVE RowAgreesWithConsent
  <2>1. stored \subseteq Items
    <3>1. WriterTypeOK BY <1>1 DEF IInv, WriterInv
    <3>2. Written \subseteq Items BY <3>1, ItemsAre DEF Pieces
    <3> QED BY <3>2 DEF Written
  <2>2. ASSUME NEW item \in stored, item.kind = "consent", call # NoRow, call.finished
        PROVE  call.recording_consent = item.value
    <3>1. item.value = recording_consent /\ item.value \in Decision
      BY <1>1, <2>1, <2>2 DEF IInv, SessionInv, Founded
    <3>2. recording_consent # "unknown" BY <3>1 DEF Decision
    <3> QED BY <1>1, <2>2, <3>1, <3>2 DEF IInv, SessionInv, RowInv
  <2> QED BY <2>2 DEF RowAgreesWithConsent
<1>2. IInv => RowAgreesWithConsent BY <1>1
<1> QED BY <1>2, SessionInvariant, PTL

\* What an item stands on was written before the item was.
LEMMA WrittenBefore ==
  ASSUME IInv, NEW item \in stored
  PROVE  /\ item \in Items /\ Founded(item)
         /\ \A x \in Items : x.n < item.n => x \in Written
<1>1. WriterTypeOK /\ Numbered
  <2>1. WriterInv BY DEF IInv
  <2> QED BY <2>1, NumberedItems DEF WriterInv
<1>2. item \in Written /\ item \in Items BY <1>1, ItemsAre DEF Pieces, Written
<1> QED BY <1>1, <1>2 DEF IInv, SessionInv, Numbered

\* The caller's decision about recording comes first in the record.
THEOREM ConsentComesFirst == Spec => []ConsentFirst
<1>1. ASSUME IInv PROVE ConsentFirst
  <2>1. ASSUME NEW item \in stored, RefersToCall(item)
        PROVE  \E consent \in Written : consent.kind = "consent" /\ consent.n < item.n
    <3>1. PICK c \in Items : c.kind = "consent" /\ c.n < item.n
      BY <1>1, <2>1, WrittenBefore DEF Founded
    <3> QED BY <1>1, <3>1, WrittenBefore
  <2> QED BY <2>1 DEF ConsentFirst, Written
<1>2. IInv => ConsentFirst BY <1>1
<1> QED BY <1>2, SessionInvariant, PTL

\* An escalation names frustration when the last two sentiments show it, and
\* only then.
THEOREM FrustrationIsShown == Spec => []FrustrationShown
<1>1. ASSUME IInv PROVE FrustrationShown
  BY <1>1, WrittenBefore DEF FrustrationShown, Founded
<1>2. IInv => FrustrationShown BY <1>1
<1> QED BY <1>2, SessionInvariant, PTL

\* A callback on record belongs to an escalated call.
THEOREM CallbackNeedsEscalation == Spec => []CallbackEscalated
<1>1. ASSUME IInv PROVE CallbackEscalated
  <2>1. ASSUME NEW item \in stored, item.kind = "callback"
        PROVE  \E case \in Written : case.kind = "escalation" /\ case.n < item.n
    <3>1. PICK e \in Items : e.kind = "escalation" /\ e.n < item.n
      BY <1>1, <2>1, WrittenBefore DEF Founded
    <3> QED BY <1>1, <3>1, WrittenBefore
  <2> QED BY <2>1 DEF CallbackEscalated, Written
<1>2. IInv => CallbackEscalated BY <1>1
<1> QED BY <1>2, SessionInvariant, PTL

\* What was confirmed to the caller has been handed to the writer.
THEOREM ConfirmedCallbackIsScheduled == Spec => []ConfirmedIsScheduled
<1>1. ASSUME IInv PROVE ConfirmedIsScheduled
  <2>1. texts \subseteq Notice BY <1>1 DEF IInv, SessionInv, TypeOK
  <2>2. Items \subseteq Made BY DEF Items
  <2>3. ASSUME NEW n \in texts
        PROVE  \/ floor = "confirming" /\ callback = n
               \/ \E x \in Items : x.kind = "callback" /\ x.value = n
    BY <1>1, <2>1 DEF IInv, SessionInv, NoticeInv
  <2> QED BY <2>2, <2>3 DEF ConfirmedIsScheduled
<1>2. IInv => ConfirmedIsScheduled BY <1>1
<1> QED BY <1>2, SessionInvariant, PTL
-----------------------------------------------------------------------------
\* The journal.  What it calls taken is the t of QueueInv.
Taken == count - Queued

TakenIs ==
    /\ count \in Nat /\ Taken \in 0..count
    /\ \A n : n \in 1..Taken <=> \/ thread # Idle /\ thread.n = n
                                 \/ \E x \in Written : x.n = n
    /\ thread # Idle => thread.n = Taken /\ Taken > 0 /\ \A x \in Written : x.n # Taken
    /\ \A i \in 1..Len(queue) : i = 1 /\ queue[i] # SENTINEL => queue[i].n = Taken + 1

\* The shape of the queue tells how many it holds.
LEMMA TakenIsT == WriterInv => TakenIs
<1> SUFFICES ASSUME WriterInv PROVE TakenIs OBVIOUS
<1>1. PICK p \in 1..Len(queue) + 1, t \in 0..count : QueueShape(p, t) /\ TakenItems(t)
  BY DEF WriterInv, QueueInv
<1>2. /\ WriterTypeOK /\ Len(queue) \in Nat /\ DOMAIN queue = 1..Len(queue)
      /\ count \in Nat /\ t \in Nat /\ p \in Nat /\ p >= 1
  <2>1. WriterTypeOK BY DEF WriterInv
  <2>2. Pieces BY <2>1, ItemsAre
  <2> QED BY <2>1, <2>2 DEF Pieces, WriterTypeOK
<1>3. Queued = count - t
  <2>1. {i \in DOMAIN queue : queue[i] # SENTINEL} = (1..Len(queue)) \ {p}
    BY <1>1, <1>2, MarksAreNoItems DEF QueueShape
  <2>2. IsFiniteSet(1..Len(queue)) /\ Cardinality(1..Len(queue)) = Len(queue)
    <3>1. 1 \in Int /\ Len(queue) \in Int BY <1>2
    <3>2. /\ IsFiniteSet(1..Len(queue))
          /\ Cardinality(1..Len(queue)) = IF 1 > Len(queue) THEN 0 ELSE Len(queue) - 1 + 1
      BY <3>1, FS_Interval
    <3> QED BY <1>2, <3>2
  <2>3. Len(queue) = count - t + (IF p > Len(queue) THEN 0 ELSE 1) BY <1>1 DEF QueueShape
  <2>4. Queued = Cardinality((1..Len(queue)) \ {p}) BY <2>1 DEF Queued
  <2>5. CASE p > Len(queue)
    <3>1. (1..Len(queue)) \ {p} = 1..Len(queue) BY <1>2, <2>5
    <3>2. Len(queue) = count - t + 0 BY <2>3, <2>5
    <3>3. Queued = Len(queue) BY <2>2, <2>4, <3>1
    <3> QED BY <1>2, <3>2, <3>3
  <2>6. CASE ~(p > Len(queue))
    <3>1. Cardinality((1..Len(queue)) \ {p}) = Len(queue) - 1
      <4>1. p \in 1..Len(queue) BY <1>2, <2>6
      <4> QED BY <2>2, <4>1, FS_RemoveElement
    <3>2. Len(queue) = count - t + 1 BY <2>3, <2>6
    <3> QED BY <1>2, <2>4, <3>1, <3>2
  <2> QED BY <2>5, <2>6
<1>4. Taken = t BY <1>2, <1>3 DEF Taken
<1>5. \A n : n \in 1..t <=> \/ thread # Idle /\ thread.n = n
                            \/ \E x \in Written : x.n = n
  <2>1. thread # Idle => thread.n \in 1..t BY <1>1, <1>2 DEF TakenItems
  <2> QED BY <1>1, <2>1 DEF TakenItems
<1>6. thread # Idle => thread.n = t /\ t > 0 /\ \A x \in Written : x.n # t
  BY <1>1 DEF TakenItems
<1>7. ASSUME NEW i \in 1..Len(queue), i = 1, queue[i] # SENTINEL PROVE queue[i].n = t + 1
  <2>1. i # p BY <1>1, <1>7 DEF QueueShape
  <2>2. i < p BY <1>2, <1>7, <2>1
  <2> QED BY <1>1, <1>7, <2>1, <2>2 DEF QueueShape
<1> QED BY <1>2, <1>4, <1>5, <1>6, <1>7 DEF TakenIs

\* As long as the same numbers are at the thread or written, nothing is taken.
LEMMA TakenStays ==
  ASSUME TakenIs, TakenIs',
         \A n : (thread # Idle /\ thread.n = n) \/ (\E x \in Written : x.n = n) <=>
                (thread' # Idle /\ thread'.n = n) \/ (\E x \in Written' : x.n = n)
  PROVE  Taken' = Taken
<1>1. \A n : n \in 1..Taken' <=> n \in 1..Taken BY DEF TakenIs
<1>2. Taken \in Nat /\ Taken' \in Nat BY DEF TakenIs
<1>3. Taken > 0 => Taken \in 1..Taken' BY <1>1, <1>2
<1>4. Taken' > 0 => Taken' \in 1..Taken BY <1>1, <1>2
<1> QED BY <1>2, <1>3, <1>4

\* A step of the session makes no, one or two items and leaves the writer alone.
LEMMA ConversationMakes ==
  ASSUME IInv, Conversation
  PROVE  /\ count' \in {count, count + 1, count + 2}
         /\ UNCHANGED <<thread, stored, dropped>>
<1>0. count \in Nat /\ WriterInv BY DEF IInv, WriterInv, WriterTypeOK
<1>1. CASE \E decision \in Decision : RecordConsent(decision)
  <2>1. PICK decision \in Decision : RecordConsent(decision) BY <1>1
  <2>2. PICK x \in Item : x = NewItem(1, "consent", decision) /\ x.n = count + 1
    BY <1>0, NewItemFacts DEF Kind, Value
  <2>3. Record(<<x>>) BY <2>1, <2>2 DEF RecordConsent
  <2> QED BY <1>0, <2>2, <2>3, RecordOne DEF WriterRests, databaseVars
<1>2. CASE \E label \in Label : UserTurn(label)
  <2>1. PICK label \in Label : UserTurn(label) BY <1>2
  <2>2. PICK x \in Item : x = NewItem(1, "turn", "none") /\ x.n = count + 1
    BY <1>0, NewItemFacts DEF Kind, Value
  <2>3. PICK y \in Item : y = NewItem(2, "sentiment", label) /\ y.n = count + 2
    BY <1>0, NewItemFacts DEF Kind, Value
  <2>4. Record(<<x, y>>) BY <2>1, <2>2, <2>3 DEF UserTurn
  <2> QED BY <1>0, <2>2, <2>3, <2>4, RecordTwo DEF WriterRests, databaseVars
<1>3. CASE EscalateToManager
  <2>1. TriggerFor \in Value BY DEF Value, TriggerFor, Trigger
  <2>2. PICK x \in Item : x = NewItem(1, "escalation", TriggerFor) /\ x.n = count + 1
    BY <1>0, <2>1, NewItemFacts DEF Kind
  <2>3. Record(<<x>>) BY <1>3, <2>2 DEF EscalateToManager
  <2> QED BY <1>0, <2>2, <2>3, RecordOne DEF WriterRests, databaseVars
<1>4. CASE \E n \in Notice : Schedule(n)
  <2>1. PICK n \in Notice : Schedule(n) BY <1>4
  <2>2. PICK x \in Item : x = NewItem(1, "callback", n) /\ x.n = count + 1
    BY <1>0, NewItemFacts, SessionAssumption DEF Kind, Value
  <2>3. Record(<<x>>) BY <2>1, <2>2 DEF Schedule
  <2> QED BY <1>0, <2>2, <2>3, RecordOne DEF WriterRests, databaseVars
<1>5. CASE HangUp
  <2>1. PICK consent : consent = recording_consent OBVIOUS
  <2>2. consent \in Decision \cup {"unknown"} BY <2>1 DEF IInv, SessionInv, TypeOK
  <2>3. FinishConversation(consent) BY <1>5, <2>1 DEF HangUp, FinishConversation
  <2> QED BY <1>0, <2>2, <2>3, FinishStep DEF databaseVars
<1>6. CASE \/ Route \/ TransferToHuman \/ Transferred \/ OfferCallback \/ DeclineCallback
           \/ \E n \in Notice : AskConfirmation(n)
  <2>1. UNCHANGED writerVars
    BY <1>6 DEF Route, TransferToHuman, Transferred, OfferCallback, DeclineCallback,
                AskConfirmation
  <2> QED BY <2>1 DEF writerVars, databaseVars
<1> QED BY <1>1, <1>2, <1>3, <1>4, <1>5, <1>6 DEF Conversation

\* What the record stores, the journal has stored by number.
LEMMA JournalStep ==
  ASSUME IInv, IInv', [Next]_vars
  PROVE  [Journal!Next]_(Journal!vars)
<1> DEFINE numbers == {item.n : item \in stored}
<1>0. TakenIs /\ TakenIs'
  <2>1. WriterInv /\ WriterInv' BY DEF IInv
  <2> QED BY <2>1, TakenIsT, PTL
<1>1. CASE Conversation
  <2>1. /\ count' \in {count, count + 1, count + 2}
        /\ UNCHANGED <<thread, stored, dropped>>
    BY <1>1, ConversationMakes
  <2>2. Written' = Written BY <2>1 DEF Written
  <2>3. Taken' = Taken BY <1>0, <2>1, <2>2, TakenStays
  <2>4. numbers' = numbers BY <2>1
  <2>5. CASE count' = count BY <2>3, <2>4, <2>5 DEF Journal!vars, Taken
  <2>6. CASE count' \in {count + 1, count + 2}
    <3>1. \E k \in 1..2 : count' = count + k BY <2>6
    <3> QED BY <2>3, <2>4, <3>1 DEF Journal!Next, Journal!Make, Taken
  <2> QED BY <2>1, <2>5, <2>6
<1>2. CASE Take
  <2>1. /\ queue # <<>> /\ Head(queue) # SENTINEL /\ thread' = Head(queue)
        /\ UNCHANGED <<count, stored>>
    BY <1>2 DEF Take, databaseVars
  <2>2. queue \in Seq(Entry) /\ DOMAIN queue = 1..Len(queue)
    <3>1. WriterTypeOK BY DEF IInv, WriterInv
    <3> QED BY <3>1, ItemsAre DEF Pieces
  <2>3. 1 \in 1..Len(queue) /\ Head(queue) = queue[1] BY <2>1, <2>2, Shorter
  <2>4. thread'.n = Taken + 1 /\ thread' # Idle
    <3>1. thread'.n = Taken + 1 BY <1>0, <2>1, <2>3 DEF TakenIs
    <3>2. queue[1] \in Item BY <2>1, <2>2, <2>3, ElementOfSeq DEF Entry
    <3> QED BY <2>1, <2>3, <3>1, <3>2, MarksAreNoItems
  <2>5. Taken' = Taken + 1 /\ Taken < count
    BY <1>0, <2>1, <2>4 DEF TakenIs
  <2>6. numbers' = numbers BY <2>1
  <2> QED BY <2>1, <2>5, <2>6 DEF Journal!Next, Journal!Take, Taken
<1>3. CASE WriteCommits
  <2>1. /\ thread # Idle /\ thread' = Idle /\ count' = count
        /\ stored' = stored \cup {thread} /\ Written' = Written \cup {thread}
    <3>1. UnitInv BY DEF IInv, WriterInv, ConsentInv
    <3> QED BY <1>3, <3>1 DEF UnitInv, WriteCommits, ThreadEnds, Written
  <2>2. Taken' = Taken BY <1>0, <2>1, TakenStays
  <2>3. thread.n = Taken /\ Taken > 0 /\ \A x \in stored : x.n # Taken
    BY <1>0, <2>1 DEF TakenIs, Written
  <2>4. numbers' = numbers \cup {Taken} BY <2>1, <2>3
  <2>5. Taken \notin numbers BY <2>3
  <2> QED BY <2>1, <2>2, <2>3, <2>4, <2>5 DEF Journal!Next, Journal!Store, Taken
<1>4. CASE WriteFails
  <2>1. /\ thread # Idle /\ thread' = Idle /\ count' = count
        /\ stored' = stored /\ Written' = Written \cup {thread}
    BY <1>4 DEF WriteFails, ThreadEnds, Written
  <2>2. Taken' = Taken BY <1>0, <2>1, TakenStays
  <2>3. numbers' = numbers BY <2>1
  <2> QED BY <2>1, <2>2, <2>3 DEF Journal!vars, Taken
<1>5. CASE UNCHANGED <<count, thread, stored, dropped>>
  <2>1. Written' = Written BY <1>5 DEF Written
  <2>2. Taken' = Taken BY <1>0, <1>5, <2>1, TakenStays
  <2>3. numbers' = numbers BY <1>5
  <2> QED BY <1>5, <2>2, <2>3 DEF Journal!vars, Taken
<1>6. CASE \/ TakeSentinel \/ FlushConsent \/ AppendConsent
           \/ CloseReturns \/ CloseTimesOut \/ UNCHANGED writerVars
  <2>1. UNCHANGED <<count, thread, stored, dropped>>
    BY <1>6 DEF TakeSentinel, FlushConsent, AppendConsent, CloseReturns, CloseTimesOut,
                databaseVars, writerVars
  <2> QED BY <1>5, <2>1
<1>7. CASE \E n \in Notice : NotificationStep(n) /\ UNCHANGED <<writerVars, sessionVars>>
  BY <1>6, <1>7
<1>8. CASE UNCHANGED vars BY <1>6, <1>8 DEF vars
<1> QED
  BY <1>1, <1>2, <1>3, <1>4, <1>6, <1>7, <1>8 DEF Next, Aside, WriterStep, Drain

\* The writer keeps what a call's record promises: entries are taken in order,
\* one by one, and each is stored before the next is taken, or never.
THEOREM WriterImplementsJournal == Spec => ImplementsJournal
<1>1. Init => Journal!Init
  <2> SUFFICES ASSUME Init PROVE Journal!Init OBVIOUS
  <2>1. WriterInv BY InitEstablishesIInv DEF IInv
  <2>2. TakenIs BY <2>1, TakenIsT
  <2>3. count = 1 /\ stored = {} /\ Written = {} /\ thread = Idle
    BY DEF Init, WriterInit, Written
  <2>4. Taken \in Nat /\ ~(Taken > 0)
    <3>1. Taken \in Nat BY <2>2 DEF TakenIs
    <3>2. \A n : n \notin 1..Taken BY <2>2, <2>3 DEF TakenIs
    <3> QED BY <3>1, <3>2
  <2>5. count - Queued = 0 BY <2>4 DEF Taken
  <2>6. {item.n : item \in stored} = {} BY <2>3
  <2> QED BY <2>3, <2>5, <2>6 DEF Journal!Init
<1>2. IInv /\ IInv' /\ [Next]_vars => [Journal!Next]_(Journal!vars) BY JournalStep
<1> QED BY <1>1, <1>2, SessionInvariant, PTL DEF Spec, ImplementsJournal, Journal!Spec
===============================================================================
