--------------------------- MODULE TicketingProofs ---------------------------
(***************************************************************************)
(* The ticket desk's safety, for any calls, customers and restarts.        *)
(*                                                                         *)
(* DeskInv holds whatever is behind the connector.  KeptInv needs a GLPI   *)
(* that never forgets a ticket: a live one, or a mock whose server is not  *)
(* restarted.  Then an id stands for one ticket for ever, and a ticket that*)
(* was resolved, reopened or deleted never again counts as unresolved:     *)
(* "new", the one status that refutes a "resolved", is left for good.  So  *)
(* what was said of a ticket, in the mirror, between two awaits or in an   *)
(* answer, cannot become false: that is KeptInv, place by place.           *)
(***************************************************************************)
EXTENDS Ticketing, TLAPS

PC == {"idle", "mirror_create", "confirmation", "status_fallback", "mirror_resolve",
       "mirror_resolve_unknown", "read_status", "lookup_fallback", "returned"}

ArgsType == [customer : Customer \cup {None}, id : Nat]

\* A call's arguments are set once, and it answers once.
CallInv ==
    /\ pc \in [Call -> PC]
    /\ args \in [Call -> ArgsType]
    /\ \A c \in Call :
          /\ pc[c] \in {"mirror_create", "confirmation"} => args[c].customer \in Customer
          /\ pc[c] # "returned" => answer[c] = Nothing

\* The service has answered for a message only after it has left.
NoticeInv ==
    /\ notice \in [Notice -> {"none", "sending", "sent", "answered", "failed"}]
    /\ \A n \in Notice : notice[n] \in {"sent", "answered"} => n \in texts

DeskInv == TypeOK /\ CallInv /\ NoticeInv /\ ConfirmationsLeft
-----------------------------------------------------------------------------
\* GLPI never forgets a ticket; it may delete it.
NothingLost == CONNECTOR_MODE = "live" \/ MaxRestarts = 0

\* An id is given out once.
IdInv ==
    /\ \A r \in tickets : r.id \in 1..counter
    /\ \A r, s \in tickets : r.id = s.id => r = s

\* No ticket has the id, or one that was solved or deleted.
Settled(id) == id = WRONG_ID \/ \E truth \in tickets : truth.id = id /\ truth.status # "new"

\* What a call that gave way relies on when it goes on.
AwaitInv ==
    \A c \in Call :
        /\ pc[c] \in {"mirror_create", "confirmation"} =>
              \E truth \in tickets :
                  /\ truth.id = args[c].id
                  /\ truth.ticket = c /\ truth.customer = args[c].customer
        /\ pc[c] \in {"mirror_resolve", "mirror_resolve_unknown", "read_status"} =>
              Settled(args[c].id)

\* What the callers were told, the reference of a new ticket included.
AnswerInv ==
    /\ AnswersFollowGlpi
    /\ \A c \in Call : answer[c].kind = "created" => TrueOf(answer[c].id, c, "new")

KeptInv == IdInv /\ MirrorFollowsGlpi /\ AwaitInv /\ AnswerInv
-----------------------------------------------------------------------------
\* What is in an answer of each kind.
LEMMA AnswerFields ==
  /\ Nothing.kind = "nothing" /\ Raised.kind = "raised" /\ NotFound.kind = "not found"
  /\ \A id, confirmed : /\ Created(id, confirmed).kind = "created"
                        /\ Created(id, confirmed).id = id
                        /\ Created(id, confirmed).confirmed = confirmed
  /\ \A id, ticket, status : /\ Found(id, ticket, status).kind = "found"
                             /\ Found(id, ticket, status).id = id
                             /\ Found(id, ticket, status).ticket = ticket
                             /\ Found(id, ticket, status).status = status
  /\ \A rows : Listed(rows).kind = "listed" /\ Listed(rows).rows = rows
  BY DEF Nothing, Raised, NotFound, Created, Found, Listed

\* Marking changes nothing but the status of the rows with the id.
LEMMA MarkedRows ==
  ASSUME NEW rows \in SUBSET Rows, NEW id, NEW status \in Status
  PROVE  /\ Marked(rows, id, status) \subseteq Rows
         /\ \A row \in rows : \E new \in Marked(rows, id, status) :
               /\ new.id = row.id /\ new.ticket = row.ticket /\ new.customer = row.customer
               /\ new.status = IF row.id = id THEN status ELSE row.status
         /\ \A new \in Marked(rows, id, status) : \E row \in rows :
               /\ new.id = row.id /\ new.ticket = row.ticket /\ new.customer = row.customer
               /\ new = row \/ new.id = id
<1> DEFINE Made(row) == IF row.id = id THEN [row EXCEPT !.status = status] ELSE row
<1>1. ASSUME NEW row \in rows
      PROVE  /\ Made(row) \in Rows
             /\ Made(row).id = row.id /\ Made(row).ticket = row.ticket
             /\ Made(row).customer = row.customer
             /\ row.id = id => Made(row).status = status
             /\ row.id # id => Made(row) = row
  <2>1. CASE row.id = id
    <3>1. Made(row) = [id |-> row.id, ticket |-> row.ticket, customer |-> row.customer,
                       status |-> status]
      BY <2>1 DEF Rows
    <3> QED BY <3>1, <2>1 DEF Rows
  <2>2. CASE row.id # id BY <2>2
  <2> QED BY <2>1, <2>2
<1>2. Marked(rows, id, status) = {Made(row) : row \in rows} BY DEF Marked
<1> HIDE DEF Made
<1>3. ASSUME NEW row \in rows
      PROVE  /\ Made(row) \in Marked(rows, id, status)
             /\ Made(row).status = IF row.id = id THEN status ELSE row.status
  BY <1>1, <1>2
<1> QED BY <1>1, <1>2, <1>3

\* Marking keeps ids unique.
LEMMA MarkedUnique ==
  ASSUME NEW rows \in SUBSET Rows, NEW id, NEW status \in Status,
         \A r, s \in rows : r.id = s.id => r = s
  PROVE  \A r, s \in Marked(rows, id, status) : r.id = s.id => r = s
<1>1. ASSUME NEW r \in Marked(rows, id, status), NEW s \in Marked(rows, id, status), r.id = s.id
      PROVE  r = s
  <2>1. PICK p \in rows : r = IF p.id = id THEN [p EXCEPT !.status = status] ELSE p
    BY DEF Marked
  <2>2. PICK q \in rows : s = IF q.id = id THEN [q EXCEPT !.status = status] ELSE q
    BY DEF Marked
  <2>3. r.id = p.id /\ s.id = q.id BY <2>1, <2>2 DEF Rows
  <2> QED BY <1>1, <2>1, <2>2, <2>3
<1> QED BY <1>1

\* What a step of an advisor, or of resolve_ticket, makes of GLPI's tickets.
GlpiMarks ==
    \E id : \E status \in Status \ {"new"} : tickets' = Marked(tickets, id, status)

\* The two of them leave behind no ticket as if it had never been solved.
LEMMA GlpiMoves ==
  /\ \A c \in Call : ResolveTicket(c) => UNCHANGED tickets \/ GlpiMarks
  /\ AdvisorWorks => GlpiMarks
<1>1. /\ "resolved" \in Status \ {"new"} /\ "reopened" \in Status \ {"new"}
      /\ "deleted" \in Status \ {"new"}
  BY DEF Status
<1> QED BY <1>1 DEF ResolveTicket, AdvisorWorks, GlpiMarks, Resolved

-----------------------------------------------------------------------------
\* The model's two ways to move a call on, and the one to note its arguments.
LEMMA AwaitMoves ==
  ASSUME pc \in [Call -> PC], NEW c \in Call, NEW what \in PC, Await(c, what)
  PROVE  pc' \in [Call -> PC] /\ pc'[c] = what /\ \A d \in Call : d # c => pc'[d] = pc[d]
  BY DEF Await

\* A call returns with its answer.
LEMMA ReturnMoves ==
  ASSUME pc \in [Call -> PC], DOMAIN answer = Call, NEW c \in Call, NEW result, Return(c, result)
  PROVE  /\ pc' \in [Call -> PC] /\ DOMAIN answer' = Call
         /\ pc'[c] = "returned" /\ answer'[c] = result
         /\ \A d \in Call : d # c => pc'[d] = pc[d] /\ answer'[d] = answer[d]
<1>1. "returned" \in PC BY DEF PC
<1> QED BY <1>1 DEF Return

\* A call notes what it was called with.
LEMMA ArgsNoted ==
  ASSUME args \in [Call -> ArgsType], NEW c \in Call,
         NEW customer \in Customer \cup {None}, NEW id \in Nat,
         args' = [args EXCEPT ![c] = [customer |-> customer, id |-> id]]
  PROVE  /\ args' \in [Call -> ArgsType]
         /\ args'[c].customer = customer /\ args'[c].id = id
         /\ \A d \in Call : d # c => args'[d] = args[d]
  BY DEF ArgsType

\* Before the first call nothing is claimed.
LEMMA InitDesk == Init => DeskInv
<1> SUFFICES ASSUME Init PROVE DeskInv OBVIOUS
<1>0. /\ tickets = {} /\ counter = 0 /\ mirror = {} /\ restarts = 0 /\ texts = {} /\ log = {}
      /\ pc = [c \in Call |-> "idle"] /\ answer = [c \in Call |-> Nothing]
      /\ args = [c \in Call |-> [customer |-> None, id |-> WRONG_ID]]
      /\ notice = [n \in Notice |-> "none"]
  BY DEF Init, NotificationInit
<1>1. TypeOK
  <2>1. restarts \in 0..MaxRestarts /\ counter \in Nat BY <1>0, TicketingAssumption
  <2> QED BY <1>0, <2>1, Zenon DEF TypeOK
<1>2. CallInv BY <1>0 DEF CallInv, PC, ArgsType, WRONG_ID
<1>3. \A c \in Call : answer[c].kind = "nothing" BY <1>0 DEF Nothing
<1>5. NoticeInv BY <1>0, TicketingAssumption DEF NoticeInv
<1>6. ConfirmationsLeft BY <1>0, <1>3 DEF ConfirmationsLeft
<1> QED BY <1>1, <1>2, <1>5, <1>6 DEF DeskInv

\* Whatever ticket a caller names has a number.
LEMMA QuotedAreNumbers ==
  ASSUME TypeOK
  PROVE  \A id \in QuotedIds : id \in Nat
<1>1. \A row \in tickets \cup mirror : row.id \in Nat BY DEF TypeOK, Rows
<1> QED BY <1>1 DEF QuotedIds, WRONG_ID

\* What a step of one call does to that call, and to no other: a call that has
\* begun keeps its arguments, one that has answered its answer.
OneCallMoves(c) ==
    /\ pc' \in [Call -> PC] /\ args' \in [Call -> ArgsType] /\ DOMAIN answer' = Call
    /\ pc[c] # "returned" /\ pc'[c] # "idle" /\ (pc[c] # "idle" => args'[c] = args[c])
    /\ pc'[c] # "returned" => answer'[c] = answer[c]
    /\ pc'[c] \in {"mirror_create", "confirmation"} => args'[c].customer \in Customer
    /\ \A d \in Call : d # c => pc'[d] = pc[d] /\ args'[d] = args[d] /\ answer'[d] = answer[d]

Typed == pc \in [Call -> PC] /\ args \in [Call -> ArgsType] /\ DOMAIN answer = Call

\* The shapes of a call's steps: it begins, it goes on, it answers.
LEMMA CallBegins ==
  ASSUME Typed, NEW c \in Call, pc[c] = "idle",
         NEW customer \in Customer \cup {None}, NEW id \in Nat,
         args' = [args EXCEPT ![c] = [customer |-> customer, id |-> id]],
         \/ \E what \in PC : /\ Await(c, what) /\ UNCHANGED answer /\ what # "idle"
                             /\ what \in {"mirror_create", "confirmation"} => customer \in Customer
         \/ \E result : Return(c, result)
  PROVE  OneCallMoves(c)
<1>0. Typed OBVIOUS
<1>1. /\ args' \in [Call -> ArgsType] /\ args'[c].customer = customer
      /\ \A d \in Call : d # c => args'[d] = args[d]
  BY <1>0, ArgsNoted DEF Typed
<1>2. CASE \E what \in PC : /\ Await(c, what) /\ UNCHANGED answer /\ what # "idle"
                            /\ what \in {"mirror_create", "confirmation"} => customer \in Customer
  <2>1. PICK what \in PC : /\ Await(c, what) /\ UNCHANGED answer /\ what # "idle"
                           /\ what \in {"mirror_create", "confirmation"} => customer \in Customer
    BY <1>2
  <2>2. /\ pc' \in [Call -> PC] /\ pc'[c] = what /\ \A d \in Call : d # c => pc'[d] = pc[d]
    BY <1>0, <2>1, AwaitMoves DEF Typed
  <2> QED BY <1>0, <1>1, <2>1, <2>2 DEF Typed, OneCallMoves
<1>3. CASE \E result : Return(c, result)
  <2>1. /\ pc' \in [Call -> PC] /\ DOMAIN answer' = Call /\ pc'[c] = "returned"
        /\ \A d \in Call : d # c => pc'[d] = pc[d] /\ answer'[d] = answer[d]
    BY <1>0, <1>3, ReturnMoves DEF Typed
  <2> QED BY <1>0, <1>1, <2>1 DEF Typed, OneCallMoves
<1> QED BY <1>2, <1>3

\* A call goes on to its next await.
LEMMA CallGoesOn ==
  ASSUME Typed, NEW c \in Call, pc[c] # "returned", UNCHANGED <<args, answer>>,
         NEW what \in PC, what # "idle", Await(c, what),
         what \in {"mirror_create", "confirmation"} => args[c].customer \in Customer
  PROVE  OneCallMoves(c)
  BY AwaitMoves DEF Typed, OneCallMoves

\* A call that has begun answers.
LEMMA CallAnswers ==
  ASSUME Typed, NEW c \in Call, pc[c] # "returned", UNCHANGED args,
         NEW result, Return(c, result)
  PROVE  OneCallMoves(c)
  BY ReturnMoves DEF Typed, OneCallMoves

\* Every step of the tools has one of these shapes.
LEMMA ToolStepMoves ==
  ASSUME DeskInv, NEW c \in Call, ToolStep(c)
  PROVE  OneCallMoves(c)
<1>0. /\ Typed /\ counter + 1 \in Nat /\ WRONG_ID \in Nat /\ \A id \in QuotedIds : id \in Nat
      /\ pc[c] \in {"mirror_create", "confirmation"} => args[c].customer \in Customer
  BY QuotedAreNumbers DEF DeskInv, TypeOK, CallInv, Typed, WRONG_ID
<1>1. CASE CreateTicket(c)
  <2>1. PICK customer \in Customer :
           /\ args' = [args EXCEPT ![c] = [customer |-> customer, id |-> counter + 1]]
           /\ \/ Await(c, "mirror_create") /\ UNCHANGED answer
              \/ Return(c, Raised)
    BY <1>1 DEF CreateTicket
  <2>2. pc[c] = "idle" /\ "mirror_create" \in PC BY <1>1 DEF CreateTicket, PC
  <2> QED BY <1>0, <2>1, <2>2, CallBegins
<1>2. CASE MirrorCreate(c)
  <2>1. /\ pc[c] = "mirror_create" /\ Await(c, "confirmation") /\ UNCHANGED <<args, answer>>
        /\ "confirmation" \in PC
    BY <1>2 DEF MirrorCreate, PC
  <2> QED BY <1>0, <2>1, CallGoesOn
<1>3. CASE AskConfirmation(c)
  <2>1. CASE UNCHANGED <<pc, answer, args>>
    BY <1>0, <1>3, <2>1 DEF AskConfirmation, Typed, OneCallMoves
  <2>2. CASE Return(c, Created(args[c].id, FALSE)) /\ UNCHANGED args
    <3>1. pc[c] # "returned" BY <1>3 DEF AskConfirmation
    <3> QED BY <1>0, <2>2, <3>1, CallAnswers
  <2> QED BY <1>3, <2>1, <2>2 DEF AskConfirmation
<1>4. CASE Confirm(c) \/ ConfirmTimesOut(c)
  <2>1. pc[c] # "returned" /\ UNCHANGED args /\ \E result : Return(c, result)
    BY <1>4 DEF Confirm, ConfirmTimesOut
  <2> QED BY <1>0, <2>1, CallAnswers
<1>5. CASE GetTicketStatus(c)
  <2>1. PICK id \in QuotedIds :
           /\ args' = [args EXCEPT ![c] = [customer |-> None, id |-> id]]
           /\ \/ \E result : Return(c, result)
              \/ Await(c, "status_fallback") /\ UNCHANGED answer
    BY <1>5 DEF GetTicketStatus
  <2>2. pc[c] = "idle" /\ "status_fallback" \in PC BY <1>5 DEF GetTicketStatus, PC
  <2> QED BY <1>0, <2>1, <2>2, CallBegins
<1>6. CASE StatusFallback(c)
  <2>1. pc[c] # "returned" /\ UNCHANGED args /\ \E result : Return(c, result)
    BY <1>6 DEF StatusFallback
  <2> QED BY <1>0, <2>1, CallAnswers
<1>7. CASE ResolveTicket(c)
  <2>1. PICK id \in QuotedIds :
           /\ args' = [args EXCEPT ![c] = [customer |-> None, id |-> id]]
           /\ \/ Await(c, "mirror_resolve") /\ UNCHANGED answer
              \/ Await(c, "mirror_resolve_unknown") /\ UNCHANGED answer
              \/ Return(c, Raised)
    BY <1>7 DEF ResolveTicket
  <2>2. pc[c] = "idle" /\ "mirror_resolve" \in PC /\ "mirror_resolve_unknown" \in PC
    BY <1>7 DEF ResolveTicket, PC
  <2> QED BY <1>0, <2>1, <2>2, CallBegins
<1>8. CASE MirrorResolve(c)
  <2>1. /\ pc[c] \notin {"returned", "idle"} /\ UNCHANGED args /\ "read_status" \in PC
        /\ \/ \E result : Return(c, result)
           \/ Await(c, "read_status") /\ UNCHANGED answer
    BY <1>8 DEF MirrorResolve, PC
  <2> QED BY <1>0, <2>1, CallAnswers, CallGoesOn
<1>9. CASE ReadStatus(c)
  <2>1. pc[c] # "returned" /\ UNCHANGED args /\ \E result : Return(c, result)
    BY <1>9 DEF ReadStatus
  <2> QED BY <1>0, <2>1, CallAnswers
<1>10. CASE LookupTickets(c)
  <2>1. PICK customer \in Customer :
           /\ args' = [args EXCEPT ![c] = [customer |-> customer, id |-> WRONG_ID]]
           /\ \/ \E result : Return(c, result)
              \/ Await(c, "lookup_fallback") /\ UNCHANGED answer
    BY <1>10 DEF LookupTickets
  <2>2. pc[c] = "idle" /\ "lookup_fallback" \in PC BY <1>10 DEF LookupTickets, PC
  <2> QED BY <1>0, <2>1, <2>2, CallBegins
<1>11. CASE LookupFallback(c)
  <2>1. pc[c] # "returned" /\ UNCHANGED args /\ \E result : Return(c, result)
    BY <1>11 DEF LookupFallback
  <2> QED BY <1>0, <2>1, CallAnswers
<1> QED BY <1>1, <1>2, <1>3, <1>4, <1>5, <1>6, <1>7, <1>8, <1>9, <1>10, <1>11 DEF ToolStep
-----------------------------------------------------------------------------
\* Over any step, a call that has begun keeps its arguments, and one that has
\* answered its answer.
LEMMA CallsKeep ==
  ASSUME DeskInv, [Next]_vars
  PROVE  /\ Typed' /\ CallInv'
         /\ \A c \in Call : /\ pc[c] # "idle" => pc'[c] # "idle" /\ args'[c] = args[c]
                            /\ pc[c] = "returned" => pc'[c] = "returned" /\ answer'[c] = answer[c]
<1> DEFINE Kept == \A c \in Call :
               /\ pc[c] # "idle" => pc'[c] # "idle" /\ args'[c] = args[c]
               /\ pc[c] = "returned" => pc'[c] = "returned" /\ answer'[c] = answer[c]
<1>0. Typed /\ CallInv BY DEF DeskInv, TypeOK, CallInv, Typed
<1>1. ASSUME NEW c \in Call, ToolStep(c) PROVE Typed' /\ CallInv' /\ Kept
  <2>1. OneCallMoves(c) BY <1>1, ToolStepMoves
  <2>2. Typed' BY <2>1 DEF OneCallMoves, Typed
  <2>3. Kept BY <2>1 DEF OneCallMoves
  <2>4. CallInv' BY <1>0, <2>1 DEF OneCallMoves, CallInv
  <2> QED BY <2>2, <2>3, <2>4
<1>2. CASE Restart
  <2>1. pc' = [c \in Call |-> IF pc[c] = "idle" THEN "idle" ELSE "returned"] /\ UNCHANGED <<args, answer>>
    BY <1>2 DEF Restart
  <2>2. \A c \in Call : /\ pc'[c] \in {"idle", "returned"}
                        /\ pc'[c] = "idle" => pc[c] = "idle"
                        /\ pc[c] = "idle" => pc'[c] = "idle"
    BY <2>1
  <2>3. "idle" \in PC /\ "returned" \in PC BY DEF PC
  <2>4. pc' \in [Call -> PC] BY <2>1, <2>3
  <2>5. Typed' /\ Kept BY <1>0, <2>1, <2>2, <2>4 DEF Typed
  <2>6. CallInv' BY <1>0, <2>1, <2>2, <2>4 DEF CallInv
  <2> QED BY <2>5, <2>6
<1>3. CASE UNCHANGED <<pc, args, answer>>
  BY <1>0, <1>3 DEF Typed, CallInv
<1> QED BY <1>1, <1>2, <1>3 DEF Next, vars, deskVars, AdvisorWorks

\* What a step does to GLPI's tickets, to the mirror and to the counters.
LEMMA StoresMove ==
  ASSUME DeskInv, [Next]_vars
  PROVE  /\ tickets' \subseteq Rows /\ mirror' \subseteq Rows
         /\ \A r, s \in mirror' : r.id = s.id => r = s
         /\ counter' \in Nat /\ restarts' \in 0..MaxRestarts
<1>0. /\ tickets \in SUBSET Rows /\ mirror \in SUBSET Rows
      /\ \A r, s \in mirror : r.id = s.id => r = s
      /\ counter \in Nat /\ restarts \in 0..MaxRestarts /\ MaxRestarts \in Nat
      /\ pc \in [Call -> PC] /\ args \in [Call -> ArgsType] /\ CallInv
      /\ counter + 1 \in Nat /\ restarts + 1 \in Nat
      /\ "new" \in Status /\ "open" \in Status /\ "resolved" \in Status
  BY TicketingAssumption DEF DeskInv, TypeOK, CallInv, Status
<1>1. ASSUME NEW c \in Call, CreateTicket(c)
      PROVE  tickets' \subseteq Rows /\ counter' \in Nat
  <2>1. PICK customer \in Customer :
           \/ UNCHANGED <<tickets, counter>>
           \/ /\ tickets' = tickets \cup {NewTicket(c, customer, counter + 1)}
              /\ counter' = counter + 1
    BY <1>1 DEF CreateTicket
  <2>2. NewTicket(c, customer, counter + 1) \in Rows BY <1>0 DEF NewTicket, Rows
  <2> QED BY <1>0, <2>1, <2>2
<1>2. ASSUME NEW c \in Call, MirrorCreate(c)
      PROVE  mirror' \subseteq Rows /\ \A r, s \in mirror' : r.id = s.id => r = s
  <2>1. PICK row : row = [NewTicket(c, args[c].customer, args[c].id) EXCEPT !.status = "open"]
    OBVIOUS
  <2>2. row = [id |-> args[c].id, ticket |-> c, customer |-> args[c].customer, status |-> "open"]
    BY <2>1 DEF NewTicket
  <2>3. args[c].customer \in Customer /\ args[c].id \in Nat
    BY <1>0, <1>2 DEF MirrorCreate, CallInv, ArgsType
  <2>4. row \in Rows BY <1>0, <2>2, <2>3 DEF Rows
  <2>5. \/ mirror' = mirror
        \/ WithId(mirror, row.id) = {} /\ mirror' = mirror \cup {row}
    BY <1>2, <2>1 DEF MirrorCreate
  <2> QED BY <1>0, <2>4, <2>5 DEF WithId
<1>3. ASSUME NEW c \in Call, MirrorResolve(c)
      PROVE  mirror' \subseteq Rows /\ \A r, s \in mirror' : r.id = s.id => r = s
  <2>1. mirror' = mirror \/ mirror' = Marked(mirror, args[c].id, "resolved")
    BY <1>3 DEF MirrorResolve, Resolved
  <2> QED BY <1>0, <2>1, MarkedRows, MarkedUnique
<1>4. ASSUME UNCHANGED tickets \/ GlpiMarks PROVE tickets' \subseteq Rows
  BY <1>0, <1>4, MarkedRows DEF GlpiMarks
<1>5. CASE AdvisorWorks BY <1>0, <1>4, <1>5, GlpiMoves DEF AdvisorWorks
<1>6. CASE Restart
  <2>1. restarts' \in 0..MaxRestarts BY <1>0, <1>6 DEF Restart
  <2> QED BY <1>0, <1>6, <2>1 DEF Restart
<1>7. CASE UNCHANGED <<tickets, counter, mirror, restarts>>
  BY <1>0, <1>7
<1>8. ASSUME NEW c \in Call, ToolStep(c)
      PROVE  /\ tickets' \subseteq Rows /\ mirror' \subseteq Rows
             /\ \A r, s \in mirror' : r.id = s.id => r = s
             /\ counter' \in Nat /\ restarts' \in 0..MaxRestarts
  <2>1. CASE CreateTicket(c) BY <1>0, <1>1, <2>1 DEF CreateTicket
  <2>2. CASE MirrorCreate(c) BY <1>0, <1>2, <2>2 DEF MirrorCreate
  <2>3. CASE MirrorResolve(c) BY <1>0, <1>3, <2>3 DEF MirrorResolve
  <2>4. CASE ResolveTicket(c) BY <1>0, <1>4, <2>4, GlpiMoves DEF ResolveTicket
  <2>5. CASE UNCHANGED <<tickets, counter, mirror, restarts>> BY <1>7, <2>5
  <2> QED BY <1>8, <2>1, <2>2, <2>3, <2>4, <2>5
          DEF ToolStep, AskConfirmation, Confirm, ConfirmTimesOut, GetTicketStatus,
              StatusFallback, ReadStatus, LookupTickets, LookupFallback
<1> QED BY <1>5, <1>6, <1>7, <1>8 DEF Next, vars, deskVars

\* What a call answers, and where it has it from.
AnswerOf(c, result) ==
    \/ result \in {Raised, NotFound}
    \/ /\ pc[c] = "confirmation"
       /\ \E confirmed \in BOOLEAN : /\ result = Created(args[c].id, confirmed)
                                     /\ confirmed => NoticeOf(c) = "answered"
    \/ \E row \in tickets \cup mirror : \E status :
          /\ result = Found(row.id, row.ticket, status)
          /\ status = "resolved" =>
                \/ row.status = "resolved"
                \/ pc[c] \in {"mirror_resolve", "read_status"} /\ row.id = args[c].id
    \/ \E rows \in SUBSET (tickets \cup mirror) : result = Listed(rows)

\* A step of the tools leaves an answer alone or gives one that its code can give.
LEMMA AnswerGiven ==
  ASSUME DeskInv, NEW c \in Call, ToolStep(c)
  PROVE  answer'[c] = answer[c] \/ AnswerOf(c, answer'[c])
<1>0. DOMAIN answer = Call /\ args \in [Call -> ArgsType]
  BY DEF DeskInv, TypeOK, CallInv
<1>1. ASSUME NEW result, Return(c, result) PROVE answer'[c] = result
  BY <1>0, <1>1 DEF Return
<1> USE <1>0, <1>1
<1>2. CASE CreateTicket(c) BY <1>2 DEF CreateTicket, AnswerOf
<1>3. CASE MirrorCreate(c) BY <1>3 DEF MirrorCreate
<1>4. CASE AskConfirmation(c)
  <2>1. \/ UNCHANGED answer
        \/ pc[c] = "confirmation" /\ Return(c, Created(args[c].id, FALSE))
    BY <1>4, Zenon DEF AskConfirmation
  <2>2. FALSE \in BOOLEAN OBVIOUS
  <2> QED BY <2>1, <2>2 DEF AnswerOf
<1>5. CASE Confirm(c)
  <2>1. PICK confirmed \in BOOLEAN : confirmed = (NoticeOf(c) = "answered") OBVIOUS
  <2>2. pc[c] = "confirmation" /\ Return(c, Created(args[c].id, confirmed))
    BY <1>5, <2>1 DEF Confirm
  <2> QED BY <2>1, <2>2 DEF AnswerOf
<1>6. CASE ConfirmTimesOut(c)
  <2>1. pc[c] = "confirmation" /\ Return(c, Created(args[c].id, FALSE)) /\ FALSE \in BOOLEAN
    BY <1>6 DEF ConfirmTimesOut
  <2> QED BY <2>1 DEF AnswerOf
<1>7. CASE GetTicketStatus(c)
  <2>1. CASE UNCHANGED answer BY <2>1
  <2>2. ASSUME NEW id \in QuotedIds, NEW row \in WithId(mirror, id),
               Return(c, Found(id, row.ticket, row.status))
        PROVE  AnswerOf(c, answer'[c])
    BY <2>2 DEF AnswerOf, WithId
  <2> QED BY <1>7, <2>1, <2>2 DEF GetTicketStatus
<1>8. CASE StatusFallback(c)
  <2>1. ASSUME NEW row \in InGlpi(args[c].id), Return(c, Found(row.id, row.ticket, Reported(row.status)))
        PROVE  AnswerOf(c, answer'[c])
    BY <2>1 DEF AnswerOf, InGlpi, WithId, Reported
  <2>2. ASSUME NEW result \in {Raised, NotFound}, Return(c, result) PROVE AnswerOf(c, answer'[c])
    BY <2>2 DEF AnswerOf
  <2> QED BY <1>8, <2>1, <2>2 DEF StatusFallback
<1>9. CASE ResolveTicket(c) BY <1>9 DEF ResolveTicket, AnswerOf
<1>10. CASE MirrorResolve(c) BY <1>10 DEF MirrorResolve, AnswerOf, WithId
<1>11. CASE ReadStatus(c) BY <1>11 DEF ReadStatus, AnswerOf, WithId
<1>12. ASSUME NEW rows \in SUBSET (tickets \cup mirror), Return(c, Listed(rows))
       PROVE  AnswerOf(c, answer'[c])
  BY <1>12 DEF AnswerOf
<1>13. CASE LookupTickets(c)
  <2>1. PICK customer \in Customer :
           UNCHANGED answer \/ Return(c, Listed({row \in mirror : row.customer = customer}))
    BY <1>13 DEF LookupTickets
  <2> QED BY <2>1, <1>12
<1>14. CASE LookupFallback(c) BY <1>12, <1>14 DEF LookupFallback
<1> QED BY <1>2, <1>3, <1>4, <1>5, <1>6, <1>7, <1>8, <1>9, <1>10, <1>11, <1>13, <1>14,
           ToolStepMoves DEF ToolStep

\* What is known of an answer by its kind.
LEMMA AnswerByKind ==
  ASSUME NEW c \in Call, NEW result, AnswerOf(c, result)
  PROVE  /\ result.kind = "listed" => result.rows \subseteq tickets \cup mirror
         /\ result.kind = "created" =>
               /\ pc[c] = "confirmation" /\ result.id = args[c].id
               /\ result.confirmed => NoticeOf(c) = "answered"
         /\ result.kind = "found" =>
               \E row \in tickets \cup mirror :
                  /\ result.id = row.id /\ result.ticket = row.ticket
                  /\ result.status = "resolved" =>
                        \/ row.status = "resolved"
                        \/ pc[c] \in {"mirror_resolve", "read_status"} /\ row.id = args[c].id
<1>1. CASE result \in {Raised, NotFound} BY <1>1, AnswerFields
<1>2. ASSUME NEW confirmed \in BOOLEAN, pc[c] = "confirmation",
             result = Created(args[c].id, confirmed), confirmed => NoticeOf(c) = "answered"
      PROVE  /\ result.kind = "created" /\ result.id = args[c].id
             /\ result.confirmed => NoticeOf(c) = "answered"
  <2>1. result.kind = "created" /\ result.id = args[c].id BY <1>2 DEF Created
  <2>2. result.confirmed = confirmed BY <1>2 DEF Created
  <2>3. CASE confirmed = TRUE BY <1>2, <2>1, <2>3
  <2>4. CASE confirmed = FALSE BY <2>1, <2>2, <2>4
  <2> QED BY <2>3, <2>4
<1>3. ASSUME NEW id, NEW ticket, NEW status, result = Found(id, ticket, status)
      PROVE  /\ result.kind = "found" /\ result.id = id /\ result.ticket = ticket
             /\ result.status = status
  BY <1>3 DEF Found
<1>4. ASSUME NEW rows, result = Listed(rows) PROVE result.kind = "listed" /\ result.rows = rows
  BY <1>4, AnswerFields
<1>5. CASE /\ pc[c] = "confirmation"
           /\ \E confirmed \in BOOLEAN : /\ result = Created(args[c].id, confirmed)
                                         /\ confirmed => NoticeOf(c) = "answered"
  BY <1>2, <1>5
<1>6. CASE \E rows \in SUBSET (tickets \cup mirror) : result = Listed(rows)
  BY <1>4, <1>6
<1>7. ASSUME NEW row \in tickets \cup mirror, NEW status,
             result = Found(row.id, row.ticket, status),
             status = "resolved" =>
                \/ row.status = "resolved"
                \/ pc[c] \in {"mirror_resolve", "read_status"} /\ row.id = args[c].id
      PROVE  /\ result.kind = "found" /\ result.id = row.id /\ result.ticket = row.ticket
             /\ result.status = "resolved" =>
                  \/ row.status = "resolved"
                  \/ pc[c] \in {"mirror_resolve", "read_status"} /\ row.id = args[c].id
  BY <1>3, <1>7
<1> QED BY <1>1, <1>5, <1>6, <1>7 DEF AnswerOf

\* A step that changes a call's answer is a step of that call.
LEMMA AnswerChanges ==
  ASSUME DeskInv, [Next]_vars, NEW c \in Call, answer'[c] # answer[c]
  PROVE  AnswerOf(c, answer'[c]) /\ pc'[c] = "returned" /\ pc[c] # "returned"
<1>1. ASSUME NEW d \in Call, ToolStep(d) PROVE ToolStep(c) /\ pc'[c] = "returned" /\ pc[c] # "returned"
  BY <1>1, ToolStepMoves DEF OneCallMoves
<1>2. ToolStep(c) /\ pc'[c] = "returned" /\ pc[c] # "returned"
  BY <1>1 DEF Next, vars, deskVars, AdvisorWorks, Restart
<1> QED BY <1>2, AnswerGiven

\* notification-service's own steps, and the request that starts them.
LEMMA NoticeStep ==
  ASSUME DeskInv, [Next]_vars
  PROVE  /\ NoticeInv' /\ texts \subseteq texts' /\ log' \subseteq texts'
         /\ texts' \subseteq Notice /\ log' \subseteq Notice
<1>0. /\ NoticeInv /\ log \subseteq texts /\ texts \subseteq Notice
  BY DEF DeskInv, TypeOK, ConfirmationsLeft
<1>1. ASSUME NEW n \in Notice, NEW where \in {"none", "sending", "sent", "answered", "failed"},
             Reach(n, where), where \in {"sent", "answered"} => n \in texts', texts \subseteq texts'
      PROVE  NoticeInv'
  BY <1>0, <1>1 DEF NoticeInv, Reach
<1>2. ASSUME NEW n \in Notice, Notify(n) PROVE NoticeInv' /\ UNCHANGED <<texts, log>>
  BY <1>1, <1>2 DEF Notify
<1>3. ASSUME NEW n \in Notice, Send(n)
      PROVE  NoticeInv' /\ texts \subseteq texts' /\ texts' \subseteq Notice /\ log' = log
  BY <1>0, <1>1, <1>3 DEF Send
<1>4. ASSUME NEW n \in Notice, Persist(n)
      PROVE  NoticeInv' /\ texts' = texts /\ log' \subseteq texts
  BY <1>0, <1>1, <1>4 DEF Persist, NoticeInv
<1>5. CASE UNCHANGED notificationVars
  BY <1>0, <1>5 DEF NoticeInv, notificationVars
<1>6. ASSUME NEW c \in Call, ToolStep(c)
      PROVE  (c \in Notice /\ Notify(c)) \/ UNCHANGED notificationVars
  BY <1>6 DEF ToolStep, CreateTicket, MirrorCreate, AskConfirmation, Confirm, ConfirmTimesOut,
              GetTicketStatus, StatusFallback, ResolveTicket, MirrorResolve, ReadStatus,
              LookupTickets, LookupFallback
<1> QED BY <1>0, <1>2, <1>3, <1>4, <1>5, <1>6
        DEF Next, vars, NotificationStep, AdvisorWorks, Restart

\* A promised confirmation had left before.
LEMMA ConfirmationsStep ==
  ASSUME DeskInv, [Next]_vars
  PROVE  ConfirmationsLeft'
<1>1. ASSUME NEW c \in Call, answer'[c].kind = "created", answer'[c].confirmed
      PROVE  c \in texts'
  <2>1. CASE answer'[c] = answer[c]
    BY <1>1, <2>1, NoticeStep DEF DeskInv, ConfirmationsLeft
  <2>2. CASE answer'[c] # answer[c]
    <3>1. NoticeOf(c) = "answered" BY <1>1, <2>2, AnswerChanges, AnswerByKind
    <3>2. c \in Notice /\ notice[c] = "answered" BY <3>1 DEF NoticeOf
    <3> QED BY <3>2, NoticeStep DEF DeskInv, NoticeInv
  <2> QED BY <2>1, <2>2
<1> QED BY <1>1, NoticeStep DEF ConfirmationsLeft

\* DeskInv is inductive, whatever is behind the connector.
LEMMA DeskStep == DeskInv /\ [Next]_vars => DeskInv'
<1> SUFFICES ASSUME DeskInv, [Next]_vars PROVE DeskInv' OBVIOUS
<1>1. TypeOK' BY CallsKeep, StoresMove, NoticeStep DEF TypeOK, Typed
<1> QED BY <1>1, CallsKeep, NoticeStep, ConfirmationsStep DEF DeskInv
-----------------------------------------------------------------------------
\* A later state of a ticket: the same ticket, and not as if never solved if it was.
Later(row, later) ==
    /\ later.id = row.id /\ later.ticket = row.ticket /\ later.customer = row.customer
    /\ row.status # "new" => later.status # "new"

NoTicketLost == \A row \in tickets : \E later \in tickets' : Later(row, later)

\* Solving, reopening and deleting give out no id and lose no ticket.
LEMMA MarkingKeeps ==
  ASSUME tickets \in SUBSET Rows, IdInv, GlpiMarks, UNCHANGED counter
  PROVE  IdInv' /\ NoTicketLost
<1>a. PICK id : \E status \in Status \ {"new"} : tickets' = Marked(tickets, id, status)
  BY DEF GlpiMarks
<1>0. PICK status \in Status \ {"new"} : tickets' = Marked(tickets, id, status)
  BY <1>a
<1>1. \A r, s \in tickets' : r.id = s.id => r = s BY <1>0, MarkedUnique DEF IdInv
<1>2. \A r \in tickets' : r.id \in 1..counter'
  <2>1. \A new \in tickets' : \E row \in tickets : new.id = row.id BY <1>0, MarkedRows
  <2> QED BY <2>1 DEF IdInv
<1>3. ASSUME NEW row \in tickets PROVE \E later \in tickets' : Later(row, later)
  <2>1. PICK later \in tickets' :
           /\ later.id = row.id /\ later.ticket = row.ticket /\ later.customer = row.customer
           /\ later.status = IF row.id = id THEN status ELSE row.status
    BY <1>0, MarkedRows
  <2>2. Later(row, later) BY <1>0, <2>1 DEF Later
  <2> QED BY <2>2
<1> QED BY <1>1, <1>2, <1>3 DEF IdInv, NoTicketLost

\* While nothing is lost, ids stay unique and every ticket stays what it is.
LEMMA IdStep ==
  ASSUME NothingLost, DeskInv, IdInv, [Next]_vars
  PROVE  IdInv' /\ NoTicketLost
<1>0. tickets \in SUBSET Rows /\ counter \in Nat BY DEF DeskInv, TypeOK
<1>1. CASE UNCHANGED <<tickets, counter>>
  BY <1>1 DEF IdInv, NoTicketLost, Later
<1>2. ASSUME NEW c \in Call, CreateTicket(c) PROVE IdInv' /\ NoTicketLost
  <2>1. PICK row : /\ row.id = counter + 1
                   /\ \/ UNCHANGED <<tickets, counter>>
                      \/ tickets' = tickets \cup {row} /\ counter' = counter + 1
    <3>1. PICK customer \in Customer :
             \/ UNCHANGED <<tickets, counter>>
             \/ /\ tickets' = tickets \cup {NewTicket(c, customer, counter + 1)}
                /\ counter' = counter + 1
      BY <1>2 DEF CreateTicket
    <3>2. NewTicket(c, customer, counter + 1).id = counter + 1 BY DEF NewTicket
    <3> QED BY <3>1, <3>2
  <2>2. CASE tickets' = tickets \cup {row} /\ counter' = counter + 1
    <3>1. \A r \in tickets : r.id # row.id BY <1>0, <2>1 DEF IdInv
    <3>2. \A r \in tickets' : r.id \in 1..counter' BY <1>0, <2>1, <2>2 DEF IdInv
    <3>3. \A r, s \in tickets' : r.id = s.id => r = s BY <2>2, <3>1 DEF IdInv
    <3>4. NoTicketLost BY <2>2 DEF NoTicketLost, Later
    <3> QED BY <3>2, <3>3, <3>4 DEF IdInv
  <2> QED BY <2>1, <2>2, <1>1
<1>3. ASSUME NEW c \in Call, ResolveTicket(c) PROVE IdInv' /\ NoTicketLost
  <2>1. UNCHANGED counter /\ (UNCHANGED tickets \/ GlpiMarks)
    BY <1>3, GlpiMoves DEF ResolveTicket
  <2> QED BY <1>0, <1>1, <2>1, MarkingKeeps
<1>4. CASE AdvisorWorks
  <2>1. UNCHANGED counter /\ GlpiMarks BY <1>4, GlpiMoves DEF AdvisorWorks
  <2> QED BY <1>0, <2>1, MarkingKeeps
<1>5. CASE Restart
  <2>1. CONNECTOR_MODE = "live"
    BY <1>5 DEF Restart, NothingLost, DeskInv, TypeOK
  <2> QED BY <1>1, <1>5, <2>1 DEF Restart
<1>6. ASSUME NEW c \in Call, ToolStep(c) PROVE IdInv' /\ NoTicketLost
  BY <1>1, <1>2, <1>3, <1>6
     DEF ToolStep, MirrorCreate, AskConfirmation, Confirm, ConfirmTimesOut,
         GetTicketStatus, StatusFallback, MirrorResolve, ReadStatus,
         LookupTickets, LookupFallback
<1> QED BY <1>1, <1>4, <1>5, <1>6 DEF Next, vars, deskVars

\* What was said of a ticket stays true, and what is settled stays settled.
LEMMA TruthStays ==
  ASSUME NoTicketLost
  PROVE  /\ \A id, ticket, status : TrueOf(id, ticket, status) => TrueOf(id, ticket, status)'
         /\ \A id : Settled(id) => Settled(id)'
  BY DEF NoTicketLost, Later, TrueOf, WithId, Settled

\* Of a ticket that is settled, "resolved" may be said.
LEMMA SettledIsTrue ==
  ASSUME DeskInv, IdInv, NEW id, NEW ticket, NEW status, NEW other,
         TrueOf(id, ticket, status), Settled(id)
  PROVE  TrueOf(id, ticket, other)
<1>1. PICK truth \in tickets : truth.id = id /\ truth.ticket = ticket BY DEF TrueOf, WithId
<1>2. id # WRONG_ID BY <1>1 DEF IdInv, DeskInv, TypeOK, WRONG_ID
<1>3. truth.status # "new" BY <1>1, <1>2 DEF Settled, IdInv
<1> QED BY <1>1, <1>3 DEF TrueOf, WithId

\* MirrorFollowsGlpi, row by row.
RowStands(row) ==
    \E truth \in tickets :
        /\ truth.id = row.id /\ truth.ticket = row.ticket /\ truth.customer = row.customer
        /\ row.status = "resolved" => truth.status # "new"

\* MirrorFollowsGlpi says RowStands of every row.
LEMMA RowsStand ==
  ASSUME IdInv, MirrorFollowsGlpi
  PROVE  \A row \in mirror : RowStands(row)
  BY DEF IdInv, MirrorFollowsGlpi, TrueOf, WithId, RowStands

\* A row of the mirror has its ticket, whatever the step.
LEMMA MirrorStep ==
  ASSUME NothingLost, DeskInv, KeptInv, [Next]_vars
  PROVE  MirrorFollowsGlpi'
<1>0. /\ IdInv' /\ NoTicketLost /\ mirror \in SUBSET Rows
      /\ \A row \in mirror : RowStands(row)
  BY IdStep, RowsStand DEF KeptInv, DeskInv, TypeOK
<1>1. ASSUME NEW row, RowStands(row) PROVE RowStands(row)'
  BY <1>0, <1>1 DEF NoTicketLost, Later, RowStands
<1>2. ASSUME NEW c \in Call, MirrorCreate(c), NEW row \in mirror' \ mirror PROVE RowStands(row)'
  <2>1. row = [NewTicket(c, args[c].customer, args[c].id) EXCEPT !.status = "open"]
    BY <1>2 DEF MirrorCreate
  <2>2. row = [id |-> args[c].id, ticket |-> c, customer |-> args[c].customer, status |-> "open"]
    BY <2>1 DEF NewTicket
  <2>3. RowStands(row) BY <1>2, <2>2 DEF KeptInv, AwaitInv, MirrorCreate, RowStands
  <2> QED BY <2>3, <1>1
<1>3. ASSUME NEW c \in Call, MirrorResolve(c), NEW row \in mirror' PROVE RowStands(row)'
  <2>1. mirror' = mirror \/ mirror' = Marked(mirror, args[c].id, "resolved")
    BY <1>3 DEF MirrorResolve, Resolved
  <2>2. "resolved" \in Status BY DEF Status
  <2>3. PICK before \in mirror : /\ row.id = before.id /\ row.ticket = before.ticket
                                 /\ row.customer = before.customer
                                 /\ row = before \/ row.id = args[c].id
    BY <1>0, <1>3, <2>1, <2>2, MarkedRows
  <2>4. CASE row = before BY <1>0, <1>1, <2>4
  <2>5. CASE row.id = args[c].id
    <3>1. PICK truth \in tickets :
             truth.id = before.id /\ truth.ticket = before.ticket /\ truth.customer = before.customer
      BY <1>0 DEF RowStands
    <3>2. truth.id # WRONG_ID BY DEF KeptInv, IdInv, DeskInv, TypeOK, WRONG_ID
    <3>3. Settled(truth.id) BY <1>3, <2>3, <2>5, <3>1 DEF MirrorResolve, KeptInv, AwaitInv
    <3>4. truth.status # "new" BY <3>2, <3>3 DEF Settled, KeptInv, IdInv
    <3>5. RowStands(row) BY <2>3, <3>1, <3>4 DEF RowStands
    <3> QED BY <3>5, <1>1
  <2> QED BY <2>3, <2>4, <2>5
<1>4. ASSUME UNCHANGED mirror, NEW row \in mirror' PROVE RowStands(row)' BY <1>0, <1>1, <1>4
<1>5. ASSUME NEW c \in Call, ToolStep(c) PROVE \A row \in mirror' : RowStands(row)'
  <2>1. CASE MirrorCreate(c) BY <1>0, <1>1, <1>2, <2>1
  <2>2. CASE MirrorResolve(c) BY <1>3, <2>2
  <2>3. CASE UNCHANGED mirror BY <1>4, <2>3
  <2> QED BY <1>5, <2>1, <2>2, <2>3
          DEF ToolStep, CreateTicket, AskConfirmation, Confirm, ConfirmTimesOut,
              GetTicketStatus, StatusFallback, ResolveTicket, ReadStatus,
              LookupTickets, LookupFallback
<1>6. \A row \in mirror' : RowStands(row)'
  BY <1>4, <1>5 DEF Next, vars, deskVars, AdvisorWorks, Restart
<1> QED BY <1>0, <1>6 DEF IdInv, MirrorFollowsGlpi, TrueOf, WithId, RowStands

\* AwaitInv, call by call.
Relies(c) ==
    /\ pc[c] \in {"mirror_create", "confirmation"} =>
          \E truth \in tickets :
              /\ truth.id = args[c].id
              /\ truth.ticket = c /\ truth.customer = args[c].customer
    /\ pc[c] \in {"mirror_resolve", "mirror_resolve_unknown", "read_status"} =>
          Settled(args[c].id)

\* A call that waits has done what it waits on.
LEMMA AwaitStep ==
  ASSUME NothingLost, DeskInv, KeptInv, [Next]_vars
  PROVE  AwaitInv'
<1>0. /\ NoTicketLost /\ \A c \in Call : Relies(c)
      /\ tickets \in SUBSET Rows /\ args \in [Call -> ArgsType] /\ pc \in [Call -> PC]
      /\ DOMAIN answer = Call
  BY IdStep DEF KeptInv, DeskInv, TypeOK, CallInv, AwaitInv, Relies
<1>1. ASSUME NEW c \in Call, pc'[c] = pc[c], args'[c] = args[c] PROVE Relies(c)'
  <2>1. PICK id : id = args[c].id OBVIOUS
  <2>2. Settled(id) => Settled(id)' BY <1>0, TruthStays
  <2>3. Settled(args[c].id) => Settled(args[c].id)' BY <1>1, <2>1, <2>2 DEF Settled
  <2> QED BY <1>0, <1>1, <2>3 DEF NoTicketLost, Later, Relies
<1>2. ASSUME NEW c \in Call,
             pc'[c] \in {"idle", "status_fallback", "lookup_fallback", "returned"}
      PROVE  Relies(c)'
  BY <1>2 DEF Relies
<1>3. ASSUME NEW c \in Call, NEW result, Return(c, result) PROVE Relies(c)'
  BY <1>0, <1>2, <1>3, ReturnMoves
<1>4. ASSUME NEW c \in Call, NEW what \in PC, Await(c, what) PROVE pc'[c] = what
  BY <1>0, <1>4, AwaitMoves
<1>5. /\ "mirror_create" \in PC /\ "confirmation" \in PC /\ "status_fallback" \in PC
      /\ "mirror_resolve" \in PC /\ "mirror_resolve_unknown" \in PC /\ "read_status" \in PC
      /\ "lookup_fallback" \in PC
  BY DEF PC
<1>6. ASSUME NEW c \in Call, CreateTicket(c) PROVE Relies(c)'
  <2>1. PICK customer \in Customer :
           /\ args' = [args EXCEPT ![c] = [customer |-> customer, id |-> counter + 1]]
           /\ \/ /\ Await(c, "mirror_create")
                 /\ tickets' = tickets \cup {NewTicket(c, customer, counter + 1)}
              \/ Return(c, Raised)
    BY <1>6 DEF CreateTicket
  <2>2. CASE /\ Await(c, "mirror_create")
             /\ tickets' = tickets \cup {NewTicket(c, customer, counter + 1)}
    <3>1. \E row \in tickets' : row.id = counter + 1 /\ row.ticket = c /\ row.customer = customer
      <4>1. PICK row : row = NewTicket(c, customer, counter + 1) OBVIOUS
      <4>2. row \in tickets' BY <2>2, <4>1
      <4>3. row.id = counter + 1 /\ row.ticket = c /\ row.customer = customer
        BY <4>1 DEF NewTicket
      <4> QED BY <4>2, <4>3
    <3>2. counter + 1 \in Nat BY DEF DeskInv, TypeOK
    <3>3. args'[c].customer = customer /\ args'[c].id = counter + 1
      BY <1>0, <2>1, <3>2, ArgsNoted
    <3>4. pc'[c] = "mirror_create" BY <2>2, <1>4, <1>5
    <3> QED BY <3>1, <3>3, <3>4 DEF Relies
  <2> QED BY <2>1, <2>2, <1>3
<1>7. ASSUME NEW c \in Call, MirrorCreate(c) PROVE Relies(c)'
  <2>1. pc'[c] = "confirmation" /\ pc[c] = "mirror_create" /\ UNCHANGED <<args, tickets>>
    BY <1>4, <1>5, <1>7 DEF MirrorCreate
  <2> QED BY <1>0, <2>1 DEF Relies
<1>8. ASSUME NEW c \in Call, ResolveTicket(c) PROVE Relies(c)'
  <2>1. PICK id \in QuotedIds :
           /\ args' = [args EXCEPT ![c] = [customer |-> None, id |-> id]]
           /\ \/ /\ InGlpi(id) # {} /\ tickets' = Marked(tickets, id, "resolved")
                 /\ Await(c, "mirror_resolve")
              \/ UNCHANGED tickets /\ InGlpi(id) = {} /\ Await(c, "mirror_resolve_unknown")
              \/ Return(c, Raised)
    BY <1>8 DEF ResolveTicket, Resolved
  <2>2. args'[c].id = id
    BY <1>0, <2>1, ArgsNoted, QuotedAreNumbers DEF DeskInv
  <2>3. CASE /\ InGlpi(id) # {} /\ tickets' = Marked(tickets, id, "resolved")
             /\ Await(c, "mirror_resolve")
    <3>1. PICK row \in tickets : row.id = id BY <2>3 DEF InGlpi, WithId
    <3>2. "resolved" \in Status BY DEF Status
    <3>3. \E truth \in tickets' : truth.id = id /\ truth.status = "resolved"
      BY <1>0, <2>3, <3>1, <3>2, MarkedRows
    <3>4. pc'[c] = "mirror_resolve" BY <1>4, <1>5, <2>3
    <3> QED BY <2>2, <3>3, <3>4 DEF Relies, Settled
  <2>4. CASE UNCHANGED tickets /\ InGlpi(id) = {} /\ Await(c, "mirror_resolve_unknown")
    <3>1. pc'[c] = "mirror_resolve_unknown" BY <1>4, <1>5, <2>4
    <3>2. \A row \in tickets : row.id = id => row.status = "deleted" BY <2>4 DEF InGlpi, WithId
    <3>3. id = WRONG_ID \/ \E row \in tickets : row.id = id
      BY DEF KeptInv, MirrorFollowsGlpi, TrueOf, WithId, QuotedIds
    <3>4. id = WRONG_ID \/ \E row \in tickets' : row.id = id /\ row.status # "new"
      BY <2>4, <3>2, <3>3
    <3> QED BY <2>2, <3>1, <3>4 DEF Relies, Settled
  <2> QED BY <1>3, <2>1, <2>3, <2>4
<1>9. ASSUME NEW c \in Call, MirrorResolve(c) PROVE Relies(c)'
  <2>1. CASE /\ pc[c] = "mirror_resolve_unknown" /\ Await(c, "read_status")
             /\ UNCHANGED <<args, tickets>>
    <3>1. pc'[c] = "read_status" BY <1>4, <1>5, <2>1
    <3> QED BY <1>0, <2>1, <3>1 DEF Relies, Settled
  <2> QED BY <1>3, <1>9, <2>1 DEF MirrorResolve
<1>10. ASSUME NEW c \in Call, AskConfirmation(c) PROVE Relies(c)'
  <2>1. CASE UNCHANGED <<pc, args>> BY <1>1, <2>1
  <2>2. CASE Return(c, Created(args[c].id, FALSE)) BY <1>3, <2>2
  <2> QED BY <1>10, <2>1, <2>2 DEF AskConfirmation
<1>11. ASSUME NEW c \in Call, ToolStep(c) PROVE Relies(c)'
  <2>1. CASE Confirm(c) \/ ConfirmTimesOut(c) \/ StatusFallback(c) \/ ReadStatus(c) \/ LookupFallback(c)
    <3>1. \E result : Return(c, result)
      BY <2>1 DEF Confirm, ConfirmTimesOut, StatusFallback, ReadStatus, LookupFallback
    <3> QED BY <3>1, <1>3
  <2>2. CASE GetTicketStatus(c)
    <3>1. Await(c, "status_fallback") \/ \E result : Return(c, result)
      BY <2>2 DEF GetTicketStatus
    <3> QED BY <3>1, <1>2, <1>3, <1>4, <1>5
  <2>3. CASE LookupTickets(c)
    <3>1. Await(c, "lookup_fallback") \/ \E result : Return(c, result)
      BY <2>3 DEF LookupTickets
    <3> QED BY <3>1, <1>2, <1>3, <1>4, <1>5
  <2> QED BY <1>6, <1>7, <1>8, <1>9, <1>10, <1>11, <2>1, <2>2, <2>3 DEF ToolStep
<1>12. ASSUME NEW c \in Call PROVE Relies(c)'
  <2>1. ASSUME NEW d \in Call, ToolStep(d) PROVE Relies(c)'
    <3>1. CASE d = c BY <1>11, <2>1, <3>1
    <3>2. CASE d # c BY <1>1, <2>1, <3>2, ToolStepMoves DEF OneCallMoves
    <3> QED BY <3>1, <3>2
  <2>2. CASE Restart
    <3>1. pc'[c] \in {"idle", "returned"} BY <2>2 DEF Restart
    <3> QED BY <3>1, <1>2
  <2>3. CASE UNCHANGED <<pc, args>> BY <1>1, <2>3
  <2> QED BY <2>1, <2>2, <2>3 DEF Next, vars, deskVars, AdvisorWorks
<1> QED BY <1>12 DEF AwaitInv, Relies

\* What an answer says: of every ticket that it tells of, and of its new reference.
Says(c, result) ==
    /\ \A row \in Told(result) : TrueOf(row.id, row.ticket, row.status)
    /\ result.kind = "created" => TrueOf(result.id, c, "new")

\* AnswerInv, call by call.
LEMMA AnswersSay == (\A c \in Call : Says(c, answer[c])) => AnswerInv
  BY DEF Says, AnswerInv, AnswersFollowGlpi

\* An answer that a call gives is true when it is given.
LEMMA AnswersAreTrue ==
  ASSUME DeskInv, KeptInv, NEW c \in Call, NEW result, AnswerOf(c, result)
  PROVE  Says(c, result)
<1>1. \A row \in tickets \cup mirror : TrueOf(row.id, row.ticket, row.status)
  <2>1. ASSUME NEW row \in tickets PROVE TrueOf(row.id, row.ticket, row.status)
    BY <2>1 DEF TrueOf, WithId
  <2>2. ASSUME NEW row \in mirror PROVE TrueOf(row.id, row.ticket, row.status)
    BY <2>2 DEF KeptInv, MirrorFollowsGlpi
  <2> QED BY <2>1, <2>2
<1>2. CASE result.kind = "found"
  <2>1. PICK row \in tickets \cup mirror :
           /\ result.id = row.id /\ result.ticket = row.ticket
           /\ result.status = "resolved" =>
                 \/ row.status = "resolved"
                 \/ pc[c] \in {"mirror_resolve", "read_status"} /\ row.id = args[c].id
    BY <1>2, AnswerByKind
  <2>2. TrueOf(row.id, row.ticket, row.status) BY <1>1
  <2>3. TrueOf(result.id, result.ticket, result.status)
    <3>1. CASE result.status = "resolved" => row.status = "resolved"
      BY <2>1, <2>2, <3>1 DEF TrueOf, WithId
    <3>2. CASE pc[c] \in {"mirror_resolve", "read_status"} /\ row.id = args[c].id
      <4>1. Settled(row.id) BY <3>2 DEF KeptInv, AwaitInv
      <4> QED BY <2>1, <2>2, <4>1, SettledIsTrue DEF KeptInv
    <3> QED BY <2>1, <3>1, <3>2
  <2> QED BY <1>2, <2>3 DEF Says, Told
<1>3. CASE result.kind = "listed" BY <1>1, <1>3, AnswerByKind DEF Says, Told
<1>4. CASE result.kind = "created"
  <2>1. TrueOf(result.id, c, "new")
    BY <1>4, AnswerByKind DEF KeptInv, AwaitInv, TrueOf, WithId
  <2> QED BY <1>4, <2>1 DEF Says, Told
<1>5. CASE result.kind \notin {"found", "listed", "created"} BY <1>5 DEF Says, Told
<1> QED BY <1>2, <1>3, <1>4, <1>5

\* An answer stays true.
LEMMA AnswerStep ==
  ASSUME NothingLost, DeskInv, KeptInv, [Next]_vars
  PROVE  AnswerInv'
<1>0. NoTicketLost BY IdStep DEF KeptInv
<1>1. ASSUME NEW c \in Call, NEW result, result = answer'[c] PROVE Says(c, result)'
  <2>1. Says(c, result)
    BY <1>1, AnswerChanges, AnswersAreTrue DEF KeptInv, AnswerInv, AnswersFollowGlpi, Says
  <2> QED BY <1>0, <2>1, TruthStays DEF Says
<1>2. ASSUME NEW c \in Call PROVE Says(c, answer[c])'
  <2>1. PICK result : result = answer'[c] OBVIOUS
  <2>2. Says(c, result)' BY <1>1, <2>1
  <2> QED BY <2>1, <2>2 DEF Says, Told, TrueOf, WithId
<1>3. (\A c \in Call : Says(c, answer[c]))' => AnswerInv' BY AnswersSay, PTL
<1> QED BY <1>2, <1>3
-----------------------------------------------------------------------------
\* DeskInv always holds, and KeptInv where no ticket is lost.
THEOREM DeskInvariant == Spec => []DeskInv
<1> QED BY InitDesk, DeskStep, PTL DEF Spec

\* Type correctness of the desk, its mirror's one row per id included.
THEOREM DeskTypeCorrect == Spec => []TypeOK
<1>1. DeskInv => TypeOK BY DEF DeskInv
<1> QED BY <1>1, DeskInvariant, PTL

\* A promised confirmation has left.
THEOREM PromisedConfirmationsLeft == Spec => []ConfirmationsLeft
<1>1. DeskInv => ConfirmationsLeft BY DEF DeskInv
<1> QED BY <1>1, DeskInvariant, PTL

\* An empty mirror agrees with an empty GLPI.
LEMMA InitKept == Init => KeptInv
<1> SUFFICES ASSUME Init PROVE KeptInv OBVIOUS
<1>1. /\ tickets = {} /\ mirror = {}
      /\ \A c \in Call : pc[c] = "idle" /\ answer[c].kind = "nothing" /\ Told(answer[c]) = {}
  BY DEF Init, Nothing, Told
<1> QED BY <1>1 DEF KeptInv, IdInv, MirrorFollowsGlpi, AwaitInv, AnswerInv, AnswersFollowGlpi

\* Whatever advisors do in GLPI, which forgets no id: an id is one ticket's for ever, and
\* what calls rely on and have said of tickets stays true, in the sense of TrueOf.
THEOREM KeptInvariant == NothingLost /\ Spec => []KeptInv
<1> SUFFICES ASSUME NothingLost PROVE Spec => []KeptInv OBVIOUS
<1>1. DeskInv /\ KeptInv /\ [Next]_vars => KeptInv'
  BY IdStep, MirrorStep, AwaitStep, AnswerStep DEF KeptInv
<1> QED BY <1>1, InitKept, DeskInvariant, PTL DEF Spec

\* Whichever access fails and whatever advisors do, a mirror row is of the ticket and the
\* customer of its id, and "resolved" only if GLPI has had it so or has deleted it.  That
\* the mirror is up to date is not claimed: it may miss a reopening, or a resolution.
THEOREM MirrorIsTrue == NothingLost /\ Spec => []MirrorFollowsGlpi
<1>1. KeptInv => MirrorFollowsGlpi BY DEF KeptInv
<1> QED BY <1>1, KeptInvariant, PTL

\* The same of every answer, by whichever of the tools and from whichever store: a caller
\* may be told of a resolution that was undone since, never of one that GLPI never saw,
\* unless GLPI has deleted the ticket.
THEOREM AnswersAreOfGlpi == NothingLost /\ Spec => []AnswersFollowGlpi
<1>1. KeptInv => AnswersFollowGlpi BY DEF KeptInv, AnswerInv
<1> QED BY <1>1, KeptInvariant, PTL

\* A reference names the ticket it was given out for: what the mock's restart
\* breaks is the only thing that can break it.
THEOREM ReferencesNameTickets == NothingLost /\ Spec => []ReferenceNamesTicket
<1>1. KeptInv => ReferenceNamesTicket
  <2> SUFFICES ASSUME KeptInv, NEW c \in Call, NEW d \in Call,
                      answer[c].kind = "created", answer[d].kind = "found",
                      answer[c].id = answer[d].id
               PROVE  answer[d].ticket = c
    BY DEF ReferenceNamesTicket
  <2>1. answer[d] \in Told(answer[d]) BY DEF Told
  <2>2. TrueOf(answer[d].id, answer[d].ticket, answer[d].status)
    BY <2>1 DEF KeptInv, AnswerInv, AnswersFollowGlpi
  <2>3. TrueOf(answer[c].id, c, "new") BY DEF KeptInv, AnswerInv
  <2> QED BY <2>2, <2>3 DEF KeptInv, IdInv, TrueOf, WithId
<1> QED BY <1>1, KeptInvariant, PTL
=============================================================================
