------------------------------ MODULE Ticketing ------------------------------
(***************************************************************************)
(* The ticketing-glpi MCP server: its four tools over GLPI, the Postgres   *)
(* mirror and notification-service.                                        *)
(*                                                                         *)
(* A tool call is a coroutine: it gives way at every mirror access, which  *)
(* runs in a thread and fails without being noticed, and while it waits for*)
(* notification-service.  The GLPI client is called without giving way.    *)
(* CONNECTOR_MODE decides what is behind it: "live", a GLPI whose advisors *)
(* resolve, reopen and delete tickets on their own, or "mock", a dictionary*)
(* and a counter that a restart of the server resets.                      *)
(*                                                                         *)
(* A ticket is named by the call that opened it: it stands for the subject *)
(* and the description.  Ids are the numbers behind "GLPI-".  A ticket that*)
(* GLPI has deleted stays in "tickets", where no tool finds it, so that a  *)
(* property can tell what its id stood for.                                *)
(***************************************************************************)
EXTENDS Integers, FiniteSets, NotificationService

\* Of the calls, those in Notice may reach notification-service.
CONSTANTS Call,            \* the tool calls that may be made
          None,            \* no ticket, no customer
          Customer,
          CONNECTOR_MODE,
          MaxRestarts      \* a bound: restarts of the server

ASSUME TicketingAssumption ==
    /\ Notice \subseteq Call
    /\ None \notin Call
    /\ CONNECTOR_MODE \in {"live", "mock"}
    /\ MaxRestarts \in Nat

VARIABLES tickets,   \* GLPI: a set of [id, ticket, customer, status]
          counter,   \* the last id given out
          mirror,    \* ticketing.tickets: a set of the same records
          pc,        \* what each tool call is waiting for
          args,      \* [customer, id] of each call
          answer,    \* what each call has returned
          restarts

deskVars == <<tickets, counter, mirror, pc, args, answer, restarts>>
vars == <<deskVars, notificationVars>>

WRONG_ID == 0

\* How far notification-service is with a call's request, if it may reach it at all.
NoticeOf(c) == IF c \in Notice THEN notice[c] ELSE "none"

WithId(rows, id) == {row \in rows : row.id = id}
Marked(rows, id, status) ==
    {IF row.id = id THEN [row EXCEPT !.status = status] ELSE row : row \in rows}

\* Mutant: the mirror adds a resolved row instead of updating the one it has.
ResolvedAppending(rows, id) ==
    rows \cup {[row EXCEPT !.status = "resolved"] : row \in WithId(rows, id)}

Resolved(rows, id) == Marked(rows, id, "resolved")

\* What GLPI answers with 200; of the rest with 404.
InGlpi(id) == {row \in WithId(tickets, id) : row.status # "deleted"}

\* LiveGlpiClient.get: any status below 5 is "new", also of a ticket that was solved once.
Reported(status) == IF status = "resolved" THEN "resolved" ELSE "new"

Await(c, what) == pc' = [pc EXCEPT ![c] = what]

Return(c, result) ==
    /\ pc' = [pc EXCEPT ![c] = "returned"]
    /\ answer' = [answer EXCEPT ![c] = result]

Nothing == [kind |-> "nothing"]
Raised == [kind |-> "raised"]
NotFound == [kind |-> "not found"]
Created(id, confirmed) == [kind |-> "created", id |-> id, confirmed |-> confirmed]
Found(id, ticket, status) == [kind |-> "found", id |-> id, ticket |-> ticket, status |-> status]
Listed(rows) == [kind |-> "listed", rows |-> rows]

\* The ids a caller may quote: one that was given out, or a wrong one.
QuotedIds == {WRONG_ID} \cup {row.id : row \in tickets \cup mirror}
-----------------------------------------------------------------------------
Init ==
    /\ NotificationInit
    /\ tickets = {} /\ counter = 0 /\ mirror = {} /\ restarts = 0
    /\ pc = [c \in Call |-> "idle"]
    /\ args = [c \in Call |-> [customer |-> None, id |-> WRONG_ID]]
    /\ answer = [c \in Call |-> Nothing]

NewTicket(c, customer, id) ==
    [id |-> id, ticket |-> c, customer |-> customer, status |-> "new"]

\* create_ticket up to its first await: GLPI has the ticket.  A live GLPI may
\* also fail, with or without having opened it, and the tool raises.
CreateTicket(c) ==
    /\ pc[c] = "idle"
    /\ \E customer \in Customer :
          /\ args' = [args EXCEPT ![c] = [customer |-> customer, id |-> counter + 1]]
          /\ \/ /\ tickets' = tickets \cup {NewTicket(c, customer, counter + 1)}
                /\ counter' = counter + 1
                /\ Await(c, "mirror_create") /\ UNCHANGED answer
             \/ /\ CONNECTOR_MODE = "live"
                /\ \/ UNCHANGED <<tickets, counter>>
                   \/ /\ tickets' = tickets \cup {NewTicket(c, customer, counter + 1)}
                      /\ counter' = counter + 1
                /\ Return(c, Raised)
    /\ UNCHANGED <<mirror, restarts, notificationVars>>

\* mirror_create: a row that has the id already is left as it is.
MirrorCreate(c) ==
    /\ pc[c] = "mirror_create"
    /\ LET row == [NewTicket(c, args[c].customer, args[c].id) EXCEPT !.status = "open"]
       IN mirror' \in {mirror, IF WithId(mirror, row.id) = {} THEN mirror \cup {row} ELSE mirror}
    /\ Await(c, "confirmation")
    /\ UNCHANGED <<tickets, counter, args, answer, restarts, notificationVars>>

\* POST /notify: the service takes the request, or cannot be reached.
AskConfirmation(c) ==
    /\ pc[c] = "confirmation"
    /\ \/ c \in Notice /\ Notify(c) /\ UNCHANGED <<pc, answer>>
       \/ NoticeOf(c) = "none" /\ Return(c, Created(args[c].id, FALSE)) /\ UNCHANGED notificationVars
    /\ UNCHANGED <<tickets, counter, mirror, args, restarts>>

\* Mutant: any answer of the service counts as sent.
ConfirmOptimistic(c) ==
    /\ pc[c] = "confirmation" /\ NoticeOf(c) \in {"answered", "failed"}
    /\ Return(c, Created(args[c].id, TRUE))
    /\ UNCHANGED <<tickets, counter, mirror, args, restarts, notificationVars>>

\* The service has answered, 200 with sent=True or an error.
Confirm(c) ==
    /\ pc[c] = "confirmation" /\ NoticeOf(c) \in {"answered", "failed"}
    /\ Return(c, Created(args[c].id, NoticeOf(c) = "answered"))
    /\ UNCHANGED <<tickets, counter, mirror, args, restarts, notificationVars>>

\* Five seconds are over; the service goes on.
ConfirmTimesOut(c) ==
    /\ pc[c] = "confirmation" /\ NoticeOf(c) \in {"sending", "sent"}
    /\ Return(c, Created(args[c].id, FALSE))
    /\ UNCHANGED <<tickets, counter, mirror, args, restarts, notificationVars>>
-----------------------------------------------------------------------------
\* get_ticket_status asks the mirror; a failed read looks like a missing row.
GetTicketStatus(c) ==
    /\ pc[c] = "idle"
    /\ \E id \in QuotedIds :
          /\ args' = [args EXCEPT ![c] = [customer |-> None, id |-> id]]
          /\ \/ \E row \in WithId(mirror, id) : Return(c, Found(id, row.ticket, row.status))
             \/ Await(c, "status_fallback") /\ UNCHANGED answer
    /\ UNCHANGED <<tickets, counter, mirror, restarts, notificationVars>>

\* _client.get: a live GLPI may fail.
StatusFallback(c) ==
    /\ pc[c] = "status_fallback"
    /\ \/ \E row \in InGlpi(args[c].id) :
             Return(c, Found(row.id, row.ticket, Reported(row.status)))
       \/ InGlpi(args[c].id) = {} /\ Return(c, NotFound)
       \/ CONNECTOR_MODE = "live" /\ Return(c, Raised)
    /\ UNCHANGED <<tickets, counter, mirror, args, restarts, notificationVars>>

\* Mutant: an error of GLPI is taken for a missing ticket, and mirrored.
ResolveTicketSwallowing(c) ==
    /\ pc[c] = "idle"
    /\ \E id \in QuotedIds :
          /\ args' = [args EXCEPT ![c] = [customer |-> None, id |-> id]]
          /\ \/ /\ InGlpi(id) # {}
                /\ tickets' = Resolved(tickets, id)
                /\ Await(c, "mirror_resolve")
             \/ /\ UNCHANGED tickets
                /\ Await(c, "mirror_resolve_unknown")
    /\ UNCHANGED <<counter, mirror, answer, restarts, notificationVars>>

\* resolve_ticket up to its first await.  A live GLPI may fail, with or without
\* having resolved the ticket.
ResolveTicket(c) ==
    /\ pc[c] = "idle"
    /\ \E id \in QuotedIds :
          /\ args' = [args EXCEPT ![c] = [customer |-> None, id |-> id]]
          /\ \/ /\ InGlpi(id) # {}
                /\ tickets' = Resolved(tickets, id)
                /\ \/ Await(c, "mirror_resolve") /\ UNCHANGED answer
                   \/ CONNECTOR_MODE = "live" /\ Return(c, Raised)
             \/ /\ UNCHANGED tickets
                /\ \/ InGlpi(id) = {} /\ Await(c, "mirror_resolve_unknown") /\ UNCHANGED answer
                   \/ CONNECTOR_MODE = "live" /\ Return(c, Raised)
    /\ UNCHANGED <<counter, mirror, restarts, notificationVars>>

\* mirror_resolve, and the answer if GLPI knew the ticket.
MirrorResolve(c) ==
    /\ pc[c] \in {"mirror_resolve", "mirror_resolve_unknown"}
    /\ mirror' \in {mirror, Resolved(mirror, args[c].id)}
    /\ \/ /\ pc[c] = "mirror_resolve"
          /\ \E row \in WithId(tickets, args[c].id) : Return(c, Found(row.id, row.ticket, "resolved"))
       \/ /\ pc[c] = "mirror_resolve_unknown"
          /\ Await(c, "read_status") /\ UNCHANGED answer
    /\ UNCHANGED <<tickets, counter, args, restarts, notificationVars>>

\* Mutant: a ticket that GLPI does not know is reported resolved unseen.
ReadStatusAssuming(c) ==
    /\ pc[c] = "read_status"
    /\ Return(c, Found(args[c].id, None, "resolved"))
    /\ UNCHANGED <<tickets, counter, mirror, args, restarts, notificationVars>>

\* A ticket that GLPI does not know is reported resolved if the mirror has it.
ReadStatus(c) ==
    /\ pc[c] = "read_status"
    /\ \/ \E row \in WithId(mirror, args[c].id) : Return(c, Found(row.id, row.ticket, "resolved"))
       \/ Return(c, NotFound)
    /\ UNCHANGED <<tickets, counter, mirror, args, restarts, notificationVars>>

\* lookup_tickets asks the mirror; only a failed read leads to GLPI.
LookupTickets(c) ==
    /\ pc[c] = "idle"
    /\ \E customer \in Customer :
          /\ args' = [args EXCEPT ![c] = [customer |-> customer, id |-> WRONG_ID]]
          /\ \/ Return(c, Listed({row \in mirror : row.customer = customer}))
             \/ Await(c, "lookup_fallback") /\ UNCHANGED answer
    /\ UNCHANGED <<tickets, counter, mirror, restarts, notificationVars>>

\* list_for: nothing from a live GLPI, whose search is not bound.
LookupFallback(c) ==
    /\ pc[c] = "lookup_fallback"
    /\ Return(c, Listed({row \in tickets : CONNECTOR_MODE = "mock" /\ row.customer = args[c].customer}))
    /\ UNCHANGED <<tickets, counter, mirror, args, restarts, notificationVars>>
-----------------------------------------------------------------------------
\* In GLPI itself a ticket is solved, reopened or deleted; nothing tells the mirror.
AdvisorWorks ==
    /\ CONNECTOR_MODE = "live"
    /\ \E row \in tickets :
          \/ /\ row.status \in {"new", "reopened"}
             /\ tickets' = Marked(tickets, row.id, "resolved")
          \/ /\ row.status = "resolved"
             /\ tickets' = Marked(tickets, row.id, "reopened")
          \/ /\ row.status # "deleted"
             /\ tickets' = Marked(tickets, row.id, "deleted")
    /\ UNCHANGED <<counter, mirror, pc, args, answer, restarts, notificationVars>>

\* The MCP server restarts: its calls are lost, and with them the mock's tickets.
Restart ==
    /\ restarts < MaxRestarts
    /\ restarts' = restarts + 1
    /\ pc' = [c \in Call |-> IF pc[c] = "idle" THEN "idle" ELSE "returned"]
    /\ tickets' = IF CONNECTOR_MODE = "live" THEN tickets ELSE {}
    /\ counter' = IF CONNECTOR_MODE = "live" THEN counter ELSE 0
    /\ UNCHANGED <<mirror, args, answer, notificationVars>>

ToolStep(c) ==
    \/ CreateTicket(c) \/ MirrorCreate(c) \/ AskConfirmation(c) \/ Confirm(c) \/ ConfirmTimesOut(c)
    \/ GetTicketStatus(c) \/ StatusFallback(c)
    \/ ResolveTicket(c) \/ MirrorResolve(c) \/ ReadStatus(c)
    \/ LookupTickets(c) \/ LookupFallback(c)

Next ==
    \/ \E c \in Call : ToolStep(c)
    \/ \E n \in Notice : NotificationStep(n) /\ UNCHANGED deskVars
    \/ AdvisorWorks
    \/ Restart

Spec == Init /\ [][Next]_vars
-----------------------------------------------------------------------------
\* "new" and "open" say that the ticket was never solved, "reopened" that it was.
Status == {"new", "open", "resolved", "reopened", "deleted"}
Rows == [id : Nat, ticket : Call, customer : Customer, status : Status]

\* The desk holds rows of the right shape, and at most one per id.
TypeOK ==
    /\ tickets \subseteq Rows /\ mirror \subseteq Rows
    /\ \A r, s \in mirror : r.id = s.id => r = s
    /\ counter \in Nat /\ restarts \in 0..MaxRestarts
    /\ DOMAIN pc = Call /\ DOMAIN args = Call /\ DOMAIN answer = Call
    /\ texts \subseteq Notice /\ log \subseteq Notice

\* GLPI opened the ticket under that id, and if it is said to be resolved, GLPI
\* has had it so, or has deleted it.
TrueOf(id, ticket, status) ==
    \E truth \in WithId(tickets, id) :
        truth.ticket = ticket /\ (status = "resolved" => truth.status # "new")

\* "GLPI remains the source of truth" (mirror.py:3): whatever fails, races or
\* restarts, a row of the mirror is of the ticket, and the customer, that GLPI gave
\* the id to, and says "resolved" of no ticket that GLPI still has and never had
\* resolved.  No more is promised: a row goes on saying "resolved" after an advisor
\* has reopened the ticket, and "open" after one has solved it or mirror_resolve
\* has failed; and a ticket that GLPI has deleted becomes "resolved" when it is asked to.
MirrorFollowsGlpi ==
    \A row \in mirror :
        /\ TrueOf(row.id, row.ticket, row.status)
        /\ \A truth \in WithId(tickets, row.id) : truth.customer = row.customer

\* The tickets that an answer tells of.
Told(result) ==
    CASE result.kind = "found" -> {result}
      [] result.kind = "listed" -> result.rows
      [] OTHER -> {}

\* Whoever is told of a ticket, by status, resolution or list, from GLPI, the
\* mirror or a fallback, is told of the one that GLPI opened under that id, and is
\* told that it is resolved only if GLPI has had it so, or has deleted it: then
\* resolve_ticket reports it resolved, and the mirror goes on saying so.
AnswersFollowGlpi ==
    \A c \in Call : \A row \in Told(answer[c]) : TrueOf(row.id, row.ticket, row.status)

\* A written confirmation the caller is promised, and every row of the dispatch
\* log, is of a message that left, however late the answers came.
ConfirmationsLeft ==
    /\ \A c \in Call : answer[c].kind = "created" /\ answer[c].confirmed => c \in texts
    /\ log \subseteq texts

\* "Survives restarts when a DB is present" (PERSISTENCE-P5-README.md:13): asked
\* for the reference that create_ticket gave out, the server tells of the ticket
\* that was opened under it.
ReferenceNamesTicket ==
    \A c, d \in Call :
        /\ answer[c].kind = "created" /\ answer[d].kind = "found"
        /\ answer[c].id = answer[d].id
        => answer[d].ticket = c
=============================================================================
