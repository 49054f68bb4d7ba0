----------------------------- MODULE AgentSession -----------------------------
(***************************************************************************)
(* One call as the agent worker conducts it: the personas and the tools    *)
(* that pass the caller on (agents/, tools/escalation_tools.py,            *)
(* tools/routing_tools.py, telephony/sip_transfer.py), the tasks that      *)
(* take the floor from a persona (tasks/), the caller's mood               *)
(* (sentiment/sentiment_scorer.py), and what of it reaches the writer and  *)
(* notification-service, until the call is hung up, which it may be at any *)
(* moment.                                                                 *)
(*                                                                         *)
(* The language model calls one tool at a time, any tool its persona has,  *)
(* in any order; what it says is left out.  A caller's turn is its mood.   *)
(***************************************************************************)
EXTENDS ConversationWriter, NotificationService

CONSTANTS Advisors,  \* who the routing service may find; none in the pilot
          MaxTurns   \* a bound: the caller's turns

ASSUME SessionAssumption ==
    /\ MaxTurns \in Nat
    /\ Notice = Callback
    /\ Callback \cap (Decision \cup {"unknown", "none"} \cup Label \cup Trigger) = {}

VARIABLES known,    \* a customer_context was prefetched
          persona,  \* the active persona
          floor,    \* who talks with the caller, see Floor
          turns,    \* the caller's turns that a persona has heard
          asked,    \* the callbacks the caller has agreed to so far
          callback, \* the one of them that is being confirmed, or "none"
          recording_consent, consecutive_negative_turns,
          should_offer_escalation  \* SessionUserData

userData == <<recording_consent, consecutive_negative_turns, should_offer_escalation>>
sessionVars == <<known, persona, floor, turns, asked, callback, userData>>
vars == <<writerVars, notificationVars, sessionVars>>

\* BillingAgent and TechnicalAgent can do the same here: "specialist".
Persona == {"triage", "specialist", "manager"}

\* The persona, a task in its place, transfer_to_human in its awaits, or nobody.
Floor == {"persona", "consent", "offering", "confirming", "transferring", "gone"}

\* Once the job shuts down the caller is gone and no tool is called any more.
OnCall == closing = "open"

Init ==
    /\ WriterInit /\ NotificationInit
    /\ known \in BOOLEAN
    /\ persona = "triage" /\ floor = "consent" /\ turns = 0
    /\ asked = {} /\ callback = "none"
    /\ recording_consent = "unknown"
    /\ consecutive_negative_turns = 0 /\ should_offer_escalation = FALSE
-----------------------------------------------------------------------------
\* ConsentTask.record_consent; the triage agent has waited for it before it greets.
RecordConsent(decision) ==
    /\ OnCall /\ floor = "consent"
    /\ recording_consent' = decision
    /\ Record(<<NewItem(1, "consent", decision)>>)
    /\ floor' = "persona"
    /\ UNCHANGED <<notificationVars, known, persona, turns, asked, callback,
                   consecutive_negative_turns, should_offer_escalation>>

ESCALATE_AFTER == 2

\* Mutant: a turn that is not negative leaves the streak as it is.
ScoreSticky(label) ==
    /\ consecutive_negative_turns' =
          consecutive_negative_turns + (IF label = "negative" THEN 1 ELSE 0)
    /\ should_offer_escalation' = (consecutive_negative_turns' >= ESCALATE_AFTER)

\* LexicalSentimentScorer.score.
Score(label) ==
    /\ consecutive_negative_turns' =
          IF label = "negative" THEN consecutive_negative_turns + 1 ELSE 0
    /\ should_offer_escalation' = (consecutive_negative_turns' >= ESCALATE_AFTER)

\* Mutant: the tasks inherit the observer, too.
UserTurnHeardByTasks(label) ==
    /\ OnCall /\ floor # "gone" /\ turns < MaxTurns
    /\ turns' = turns + 1
    /\ Score(label)
    /\ Record(<<NewItem(1, "turn", "none"), NewItem(2, "sentiment", label)>>)
    /\ UNCHANGED <<notificationVars, known, persona, floor, asked, callback, recording_consent>>

\* on_user_turn_completed: the score first, then record_turn and record_sentiment.
\* It is BaseTelecomAgent's: a task is no persona, and what the caller says to it
\* is not observed; nor is anything while transfer_to_human disallows interruptions.
UserTurn(label) ==
    /\ OnCall /\ floor = "persona" /\ turns < MaxTurns
    /\ turns' = turns + 1
    /\ Score(label)
    /\ Record(<<NewItem(1, "turn", "none"), NewItem(2, "sentiment", label)>>)
    /\ UNCHANGED <<notificationVars, known, persona, floor, asked, callback, recording_consent>>

\* A tool of the personas that is called while nothing else has the floor.
ToolCall(personas) == OnCall /\ floor = "persona" /\ persona \in personas

\* route_to_billing and route_to_technical.
Route ==
    /\ ToolCall({"triage"})
    /\ persona' = "specialist"
    /\ UNCHANGED <<writerVars, notificationVars, known, floor, turns, asked, callback, userData>>

\* _trigger_for; GuardedAction has the counters that tell the other triggers apart.
TriggerFor == IF should_offer_escalation THEN "frustration" ELSE "any other"

\* Mutant: the hand-off alone; the manager is to record the case.
EscalateUnrecorded ==
    /\ ToolCall(Persona \ {"manager"})
    /\ persona' = "manager"
    /\ UNCHANGED <<writerVars, notificationVars, known, floor, turns, asked, callback, userData>>

\* escalate_to_manager, which every persona but the manager has.
EscalateToManager ==
    /\ ToolCall(Persona \ {"manager"})
    /\ Record(<<NewItem(1, "escalation", TriggerFor)>>)
    /\ persona' = "manager"
    /\ UNCHANGED <<notificationVars, known, floor, turns, asked, callback, userData>>
-----------------------------------------------------------------------------
\* transfer_to_human: the caller is told to hold.
TransferToHuman ==
    /\ ToolCall({"manager"})
    /\ floor' = "transferring"
    /\ UNCHANGED <<writerVars, notificationVars, known, persona, turns, asked, callback, userData>>

\* The advisor that was resolved takes over: the session ends for the worker.
Transferred ==
    /\ OnCall /\ floor = "transferring" /\ Advisors # {}
    /\ floor' = "gone"
    /\ UNCHANGED <<writerVars, notificationVars, known, persona, turns, asked, callback, userData>>

\* No advisor is free, or the SIP transfer raises: CallbackScheduleTask.
OfferCallback ==
    /\ OnCall /\ floor = "transferring"
    /\ floor' = "offering"
    /\ UNCHANGED <<writerVars, notificationVars, known, persona, turns, asked, callback, userData>>

DeclineCallback ==
    /\ OnCall /\ floor = "offering"
    /\ floor' = "persona"
    /\ UNCHANGED <<writerVars, notificationVars, known, persona, turns, asked, callback, userData>>

\* record_callback of a known customer, up to the await: the request for the
\* confirmation leaves, and reaches its service or does not.
AskConfirmation(n) ==
    /\ OnCall /\ floor = "offering" /\ known
    /\ n \notin asked /\ asked' = asked \cup {n}
    /\ \/ Notify(n)
       \/ UNCHANGED notificationVars
    /\ floor' = "confirming" /\ callback' = n
    /\ UNCHANGED <<writerVars, known, persona, turns, userData>>

\* Mutant: a confirmation that was not sent raises into the task.
ScheduleIfSent(n) ==
    /\ closing # "returned"
    /\ \/ floor = "offering" /\ ~known /\ OnCall /\ n \notin asked
       \/ floor = "confirming" /\ callback = n
    /\ asked' = asked \cup {n}
    /\ \/ Record(<<NewItem(1, "callback", n)>>)
       \/ floor = "confirming" /\ UNCHANGED writerVars
    /\ floor' = "persona" /\ callback' = "none"
    /\ UNCHANGED <<notificationVars, known, persona, turns, userData>>

\* The rest of record_callback, at once for an unknown caller: NotificationClient
\* has answered, with whatever result, after four seconds at the latest.  A tool
\* that waits when the job shuts down may return before the process ends.
Schedule(n) ==
    /\ closing # "returned"
    /\ \/ floor = "offering" /\ ~known /\ OnCall /\ n \notin asked
       \/ floor = "confirming" /\ callback = n
    /\ asked' = asked \cup {n}
    /\ Record(<<NewItem(1, "callback", n)>>)
    /\ floor' = "persona" /\ callback' = "none"
    /\ UNCHANGED <<notificationVars, known, persona, turns, userData>>

\* The job shuts down, whoever has the floor.
HangUp ==
    /\ FinishConversation(recording_consent)
    /\ UNCHANGED <<notificationVars, sessionVars>>

Conversation ==
    \/ \E decision \in Decision : RecordConsent(decision)
    \/ \E label \in Label : UserTurn(label)
    \/ Route \/ EscalateToManager
    \/ TransferToHuman \/ Transferred \/ OfferCallback \/ DeclineCallback
    \/ \E n \in Notice : AskConfirmation(n) \/ Schedule(n)
    \/ HangUp

\* A step of the writer leaves the session alone.
Aside(step) == step /\ UNCHANGED <<notificationVars, sessionVars>>

Next ==
    \/ Conversation
    \/ Aside(WriterStep)
    \/ \E n \in Notice : NotificationStep(n) /\ UNCHANGED <<writerVars, sessionVars>>

\* aclose waits for a task or a timer, and the event loop runs both; the database
\* owes nothing, nor do the caller, the language model and notification-service.
Spec == Init /\ [][Next]_vars
FairSpec == Spec /\ WF_vars(Aside(CloseReturns \/ CloseTimesOut))
-----------------------------------------------------------------------------
\* Type correctness of the session, its writer and the service it calls.
TypeOK ==
    /\ WriterTypeOK
    /\ notice \in [Notice -> {"none", "sending", "sent", "answered", "failed"}]
    /\ texts \subseteq Notice /\ log \subseteq Notice
    /\ known \in BOOLEAN /\ persona \in Persona /\ floor \in Floor
    /\ turns \in 0..MaxTurns /\ asked \subseteq Notice /\ callback \in Notice \cup {"none"}
    /\ recording_consent \in Decision \cup {"unknown"}
    /\ consecutive_negative_turns \in 0..MaxTurns /\ should_offer_escalation \in BOOLEAN

\* Every item the session has made, wherever it has got to.
Made ==
    {queue[i] : i \in DOMAIN queue} \cup {thread} \cup stored \cup dropped

\* "Before anything else" (consent_task.py:18): whatever of the conversation is
\* in the record comes after the caller's decision about recording.
ConsentFirst ==
    \A item \in stored : RefersToCall(item) =>
        \E consent \in stored \cup dropped : consent.kind = "consent" /\ consent.n < item.n

SentimentsBefore(item) == {s \in Made : s.kind = "sentiment" /\ s.n < item.n}

\* The two sentiments next before the item, if there are two, are negative.
LastTwoNegative(item) ==
    \E s, t \in SentimentsBefore(item) :
        /\ s.n < t.n /\ s.value = "negative" /\ t.value = "negative"
        /\ \A u \in SentimentsBefore(item) : u.n <= s.n \/ u = t

\* An escalation is on record for frustration if and only if the record shows the
\* caller negative in the last two turns before it, across hand-offs.
FrustrationShown ==
    \A item \in stored : item.kind = "escalation" =>
        (item.value = "frustration" <=> LastTwoNegative(item))

\* A callback on record belongs to an escalated call: the manager, who alone can
\* offer it, is reached only through a case that was queued for the record first.
CallbackEscalated ==
    \A item \in stored : item.kind = "callback" =>
        \E case \in stored \cup dropped : case.kind = "escalation" /\ case.n < item.n

\* A callback that was confirmed to the caller in writing has been handed to the
\* writer, unless the task is still waiting for the confirmation's answer.
ConfirmedIsScheduled ==
    \A n \in texts :
        \/ floor = "confirming" /\ callback = n
        \/ \E item \in Made : item.kind = "callback" /\ item.value = n
=============================================================================
