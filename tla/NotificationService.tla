------------------------- MODULE NotificationService -------------------------
(***************************************************************************)
(* notification-service: POST /notify renders a message, hands it to the   *)
(* channel's provider and logs it (service.py, channels.py).  The request  *)
(* is one coroutine; its client may stop waiting, the service does not     *)
(* notice.  Languages and texts are wording and are left out.              *)
(***************************************************************************)

CONSTANTS Notice  \* the requests that may be made

VARIABLES notice,  \* how far the service is with each request
          texts,   \* the messages that the provider has accepted
          log      \* billing.notifications: the rows, all with status "sent"

notificationVars == <<notice, texts, log>>

NotificationInit ==
    /\ notice = [n \in Notice |-> "none"]
    /\ texts = {} /\ log = {}

Reach(n, where) == notice' = [notice EXCEPT ![n] = where]

\* The request arrives; a service that is down never sees it.
Notify(n) ==
    /\ notice[n] = "none"
    /\ Reach(n, "sending")
    /\ UNCHANGED <<texts, log>>

\* channel.send: the provider accepts the message, or it raises, in time or
\* after having accepted, and the request ends with an error.
Send(n) ==
    /\ notice[n] = "sending"
    /\ \/ texts' = texts \cup {n} /\ Reach(n, "sent")
       \/ texts' \in {texts, texts \cup {n}} /\ Reach(n, "failed")
    /\ UNCHANGED log

\* _persist in a thread: the write may fail, and the send is reported all the same.
Persist(n) ==
    /\ notice[n] = "sent"
    /\ log' \in {log, log \cup {n}}
    /\ Reach(n, "answered")
    /\ UNCHANGED texts

NotificationStep(n) == Send(n) \/ Persist(n)
=============================================================================
