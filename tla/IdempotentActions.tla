-------------------------- MODULE IdempotentActions --------------------------
(***************************************************************************)
(* What execution-service promises its callers: an idempotency key stands  *)
(* for at most one recorded action, and every call with that key that is   *)
(* answered is answered with the reference of that one action.             *)
(***************************************************************************)
CONSTANTS Request, Key, KeyOf, NoAnswer

VARIABLES done,   \* the reference recorded for each key, if any
          answer  \* the reference each request has returned, if any

Init ==
    /\ done = [k \in Key |-> NoAnswer]
    /\ answer = [r \in Request |-> NoAnswer]

Perform(r) ==
    /\ done[KeyOf[r]] = NoAnswer
    /\ done' = [done EXCEPT ![KeyOf[r]] = r]
    /\ UNCHANGED answer

Answer(r) ==
    /\ done[KeyOf[r]] # NoAnswer
    /\ answer[r] = NoAnswer
    /\ answer' = [answer EXCEPT ![r] = done[KeyOf[r]]]
    /\ UNCHANGED done

Next == \E r \in Request : Perform(r) \/ Answer(r)

Spec == Init /\ [][Next]_<<done, answer>>
=============================================================================
