---------------------------- MODULE CallJournal ----------------------------
(***************************************************************************)
(* What the record of a call promises: the entries of a call are taken one *)
(* by one in the order in which they were made, and each is stored before  *)
(* the next one is taken or never at all.  An outage loses entries; nothing*)
(* reorders, repeats or invents them.                                      *)
(***************************************************************************)
EXTENDS Integers

VARIABLES made,    \* how many entries the call has made
          taken,   \* how many of them have been taken
          stored   \* the entries that are in the record

vars == <<made, taken, stored>>

Init == made \in Nat /\ taken = 0 /\ stored = {}

\* A caller's turn makes two entries at once: the turn and its sentiment.
Make == \E k \in 1..2 : made' = made + k /\ UNCHANGED <<taken, stored>>

Take == taken < made /\ taken' = taken + 1 /\ UNCHANGED <<made, stored>>

Store ==
    /\ taken > 0 /\ taken \notin stored
    /\ stored' = stored \cup {taken}
    /\ UNCHANGED <<made, taken>>

Next == Make \/ Take \/ Store

Spec == Init /\ [][Next]_vars
=============================================================================
