----------------------------- MODULE MCRetention -----------------------------
(* Two runs of the job and one transaction of another service. *)
EXTENDS Retention, TLC

CONSTANTS p1, p2, x1, t1, t2

Calls == {1, 2}
MCSessionOf == t1 :> 1 @@ t2 :> 2
MCEvent == SUBSET Turn
=============================================================================
