-------------------------- MODULE MCExecutionService --------------------------
(* Two tries of one request and an unrelated one, under two verdicts. *)
EXTENDS ExecutionService, TLC

CONSTANTS r1, r2, r3, e1, e2, k1, k2

MCKeyOf == r1 :> k1 @@ r2 :> k1 @@ r3 :> k2
MCVerdictOf == r1 :> e1 @@ r2 :> e1 @@ r3 :> e2
=============================================================================
