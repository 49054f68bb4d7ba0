----------------------------- MODULE MCTicketing -----------------------------
(* Three tool calls by two customers and one restart of the server; the calls  *)
(* differ in that one alone may reach notification-service, the customers in   *)
(* nothing.                                                                     *)
EXTENDS Ticketing, TLC

Symmetry == Permutations(Call \ Notice) \cup Permutations(Customer)
=============================================================================
