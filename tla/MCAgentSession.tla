--------------------------- MODULE MCAgentSession ---------------------------
(* A call with three turns, one callback that may be confirmed, one advisor.  *)
EXTENDS AgentSession
=============================================================================
