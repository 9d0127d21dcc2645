--------------------------- MODULE MCAgentSession ---------------------------
(* AgentSession with three requests of any kinds. *)
EXTENDS AgentSession

MCRequests == 1..3
MCKinds == {"try", "restart", "tool", "run", "end"}
=============================================================================
