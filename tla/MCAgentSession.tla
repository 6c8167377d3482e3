--------------------------- MODULE MCAgentSession ---------------------------
(***************************************************************************)
(* Two processes at one session: a starter that may die and come back, and *)
(* a second that attaches.                                                 *)
(***************************************************************************)
EXTENDS AgentSession

CONSTANTS up, send

=============================================================================
