---------------------------- MODULE MCAgentLife ----------------------------
(* The instance of AgentLife that TLC checks. *)
EXTENDS AgentLife
=============================================================================
