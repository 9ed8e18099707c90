---------------------------- MODULE MCAgentLoop ----------------------------
(* Finite instances of AgentLoop for TLC. *)
EXTENDS AgentLoop

Two == {1, 2}
Three == {1, 2, 3}
=============================================================================
