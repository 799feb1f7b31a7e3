----------------------------- MODULE MCAgentLoop -----------------------------
(* Instance of AgentLoop for TLC. *)
EXTENDS AgentLoop

MCPeriod == [s \in Sensors |-> IF s = "psi" THEN 1 ELSE IF s = "cpu" THEN 2 ELSE 3]
=============================================================================
