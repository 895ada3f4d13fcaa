---------------------------- MODULE MCAgentTask ----------------------------
(* Instances of AgentTask for TLC: two parallel nodes, then the saving node. *)
EXTENDS AgentTask

CONSTANTS evidenceA, evidenceB, persist

MCNodes == {evidenceA, evidenceB, persist}
MCStage == [n \in MCNodes |-> IF n = persist THEN 2 ELSE 1]
=============================================================================
