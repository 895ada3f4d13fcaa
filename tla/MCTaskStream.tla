---------------------------- MODULE MCTaskStream ----------------------------
(* Instances of TaskStream for TLC: an evidence node beside the saving node. *)
EXTENDS TaskStream

CONSTANTS evidence, persist

MCNodes == {evidence, persist}
MCStage == [n \in MCNodes |-> 1]
=============================================================================
