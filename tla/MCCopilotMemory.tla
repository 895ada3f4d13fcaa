-------------------------- MODULE MCCopilotMemory --------------------------
(* Instances of CopilotMemory for TLC: a conversation that is about to be   *)
(* summarised for the first time, or that was not while the model was down. *)
EXTENDS CopilotMemory, TLC

CONSTANTS send1, send2, answer, rebuild, title

TwoSends == {send1, send2}
Short    == {7, 9, 11, 17}
Symmetry == Permutations(TwoSends)
=============================================================================
