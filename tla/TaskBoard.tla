----------------------------- MODULE TaskBoard -----------------------------
(***************************************************************************)
(* What a task document promises the people who watch it: the status goes  *)
(* queued, running, and to one final verdict; a report changes one node,   *)
(* and only forwards; whatever changes on the board raises the counter; a  *)
(* task is not completed while a node is still shown running.              *)
(* There are no copies, locks, threads or processes here: AgentTask        *)
(* implements this with whole-document reads and writes.                   *)
(***************************************************************************)
EXTENDS Integers

CONSTANT Nodes

VARIABLES status, node, seq

Final == {"success", "fallback", "failed"}

Init ==
  /\ status = "queued"
  /\ node = [n \in Nodes |-> "pending"]
  /\ seq = 0

Open ==
  /\ status = "queued"
  /\ status' = "running"
  /\ UNCHANGED <<node, seq>>

\* one node moves one step forward
Report(n) ==
  /\ \/ node[n] = "pending" /\ node' = [node EXCEPT ![n] = "running"]
     \/ node[n] = "running" /\ \E s \in Final : node' = [node EXCEPT ![n] = s]
  /\ seq' > seq
  /\ UNCHANGED status

\* an announcement about the whole graph; it may settle nodes, never reopen one
Announce ==
  /\ \E settled \in SUBSET Nodes : \E final \in [settled -> Final] :
       node' = [n \in Nodes |-> IF n \in settled THEN final[n] ELSE node[n]]
  /\ seq' > seq
  /\ UNCHANGED status

Close(verdict) ==
  /\ status \in {"queued", "running"}
  /\ verdict = "completed" => \A n \in Nodes : node[n] # "running"
  /\ status' = verdict
  /\ UNCHANGED <<node, seq>>

Next ==
  \/ Open
  \/ \E n \in Nodes : Report(n)
  \/ Announce
  \/ \E v \in {"completed", "failed"} : Close(v)

Spec == Init /\ [][Next]_<<status, node, seq>>
=============================================================================
