----------------------------- MODULE TaskStream -----------------------------
(***************************************************************************)
(* A browser that watches an agent task while the task is being written:   *)
(* the graph panel fetches the board, follows the server-sent events from  *)
(* there, and falls back to polling when the stream ends or breaks.        *)
(*                                                                         *)
(* The server side of the stream is a loop of two reads of the document,   *)
(* first its status, then its events after the cursor.  The task and its   *)
(* writers are those of AgentTask.                                         *)
(***************************************************************************)
EXTENDS AgentTask, FiniteSetsExt

CONSTANT StreamBreaks  \* how often the stream may break by itself

ASSUME TaskStreamAssumption == StreamBreaks \in Nat

VARIABLES
  panel,    \* what the panel is doing
  view,     \* the status of each node it shows, or no board
  cursor,   \* last_seq of the stream
  idle,     \* ticks without an event
  seen,     \* the status the current tick of the server has read
  breaks

panelVars == <<panel, view, cursor, idle, seen, breaks>>

Panels == {"closed", "tick", "events", "ended", "polling", "done"}
-----------------------------------------------------------------------------
\* Mutant: node_failed is not handled.
ApplyNoFailure(v, e) ==
  IF e.type \in {"node_started", "node_finished"} THEN [v EXCEPT ![e.node] = e.status] ELSE v

\* applyGraphEvent, node by node
ApplyGraphEvent(v, e) ==
  CASE e.type \in {"node_started", "node_finished", "node_failed"} -> [v EXCEPT ![e.node] = e.status]
    [] e.type = "graph_failed" -> [n \in Nodes |-> IF v[n] = "running" THEN "failed" ELSE v[n]]
    [] OTHER -> v

\* the places in the log of the events that are sent
ListGraphEvents(after) == {k \in DOMAIN doc.events : doc.events[k].seq > after}

\* what the panel shows when it has got those of the first k events that are new, one
\* by one
Showing(v, new, events) ==
  LET shown[k \in 0 .. Len(events)] ==
        IF k = 0 THEN v
        ELSE IF k \in new THEN ApplyGraphEvent(shown[k - 1], events[k]) ELSE shown[k - 1]
  IN  shown

Ended(status, ticks) == status \in Terminal /\ ticks >= 2

\* The snapshot of a task is null until init_graph_progress has stored one, and no event
\* makes a board of it (the first line of applyGraphEvent).
NoBoard == [n \in {} |-> "pending"]
GraphSnapshot(d) == IF d.seq = 0 THEN NoBoard ELSE d.node

\* openGraph: the task's status is the one of the list the panel sits in
OpenGraph ==
  /\ panel = "closed"
  /\ view' = GraphSnapshot(doc)
  /\ cursor' = doc.seq
  /\ \/ doc.status \in Terminal /\ panel' = "done"
     \/ panel' = "tick"
  /\ UNCHANGED <<idle, seen, breaks>>

\* Mutant: a closed task ends the stream before its events are read.
ReadStatusAndEnd ==
  /\ panel = "tick"
  /\ seen' = doc.status
  /\ panel' = IF doc.status \in Terminal THEN "ended" ELSE "events"
  /\ UNCHANGED <<view, cursor, idle, breaks>>

\* a tick of the server: the status first
ReadStatus ==
  /\ panel = "tick"
  /\ seen' = doc.status
  /\ panel' = "events"
  /\ UNCHANGED <<view, cursor, idle, breaks>>

\* then the events
ReadEvents ==
  /\ panel = "events"
  /\ LET new == ListGraphEvents(cursor) IN
     /\ view' = IF view = NoBoard THEN view ELSE Showing(view, new, doc.events)[Len(doc.events)]
     /\ cursor' = Max({cursor} \cup {doc.events[k].seq : k \in new})
     /\ idle' = IF new # {} THEN 0 ELSE IF idle < 2 THEN idle + 1 ELSE idle
     /\ panel' = IF Ended(seen, idle') THEN "ended" ELSE "tick"
  /\ UNCHANGED <<seen, breaks>>

\* the connection breaks, or a read of the server raises
StreamBreak ==
  /\ panel \in {"tick", "events"}
  /\ breaks < StreamBreaks
  /\ breaks' = breaks + 1
  /\ panel' = "ended"
  /\ UNCHANGED <<view, cursor, idle, seen>>

\* onerror, which the end of the stream triggers as well
StartPolling ==
  /\ panel = "ended"
  /\ panel' = "polling"
  /\ UNCHANGED <<view, cursor, idle, seen, breaks>>

\* Mutant: only a completed task ends the polling.
PollUntilCompleted ==
  /\ panel = "polling"
  /\ view' = GraphSnapshot(doc)
  /\ panel' = IF doc.status = "completed" THEN "done" ELSE "polling"
  /\ UNCHANGED <<cursor, idle, seen, breaks>>

Poll ==
  /\ panel = "polling"
  /\ view' = GraphSnapshot(doc)
  /\ panel' = IF doc.status \in Terminal THEN "done" ELSE "polling"
  /\ UNCHANGED <<cursor, idle, seen, breaks>>

PanelStep == ReadStatus \/ ReadEvents \/ StartPolling \/ Poll
-----------------------------------------------------------------------------
streamVars == <<vars, panelVars>>

StreamInit ==
  /\ Init
  /\ panel = "closed"
  /\ view = NoBoard
  /\ cursor = 0
  /\ idle = 0
  /\ seen = "queued"
  /\ breaks = 0

StreamNext ==
  \/ Next /\ UNCHANGED panelVars
  \/ (OpenGraph \/ PanelStep \/ StreamBreak) /\ UNCHANGED vars

StreamSpec == StreamInit /\ [][StreamNext]_streamVars

FairStreamSpec ==
  /\ StreamSpec
  /\ WF_streamVars(RunnerStep /\ UNCHANGED panelVars)
  /\ \A n \in Nodes : WF_streamVars(NodeStep(n) /\ UNCHANGED panelVars)
  /\ WF_streamVars(Restart /\ UNCHANGED panelVars)
  /\ WF_streamVars(PanelStep /\ UNCHANGED vars)
-----------------------------------------------------------------------------
\* Every variable keeps its type.
StreamTypeOK ==
  /\ panel \in Panels
  /\ view \in [Nodes -> NodeStatus] \cup {NoBoard}
  /\ cursor \in Nat
  /\ idle \in 0 .. 2
  /\ seen \in TaskStatus
  /\ breaks \in 0 .. StreamBreaks

\* A panel that has followed the stream up to the document's counter shows the
\* board: events and snapshot are two ways to the same nodes, also when nodes
\* run in parallel.  A report that was lost to a fault is made up for by
\* sync_graph_from_run_trace, whose event applyGraphEvent ignores; a panel that
\* was opened before there was a board shows none until it polls.
CaughtUpMeansSame ==
  faults = 0 /\ panel \in {"tick", "events"} /\ cursor = doc.seq => view \in {doc.node, NoBoard}

\* The server ends the stream only when it has delivered the last event.
StreamEndsComplete == panel = "ended" /\ breaks = 0 => cursor = doc.seq

\* A panel that was opened ends up showing the final board of a closed task.
PanelSettles ==
  (panel # "closed") ~> [](panel = "done" /\ doc.status \in Terminal /\ view = GraphSnapshot(doc))
=============================================================================
