----------------------------- MODULE AgentTask -----------------------------
(***************************************************************************)
(* One agent task document in Elasticsearch and everybody who writes it.   *)
(*                                                                         *)
(*   the request      creates the document and its graph board             *)
(*   the runner       the background task: marks the task running, runs    *)
(*                    the LangGraph, synchronises the board, closes it     *)
(*   the node threads nodes of one superstep run in parallel and report    *)
(*                    through the progress reporter, under a lock that     *)
(*                    lives in the process                                 *)
(*   the startup hook of any backend worker: fails running/queued tasks    *)
(*                                                                         *)
(* Every repository call is a GET of the whole document followed by an     *)
(* INDEX of the whole document: two steps here, with the copy in between.  *)
(* Only the startup hook is an atomic server-side update.                  *)
(***************************************************************************)
EXTENDS Integers, Sequences

CONSTANTS
  Nodes,           \* the nodes of the agent's graph
  Stage,           \* [Nodes -> Nat]: the superstep a node runs in
  Persist,         \* the node that saves the result document
  MaxGraphEvents,  \* length of the event window kept in the document
  FallbackFails,   \* TRUE: daily review and risk routes; FALSE: trade decision and trade review
  OtherStarts,     \* how often another worker process may start up
  EsFaults,        \* how many Elasticsearch calls may raise
  MayCrash,        \* TRUE: the process that owns the task may die
  Runner, Nobody, NoDoc

ASSUME AgentTaskAssumption ==
  /\ Persist \in Nodes
  /\ Runner \notin Nodes
  /\ Nobody \notin Nodes
  /\ Stage \in [Nodes -> Nat]
  /\ MaxGraphEvents \in Nat \ {0}
  /\ OtherStarts \in Nat
  /\ EsFaults \in Nat
  /\ FallbackFails \in BOOLEAN
  /\ MayCrash \in BOOLEAN

VARIABLES
  doc,       \* the task document as stored
  op,        \* the repository call the request, then the runner, is at
  result,    \* what the agent returned to the runner
  pc,        \* where each node thread is
  outcome,   \* what the body of each node came to
  copy,      \* the document a thread has read and not yet written back
  lock,      \* holder of the task's update lock
  crashed,   \* the owning process is gone
  starts, faults  \* startups of other workers and Elasticsearch faults so far

vars == <<doc, op, result, pc, outcome, copy, lock, crashed, starts, faults>>

Threads == Nodes \cup {Runner}

TaskStatus == {"queued", "running", "completed", "failed"}
Terminal   == {"completed", "failed"}
ErrorCodes == {"none", "BACKEND_RESTART", "GRAPH_FAILED", "TASK_FAILED"}
Finished   == {"success", "fallback", "failed"}
NodeStatus == Finished \cup {"pending", "running"}
EventTypes == {"graph_initialized", "node_started", "node_finished",
               "node_failed", "graph_synced", "graph_failed"}

Subjects == Nodes \cup {Nobody}

Event == [seq: Nat, type: EventTypes, node: Subjects, status: NodeStatus]

Doc == [status: TaskStatus,
        error: ErrorCodes,
        seq: Nat,
        node: [Nodes -> NodeStatus],
        graph: NodeStatus,
        current: SUBSET Nodes,
        events: Seq(Event)]

Ops == {"init_graph_progress", "mark_running", "graph", "reporter_graph_failed",
        "sync_graph", "mark_closed", "mark_graph_failed", "mark_failed", "end"}
Results == {"none", "saved", "saved_fallback", "fallback", "fallback_no_id"}
NodePcs == {"idle", "starting", "body", "returned", "ending", "done"}
-----------------------------------------------------------------------------
(***************************************************************************)
(* What the repository calls make of the document they have read.          *)
(***************************************************************************)
NewTask == [status |-> "queued", error |-> "none", seq |-> 0,
            node |-> [n \in Nodes |-> "pending"], graph |-> "pending",
            current |-> {}, events |-> <<>>]

\* events[-MAX_GRAPH_EVENTS:]
Window(s) == IF Len(s) <= MaxGraphEvents THEN s
             ELSE SubSeq(s, Len(s) - MaxGraphEvents + 1, Len(s))

AppendGraphEvent(d, t, n, s) ==
  [d EXCEPT !.seq = d.seq + 1,
            !.events = Window(Append(d.events,
               [seq |-> d.seq + 1, type |-> t, node |-> n, status |-> s]))]

\* _set_snapshot takes one number of the sequence, the event the next
SetSnapshot(d, node, graph, current) ==
  [d EXCEPT !.seq = d.seq + 1, !.node = node, !.graph = graph, !.current = current]

RunningIn(node) == {n \in Nodes : node[n] = "running"}

InferGraphStatus(node) ==
  IF \E n \in Nodes : node[n] = "failed" THEN "failed"
  ELSE IF RunningIn(node) # {} THEN "running"
  ELSE IF \E n \in Nodes : node[n] = "pending" THEN "pending"
  ELSE IF \E n \in Nodes : node[n] = "fallback" THEN "fallback" ELSE "success"

InitGraphProgress(d) ==
  AppendGraphEvent([d EXCEPT !.node = [n \in Nodes |-> "pending"],
                             !.graph = "pending", !.current = {}],
                   "graph_initialized", Nobody, "pending")

MarkRunning(d) == [d EXCEPT !.status = "running"]

\* Mutant: the snapshot is built anew and forgets what other nodes reported.
MarkNodeRunningAnew(d, n) ==
  LET node == [m \in Nodes |-> IF m = n THEN "running" ELSE "pending"]
  IN  AppendGraphEvent(SetSnapshot(d, node, "running", {n}), "node_started", n, "running")

MarkNodeRunning(d, n) ==
  LET node == [d.node EXCEPT ![n] = "running"]
  IN  AppendGraphEvent(SetSnapshot(d, node, "running", RunningIn(node)),
                       "node_started", n, "running")

MarkNodeFinished(d, n, s) ==
  LET node == [d.node EXCEPT ![n] = s]
  IN  AppendGraphEvent(SetSnapshot(d, node, InferGraphStatus(node), RunningIn(node)),
                       "node_finished", n, s)

\* the siblings that still run drop out of current_nodes
MarkNodeFailed(d, n) ==
  AppendGraphEvent(SetSnapshot(d, [d.node EXCEPT ![n] = "failed"], "failed", {}),
                   "node_failed", n, "failed")

MarkGraphFailed(d) ==
  AppendGraphEvent(
    SetSnapshot(d, [n \in Nodes |-> IF d.node[n] = "running" THEN "failed" ELSE d.node[n]],
                "failed", {}),
    "graph_failed", Nobody, "failed")

\* Mutant: the final status is inferred from the nodes instead of the verdict.
SyncGraphInferred(d, traced, final) ==
  LET node == IF traced THEN [n \in Nodes |-> outcome[n]] ELSE d.node
  IN  AppendGraphEvent(SetSnapshot(d, node, InferGraphStatus(node), {}),
                       "graph_synced", Nobody, InferGraphStatus(node))

\* a saved document carries the trace of every node, a fallback document none
SyncGraph(d, traced, final) ==
  AppendGraphEvent(
    SetSnapshot(d, IF traced THEN [n \in Nodes |-> outcome[n]] ELSE d.node, final, {}),
    "graph_synced", Nobody, final)

MarkCompleted(d)    == [d EXCEPT !.status = "completed", !.error = "none"]
MarkFailed(d, code) == [d EXCEPT !.status = "failed", !.error = code]
-----------------------------------------------------------------------------
(***************************************************************************)
(* The runner: one unlocked GET and INDEX per call, in program order.      *)
(***************************************************************************)
Traced == result \in {"saved", "saved_fallback"}
TreatedAsFailure == FallbackFails /\ result # "saved"

Write(d) ==
  CASE op = "init_graph_progress" -> InitGraphProgress(d)
    [] op = "mark_running" -> MarkRunning(d)
    [] op \in {"reporter_graph_failed", "mark_graph_failed"} -> MarkGraphFailed(d)
    [] op = "sync_graph" -> SyncGraph(d, Traced, IF TreatedAsFailure THEN "failed" ELSE "success")
    [] op = "mark_closed" -> IF TreatedAsFailure THEN MarkFailed(d, "GRAPH_FAILED")
                             ELSE MarkCompleted(d)
    [] OTHER -> MarkFailed(d, "TASK_FAILED")

\* the next call after a successful one; document["id"] raises before
\* mark_completed reads anything when the fallback could not be saved
NextOp ==
  CASE op = "init_graph_progress" -> "mark_running"
    [] op = "mark_running" -> "graph"
    [] op = "reporter_graph_failed" -> "sync_graph"
    [] op = "sync_graph" -> IF result = "fallback_no_id" /\ ~TreatedAsFailure
                            THEN "mark_graph_failed" ELSE "mark_closed"
    [] op = "mark_graph_failed" -> "mark_failed"
    [] OTHER -> "end"

\* where an exception of the call leads: the reporter swallows it, the try
\* block of the runner catches it, outside of the block the thread dies
OpAfterFault ==
  CASE op = "reporter_graph_failed" -> "sync_graph"
    [] op \in {"sync_graph", "mark_closed"} -> "mark_graph_failed"
    [] OTHER -> "end"

RunnerCalls == op \notin {"graph", "end"}

RunnerGet ==
  /\ RunnerCalls
  /\ copy[Runner] = NoDoc
  /\ copy' = [copy EXCEPT ![Runner] = doc]
  /\ UNCHANGED <<doc, op, result, pc, outcome, lock, crashed, starts, faults>>

RunnerIndex ==
  /\ RunnerCalls
  /\ copy[Runner] # NoDoc
  /\ doc' = Write(copy[Runner])
  /\ op' = NextOp
  /\ copy' = [copy EXCEPT ![Runner] = NoDoc]
  /\ UNCHANGED <<result, pc, outcome, lock, crashed, starts, faults>>

\* the GET, or the INDEX before or after it took effect, raises
RunnerFault ==
  /\ RunnerCalls
  /\ faults < EsFaults
  /\ faults' = faults + 1
  /\ \/ doc' = doc
     \/ copy[Runner] # NoDoc /\ doc' = Write(copy[Runner])
  /\ op' = OpAfterFault
  /\ copy' = [copy EXCEPT ![Runner] = NoDoc]
  /\ UNCHANGED <<result, pc, outcome, lock, crashed, starts>>
-----------------------------------------------------------------------------
(***************************************************************************)
(* The graph: supersteps of node threads, each wrapped by                  *)
(* instrument_graph_node.  The barrier between supersteps is LangGraph's.  *)
(***************************************************************************)
Active(n) == pc[n] \in {"starting", "body", "returned", "ending"}
Raised    == \E n \in Nodes : outcome[n] = "raised"

MayRun(n) ==
  /\ op = "graph"
  /\ pc[n] = "idle"
  /\ \A m \in Nodes : Stage[m] < Stage[n] => pc[m] = "done" /\ outcome[m] # "raised"

\* Mutant: the update lock is not waited for.
NodeGetUnlocked(n, from, to) ==
  /\ pc[n] = from
  /\ lock' = n
  /\ copy' = [copy EXCEPT ![n] = doc]
  /\ pc' = [pc EXCEPT ![n] = to]
  /\ UNCHANGED <<doc, op, result, outcome, crashed, starts, faults>>

NodeGet(n, from, to) ==
  /\ pc[n] = from
  /\ lock = Nobody
  /\ lock' = n
  /\ copy' = [copy EXCEPT ![n] = doc]
  /\ pc' = [pc EXCEPT ![n] = to]
  /\ UNCHANGED <<doc, op, result, outcome, crashed, starts, faults>>

NodeStartedGet(n)  == MayRun(n) /\ NodeGet(n, "idle", "starting")
NodeFinishedGet(n) == NodeGet(n, "returned", "ending")

NodeWrite(n) ==
  IF pc[n] = "starting" THEN MarkNodeRunning(copy[n], n)
  ELSE IF outcome[n] = "raised" THEN MarkNodeFailed(copy[n], n)
  ELSE MarkNodeFinished(copy[n], n, outcome[n])

Released(n) == IF pc[n] \in {"idle", "starting"} THEN "body" ELSE "done"

NodeIndex(n) ==
  /\ pc[n] \in {"starting", "ending"}
  /\ doc' = NodeWrite(n)
  /\ lock' = Nobody
  /\ copy' = [copy EXCEPT ![n] = NoDoc]
  /\ pc' = [pc EXCEPT ![n] = Released(n)]
  /\ UNCHANGED <<op, result, outcome, crashed, starts, faults>>

NodeBody(n) ==
  /\ pc[n] = "body"
  /\ \E o \in Finished \cup {"raised"} : outcome' = [outcome EXCEPT ![n] = o]
  /\ pc' = [pc EXCEPT ![n] = "returned"]
  /\ UNCHANGED <<doc, op, result, copy, lock, crashed, starts, faults>>

\* a reporter call raises and is swallowed: the graph does not notice
NodeFault(n) ==
  /\ \/ MayRun(n) /\ lock = Nobody
     \/ pc[n] = "returned" /\ lock = Nobody
     \/ pc[n] \in {"starting", "ending"}
  /\ faults < EsFaults
  /\ faults' = faults + 1
  /\ \/ doc' = doc
     \/ copy[n] # NoDoc /\ doc' = NodeWrite(n)
  /\ lock' = Nobody
  /\ copy' = [copy EXCEPT ![n] = NoDoc]
  /\ pc' = [pc EXCEPT ![n] = Released(n)]
  /\ UNCHANGED <<op, result, outcome, crashed, starts>>

\* the agent returns a document or raises: which one depends on whether a
\* node raised and on whether the node that saves the result succeeded
GraphReturns ==
  /\ op = "graph"
  /\ \A n \in Nodes : ~Active(n)
  /\ Raised \/ \A n \in Nodes : pc[n] = "done"
  /\ \/ /\ Raised
        /\ op' = "reporter_graph_failed"
        /\ result' \in {"fallback", "fallback_no_id"}
     \/ /\ ~Raised
        /\ op' = "sync_graph"
        /\ result' \in IF outcome[Persist] = "failed"
                       THEN {"fallback", "fallback_no_id"} ELSE {"saved", "saved_fallback"}
  /\ UNCHANGED <<doc, pc, outcome, copy, lock, crashed, starts, faults>>

\* the agent raises out of the graph runner: before the graph starts
\* (configuration, wrong task type) or while the run is finalised
AgentRaises ==
  /\ op = "graph"
  /\ \/ \A n \in Nodes : pc[n] = "idle"
     \/ \A n \in Nodes : pc[n] = "done"
  /\ op' = "mark_graph_failed"
  /\ UNCHANGED <<doc, result, pc, outcome, copy, lock, crashed, starts, faults>>
-----------------------------------------------------------------------------
(***************************************************************************)
(* Processes come and go.                                                  *)
(***************************************************************************)
Crash ==
  /\ MayCrash
  /\ ~crashed
  /\ crashed' = TRUE
  /\ op' = "end"
  /\ pc' = [n \in Nodes |-> "done"]
  /\ copy' = [t \in Threads |-> NoDoc]
  /\ lock' = Nobody
  /\ UNCHANGED <<doc, result, outcome, starts, faults>>

\* Mutant: the query forgets queued tasks.
FailIfRunning(d) == IF d.status = "running" THEN MarkFailed(d, "BACKEND_RESTART") ELSE d

\* mark_stale_tasks_failed: update_by_query, atomic for each document
FailIfOpen(d) ==
  IF d.status \in {"running", "queued"} THEN MarkFailed(d, "BACKEND_RESTART") ELSE d

\* the dead process is replaced and its startup hook runs
Restart ==
  /\ crashed
  /\ doc' = FailIfOpen(doc)
  /\ UNCHANGED <<op, result, pc, outcome, copy, lock, crashed, starts, faults>>

\* another worker of the same server starts up while the owner lives
OtherWorkerStart ==
  /\ starts < OtherStarts
  /\ starts' = starts + 1
  /\ doc' = FailIfOpen(doc)
  /\ UNCHANGED <<op, result, pc, outcome, copy, lock, crashed, faults>>
-----------------------------------------------------------------------------
Init ==
  /\ doc = NewTask
  /\ op = "init_graph_progress"
  /\ result = "none"
  /\ pc = [n \in Nodes |-> "idle"]
  /\ outcome = [n \in Nodes |-> "none"]
  /\ copy = [t \in Threads |-> NoDoc]
  /\ lock = Nobody
  /\ crashed = FALSE
  /\ starts = 0
  /\ faults = 0

NodeStep(n) ==
  \/ NodeStartedGet(n)
  \/ NodeBody(n)
  \/ NodeFinishedGet(n)
  \/ NodeIndex(n)

RunnerStep == RunnerGet \/ RunnerIndex \/ GraphReturns

Environment ==
  \/ RunnerFault
  \/ \E n \in Nodes : NodeFault(n)
  \/ AgentRaises
  \/ Crash
  \/ OtherWorkerStart

Next ==
  \/ RunnerStep
  \/ \E n \in Nodes : NodeStep(n)
  \/ Restart
  \/ Environment

Spec == Init /\ [][Next]_vars

\* threads are scheduled and a node's tools and models time out, so every
\* thread keeps moving; a dead worker is replaced
Fairness ==
  /\ WF_vars(RunnerStep)
  /\ \A n \in Nodes : WF_vars(NodeStep(n))
  /\ WF_vars(Restart)

FairSpec == Spec /\ Fairness
-----------------------------------------------------------------------------
(***************************************************************************)
(* Properties.                                                             *)
(***************************************************************************)
\* Every variable keeps its type.
TypeOK ==
  /\ doc \in Doc
  /\ op \in Ops
  /\ result \in Results
  /\ pc \in [Nodes -> NodePcs]
  /\ outcome \in [Nodes -> Finished \cup {"none", "raised"}]
  /\ copy \in [Threads -> Doc \cup {NoDoc}]
  /\ lock \in Nodes \cup {Nobody}
  /\ crashed \in BOOLEAN
  /\ starts \in Nat
  /\ faults \in Nat

EventsOf(d) == {d.events[i] : i \in DOMAIN d.events}

\* The stored event log is strictly ordered by seq and never runs ahead of the
\* document's counter, whatever interleaving of node threads, startup hooks and
\* Elasticsearch faults produced it: list_graph_events(after_seq) relies on it.
EventLogOrdered ==
  /\ \A i, j \in DOMAIN doc.events : i < j => doc.events[i].seq < doc.events[j].seq
  /\ \A i \in DOMAIN doc.events : doc.events[i].seq <= doc.seq

\* A reader that has seen everything up to seq stays right: no later write puts
\* an event it has not seen at or below its cursor, and the counter never moves
\* back.  Two reports that read the same document would break it.
CursorsStayValid ==
  [][/\ doc'.seq >= doc.seq
     /\ \A e \in EventsOf(doc') : e.seq <= doc.seq => e \in EventsOf(doc)]_vars

\* What the board must show for a node while the graph runs.
ReportedStatus(n) ==
  CASE pc[n] \in {"idle", "starting"} -> "pending"
    [] pc[n] \in {"body", "returned", "ending"} -> "running"
    [] OTHER -> IF outcome[n] = "raised" THEN "failed" ELSE outcome[n]

\* Parallel node updates do not overwrite each other: as long as every call
\* went through, the board shows for each node what its thread last reported,
\* even when a startup hook updates the document between a GET and an INDEX.
NoReportLost ==
  (op = "graph" /\ faults = 0) => \A n \in Nodes : doc.node[n] = ReportedStatus(n)

\* The task's verdict and the board agree: a completed task has a successful
\* graph (and, on the routes that treat a fallback as a failure, a saved
\* result), a task its runner failed has a failed graph.
VerdictMatchesBoard ==
  faults = 0 =>
    /\ doc.status = "completed" =>
         /\ doc.graph = "success"
         /\ FallbackFails => result = "saved" /\ outcome[Persist] # "failed"
    /\ doc.status = "failed" /\ doc.error # "BACKEND_RESTART" => doc.graph = "failed"

\* A closed task never reopens and never changes its verdict.  It holds when
\* startup hooks run only after the owner has died.
VerdictIsFinal ==
  [][doc.status \in Terminal => doc'.status = doc.status]_vars

\* "they can never complete" (the startup hook's docstring): a task that was
\* failed as stale is never completed afterwards.
StaleTaskNeverCompletes ==
  [][doc.error = "BACKEND_RESTART" => doc'.status # "completed"]_vars

\* The background task closes the task for good, also when the process dies in
\* the middle (the next startup closes it) and when another worker starts up;
\* unless a call to Elasticsearch raised, which may leave it open until a restart.
EventuallyClosed == <>[](doc.status \in Terminal \/ faults > 0)

\* Readers of the task see a TaskBoard: single-node reports, a counter that
\* grows with every report and one final verdict.
Board == INSTANCE TaskBoard WITH status <- doc.status, node <- doc.node, seq <- doc.seq
BoardSpec == Board!Spec
=============================================================================
