-------------------------- MODULE AgentTask_proofs --------------------------
(***************************************************************************)
(* The event log of a task document stays ordered and a reader's cursor    *)
(* stays valid, for every graph, window length, number of faults, crashes  *)
(* and startups of other workers.                                          *)
(*                                                                         *)
(* The invariant behind it: a copy that is about to be written back shows  *)
(* the same board as the stored document.  A node thread's copy does so    *)
(* because it holds the lock, the runner's copy because no node thread is  *)
(* active outside of the graph, and a startup hook changes only the        *)
(* status and the error code.                                              *)
(*                                                                         *)
(* A browser that follows the stream shows the same board: each write adds *)
(* one event that says of the nodes what the new board says, so what the   *)
(* panel has shown, carried on with the events it has yet to get, is the   *)
(* board at every moment.                                                  *)
(***************************************************************************)
EXTENDS TaskStream, SequenceTheorems, FiniteSetTheorems, WellFoundedInduction, TLAPS

SameBoard(c, d) == c.seq = d.seq /\ c.node = d.node /\ c.events = d.events

Ordered(d) ==
  /\ \A i, j \in DOMAIN d.events : i < j => d.events[i].seq < d.events[j].seq
  /\ \A i \in DOMAIN d.events : d.events[i].seq <= d.seq

\* d2 is what a reader with a cursor into d1 may safely see next
Extends(d1, d2) ==
  /\ d2.seq >= d1.seq
  /\ \A e \in EventsOf(d2) : e.seq <= d1.seq => e \in EventsOf(d1)

Holding(n) == pc[n] \in {"starting", "ending"}

LockInv == \A n \in Nodes : lock = n <=> Holding(n)

CopyInv == \A n \in Nodes : /\ copy[n] # NoDoc => Holding(n)
                            /\ Holding(n) => copy[n] \in Doc /\ SameBoard(copy[n], doc)

RunnerInv == copy[Runner] # NoDoc => op # "graph" /\ SameBoard(copy[Runner], doc)

EarlyInv ==
  /\ op \in {"init_graph_progress", "mark_running"} => \A n \in Nodes : pc[n] = "idle"
  /\ op \in {"init_graph_progress", "mark_running", "graph"} => result = "none"

QuietInv == op # "graph" => \A n \in Nodes : pc[n] \in {"idle", "done"}

\* a thread that is past its body has an outcome, a traced result has them all
OutcomeInv ==
  /\ \A n \in Nodes : op = "graph" /\ pc[n] \in {"returned", "ending", "done"}
                        => outcome[n] # "none"
  /\ Traced => \A n \in Nodes : outcome[n] \in Finished

BoardInv ==
  faults = 0 /\ op \in {"init_graph_progress", "mark_running", "graph"}
    => \A n \in Nodes : doc.node[n] = ReportedStatus(n)

IInv == /\ TypeOK /\ LockInv /\ CopyInv /\ RunnerInv /\ EarlyInv /\ QuietInv
        /\ OutcomeInv /\ Ordered(doc) /\ BoardInv
-----------------------------------------------------------------------------
\* Cutting an ordered log to its window keeps it ordered and adds nothing.
LEMMA WindowOk ==
  ASSUME NEW s \in Seq(Event)
  PROVE  /\ Window(s) \in Seq(Event)
         /\ \E k \in Nat : /\ \A i \in DOMAIN Window(s) : i + k \in DOMAIN s
                           /\ \A i \in DOMAIN Window(s) : Window(s)[i] = s[i + k]
<1>1. CASE Len(s) <= MaxGraphEvents
  <2>1. Window(s) = s
    BY <1>1 DEF Window
  <2>2. \A i \in DOMAIN s : i + 0 \in DOMAIN s /\ s[i] = s[i + 0]
    BY LenProperties
  <2> QED
    BY <2>1, <2>2
<1>2. CASE ~(Len(s) <= MaxGraphEvents)
  <2> DEFINE m == Len(s) - MaxGraphEvents + 1
  <2>1. m \in Int /\ Len(s) \in Int /\ m >= 2 /\ m <= Len(s)
    BY <1>2, AgentTaskAssumption, LenProperties
  <2>2. \A i \in m .. Len(s) : s[i] \in Event
    BY <2>1, ElementOfSeq
  <2>3. Window(s) = SubSeq(s, m, Len(s))
    BY <1>2 DEF Window
  <2> HIDE DEF m
  <2>4. /\ SubSeq(s, m, Len(s)) \in Seq(Event)
        /\ Len(SubSeq(s, m, Len(s))) = Len(s) - m + 1
        /\ \A i \in 1 .. Len(s) - m + 1 : SubSeq(s, m, Len(s))[i] = s[m + i - 1]
    BY <2>1, <2>2, SubSeqProperties
  <2>5. DOMAIN Window(s) = 1 .. Len(s) - m + 1 /\ DOMAIN s = 1 .. Len(s)
    BY <2>3, <2>4, LenProperties
  <2>6. m - 1 \in Nat
    BY <2>1
  <2>7. \A i \in DOMAIN Window(s) : i + (m - 1) \in DOMAIN s /\ Window(s)[i] = s[i + (m - 1)]
    BY <2>1, <2>3, <2>4, <2>5
  <2> QED
    BY <2>3, <2>4, <2>6, <2>7
<1> QED
  BY <1>1, <1>2

\* Appending an event takes the next number, keeps the log ordered and moves
\* no number at or below the old counter.
LEMMA AppendOk ==
  ASSUME NEW d \in Doc, Ordered(d),
         NEW t \in EventTypes, NEW n \in Subjects, NEW s \in NodeStatus
  PROVE  LET e == AppendGraphEvent(d, t, n, s)
         IN  e \in Doc /\ Ordered(e) /\ Extends(d, e) /\ e.node = d.node
<1> DEFINE ev  == [seq |-> d.seq + 1, type |-> t, node |-> n, status |-> s]
           log == Append(d.events, ev)
           e   == AppendGraphEvent(d, t, n, s)
<1>1. d.seq \in Nat /\ d.seq + 1 \in Nat /\ d.events \in Seq(Event)
  BY DEF Doc
<1>2. ev \in Event
  BY <1>1 DEF Event
<1>3. /\ log \in Seq(Event)
      /\ DOMAIN d.events = 1 .. Len(d.events)
      /\ DOMAIN log = 1 .. Len(d.events) + 1
      /\ Len(d.events) \in Nat
      /\ \A i \in 1 .. Len(d.events) : log[i] = d.events[i]
      /\ log[Len(d.events) + 1] = ev
  BY <1>1, <1>2, LenProperties
<1> HIDE DEF log, ev
<1>4. Window(log) \in Seq(Event)
  BY <1>3, WindowOk
<1>5. e = [d EXCEPT !.seq = d.seq + 1, !.events = Window(log)]
  BY DEF AppendGraphEvent, log, ev
<1> HIDE DEF e
<1>6. e \in Doc /\ e.seq = d.seq + 1 /\ e.events = Window(log) /\ e.node = d.node
  BY <1>1, <1>4, <1>5 DEF Doc
<1>7. PICK k \in Nat : /\ \A i \in DOMAIN Window(log) : i + k \in DOMAIN log
                       /\ \A i \in DOMAIN Window(log) : Window(log)[i] = log[i + k]
  BY <1>3, WindowOk
<1>8. DOMAIN Window(log) \subseteq Nat
  BY <1>4, LenProperties
<1>9. ev.seq = d.seq + 1 /\ \A i \in DOMAIN d.events : d.events[i].seq \in Nat
  <2>1. \A i \in DOMAIN d.events : d.events[i] \in Event
    BY <1>1, <1>3, ElementOfSeq
  <2> QED
    BY <2>1 DEF Event, ev
<1>a. \A i, j \in DOMAIN log : i < j => log[i].seq < log[j].seq
  <2> SUFFICES ASSUME NEW i \in DOMAIN log, NEW j \in DOMAIN log, i < j
               PROVE  log[i].seq < log[j].seq
    OBVIOUS
  <2>1. i \in DOMAIN d.events /\ log[i] = d.events[i]
    BY <1>3
  <2>2. CASE j = Len(d.events) + 1
    BY <1>1, <1>3, <1>9, <2>1, <2>2 DEF Ordered
  <2>3. CASE j # Len(d.events) + 1
    BY <1>3, <2>1, <2>3 DEF Ordered
  <2> QED
    BY <2>2, <2>3
<1>b. \A i \in DOMAIN log : log[i].seq <= d.seq + 1
  BY <1>1, <1>3, <1>9 DEF Ordered
<1>10. Ordered(e)
  <2> DEFINE w == Window(log)
  <2>1. ASSUME NEW i \in DOMAIN w, NEW j \in DOMAIN w, i < j
        PROVE  w[i].seq < w[j].seq
    <3>1. i + k \in DOMAIN log /\ j + k \in DOMAIN log /\ i + k < j + k
      BY <1>7, <1>8, <2>1
    <3> QED
      BY <1>7, <1>a, <3>1
  <2>2. \A i \in DOMAIN w : w[i].seq <= d.seq + 1
    BY <1>7, <1>b
  <2> QED
    BY <1>6, <2>1, <2>2 DEF Ordered
<1>11. Extends(d, e)
  <2>1. ASSUME NEW i \in DOMAIN Window(log), Window(log)[i].seq <= d.seq
        PROVE  Window(log)[i] \in EventsOf(d)
    <3>1. i + k \in DOMAIN log /\ Window(log)[i] = log[i + k]
      BY <1>7
    <3>2. i + k # Len(d.events) + 1
      BY <1>1, <1>3, <1>9, <2>1, <3>1
    <3>3. i + k \in DOMAIN d.events /\ log[i + k] = d.events[i + k]
      BY <1>3, <3>1, <3>2
    <3> QED
      BY <3>1, <3>3 DEF EventsOf
  <2> QED
    BY <1>1, <1>6, <2>1 DEF Extends, EventsOf
<1> QED
  BY <1>6, <1>10, <1>11 DEF e

\* The same for a change of the snapshot followed by its event.
LEMMA ReportOk ==
  ASSUME NEW d \in Doc, Ordered(d),
         NEW node \in [Nodes -> NodeStatus], NEW graph \in NodeStatus,
         NEW current \in SUBSET Nodes,
         NEW t \in EventTypes, NEW n \in Subjects, NEW s \in NodeStatus
  PROVE  LET e == AppendGraphEvent(SetSnapshot(d, node, graph, current), t, n, s)
         IN  e \in Doc /\ Ordered(e) /\ Extends(d, e) /\ e.node = node
<1> DEFINE m == SetSnapshot(d, node, graph, current)
           e == AppendGraphEvent(m, t, n, s)
<1>0. d.seq \in Nat /\ d.seq + 1 \in Nat /\ d.events \in Seq(Event)
  BY DEF Doc
<1>1. m \in Doc /\ m.seq = d.seq + 1 /\ m.events = d.events /\ m.node = node
  BY <1>0 DEF SetSnapshot, Doc
<1>2. \A i \in DOMAIN d.events : d.events[i].seq \in Nat
  <2>1. \A i \in DOMAIN d.events : d.events[i] \in Event
    BY <1>0, LenProperties, ElementOfSeq
  <2> QED
    BY <2>1 DEF Event
<1> HIDE DEF m
<1>3. Ordered(m)
  BY <1>0, <1>1, <1>2 DEF Ordered
<1>4. e \in Doc /\ Ordered(e) /\ Extends(m, e) /\ e.node = m.node
  BY <1>1, <1>3, AppendOk
<1> HIDE DEF e
<1>5. e.seq \in Nat /\ \A x \in EventsOf(e) : x.seq \in Nat
  <2>1. e.seq \in Nat /\ e.events \in Seq(Event)
    BY <1>4 DEF Doc
  <2>2. \A i \in DOMAIN e.events : e.events[i] \in Event
    BY <2>1, LenProperties, ElementOfSeq
  <2> QED
    BY <2>1, <2>2 DEF EventsOf, Event
<1>6. Extends(d, e)
  BY <1>0, <1>1, <1>4, <1>5 DEF Extends, EventsOf
<1> QED
  BY <1>1, <1>4, <1>6 DEF e, m

\* Two documents with the same board are interchangeable for these purposes.
LEMMA SameBoardOk ==
  ASSUME NEW c, NEW d, NEW e, SameBoard(c, d)
  PROVE  (Ordered(d) => Ordered(c)) /\ (Extends(c, e) => Extends(d, e))
BY DEF SameBoard, Ordered, Extends, EventsOf

\* A change that leaves the board alone, as marking the status does.
LEMMA StatusOk ==
  ASSUME NEW d \in Doc, Ordered(d), NEW e, SameBoard(e, d)
  PROVE  Ordered(e) /\ Extends(d, e)
<1>1. d.seq \in Nat
  BY DEF Doc
<1>2. Ordered(e)
  BY DEF Ordered, SameBoard
<1>3. Extends(d, e)
  BY <1>1 DEF Extends, SameBoard, EventsOf
<1> QED
  BY <1>2, <1>3

\* The inferred status of a graph is a node status.
LEMMA InferOk ==
  ASSUME NEW node \in [Nodes -> NodeStatus]
  PROVE  InferGraphStatus(node) \in NodeStatus /\ RunningIn(node) \in SUBSET Nodes
BY DEF InferGraphStatus, RunningIn, NodeStatus, Finished

\* What a node thread is about to report about itself.
Reporting(n) == IF pc[n] = "starting" THEN "running"
                ELSE IF outcome[n] = "raised" THEN "failed" ELSE outcome[n]

\* Every write of a node thread.
LEMMA NodeWriteOk ==
  ASSUME IInv, NEW n \in Nodes, Holding(n)
  PROVE  /\ NodeWrite(n) \in Doc /\ Ordered(NodeWrite(n)) /\ Extends(doc, NodeWrite(n))
         /\ NodeWrite(n).node = [doc.node EXCEPT ![n] = Reporting(n)]
<1> DEFINE c == copy[n]
<1>1. c \in Doc /\ SameBoard(c, doc) /\ Ordered(c)
  BY SameBoardOk DEF IInv, CopyInv
<1>2. c.node \in [Nodes -> NodeStatus] /\ c.node = doc.node
  BY <1>1 DEF Doc, SameBoard
<1>3. op = "graph"
  BY DEF IInv, QuietInv, Holding
<1> HIDE DEF c
<1>4. CASE pc[n] = "starting"
  <2> DEFINE node == [c.node EXCEPT ![n] = "running"]
  <2>1. node \in [Nodes -> NodeStatus]
    BY <1>2 DEF NodeStatus
  <2>2. NodeWrite(n) = AppendGraphEvent(SetSnapshot(c, node, "running", RunningIn(node)),
                                        "node_started", n, "running")
    <3>1. NodeWrite(n) = MarkNodeRunning(c, n)
      BY <1>4 DEF NodeWrite, c
    <3> QED
      BY <3>1 DEF MarkNodeRunning
  <2> HIDE DEF node
  <2>3. /\ "running" \in NodeStatus /\ "node_started" \in EventTypes
        /\ RunningIn(node) \in SUBSET Nodes /\ n \in Subjects
    BY DEF NodeStatus, EventTypes, RunningIn, Subjects
  <2>4. /\ Ordered(NodeWrite(n)) /\ Extends(c, NodeWrite(n))
        /\ NodeWrite(n) \in Doc /\ NodeWrite(n).node = node
    BY <1>1, <2>1, <2>2, <2>3, ReportOk
  <2>5. node = [doc.node EXCEPT ![n] = Reporting(n)]
    BY <1>2, <1>4 DEF node, Reporting
  <2> QED
    BY <1>1, <2>4, <2>5, SameBoardOk
<1>5. CASE pc[n] = "ending" /\ outcome[n] = "raised"
  <2> DEFINE node == [c.node EXCEPT ![n] = "failed"]
  <2>1. node \in [Nodes -> NodeStatus]
    BY <1>2 DEF NodeStatus, Finished
  <2>2. NodeWrite(n) = AppendGraphEvent(SetSnapshot(c, node, "failed", {}),
                                        "node_failed", n, "failed")
    BY <1>5 DEF NodeWrite, MarkNodeFailed, c
  <2> HIDE DEF node
  <2>3. /\ "failed" \in NodeStatus /\ "node_failed" \in EventTypes
        /\ {} \in SUBSET Nodes /\ n \in Subjects
    BY DEF NodeStatus, EventTypes, Finished, Subjects
  <2>4. /\ Ordered(NodeWrite(n)) /\ Extends(c, NodeWrite(n))
        /\ NodeWrite(n) \in Doc /\ NodeWrite(n).node = node
    BY <1>1, <2>1, <2>2, <2>3, ReportOk
  <2>5. node = [doc.node EXCEPT ![n] = Reporting(n)]
    BY <1>2, <1>5 DEF node, Reporting
  <2> QED
    BY <1>1, <2>4, <2>5, SameBoardOk
<1>6. CASE pc[n] = "ending" /\ outcome[n] # "raised"
  <2> DEFINE s == outcome[n]
             node == [c.node EXCEPT ![n] = s]
  <2>0. s \in NodeStatus
    BY <1>3, <1>6 DEF IInv, OutcomeInv, TypeOK, NodeStatus
  <2>1. node \in [Nodes -> NodeStatus]
    BY <1>2, <2>0
  <2>2. NodeWrite(n) = AppendGraphEvent(
                         SetSnapshot(c, node, InferGraphStatus(node), RunningIn(node)),
                         "node_finished", n, s)
    BY <1>6 DEF NodeWrite, MarkNodeFinished, c
  <2> HIDE DEF node, s
  <2>3. "node_finished" \in EventTypes /\ n \in Subjects
    BY DEF EventTypes, Subjects
  <2>4. /\ Ordered(NodeWrite(n)) /\ Extends(c, NodeWrite(n))
        /\ NodeWrite(n) \in Doc /\ NodeWrite(n).node = node
    BY <1>1, <2>0, <2>1, <2>2, <2>3, InferOk, ReportOk
  <2>5. node = [doc.node EXCEPT ![n] = Reporting(n)]
    BY <1>2, <1>6 DEF node, s, Reporting
  <2> QED
    BY <1>1, <2>4, <2>5, SameBoardOk
<1> QED
  BY <1>4, <1>5, <1>6 DEF Holding

\* Every write of the runner.
LEMMA WriteOk ==
  ASSUME IInv, NEW c \in Doc, SameBoard(c, doc)
  PROVE  /\ Write(c) \in Doc /\ Ordered(Write(c)) /\ Extends(doc, Write(c))
         /\ op = "init_graph_progress" => Write(c).node = [n \in Nodes |-> "pending"]
         /\ op = "mark_running" => Write(c).node = doc.node
<1>1. c \in Doc /\ SameBoard(c, doc) /\ Ordered(c)
  BY SameBoardOk DEF IInv
<1>2. c.node \in [Nodes -> NodeStatus] /\ c.seq \in Nat /\ c.status \in TaskStatus
      /\ c.error \in ErrorCodes
  BY <1>1 DEF Doc
<1>3. /\ "failed" \in NodeStatus /\ "success" \in NodeStatus /\ "pending" \in NodeStatus
      /\ "graph_initialized" \in EventTypes /\ "graph_failed" \in EventTypes
      /\ "graph_synced" \in EventTypes
      /\ {} \in SUBSET Nodes /\ Nobody \in Subjects
  BY DEF NodeStatus, EventTypes, Finished, Subjects
<1>4. CASE op = "init_graph_progress"
  <2> DEFINE m == [c EXCEPT !.node = [n \in Nodes |-> "pending"], !.graph = "pending", !.current = {}]
  <2>1. /\ m \in Doc /\ m.seq = c.seq /\ m.events = c.events
        /\ m.node = [n \in Nodes |-> "pending"]
    BY <1>1, <1>3 DEF Doc
  <2>2. Write(c) = AppendGraphEvent(m, "graph_initialized", Nobody, "pending")
    BY <1>4 DEF Write, InitGraphProgress
  <2> HIDE DEF m
  <2>3. Ordered(m)
    BY <1>1, <2>1 DEF Ordered
  <2>4. /\ Write(c) \in Doc /\ Ordered(Write(c)) /\ Extends(m, Write(c))
        /\ Write(c).node = m.node
    <3>1. /\ "graph_initialized" \in EventTypes /\ "pending" \in NodeStatus
          /\ Nobody \in Subjects
      BY <1>3
    <3> QED
      BY <2>1, <2>2, <2>3, <3>1, AppendOk
  <2>5. Extends(c, Write(c))
    BY <2>1, <2>4 DEF Extends, EventsOf
  <2> QED
    BY <1>1, <1>4, <2>1, <2>4, <2>5, SameBoardOk
<1>5. CASE op = "mark_running"
  <2>1. Write(c) = [c EXCEPT !.status = "running"]
    BY <1>5 DEF Write, MarkRunning
  <2>2. Write(c) \in Doc /\ SameBoard(Write(c), c)
    BY <2>1 DEF Doc, TaskStatus, SameBoard
  <2> QED
    BY <1>1, <1>5, <2>2, StatusOk, SameBoardOk DEF SameBoard
<1>6. CASE op \in {"reporter_graph_failed", "mark_graph_failed"}
  <2> DEFINE node == [n \in Nodes |-> IF c.node[n] = "running" THEN "failed" ELSE c.node[n]]
  <2>1. node \in [Nodes -> NodeStatus]
    BY <1>2, <1>3
  <2>2. Write(c) = AppendGraphEvent(SetSnapshot(c, node, "failed", {}), "graph_failed", Nobody, "failed")
    BY <1>6 DEF Write, MarkGraphFailed
  <2> HIDE DEF node
  <2>3. Write(c) \in Doc /\ Ordered(Write(c)) /\ Extends(c, Write(c))
    <3>1. /\ "graph_failed" \in EventTypes /\ "failed" \in NodeStatus
          /\ Nobody \in Subjects /\ {} \in SUBSET Nodes
      BY <1>3
    <3> QED
      BY <1>1, <2>1, <2>2, <3>1, ReportOk
  <2> QED
    BY <1>1, <1>6, <2>3, SameBoardOk
<1>7. CASE op = "sync_graph"
  <2> DEFINE node  == IF Traced THEN [n \in Nodes |-> outcome[n]] ELSE c.node
             final == IF TreatedAsFailure THEN "failed" ELSE "success"
  <2>1. node \in [Nodes -> NodeStatus]
    BY <1>2 DEF IInv, OutcomeInv, NodeStatus
  <2>2. Write(c) = AppendGraphEvent(SetSnapshot(c, node, final, {}), "graph_synced", Nobody, final)
    BY <1>7 DEF Write, SyncGraph
  <2>3. /\ final \in NodeStatus /\ "graph_synced" \in EventTypes
        /\ {} \in SUBSET Nodes /\ Nobody \in Subjects
    BY <1>3
  <2> HIDE DEF node, final
  <2>4. PICK nd \in [Nodes -> NodeStatus], f \in NodeStatus :
          Write(c) = AppendGraphEvent(SetSnapshot(c, nd, f, {}), "graph_synced", Nobody, f)
    BY <2>1, <2>2, <2>3
  <2>5. Write(c) \in Doc /\ Ordered(Write(c)) /\ Extends(c, Write(c))
    BY <1>1, <2>3, <2>4, ReportOk
  <2> QED
    BY <1>1, <1>7, <2>5, SameBoardOk
<1>8. CASE op \notin {"init_graph_progress", "mark_running", "reporter_graph_failed",
                      "mark_graph_failed", "sync_graph"}
  <2>1. PICK st \in {"completed", "failed"}, er \in ErrorCodes :
          Write(c) = [c EXCEPT !.status = st, !.error = er]
    BY <1>8 DEF Write, MarkFailed, MarkCompleted, ErrorCodes
  <2>2. Write(c) \in Doc /\ SameBoard(Write(c), c)
    BY <2>1 DEF Doc, TaskStatus, SameBoard
  <2> QED
    BY <1>1, <1>8, <2>2, StatusOk, SameBoardOk
<1> QED
  BY <1>4, <1>5, <1>6, <1>7, <1>8
-----------------------------------------------------------------------------
(***************************************************************************)
(* One lemma per kind of step.                                             *)
(***************************************************************************)
\* The initial state satisfies the invariant.
LEMMA InitOk == Init => IInv
<1> SUFFICES ASSUME Init PROVE IInv
  OBVIOUS
<1>1. NewTask \in Doc /\ NewTask.events = <<>>
  BY DEF NewTask, Doc, TaskStatus, ErrorCodes, NodeStatus
<1>2. TypeOK
  BY <1>1, AgentTaskAssumption
     DEF Init, TypeOK, Ops, Results, NodePcs
<1>3. LockInv /\ CopyInv /\ RunnerInv /\ EarlyInv /\ QuietInv
  BY AgentTaskAssumption
     DEF Init, LockInv, CopyInv, RunnerInv, EarlyInv, QuietInv, Holding, Threads
<1>4. OutcomeInv
  BY DEF Init, OutcomeInv, Traced
<1>5. Ordered(doc)
  BY <1>1 DEF Init, Ordered
<1>6. BoardInv
  BY DEF Init, BoardInv, NewTask, ReportedStatus
<1> QED
  BY <1>2, <1>3, <1>4, <1>5, <1>6 DEF IInv

\* A node thread takes the lock and reads.
LEMMA NodeGetOk ==
  ASSUME IInv, NEW n \in Nodes,
         NodeStartedGet(n) \/ NodeFinishedGet(n)
  PROVE  IInv' /\ Extends(doc, doc')
<1> DEFINE to == IF pc[n] = "idle" THEN "starting" ELSE "ending"
<1>1. /\ op = "graph" /\ pc[n] \in {"idle", "returned"}
      /\ lock = Nobody /\ lock' = n
      /\ copy' = [copy EXCEPT ![n] = doc]
      /\ pc' = [pc EXCEPT ![n] = to]
      /\ UNCHANGED <<doc, op, result, outcome, crashed, starts, faults>>
  BY DEF NodeStartedGet, NodeFinishedGet, NodeGet, MayRun, IInv, QuietInv
<1>2. to \in {"starting", "ending"} /\ (to = "ending" <=> pc[n] = "returned")
  BY <1>1
<1> HIDE DEF to
<1>3. TypeOK'
  BY <1>1, <1>2 DEF IInv, TypeOK, NodePcs, Threads
<1>4. LockInv'
  BY <1>1, <1>2, AgentTaskAssumption DEF IInv, TypeOK, LockInv, Holding
<1>5. CopyInv'
  BY <1>1, <1>2 DEF IInv, TypeOK, CopyInv, Holding, SameBoard, Threads
<1>6. RunnerInv' /\ EarlyInv' /\ QuietInv'
  BY <1>1, AgentTaskAssumption DEF IInv, RunnerInv, EarlyInv, QuietInv, SameBoard
<1>7. OutcomeInv'
  BY <1>1, <1>2 DEF IInv, TypeOK, OutcomeInv, Traced
<1>8. BoardInv'
  <2> SUFFICES ASSUME faults' = 0, NEW m \in Nodes
               PROVE  doc'.node[m] = ReportedStatus(m)'
    BY DEF BoardInv
  <2>1. doc'.node[m] = ReportedStatus(m)
    BY <1>1 DEF IInv, BoardInv
  <2>2. ReportedStatus(m)' = ReportedStatus(m)
    BY <1>1, <1>2 DEF ReportedStatus, IInv, TypeOK
  <2> QED
    BY <2>1, <2>2
<1>9. Ordered(doc') /\ Extends(doc, doc')
  BY <1>1 DEF IInv, TypeOK, Doc, Extends
<1> QED
  BY <1>3, <1>4, <1>5, <1>6, <1>7, <1>8, <1>9 DEF IInv

\* A node thread writes and lets go of the lock, or fails to.
LEMMA NodeWriteStepOk ==
  ASSUME IInv, NEW n \in Nodes,
         NodeIndex(n) \/ NodeFault(n)
  PROVE  IInv' /\ Extends(doc, doc')
<1>1. /\ op = "graph"
      /\ Holding(n) \/ (lock = Nobody /\ pc[n] \in {"idle", "returned"})
      /\ lock' = Nobody
      /\ copy' = [copy EXCEPT ![n] = NoDoc]
      /\ pc' = [pc EXCEPT ![n] = Released(n)]
      /\ faults' \in Nat
      /\ UNCHANGED <<op, result, outcome, crashed, starts>>
  BY DEF NodeIndex, NodeFault, MayRun, IInv, QuietInv, Holding, TypeOK
<1>2. \/ Holding(n) /\ doc' = NodeWrite(n)
      \/ doc' = doc /\ faults' # 0
  BY DEF NodeIndex, NodeFault, Holding, IInv, CopyInv, TypeOK
<1>3. doc' \in Doc /\ Ordered(doc') /\ Extends(doc, doc')
  <2>1. doc \in Doc /\ doc.seq \in Nat
    BY DEF IInv, TypeOK, Doc
  <2>2. Ordered(doc) /\ Extends(doc, doc)
    BY <2>1 DEF IInv, Extends
  <2>3. CASE doc' = doc
    BY <2>1, <2>2, <2>3 DEF Ordered, Extends, EventsOf
  <2>4. CASE Holding(n) /\ doc' = NodeWrite(n)
    BY <2>4, NodeWriteOk
  <2> QED
    BY <1>2, <2>3, <2>4
<1>4. \A m \in Nodes : m # n => ~Holding(m)
  BY <1>1, AgentTaskAssumption DEF IInv, LockInv
<1>5. /\ Released(n) \in {"body", "done"}
      /\ Released(n) = "body" <=> pc[n] \in {"idle", "starting"}
  BY DEF Released
<1>6. TypeOK'
  BY <1>1, <1>3, <1>5 DEF IInv, TypeOK, NodePcs, Threads
<1>7. LockInv' /\ CopyInv'
  BY <1>1, <1>4, <1>5, AgentTaskAssumption
     DEF IInv, TypeOK, LockInv, CopyInv, Holding, Threads
<1>8. RunnerInv' /\ EarlyInv' /\ QuietInv'
  BY <1>1, AgentTaskAssumption DEF IInv, TypeOK, RunnerInv, EarlyInv, QuietInv, Threads
<1>9. OutcomeInv'
  BY <1>1, <1>5 DEF IInv, TypeOK, OutcomeInv, Traced, Holding, NodePcs
<1>10. BoardInv'
  <2> SUFFICES ASSUME faults' = 0, NEW m \in Nodes
               PROVE  doc'.node[m] = ReportedStatus(m)'
    BY DEF BoardInv
  <2>1. Holding(n) /\ doc'.node = [doc.node EXCEPT ![n] = Reporting(n)]
    BY <1>2, NodeWriteOk
  <2>2. faults = 0
    BY <1>1 DEF NodeIndex, NodeFault, IInv, TypeOK
  <2>3. doc.node[m] = ReportedStatus(m) /\ doc.node \in [Nodes -> NodeStatus]
    BY <1>1, <2>2 DEF IInv, BoardInv, TypeOK, Doc
  <2>4. CASE m = n
    BY <1>1, <1>5, <2>1, <2>3, <2>4
       DEF Holding, Reporting, ReportedStatus, Released, IInv, TypeOK
  <2>5. CASE m # n
    BY <1>1, <2>1, <2>3, <2>5 DEF ReportedStatus, IInv, TypeOK
  <2> QED
    BY <2>4, <2>5
<1> QED
  BY <1>3, <1>6, <1>7, <1>8, <1>9, <1>10 DEF IInv

\* The body of a node runs to its end.
LEMMA NodeBodyOk ==
  ASSUME IInv, NEW n \in Nodes, NodeBody(n)
  PROVE  IInv' /\ Extends(doc, doc')
<1>1. PICK o \in Finished \cup {"raised"} : outcome' = [outcome EXCEPT ![n] = o]
  BY DEF NodeBody
<1>2. /\ pc[n] = "body" /\ pc' = [pc EXCEPT ![n] = "returned"]
      /\ UNCHANGED <<doc, op, result, copy, lock, crashed, starts, faults>>
  BY DEF NodeBody
<1>3. op = "graph" /\ ~Traced
  BY <1>2 DEF IInv, QuietInv, EarlyInv, Traced
<1>4. TypeOK'
  BY <1>1, <1>2 DEF IInv, TypeOK, NodePcs
<1>5. LockInv' /\ CopyInv'
  BY <1>2 DEF IInv, TypeOK, LockInv, CopyInv, Holding, SameBoard
<1>6. RunnerInv' /\ EarlyInv' /\ QuietInv'
  BY <1>2, <1>3 DEF IInv, RunnerInv, EarlyInv, QuietInv, SameBoard
<1>7. OutcomeInv'
  BY <1>1, <1>2, <1>3 DEF IInv, TypeOK, OutcomeInv, Traced, Finished
<1>8. BoardInv'
  BY <1>1, <1>2 DEF IInv, TypeOK, BoardInv, ReportedStatus
<1>9. Ordered(doc') /\ Extends(doc, doc')
  BY <1>2 DEF IInv, TypeOK, Doc, Extends
<1> QED
  BY <1>4, <1>5, <1>6, <1>7, <1>8, <1>9 DEF IInv

\* The runner reads.
LEMMA RunnerGetOk ==
  ASSUME IInv, RunnerGet
  PROVE  IInv' /\ Extends(doc, doc')
<1>1. /\ op # "graph" /\ copy' = [copy EXCEPT ![Runner] = doc]
      /\ UNCHANGED <<doc, op, result, pc, outcome, lock, crashed, starts, faults>>
  BY DEF RunnerGet, RunnerCalls
<1>2. TypeOK'
  BY <1>1 DEF IInv, TypeOK
<1>3. CopyInv' /\ RunnerInv'
  BY <1>1, AgentTaskAssumption
     DEF IInv, TypeOK, CopyInv, RunnerInv, Holding, SameBoard, Threads
<1>4. LockInv' /\ EarlyInv' /\ QuietInv' /\ OutcomeInv'
  BY <1>1 DEF IInv, LockInv, EarlyInv, QuietInv, OutcomeInv, Traced, Holding
<1>5. BoardInv'
  BY <1>1 DEF IInv, BoardInv, ReportedStatus
<1>6. Ordered(doc') /\ Extends(doc, doc')
  BY <1>1 DEF IInv, TypeOK, Doc, Extends
<1> QED
  BY <1>2, <1>3, <1>4, <1>5, <1>6 DEF IInv

\* The calls of the runner lead to the graph only once, from the start.
LEMMA NextOpOk ==
  ASSUME op \in Ops, op \notin {"graph", "end"}
  PROVE  /\ NextOp \in Ops /\ OpAfterFault \in Ops
         /\ OpAfterFault \notin {"init_graph_progress", "mark_running", "graph"}
         /\ NextOp # "init_graph_progress"
         /\ NextOp = "mark_running" => op = "init_graph_progress"
         /\ NextOp = "graph" => op = "mark_running"
BY DEF Ops, NextOp, OpAfterFault

\* The runner writes, or its call raises.
LEMMA RunnerWriteStepOk ==
  ASSUME IInv, RunnerIndex \/ RunnerFault
  PROVE  IInv' /\ Extends(doc, doc')
<1>1. /\ op \in Ops /\ op \notin {"graph", "end"}
      /\ op' \in {NextOp, OpAfterFault}
      /\ copy' = [copy EXCEPT ![Runner] = NoDoc]
      /\ faults' \in Nat
      /\ UNCHANGED <<result, pc, outcome, lock, crashed, starts>>
  BY DEF RunnerIndex, RunnerFault, RunnerCalls, IInv, TypeOK
<1>2. \/ copy[Runner] # NoDoc /\ doc' = Write(copy[Runner]) /\ op' = NextOp /\ faults' = faults
      \/ copy[Runner] # NoDoc /\ doc' = Write(copy[Runner]) /\ op' = OpAfterFault
      \/ doc' = doc /\ op' = OpAfterFault
  BY DEF RunnerIndex, RunnerFault
<1>3. copy[Runner] # NoDoc =>
        LET w == Write(copy[Runner])
        IN  /\ w \in Doc /\ Ordered(w) /\ Extends(doc, w)
            /\ op = "init_graph_progress" => w.node = [n \in Nodes |-> "pending"]
            /\ op = "mark_running" => w.node = doc.node
  BY WriteOk DEF IInv, RunnerInv, TypeOK, Threads
<1>4. doc' \in Doc /\ Ordered(doc') /\ Extends(doc, doc')
  <2>1. CASE doc' = doc
    BY <2>1 DEF IInv, TypeOK, Doc, Ordered, Extends, EventsOf
  <2>2. CASE copy[Runner] # NoDoc /\ doc' = Write(copy[Runner])
    BY <1>3, <2>2
  <2> QED
    BY <1>2, <2>1, <2>2
<1>5. /\ op' \in Ops
      /\ op' # "init_graph_progress"
      /\ op' = "mark_running" => op = "init_graph_progress"
      /\ op' = "graph" => op = "mark_running"
      /\ op' \in {"mark_running", "graph"} => op' = NextOp /\ op' # OpAfterFault
  BY <1>1, NextOpOk
<1>6. TypeOK'
  BY <1>1, <1>4, <1>5 DEF IInv, TypeOK
<1>7. \A n \in Nodes : pc[n] \in {"idle", "done"} /\ ~Holding(n)
  BY <1>1 DEF IInv, QuietInv, Holding
<1>8. LockInv' /\ CopyInv' /\ RunnerInv' /\ QuietInv'
  BY <1>1, <1>7, AgentTaskAssumption
     DEF IInv, TypeOK, LockInv, CopyInv, RunnerInv, QuietInv, Holding, Threads
<1>9. EarlyInv'
  BY <1>1, <1>5 DEF IInv, EarlyInv
<1>10. OutcomeInv'
  BY <1>1, <1>5 DEF IInv, OutcomeInv, EarlyInv, Traced
<1>11. BoardInv'
  <2> SUFFICES ASSUME faults' = 0, op' \in {"mark_running", "graph"}, NEW n \in Nodes
               PROVE  doc'.node[n] = ReportedStatus(n)'
    BY <1>5 DEF BoardInv
  <2>1. /\ copy[Runner] # NoDoc /\ doc' = Write(copy[Runner])
        /\ faults = 0 /\ op \in {"init_graph_progress", "mark_running"}
    BY <1>2, <1>5
  <2>2. ReportedStatus(n)' = "pending" /\ ReportedStatus(n) = "pending"
    BY <1>1, <2>1 DEF IInv, EarlyInv, ReportedStatus
  <2>3. doc.node[n] = "pending"
    BY <2>1, <2>2 DEF IInv, BoardInv
  <2> QED
    BY <1>3, <2>1, <2>2, <2>3
<1> QED
  BY <1>4, <1>6, <1>8, <1>9, <1>10, <1>11 DEF IInv

\* The agent returns a document or raises.
LEMMA GraphEndOk ==
  ASSUME IInv, GraphReturns \/ AgentRaises
  PROVE  IInv' /\ Extends(doc, doc')
<1>1. /\ op = "graph" /\ op' \in {"reporter_graph_failed", "sync_graph", "mark_graph_failed"}
      /\ UNCHANGED <<doc, pc, outcome, copy, lock, crashed, starts, faults>>
  BY DEF GraphReturns, AgentRaises
<1>2. \A n \in Nodes : pc[n] \in {"idle", "done"}
  BY DEF IInv, TypeOK, NodePcs, GraphReturns, AgentRaises, Active
<1>3. result' \in Results
  BY DEF IInv, TypeOK, GraphReturns, AgentRaises, Results
<1>4. TypeOK'
  BY <1>1, <1>3 DEF IInv, TypeOK, Ops
<1>5. LockInv' /\ CopyInv' /\ RunnerInv' /\ EarlyInv' /\ QuietInv' /\ BoardInv'
  BY <1>1, <1>2 DEF IInv, LockInv, CopyInv, RunnerInv, EarlyInv, QuietInv, BoardInv,
                    Holding, SameBoard
<1>6. OutcomeInv'
  <2> SUFFICES ASSUME Traced', NEW n \in Nodes PROVE outcome[n] \in Finished
    BY <1>1 DEF OutcomeInv
  <2>1. ~Raised /\ \A m \in Nodes : pc[m] = "done"
    BY <1>1 DEF GraphReturns, AgentRaises, Traced, IInv, EarlyInv
  <2> QED
    BY <1>1, <2>1 DEF IInv, OutcomeInv, TypeOK, Raised
<1>7. Ordered(doc') /\ Extends(doc, doc')
  BY <1>1 DEF IInv, TypeOK, Doc, Extends
<1> QED
  BY <1>4, <1>5, <1>6, <1>7 DEF IInv

\* The startup hook of a worker touches only the status and the error code.
LEMMA StartupOk ==
  ASSUME IInv, Restart \/ OtherWorkerStart
  PROVE  IInv' /\ Extends(doc, doc')
<1>1. /\ doc' = FailIfOpen(doc) /\ starts' \in Nat
      /\ UNCHANGED <<op, result, pc, outcome, copy, lock, crashed, faults>>
  BY DEF Restart, OtherWorkerStart, IInv, TypeOK
<1>2. doc' \in Doc /\ SameBoard(doc', doc)
  BY <1>1 DEF IInv, TypeOK, FailIfOpen, MarkFailed, SameBoard, Doc, TaskStatus, ErrorCodes
<1>3. Ordered(doc') /\ Extends(doc, doc')
  BY <1>2, StatusOk DEF IInv, TypeOK
<1>4. TypeOK'
  BY <1>1, <1>2 DEF IInv, TypeOK
<1>5. LockInv' /\ CopyInv' /\ RunnerInv'
  BY <1>1, <1>2 DEF IInv, LockInv, CopyInv, RunnerInv, Holding, SameBoard
<1>6. EarlyInv' /\ QuietInv' /\ OutcomeInv'
  BY <1>1 DEF IInv, EarlyInv, QuietInv, OutcomeInv, Traced
<1>7. BoardInv'
  BY <1>1, <1>2 DEF IInv, BoardInv, ReportedStatus, SameBoard
<1> QED
  BY <1>3, <1>4, <1>5, <1>6, <1>7 DEF IInv

\* The owner dies.
LEMMA CrashOk ==
  ASSUME IInv, Crash
  PROVE  IInv' /\ Extends(doc, doc')
<1>1. /\ op' = "end" /\ lock' = Nobody
      /\ pc' = [n \in Nodes |-> "done"] /\ copy' = [t \in Threads |-> NoDoc]
      /\ crashed' = TRUE
      /\ UNCHANGED <<doc, result, outcome, starts, faults>>
  BY DEF Crash
<1>2. TypeOK'
  BY <1>1 DEF IInv, TypeOK, Ops, NodePcs
<1>3. LockInv' /\ CopyInv' /\ RunnerInv' /\ EarlyInv' /\ QuietInv' /\ BoardInv'
  BY <1>1, AgentTaskAssumption
     DEF LockInv, CopyInv, RunnerInv, EarlyInv, QuietInv, BoardInv, Holding, Threads
<1>4. OutcomeInv'
  BY <1>1 DEF IInv, OutcomeInv, Traced
<1>5. Ordered(doc') /\ Extends(doc, doc')
  BY <1>1 DEF IInv, TypeOK, Doc, Extends
<1> QED
  BY <1>2, <1>3, <1>4, <1>5 DEF IInv
-----------------------------------------------------------------------------
\* Every step keeps the invariant and leaves readers' cursors valid.
THEOREM StepOk == IInv /\ [Next]_vars => IInv' /\ Extends(doc, doc')
<1> SUFFICES ASSUME IInv, [Next]_vars PROVE IInv' /\ Extends(doc, doc')
  OBVIOUS
<1>1. CASE RunnerGet
  BY <1>1, RunnerGetOk
<1>2. CASE RunnerIndex \/ RunnerFault
  BY <1>2, RunnerWriteStepOk
<1>3. CASE GraphReturns \/ AgentRaises
  BY <1>3, GraphEndOk
<1>4. ASSUME NEW n \in Nodes, NodeStartedGet(n) \/ NodeFinishedGet(n)
      PROVE  IInv' /\ Extends(doc, doc')
  BY <1>4, NodeGetOk
<1>5. ASSUME NEW n \in Nodes, NodeIndex(n) \/ NodeFault(n)
      PROVE  IInv' /\ Extends(doc, doc')
  BY <1>5, NodeWriteStepOk
<1>6. ASSUME NEW n \in Nodes, NodeBody(n)
      PROVE  IInv' /\ Extends(doc, doc')
  BY <1>6, NodeBodyOk
<1>7. CASE Restart \/ OtherWorkerStart
  BY <1>7, StartupOk
<1>8. CASE Crash
  BY <1>8, CrashOk
<1>9. CASE UNCHANGED vars
  <2>1. TypeOK' /\ LockInv' /\ CopyInv' /\ RunnerInv'
    BY <1>9 DEF vars, IInv, TypeOK, LockInv, CopyInv, RunnerInv, Holding, SameBoard
  <2>2. EarlyInv' /\ QuietInv' /\ OutcomeInv' /\ BoardInv'
    BY <1>9 DEF vars, IInv, EarlyInv, QuietInv, OutcomeInv, Traced, BoardInv, ReportedStatus
  <2>3. Ordered(doc') /\ Extends(doc, doc')
    BY <1>9 DEF vars, IInv, TypeOK, Doc, Extends
  <2> QED
    BY <2>1, <2>2, <2>3 DEF IInv
<1> QED
  BY <1>1, <1>2, <1>3, <1>4, <1>5, <1>6, <1>7, <1>8, <1>9
     DEF Next, RunnerStep, NodeStep, Environment

\* The inductive invariant holds in every reachable state.
THEOREM Invariance == Spec => []IInv
<1>1. Init => IInv
  BY InitOk
<1>2. IInv /\ [Next]_vars => IInv'
  BY StepOk
<1> QED
  BY <1>1, <1>2, PTL DEF Spec

\* Every variable keeps its type.
THEOREM TypeCorrect == Spec => []TypeOK
<1>1. IInv => TypeOK
  BY DEF IInv
<1> QED
  BY <1>1, Invariance, PTL

\* The stored event log is ordered and never runs ahead of the counter.
THEOREM LogOrdered == Spec => []EventLogOrdered
<1>1. IInv => EventLogOrdered
  BY DEF IInv, Ordered, EventLogOrdered
<1> QED
  BY <1>1, Invariance, PTL

\* While the graph runs and no call has failed, the board shows what every
\* node thread last reported.
THEOREM ReportsKept == Spec => []NoReportLost
<1>1. IInv => NoReportLost
  BY DEF IInv, BoardInv, NoReportLost
<1> QED
  BY <1>1, Invariance, PTL

\* No write puts an unseen event at or below a reader's cursor.
THEOREM CursorsValid == Spec => CursorsStayValid
<1>1. IInv /\ [Next]_vars =>
        /\ doc'.seq >= doc.seq
        /\ \A e \in EventsOf(doc') : e.seq <= doc.seq => e \in EventsOf(doc)
  BY StepOk DEF Extends
<1> QED
  BY <1>1, Invariance, PTL DEF Spec, CursorsStayValid

-----------------------------------------------------------------------------
(***************************************************************************)
(* The verdict of a task agrees with its board, for every graph and route  *)
(* and however often other workers start up, as long as no call to         *)
(* Elasticsearch raises; and when no other worker starts up either, the    *)
(* whole-document reads and writes of AgentTask implement TaskBoard, also  *)
(* across a crash and a restart.                                           *)
(***************************************************************************)
\* no verdict yet, or the one of a startup hook
Open(d) == d.status \in {"queued", "running"} \/ (d.status = "failed" /\ d.error = "BACKEND_RESTART")

VerdictInv ==
  faults = 0 =>
    /\ op # "end" => Open(doc)
    /\ \A n \in Nodes : Holding(n) => Open(copy[n])
    /\ copy[Runner] # NoDoc => Open(copy[Runner]) /\ copy[Runner].graph = doc.graph
    /\ op = "mark_closed" => doc.graph = IF TreatedAsFailure THEN "failed" ELSE "success"
    /\ op = "mark_failed" => doc.graph = "failed"
    /\ result = "saved" => outcome[Persist] # "failed"
    /\ VerdictMatchesBoard
-----------------------------------------------------------------------------
\* An event leaves everything but the counter and the log alone.
LEMMA AppendFields ==
  ASSUME NEW d \in Doc, NEW t, NEW n, NEW s
  PROVE  LET e == AppendGraphEvent(d, t, n, s)
         IN  /\ e.status = d.status /\ e.error = d.error
             /\ e.graph = d.graph /\ e.node = d.node /\ e.seq = d.seq + 1
BY DEF AppendGraphEvent, Doc

\* A report leaves the status and the error code alone.
LEMMA ReportFields ==
  ASSUME NEW d \in Doc, NEW node \in [Nodes -> NodeStatus], NEW graph \in NodeStatus,
         NEW current \in SUBSET Nodes, NEW t, NEW n, NEW s
  PROVE  LET e == AppendGraphEvent(SetSnapshot(d, node, graph, current), t, n, s)
         IN  /\ e.status = d.status /\ e.error = d.error
             /\ e.graph = graph /\ e.node = node /\ e.seq > d.seq
<1> DEFINE m == SetSnapshot(d, node, graph, current)
<1>2. d.seq \in Nat /\ d.seq + 1 \in Nat
  BY DEF Doc
<1>1. /\ m \in Doc /\ m.status = d.status /\ m.error = d.error /\ m.graph = graph
      /\ m.node = node /\ m.seq = d.seq + 1
  BY <1>2 DEF SetSnapshot, Doc
<1> HIDE DEF m
<1>3. LET e == AppendGraphEvent(m, t, n, s)
      IN  /\ e.status = m.status /\ e.error = m.error
          /\ e.graph = m.graph /\ e.node = m.node /\ e.seq = m.seq + 1
  BY <1>1, AppendFields
<1> QED
  BY <1>1, <1>2, <1>3 DEF m

\* The calls of the runner, field by field.
LEMMA WriteFields ==
  ASSUME NEW c \in Doc, op \in Ops, OutcomeInv
  PROVE  LET w == Write(c)
         IN  /\ op = "init_graph_progress" =>
                  w.status = c.status /\ w.error = c.error /\ w.seq > c.seq
             /\ op = "mark_running" =>
                  w.status = "running" /\ w.error = c.error /\ w.seq = c.seq /\ w.node = c.node
             /\ op \in {"reporter_graph_failed", "mark_graph_failed"} =>
                  /\ w.status = c.status /\ w.error = c.error /\ w.graph = "failed" /\ w.seq > c.seq
                  /\ w.node = [n \in Nodes |-> IF c.node[n] = "running" THEN "failed" ELSE c.node[n]]
             /\ op = "sync_graph" =>
                  /\ w.status = c.status /\ w.error = c.error /\ w.seq > c.seq
                  /\ w.graph = IF TreatedAsFailure THEN "failed" ELSE "success"
                  /\ w.node = IF Traced THEN [n \in Nodes |-> outcome[n]] ELSE c.node
             /\ op = "mark_closed" =>
                  /\ IF TreatedAsFailure THEN w.status = "failed" ELSE w.status = "completed"
                  /\ w.graph = c.graph /\ w.seq = c.seq /\ w.node = c.node
             /\ op = "mark_failed" =>
                  w.status = "failed" /\ w.graph = c.graph /\ w.seq = c.seq /\ w.node = c.node
<1>1. c.seq \in Nat
  BY DEF Doc
<1>2. CASE op = "init_graph_progress"
  <2> DEFINE m == [c EXCEPT !.node = [n \in Nodes |-> "pending"], !.graph = "pending", !.current = {}]
  <2>1. m \in Doc /\ m.status = c.status /\ m.error = c.error /\ m.seq = c.seq
    BY DEF Doc, NodeStatus
  <2>2. Write(c) = AppendGraphEvent(m, "graph_initialized", Nobody, "pending")
    BY <1>2 DEF Write, InitGraphProgress
  <2> HIDE DEF m
  <2>3. Write(c).status = m.status /\ Write(c).error = m.error /\ Write(c).seq = m.seq + 1
    BY <2>1, <2>2, AppendFields
  <2> QED
    BY <1>1, <1>2, <2>1, <2>3
<1>3. CASE op = "mark_running"
  BY <1>3 DEF Write, MarkRunning, Doc
<1>4. CASE op \in {"reporter_graph_failed", "mark_graph_failed"}
  <2> DEFINE node == [n \in Nodes |-> IF c.node[n] = "running" THEN "failed" ELSE c.node[n]]
  <2>1. Write(c) = AppendGraphEvent(SetSnapshot(c, node, "failed", {}), "graph_failed", Nobody, "failed")
    BY <1>4 DEF Write, MarkGraphFailed
  <2>2. node \in [Nodes -> NodeStatus] /\ "failed" \in NodeStatus /\ {} \in SUBSET Nodes
    BY DEF Doc, NodeStatus, Finished
  <2> HIDE DEF node
  <2>3. /\ Write(c).status = c.status /\ Write(c).error = c.error /\ Write(c).graph = "failed"
        /\ Write(c).seq > c.seq /\ Write(c).node = node
    BY <2>1, <2>2, ReportFields
  <2> QED
    BY <1>4, <2>3 DEF node
<1>5. CASE op = "sync_graph"
  <2> DEFINE node  == IF Traced THEN [n \in Nodes |-> outcome[n]] ELSE c.node
             final == IF TreatedAsFailure THEN "failed" ELSE "success"
  <2>1. Write(c) = AppendGraphEvent(SetSnapshot(c, node, final, {}), "graph_synced", Nobody, final)
    BY <1>5 DEF Write, SyncGraph
  <2>2. node \in [Nodes -> NodeStatus] /\ final \in NodeStatus /\ {} \in SUBSET Nodes
    BY DEF Doc, NodeStatus, Finished, OutcomeInv
  <2> HIDE DEF node, final
  <2>3. /\ Write(c).status = c.status /\ Write(c).error = c.error /\ Write(c).graph = final
        /\ Write(c).seq > c.seq /\ Write(c).node = node
    BY <2>1, <2>2, ReportFields
  <2> QED
    BY <1>5, <2>3 DEF node, final
<1>6. CASE op \in {"mark_closed", "mark_failed"}
  BY <1>6 DEF Write, MarkFailed, MarkCompleted, Doc
<1>7. CASE op \in {"graph", "end"}
  BY <1>7
<1> QED
  BY <1>2, <1>3, <1>4, <1>5, <1>6, <1>7 DEF Ops

\* The reports of a node.
LEMMA NodeWriteFields ==
  ASSUME NEW n \in Nodes, copy[n] \in Doc, pc[n] # "starting" => outcome[n] \in Finished \cup {"raised"}
  PROVE  /\ NodeWrite(n).status = copy[n].status /\ NodeWrite(n).error = copy[n].error
         /\ NodeWrite(n).seq > copy[n].seq
<1> DEFINE c == copy[n]
           s == IF pc[n] = "starting" THEN "running"
                ELSE IF outcome[n] = "raised" THEN "failed" ELSE outcome[n]
           node == [c.node EXCEPT ![n] = s]
<1>1. c.node \in [Nodes -> NodeStatus] /\ s \in NodeStatus
  BY DEF Doc, NodeStatus, Finished
<1>2. node \in [Nodes -> NodeStatus]
  BY <1>1
<1>3. /\ "failed" \in NodeStatus /\ "running" \in NodeStatus
      /\ {} \in SUBSET Nodes /\ RunningIn(node) \in SUBSET Nodes
  BY DEF NodeStatus, Finished, RunningIn
<1>4. InferGraphStatus(node) \in NodeStatus
  BY <1>2, InferOk
<1>5. \/ NodeWrite(n) = AppendGraphEvent(SetSnapshot(c, node, "running", RunningIn(node)),
                                         "node_started", n, "running")
      \/ NodeWrite(n) = AppendGraphEvent(SetSnapshot(c, node, "failed", {}), "node_failed", n, "failed")
      \/ NodeWrite(n) = AppendGraphEvent(
                          SetSnapshot(c, node, InferGraphStatus(node), RunningIn(node)),
                          "node_finished", n, s)
  BY DEF NodeWrite, MarkNodeRunning, MarkNodeFinished, MarkNodeFailed
<1> HIDE DEF node, s
<1>6. CASE NodeWrite(n) = AppendGraphEvent(SetSnapshot(c, node, "running", RunningIn(node)),
                                           "node_started", n, "running")
  BY <1>2, <1>3, <1>6, ReportFields
<1>7. CASE NodeWrite(n) = AppendGraphEvent(SetSnapshot(c, node, "failed", {}), "node_failed", n, "failed")
  BY <1>2, <1>3, <1>7, ReportFields
<1>8. CASE NodeWrite(n) = AppendGraphEvent(
                            SetSnapshot(c, node, InferGraphStatus(node), RunningIn(node)),
                            "node_finished", n, s)
  BY <1>2, <1>3, <1>4, <1>8, ReportFields
<1> QED
  BY <1>5, <1>6, <1>7, <1>8
-----------------------------------------------------------------------------
\* Whoever holds a copy is the only one who does.
LEMMA OnlyCopy ==
  ASSUME IInv
  PROVE  /\ op # "graph" => \A n \in Nodes : copy[n] = NoDoc
         /\ \A n \in Nodes : Holding(n) =>
              /\ op = "graph" /\ copy[Runner] = NoDoc
              /\ \A m \in Nodes : m # n => copy[m] = NoDoc
<1>1. \A n \in Nodes : copy[n] # NoDoc => Holding(n)
  BY DEF IInv, CopyInv
<1>2. \A n \in Nodes : Holding(n) => op = "graph"
  BY DEF IInv, QuietInv, Holding
<1>3. \A n, m \in Nodes : Holding(n) /\ Holding(m) => n = m
  BY DEF IInv, LockInv
<1>4. op = "graph" => copy[Runner] = NoDoc
  BY DEF IInv, RunnerInv
<1> QED
  BY <1>1, <1>2, <1>3, <1>4

\* A thread takes a copy.
LEMMA VerdictGet ==
  ASSUME IInv, VerdictInv,
         RunnerGet \/ \E n \in Nodes : NodeStartedGet(n) \/ NodeFinishedGet(n)
  PROVE  VerdictInv'
<1>1. op # "end" /\ UNCHANGED <<doc, op, result, outcome, faults>>
  BY DEF RunnerGet, RunnerCalls, NodeStartedGet, NodeFinishedGet, NodeGet, MayRun, IInv, QuietInv
<1>2. CASE RunnerGet
  <2>1. copy' = [copy EXCEPT ![Runner] = doc] /\ UNCHANGED pc
    BY <1>2 DEF RunnerGet
  <2>2. copy'[Runner] = doc /\ \A n \in Nodes : copy'[n] = copy[n] /\ Holding(n)' = Holding(n)
    BY <2>1, AgentTaskAssumption DEF IInv, TypeOK, Threads, Holding
  <2> QED
    BY <1>1, <2>2 DEF VerdictInv, VerdictMatchesBoard, Open, TreatedAsFailure
<1>3. ASSUME NEW n \in Nodes, NodeStartedGet(n) \/ NodeFinishedGet(n)
      PROVE  VerdictInv'
  <2>1. copy' = [copy EXCEPT ![n] = doc] /\ \E to \in NodePcs : pc' = [pc EXCEPT ![n] = to]
    BY <1>3 DEF NodeStartedGet, NodeFinishedGet, NodeGet, NodePcs
  <2>2. /\ copy'[Runner] = copy[Runner] /\ copy'[n] = doc
        /\ \A m \in Nodes : m # n => copy'[m] = copy[m] /\ Holding(m)' = Holding(m)
    BY <2>1, AgentTaskAssumption DEF IInv, TypeOK, Threads, Holding
  <2> QED
    BY <1>1, <2>2 DEF VerdictInv, VerdictMatchesBoard, Open, TreatedAsFailure
<1> QED
  BY <1>2, <1>3

\* A node thread writes its report.
LEMMA VerdictNode ==
  ASSUME IInv, VerdictInv, NEW n \in Nodes, NodeIndex(n)
  PROVE  VerdictInv'
<1> SUFFICES ASSUME faults' = 0 PROVE VerdictInv'
  BY DEF VerdictInv
<1>1. /\ Holding(n) /\ doc' = NodeWrite(n) /\ copy' = [copy EXCEPT ![n] = NoDoc]
      /\ UNCHANGED <<op, result, outcome, faults>>
  BY DEF NodeIndex, Holding
<1>2. copy[n] \in Doc /\ op = "graph" /\ outcome[n] \in Finished \cup {"none", "raised"}
  BY <1>1, OnlyCopy DEF IInv, CopyInv, TypeOK
<1>3. pc[n] # "starting" => outcome[n] \in Finished \cup {"raised"}
  BY <1>1, <1>2 DEF IInv, OutcomeInv, Holding
<1>4. doc'.status = copy[n].status /\ doc'.error = copy[n].error
  BY <1>1, <1>2, <1>3, NodeWriteFields
<1>5. \A t \in Threads : copy'[t] = NoDoc
  BY <1>1, OnlyCopy DEF IInv, TypeOK, Threads
<1>6. Open(doc')
  BY <1>1, <1>4 DEF VerdictInv, Open
<1>7. copy'[Runner] = NoDoc /\ \A m \in Nodes : ~Holding(m)'
  <2>1. pc' = [pc EXCEPT ![n] = Released(n)] /\ Released(n) \in {"body", "done"}
    BY <1>1 DEF NodeIndex, Released
  <2>2. \A m \in Nodes : m # n => ~Holding(m)
    BY <1>1 DEF IInv, LockInv
  <2> QED
    BY <1>5, <2>1, <2>2 DEF IInv, TypeOK, Holding, Threads
<1> QED
  BY <1>1, <1>2, <1>6, <1>7 DEF VerdictInv, VerdictMatchesBoard, Open

\* The runner writes.
LEMMA VerdictRunner ==
  ASSUME IInv, VerdictInv, RunnerIndex
  PROVE  VerdictInv'
<1> SUFFICES ASSUME faults' = 0 PROVE VerdictInv'
  BY DEF VerdictInv
<1> DEFINE c == copy[Runner]
<1>1. /\ op \in Ops /\ op \notin {"graph", "end"}
      /\ c # NoDoc /\ doc' = Write(c) /\ op' = NextOp
      /\ copy' = [copy EXCEPT ![Runner] = NoDoc]
      /\ UNCHANGED <<result, pc, outcome, faults>>
  BY DEF RunnerIndex, RunnerCalls, IInv, TypeOK
<1>2. c \in Doc /\ copy'[Runner] = NoDoc /\ OutcomeInv
  BY <1>1 DEF IInv, TypeOK, Threads
<1>3. Open(doc) /\ Open(c) /\ c.graph = doc.graph
  BY <1>1 DEF VerdictInv
<1>4. \A n \in Nodes : ~Holding(n)'
  BY <1>1 DEF IInv, QuietInv, Holding
<1>5. TreatedAsFailure' = TreatedAsFailure
  BY <1>1 DEF TreatedAsFailure
<1> HIDE DEF c
<1>6. result = "saved" => outcome[Persist] # "failed"
  BY <1>1 DEF VerdictInv
<1>7. CASE op \in {"init_graph_progress", "mark_running", "reporter_graph_failed"}
  <2>1. Open(doc') /\ op' \in {"mark_running", "graph", "sync_graph"}
    BY <1>1, <1>2, <1>3, <1>7, WriteFields DEF Open, NextOp
  <2> QED
    BY <1>1, <1>2, <1>4, <1>6, <2>1 DEF VerdictInv, VerdictMatchesBoard, Open
<1>8. CASE op = "sync_graph"
  <2>1. /\ Open(doc') /\ op' \in {"mark_graph_failed", "mark_closed"}
        /\ doc'.graph = IF TreatedAsFailure THEN "failed" ELSE "success"
    BY <1>1, <1>2, <1>3, <1>8, WriteFields DEF Open, NextOp
  <2> QED
    BY <1>1, <1>2, <1>4, <1>5, <1>6, <2>1 DEF VerdictInv, VerdictMatchesBoard, Open
<1>9. CASE op = "mark_closed"
  <2>1. op' = "end" /\ doc.graph = IF TreatedAsFailure THEN "failed" ELSE "success"
    BY <1>1, <1>9 DEF VerdictInv, NextOp
  <2>2. /\ doc'.graph = doc.graph
        /\ IF TreatedAsFailure THEN doc'.status = "failed" ELSE doc'.status = "completed"
    BY <1>1, <1>2, <1>3, <1>9, WriteFields
  <2> QED
    BY <1>1, <1>2, <1>4, <1>6, <2>1, <2>2 DEF VerdictInv, VerdictMatchesBoard, TreatedAsFailure
<1>a. CASE op = "mark_graph_failed"
  <2>1. Open(doc') /\ op' = "mark_failed" /\ doc'.graph = "failed"
    BY <1>1, <1>2, <1>3, <1>a, WriteFields DEF Open, NextOp
  <2> QED
    BY <1>1, <1>2, <1>4, <1>6, <2>1 DEF VerdictInv, VerdictMatchesBoard, Open
<1>b. CASE op = "mark_failed"
  <2>1. op' = "end" /\ doc.graph = "failed"
    BY <1>1, <1>b DEF VerdictInv, NextOp
  <2>2. doc'.status = "failed" /\ doc'.graph = "failed"
    BY <1>1, <1>2, <1>3, <1>b, <2>1, WriteFields
  <2> QED
    BY <1>1, <1>2, <1>4, <1>6, <2>1, <2>2 DEF VerdictInv, VerdictMatchesBoard
<1> QED
  BY <1>1, <1>7, <1>8, <1>9, <1>a, <1>b DEF Ops

\* The graph goes on or ends.
LEMMA VerdictGraph ==
  ASSUME IInv, VerdictInv,
         GraphReturns \/ AgentRaises \/ \E n \in Nodes : NodeBody(n)
  PROVE  VerdictInv'
<1> SUFFICES ASSUME faults' = 0 PROVE VerdictInv'
  BY DEF VerdictInv
<1>1. op = "graph" /\ UNCHANGED <<doc, copy, faults>>
  BY DEF GraphReturns, AgentRaises, NodeBody, IInv, QuietInv
<1>2. Open(doc) /\ copy[Runner] = NoDoc /\ (\A n \in Nodes : Holding(n) => Open(copy[n]))
  BY <1>1 DEF IInv, RunnerInv, VerdictInv
<1>3. \A n \in Nodes : Holding(n)' => Holding(n)
  BY DEF GraphReturns, AgentRaises, NodeBody, Holding, IInv, TypeOK
<1>4. /\ op' \in {"graph", "reporter_graph_failed", "sync_graph", "mark_graph_failed"}
      /\ result' = "saved" => outcome'[Persist] # "failed"
  BY <1>1 DEF GraphReturns, AgentRaises, NodeBody, IInv, EarlyInv
<1> QED
  BY <1>1, <1>2, <1>3, <1>4 DEF VerdictInv, VerdictMatchesBoard, Open

\* Processes come and go.
LEMMA VerdictProcess ==
  ASSUME IInv, VerdictInv, Restart \/ OtherWorkerStart \/ Crash
  PROVE  VerdictInv'
<1> SUFFICES ASSUME faults' = 0 PROVE VerdictInv'
  BY DEF VerdictInv
<1>1. CASE Restart \/ OtherWorkerStart
  <2>1. doc' = FailIfOpen(doc) /\ UNCHANGED <<op, result, pc, outcome, copy, faults>>
    BY <1>1 DEF Restart, OtherWorkerStart
  <2>2. /\ doc'.graph = doc.graph
        /\ \/ doc'.status = doc.status /\ doc'.error = doc.error
           \/ doc'.status = "failed" /\ doc'.error = "BACKEND_RESTART"
    BY <2>1 DEF FailIfOpen, MarkFailed, IInv, TypeOK, Doc
  <2> QED
    BY <2>1, <2>2 DEF VerdictInv, VerdictMatchesBoard, Open, TreatedAsFailure, Holding
<1>2. CASE Crash
  <2>1. /\ op' = "end" /\ copy' = [t \in Threads |-> NoDoc] /\ pc' = [n \in Nodes |-> "done"]
        /\ UNCHANGED <<doc, result, outcome, faults>>
    BY <1>2 DEF Crash
  <2> QED
    BY <2>1 DEF VerdictInv, VerdictMatchesBoard, Holding, Threads
<1> QED
  BY <1>1, <1>2

\* As long as no call has raised, the verdict of a task agrees with its board:
\* a completed task has a successful graph and, on the routes that treat a
\* fallback as a failure, a saved result; a task its runner failed has a failed
\* graph.  Startup hooks of other workers and crashes do not change that.
THEOREM VerdictAgrees == Spec => []VerdictMatchesBoard
<1>1. Init => VerdictInv
  BY DEF Init, NewTask, VerdictInv, VerdictMatchesBoard, Open, Holding, Threads
<1>2. IInv /\ VerdictInv /\ [Next]_vars => VerdictInv'
  <2> SUFFICES ASSUME IInv, VerdictInv, [Next]_vars PROVE VerdictInv'
    OBVIOUS
  <2>1. CASE RunnerGet \/ \E n \in Nodes : NodeStartedGet(n) \/ NodeFinishedGet(n)
    BY <2>1, VerdictGet
  <2>2. CASE RunnerIndex
    BY <2>2, VerdictRunner
  <2>3. CASE \E n \in Nodes : NodeIndex(n)
    BY <2>3, VerdictNode
  <2>4. CASE GraphReturns \/ AgentRaises \/ \E n \in Nodes : NodeBody(n)
    BY <2>4, VerdictGraph
  <2>5. CASE Restart \/ OtherWorkerStart \/ Crash
    BY <2>5, VerdictProcess
  <2>6. CASE RunnerFault \/ \E n \in Nodes : NodeFault(n)
    <3>1. faults' # 0
      BY <2>6 DEF RunnerFault, NodeFault, IInv, TypeOK
    <3> QED
      BY <3>1 DEF VerdictInv
  <2>7. CASE UNCHANGED vars
    BY <2>7 DEF vars, VerdictInv, VerdictMatchesBoard, Open, TreatedAsFailure, Holding
  <2> QED
    BY <2>1, <2>2, <2>3, <2>4, <2>5, <2>6, <2>7
       DEF Next, RunnerStep, NodeStep, Environment
<1>3. VerdictInv => VerdictMatchesBoard
  BY DEF VerdictInv, VerdictMatchesBoard
<1> QED
  BY <1>1, <1>2, <1>3, Invariance, PTL DEF Spec
-----------------------------------------------------------------------------
(***************************************************************************)
(* One worker, no fault: the task document is a TaskBoard.                 *)
(***************************************************************************)
BoardSteps == Board!Next \/ UNCHANGED <<doc.status, doc.node, doc.seq>>

StatusOf(o) == IF o \in {"init_graph_progress", "mark_running"} THEN "queued" ELSE "running"

NobodyRuns == RunningIn(doc.node) = {}

\* what the steps of the board depend on: the status follows the runner's calls, nobody
\* holds an old status, and no node is left running when the runner synchronises
AloneInv ==
  /\ faults = 0 /\ starts = 0
  /\ crashed => op = "end"
  /\ op = "end" => copy[Runner] = NoDoc
  /\ op # "end" => doc.status = StatusOf(op)
  /\ \A n \in Nodes : Holding(n) => copy[n].status = doc.status
  /\ copy[Runner] # NoDoc => copy[Runner].status = doc.status
  /\ op \in {"sync_graph", "mark_closed"} => NobodyRuns

\* An announcement settles some nodes and leaves the others as they are.
LEMMA AnnounceOk ==
  ASSUME doc'.node \in [Nodes -> NodeStatus],
         \A n \in Nodes : doc'.node[n] = doc.node[n] \/ doc'.node[n] \in Finished,
         doc'.seq > doc.seq, doc'.status = doc.status
  PROVE  BoardSteps
<1> DEFINE settled == {n \in Nodes : doc'.node[n] # doc.node[n]}
           final == [n \in settled |-> doc'.node[n]]
<1>1. final \in [settled -> Board!Final]
  BY DEF Board!Final, Finished
<1>2. doc'.node = [n \in Nodes |-> IF n \in settled THEN final[n] ELSE doc.node[n]]
  OBVIOUS
<1>3. settled \in SUBSET Nodes
  OBVIOUS
<1> HIDE DEF final, settled
<1>4. Board!Announce
  BY <1>1, <1>2, <1>3 DEF Board!Announce
<1> QED
  BY <1>4 DEF BoardSteps, Board!Next

\* A node thread reports one step of its own node.
LEMMA AloneNode ==
  ASSUME IInv, AloneInv, NEW n \in Nodes, NodeIndex(n)
  PROVE  AloneInv' /\ BoardSteps
<1>1. /\ Holding(n) /\ doc' = NodeWrite(n) /\ copy' = [copy EXCEPT ![n] = NoDoc]
      /\ pc' = [pc EXCEPT ![n] = Released(n)] /\ Released(n) \in {"body", "done"}
      /\ UNCHANGED <<op, result, outcome, crashed, starts, faults>>
  BY DEF NodeIndex, Holding, Released
<1>2. /\ copy[n] \in Doc /\ SameBoard(copy[n], doc) /\ op = "graph"
      /\ outcome[n] \in Finished \cup {"none", "raised"}
  BY <1>1, OnlyCopy DEF IInv, CopyInv, TypeOK
<1>3. pc[n] # "starting" => outcome[n] \in Finished \cup {"raised"}
  BY <1>1, <1>2 DEF IInv, OutcomeInv, Holding
<1>4. doc'.status = doc.status /\ doc'.seq > doc.seq
  BY <1>1, <1>2, <1>3, NodeWriteFields DEF AloneInv, SameBoard
<1>5. doc'.node = [doc.node EXCEPT ![n] = Reporting(n)]
  BY <1>1, NodeWriteOk
<1>6. \A m \in Nodes : ~Holding(m)'
  <2>1. \A m \in Nodes : m # n => ~Holding(m)
    BY <1>1 DEF IInv, LockInv
  <2> QED
    BY <1>1, <2>1 DEF IInv, TypeOK, Holding
<1>7. copy'[Runner] = NoDoc
  BY <1>1, OnlyCopy, AgentTaskAssumption DEF IInv, TypeOK, Threads
<1>8. AloneInv'
  BY <1>1, <1>2, <1>4, <1>6, <1>7 DEF AloneInv, StatusOf
<1>9. doc.node[n] = ReportedStatus(n)
  BY <1>2 DEF IInv, BoardInv, AloneInv
<1>10. CASE pc[n] = "starting"
  <2>1. doc.node[n] = "pending" /\ Reporting(n) = "running"
    BY <1>9, <1>10 DEF ReportedStatus, Reporting
  <2>2. Board!Report(n)
    BY <1>4, <1>5, <2>1 DEF Board!Report
  <2> QED
    BY <1>8, <2>2 DEF BoardSteps, Board!Next
<1>11. CASE pc[n] = "ending"
  <2>1. doc.node[n] = "running"
    BY <1>9, <1>11 DEF ReportedStatus
  <2>2. Reporting(n) \in Board!Final
    BY <1>3, <1>11 DEF Reporting, Finished, Board!Final
  <2>3. Board!Report(n)
    BY <1>4, <1>5, <2>1, <2>2 DEF Board!Report
  <2> QED
    BY <1>8, <2>3 DEF BoardSteps, Board!Next
<1> QED
  BY <1>1, <1>10, <1>11 DEF Holding

\* After a write of the runner nobody holds a copy: what is left of AloneInv.
LEMMA AloneAfterWrite ==
  ASSUME faults' = 0, starts' = 0, crashed' = FALSE, copy'[Runner] = NoDoc,
         \A n \in Nodes : ~Holding(n)',
         op' # "end" => doc'.status = StatusOf(op'),
         op' \in {"sync_graph", "mark_closed"} => NobodyRuns'
  PROVE  AloneInv'
BY DEF AloneInv, StatusOf

\* The runner writes: it announces, opens or closes.
LEMMA AloneRunner ==
  ASSUME IInv, AloneInv, RunnerIndex
  PROVE  AloneInv' /\ BoardSteps
<1> DEFINE c == copy[Runner]
<1>1. /\ op \in Ops /\ op \notin {"graph", "end"}
      /\ c # NoDoc /\ doc' = Write(c) /\ op' = NextOp
      /\ copy' = [copy EXCEPT ![Runner] = NoDoc]
      /\ UNCHANGED <<result, pc, outcome, crashed, starts, faults>>
      /\ crashed \in BOOLEAN
  BY DEF RunnerIndex, RunnerCalls, IInv, TypeOK
<1>2. /\ c \in Doc /\ copy'[Runner] = NoDoc /\ OutcomeInv /\ SameBoard(c, doc)
      /\ c.status = doc.status
  BY <1>1 DEF IInv, TypeOK, Threads, RunnerInv, AloneInv
<1>3. c.node = doc.node /\ c.seq = doc.seq /\ doc.node \in [Nodes -> NodeStatus]
  BY <1>2 DEF SameBoard, Doc
<1>4. \A n \in Nodes : ~Holding(n)'
  BY <1>1 DEF IInv, QuietInv, Holding
<1>5. doc.status = StatusOf(op) /\ ~crashed
  BY <1>1 DEF AloneInv
<1>6. faults' = 0 /\ starts' = 0 /\ crashed' = FALSE
  BY <1>1, <1>5 DEF AloneInv
<1> HIDE DEF c
<1>7. CASE op = "init_graph_progress"
  <2>1. ASSUME NEW n \in Nodes PROVE doc.node[n] = "pending"
    <3>1. pc[n] = "idle"
      BY <1>7 DEF IInv, EarlyInv
    <3>2. doc.node[n] = ReportedStatus(n)
      BY <1>7 DEF IInv, BoardInv, AloneInv
    <3> QED
      BY <3>1, <3>2 DEF ReportedStatus
  <2>2. /\ doc'.status = doc.status /\ doc'.seq > doc.seq
        /\ doc'.node = [n \in Nodes |-> "pending"]
    BY <1>1, <1>2, <1>3, <1>7, WriteFields, WriteOk
  <2>3. /\ doc'.node \in [Nodes -> NodeStatus]
        /\ \A n \in Nodes : doc'.node[n] = doc.node[n]
    BY <2>1, <2>2 DEF NodeStatus
  <2>4. BoardSteps
    BY <2>2, <2>3, AnnounceOk
  <2>5. op' = "mark_running"
    BY <1>1, <1>7 DEF NextOp
  <2>6. op' # "end" => doc'.status = StatusOf(op')
    BY <1>5, <1>7, <2>2, <2>5 DEF StatusOf
  <2>7. AloneInv'
    BY <1>2, <1>4, <1>6, <2>5, <2>6, AloneAfterWrite
  <2> QED
    BY <2>4, <2>7
<1>8. CASE op = "mark_running"
  <2>1. /\ doc'.status = "running" /\ doc'.seq = doc.seq /\ doc'.node = doc.node
        /\ doc.status = "queued" /\ op' = "graph"
    BY <1>1, <1>2, <1>3, <1>5, <1>8, WriteFields DEF StatusOf, NextOp
  <2>2. Board!Open
    BY <2>1 DEF Board!Open
  <2>3. op' # "end" => doc'.status = StatusOf(op')
    BY <2>1 DEF StatusOf
  <2>4. AloneInv'
    BY <1>2, <1>4, <1>6, <2>1, <2>3, AloneAfterWrite
  <2> QED
    BY <2>2, <2>4 DEF BoardSteps, Board!Next
<1>9. CASE op \in {"reporter_graph_failed", "mark_graph_failed"}
  <2>1. /\ doc'.status = doc.status /\ doc'.seq > doc.seq
        /\ doc'.node = [n \in Nodes |-> IF doc.node[n] = "running" THEN "failed" ELSE doc.node[n]]
    <3>1. /\ Write(c).status = c.status /\ Write(c).seq > c.seq
          /\ Write(c).node = [n \in Nodes |-> IF c.node[n] = "running" THEN "failed" ELSE c.node[n]]
      BY <1>1, <1>2, <1>9, WriteFields
    <3> QED
      BY <1>1, <1>2, <1>3, <3>1
  <2>2. /\ doc'.node \in [Nodes -> NodeStatus]
        /\ \A n \in Nodes : doc'.node[n] = doc.node[n] \/ doc'.node[n] \in Finished
    BY <1>3, <2>1 DEF Finished, NodeStatus
  <2>3. BoardSteps
    BY <2>1, <2>2, AnnounceOk
  <2>4. op' \in {"sync_graph", "mark_failed"} /\ doc.status = "running"
    BY <1>1, <1>5, <1>9 DEF NextOp, StatusOf
  <2>5. NobodyRuns'
    BY <2>1 DEF NobodyRuns, RunningIn
  <2>6. op' # "end" => doc'.status = StatusOf(op')
    BY <2>1, <2>4 DEF StatusOf
  <2>7. AloneInv'
    BY <1>2, <1>4, <1>6, <2>5, <2>6, AloneAfterWrite
  <2> QED
    BY <2>3, <2>7
<1>10. CASE op = "sync_graph"
  <2>1. /\ doc'.status = doc.status /\ doc'.seq > doc.seq
        /\ doc'.node = IF Traced THEN [n \in Nodes |-> outcome[n]] ELSE doc.node
    <3>1. /\ Write(c).status = c.status /\ Write(c).seq > c.seq
          /\ Write(c).node = IF Traced THEN [n \in Nodes |-> outcome[n]] ELSE c.node
      BY <1>1, <1>2, <1>10, WriteFields
    <3>2. doc' = Write(c) /\ c.status = doc.status /\ c.seq = doc.seq /\ c.node = doc.node
      BY <1>1, <1>2, <1>3
    <3> QED
      BY <3>1, <3>2
  <2>2. NobodyRuns
    BY <1>10 DEF AloneInv
  <2>3. op' \in {"mark_graph_failed", "mark_closed"} /\ doc.status = "running"
    BY <1>1, <1>5, <1>10 DEF NextOp, StatusOf
  <2>4. op' # "end" => doc'.status = StatusOf(op')
    BY <2>1, <2>3 DEF StatusOf
  <2>5. CASE Traced
    <3>1. \A n \in Nodes : outcome[n] \in Finished
      BY <1>2, <1>10, <2>5 DEF OutcomeInv
    <3>2. /\ doc'.node \in [Nodes -> NodeStatus]
          /\ \A n \in Nodes : doc'.node[n] \in Finished
      BY <2>1, <2>5, <3>1 DEF NodeStatus
    <3>3. BoardSteps
      BY <2>1, <3>2, AnnounceOk
    <3>4. NobodyRuns'
      BY <3>2 DEF Finished, NobodyRuns, RunningIn
    <3>5. AloneInv'
      BY <1>2, <1>4, <1>6, <2>4, <3>4, AloneAfterWrite
    <3> QED
      BY <3>3, <3>5
  <2>6. CASE ~Traced
    <3>1. /\ doc'.node \in [Nodes -> NodeStatus]
          /\ \A n \in Nodes : doc'.node[n] = doc.node[n]
      BY <1>3, <2>1, <2>6
    <3>2. BoardSteps
      BY <2>1, <3>1, AnnounceOk
    <3>3. NobodyRuns'
      BY <2>1, <2>2, <2>6 DEF NobodyRuns
    <3>4. AloneInv'
      BY <1>2, <1>4, <1>6, <2>4, <3>3, AloneAfterWrite
    <3> QED
      BY <3>2, <3>4
  <2> QED
    BY <2>5, <2>6
<1>11. CASE op \in {"mark_closed", "mark_failed"}
  <2>1. /\ doc'.seq = doc.seq /\ doc'.node = doc.node
        /\ doc'.status \in {"completed", "failed"}
        /\ op = "mark_failed" => doc'.status = "failed"
        /\ doc.status = "running" /\ op' = "end"
    <3>1. /\ Write(c).seq = c.seq /\ Write(c).node = c.node
          /\ Write(c).status \in {"completed", "failed"}
          /\ op = "mark_failed" => Write(c).status = "failed"
      BY <1>1, <1>2, <1>11, WriteFields
    <3>2. doc.status = "running" /\ op' = "end"
      BY <1>1, <1>5, <1>11 DEF NextOp, StatusOf
    <3> QED
      BY <1>1, <1>2, <1>3, <3>1, <3>2
  <2>2. doc'.status = "completed" => NobodyRuns
    <3>1. CASE op = "mark_closed"
      BY <3>1 DEF AloneInv
    <3>2. CASE op = "mark_failed"
      BY <2>1, <3>2
    <3> QED
      BY <1>11, <3>1, <3>2
  <2>3. Board!Close(doc'.status)
    BY <2>1, <2>2 DEF Board!Close, NobodyRuns, RunningIn
  <2>4. AloneInv'
    BY <1>2, <1>4, <1>6, <2>1, AloneAfterWrite
  <2> QED
    BY <2>1, <2>3, <2>4 DEF BoardSteps, Board!Next
<1> QED
  BY <1>1, <1>7, <1>8, <1>9, <1>10, <1>11 DEF Ops

\* Steps that leave the document alone: reads, bodies, the graph's return, a crash.
LEMMA AloneQuiet ==
  ASSUME IInv, AloneInv,
         \/ RunnerGet \/ GraphReturns \/ AgentRaises \/ Crash
         \/ \E n \in Nodes : NodeStartedGet(n) \/ NodeFinishedGet(n) \/ NodeBody(n)
  PROVE  AloneInv' /\ BoardSteps
<1>1. doc' = doc /\ faults' = faults /\ starts' = starts
  BY DEF RunnerGet, GraphReturns, AgentRaises, Crash, NodeStartedGet, NodeFinishedGet, NodeGet,
         NodeBody
<1>2. BoardSteps
  BY <1>1 DEF BoardSteps
<1>3. NobodyRuns' = NobodyRuns
  BY <1>1 DEF NobodyRuns
<1>4. pc \in [Nodes -> NodePcs] /\ copy \in [Threads -> Doc \cup {NoDoc}]
  BY DEF IInv, TypeOK
<1>5. CASE RunnerGet
  <2>1. /\ op \notin {"graph", "end"} /\ copy'[Runner] = doc
        /\ UNCHANGED <<op, pc, crashed>>
    BY <1>4, <1>5 DEF RunnerGet, RunnerCalls, Threads
  <2>2. \A n \in Nodes : ~Holding(n)'
    BY <2>1 DEF IInv, QuietInv, Holding
  <2> QED
    BY <1>1, <1>2, <1>3, <2>1, <2>2 DEF AloneInv, StatusOf
<1>6. CASE GraphReturns
  <2>1. /\ op = "graph" /\ op' \in {"reporter_graph_failed", "sync_graph"}
        /\ op' = "sync_graph" => ~Raised /\ \A n \in Nodes : pc[n] = "done"
        /\ UNCHANGED <<pc, copy, crashed>>
    BY <1>6 DEF GraphReturns
  <2>2. op' = "sync_graph" => NobodyRuns
    <3> SUFFICES ASSUME op' = "sync_graph", NEW n \in Nodes PROVE doc.node[n] # "running"
      BY DEF NobodyRuns, RunningIn
    <3>1. outcome[n] \in Finished
      BY <2>1 DEF IInv, TypeOK, OutcomeInv, Raised
    <3>2. doc.node[n] = ReportedStatus(n)
      BY <2>1 DEF IInv, BoardInv, AloneInv
    <3> QED
      BY <2>1, <3>1, <3>2 DEF ReportedStatus, Finished
  <2>3. \A n \in Nodes : Holding(n)' => Holding(n)
    BY <2>1 DEF Holding
  <2> QED
    BY <1>1, <1>2, <1>3, <2>1, <2>2, <2>3 DEF AloneInv, StatusOf
<1>7. CASE AgentRaises
  <2>1. op = "graph" /\ op' = "mark_graph_failed" /\ UNCHANGED <<pc, copy, crashed>>
    BY <1>7 DEF AgentRaises
  <2>2. \A n \in Nodes : Holding(n)' => Holding(n)
    BY <2>1 DEF Holding
  <2> QED
    BY <1>1, <1>2, <1>3, <2>1, <2>2 DEF AloneInv, StatusOf
<1>8. CASE Crash
  <2>1. op' = "end" /\ copy'[Runner] = NoDoc /\ \A n \in Nodes : ~Holding(n)'
    BY <1>8 DEF Crash, Threads, Holding
  <2> QED
    BY <1>1, <1>2, <1>3, <2>1 DEF AloneInv
<1>9. ASSUME NEW n \in Nodes, NodeStartedGet(n) \/ NodeFinishedGet(n) \/ NodeBody(n)
      PROVE  AloneInv'
  <2>1. /\ UNCHANGED <<op, crashed>> /\ copy'[Runner] = copy[Runner]
        /\ \A m \in Nodes \ {n} : pc'[m] = pc[m] /\ copy'[m] = copy[m]
    BY <1>4, <1>9, AgentTaskAssumption
       DEF NodeStartedGet, NodeFinishedGet, NodeGet, NodeBody, Threads
  <2>2. Holding(n)' => copy'[n] = doc
    BY <1>4, <1>9 DEF NodeStartedGet, NodeFinishedGet, NodeGet, NodeBody, Threads, Holding
  <2>3. \A m \in Nodes : Holding(m)' => copy'[m].status = doc.status
    BY <2>1, <2>2 DEF AloneInv, Holding
  <2> QED
    BY <1>1, <1>3, <2>1, <2>3 DEF AloneInv, StatusOf
<1> QED
  BY <1>2, <1>5, <1>6, <1>7, <1>8, <1>9

\* The restarted process closes what it finds open.
LEMMA AloneRestart ==
  ASSUME IInv, AloneInv, Restart
  PROVE  AloneInv' /\ BoardSteps
<1>1. /\ crashed /\ doc \in Doc /\ doc' = FailIfOpen(doc)
      /\ UNCHANGED <<op, pc, copy, crashed, starts, faults>>
  BY DEF Restart, IInv, TypeOK
<1>2. op = "end" /\ copy[Runner] = NoDoc
  BY <1>1 DEF AloneInv
<1>3. \A n \in Nodes : ~Holding(n)'
  BY <1>1, <1>2 DEF IInv, QuietInv, Holding
<1>4. AloneInv'
  BY <1>1, <1>2, <1>3 DEF AloneInv
<1>5. CASE doc.status \in {"running", "queued"}
  <2>1. doc'.status = "failed" /\ doc'.node = doc.node /\ doc'.seq = doc.seq
    BY <1>1, <1>5 DEF FailIfOpen, MarkFailed, Doc
  <2>2. Board!Close("failed")
    BY <1>5, <2>1 DEF Board!Close
  <2> QED
    BY <1>4, <2>2 DEF BoardSteps, Board!Next
<1>6. CASE doc.status \notin {"running", "queued"}
  <2>1. doc' = doc
    BY <1>1, <1>6 DEF FailIfOpen
  <2> QED
    BY <1>4, <2>1 DEF BoardSteps
<1> QED
  BY <1>5, <1>6

\* While no call raises and no other worker starts up, the task document is a
\* TaskBoard: whole-document reads and writes by concurrent threads, and the death
\* and replacement of the process, look to a reader like single-node reports,
\* announcements, one opening and one closing.
THEOREM BoardKept ==
  ASSUME EsFaults = 0, OtherStarts = 0
  PROVE  Spec => BoardSpec
<1>1. Init => AloneInv
  BY DEF Init, NewTask, AloneInv, StatusOf, Holding, Threads
<1>2. Init => Board!Init
  BY DEF Init, NewTask, Board!Init
<1>3. IInv /\ AloneInv /\ [Next]_vars => AloneInv' /\ BoardSteps
  <2> SUFFICES ASSUME IInv, AloneInv, [Next]_vars PROVE AloneInv' /\ BoardSteps
    OBVIOUS
  <2>1. CASE \/ RunnerGet \/ GraphReturns \/ AgentRaises \/ Crash
             \/ \E n \in Nodes : NodeStartedGet(n) \/ NodeFinishedGet(n) \/ NodeBody(n)
    BY <2>1, AloneQuiet
  <2>2. CASE RunnerIndex
    BY <2>2, AloneRunner
  <2>3. CASE \E n \in Nodes : NodeIndex(n)
    BY <2>3, AloneNode
  <2>4. CASE Restart
    BY <2>4, AloneRestart
  <2>5. ~OtherWorkerStart /\ ~RunnerFault /\ ~\E n \in Nodes : NodeFault(n)
    BY DEF AloneInv, OtherWorkerStart, RunnerFault, NodeFault
  <2>6. CASE UNCHANGED vars
    <3>1. AloneInv'
      BY <2>6 DEF vars, AloneInv, NobodyRuns, StatusOf, Holding
    <3>2. BoardSteps
      BY <2>6 DEF vars, BoardSteps
    <3> QED
      BY <3>1, <3>2
  <2> QED
    BY <2>1, <2>2, <2>3, <2>4, <2>5, <2>6 DEF Next, RunnerStep, NodeStep, Environment
<1>4. BoardSteps => [Board!Next]_<<doc.status, doc.node, doc.seq>>
  BY DEF BoardSteps
<1> QED
  BY <1>1, <1>2, <1>3, <1>4, Invariance, PTL DEF Spec, BoardSpec, Board!Spec

\* Hence a verdict once given stays, also across a crash and a restart.  It needs both
\* assumptions: the startup hook of another worker fails a task whose owner lives, and
\* the owner's next write may take the verdict back.
THEOREM VerdictStays ==
  ASSUME EsFaults = 0, OtherStarts = 0
  PROVE  Spec => VerdictIsFinal
<1>1. Spec => BoardSpec
  BY BoardKept
<1>2. [Board!Next]_<<doc.status, doc.node, doc.seq>>
        => (doc.status \in Terminal => doc'.status = doc.status)
  BY DEF Board!Next, Board!Open, Board!Report, Board!Announce, Board!Close, Terminal
<1> QED
  BY <1>1, <1>2, PTL DEF BoardSpec, Board!Spec, VerdictIsFinal
-----------------------------------------------------------------------------
(***************************************************************************)
(* A panel that follows the stream shows the board.                        *)
(***************************************************************************)
\* A set of numbers that is not empty has a least one.
LEMMA LeastNumber == ASSUME NEW T, T \subseteq Nat, T # {} PROVE \E n \in T : \A m \in T : n <= m
<1> DEFINE Less == {p \in Nat \X Nat : p[1] < p[2]}
<1>1. IsWellFoundedOn(Less, Nat)
  BY NatLessThanWellFounded DEF OpToRel
<1> HIDE DEF Less
<1>2. PICK n \in T : \A m \in T : ~ (<<m, n>> \in Less)
  BY <1>1, WFMin
<1>3. ASSUME NEW m \in T PROVE n <= m
  <2>1. n \in Nat /\ m \in Nat
    OBVIOUS
  <2>2. <<m, n>> \in Less <=> m < n
    BY <2>1 DEF Less
  <2>3. ~ (m < n)
    BY <1>2, <2>2
  <2> QED
    BY <2>1, <2>3
<1> QED
  BY <1>3

\* One that is bounded has a greatest.
LEMMA GreatestNumber ==
  ASSUME NEW T, T \subseteq Nat, NEW t \in T, NEW b \in Nat, \A m \in T : m <= b
  PROVE  Max(T) \in T /\ \A m \in T : m <= Max(T)
<1> DEFINE U == {u \in Nat : b - u \in T}
<1>1. U \subseteq Nat /\ b - t \in U
  <2>1. b - t \in Nat /\ b - (b - t) = t
    OBVIOUS
  <2> QED
    BY <2>1
<1> HIDE DEF U
<1>2. PICK u \in U : \A m \in U : u <= m
  BY <1>1, LeastNumber
<1>3. u \in Nat /\ b - u \in T
  BY <1>2 DEF U
<1>4. ASSUME NEW m \in T PROVE m <= b - u
  <2>1. b - m \in Nat /\ b - (b - m) = m
    OBVIOUS
  <2>2. b - m \in U
    BY <2>1 DEF U
  <2>3. u <= b - m
    BY <1>2, <2>2
  <2> QED
    BY <1>3, <2>1, <2>3
<1>5. Max(T) = CHOOSE x \in T : \A y \in T : x >= y
  BY DEF Max
<1>6. \E x \in T : \A y \in T : x >= y
  <2>1. \A y \in T : b - u >= y
    BY <1>3, <1>4
  <2> QED
    BY <1>3, <2>1
<1>7. Max(T) \in T /\ \A y \in T : Max(T) >= y
  BY <1>5, <1>6
<1> QED
  BY <1>7

\* The recursion of Showing is well defined.
LEMMA ShowingEq ==
  ASSUME NEW v, NEW new, NEW events, Len(events) \in Nat
  PROVE  Showing(v, new, events) =
           [k \in 0 .. Len(events) |->
              IF k = 0 THEN v
              ELSE IF k \in new THEN ApplyGraphEvent(Showing(v, new, events)[k - 1], events[k])
                   ELSE Showing(v, new, events)[k - 1]]
<1> DEFINE One(f, k) == IF k = 0 THEN v
                        ELSE IF k \in new THEN ApplyGraphEvent(f[k - 1], events[k]) ELSE f[k - 1]
           T == {n \in Nat : ~ \E f : f = [k \in 0 .. n |-> One(f, k)]}
<1>0. T \subseteq Nat
  OBVIOUS
<1>1. ASSUME T # {} PROVE FALSE
  <2> HIDE DEF T
  <2>1. PICK n \in T : \A m \in T : n <= m
    BY <1>0, <1>1, LeastNumber
  <2> USE DEF T
  <2>2. n \in Nat /\ ~ \E f : f = [k \in 0 .. n |-> One(f, k)]
    OBVIOUS
  <2>3. CASE n = 0
    <3> DEFINE g == [k \in 0 .. 0 |-> v]
    <3>1. g = [k \in 0 .. 0 |-> One(g, k)]
      OBVIOUS
    <3> QED
      BY <2>2, <2>3, <3>1
  <2>4. CASE n # 0
    <3>1. n - 1 \in Nat /\ ~ (n <= n - 1)
      BY <2>2, <2>4
    <3>2. n - 1 \notin T
      BY <2>1, <3>1
    <3>3. PICK f : f = [k \in 0 .. n - 1 |-> One(f, k)]
      BY <3>1, <3>2
    <3> DEFINE g == [k \in 0 .. n |-> IF k = n THEN One(f, n) ELSE f[k]]
    <3>4. ASSUME NEW k \in 0 .. n PROVE g[k] = One(g, k)
      <4>1. CASE k = 0
        <5>1. g[k] = f[0] /\ f[0] = One(f, 0)
          BY <2>2, <2>4, <3>1, <3>3, <4>1
        <5> QED
          BY <4>1, <5>1
      <4>2. CASE k # 0
        <5>1. k - 1 \in 0 .. n /\ k - 1 # n /\ k \in Nat
          BY <2>2, <4>2
        <5>2. g[k - 1] = f[k - 1]
          BY <5>1
        <5>3. One(g, k) = One(f, k)
          BY <4>2, <5>2
        <5>4. g[k] = One(f, k)
          <6>1. CASE k = n
            BY <6>1
          <6>2. CASE k # n
            <7>1. k \in 0 .. n - 1
              BY <2>2, <6>2
            <7> QED
              BY <3>3, <6>2, <7>1
          <6> QED
            BY <6>1, <6>2
        <5> QED
          BY <5>3, <5>4
      <4> QED
        BY <4>1, <4>2
    <3>5. g = [k \in 0 .. n |-> g[k]]
      OBVIOUS
    <3> HIDE DEF g, One
    <3>6. g = [k \in 0 .. n |-> One(g, k)]
      BY <3>4, <3>5
    <3> QED
      BY <2>2, <3>6
  <2> QED
    BY <2>3, <2>4
<1>2. Len(events) \notin T
  BY <1>1
<1>3. \E f : f = [k \in 0 .. Len(events) |-> One(f, k)]
  BY <1>2
<1>4. Showing(v, new, events) = CHOOSE f : f = [k \in 0 .. Len(events) |-> One(f, k)]
  BY DEF Showing
<1> HIDE DEF One
<1>5. Showing(v, new, events) = [k \in 0 .. Len(events) |-> One(Showing(v, new, events), k)]
  BY <1>3, <1>4
<1> QED
  BY <1>5 DEF One

\* Where nothing is new, the view stays.
LEMMA ShowingNone ==
  ASSUME NEW v, NEW new, NEW events, Len(events) \in Nat, \A k \in 1 .. Len(events) : k \notin new
  PROVE  Showing(v, new, events)[Len(events)] = v
<1> DEFINE S == Showing(v, new, events)
           T == {k \in 0 .. Len(events) : S[k] # v}
<1>1. S = [k \in 0 .. Len(events) |->
             IF k = 0 THEN v
             ELSE IF k \in new THEN ApplyGraphEvent(S[k - 1], events[k]) ELSE S[k - 1]]
  BY ShowingEq
<1> HIDE DEF S
<1>0. T \subseteq Nat
  OBVIOUS
<1>2. ASSUME T # {} PROVE FALSE
  <2> HIDE DEF T
  <2>1. PICK n \in T : \A m \in T : n <= m
    BY <1>0, <1>2, LeastNumber
  <2> USE DEF T
  <2>2. n \in 0 .. Len(events) /\ S[n] # v
    OBVIOUS
  <2>3. n # 0
    BY <1>1, <2>2
  <2>4. n - 1 \in 0 .. Len(events) /\ n \in 1 .. Len(events) /\ ~ (n <= n - 1)
    BY <2>2, <2>3
  <2>5. S[n - 1] = v
    BY <2>1, <2>4
  <2>6. S[n] = S[n - 1]
    BY <1>1, <2>2, <2>3, <2>4
  <2> QED
    BY <2>2, <2>5, <2>6
<1>3. Len(events) \in 0 .. Len(events)
  OBVIOUS
<1> QED
  BY <1>2, <1>3 DEF S

\* One more event is one more application.
LEMMA ShowingMore ==
  ASSUME NEW v, NEW new, NEW more, NEW events \in Seq(Event), NEW ev \in Event,
         \A k \in 1 .. Len(events) : k \in more <=> k \in new, Len(events) + 1 \in more
  PROVE  Showing(v, more, Append(events, ev))[Len(events) + 1] =
           ApplyGraphEvent(Showing(v, new, events)[Len(events)], ev)
<1> DEFINE n == Len(events)
           longer == Append(events, ev)
           S == Showing(v, new, events)
           L == Showing(v, more, longer)
           T == {k \in 0 .. n : L[k] # S[k]}
<1>1. /\ n \in Nat /\ Len(longer) = n + 1 /\ longer[n + 1] = ev
      /\ \A k \in 1 .. n : longer[k] = events[k]
  BY LenProperties
<1> HIDE DEF longer
<1>2. S = [k \in 0 .. n |->
             IF k = 0 THEN v
             ELSE IF k \in new THEN ApplyGraphEvent(S[k - 1], events[k]) ELSE S[k - 1]]
  BY <1>1, ShowingEq
<1>3. L = [k \in 0 .. n + 1 |->
             IF k = 0 THEN v
             ELSE IF k \in more THEN ApplyGraphEvent(L[k - 1], longer[k]) ELSE L[k - 1]]
  <2>1. Len(longer) \in Nat
    BY <1>1
  <2>2. L = [k \in 0 .. Len(longer) |->
             IF k = 0 THEN v
             ELSE IF k \in more THEN ApplyGraphEvent(L[k - 1], longer[k]) ELSE L[k - 1]]
    BY <2>1, ShowingEq
  <2> QED
    BY <1>1, <2>2
<1> HIDE DEF S, L, n
<1>0. T \subseteq Nat
  BY <1>1
<1>4. ASSUME T # {} PROVE FALSE
  <2> HIDE DEF T
  <2>1. PICK k \in T : \A m \in T : k <= m
    BY <1>0, <1>4, LeastNumber
  <2> USE DEF T
  <2>2. k \in 0 .. n /\ L[k] # S[k]
    OBVIOUS
  <2>3. k # 0
    BY <1>1, <1>2, <1>3, <2>2
  <2>4. k - 1 \in 0 .. n /\ k \in 1 .. n /\ k \in 0 .. n + 1 /\ ~ (k <= k - 1)
    BY <1>1, <2>2, <2>3
  <2>5. L[k - 1] = S[k - 1]
    BY <2>1, <2>4
  <2>6. longer[k] = events[k] /\ (k \in more <=> k \in new)
    BY <1>1, <2>4 DEF n
  <2>7. L[k] = IF k \in more THEN ApplyGraphEvent(L[k - 1], longer[k]) ELSE L[k - 1]
    BY <1>3, <2>3, <2>4
  <2>8. S[k] = IF k \in new THEN ApplyGraphEvent(S[k - 1], events[k]) ELSE S[k - 1]
    BY <1>2, <2>3, <2>4
  <2> QED
    BY <2>2, <2>5, <2>6, <2>7, <2>8
<1>5. n \in 0 .. n /\ n + 1 \in 0 .. n + 1 /\ n + 1 # 0 /\ (n + 1) - 1 = n
  BY <1>1
<1>6. L[n] = S[n]
  BY <1>4, <1>5
<1>7. L[n + 1] = ApplyGraphEvent(L[n], ev)
  <2>1. n + 1 \in more
    BY DEF n
  <2>2. L[n + 1] = ApplyGraphEvent(L[(n + 1) - 1], longer[n + 1])
    BY <1>3, <1>5, <2>1
  <2> QED
    BY <1>1, <1>5, <2>2
<1> QED
  BY <1>6, <1>7 DEF L, S, n, longer
-----------------------------------------------------------------------------
\* What a step makes of the document, as long as no call has raised: it leaves the board
\* alone, or adds an event from which a panel can tell what has changed.
Reported(d, e) ==
  \E ev \in Event :
    /\ e.events = Window(Append(d.events, ev))
    /\ ev.seq = e.seq /\ e.seq > d.seq
    /\ e.node = ApplyGraphEvent(d.node, ev)

\* A graph that has returned a traced result has reported every node.
SyncInv ==
  faults = 0 =>
    /\ op = "sync_graph" /\ Traced => \A n \in Nodes : doc.node[n] = outcome[n]
    /\ op = "reporter_graph_failed" => ~Traced

\* The event of a report.
LEMMA ReportAppends ==
  ASSUME NEW c \in Doc, NEW d, SameBoard(c, d), NEW node \in [Nodes -> NodeStatus], NEW graph \in NodeStatus,
         NEW current \in SUBSET Nodes, NEW t \in EventTypes, NEW n \in Subjects, NEW s \in NodeStatus,
         node = ApplyGraphEvent(d.node, [seq |-> c.seq + 2, type |-> t, node |-> n, status |-> s])
  PROVE  Reported(d, AppendGraphEvent(SetSnapshot(c, node, graph, current), t, n, s))
<1> DEFINE m == SetSnapshot(c, node, graph, current)
           e == AppendGraphEvent(m, t, n, s)
           ev == [seq |-> c.seq + 2, type |-> t, node |-> n, status |-> s]
<1>1. c.seq \in Nat /\ c.seq + 2 \in Nat /\ (c.seq + 1) + 1 = c.seq + 2 /\ c.seq + 1 \in Nat
  BY DEF Doc
<1>2. m \in Doc /\ m.seq = c.seq + 1 /\ m.events = c.events /\ m.node = node
  BY <1>1 DEF SetSnapshot, Doc
<1>3. ev \in Event
  BY <1>1 DEF Event
<1>4. ev.seq = c.seq + 2
  OBVIOUS
<1>5. node = ApplyGraphEvent(d.node, ev)
  OBVIOUS
<1> HIDE DEF m
<1>6. /\ e.events = Window(Append(m.events, [seq |-> m.seq + 1, type |-> t, node |-> n, status |-> s]))
      /\ e.seq = m.seq + 1 /\ e.node = m.node
  BY <1>2 DEF AppendGraphEvent, Doc
<1>7. e.events = Window(Append(c.events, ev)) /\ e.seq = c.seq + 2 /\ e.node = node
  BY <1>1, <1>2, <1>6
<1> HIDE DEF e, ev
<1>8. e.events = Window(Append(d.events, ev)) /\ e.seq > d.seq
  BY <1>1, <1>7 DEF SameBoard
<1> QED
  BY <1>3, <1>4, <1>5, <1>7, <1>8 DEF Reported, e, m

\* What a node thread reports about itself.
LEMMA NodeReports ==
  ASSUME IInv, NEW n \in Nodes, Holding(n)
  PROVE  Reported(doc, NodeWrite(n))
<1> DEFINE c == copy[n]
<1>1. c \in Doc /\ SameBoard(c, doc)
  BY DEF IInv, CopyInv
<1>2. c.node \in [Nodes -> NodeStatus] /\ c.node = doc.node
  BY <1>1 DEF Doc, SameBoard
<1>3. n \in Subjects /\ {} \in SUBSET Nodes /\ {"node_started", "node_finished", "node_failed"} \subseteq EventTypes
  BY DEF Subjects, EventTypes
<1>4. ASSUME NEW t \in {"node_started", "node_finished", "node_failed"}, NEW st
      PROVE  ApplyGraphEvent(doc.node, [seq |-> c.seq + 2, type |-> t, node |-> n, status |-> st]) = [c.node EXCEPT ![n] = st]
  BY <1>2 DEF ApplyGraphEvent
<1>5. NodeWrite(n) = IF pc[n] = "starting" THEN MarkNodeRunning(c, n)
                     ELSE IF outcome[n] = "raised" THEN MarkNodeFailed(c, n)
                     ELSE MarkNodeFinished(c, n, outcome[n])
  BY DEF NodeWrite
<1>6. op = "graph"
  BY DEF IInv, QuietInv, Holding
<1>7. pc[n] # "starting" => outcome[n] \in Finished \cup {"raised"}
  BY <1>6 DEF Holding, IInv, OutcomeInv, TypeOK
<1> HIDE DEF c
<1>8. CASE pc[n] = "starting"
  <2> DEFINE node == [c.node EXCEPT ![n] = "running"]
  <2>1. node \in [Nodes -> NodeStatus] /\ "running" \in NodeStatus
    BY <1>2 DEF NodeStatus
  <2>2. RunningIn(node) \in SUBSET Nodes
    BY DEF RunningIn
  <2>3. NodeWrite(n) = AppendGraphEvent(SetSnapshot(c, node, "running", RunningIn(node)), "node_started", n, "running")
    BY <1>5, <1>8 DEF MarkNodeRunning
  <2>4. node = ApplyGraphEvent(doc.node, [seq |-> c.seq + 2, type |-> "node_started", node |-> n, status |-> "running"])
    BY <1>4
  <2> HIDE DEF node
  <2> QED
    BY <1>1, <1>3, <2>1, <2>2, <2>3, <2>4, ReportAppends
<1>9. CASE pc[n] # "starting" /\ outcome[n] = "raised"
  <2> DEFINE node == [c.node EXCEPT ![n] = "failed"]
  <2>1. node \in [Nodes -> NodeStatus] /\ "failed" \in NodeStatus
    BY <1>2 DEF NodeStatus, Finished
  <2>3. NodeWrite(n) = AppendGraphEvent(SetSnapshot(c, node, "failed", {}), "node_failed", n, "failed")
    BY <1>5, <1>9 DEF MarkNodeFailed
  <2>4. node = ApplyGraphEvent(doc.node, [seq |-> c.seq + 2, type |-> "node_failed", node |-> n, status |-> "failed"])
    BY <1>4
  <2> HIDE DEF node
  <2> QED
    BY <1>1, <1>3, <2>1, <2>3, <2>4, ReportAppends
<1>10. CASE pc[n] # "starting" /\ outcome[n] # "raised"
  <2> DEFINE st == outcome[n]
             node == [c.node EXCEPT ![n] = st]
  <2>1. st \in NodeStatus
    BY <1>7, <1>10 DEF NodeStatus
  <2>2. node \in [Nodes -> NodeStatus]
    BY <1>2, <2>1
  <2>3. NodeWrite(n) = AppendGraphEvent(SetSnapshot(c, node, InferGraphStatus(node), RunningIn(node)), "node_finished", n, st)
    BY <1>5, <1>10 DEF MarkNodeFinished
  <2>4. node = ApplyGraphEvent(doc.node, [seq |-> c.seq + 2, type |-> "node_finished", node |-> n, status |-> st])
    BY <1>4
  <2> HIDE DEF node, st
  <2>5. InferGraphStatus(node) \in NodeStatus /\ RunningIn(node) \in SUBSET Nodes
    BY <2>2, InferOk
  <2> QED
    BY <1>1, <1>3, <2>1, <2>2, <2>3, <2>4, <2>5, ReportAppends
<1> QED
  BY <1>8, <1>9, <1>10

\* What the runner writes.
LEMMA RunnerReports ==
  ASSUME IInv, SyncInv, faults = 0, NEW c \in Doc, SameBoard(c, doc), RunnerCalls
  PROVE  SameBoard(Write(c), doc) \/ Reported(doc, Write(c))
<1>0. c.node \in [Nodes -> NodeStatus] /\ c.node = doc.node /\ c.events = doc.events /\ c.seq = doc.seq /\ c.seq \in Nat
  BY DEF Doc, SameBoard
<1>1. Nobody \in Subjects /\ {} \in SUBSET Nodes /\ {"graph_initialized", "graph_failed", "graph_synced"} \subseteq EventTypes
      /\ {"failed", "success", "pending"} \subseteq NodeStatus
  BY DEF Subjects, EventTypes, NodeStatus, Finished
<1>2. CASE op = "init_graph_progress"
  <2> DEFINE m == [c EXCEPT !.node = [n \in Nodes |-> "pending"], !.graph = "pending", !.current = {}]
             ev == [seq |-> c.seq + 1, type |-> "graph_initialized", node |-> Nobody, status |-> "pending"]
  <2>1. m \in Doc /\ m.seq = c.seq /\ m.events = c.events /\ m.node = [n \in Nodes |-> "pending"]
    BY <1>1 DEF Doc
  <2>2. Write(c) = AppendGraphEvent(m, "graph_initialized", Nobody, "pending")
    BY <1>2 DEF Write, InitGraphProgress
  <2>3. ev \in Event
    BY <1>0, <1>1 DEF Event
  <2>4. ev.seq = c.seq + 1 /\ ApplyGraphEvent(doc.node, ev) = doc.node
    BY DEF ApplyGraphEvent
  <2>5. doc.node = [n \in Nodes |-> "pending"]
    <3>1. ASSUME NEW n \in Nodes PROVE doc.node[n] = "pending"
      BY <1>2 DEF IInv, BoardInv, EarlyInv, ReportedStatus
    <3>2. doc.node \in [Nodes -> NodeStatus]
      BY <1>0
    <3> QED
      BY <3>1, <3>2
  <2> HIDE DEF m
  <2>6. /\ Write(c).events = Window(Append(m.events, [seq |-> m.seq + 1, type |-> "graph_initialized", node |-> Nobody, status |-> "pending"]))
        /\ Write(c).seq = m.seq + 1 /\ Write(c).node = m.node
    BY <2>1, <2>2 DEF AppendGraphEvent, Doc
  <2>7. Write(c).events = Window(Append(doc.events, ev)) /\ Write(c).seq = c.seq + 1 /\ Write(c).node = doc.node
    BY <1>0, <2>1, <2>5, <2>6
  <2> HIDE DEF ev
  <2>8. Write(c).seq > doc.seq
    BY <1>0, <2>7
  <2> QED
    BY <2>3, <2>4, <2>7, <2>8 DEF Reported
<1>3. CASE op \in {"mark_running", "mark_closed", "mark_failed"}
  BY <1>3 DEF Write, MarkRunning, MarkCompleted, MarkFailed, Doc, SameBoard
<1>4. CASE op \in {"reporter_graph_failed", "mark_graph_failed"}
  <2> DEFINE node == [n \in Nodes |-> IF c.node[n] = "running" THEN "failed" ELSE c.node[n]]
  <2>1. Write(c) = AppendGraphEvent(SetSnapshot(c, node, "failed", {}), "graph_failed", Nobody, "failed")
    BY <1>4 DEF Write, MarkGraphFailed
  <2>2. node \in [Nodes -> NodeStatus]
    BY <1>0, <1>1
  <2>3. node = ApplyGraphEvent(doc.node, [seq |-> c.seq + 2, type |-> "graph_failed", node |-> Nobody, status |-> "failed"])
    BY <1>0 DEF ApplyGraphEvent
  <2> HIDE DEF node
  <2> QED
    BY <1>1, <2>1, <2>2, <2>3, ReportAppends
<1>5. CASE op = "sync_graph"
  <2> DEFINE node  == IF Traced THEN [n \in Nodes |-> outcome[n]] ELSE c.node
             final == IF TreatedAsFailure THEN "failed" ELSE "success"
  <2>1. Write(c) = AppendGraphEvent(SetSnapshot(c, node, final, {}), "graph_synced", Nobody, final)
    BY <1>5 DEF Write, SyncGraph
  <2>2. node = doc.node
    BY <1>0, <1>5 DEF SyncInv
  <2>3. final \in NodeStatus
    BY <1>1
  <2> HIDE DEF node, final
  <2>4. doc.node = ApplyGraphEvent(doc.node, [seq |-> c.seq + 2, type |-> "graph_synced", node |-> Nobody, status |-> final])
    BY DEF ApplyGraphEvent
  <2> QED
    BY <1>0, <1>1, <2>1, <2>2, <2>3, <2>4, ReportAppends
<1> QED
  BY <1>2, <1>3, <1>4, <1>5 DEF RunnerCalls, IInv, TypeOK, Ops

\* Every step.
LEMMA BoardMoves ==
  ASSUME IInv, SyncInv, [Next]_vars, faults' = 0
  PROVE  SameBoard(doc', doc) \/ Reported(doc, doc')
<1>0. faults \in Nat
  BY DEF IInv, TypeOK
<1>1. CASE RunnerIndex
  <2>1. /\ RunnerCalls /\ copy[Runner] # NoDoc /\ doc' = Write(copy[Runner]) /\ faults = 0
    BY <1>1 DEF RunnerIndex
  <2>2. copy[Runner] \in Doc /\ SameBoard(copy[Runner], doc)
    BY <2>1 DEF IInv, TypeOK, RunnerInv, Threads
  <2> QED
    BY <2>1, <2>2, RunnerReports
<1>2. ASSUME NEW n \in Nodes, NodeIndex(n) PROVE Reported(doc, doc')
  BY <1>2, NodeReports DEF NodeIndex, Holding
<1>3. CASE RunnerFault \/ \E n \in Nodes : NodeFault(n)
  <2>1. faults' = faults + 1
    BY <1>3 DEF RunnerFault, NodeFault
  <2> QED
    BY <1>0, <2>1
<1>4. CASE Restart \/ OtherWorkerStart
  BY <1>4 DEF Restart, OtherWorkerStart, FailIfOpen, MarkFailed, SameBoard, IInv, TypeOK, Doc
<1>5. CASE RunnerGet \/ GraphReturns \/ AgentRaises \/ Crash
  BY <1>5 DEF RunnerGet, GraphReturns, AgentRaises, Crash, SameBoard
<1>6. ASSUME NEW n \in Nodes, NodeStartedGet(n) \/ NodeFinishedGet(n) \/ NodeBody(n) PROVE SameBoard(doc', doc)
  BY <1>6 DEF NodeStartedGet, NodeFinishedGet, NodeGet, NodeBody, SameBoard
<1>7. CASE UNCHANGED vars
  BY <1>7 DEF vars, SameBoard
<1> QED
  BY <1>1, <1>2, <1>3, <1>4, <1>5, <1>6, <1>7 DEF Next, RunnerStep, NodeStep, Environment

LEMMA SyncNext == ASSUME IInv, SyncInv, [Next]_vars PROVE SyncInv'
<1> SUFFICES ASSUME faults' = 0 PROVE SyncInv'
  BY DEF SyncInv
<1>0. faults \in Nat
  BY DEF IInv, TypeOK
<1>1. CASE RunnerIndex
  <2>1. op' = NextOp /\ op \notin {"graph", "end"} /\ UNCHANGED <<result, outcome, faults>> /\ faults = 0
    BY <1>1 DEF RunnerIndex, RunnerCalls
  <2>2. op' \notin {"reporter_graph_failed"} /\ (op' = "sync_graph" => op = "reporter_graph_failed")
    BY <2>1 DEF NextOp, IInv, TypeOK, Ops
  <2>3. Traced' = Traced
    BY <2>1 DEF Traced
  <2> QED
    BY <2>1, <2>2, <2>3 DEF SyncInv
<1>2. ASSUME NEW n \in Nodes, NodeIndex(n) \/ NodeStartedGet(n) \/ NodeFinishedGet(n) \/ NodeBody(n) PROVE SyncInv'
  <2>1. op = "graph" /\ op' = op
    BY <1>2 DEF NodeIndex, NodeStartedGet, NodeFinishedGet, NodeBody, NodeGet, MayRun, IInv, QuietInv
  <2> QED
    BY <2>1 DEF SyncInv
<1>3. CASE RunnerFault \/ \E n \in Nodes : NodeFault(n)
  <2>1. faults' = faults + 1
    BY <1>3 DEF RunnerFault, NodeFault
  <2> QED
    BY <1>0, <2>1
<1>4. CASE Restart \/ OtherWorkerStart
  <2>1. doc'.node = doc.node /\ UNCHANGED <<op, result, outcome, faults>>
    BY <1>4 DEF Restart, OtherWorkerStart, FailIfOpen, MarkFailed, IInv, TypeOK, Doc
  <2>2. Traced' = Traced
    BY <2>1 DEF Traced
  <2> QED
    BY <2>1, <2>2 DEF SyncInv
<1>5. CASE GraphReturns
  <2>1. op = "graph" /\ UNCHANGED <<doc, pc, outcome, faults>> /\ faults = 0
    BY <1>5 DEF GraphReturns
  <2>2. CASE Raised
    BY <1>5, <2>1, <2>2 DEF GraphReturns, SyncInv, Traced
  <2>3. CASE ~Raised
    <3>1. op' = "sync_graph" /\ \A n \in Nodes : pc[n] = "done"
      BY <1>5, <2>3 DEF GraphReturns
    <3>2. ASSUME NEW n \in Nodes PROVE doc.node[n] = outcome[n]
      BY <2>1, <2>3, <3>1 DEF IInv, BoardInv, ReportedStatus, Raised
    <3> QED
      BY <2>1, <3>1, <3>2 DEF SyncInv
  <2> QED
    BY <2>2, <2>3
<1>6. CASE AgentRaises \/ Crash
  <2>1. op' \in {"mark_graph_failed", "end"}
    BY <1>6 DEF AgentRaises, Crash
  <2> QED
    BY <2>1 DEF SyncInv
<1>7. CASE RunnerGet
  BY <1>7 DEF RunnerGet, SyncInv, Traced
<1>8. CASE UNCHANGED vars
  BY <1>8 DEF vars, SyncInv, Traced
<1> QED
  BY <1>1, <1>2, <1>3, <1>4, <1>5, <1>6, <1>7, <1>8 DEF Next, RunnerStep, NodeStep, Environment
-----------------------------------------------------------------------------
\* The window keeps the last event, and everything as long as it is not full.
LEMMA WindowLast ==
  ASSUME NEW s \in Seq(Event), NEW ev \in Event
  PROVE  LET w == Window(Append(s, ev))
         IN  /\ w \in Seq(Event) /\ Len(w) > 0 /\ w[Len(w)] = ev
             /\ Len(w) < MaxGraphEvents => w = Append(s, ev) /\ Len(s) < MaxGraphEvents
<1> DEFINE t == Append(s, ev)
           w == Window(t)
<1>1. t \in Seq(Event) /\ Len(t) = Len(s) + 1 /\ Len(s) \in Nat /\ t[Len(t)] = ev
  BY LenProperties
<1> HIDE DEF t
<1>2. CASE Len(t) <= MaxGraphEvents
  <2>1. w = t
    BY <1>2 DEF Window
  <2>2. Len(s) < MaxGraphEvents /\ Len(t) > 0
    BY <1>1, <1>2, AgentTaskAssumption
  <2> QED
    BY <1>1, <2>1, <2>2 DEF t
<1>3. CASE ~(Len(t) <= MaxGraphEvents)
  <2> DEFINE m == Len(t) - MaxGraphEvents + 1
  <2>1. m \in Int /\ Len(t) \in Int /\ m >= 2 /\ m <= Len(t) /\ Len(t) - m + 1 = MaxGraphEvents /\ MaxGraphEvents \in Nat
        /\ MaxGraphEvents > 0 /\ m + MaxGraphEvents - 1 = Len(t)
    BY <1>1, <1>3, AgentTaskAssumption
  <2>2. \A i \in m .. Len(t) : t[i] \in Event
    BY <1>1, <2>1, ElementOfSeq
  <2>3. w = SubSeq(t, m, Len(t))
    BY <1>3 DEF Window
  <2> HIDE DEF m
  <2>4. /\ SubSeq(t, m, Len(t)) \in Seq(Event)
        /\ Len(SubSeq(t, m, Len(t))) = Len(t) - m + 1
        /\ \A i \in 1 .. Len(t) - m + 1 : SubSeq(t, m, Len(t))[i] = t[m + i - 1]
    BY <2>1, <2>2, SubSeqProperties
  <2> HIDE DEF w
  <2>5. Len(w) = MaxGraphEvents /\ w \in Seq(Event)
    BY <2>1, <2>3, <2>4
  <2>6. w[MaxGraphEvents] = t[Len(t)]
    <3>1. MaxGraphEvents \in 1 .. Len(t) - m + 1
      BY <2>1
    <3>2. w[MaxGraphEvents] = t[m + MaxGraphEvents - 1]
      BY <2>3, <2>4, <3>1
    <3> QED
      BY <2>1, <3>2
  <2>7. ~(Len(w) < MaxGraphEvents) /\ Len(w) > 0
    BY <2>1, <2>5
  <2>8. w[Len(w)] = ev
    BY <1>1, <2>5, <2>6
  <2> QED
    BY <2>5, <2>7, <2>8 DEF w, t
<1> QED
  BY <1>2, <1>3

\* The counter is the number of the last event.
LastInv ==
  faults = 0 => IF doc.events = <<>> THEN doc.seq = 0 ELSE doc.events[Len(doc.events)].seq = doc.seq

LEMMA FaultsGrow == ASSUME IInv, [Next]_vars, faults' = 0 PROVE faults = 0
<1>1. faults \in Nat
  BY DEF IInv, TypeOK
<1>2. faults' = faults \/ faults' = faults + 1
  <2>1. CASE RunnerStep \/ Restart \/ \E n \in Nodes : NodeStep(n)
    BY <2>1 DEF RunnerStep, RunnerGet, RunnerIndex, GraphReturns, Restart, NodeStep, NodeStartedGet, NodeFinishedGet,
                NodeGet, NodeBody, NodeIndex
  <2>2. CASE Environment
    BY <2>2 DEF Environment, RunnerFault, NodeFault, AgentRaises, Crash, OtherWorkerStart
  <2>3. CASE UNCHANGED vars
    BY <2>3 DEF vars
  <2> QED
    BY <2>1, <2>2, <2>3 DEF Next
<1> QED
  BY <1>1, <1>2

LEMMA LastNext == ASSUME IInv, SyncInv, LastInv, [Next]_vars PROVE LastInv'
<1> SUFFICES ASSUME faults' = 0 PROVE LastInv'
  BY DEF LastInv
<1>1. faults = 0
  BY FaultsGrow
<1>2. CASE SameBoard(doc', doc)
  BY <1>1, <1>2 DEF SameBoard, LastInv
<1>3. CASE Reported(doc, doc')
  <2>1. PICK ev \in Event : doc'.events = Window(Append(doc.events, ev)) /\ ev.seq = doc'.seq
    BY <1>3 DEF Reported
  <2>2. doc.events \in Seq(Event)
    BY DEF IInv, TypeOK, Doc
  <2>3. Len(doc'.events) > 0 /\ doc'.events[Len(doc'.events)] = ev
    BY <2>1, <2>2, WindowLast
  <2>4. doc'.events # <<>>
    BY <2>3
  <2> QED
    BY <2>1, <2>3, <2>4 DEF LastInv
<1> QED
  BY <1>2, <1>3, BoardMoves
-----------------------------------------------------------------------------
\* What the panel will show when it has got the rest.
Following(v, after, d) ==
  Showing(v, {k \in DOMAIN d.events : d.events[k].seq > after}, d.events)[Len(d.events)]

\* As long as no event has left the window, that is the board, unless there was none yet
\* when the panel was opened.
FollowInv ==
  faults = 0 /\ Len(doc.events) < MaxGraphEvents /\ panel \in {"tick", "events"} /\ view # NoBoard
    => Following(view, cursor, doc) = doc.node

\* what is about to be written back is open
OpenCopies ==
  /\ \A n \in Nodes : Holding(n) => copy[n].status \notin Terminal
  /\ copy[Runner] # NoDoc => copy[Runner].status \notin Terminal

\* A closed task is written no more, so that a stream that has ended is complete.
EndInv ==
  faults = 0 /\ starts = 0 =>
    /\ doc.status \in Terminal \/ crashed => op = "end"
    /\ OpenCopies
    /\ seen \in Terminal => doc.status \in Terminal
    /\ panel = "ended" /\ breaks = 0 => doc.status \in Terminal /\ cursor = doc.seq

FollowsInv == IInv /\ SyncInv /\ LastInv /\ cursor \in Nat /\ cursor <= doc.seq /\ breaks \in Nat /\ FollowInv /\ EndInv

\* Where the cursor is at the end there is nothing to follow.
LEMMA NothingToFollow ==
  ASSUME NEW d, Len(d.events) \in Nat, DOMAIN d.events = 1 .. Len(d.events), NEW after,
         \A k \in DOMAIN d.events : ~ (d.events[k].seq > after), NEW v
  PROVE  Following(v, after, d) = v
<1> DEFINE new == {k \in DOMAIN d.events : d.events[k].seq > after}
<1>1. \A k \in 1 .. Len(d.events) : k \notin new
  OBVIOUS
<1> HIDE DEF new
<1>2. Showing(v, new, d.events)[Len(d.events)] = v
  BY <1>1, ShowingNone
<1> QED
  BY <1>2 DEF Following, new

\* A step of the panel.
LEMMA PanelFollows ==
  ASSUME FollowsInv, OpenGraph \/ PanelStep \/ StreamBreak, UNCHANGED vars
  PROVE  FollowsInv'
<1>1. IInv' /\ SyncInv' /\ LastInv'
  BY StepOk, SyncNext, LastNext DEF FollowsInv
<1>2. /\ doc.events \in Seq(Event) /\ Len(doc.events) \in Nat /\ DOMAIN doc.events = 1 .. Len(doc.events)
      /\ doc.seq \in Nat /\ doc' = doc /\ faults' = faults /\ starts' = starts /\ op' = op
      /\ crashed' = crashed /\ OpenCopies' = OpenCopies
  BY LenProperties DEF FollowsInv, IInv, TypeOK, Doc, vars, OpenCopies, Holding
<1>3. ASSUME NEW k \in DOMAIN doc.events PROVE doc.events[k].seq \in Nat /\ doc.events[k].seq <= doc.seq
  <2>1. doc.events[k] \in Event
    BY <1>2, ElementOfSeq
  <2> QED
    BY <2>1 DEF Event, FollowsInv, IInv, Ordered
<1>4. CASE OpenGraph
  <2>1. view' \in {doc.node, NoBoard} /\ cursor' = doc.seq /\ panel' \in {"done", "tick"} /\ UNCHANGED <<idle, seen, breaks>>
    BY <1>4 DEF OpenGraph, GraphSnapshot
  <2>2. Following(doc.node, doc.seq, doc) = doc.node
    <3>1. \A k \in DOMAIN doc.events : ~ (doc.events[k].seq > doc.seq)
      BY <1>2, <1>3
    <3> QED
      BY <1>2, <3>1, NothingToFollow
  <2>3. FollowInv'
    BY <1>2, <2>1, <2>2 DEF FollowInv
  <2>4. EndInv'
    BY <1>2, <2>1 DEF FollowsInv, EndInv
  <2>5. cursor' \in Nat /\ cursor' <= doc'.seq
    BY <1>2, <2>1
  <2> QED
    BY <1>1, <2>1, <2>3, <2>4, <2>5 DEF FollowsInv
<1>5. CASE ReadStatus
  <2>1. seen' = doc.status /\ panel = "tick" /\ panel' = "events" /\ UNCHANGED <<view, cursor, idle, breaks>>
    BY <1>5 DEF ReadStatus
  <2>2. FollowInv'
    BY <1>2, <2>1 DEF FollowsInv, FollowInv
  <2>3. EndInv'
    BY <1>2, <2>1 DEF FollowsInv, EndInv
  <2> QED
    BY <1>1, <1>2, <2>1, <2>2, <2>3 DEF FollowsInv
<1>6. CASE ReadEvents
  <2> DEFINE new == {k \in DOMAIN doc.events : doc.events[k].seq > cursor}
             seqs == {cursor} \cup {doc.events[k].seq : k \in new}
  <2>1. /\ panel = "events" /\ view' = (IF view = NoBoard THEN view ELSE Showing(view, new, doc.events)[Len(doc.events)])
        /\ cursor' = Max(seqs)
        /\ idle' = (IF new # {} THEN 0 ELSE IF idle < 2 THEN idle + 1 ELSE idle)
        /\ panel' = (IF Ended(seen, idle') THEN "ended" ELSE "tick")
        /\ UNCHANGED <<seen, breaks>>
    BY <1>6 DEF ReadEvents, ListGraphEvents
  <2>2. cursor \in Nat /\ cursor <= doc.seq
    BY DEF FollowsInv
  <2>3. seqs \subseteq Nat /\ cursor \in seqs /\ \A x \in seqs : x <= doc.seq
    BY <1>3, <2>2
  <2>4. \A k \in DOMAIN doc.events : doc.events[k].seq \in seqs \/ doc.events[k].seq <= cursor
    BY <1>3, <2>2
  <2>5. new = {} => seqs = {cursor}
    OBVIOUS
  <2> HIDE DEF seqs
  <2>6. cursor' \in seqs /\ \A x \in seqs : x <= cursor'
    <3>1. Max(seqs) \in seqs /\ \A x \in seqs : x <= Max(seqs)
      BY <1>2, <2>3, GreatestNumber
    <3> QED
      BY <2>1, <3>1
  <2>7. cursor' \in Nat /\ cursor' <= doc.seq /\ cursor <= cursor'
    BY <2>3, <2>6
  <2>8. ASSUME NEW k \in DOMAIN doc.events PROVE ~ (doc.events[k].seq > cursor')
    <3>1. doc.events[k].seq <= cursor'
      BY <1>3, <2>2, <2>4, <2>6, <2>7
    <3> QED
      BY <1>3, <2>7, <3>1
  <2>9. view' = IF view = NoBoard THEN view ELSE Following(view, cursor, doc)
    BY <2>1 DEF Following
  <2>10. FollowInv'
    <3> SUFFICES ASSUME faults = 0, Len(doc.events) < MaxGraphEvents, view # NoBoard
                 PROVE  Following(view', cursor', doc) = doc.node
      BY <1>2, <2>9 DEF FollowInv
    <3>1. Following(view', cursor', doc) = view'
      BY <1>2, <2>8, NothingToFollow
    <3>2. Following(view, cursor, doc) = doc.node
      BY <2>1 DEF FollowsInv, FollowInv
    <3> QED
      BY <2>9, <3>1, <3>2
  <2>11. EndInv'
    <3> SUFFICES ASSUME faults = 0, starts = 0, panel' = "ended"
                 PROVE  doc.status \in Terminal /\ cursor' = doc.seq
      BY <1>2, <2>1 DEF FollowsInv, EndInv
    <3>1. seen \in Terminal /\ idle' >= 2
      BY <2>1 DEF Ended
    <3>2. new = {}
      BY <2>1, <3>1
    <3>3. cursor' = cursor
      BY <2>5, <2>6, <3>2
    <3>4. doc.seq <= cursor
      <4>1. CASE doc.events = <<>>
        BY <2>2, <4>1 DEF FollowsInv, LastInv
      <4>2. CASE doc.events # <<>>
        <5>1. Len(doc.events) \in DOMAIN doc.events
          BY <1>2, <4>2, EmptySeq
        <5>2. doc.events[Len(doc.events)].seq = doc.seq
          BY <4>2 DEF FollowsInv, LastInv
        <5>3. ~ (doc.events[Len(doc.events)].seq > cursor)
          BY <3>2, <5>1
        <5> QED
          BY <1>2, <2>2, <5>2, <5>3
      <4> QED
        BY <4>1, <4>2
    <3>5. doc.status \in Terminal
      BY <3>1 DEF FollowsInv, EndInv
    <3> QED
      BY <1>2, <2>2, <3>3, <3>4, <3>5
  <2> QED
    BY <1>1, <1>2, <2>1, <2>7, <2>10, <2>11 DEF FollowsInv
<1>7. CASE StartPolling \/ Poll
  <2>1. panel' \in {"polling", "done"} /\ UNCHANGED <<cursor, seen, breaks>>
    BY <1>7 DEF StartPolling, Poll
  <2>2. FollowInv' /\ EndInv'
    BY <1>2, <2>1 DEF FollowsInv, FollowInv, EndInv
  <2> QED
    BY <1>1, <1>2, <2>1, <2>2 DEF FollowsInv
<1>8. CASE StreamBreak
  <2>1. panel' = "ended" /\ breaks' = breaks + 1 /\ UNCHANGED <<cursor, seen>>
    BY <1>8 DEF StreamBreak
  <2>2. FollowInv'
    BY <2>1 DEF FollowInv
  <2>3. EndInv' /\ breaks' \in Nat
    BY <1>2, <2>1 DEF FollowsInv, EndInv
  <2> QED
    BY <1>1, <1>2, <2>1, <2>2, <2>3 DEF FollowsInv
<1> QED
  BY <1>4, <1>5, <1>6, <1>7, <1>8 DEF PanelStep

\* The background task that has ended writes nothing more.
LEMMA ClosedStays ==
  ASSUME IInv, op = "end", [Next]_vars, faults' = 0
  PROVE  op' = "end" /\ doc'.seq = doc.seq /\ (doc.status \in Terminal => doc'.status \in Terminal)
<1>1. \A n \in Nodes : pc[n] \in {"idle", "done"}
  BY DEF IInv, QuietInv
<1>2. CASE Restart \/ OtherWorkerStart
  BY <1>2 DEF Restart, OtherWorkerStart, FailIfOpen, MarkFailed, IInv, TypeOK, Doc, Terminal
<1>3. ~ RunnerStep /\ ~ RunnerFault /\ ~ AgentRaises
  BY DEF RunnerStep, RunnerGet, RunnerIndex, RunnerFault, RunnerCalls, GraphReturns, AgentRaises
<1>4. ASSUME NEW n \in Nodes PROVE ~ NodeStep(n) /\ ~ NodeFault(n)
  BY <1>1 DEF NodeStep, NodeFault, NodeStartedGet, NodeFinishedGet, NodeGet, NodeBody, NodeIndex, MayRun
<1>5. CASE Crash \/ UNCHANGED vars
  BY <1>5 DEF Crash, vars
<1> QED
  BY <1>2, <1>3, <1>4, <1>5 DEF Next, Environment

\* A step of the task while nothing has gone wrong.
LEMMA DocEnds ==
  ASSUME FollowsInv, [Next]_vars, UNCHANGED panelVars
  PROVE  EndInv'
<1> SUFFICES ASSUME faults' = 0, starts' = 0
             PROVE  /\ doc'.status \in Terminal \/ crashed' => op' = "end"
                    /\ OpenCopies'
                    /\ seen' \in Terminal => doc'.status \in Terminal
                    /\ panel' = "ended" /\ breaks' = 0 => doc'.status \in Terminal /\ cursor' = doc'.seq
  BY DEF EndInv
<1>0. IInv /\ OutcomeInv /\ TypeOK /\ copy \in [Threads -> Doc \cup {NoDoc}] /\ pc \in [Nodes -> NodePcs]
  BY DEF FollowsInv, IInv, TypeOK
<1>1. faults = 0
  BY <1>0, FaultsGrow
<1>2. starts = 0
  <2>1. starts' = starts \/ starts' = starts + 1
    <3>1. CASE RunnerStep \/ Restart \/ \E n \in Nodes : NodeStep(n)
      BY <3>1 DEF RunnerStep, RunnerGet, RunnerIndex, GraphReturns, Restart, NodeStep, NodeStartedGet, NodeFinishedGet,
                  NodeGet, NodeBody, NodeIndex
    <3>2. CASE Environment
      BY <3>2 DEF Environment, RunnerFault, NodeFault, AgentRaises, Crash, OtherWorkerStart
    <3>3. CASE UNCHANGED vars
      BY <3>3 DEF vars
    <3> QED
      BY <3>1, <3>2, <3>3 DEF Next
  <2> QED
    BY <1>0, <2>1 DEF TypeOK
<1>3. /\ doc.status \in Terminal \/ crashed => op = "end"
      /\ OpenCopies
      /\ seen \in Terminal => doc.status \in Terminal
      /\ panel = "ended" /\ breaks = 0 => doc.status \in Terminal /\ cursor = doc.seq
  BY <1>1, <1>2 DEF FollowsInv, EndInv
<1>4. UNCHANGED <<panel, cursor, seen, breaks>>
  BY DEF panelVars
<1>5. /\ seen' \in Terminal => doc'.status \in Terminal
      /\ panel' = "ended" /\ breaks' = 0 => doc'.status \in Terminal /\ cursor' = doc'.seq
  <2>1. doc.status \in Terminal => doc'.status \in Terminal /\ doc'.seq = doc.seq
    BY <1>0, <1>3, ClosedStays
  <2> QED
    BY <1>3, <1>4, <2>1
<1> SUFFICES (doc'.status \in Terminal \/ crashed' => op' = "end") /\ OpenCopies'
  BY <1>5
<1>6. CASE op = "end"
  <2>1. op' = "end"
    BY <1>0, <1>6, ClosedStays
  <2>2. \A n \in Nodes : ~Holding(n)'
    BY <1>0, <2>1, StepOk DEF IInv, QuietInv, Holding
  <2>3. copy'[Runner] = copy[Runner] \/ copy'[Runner] = NoDoc
    <3>1. \A n \in Nodes : pc[n] \in {"idle", "done"}
      BY <1>0, <1>6 DEF IInv, QuietInv
    <3>2. CASE Restart \/ OtherWorkerStart
      BY <3>2 DEF Restart, OtherWorkerStart
    <3>3. ~ RunnerStep /\ ~ RunnerFault /\ ~ AgentRaises
      BY <1>6 DEF RunnerStep, RunnerGet, RunnerIndex, RunnerFault, RunnerCalls, GraphReturns, AgentRaises
    <3>4. ASSUME NEW n \in Nodes PROVE ~ NodeStep(n) /\ ~ NodeFault(n)
      BY <1>6, <3>1 DEF NodeStep, NodeFault, NodeStartedGet, NodeFinishedGet, NodeGet, NodeBody, NodeIndex, MayRun
    <3>5. CASE Crash \/ UNCHANGED vars
      BY <3>5 DEF Crash, vars, Threads
    <3> QED
      BY <3>2, <3>3, <3>4, <3>5 DEF Next, Environment
  <2> QED
    BY <1>3, <2>1, <2>2, <2>3 DEF OpenCopies
<1>7. CASE op # "end"
  <2>0. doc.status \notin Terminal /\ ~ crashed
    BY <1>3, <1>7
  <2>1. CASE RunnerIndex
    <3> DEFINE c == copy[Runner]
    <3>1. /\ RunnerCalls /\ c # NoDoc /\ doc' = Write(c) /\ op' = NextOp /\ copy'[Runner] = NoDoc
          /\ crashed' = crashed /\ pc' = pc
      BY <1>0, <2>1 DEF RunnerIndex, Threads
    <3>2. c \in Doc /\ c.status \notin Terminal
      BY <1>0, <1>3, <3>1 DEF Threads, OpenCopies
    <3>3. OpenCopies'
      <4>1. \A n \in Nodes : ~Holding(n)'
        BY <1>0, <3>1 DEF IInv, QuietInv, Holding, RunnerCalls
      <4> QED
        BY <3>1, <4>1 DEF OpenCopies
    <3>4. doc'.status \in Terminal => op' = "end"
      <4>1. CASE op \in {"mark_closed", "mark_failed"}
        BY <3>1, <4>1 DEF NextOp
      <4>2. CASE op \notin {"mark_closed", "mark_failed"}
        <5>1. op \in Ops /\ op \notin {"graph", "end"}
          BY <1>0, <3>1 DEF TypeOK, RunnerCalls
        <5> HIDE DEF c
        <5>2. Write(c).status \in {c.status, "running"}
          BY <1>0, <3>2, <4>2, <5>1, WriteFields DEF Ops
        <5> QED
          BY <3>1, <3>2, <5>2 DEF Terminal
      <4> QED
        BY <4>1, <4>2
    <3> QED
      BY <2>0, <3>1, <3>3, <3>4
  <2>2. ASSUME NEW n \in Nodes, NodeIndex(n)
        PROVE  doc'.status \notin Terminal /\ crashed' = crashed /\ OpenCopies'
    <3>1. Holding(n) /\ doc' = NodeWrite(n) /\ copy' = [copy EXCEPT ![n] = NoDoc] /\ crashed' = crashed
          /\ pc' = [pc EXCEPT ![n] = Released(n)] /\ Released(n) \in {"body", "done"}
      BY <2>2 DEF NodeIndex, Holding, Released
    <3>2. copy[n] \in Doc /\ op = "graph" /\ copy[Runner] = NoDoc
      BY <1>0, <3>1, OnlyCopy DEF IInv, CopyInv
    <3>3. pc[n] # "starting" => outcome[n] \in Finished \cup {"raised"}
      BY <1>0, <3>1, <3>2 DEF OutcomeInv, TypeOK, Holding
    <3>4. doc'.status = copy[n].status
      BY <3>1, <3>2, <3>3, NodeWriteFields
    <3>5. copy[n].status \notin Terminal
      BY <1>3, <3>1 DEF OpenCopies
    <3>6. \A m \in Nodes : ~Holding(m)'
      <4>1. \A m \in Nodes : m # n => ~Holding(m)
        BY <1>0, <3>1 DEF IInv, LockInv
      <4> QED
        BY <1>0, <3>1, <4>1 DEF Holding
    <3>7. copy'[Runner] = NoDoc
      BY <1>0, <3>1, <3>2, AgentTaskAssumption DEF Threads
    <3> QED
      BY <3>1, <3>4, <3>5, <3>6, <3>7 DEF OpenCopies
  <2>3. CASE RunnerGet
    <3>1. /\ UNCHANGED <<doc, crashed, pc>> /\ copy' = [copy EXCEPT ![Runner] = doc] /\ op # "graph"
      BY <2>3 DEF RunnerGet, RunnerCalls
    <3>2. \A n \in Nodes : ~Holding(n)'
      BY <1>0, <3>1 DEF IInv, QuietInv, Holding
    <3>3. copy'[Runner] = doc
      BY <1>0, <3>1 DEF Threads
    <3> QED
      BY <2>0, <3>1, <3>2, <3>3 DEF OpenCopies
  <2>4. ASSUME NEW n \in Nodes, NodeStartedGet(n) \/ NodeFinishedGet(n)
        PROVE  doc' = doc /\ crashed' = crashed /\ OpenCopies'
    <3>1. /\ UNCHANGED <<doc, crashed>> /\ copy'[Runner] = copy[Runner] /\ copy'[n] = doc
          /\ \A m \in Nodes \ {n} : pc'[m] = pc[m] /\ copy'[m] = copy[m]
      BY <1>0, <2>4, AgentTaskAssumption DEF NodeStartedGet, NodeFinishedGet, NodeGet, Threads
    <3> QED
      BY <1>3, <2>0, <3>1 DEF OpenCopies, Holding
  <2>5. CASE GraphReturns \/ AgentRaises
    BY <1>3, <2>0, <2>5 DEF GraphReturns, AgentRaises, OpenCopies, Holding
  <2>6. ASSUME NEW n \in Nodes, NodeBody(n) PROVE doc' = doc /\ crashed' = crashed /\ OpenCopies'
    <3>1. UNCHANGED <<doc, crashed, copy>> /\ \A m \in Nodes : Holding(m)' => Holding(m)
      BY <1>0, <2>6 DEF NodeBody, Holding
    <3> QED
      BY <1>3, <3>1 DEF OpenCopies
  <2>7. ~ OtherWorkerStart /\ ~ RunnerFault /\ \A n \in Nodes : ~ NodeFault(n)
    BY <1>1, <1>2 DEF OtherWorkerStart, RunnerFault, NodeFault
  <2>8. CASE Crash
    <3>1. op' = "end" /\ copy'[Runner] = NoDoc /\ \A n \in Nodes : ~Holding(n)'
      BY <2>8 DEF Crash, Threads, Holding
    <3> QED
      BY <3>1 DEF OpenCopies
  <2>9. CASE Restart
    BY <2>0, <2>9 DEF Restart
  <2>10. CASE UNCHANGED vars
    BY <1>3, <2>0, <2>10 DEF vars, OpenCopies, Holding
  <2> QED
    BY <2>0, <2>1, <2>2, <2>3, <2>4, <2>5, <2>6, <2>7, <2>8, <2>9, <2>10 DEF Next, RunnerStep, NodeStep, Environment
<1> QED
  BY <1>6, <1>7

\* A step of the task: what the panel shows with what it will get is the board again.
LEMMA DocFollows ==
  ASSUME FollowsInv, [Next]_vars, UNCHANGED panelVars
  PROVE  FollowsInv'
<1>1. IInv' /\ SyncInv' /\ LastInv' /\ Extends(doc, doc')
  BY StepOk, SyncNext, LastNext DEF FollowsInv
<1>2. /\ UNCHANGED <<panel, view, cursor, seen, breaks>> /\ cursor \in Nat /\ cursor <= doc.seq /\ breaks \in Nat
      /\ IInv /\ SyncInv
  BY DEF panelVars, FollowsInv
<1>3. doc.seq \in Nat /\ doc'.seq \in Nat
  BY <1>1, <1>2 DEF IInv, TypeOK, Doc
<1>4. cursor' <= doc'.seq
  BY <1>1, <1>2, <1>3 DEF Extends
<1>5. FollowInv'
  <2> SUFFICES ASSUME faults' = 0, Len(doc'.events) < MaxGraphEvents, panel \in {"tick", "events"}, view # NoBoard
               PROVE  Following(view, cursor, doc') = doc'.node
    BY <1>2 DEF FollowInv
  <2>1. faults = 0
    BY <1>2, FaultsGrow
  <2>2. CASE SameBoard(doc', doc)
    <3>1. Following(view, cursor, doc') = Following(view, cursor, doc)
      BY <2>2 DEF SameBoard, Following
    <3>2. Following(view, cursor, doc) = doc.node
      BY <2>1, <2>2 DEF FollowsInv, FollowInv, SameBoard
    <3> QED
      BY <2>2, <3>1, <3>2 DEF SameBoard
  <2>3. CASE Reported(doc, doc')
    <3>1. PICK ev \in Event : /\ doc'.events = Window(Append(doc.events, ev))
                              /\ ev.seq = doc'.seq /\ doc'.seq > doc.seq
                              /\ doc'.node = ApplyGraphEvent(doc.node, ev)
      BY <2>3 DEF Reported
    <3> DEFINE events == doc.events
               n == Len(events)
               new == {k \in DOMAIN events : events[k].seq > cursor}
               more == {k \in DOMAIN doc'.events : doc'.events[k].seq > cursor}
    <3>2. events \in Seq(Event)
      BY <1>2 DEF IInv, TypeOK, Doc
    <3>3. doc'.events = Append(events, ev) /\ n < MaxGraphEvents
      BY <3>1, <3>2, WindowLast
    <3>4. /\ n \in Nat /\ DOMAIN events = 1 .. n /\ Len(Append(events, ev)) = n + 1
          /\ DOMAIN Append(events, ev) = 1 .. n + 1 /\ Append(events, ev)[n + 1] = ev
          /\ \A k \in 1 .. n : Append(events, ev)[k] = events[k]
      BY <3>2, LenProperties
    <3>5. (\A k \in 1 .. n : k \in more <=> k \in new) /\ n + 1 \in more
      BY <1>2, <1>3, <3>1, <3>3, <3>4
    <3>6. Following(view, cursor, doc) = doc.node
      BY <2>1, <3>3 DEF FollowsInv, FollowInv
    <3>7. Following(view, cursor, doc) = Showing(view, new, events)[n]
      BY DEF Following
    <3>8. Following(view, cursor, doc') = Showing(view, more, Append(events, ev))[n + 1]
      BY <3>3, <3>4 DEF Following
    <3> HIDE DEF new, more
    <3>9. Showing(view, more, Append(events, ev))[n + 1] = ApplyGraphEvent(Showing(view, new, events)[n], ev)
      BY <3>2, <3>5, ShowingMore
    <3> QED
      BY <3>1, <3>6, <3>7, <3>8, <3>9
  <2> QED
    BY <1>2, <2>2, <2>3, BoardMoves
<1>6. EndInv'
  BY DocEnds
<1> QED
  BY <1>1, <1>2, <1>4, <1>5, <1>6 DEF FollowsInv

THEOREM Followed == StreamSpec => []FollowsInv
<1>1. StreamInit => FollowsInv
  <2> SUFFICES ASSUME StreamInit PROVE FollowsInv
    OBVIOUS
  <2>1. Init /\ IInv /\ panel = "closed" /\ cursor = 0 /\ seen = "queued" /\ breaks = 0
    BY InitOk DEF StreamInit
  <2>2. doc = NewTask /\ op = "init_graph_progress" /\ copy[Runner] = NoDoc /\ crashed = FALSE /\ \A n \in Nodes : ~Holding(n)
    BY <2>1 DEF Init, Threads, Holding
  <2>3. doc.seq = 0 /\ doc.events = <<>> /\ doc.status = "queued"
    BY <2>2 DEF NewTask
  <2> QED
    BY <2>1, <2>2, <2>3 DEF FollowsInv, SyncInv, LastInv, FollowInv, EndInv, OpenCopies, Terminal
<1>2. FollowsInv /\ [StreamNext]_streamVars => FollowsInv'
  <2> SUFFICES ASSUME FollowsInv, [StreamNext]_streamVars PROVE FollowsInv'
    OBVIOUS
  <2>1. CASE [Next]_vars /\ UNCHANGED panelVars
    BY <2>1, DocFollows
  <2>2. CASE (OpenGraph \/ PanelStep \/ StreamBreak) /\ UNCHANGED vars
    BY <2>2, PanelFollows
  <2> QED
    BY <2>1, <2>2 DEF StreamNext, streamVars
<1> QED
  BY <1>1, <1>2, PTL DEF StreamSpec

\* A panel that has followed the stream to the document's counter shows the board, for
\* every graph: each report and its event say the same of the nodes, whatever nodes run
\* in parallel, crash or are read by whom.  The window must hold the log: an event that
\* has left it is one the panel may never get.  A panel that was opened before the board
\* was stored shows none.
THEOREM PanelShowsBoard == StreamSpec => [](Len(doc.events) < MaxGraphEvents => CaughtUpMeansSame)
<1>1. FollowsInv => (Len(doc.events) < MaxGraphEvents => CaughtUpMeansSame)
  <2> SUFFICES ASSUME FollowsInv, Len(doc.events) < MaxGraphEvents, faults = 0, panel \in {"tick", "events"}, cursor = doc.seq,
                      view # NoBoard
               PROVE  view = doc.node
    BY DEF CaughtUpMeansSame
  <2>1. doc.events \in Seq(Event) /\ Len(doc.events) \in Nat /\ DOMAIN doc.events = 1 .. Len(doc.events) /\ doc.seq \in Nat
    BY LenProperties DEF FollowsInv, IInv, TypeOK, Doc
  <2>2. ASSUME NEW k \in DOMAIN doc.events PROVE ~ (doc.events[k].seq > cursor)
    <3>1. doc.events[k] \in Event
      BY <2>1, ElementOfSeq
    <3> QED
      BY <2>1, <3>1 DEF Event, FollowsInv, IInv, Ordered
  <2>3. Following(view, cursor, doc) = view
    BY <2>1, <2>2, NothingToFollow
  <2> QED
    BY <2>3 DEF FollowsInv, FollowInv
<1> QED
  BY <1>1, Followed, PTL

\* The server ends a stream only when the panel has every event, as long as no call raises
\* and no other worker starts up: two quiet ticks after a closed status mean that the
\* last report has been sent, because a task that is closed is written no more.
THEOREM StreamsAreComplete == StreamSpec => [](faults = 0 /\ starts = 0 => StreamEndsComplete)
<1>1. FollowsInv => (faults = 0 /\ starts = 0 => StreamEndsComplete)
  BY DEF FollowsInv, EndInv, StreamEndsComplete
<1> QED
  BY <1>1, Followed, PTL
=============================================================================
