--------------------------- MODULE Copilot_proofs ---------------------------
(***************************************************************************)
(* What holds of the copilot's runs, and of the event stream of a run.     *)
(*                                                                         *)
(* The runs, for any number of requests, rounds and faults: a cancel stops *)
(* the loop after at most one more action.  And for a user who waits for   *)
(* the answer to a request before making the next and cancels nothing,     *)
(* with no memory update and no background call failing: the runs          *)
(* implement CopilotSession, and the answer to an approval decides.        *)
(* The first rests on who may write a run while its loop is on: only       *)
(* cancels, because an approval needs a run whose loop is over, and every  *)
(* copy of the run that a cancel holds then shows no approval either.      *)
(*                                                                         *)
(* The stream, for any number of workers, publishers, clients and          *)
(* reconnects: no event is sent to a client twice, and one process stores  *)
(* the events in the order of their numbers while no call fails.  The      *)
(* first rests on what a publisher may still put into a queue: only the    *)
(* event it is at, and only into queues that were registered while it had  *)
(* the lock, to which the replay has not yet sent it.                      *)
(***************************************************************************)
EXTENDS CopilotRun, CopilotEvents, SequenceTheorems, FiniteSetTheorems, WellFoundedInduction, TLAPS

\* up to the write that ends the loop
LoopPcs == {"none", "top", "plan", "toolcheck", "act", "check", "close"}

\* a request or a task that has read a run and will write it back
Holding(t) ==
  \/ t \in Sends /\ runner[t] \in {"timeout_index", "memory_index", "fail_index"}
  \/ t \in Approvals /\ approver[t] \in {"grant_index", "mark_index", "fail_index", "failupd_index"}
  \/ t \in Cancels /\ canceller[t] = "read"

HoldInv == \A t \in Threads : Holding(t) => copy[t] \in Run

ShapeInv ==
  /\ \A s \in Sends : sender[s] \in {"idle", "admitted"} => run[s] = NoRun
  /\ \A s \in Sends : sender[s] = "created" => IsRun(s)
  /\ \A s \in Sends : sender[s] # "done" => runner[s] = "none"
  /\ \A s \in Sends : runner[s] # "none" => IsRun(s)
  /\ \A a \in Approvals : approver[a] \notin {"idle", "done"} => IsRun(target[a])
  /\ \A c \in Cancels : canceller[c] # "idle" => IsRun(target[c])
  /\ \A r \in Sends : runner[r] \in {"plan", "toolcheck", "act"} => round[r] <= MaxRounds

TypeInv == RunTypeOK /\ HoldInv /\ ShapeInv

LoopInv ==
  /\ \A r \in Sends : runner[r] \in LoopPcs /\ IsRun(r) => run[r].pending = "none"
  /\ \A a \in Approvals :
       approver[a] \notin {"idle", "done"} => runner[target[a]] \notin LoopPcs
  /\ \A c \in Cancels :
       canceller[c] = "read" /\ runner[target[c]] \in LoopPcs => copy[c].pending = "none"

LateInv ==
  \A r \in Sends :
    /\ runner[r] = "none" => late[r] = 0
    /\ runner[r] \in LoopPcs /\ IsRun(r) /\ ~Cancelled(r) => late[r] = 0
    /\ runner[r] \in {"plan", "toolcheck", "act"} => late[r] = 0
    /\ late[r] <= 1

RunInv == TypeInv /\ LoopInv /\ LateInv
-----------------------------------------------------------------------------
\* Every variable keeps its type ...
LEMMA TypeOKKept ==
  ASSUME RunTypeOK, HoldInv, ShapeInv, Next
  PROVE  RunTypeOK'
<1> USE CopilotRunAssumption, NoRunAssumption
    DEF Keep, KeepLoop, KeepCancel, KeepApproval, RunnerMoves, CancelMoves, ApproverMoves, Stop,
    Publish, Read, Store, Overwrite, RunTypeOK, HoldInv, Holding, Threads
<1>1. ASSUME NEW s \in Sends, SendCheck(s) PROVE RunTypeOK'
  <2>1. sender' \in [Sends -> {"idle", "admitted", "created", "done"}]
    BY <1>1 DEF SendCheck, IsActive
  <2> QED BY <1>1, <2>1 DEF SendCheck, IsActive
<1>2. ASSUME NEW s \in Sends, SendCreate(s) PROVE RunTypeOK'
  <2>1. run' \in [Sends -> Run \cup {NoRun}]
    BY <1>2 DEF SendCreate, Run, Status, Active, Settled, Pending, ShapeInv, IsRun
  <2>2. sender' \in [Sends -> {"idle", "admitted", "created", "done"}]
    BY <1>2 DEF SendCreate
  <2> QED BY <1>2, <2>1, <2>2 DEF SendCreate
<1>3. ASSUME NEW s \in Sends, SendSchedule(s) PROVE RunTypeOK'
  <2>1. sender' \in [Sends -> {"idle", "admitted", "created", "done"}]
    BY <1>3 DEF SendSchedule
  <2>2. runner' \in [Sends -> RunnerPcs]
    BY <1>3 DEF SendSchedule, RunnerPcs
  <2> QED BY <1>3, <2>1, <2>2 DEF SendSchedule
<1>4. ASSUME NEW s \in Sends, SendFault(s) PROVE RunTypeOK'
  <2>1. sender' \in [Sends -> {"idle", "admitted", "created", "done"}]
    BY <1>4 DEF SendFault
  <2> QED BY <1>4, <2>1 DEF SendFault
<1>5. ASSUME NEW s \in Sends, NEW from \in {"top", "toolcheck"}, StopsAt(s, from) PROVE RunTypeOK'
  <2>1. runner' \in [Sends -> RunnerPcs]
    BY <1>5 DEF StopsAt, RunnerPcs
  <2>2. stop' \in [Sends -> StopReasons]
    BY <1>5 DEF StopsAt, StopReasons
  <2>3. events' \in [Sends -> SUBSET TERMINAL_EVENTS]
    BY <1>5 DEF StopsAt, TERMINAL_EVENTS
  <2> QED BY <1>5, <2>1, <2>2, <2>3 DEF StopsAt
<1>6. ASSUME NEW s \in Sends, RoundBegins(s) PROVE RunTypeOK'
  <2>1. runner' \in [Sends -> RunnerPcs]
    BY <1>6 DEF RoundBegins, RunnerPcs
  <2> QED BY <1>6, <2>1 DEF RoundBegins
<1>7. ASSUME NEW s \in Sends, RoundsExhausted(s) PROVE RunTypeOK'
  <2>1. runner' \in [Sends -> RunnerPcs]
    BY <1>7 DEF RoundsExhausted, RunnerPcs
  <2>2. stop' \in [Sends -> StopReasons]
    BY <1>7 DEF RoundsExhausted, StopReasons
  <2> QED BY <1>7, <2>1, <2>2 DEF RoundsExhausted
<1>8. ASSUME NEW s \in Sends, PlannerAnswers(s) PROVE RunTypeOK'
  <2>1. runner' \in [Sends -> RunnerPcs]
    BY <1>8 DEF PlannerAnswers, RunnerPcs
  <2>2. stop' \in [Sends -> StopReasons]
    BY <1>8 DEF PlannerAnswers, StopReasons
  <2> QED BY <1>8, <2>1, <2>2 DEF PlannerAnswers
<1>9. ASSUME NEW s \in Sends, PlannerFails(s) PROVE RunTypeOK'
  <2>1. runner' \in [Sends -> RunnerPcs]
    BY <1>9 DEF PlannerFails, RunnerPcs
  <2>2. stop' \in [Sends -> StopReasons]
    BY <1>9 DEF PlannerFails, StopReasons
  <2>3. events' \in [Sends -> SUBSET TERMINAL_EVENTS]
    BY <1>9 DEF PlannerFails, TERMINAL_EVENTS
  <2> QED BY <1>9, <2>1, <2>2, <2>3 DEF PlannerFails
<1>10. ASSUME NEW s \in Sends, ToolAllowed(s) PROVE RunTypeOK'
  <2>1. runner' \in [Sends -> RunnerPcs]
    BY <1>10 DEF ToolAllowed, RunnerPcs
  <2> QED BY <1>10, <2>1 DEF ToolAllowed
<1>11. ASSUME NEW s \in Sends, Act(s) PROVE RunTypeOK'
  <2>1. runner' \in [Sends -> RunnerPcs]
    BY <1>11 DEF Act, RunnerPcs
  <2>2. stop' \in [Sends -> StopReasons]
    BY <1>11 DEF Act, StopReasons
  <2>3. round' \in [Sends -> 1 .. MaxRounds + 1]
    BY <1>11 DEF Act, ShapeInv
  <2>4. late' \in [Sends -> Nat]
    BY <1>11 DEF Act
  <2> QED BY <1>11, <2>1, <2>2, <2>3, <2>4 DEF Act
<1>12. ASSUME NEW s \in Sends, CloseCheck(s) PROVE RunTypeOK'
  <2>1. runner' \in [Sends -> RunnerPcs]
    BY <1>12 DEF CloseCheck, RunnerPcs
  <2>2. events' \in [Sends -> SUBSET TERMINAL_EVENTS]
    BY <1>12 DEF CloseCheck, TERMINAL_EVENTS
  <2> QED BY <1>12, <2>1, <2>2 DEF CloseCheck
<1>13. ASSUME NEW s \in Sends, Close(s) PROVE RunTypeOK'
  <2>1. runner' \in [Sends -> RunnerPcs]
    BY <1>13 DEF Close, Outcome, RunnerPcs
  <2>2. run' \in [Sends -> Run \cup {NoRun}]
    BY <1>13 DEF Close, Outcome, Run, Status, Active, Settled, Pending, ShapeInv, IsRun
  <2>3. saved' \in [Sends -> Status]
    BY <1>13 DEF Close, Outcome, Run, Status, Active, Settled, ShapeInv, IsRun
  <2> QED BY <1>13, <2>1, <2>2, <2>3 DEF Close, Outcome
<1>14. ASSUME NEW s \in Sends, UpdateGet(s) PROVE RunTypeOK'
  <2>1. runner' \in [Sends -> RunnerPcs]
    BY <1>14 DEF UpdateGet, RunnerPcs
  <2>2. copy' \in [Threads -> Run \cup {NoRun}]
    BY <1>14 DEF UpdateGet, ShapeInv, IsRun
  <2> QED BY <1>14, <2>1, <2>2 DEF UpdateGet
<1>15. ASSUME NEW s \in Sends, UpdateIndex(s) PROVE RunTypeOK'
  <2>1. runner' \in [Sends -> RunnerPcs]
    BY <1>15 DEF UpdateIndex, RunnerPcs
  <2>2. run' \in [Sends -> Run \cup {NoRun}]
    BY <1>15 DEF UpdateIndex, Run, Status, Active, Settled, Pending, ShapeInv, IsRun
  <2>3. copy' \in [Threads -> Run \cup {NoRun}]
    BY <1>15 DEF UpdateIndex, ShapeInv, IsRun
  <2>4. saved' \in [Sends -> Status]
    BY <1>15 DEF UpdateIndex, Run, Status, Active, Settled, ShapeInv, IsRun
  <2> QED BY <1>15, <2>1, <2>2, <2>3, <2>4 DEF UpdateIndex
<1>16. ASSUME NEW s \in Sends, Touch(s) PROVE RunTypeOK'
  <2>1. runner' \in [Sends -> RunnerPcs]
    BY <1>16 DEF Touch, RunnerPcs
  <2> QED BY <1>16, <2>1 DEF Touch
<1>17. ASSUME NEW s \in Sends, Announce(s) PROVE RunTypeOK'
  <2>1. runner' \in [Sends -> RunnerPcs]
    BY <1>17 DEF Announce, RunnerPcs
  <2>2. events' \in [Sends -> SUBSET TERMINAL_EVENTS]
    BY <1>17 DEF Announce, TERMINAL_EVENTS
  <2> QED BY <1>17, <2>1, <2>2 DEF Announce
<1>18. ASSUME NEW s \in Sends, FailGet(s) PROVE RunTypeOK'
  <2>1. runner' \in [Sends -> RunnerPcs]
    BY <1>18 DEF FailGet, RunnerPcs
  <2>2. copy' \in [Threads -> Run \cup {NoRun}]
    BY <1>18 DEF FailGet, ShapeInv, IsRun
  <2> QED BY <1>18, <2>1, <2>2 DEF FailGet
<1>19. ASSUME NEW s \in Sends, FailIndex(s) PROVE RunTypeOK'
  <2>1. runner' \in [Sends -> RunnerPcs]
    BY <1>19 DEF FailIndex, RunnerPcs
  <2>2. run' \in [Sends -> Run \cup {NoRun}]
    <3>1. [copy[s] EXCEPT !.status = "failed"] \in Run
      <4>1. copy[s] \in Run BY <1>19 DEF FailIndex
      <4> QED BY <4>1 DEF Run, Status, Settled
    <3> QED BY <1>19, <3>1 DEF FailIndex
  <2>3. copy' \in [Threads -> Run \cup {NoRun}]
    BY <1>19 DEF FailIndex, ShapeInv, IsRun
  <2>4. events' \in [Sends -> SUBSET TERMINAL_EVENTS]
    BY <1>19 DEF FailIndex, TERMINAL_EVENTS
  <2> QED BY <1>19, <2>1, <2>2, <2>3, <2>4 DEF FailIndex
<1>20. ASSUME NEW s \in Sends, RunnerFault(s) PROVE RunTypeOK'
  <2>1. runner' \in [Sends -> RunnerPcs]
    BY <1>20 DEF RunnerFault, RunnerPcs
  <2>2. copy' \in [Threads -> Run \cup {NoRun}]
    BY <1>20 DEF RunnerFault, ShapeInv, IsRun
  <2> QED BY <1>20, <2>1, <2>2 DEF RunnerFault
<1>21. ASSUME NEW s \in Sends, Expire(s) PROVE RunTypeOK'
  <2>1. expired' \subseteq Sends
    BY <1>21 DEF Expire
  <2> QED BY <1>21, <2>1 DEF Expire
<1>22. ASSUME NEW c \in Cancels, CancelCheck(c) PROVE RunTypeOK'
  <2>1. canceller' \in [Cancels -> {"idle", "checked", "read", "announce", "done"}]
    BY <1>22 DEF CancelCheck, IsActive
  <2>2. target' \in [Approvals \cup Cancels -> Sends]
    BY <1>22 DEF CancelCheck, IsActive
  <2> QED BY <1>22, <2>1, <2>2 DEF CancelCheck, IsActive
<1>23. ASSUME NEW c \in Cancels, CancelGet(c) PROVE RunTypeOK'
  <2>1. canceller' \in [Cancels -> {"idle", "checked", "read", "announce", "done"}]
    BY <1>23 DEF CancelGet
  <2>2. copy' \in [Threads -> Run \cup {NoRun}]
    BY <1>23 DEF CancelGet, ShapeInv, IsRun
  <2> QED BY <1>23, <2>1, <2>2 DEF CancelGet
<1>24. ASSUME NEW c \in Cancels, CancelIndex(c) PROVE RunTypeOK'
  <2>1. canceller' \in [Cancels -> {"idle", "checked", "read", "announce", "done"}]
    BY <1>24 DEF CancelIndex
  <2>2. run' \in [Sends -> Run \cup {NoRun}]
    BY <1>24 DEF CancelIndex, Run, Status, Active, Settled, Pending, ShapeInv, IsRun
  <2>3. copy' \in [Threads -> Run \cup {NoRun}]
    BY <1>24 DEF CancelIndex, ShapeInv, IsRun
  <2> QED BY <1>24, <2>1, <2>2, <2>3 DEF CancelIndex
<1>25. ASSUME NEW c \in Cancels, CancelAnnounce(c) PROVE RunTypeOK'
  <2>1. canceller' \in [Cancels -> {"idle", "checked", "read", "announce", "done"}]
    BY <1>25 DEF CancelAnnounce
  <2>2. events' \in [Sends -> SUBSET TERMINAL_EVENTS]
    BY <1>25 DEF CancelAnnounce, TERMINAL_EVENTS
  <2> QED BY <1>25, <2>1, <2>2 DEF CancelAnnounce
<1>26. ASSUME NEW a \in Approvals, ApprovalGet(a) PROVE RunTypeOK'
  <2>1. approver' \in [Approvals -> ApproverPcs]
    BY <1>26 DEF ApprovalGet, Approvable, ApproverPcs
  <2>2. target' \in [Approvals \cup Cancels -> Sends]
    BY <1>26 DEF ApprovalGet, Approvable
  <2>3. decision' \in [Approvals -> {"pending", "approved", "rejected", "expired"}]
    BY <1>26 DEF ApprovalGet, Approvable
  <2> QED BY <1>26, <2>1, <2>2, <2>3 DEF ApprovalGet, Approvable
<1>27. ASSUME NEW a \in Approvals, Refuse(a) PROVE RunTypeOK'
  <2>1. approver' \in [Approvals -> ApproverPcs]
    BY <1>27 DEF Refuse, ApproverPcs
  <2>2. run' \in [Sends -> Run \cup {NoRun}]
    BY <1>27 DEF Refuse, Run, Status, Active, Settled, Pending, ShapeInv, IsRun
  <2> QED BY <1>27, <2>1, <2>2 DEF Refuse
<1>28. ASSUME NEW a \in Approvals, RefusalAnnounced(a) PROVE RunTypeOK'
  <2>1. approver' \in [Approvals -> ApproverPcs]
    BY <1>28 DEF RefusalAnnounced, ApproverPcs
  <2>2. events' \in [Sends -> SUBSET TERMINAL_EVENTS]
    BY <1>28 DEF RefusalAnnounced, TERMINAL_EVENTS
  <2> QED BY <1>28, <2>1, <2>2 DEF RefusalAnnounced
<1>29. ASSUME NEW a \in Approvals, ApproverReads(a) PROVE RunTypeOK'
  <2>1. approver' \in [Approvals -> ApproverPcs]
    BY <1>29 DEF ApproverReads, ApproverPcs
  <2>2. copy' \in [Threads -> Run \cup {NoRun}]
    BY <1>29 DEF ApproverReads, ShapeInv, IsRun
  <2> QED BY <1>29, <2>1, <2>2 DEF ApproverReads
<1>30. ASSUME NEW a \in Approvals, Grant(a) PROVE RunTypeOK'
  <2>1. approver' \in [Approvals -> ApproverPcs]
    BY <1>30 DEF Grant, ApproverPcs
  <2>2. run' \in [Sends -> Run \cup {NoRun}]
    BY <1>30 DEF Grant, Run, Status, Active, Settled, Pending, ShapeInv, IsRun
  <2>3. copy' \in [Threads -> Run \cup {NoRun}]
    BY <1>30 DEF Grant, ShapeInv, IsRun
  <2> QED BY <1>30, <2>1, <2>2, <2>3 DEF Grant
<1>31. ASSUME NEW a \in Approvals, Schedule(a) PROVE RunTypeOK'
  <2>1. approver' \in [Approvals -> ApproverPcs]
    BY <1>31 DEF Schedule, ApproverPcs
  <2> QED BY <1>31, <2>1 DEF Schedule
<1>32. ASSUME NEW a \in Approvals, ExecCheck(a) PROVE RunTypeOK'
  <2>1. approver' \in [Approvals -> ApproverPcs]
    BY <1>32 DEF ExecCheck, MayExecute, ApproverPcs
  <2> QED BY <1>32, <2>1 DEF ExecCheck, MayExecute
<1>33. ASSUME NEW a \in Approvals, MarkExecuting(a) PROVE RunTypeOK'
  <2>1. approver' \in [Approvals -> ApproverPcs]
    BY <1>33 DEF MarkExecuting, ApproverPcs
  <2>2. run' \in [Sends -> Run \cup {NoRun}]
    BY <1>33 DEF MarkExecuting, Run, Status, Active, Settled, Pending, ShapeInv, IsRun
  <2>3. copy' \in [Threads -> Run \cup {NoRun}]
    BY <1>33 DEF MarkExecuting, ShapeInv, IsRun
  <2> QED BY <1>33, <2>1, <2>2, <2>3 DEF MarkExecuting
<1>34. ASSUME NEW a \in Approvals, Skill(a) PROVE RunTypeOK'
  <2>1. approver' \in [Approvals -> ApproverPcs]
    BY <1>34 DEF Skill, ApproverPcs
  <2>2. executed' \in [Sends -> Nat]
    BY <1>34 DEF Skill
  <2> QED BY <1>34, <2>1, <2>2 DEF Skill
<1>35. ASSUME NEW a \in Approvals, ExecClose(a) PROVE RunTypeOK'
  <2>1. approver' \in [Approvals -> ApproverPcs]
    BY <1>35 DEF ExecClose, ApproverPcs
  <2>2. run' \in [Sends -> Run \cup {NoRun}]
    BY <1>35 DEF ExecClose, Run, Status, Active, Settled, Pending, ShapeInv, IsRun
  <2> QED BY <1>35, <2>1, <2>2 DEF ExecClose
<1>36. ASSUME NEW a \in Approvals, ExecAnnounce(a) PROVE RunTypeOK'
  <2>1. approver' \in [Approvals -> ApproverPcs]
    BY <1>36 DEF ExecAnnounce, ApproverPcs
  <2>2. events' \in [Sends -> SUBSET TERMINAL_EVENTS]
    BY <1>36 DEF ExecAnnounce, TERMINAL_EVENTS
  <2> QED BY <1>36, <2>1, <2>2 DEF ExecAnnounce
<1>37. ASSUME NEW a \in Approvals, ExecTouch(a) PROVE RunTypeOK'
  <2>1. approver' \in [Approvals -> ApproverPcs]
    BY <1>37 DEF ExecTouch, ApproverPcs
  <2> QED BY <1>37, <2>1 DEF ExecTouch
<1>38. ASSUME NEW a \in Approvals, ExecFailIndex(a) PROVE RunTypeOK'
  <2>1. approver' \in [Approvals -> ApproverPcs]
    BY <1>38 DEF ExecFailIndex, ApproverPcs
  <2>2. run' \in [Sends -> Run \cup {NoRun}]
    BY <1>38 DEF ExecFailIndex, Run, Status, Active, Settled, Pending, ShapeInv, IsRun
  <2>3. copy' \in [Threads -> Run \cup {NoRun}]
    BY <1>38 DEF ExecFailIndex, ShapeInv, IsRun
  <2> QED BY <1>38, <2>1, <2>2, <2>3 DEF ExecFailIndex
<1>39. ASSUME NEW a \in Approvals, ExecFailUpdate(a) PROVE RunTypeOK'
  <2>1. approver' \in [Approvals -> ApproverPcs]
    BY <1>39 DEF ExecFailUpdate, ApproverPcs
  <2>2. run' \in [Sends -> Run \cup {NoRun}]
    BY <1>39 DEF ExecFailUpdate, Run, Status, Active, Settled, Pending, ShapeInv, IsRun
  <2>3. copy' \in [Threads -> Run \cup {NoRun}]
    BY <1>39 DEF ExecFailUpdate, ShapeInv, IsRun
  <2>4. events' \in [Sends -> SUBSET TERMINAL_EVENTS]
    BY <1>39 DEF ExecFailUpdate, TERMINAL_EVENTS
  <2> QED BY <1>39, <2>1, <2>2, <2>3, <2>4 DEF ExecFailUpdate
<1>40. ASSUME NEW a \in Approvals, ExecFault(a) PROVE RunTypeOK'
  <2>1. approver' \in [Approvals -> ApproverPcs]
    BY <1>40 DEF ExecFault, ApproverPcs
  <2>2. copy' \in [Threads -> Run \cup {NoRun}]
    BY <1>40 DEF ExecFault, ShapeInv, IsRun
  <2> QED BY <1>40, <2>1, <2>2 DEF ExecFault
<1>41. ASSUME NEW a \in Approvals, ApprovalFault(a) PROVE RunTypeOK'
  <2>1. approver' \in [Approvals -> ApproverPcs]
    BY <1>41 DEF ApprovalFault, ApproverPcs
  <2>2. copy' \in [Threads -> Run \cup {NoRun}]
    BY <1>41 DEF ApprovalFault, ShapeInv, IsRun
  <2> QED BY <1>41, <2>1, <2>2 DEF ApprovalFault
<1> QED
  BY <1>1, <1>2, <1>3, <1>4, <1>5, <1>6, <1>7, <1>8, <1>9, <1>10, <1>11, <1>12, <1>13, <1>14,
    <1>15, <1>16, <1>17, <1>18, <1>19, <1>20, <1>21, <1>22, <1>23, <1>24, <1>25, <1>26,
    <1>27, <1>28, <1>29, <1>30, <1>31, <1>32, <1>33, <1>34, <1>35, <1>36, <1>37, <1>38,
    <1>39, <1>40, <1>41
  DEF Next, SenderStep, RunnerStep, LoopStep, CloseStep, Requests, ApproverStep, CancelStep

\* ... a thread that is about to write a document back has read one ...
LEMMA HoldKept ==
  ASSUME RunTypeOK, HoldInv, ShapeInv, Next
  PROVE  HoldInv'
<1> USE CopilotRunAssumption, NoRunAssumption
    DEF Keep, KeepLoop, KeepCancel, KeepApproval, RunnerMoves, CancelMoves, ApproverMoves, Stop,
    Publish, Read, Store, Overwrite, RunTypeOK, HoldInv, Holding, Threads, ShapeInv, IsRun
<1>1. ASSUME NEW s \in Sends, SendCheck(s) PROVE HoldInv'  BY <1>1 DEF SendCheck, IsActive
<1>2. ASSUME NEW s \in Sends, SendCreate(s) PROVE HoldInv'  BY <1>2 DEF SendCreate
<1>3. ASSUME NEW s \in Sends, SendSchedule(s) PROVE HoldInv'  BY <1>3 DEF SendSchedule
<1>4. ASSUME NEW s \in Sends, SendFault(s) PROVE HoldInv'  BY <1>4 DEF SendFault
<1>5. ASSUME NEW s \in Sends, NEW from \in {"top", "toolcheck"}, StopsAt(s, from) PROVE HoldInv'
  BY <1>5 DEF StopsAt
<1>6. ASSUME NEW s \in Sends, RoundBegins(s) PROVE HoldInv'  BY <1>6 DEF RoundBegins
<1>7. ASSUME NEW s \in Sends, RoundsExhausted(s) PROVE HoldInv'  BY <1>7 DEF RoundsExhausted
<1>8. ASSUME NEW s \in Sends, PlannerAnswers(s) PROVE HoldInv'  BY <1>8 DEF PlannerAnswers
<1>9. ASSUME NEW s \in Sends, PlannerFails(s) PROVE HoldInv'  BY <1>9 DEF PlannerFails
<1>10. ASSUME NEW s \in Sends, ToolAllowed(s) PROVE HoldInv'  BY <1>10 DEF ToolAllowed
<1>11. ASSUME NEW s \in Sends, Act(s) PROVE HoldInv'  BY <1>11 DEF Act
<1>12. ASSUME NEW s \in Sends, CloseCheck(s) PROVE HoldInv'  BY <1>12 DEF CloseCheck
<1>13. ASSUME NEW s \in Sends, Close(s) PROVE HoldInv'  BY <1>13 DEF Close, Outcome
<1>14. ASSUME NEW s \in Sends, UpdateGet(s) PROVE HoldInv'  BY <1>14 DEF UpdateGet
<1>15. ASSUME NEW s \in Sends, UpdateIndex(s) PROVE HoldInv'  BY <1>15 DEF UpdateIndex
<1>16. ASSUME NEW s \in Sends, Touch(s) PROVE HoldInv'  BY <1>16 DEF Touch
<1>17. ASSUME NEW s \in Sends, Announce(s) PROVE HoldInv'  BY <1>17 DEF Announce
<1>18. ASSUME NEW s \in Sends, FailGet(s) PROVE HoldInv'  BY <1>18 DEF FailGet
<1>19. ASSUME NEW s \in Sends, FailIndex(s) PROVE HoldInv'  BY <1>19 DEF FailIndex
<1>20. ASSUME NEW s \in Sends, RunnerFault(s) PROVE HoldInv'  BY <1>20 DEF RunnerFault
<1>21. ASSUME NEW s \in Sends, Expire(s) PROVE HoldInv'  BY <1>21 DEF Expire
<1>22. ASSUME NEW c \in Cancels, CancelCheck(c) PROVE HoldInv'  BY <1>22 DEF CancelCheck, IsActive
<1>23. ASSUME NEW c \in Cancels, CancelGet(c) PROVE HoldInv'  BY <1>23 DEF CancelGet
<1>24. ASSUME NEW c \in Cancels, CancelIndex(c) PROVE HoldInv'  BY <1>24 DEF CancelIndex
<1>25. ASSUME NEW c \in Cancels, CancelAnnounce(c) PROVE HoldInv'  BY <1>25 DEF CancelAnnounce
<1>26. ASSUME NEW a \in Approvals, ApprovalGet(a) PROVE HoldInv'
  BY <1>26 DEF ApprovalGet, Approvable
<1>27. ASSUME NEW a \in Approvals, Refuse(a) PROVE HoldInv'  BY <1>27 DEF Refuse
<1>28. ASSUME NEW a \in Approvals, RefusalAnnounced(a) PROVE HoldInv'  BY <1>28 DEF RefusalAnnounced
<1>29. ASSUME NEW a \in Approvals, ApproverReads(a) PROVE HoldInv'  BY <1>29 DEF ApproverReads
<1>30. ASSUME NEW a \in Approvals, Grant(a) PROVE HoldInv'  BY <1>30 DEF Grant
<1>31. ASSUME NEW a \in Approvals, Schedule(a) PROVE HoldInv'  BY <1>31 DEF Schedule
<1>32. ASSUME NEW a \in Approvals, ExecCheck(a) PROVE HoldInv'  BY <1>32 DEF ExecCheck, MayExecute
<1>33. ASSUME NEW a \in Approvals, MarkExecuting(a) PROVE HoldInv'  BY <1>33 DEF MarkExecuting
<1>34. ASSUME NEW a \in Approvals, Skill(a) PROVE HoldInv'  BY <1>34 DEF Skill
<1>35. ASSUME NEW a \in Approvals, ExecClose(a) PROVE HoldInv'  BY <1>35 DEF ExecClose
<1>36. ASSUME NEW a \in Approvals, ExecAnnounce(a) PROVE HoldInv'  BY <1>36 DEF ExecAnnounce
<1>37. ASSUME NEW a \in Approvals, ExecTouch(a) PROVE HoldInv'  BY <1>37 DEF ExecTouch
<1>38. ASSUME NEW a \in Approvals, ExecFailIndex(a) PROVE HoldInv'  BY <1>38 DEF ExecFailIndex
<1>39. ASSUME NEW a \in Approvals, ExecFailUpdate(a) PROVE HoldInv'  BY <1>39 DEF ExecFailUpdate
<1>40. ASSUME NEW a \in Approvals, ExecFault(a) PROVE HoldInv'  BY <1>40 DEF ExecFault
<1>41. ASSUME NEW a \in Approvals, ApprovalFault(a) PROVE HoldInv'  BY <1>41 DEF ApprovalFault
<1> QED
  BY <1>1, <1>2, <1>3, <1>4, <1>5, <1>6, <1>7, <1>8, <1>9, <1>10, <1>11, <1>12, <1>13, <1>14,
    <1>15, <1>16, <1>17, <1>18, <1>19, <1>20, <1>21, <1>22, <1>23, <1>24, <1>25, <1>26,
    <1>27, <1>28, <1>29, <1>30, <1>31, <1>32, <1>33, <1>34, <1>35, <1>36, <1>37, <1>38,
    <1>39, <1>40, <1>41
  DEF Next, SenderStep, RunnerStep, LoopStep, CloseStep, Requests, ApproverStep, CancelStep

\* ... and a task, an answer or a cancel has a run.
LEMMA ShapeKept ==
  ASSUME RunTypeOK, HoldInv, ShapeInv, Next
  PROVE  ShapeInv'
<1> USE CopilotRunAssumption, NoRunAssumption
    DEF Keep, KeepLoop, KeepCancel, KeepApproval, RunnerMoves, CancelMoves, ApproverMoves, Stop,
    Publish, Read, Store, Overwrite, RunTypeOK, HoldInv, Holding, Threads, ShapeInv, IsRun,
    Run, Status, Active, Settled, Pending
<1>1. ASSUME NEW s \in Sends, SendCheck(s) PROVE ShapeInv'  BY <1>1 DEF SendCheck, IsActive
<1>2. ASSUME NEW s \in Sends, SendCreate(s) PROVE ShapeInv'  BY <1>2 DEF SendCreate
<1>3. ASSUME NEW s \in Sends, SendSchedule(s) PROVE ShapeInv'  BY <1>3 DEF SendSchedule
<1>4. ASSUME NEW s \in Sends, SendFault(s) PROVE ShapeInv'  BY <1>4 DEF SendFault
<1>5. ASSUME NEW s \in Sends, NEW from \in {"top", "toolcheck"}, StopsAt(s, from) PROVE ShapeInv'
  BY <1>5 DEF StopsAt
<1>6. ASSUME NEW s \in Sends, RoundBegins(s) PROVE ShapeInv'  BY <1>6 DEF RoundBegins
<1>7. ASSUME NEW s \in Sends, RoundsExhausted(s) PROVE ShapeInv'  BY <1>7 DEF RoundsExhausted
<1>8. ASSUME NEW s \in Sends, PlannerAnswers(s) PROVE ShapeInv'  BY <1>8 DEF PlannerAnswers
<1>9. ASSUME NEW s \in Sends, PlannerFails(s) PROVE ShapeInv'  BY <1>9 DEF PlannerFails
<1>10. ASSUME NEW s \in Sends, ToolAllowed(s) PROVE ShapeInv'  BY <1>10 DEF ToolAllowed
<1>11. ASSUME NEW s \in Sends, Act(s) PROVE ShapeInv'  BY <1>11 DEF Act
<1>12. ASSUME NEW s \in Sends, CloseCheck(s) PROVE ShapeInv'  BY <1>12 DEF CloseCheck
<1>13. ASSUME NEW s \in Sends, Close(s) PROVE ShapeInv'  BY <1>13 DEF Close, Outcome
<1>14. ASSUME NEW s \in Sends, UpdateGet(s) PROVE ShapeInv'  BY <1>14 DEF UpdateGet
<1>15. ASSUME NEW s \in Sends, UpdateIndex(s) PROVE ShapeInv'  BY <1>15 DEF UpdateIndex
<1>16. ASSUME NEW s \in Sends, Touch(s) PROVE ShapeInv'  BY <1>16 DEF Touch
<1>17. ASSUME NEW s \in Sends, Announce(s) PROVE ShapeInv'  BY <1>17 DEF Announce
<1>18. ASSUME NEW s \in Sends, FailGet(s) PROVE ShapeInv'  BY <1>18 DEF FailGet
<1>19. ASSUME NEW s \in Sends, FailIndex(s) PROVE ShapeInv'  BY <1>19 DEF FailIndex
<1>20. ASSUME NEW s \in Sends, RunnerFault(s) PROVE ShapeInv'  BY <1>20 DEF RunnerFault
<1>21. ASSUME NEW s \in Sends, Expire(s) PROVE ShapeInv'  BY <1>21 DEF Expire
<1>22. ASSUME NEW c \in Cancels, CancelCheck(c) PROVE ShapeInv'  BY <1>22 DEF CancelCheck, IsActive
<1>23. ASSUME NEW c \in Cancels, CancelGet(c) PROVE ShapeInv'  BY <1>23 DEF CancelGet
<1>24. ASSUME NEW c \in Cancels, CancelIndex(c) PROVE ShapeInv'  BY <1>24 DEF CancelIndex
<1>25. ASSUME NEW c \in Cancels, CancelAnnounce(c) PROVE ShapeInv'  BY <1>25 DEF CancelAnnounce
<1>26. ASSUME NEW a \in Approvals, ApprovalGet(a) PROVE ShapeInv'
  BY <1>26 DEF ApprovalGet, Approvable
<1>27. ASSUME NEW a \in Approvals, Refuse(a) PROVE ShapeInv'  BY <1>27 DEF Refuse
<1>28. ASSUME NEW a \in Approvals, RefusalAnnounced(a) PROVE ShapeInv'
  BY <1>28 DEF RefusalAnnounced
<1>29. ASSUME NEW a \in Approvals, ApproverReads(a) PROVE ShapeInv'  BY <1>29 DEF ApproverReads
<1>30. ASSUME NEW a \in Approvals, Grant(a) PROVE ShapeInv'  BY <1>30 DEF Grant
<1>31. ASSUME NEW a \in Approvals, Schedule(a) PROVE ShapeInv'  BY <1>31 DEF Schedule
<1>32. ASSUME NEW a \in Approvals, ExecCheck(a) PROVE ShapeInv'  BY <1>32 DEF ExecCheck, MayExecute
<1>33. ASSUME NEW a \in Approvals, MarkExecuting(a) PROVE ShapeInv'
  <2>1. \A r \in Sends : IsRun(r) => IsRun(r)'
    BY <1>33 DEF MarkExecuting, Run, Status, Active, Settled, Pending
  <2> QED BY <1>33, <2>1 DEF MarkExecuting
<1>34. ASSUME NEW a \in Approvals, Skill(a) PROVE ShapeInv'  BY <1>34 DEF Skill
<1>35. ASSUME NEW a \in Approvals, ExecClose(a) PROVE ShapeInv'  BY <1>35 DEF ExecClose
<1>36. ASSUME NEW a \in Approvals, ExecAnnounce(a) PROVE ShapeInv'  BY <1>36 DEF ExecAnnounce
<1>37. ASSUME NEW a \in Approvals, ExecTouch(a) PROVE ShapeInv'  BY <1>37 DEF ExecTouch
<1>38. ASSUME NEW a \in Approvals, ExecFailIndex(a) PROVE ShapeInv'
  <2>1. \A r \in Sends : IsRun(r) => IsRun(r)'
    BY <1>38 DEF ExecFailIndex, Run, Status, Active, Settled, Pending
  <2> QED BY <1>38, <2>1 DEF ExecFailIndex
<1>39. ASSUME NEW a \in Approvals, ExecFailUpdate(a) PROVE ShapeInv'
  <2>1. \A r \in Sends : IsRun(r) => IsRun(r)'
    BY <1>39 DEF ExecFailUpdate, Run, Status, Active, Settled, Pending
  <2> QED BY <1>39, <2>1 DEF ExecFailUpdate
<1>40. ASSUME NEW a \in Approvals, ExecFault(a) PROVE ShapeInv'  BY <1>40 DEF ExecFault
<1>41. ASSUME NEW a \in Approvals, ApprovalFault(a) PROVE ShapeInv'  BY <1>41 DEF ApprovalFault
<1> QED
  BY <1>1, <1>2, <1>3, <1>4, <1>5, <1>6, <1>7, <1>8, <1>9, <1>10, <1>11, <1>12, <1>13, <1>14,
    <1>15, <1>16, <1>17, <1>18, <1>19, <1>20, <1>21, <1>22, <1>23, <1>24, <1>25, <1>26,
    <1>27, <1>28, <1>29, <1>30, <1>31, <1>32, <1>33, <1>34, <1>35, <1>36, <1>37, <1>38,
    <1>39, <1>40, <1>41
  DEF Next, SenderStep, RunnerStep, LoopStep, CloseStep, Requests, ApproverStep, CancelStep

\* The types of documents and threads, kept together with what the loops hold.
LEMMA TypeStep ==
  ASSUME TypeInv, Next PROVE TypeInv'
BY TypeOKKept, HoldKept, ShapeKept DEF TypeInv
-----------------------------------------------------------------------------
\* Who writes a run whose loop is on, and what a cancelled run's loop still does.
LEMMA LoopKept ==
  ASSUME TypeInv, LoopInv, Next
  PROVE  LoopInv'
<1> USE CopilotRunAssumption, NoRunAssumption
    DEF Keep, KeepLoop, KeepCancel, KeepApproval, RunnerMoves, CancelMoves, ApproverMoves, Stop,
    Publish, Read, Store, Overwrite, LoopInv, LoopPcs, RunTypeOK, HoldInv, Holding, Threads,
    ShapeInv, IsRun, Run, Cancelled
<1> RunTypeOK /\ HoldInv /\ ShapeInv BY DEF TypeInv
<1>1. ASSUME NEW s \in Sends, SendCheck(s) PROVE LoopInv'  BY <1>1 DEF SendCheck, IsActive
<1>2. ASSUME NEW s \in Sends, SendCreate(s) PROVE LoopInv'  BY <1>2 DEF SendCreate
<1>3. ASSUME NEW s \in Sends, SendSchedule(s) PROVE LoopInv'  BY <1>3 DEF SendSchedule
<1>4. ASSUME NEW s \in Sends, SendFault(s) PROVE LoopInv'  BY <1>4 DEF SendFault
<1>5. ASSUME NEW s \in Sends, NEW from \in {"top", "toolcheck"}, StopsAt(s, from) PROVE LoopInv'
  BY <1>5 DEF StopsAt
<1>6. ASSUME NEW s \in Sends, RoundBegins(s) PROVE LoopInv'  BY <1>6 DEF RoundBegins
<1>7. ASSUME NEW s \in Sends, RoundsExhausted(s) PROVE LoopInv'  BY <1>7 DEF RoundsExhausted
<1>8. ASSUME NEW s \in Sends, PlannerAnswers(s) PROVE LoopInv'  BY <1>8 DEF PlannerAnswers
<1>9. ASSUME NEW s \in Sends, PlannerFails(s) PROVE LoopInv'  BY <1>9 DEF PlannerFails
<1>10. ASSUME NEW s \in Sends, ToolAllowed(s) PROVE LoopInv'  BY <1>10 DEF ToolAllowed
<1>11. ASSUME NEW s \in Sends, Act(s) PROVE LoopInv'  BY <1>11 DEF Act
<1>12. ASSUME NEW s \in Sends, CloseCheck(s) PROVE LoopInv'  BY <1>12 DEF CloseCheck
<1>13. ASSUME NEW s \in Sends, Close(s) PROVE LoopInv'  BY <1>13 DEF Close, Outcome
<1>14. ASSUME NEW s \in Sends, UpdateGet(s) PROVE LoopInv'  BY <1>14 DEF UpdateGet
<1>15. ASSUME NEW s \in Sends, UpdateIndex(s) PROVE LoopInv'  BY <1>15 DEF UpdateIndex
<1>16. ASSUME NEW s \in Sends, Touch(s) PROVE LoopInv'  BY <1>16 DEF Touch
<1>17. ASSUME NEW s \in Sends, Announce(s) PROVE LoopInv'  BY <1>17 DEF Announce
<1>18. ASSUME NEW s \in Sends, FailGet(s) PROVE LoopInv'  BY <1>18 DEF FailGet
<1>19. ASSUME NEW s \in Sends, FailIndex(s) PROVE LoopInv'  BY <1>19 DEF FailIndex
<1>20. ASSUME NEW s \in Sends, RunnerFault(s) PROVE LoopInv'  BY <1>20 DEF RunnerFault
<1>21. ASSUME NEW s \in Sends, Expire(s) PROVE LoopInv'  BY <1>21 DEF Expire
<1>22. ASSUME NEW c \in Cancels, CancelCheck(c) PROVE LoopInv'  BY <1>22 DEF CancelCheck, IsActive
<1>23. ASSUME NEW c \in Cancels, CancelGet(c) PROVE LoopInv'  BY <1>23 DEF CancelGet
<1>24. ASSUME NEW c \in Cancels, CancelIndex(c) PROVE LoopInv'  BY <1>24 DEF CancelIndex
<1>25. ASSUME NEW c \in Cancels, CancelAnnounce(c) PROVE LoopInv'  BY <1>25 DEF CancelAnnounce
<1>26. ASSUME NEW a \in Approvals, ApprovalGet(a) PROVE LoopInv'
  BY <1>26 DEF ApprovalGet, Approvable
<1>27. ASSUME NEW a \in Approvals, Refuse(a) PROVE LoopInv'  BY <1>27 DEF Refuse
<1>28. ASSUME NEW a \in Approvals, RefusalAnnounced(a) PROVE LoopInv'  BY <1>28 DEF RefusalAnnounced
<1>29. ASSUME NEW a \in Approvals, ApproverReads(a) PROVE LoopInv'  BY <1>29 DEF ApproverReads
<1>30. ASSUME NEW a \in Approvals, Grant(a) PROVE LoopInv'  BY <1>30 DEF Grant
<1>31. ASSUME NEW a \in Approvals, Schedule(a) PROVE LoopInv'  BY <1>31 DEF Schedule
<1>32. ASSUME NEW a \in Approvals, ExecCheck(a) PROVE LoopInv'  BY <1>32 DEF ExecCheck, MayExecute
<1>33. ASSUME NEW a \in Approvals, MarkExecuting(a) PROVE LoopInv'  BY <1>33 DEF MarkExecuting
<1>34. ASSUME NEW a \in Approvals, Skill(a) PROVE LoopInv'  BY <1>34 DEF Skill
<1>35. ASSUME NEW a \in Approvals, ExecClose(a) PROVE LoopInv'  BY <1>35 DEF ExecClose
<1>36. ASSUME NEW a \in Approvals, ExecAnnounce(a) PROVE LoopInv'  BY <1>36 DEF ExecAnnounce
<1>37. ASSUME NEW a \in Approvals, ExecTouch(a) PROVE LoopInv'  BY <1>37 DEF ExecTouch
<1>38. ASSUME NEW a \in Approvals, ExecFailIndex(a) PROVE LoopInv'  BY <1>38 DEF ExecFailIndex
<1>39. ASSUME NEW a \in Approvals, ExecFailUpdate(a) PROVE LoopInv'  BY <1>39 DEF ExecFailUpdate
<1>40. ASSUME NEW a \in Approvals, ExecFault(a) PROVE LoopInv'  BY <1>40 DEF ExecFault
<1>41. ASSUME NEW a \in Approvals, ApprovalFault(a) PROVE LoopInv'  BY <1>41 DEF ApprovalFault
<1> QED
  BY <1>1, <1>2, <1>3, <1>4, <1>5, <1>6, <1>7, <1>8, <1>9, <1>10, <1>11, <1>12, <1>13, <1>14,
    <1>15, <1>16, <1>17, <1>18, <1>19, <1>20, <1>21, <1>22, <1>23, <1>24, <1>25, <1>26,
    <1>27, <1>28, <1>29, <1>30, <1>31, <1>32, <1>33, <1>34, <1>35, <1>36, <1>37, <1>38,
    <1>39, <1>40, <1>41
  DEF Next, SenderStep, RunnerStep, LoopStep, CloseStep, Requests, ApproverStep, CancelStep

\* A run that is not cancelled has begun nothing late, a cancelled one at most what was under way.
LEMMA LateKept ==
  ASSUME TypeInv, LoopInv, LateInv, Next
  PROVE  LateInv'
<1> USE CopilotRunAssumption, NoRunAssumption
    DEF Keep, KeepLoop, KeepCancel, KeepApproval, RunnerMoves, CancelMoves, ApproverMoves, Stop,
    Publish, Read, Store, Overwrite, LateInv, LoopInv, LoopPcs, RunTypeOK, HoldInv, Holding,
    Threads, ShapeInv, IsRun, Run, Cancelled
<1> RunTypeOK /\ HoldInv /\ ShapeInv BY DEF TypeInv
<1>1. ASSUME NEW s \in Sends, SendCheck(s) PROVE LateInv'  BY <1>1 DEF SendCheck, IsActive
<1>2. ASSUME NEW s \in Sends, SendCreate(s) PROVE LateInv'  BY <1>2 DEF SendCreate
<1>3. ASSUME NEW s \in Sends, SendSchedule(s) PROVE LateInv'  BY <1>3 DEF SendSchedule
<1>4. ASSUME NEW s \in Sends, SendFault(s) PROVE LateInv'  BY <1>4 DEF SendFault
<1>5. ASSUME NEW s \in Sends, NEW from \in {"top", "toolcheck"}, StopsAt(s, from) PROVE LateInv'
  BY <1>5 DEF StopsAt
<1>6. ASSUME NEW s \in Sends, RoundBegins(s) PROVE LateInv'  BY <1>6 DEF RoundBegins
<1>7. ASSUME NEW s \in Sends, RoundsExhausted(s) PROVE LateInv'  BY <1>7 DEF RoundsExhausted
<1>8. ASSUME NEW s \in Sends, PlannerAnswers(s) PROVE LateInv'  BY <1>8 DEF PlannerAnswers
<1>9. ASSUME NEW s \in Sends, PlannerFails(s) PROVE LateInv'  BY <1>9 DEF PlannerFails
<1>10. ASSUME NEW s \in Sends, ToolAllowed(s) PROVE LateInv'  BY <1>10 DEF ToolAllowed
<1>11. ASSUME NEW s \in Sends, Act(s) PROVE LateInv'  BY <1>11 DEF Act
<1>12. ASSUME NEW s \in Sends, CloseCheck(s) PROVE LateInv'  BY <1>12 DEF CloseCheck
<1>13. ASSUME NEW s \in Sends, Close(s) PROVE LateInv'  BY <1>13 DEF Close, Outcome
<1>14. ASSUME NEW s \in Sends, UpdateGet(s) PROVE LateInv'  BY <1>14 DEF UpdateGet
<1>15. ASSUME NEW s \in Sends, UpdateIndex(s) PROVE LateInv'  BY <1>15 DEF UpdateIndex
<1>16. ASSUME NEW s \in Sends, Touch(s) PROVE LateInv'  BY <1>16 DEF Touch
<1>17. ASSUME NEW s \in Sends, Announce(s) PROVE LateInv'  BY <1>17 DEF Announce
<1>18. ASSUME NEW s \in Sends, FailGet(s) PROVE LateInv'  BY <1>18 DEF FailGet
<1>19. ASSUME NEW s \in Sends, FailIndex(s) PROVE LateInv'  BY <1>19 DEF FailIndex
<1>20. ASSUME NEW s \in Sends, RunnerFault(s) PROVE LateInv'  BY <1>20 DEF RunnerFault
<1>21. ASSUME NEW s \in Sends, Expire(s) PROVE LateInv'  BY <1>21 DEF Expire
<1>22. ASSUME NEW c \in Cancels, CancelCheck(c) PROVE LateInv'  BY <1>22 DEF CancelCheck, IsActive
<1>23. ASSUME NEW c \in Cancels, CancelGet(c) PROVE LateInv'  BY <1>23 DEF CancelGet
<1>24. ASSUME NEW c \in Cancels, CancelIndex(c) PROVE LateInv'  BY <1>24 DEF CancelIndex
<1>25. ASSUME NEW c \in Cancels, CancelAnnounce(c) PROVE LateInv'  BY <1>25 DEF CancelAnnounce
<1>26. ASSUME NEW a \in Approvals, ApprovalGet(a) PROVE LateInv'
  BY <1>26 DEF ApprovalGet, Approvable
<1>27. ASSUME NEW a \in Approvals, Refuse(a) PROVE LateInv'  BY <1>27 DEF Refuse
<1>28. ASSUME NEW a \in Approvals, RefusalAnnounced(a) PROVE LateInv'  BY <1>28 DEF RefusalAnnounced
<1>29. ASSUME NEW a \in Approvals, ApproverReads(a) PROVE LateInv'  BY <1>29 DEF ApproverReads
<1>30. ASSUME NEW a \in Approvals, Grant(a) PROVE LateInv'  BY <1>30 DEF Grant
<1>31. ASSUME NEW a \in Approvals, Schedule(a) PROVE LateInv'  BY <1>31 DEF Schedule
<1>32. ASSUME NEW a \in Approvals, ExecCheck(a) PROVE LateInv'  BY <1>32 DEF ExecCheck, MayExecute
<1>33. ASSUME NEW a \in Approvals, MarkExecuting(a) PROVE LateInv'  BY <1>33 DEF MarkExecuting
<1>34. ASSUME NEW a \in Approvals, Skill(a) PROVE LateInv'  BY <1>34 DEF Skill
<1>35. ASSUME NEW a \in Approvals, ExecClose(a) PROVE LateInv'  BY <1>35 DEF ExecClose
<1>36. ASSUME NEW a \in Approvals, ExecAnnounce(a) PROVE LateInv'  BY <1>36 DEF ExecAnnounce
<1>37. ASSUME NEW a \in Approvals, ExecTouch(a) PROVE LateInv'  BY <1>37 DEF ExecTouch
<1>38. ASSUME NEW a \in Approvals, ExecFailIndex(a) PROVE LateInv'  BY <1>38 DEF ExecFailIndex
<1>39. ASSUME NEW a \in Approvals, ExecFailUpdate(a) PROVE LateInv'  BY <1>39 DEF ExecFailUpdate
<1>40. ASSUME NEW a \in Approvals, ExecFault(a) PROVE LateInv'  BY <1>40 DEF ExecFault
<1>41. ASSUME NEW a \in Approvals, ApprovalFault(a) PROVE LateInv'  BY <1>41 DEF ApprovalFault
<1> QED
  BY <1>1, <1>2, <1>3, <1>4, <1>5, <1>6, <1>7, <1>8, <1>9, <1>10, <1>11, <1>12, <1>13, <1>14,
    <1>15, <1>16, <1>17, <1>18, <1>19, <1>20, <1>21, <1>22, <1>23, <1>24, <1>25, <1>26,
    <1>27, <1>28, <1>29, <1>30, <1>31, <1>32, <1>33, <1>34, <1>35, <1>36, <1>37, <1>38,
    <1>39, <1>40, <1>41
  DEF Next, SenderStep, RunnerStep, LoopStep, CloseStep, Requests, ApproverStep, CancelStep

-----------------------------------------------------------------------------
\* The invariant of any user holds at first ...
LEMMA RunInvInit == Init => RunInv
BY CopilotRunAssumption, NoRunAssumption
DEF Init, RunInv, TypeInv, RunTypeOK, HoldInv, Holding, ShapeInv, LoopInv, LoopPcs, LateInv, IsRun,
    Threads, RunnerPcs, ApproverPcs, StopReasons, Status, Active, Settled, TERMINAL_EVENTS

\* ... and is kept by every step.
LEMMA RunInvStep == RunInv /\ [Next]_runVars => RunInv'
<1> SUFFICES ASSUME RunInv, [Next]_runVars PROVE RunInv'
  OBVIOUS
<1>1. CASE Next
  BY <1>1, TypeStep, LoopKept, LateKept DEF RunInv
<1>2. CASE UNCHANGED runVars
  <2> USE <1>2 DEF runVars
  <2>1. TypeInv'
    BY DEF RunInv, TypeInv, RunTypeOK, HoldInv, Holding, ShapeInv, IsRun
  <2>2. LoopInv'
    BY DEF RunInv, LoopInv, IsRun
  <2>3. LateInv'
    BY DEF RunInv, LateInv, IsRun, Cancelled
  <2> QED BY <2>1, <2>2, <2>3 DEF RunInv
<1> QED BY <1>1, <1>2

\* Every variable keeps its type, also the copies that are about to be written back.
THEOREM RunTypeCorrect == Spec => []RunTypeOK
<1>1. RunInv => RunTypeOK
  BY DEF RunInv, TypeInv
<1> QED BY <1>1, RunInvInit, RunInvStep, PTL DEF Spec

\* After a cancel is stored the loop begins at most one more tool or subagent,
\* whatever other requests do and whichever calls fail.
THEOREM CancelStops == Spec => []CancelStopsRuntime
<1>1. RunInv => CancelStopsRuntime
  BY DEF RunInv, LateInv, CancelStopsRuntime
<1> QED BY <1>1, RunInvInit, RunInvStep, PTL DEF Spec
-----------------------------------------------------------------------------
(***************************************************************************)
(* A patient user begins to send or to answer only while no other request  *)
(* of his is under way, and cancels nothing.                               *)
(***************************************************************************)
Begins(place) == \E t \in DOMAIN place : place[t] = "idle" /\ place'[t] # "idle"

Patient ==
  /\ Begins(sender) \/ Begins(approver) => ~Waiting
  /\ UNCHANGED <<canceller, faults>>

PatientSpec == Init /\ [][Next /\ Patient]_runVars

SenderWaits(s)   == sender[s] \in {"admitted", "created"}
ApproverWaits(a) == approver[a] \in {"refuse", "refused", "grant_get", "grant_index", "granted"}

\* one request at a time
OneWaits ==
  /\ \A s, q \in Sends : SenderWaits(s) /\ SenderWaits(q) => s = q
  /\ \A a, b \in Approvals : ApproverWaits(a) /\ ApproverWaits(b) => a = b
  /\ \A s \in Sends, a \in Approvals : ~(SenderWaits(s) /\ ApproverWaits(a))

\* nothing fails in the background, nothing is cancelled
Undisturbed ==
  /\ \A c \in Cancels : canceller[c] = "idle"
  /\ faults = 0
  /\ \A r \in Sends : runner[r] \notin {"fail_get", "fail_index", "memory_get", "memory_index"}
  /\ \A r \in Sends : stop[r] # "cancelled"
  /\ \A r \in Sends : IsRun(r) => run[r].status \notin {"failed", "cancelled"}
  /\ \A a \in Approvals : approver[a] \notin {"fail_get", "fail_index", "failupd_get", "failupd_index"}

\* one run at a time, and none while a new one is admitted
OneActive ==
  /\ \A r, q \in Sends : IsActive(r) /\ IsActive(q) => r = q
  /\ \A s, r \in Sends : sender[s] = "admitted" => ~IsActive(r)

Is(r, status, pending) == run[r] = [status |-> status, pending |-> pending]

ExecPcs == {"granted", "exec_get", "mark_get", "mark_index", "skill", "close"}

\* what a run's document says while its loop, its answer or its skill is on
LoopDoc ==
  \A r \in Sends : runner[r] \in LoopPcs /\ IsRun(r) => Is(r, "running", "none")
TimeoutDoc ==
  \A r \in Sends :
    /\ runner[r] \in {"timeout_get", "timeout_index"} => Is(r, "completed", "none")
    /\ runner[r] = "timeout_index" => copy[r] = run[r]
AnswerDoc ==
  \A a \in Approvals :
    /\ approver[a] \in {"refuse", "grant_get", "grant_index"} =>
         Is(target[a], "awaiting_approval", "pending")
    /\ approver[a] = "refuse" => decision[a] \in {"rejected", "expired"}
ExecDoc ==
  \A a \in Approvals :
    /\ approver[a] \in ExecPcs => Is(target[a], "running", "approved")
    /\ approver[a] = "mark_index" => copy[a] = run[target[a]]
OneExec ==
  \A a, b \in Approvals :
    approver[a] \in ExecPcs /\ approver[b] \in ExecPcs /\ target[a] = target[b] => a = b

DocInv == LoopDoc /\ TimeoutDoc /\ AnswerDoc /\ ExecDoc /\ OneExec

\* a skill has run for a run only after it was approved, and once
OnceInv ==
  /\ \A r \in Sends : executed[r] \in {0, 1}
  /\ \A r \in Sends : executed[r] = 1 => IsRun(r) /\ run[r].pending \in {"approved", "executed", "failed"}
  /\ \A a \in Approvals :
       approver[a] \in ExecPcs \ {"close"} => executed[target[a]] = 0

PatientInv == OneWaits /\ Undisturbed /\ OneActive /\ DocInv /\ OnceInv
\* A patient user waits for one request at a time.
LEMMA OneWaitsKept ==
  ASSUME MemoryFails = FALSE, RunInv, OneWaits, Next, Patient
  PROVE  OneWaits'
<1> USE CopilotRunAssumption, NoRunAssumption
    DEF Keep, KeepLoop, KeepCancel, KeepApproval, RunnerMoves, CancelMoves, ApproverMoves, Stop,
    Publish, Read, Store, Overwrite, OneWaits, SenderWaits, ApproverWaits, Waiting, Patient,
    Begins, RunTypeOK, RunnerPcs, ApproverPcs
<1> RunTypeOK /\ HoldInv /\ ShapeInv /\ LoopInv BY DEF RunInv, TypeInv
<1>1. ASSUME NEW s \in Sends, SendCheck(s) PROVE OneWaits'  BY <1>1 DEF SendCheck, IsActive
<1>2. ASSUME NEW s \in Sends, SendCreate(s) PROVE OneWaits'  BY <1>2 DEF SendCreate
<1>3. ASSUME NEW s \in Sends, SendSchedule(s) PROVE OneWaits'  BY <1>3 DEF SendSchedule
<1>4. ASSUME NEW s \in Sends, SendFault(s) PROVE OneWaits'  BY <1>4 DEF SendFault
<1>5. ASSUME NEW s \in Sends, NEW from \in {"top", "toolcheck"}, StopsAt(s, from) PROVE OneWaits'
  BY <1>5 DEF StopsAt
<1>6. ASSUME NEW s \in Sends, RoundBegins(s) PROVE OneWaits'  BY <1>6 DEF RoundBegins
<1>7. ASSUME NEW s \in Sends, RoundsExhausted(s) PROVE OneWaits'  BY <1>7 DEF RoundsExhausted
<1>8. ASSUME NEW s \in Sends, PlannerAnswers(s) PROVE OneWaits'  BY <1>8 DEF PlannerAnswers
<1>9. ASSUME NEW s \in Sends, PlannerFails(s) PROVE OneWaits'  BY <1>9 DEF PlannerFails
<1>10. ASSUME NEW s \in Sends, ToolAllowed(s) PROVE OneWaits'  BY <1>10 DEF ToolAllowed
<1>11. ASSUME NEW s \in Sends, Act(s) PROVE OneWaits'  BY <1>11 DEF Act
<1>12. ASSUME NEW s \in Sends, CloseCheck(s) PROVE OneWaits'  BY <1>12 DEF CloseCheck
<1>13. ASSUME NEW s \in Sends, Close(s) PROVE OneWaits'  BY <1>13 DEF Close, Outcome
<1>14. ASSUME NEW s \in Sends, UpdateGet(s) PROVE OneWaits'  BY <1>14 DEF UpdateGet
<1>15. ASSUME NEW s \in Sends, UpdateIndex(s) PROVE OneWaits'  BY <1>15 DEF UpdateIndex
<1>16. ASSUME NEW s \in Sends, Touch(s) PROVE OneWaits'  BY <1>16 DEF Touch
<1>17. ASSUME NEW s \in Sends, Announce(s) PROVE OneWaits'  BY <1>17 DEF Announce
<1>18. ASSUME NEW s \in Sends, FailGet(s) PROVE OneWaits'  BY <1>18 DEF FailGet
<1>19. ASSUME NEW s \in Sends, FailIndex(s) PROVE OneWaits'  BY <1>19 DEF FailIndex
<1>20. ASSUME NEW s \in Sends, RunnerFault(s) PROVE OneWaits'  BY <1>20 DEF RunnerFault
<1>21. ASSUME NEW s \in Sends, Expire(s) PROVE OneWaits'  BY <1>21 DEF Expire
<1>22. ASSUME NEW c \in Cancels, CancelCheck(c) PROVE OneWaits'  BY <1>22 DEF CancelCheck, IsActive
<1>23. ASSUME NEW c \in Cancels, CancelGet(c) PROVE OneWaits'  BY <1>23 DEF CancelGet
<1>24. ASSUME NEW c \in Cancels, CancelIndex(c) PROVE OneWaits'  BY <1>24 DEF CancelIndex
<1>25. ASSUME NEW c \in Cancels, CancelAnnounce(c) PROVE OneWaits'  BY <1>25 DEF CancelAnnounce
<1>26. ASSUME NEW a \in Approvals, ApprovalGet(a) PROVE OneWaits'
  BY <1>26 DEF ApprovalGet, Approvable
<1>27. ASSUME NEW a \in Approvals, Refuse(a) PROVE OneWaits'  BY <1>27 DEF Refuse
<1>28. ASSUME NEW a \in Approvals, RefusalAnnounced(a) PROVE OneWaits'
  BY <1>28 DEF RefusalAnnounced
<1>29. ASSUME NEW a \in Approvals, ApproverReads(a) PROVE OneWaits'  BY <1>29 DEF ApproverReads
<1>30. ASSUME NEW a \in Approvals, Grant(a) PROVE OneWaits'  BY <1>30 DEF Grant
<1>31. ASSUME NEW a \in Approvals, Schedule(a) PROVE OneWaits'  BY <1>31 DEF Schedule
<1>32. ASSUME NEW a \in Approvals, ExecCheck(a) PROVE OneWaits'  BY <1>32 DEF ExecCheck, MayExecute
<1>33. ASSUME NEW a \in Approvals, MarkExecuting(a) PROVE OneWaits'  BY <1>33 DEF MarkExecuting
<1>34. ASSUME NEW a \in Approvals, Skill(a) PROVE OneWaits'  BY <1>34 DEF Skill
<1>35. ASSUME NEW a \in Approvals, ExecClose(a) PROVE OneWaits'  BY <1>35 DEF ExecClose
<1>36. ASSUME NEW a \in Approvals, ExecAnnounce(a) PROVE OneWaits'  BY <1>36 DEF ExecAnnounce
<1>37. ASSUME NEW a \in Approvals, ExecTouch(a) PROVE OneWaits'  BY <1>37 DEF ExecTouch
<1>38. ASSUME NEW a \in Approvals, ExecFailIndex(a) PROVE OneWaits'  BY <1>38 DEF ExecFailIndex
<1>39. ASSUME NEW a \in Approvals, ExecFailUpdate(a) PROVE OneWaits'  BY <1>39 DEF ExecFailUpdate
<1>40. ASSUME NEW a \in Approvals, ExecFault(a) PROVE OneWaits'  BY <1>40 DEF ExecFault
<1>41. ASSUME NEW a \in Approvals, ApprovalFault(a) PROVE OneWaits'  BY <1>41 DEF ApprovalFault
<1> QED
  BY <1>1, <1>2, <1>3, <1>4, <1>5, <1>6, <1>7, <1>8, <1>9, <1>10, <1>11, <1>12, <1>13, <1>14,
    <1>15, <1>16, <1>17, <1>18, <1>19, <1>20, <1>21, <1>22, <1>23, <1>24, <1>25, <1>26,
    <1>27, <1>28, <1>29, <1>30, <1>31, <1>32, <1>33, <1>34, <1>35, <1>36, <1>37, <1>38,
    <1>39, <1>40, <1>41
  DEF Next, SenderStep, RunnerStep, LoopStep, CloseStep, Requests, ApproverStep, CancelStep

\* Nothing raises, nothing is cancelled, so no except branch is entered.
LEMMA UndisturbedKept ==
  ASSUME MemoryFails = FALSE, RunInv, PatientInv, Next, Patient
  PROVE  Undisturbed'
<1> USE CopilotRunAssumption, NoRunAssumption
    DEF Keep, KeepLoop, KeepCancel, KeepApproval, RunnerMoves, CancelMoves, ApproverMoves, Stop,
    Publish, Read, Store, Overwrite, PatientInv, Undisturbed, DocInv, TimeoutDoc, ExecDoc,
    Is, ExecPcs, Patient, RunTypeOK, IsRun, Cancelled, ShapeInv
<1> RunTypeOK /\ HoldInv /\ ShapeInv /\ LoopInv BY DEF RunInv, TypeInv
<1>1. ASSUME NEW s \in Sends, SendCheck(s) PROVE Undisturbed'  BY <1>1 DEF SendCheck, IsActive
<1>2. ASSUME NEW s \in Sends, SendCreate(s) PROVE Undisturbed'  BY <1>2 DEF SendCreate
<1>3. ASSUME NEW s \in Sends, SendSchedule(s) PROVE Undisturbed'  BY <1>3 DEF SendSchedule
<1>4. ASSUME NEW s \in Sends, SendFault(s) PROVE Undisturbed'  BY <1>4 DEF SendFault
<1>5. ASSUME NEW s \in Sends, NEW from \in {"top", "toolcheck"}, StopsAt(s, from) PROVE Undisturbed'
  BY <1>5 DEF StopsAt
<1>6. ASSUME NEW s \in Sends, RoundBegins(s) PROVE Undisturbed'  BY <1>6 DEF RoundBegins
<1>7. ASSUME NEW s \in Sends, RoundsExhausted(s) PROVE Undisturbed'  BY <1>7 DEF RoundsExhausted
<1>8. ASSUME NEW s \in Sends, PlannerAnswers(s) PROVE Undisturbed'  BY <1>8 DEF PlannerAnswers
<1>9. ASSUME NEW s \in Sends, PlannerFails(s) PROVE Undisturbed'  BY <1>9 DEF PlannerFails
<1>10. ASSUME NEW s \in Sends, ToolAllowed(s) PROVE Undisturbed'  BY <1>10 DEF ToolAllowed
<1>11. ASSUME NEW s \in Sends, Act(s) PROVE Undisturbed'  BY <1>11 DEF Act
<1>12. ASSUME NEW s \in Sends, CloseCheck(s) PROVE Undisturbed'  BY <1>12 DEF CloseCheck
<1>13. ASSUME NEW s \in Sends, Close(s) PROVE Undisturbed'  BY <1>13 DEF Close, Outcome
<1>14. ASSUME NEW s \in Sends, UpdateGet(s) PROVE Undisturbed'  BY <1>14 DEF UpdateGet
<1>15. ASSUME NEW s \in Sends, UpdateIndex(s) PROVE Undisturbed'  BY <1>15 DEF UpdateIndex
<1>16. ASSUME NEW s \in Sends, Touch(s) PROVE Undisturbed'  BY <1>16 DEF Touch
<1>17. ASSUME NEW s \in Sends, Announce(s) PROVE Undisturbed'  BY <1>17 DEF Announce
<1>18. ASSUME NEW s \in Sends, FailGet(s) PROVE Undisturbed'  BY <1>18 DEF FailGet
<1>19. ASSUME NEW s \in Sends, FailIndex(s) PROVE Undisturbed'  BY <1>19 DEF FailIndex
<1>20. ASSUME NEW s \in Sends, RunnerFault(s) PROVE Undisturbed'  BY <1>20 DEF RunnerFault
<1>21. ASSUME NEW s \in Sends, Expire(s) PROVE Undisturbed'  BY <1>21 DEF Expire
<1>22. ASSUME NEW c \in Cancels, CancelCheck(c) PROVE Undisturbed'
  BY <1>22 DEF CancelCheck, IsActive
<1>23. ASSUME NEW c \in Cancels, CancelGet(c) PROVE Undisturbed'  BY <1>23 DEF CancelGet
<1>24. ASSUME NEW c \in Cancels, CancelIndex(c) PROVE Undisturbed'  BY <1>24 DEF CancelIndex
<1>25. ASSUME NEW c \in Cancels, CancelAnnounce(c) PROVE Undisturbed'  BY <1>25 DEF CancelAnnounce
<1>26. ASSUME NEW a \in Approvals, ApprovalGet(a) PROVE Undisturbed'
  BY <1>26 DEF ApprovalGet, Approvable
<1>27. ASSUME NEW a \in Approvals, Refuse(a) PROVE Undisturbed'  BY <1>27 DEF Refuse
<1>28. ASSUME NEW a \in Approvals, RefusalAnnounced(a) PROVE Undisturbed'
  BY <1>28 DEF RefusalAnnounced
<1>29. ASSUME NEW a \in Approvals, ApproverReads(a) PROVE Undisturbed'  BY <1>29 DEF ApproverReads
<1>30. ASSUME NEW a \in Approvals, Grant(a) PROVE Undisturbed'  BY <1>30 DEF Grant
<1>31. ASSUME NEW a \in Approvals, Schedule(a) PROVE Undisturbed'  BY <1>31 DEF Schedule
<1>32. ASSUME NEW a \in Approvals, ExecCheck(a) PROVE Undisturbed'
  BY <1>32 DEF ExecCheck, MayExecute
<1>33. ASSUME NEW a \in Approvals, MarkExecuting(a) PROVE Undisturbed'  BY <1>33 DEF MarkExecuting
<1>34. ASSUME NEW a \in Approvals, Skill(a) PROVE Undisturbed'  BY <1>34 DEF Skill
<1>35. ASSUME NEW a \in Approvals, ExecClose(a) PROVE Undisturbed'  BY <1>35 DEF ExecClose
<1>36. ASSUME NEW a \in Approvals, ExecAnnounce(a) PROVE Undisturbed'  BY <1>36 DEF ExecAnnounce
<1>37. ASSUME NEW a \in Approvals, ExecTouch(a) PROVE Undisturbed'  BY <1>37 DEF ExecTouch
<1>38. ASSUME NEW a \in Approvals, ExecFailIndex(a) PROVE Undisturbed'  BY <1>38 DEF ExecFailIndex
<1>39. ASSUME NEW a \in Approvals, ExecFailUpdate(a) PROVE Undisturbed'  BY <1>39 DEF ExecFailUpdate
<1>40. ASSUME NEW a \in Approvals, ExecFault(a) PROVE Undisturbed'  BY <1>40 DEF ExecFault
<1>41. ASSUME NEW a \in Approvals, ApprovalFault(a) PROVE Undisturbed'  BY <1>41 DEF ApprovalFault
<1> QED
  BY <1>1, <1>2, <1>3, <1>4, <1>5, <1>6, <1>7, <1>8, <1>9, <1>10, <1>11, <1>12, <1>13, <1>14,
    <1>15, <1>16, <1>17, <1>18, <1>19, <1>20, <1>21, <1>22, <1>23, <1>24, <1>25, <1>26,
    <1>27, <1>28, <1>29, <1>30, <1>31, <1>32, <1>33, <1>34, <1>35, <1>36, <1>37, <1>38,
    <1>39, <1>40, <1>41
  DEF Next, SenderStep, RunnerStep, LoopStep, CloseStep, Requests, ApproverStep, CancelStep

\* The check of a send and its creation cannot be separated by another's.
LEMMA OneActiveKept ==
  ASSUME MemoryFails = FALSE, RunInv, PatientInv, Next, Patient
  PROVE  OneActive'
<1> USE CopilotRunAssumption, NoRunAssumption
    DEF Keep, KeepLoop, KeepCancel, KeepApproval, RunnerMoves, CancelMoves, ApproverMoves, Stop,
    Publish, Read, Store, Overwrite, PatientInv, OneActive, DocInv, LoopDoc, TimeoutDoc,
    AnswerDoc, ExecDoc, OneExec, Is, OneWaits, SenderWaits, Undisturbed, Patient, IsActive,
    Active, RunTypeOK, IsRun, Cancelled, ShapeInv, LoopPcs, ExecPcs
<1> RunTypeOK /\ HoldInv /\ ShapeInv /\ LoopInv BY DEF RunInv, TypeInv
<1>1. ASSUME NEW s \in Sends, SendCheck(s) PROVE OneActive'  BY <1>1 DEF SendCheck
<1>2. ASSUME NEW s \in Sends, SendCreate(s) PROVE OneActive'  BY <1>2 DEF SendCreate
<1>3. ASSUME NEW s \in Sends, SendSchedule(s) PROVE OneActive'  BY <1>3 DEF SendSchedule
<1>4. ASSUME NEW s \in Sends, SendFault(s) PROVE OneActive'  BY <1>4 DEF SendFault
<1>5. ASSUME NEW s \in Sends, NEW from \in {"top", "toolcheck"}, StopsAt(s, from) PROVE OneActive'
  BY <1>5 DEF StopsAt
<1>6. ASSUME NEW s \in Sends, RoundBegins(s) PROVE OneActive'  BY <1>6 DEF RoundBegins
<1>7. ASSUME NEW s \in Sends, RoundsExhausted(s) PROVE OneActive'  BY <1>7 DEF RoundsExhausted
<1>8. ASSUME NEW s \in Sends, PlannerAnswers(s) PROVE OneActive'  BY <1>8 DEF PlannerAnswers
<1>9. ASSUME NEW s \in Sends, PlannerFails(s) PROVE OneActive'  BY <1>9 DEF PlannerFails
<1>10. ASSUME NEW s \in Sends, ToolAllowed(s) PROVE OneActive'  BY <1>10 DEF ToolAllowed
<1>11. ASSUME NEW s \in Sends, Act(s) PROVE OneActive'  BY <1>11 DEF Act
<1>12. ASSUME NEW s \in Sends, CloseCheck(s) PROVE OneActive'  BY <1>12 DEF CloseCheck
<1>13. ASSUME NEW s \in Sends, Close(s) PROVE OneActive'  BY <1>13 DEF Close, Outcome
<1>14. ASSUME NEW s \in Sends, UpdateGet(s) PROVE OneActive'  BY <1>14 DEF UpdateGet
<1>15. ASSUME NEW s \in Sends, UpdateIndex(s) PROVE OneActive'  BY <1>15 DEF UpdateIndex
<1>16. ASSUME NEW s \in Sends, Touch(s) PROVE OneActive'  BY <1>16 DEF Touch
<1>17. ASSUME NEW s \in Sends, Announce(s) PROVE OneActive'  BY <1>17 DEF Announce
<1>18. ASSUME NEW s \in Sends, FailGet(s) PROVE OneActive'  BY <1>18 DEF FailGet
<1>19. ASSUME NEW s \in Sends, FailIndex(s) PROVE OneActive'  BY <1>19 DEF FailIndex
<1>20. ASSUME NEW s \in Sends, RunnerFault(s) PROVE OneActive'  BY <1>20 DEF RunnerFault
<1>21. ASSUME NEW s \in Sends, Expire(s) PROVE OneActive'  BY <1>21 DEF Expire
<1>22. ASSUME NEW c \in Cancels, CancelCheck(c) PROVE OneActive'  BY <1>22 DEF CancelCheck
<1>23. ASSUME NEW c \in Cancels, CancelGet(c) PROVE OneActive'  BY <1>23 DEF CancelGet
<1>24. ASSUME NEW c \in Cancels, CancelIndex(c) PROVE OneActive'  BY <1>24 DEF CancelIndex
<1>25. ASSUME NEW c \in Cancels, CancelAnnounce(c) PROVE OneActive'  BY <1>25 DEF CancelAnnounce
<1>26. ASSUME NEW a \in Approvals, ApprovalGet(a) PROVE OneActive'
  BY <1>26 DEF ApprovalGet, Approvable
<1>27. ASSUME NEW a \in Approvals, Refuse(a) PROVE OneActive'  BY <1>27 DEF Refuse
<1>28. ASSUME NEW a \in Approvals, RefusalAnnounced(a) PROVE OneActive'
  BY <1>28 DEF RefusalAnnounced
<1>29. ASSUME NEW a \in Approvals, ApproverReads(a) PROVE OneActive'  BY <1>29 DEF ApproverReads
<1>30. ASSUME NEW a \in Approvals, Grant(a) PROVE OneActive'  BY <1>30 DEF Grant
<1>31. ASSUME NEW a \in Approvals, Schedule(a) PROVE OneActive'  BY <1>31 DEF Schedule
<1>32. ASSUME NEW a \in Approvals, ExecCheck(a) PROVE OneActive'  BY <1>32 DEF ExecCheck, MayExecute
<1>33. ASSUME NEW a \in Approvals, MarkExecuting(a) PROVE OneActive'  BY <1>33 DEF MarkExecuting
<1>34. ASSUME NEW a \in Approvals, Skill(a) PROVE OneActive'  BY <1>34 DEF Skill
<1>35. ASSUME NEW a \in Approvals, ExecClose(a) PROVE OneActive'  BY <1>35 DEF ExecClose
<1>36. ASSUME NEW a \in Approvals, ExecAnnounce(a) PROVE OneActive'  BY <1>36 DEF ExecAnnounce
<1>37. ASSUME NEW a \in Approvals, ExecTouch(a) PROVE OneActive'  BY <1>37 DEF ExecTouch
<1>38. ASSUME NEW a \in Approvals, ExecFailIndex(a) PROVE OneActive'  BY <1>38 DEF ExecFailIndex
<1>39. ASSUME NEW a \in Approvals, ExecFailUpdate(a) PROVE OneActive'  BY <1>39 DEF ExecFailUpdate
<1>40. ASSUME NEW a \in Approvals, ExecFault(a) PROVE OneActive'  BY <1>40 DEF ExecFault
<1>41. ASSUME NEW a \in Approvals, ApprovalFault(a) PROVE OneActive'  BY <1>41 DEF ApprovalFault
<1> QED
  BY <1>1, <1>2, <1>3, <1>4, <1>5, <1>6, <1>7, <1>8, <1>9, <1>10, <1>11, <1>12, <1>13, <1>14,
    <1>15, <1>16, <1>17, <1>18, <1>19, <1>20, <1>21, <1>22, <1>23, <1>24, <1>25, <1>26,
    <1>27, <1>28, <1>29, <1>30, <1>31, <1>32, <1>33, <1>34, <1>35, <1>36, <1>37, <1>38,
    <1>39, <1>40, <1>41
  DEF Next, SenderStep, RunnerStep, LoopStep, CloseStep, Requests, ApproverStep, CancelStep

\* Nobody else writes a run while its loop is on ...
LEMMA LoopDocKept ==
  ASSUME MemoryFails = FALSE, RunInv, PatientInv, Next, Patient
  PROVE  LoopDoc'
<1> USE CopilotRunAssumption, NoRunAssumption
    DEF Keep, KeepLoop, KeepCancel, KeepApproval, RunnerMoves, CancelMoves, ApproverMoves, Stop,
    Publish, Read, Store, Overwrite, PatientInv, OneWaits, ApproverWaits, DocInv, LoopDoc,
    TimeoutDoc, AnswerDoc, ExecDoc, OneExec, Is, Undisturbed, Patient, RunTypeOK, IsRun,
    Cancelled, ShapeInv, LoopPcs, LoopInv, ExecPcs
<1> RunTypeOK /\ HoldInv /\ ShapeInv /\ LoopInv BY DEF RunInv, TypeInv
<1>1. ASSUME NEW s \in Sends, SendCheck(s) PROVE LoopDoc'  BY <1>1 DEF SendCheck, IsActive
<1>2. ASSUME NEW s \in Sends, SendCreate(s) PROVE LoopDoc'  BY <1>2 DEF SendCreate
<1>3. ASSUME NEW s \in Sends, SendSchedule(s) PROVE LoopDoc'  BY <1>3 DEF SendSchedule
<1>4. ASSUME NEW s \in Sends, SendFault(s) PROVE LoopDoc'  BY <1>4 DEF SendFault
<1>5. ASSUME NEW s \in Sends, NEW from \in {"top", "toolcheck"}, StopsAt(s, from) PROVE LoopDoc'
  BY <1>5 DEF StopsAt
<1>6. ASSUME NEW s \in Sends, RoundBegins(s) PROVE LoopDoc'  BY <1>6 DEF RoundBegins
<1>7. ASSUME NEW s \in Sends, RoundsExhausted(s) PROVE LoopDoc'  BY <1>7 DEF RoundsExhausted
<1>8. ASSUME NEW s \in Sends, PlannerAnswers(s) PROVE LoopDoc'  BY <1>8 DEF PlannerAnswers
<1>9. ASSUME NEW s \in Sends, PlannerFails(s) PROVE LoopDoc'  BY <1>9 DEF PlannerFails
<1>10. ASSUME NEW s \in Sends, ToolAllowed(s) PROVE LoopDoc'  BY <1>10 DEF ToolAllowed
<1>11. ASSUME NEW s \in Sends, Act(s) PROVE LoopDoc'  BY <1>11 DEF Act
<1>12. ASSUME NEW s \in Sends, CloseCheck(s) PROVE LoopDoc'  BY <1>12 DEF CloseCheck
<1>13. ASSUME NEW s \in Sends, Close(s) PROVE LoopDoc'  BY <1>13 DEF Close, Outcome
<1>14. ASSUME NEW s \in Sends, UpdateGet(s) PROVE LoopDoc'  BY <1>14 DEF UpdateGet
<1>15. ASSUME NEW s \in Sends, UpdateIndex(s) PROVE LoopDoc'  BY <1>15 DEF UpdateIndex
<1>16. ASSUME NEW s \in Sends, Touch(s) PROVE LoopDoc'  BY <1>16 DEF Touch
<1>17. ASSUME NEW s \in Sends, Announce(s) PROVE LoopDoc'  BY <1>17 DEF Announce
<1>18. ASSUME NEW s \in Sends, FailGet(s) PROVE LoopDoc'  BY <1>18 DEF FailGet
<1>19. ASSUME NEW s \in Sends, FailIndex(s) PROVE LoopDoc'  BY <1>19 DEF FailIndex
<1>20. ASSUME NEW s \in Sends, RunnerFault(s) PROVE LoopDoc'  BY <1>20 DEF RunnerFault
<1>21. ASSUME NEW s \in Sends, Expire(s) PROVE LoopDoc'  BY <1>21 DEF Expire
<1>22. ASSUME NEW c \in Cancels, CancelCheck(c) PROVE LoopDoc'  BY <1>22 DEF CancelCheck, IsActive
<1>23. ASSUME NEW c \in Cancels, CancelGet(c) PROVE LoopDoc'  BY <1>23 DEF CancelGet
<1>24. ASSUME NEW c \in Cancels, CancelIndex(c) PROVE LoopDoc'  BY <1>24 DEF CancelIndex
<1>25. ASSUME NEW c \in Cancels, CancelAnnounce(c) PROVE LoopDoc'  BY <1>25 DEF CancelAnnounce
<1>26. ASSUME NEW a \in Approvals, ApprovalGet(a) PROVE LoopDoc'
  BY <1>26 DEF ApprovalGet, Approvable
<1>27. ASSUME NEW a \in Approvals, Refuse(a) PROVE LoopDoc'  BY <1>27 DEF Refuse
<1>28. ASSUME NEW a \in Approvals, RefusalAnnounced(a) PROVE LoopDoc'  BY <1>28 DEF RefusalAnnounced
<1>29. ASSUME NEW a \in Approvals, ApproverReads(a) PROVE LoopDoc'  BY <1>29 DEF ApproverReads
<1>30. ASSUME NEW a \in Approvals, Grant(a) PROVE LoopDoc'  BY <1>30 DEF Grant
<1>31. ASSUME NEW a \in Approvals, Schedule(a) PROVE LoopDoc'  BY <1>31 DEF Schedule
<1>32. ASSUME NEW a \in Approvals, ExecCheck(a) PROVE LoopDoc'  BY <1>32 DEF ExecCheck, MayExecute
<1>33. ASSUME NEW a \in Approvals, MarkExecuting(a) PROVE LoopDoc'  BY <1>33 DEF MarkExecuting
<1>34. ASSUME NEW a \in Approvals, Skill(a) PROVE LoopDoc'  BY <1>34 DEF Skill
<1>35. ASSUME NEW a \in Approvals, ExecClose(a) PROVE LoopDoc'
  <2>1. PICK p \in {"executed", "failed"} : Overwrite(target[a], [status |-> "completed", pending |-> p])
    BY <1>35 DEF ExecClose
  <2>2. target[a] \in Sends /\ runner[target[a]] \notin LoopPcs /\ UNCHANGED runner
    BY <1>35 DEF ExecClose
  <2>3. \A r \in Sends : r # target[a] => run'[r] = run[r]
    BY <2>1
  <2> QED BY <2>2, <2>3
<1>36. ASSUME NEW a \in Approvals, ExecAnnounce(a) PROVE LoopDoc'  BY <1>36 DEF ExecAnnounce
<1>37. ASSUME NEW a \in Approvals, ExecTouch(a) PROVE LoopDoc'  BY <1>37 DEF ExecTouch
<1>38. ASSUME NEW a \in Approvals, ExecFailIndex(a) PROVE LoopDoc'  BY <1>38 DEF ExecFailIndex
<1>39. ASSUME NEW a \in Approvals, ExecFailUpdate(a) PROVE LoopDoc'  BY <1>39 DEF ExecFailUpdate
<1>40. ASSUME NEW a \in Approvals, ExecFault(a) PROVE LoopDoc'  BY <1>40 DEF ExecFault
<1>41. ASSUME NEW a \in Approvals, ApprovalFault(a) PROVE LoopDoc'  BY <1>41 DEF ApprovalFault
<1> QED
  BY <1>1, <1>2, <1>3, <1>4, <1>5, <1>6, <1>7, <1>8, <1>9, <1>10, <1>11, <1>12, <1>13, <1>14,
    <1>15, <1>16, <1>17, <1>18, <1>19, <1>20, <1>21, <1>22, <1>23, <1>24, <1>25, <1>26,
    <1>27, <1>28, <1>29, <1>30, <1>31, <1>32, <1>33, <1>34, <1>35, <1>36, <1>37, <1>38,
    <1>39, <1>40, <1>41
  DEF Next, SenderStep, RunnerStep, LoopStep, CloseStep, Requests, ApproverStep, CancelStep

\* ... nor between the two writes of a timeout ...
LEMMA TimeoutDocKept ==
  ASSUME MemoryFails = FALSE, RunInv, PatientInv, Next, Patient
  PROVE  TimeoutDoc'
<1> USE CopilotRunAssumption, NoRunAssumption
    DEF Keep, KeepLoop, KeepCancel, KeepApproval, RunnerMoves, CancelMoves, ApproverMoves, Stop,
    Publish, Read, Store, Overwrite, PatientInv, OneWaits, ApproverWaits, DocInv, LoopDoc,
    TimeoutDoc, AnswerDoc, ExecDoc, OneExec, Is, Undisturbed, Patient, RunTypeOK, IsRun,
    Cancelled, ShapeInv, LoopPcs, LoopInv, ExecPcs
<1> RunTypeOK /\ HoldInv /\ ShapeInv /\ LoopInv BY DEF RunInv, TypeInv
<1>1. ASSUME NEW s \in Sends, SendCheck(s) PROVE TimeoutDoc'  BY <1>1 DEF SendCheck, IsActive
<1>2. ASSUME NEW s \in Sends, SendCreate(s) PROVE TimeoutDoc'  BY <1>2 DEF SendCreate
<1>3. ASSUME NEW s \in Sends, SendSchedule(s) PROVE TimeoutDoc'  BY <1>3 DEF SendSchedule
<1>4. ASSUME NEW s \in Sends, SendFault(s) PROVE TimeoutDoc'  BY <1>4 DEF SendFault
<1>5. ASSUME NEW s \in Sends, NEW from \in {"top", "toolcheck"}, StopsAt(s, from) PROVE TimeoutDoc'
  BY <1>5 DEF StopsAt
<1>6. ASSUME NEW s \in Sends, RoundBegins(s) PROVE TimeoutDoc'  BY <1>6 DEF RoundBegins
<1>7. ASSUME NEW s \in Sends, RoundsExhausted(s) PROVE TimeoutDoc'  BY <1>7 DEF RoundsExhausted
<1>8. ASSUME NEW s \in Sends, PlannerAnswers(s) PROVE TimeoutDoc'  BY <1>8 DEF PlannerAnswers
<1>9. ASSUME NEW s \in Sends, PlannerFails(s) PROVE TimeoutDoc'  BY <1>9 DEF PlannerFails
<1>10. ASSUME NEW s \in Sends, ToolAllowed(s) PROVE TimeoutDoc'  BY <1>10 DEF ToolAllowed
<1>11. ASSUME NEW s \in Sends, Act(s) PROVE TimeoutDoc'  BY <1>11 DEF Act
<1>12. ASSUME NEW s \in Sends, CloseCheck(s) PROVE TimeoutDoc'  BY <1>12 DEF CloseCheck
<1>13. ASSUME NEW s \in Sends, Close(s) PROVE TimeoutDoc'  BY <1>13 DEF Close, Outcome
<1>14. ASSUME NEW s \in Sends, UpdateGet(s) PROVE TimeoutDoc'
  <2>1. runner[s] = "timeout_get" /\ runner' = [runner EXCEPT ![s] = "timeout_index"]
    BY <1>14 DEF UpdateGet
  <2> QED BY <1>14, <2>1 DEF UpdateGet, Threads
<1>15. ASSUME NEW s \in Sends, UpdateIndex(s) PROVE TimeoutDoc'  BY <1>15 DEF UpdateIndex
<1>16. ASSUME NEW s \in Sends, Touch(s) PROVE TimeoutDoc'  BY <1>16 DEF Touch
<1>17. ASSUME NEW s \in Sends, Announce(s) PROVE TimeoutDoc'  BY <1>17 DEF Announce
<1>18. ASSUME NEW s \in Sends, FailGet(s) PROVE TimeoutDoc'  BY <1>18 DEF FailGet
<1>19. ASSUME NEW s \in Sends, FailIndex(s) PROVE TimeoutDoc'  BY <1>19 DEF FailIndex
<1>20. ASSUME NEW s \in Sends, RunnerFault(s) PROVE TimeoutDoc'  BY <1>20 DEF RunnerFault
<1>21. ASSUME NEW s \in Sends, Expire(s) PROVE TimeoutDoc'  BY <1>21 DEF Expire
<1>22. ASSUME NEW c \in Cancels, CancelCheck(c) PROVE TimeoutDoc'
  BY <1>22 DEF CancelCheck, IsActive
<1>23. ASSUME NEW c \in Cancels, CancelGet(c) PROVE TimeoutDoc'  BY <1>23 DEF CancelGet
<1>24. ASSUME NEW c \in Cancels, CancelIndex(c) PROVE TimeoutDoc'  BY <1>24 DEF CancelIndex
<1>25. ASSUME NEW c \in Cancels, CancelAnnounce(c) PROVE TimeoutDoc'  BY <1>25 DEF CancelAnnounce
<1>26. ASSUME NEW a \in Approvals, ApprovalGet(a) PROVE TimeoutDoc'
  BY <1>26 DEF ApprovalGet, Approvable
<1>27. ASSUME NEW a \in Approvals, Refuse(a) PROVE TimeoutDoc'  BY <1>27 DEF Refuse
<1>28. ASSUME NEW a \in Approvals, RefusalAnnounced(a) PROVE TimeoutDoc'
  BY <1>28 DEF RefusalAnnounced
<1>29. ASSUME NEW a \in Approvals, ApproverReads(a) PROVE TimeoutDoc'  BY <1>29 DEF ApproverReads
<1>30. ASSUME NEW a \in Approvals, Grant(a) PROVE TimeoutDoc'  BY <1>30 DEF Grant
<1>31. ASSUME NEW a \in Approvals, Schedule(a) PROVE TimeoutDoc'  BY <1>31 DEF Schedule
<1>32. ASSUME NEW a \in Approvals, ExecCheck(a) PROVE TimeoutDoc'
  BY <1>32 DEF ExecCheck, MayExecute
<1>33. ASSUME NEW a \in Approvals, MarkExecuting(a) PROVE TimeoutDoc'  BY <1>33 DEF MarkExecuting
<1>34. ASSUME NEW a \in Approvals, Skill(a) PROVE TimeoutDoc'  BY <1>34 DEF Skill
<1>35. ASSUME NEW a \in Approvals, ExecClose(a) PROVE TimeoutDoc'  BY <1>35 DEF ExecClose
<1>36. ASSUME NEW a \in Approvals, ExecAnnounce(a) PROVE TimeoutDoc'  BY <1>36 DEF ExecAnnounce
<1>37. ASSUME NEW a \in Approvals, ExecTouch(a) PROVE TimeoutDoc'  BY <1>37 DEF ExecTouch
<1>38. ASSUME NEW a \in Approvals, ExecFailIndex(a) PROVE TimeoutDoc'  BY <1>38 DEF ExecFailIndex
<1>39. ASSUME NEW a \in Approvals, ExecFailUpdate(a) PROVE TimeoutDoc'  BY <1>39 DEF ExecFailUpdate
<1>40. ASSUME NEW a \in Approvals, ExecFault(a) PROVE TimeoutDoc'  BY <1>40 DEF ExecFault
<1>41. ASSUME NEW a \in Approvals, ApprovalFault(a) PROVE TimeoutDoc'  BY <1>41 DEF ApprovalFault
<1> QED
  BY <1>1, <1>2, <1>3, <1>4, <1>5, <1>6, <1>7, <1>8, <1>9, <1>10, <1>11, <1>12, <1>13, <1>14,
    <1>15, <1>16, <1>17, <1>18, <1>19, <1>20, <1>21, <1>22, <1>23, <1>24, <1>25, <1>26,
    <1>27, <1>28, <1>29, <1>30, <1>31, <1>32, <1>33, <1>34, <1>35, <1>36, <1>37, <1>38,
    <1>39, <1>40, <1>41
  DEF Next, SenderStep, RunnerStep, LoopStep, CloseStep, Requests, ApproverStep, CancelStep

\* ... nor while an answer to its approval is taken ...
LEMMA AnswerDocKept ==
  ASSUME MemoryFails = FALSE, RunInv, PatientInv, Next, Patient
  PROVE  AnswerDoc'
<1> USE CopilotRunAssumption, NoRunAssumption
    DEF Keep, KeepLoop, KeepCancel, KeepApproval, RunnerMoves, CancelMoves, ApproverMoves, Stop,
    Publish, Read, Store, Overwrite, PatientInv, OneWaits, ApproverWaits, DocInv, LoopDoc,
    TimeoutDoc, AnswerDoc, ExecDoc, OneExec, Is, Undisturbed, Patient, RunTypeOK, IsRun,
    Cancelled, ShapeInv, LoopPcs, LoopInv, ExecPcs
<1> RunTypeOK /\ HoldInv /\ ShapeInv /\ LoopInv BY DEF RunInv, TypeInv
<1>1. ASSUME NEW s \in Sends, SendCheck(s) PROVE AnswerDoc'  BY <1>1 DEF SendCheck, IsActive
<1>2. ASSUME NEW s \in Sends, SendCreate(s) PROVE AnswerDoc'  BY <1>2 DEF SendCreate
<1>3. ASSUME NEW s \in Sends, SendSchedule(s) PROVE AnswerDoc'  BY <1>3 DEF SendSchedule
<1>4. ASSUME NEW s \in Sends, SendFault(s) PROVE AnswerDoc'  BY <1>4 DEF SendFault
<1>5. ASSUME NEW s \in Sends, NEW from \in {"top", "toolcheck"}, StopsAt(s, from) PROVE AnswerDoc'
  BY <1>5 DEF StopsAt
<1>6. ASSUME NEW s \in Sends, RoundBegins(s) PROVE AnswerDoc'  BY <1>6 DEF RoundBegins
<1>7. ASSUME NEW s \in Sends, RoundsExhausted(s) PROVE AnswerDoc'  BY <1>7 DEF RoundsExhausted
<1>8. ASSUME NEW s \in Sends, PlannerAnswers(s) PROVE AnswerDoc'  BY <1>8 DEF PlannerAnswers
<1>9. ASSUME NEW s \in Sends, PlannerFails(s) PROVE AnswerDoc'  BY <1>9 DEF PlannerFails
<1>10. ASSUME NEW s \in Sends, ToolAllowed(s) PROVE AnswerDoc'  BY <1>10 DEF ToolAllowed
<1>11. ASSUME NEW s \in Sends, Act(s) PROVE AnswerDoc'  BY <1>11 DEF Act
<1>12. ASSUME NEW s \in Sends, CloseCheck(s) PROVE AnswerDoc'  BY <1>12 DEF CloseCheck
<1>13. ASSUME NEW s \in Sends, Close(s) PROVE AnswerDoc'  BY <1>13 DEF Close, Outcome
<1>14. ASSUME NEW s \in Sends, UpdateGet(s) PROVE AnswerDoc'  BY <1>14 DEF UpdateGet
<1>15. ASSUME NEW s \in Sends, UpdateIndex(s) PROVE AnswerDoc'  BY <1>15 DEF UpdateIndex
<1>16. ASSUME NEW s \in Sends, Touch(s) PROVE AnswerDoc'  BY <1>16 DEF Touch
<1>17. ASSUME NEW s \in Sends, Announce(s) PROVE AnswerDoc'  BY <1>17 DEF Announce
<1>18. ASSUME NEW s \in Sends, FailGet(s) PROVE AnswerDoc'  BY <1>18 DEF FailGet
<1>19. ASSUME NEW s \in Sends, FailIndex(s) PROVE AnswerDoc'  BY <1>19 DEF FailIndex
<1>20. ASSUME NEW s \in Sends, RunnerFault(s) PROVE AnswerDoc'  BY <1>20 DEF RunnerFault
<1>21. ASSUME NEW s \in Sends, Expire(s) PROVE AnswerDoc'  BY <1>21 DEF Expire
<1>22. ASSUME NEW c \in Cancels, CancelCheck(c) PROVE AnswerDoc'  BY <1>22 DEF CancelCheck, IsActive
<1>23. ASSUME NEW c \in Cancels, CancelGet(c) PROVE AnswerDoc'  BY <1>23 DEF CancelGet
<1>24. ASSUME NEW c \in Cancels, CancelIndex(c) PROVE AnswerDoc'  BY <1>24 DEF CancelIndex
<1>25. ASSUME NEW c \in Cancels, CancelAnnounce(c) PROVE AnswerDoc'  BY <1>25 DEF CancelAnnounce
<1>26. ASSUME NEW a \in Approvals, ApprovalGet(a) PROVE AnswerDoc'
  <2>1. PICK r \in Sends, approved \in BOOLEAN :
          /\ IsRun(r)
          /\ target' = [target EXCEPT ![a] = r]
          /\ IF ~Approvable(run[r])
             THEN approver' = [approver EXCEPT ![a] = "done"] /\ UNCHANGED decision
             ELSE /\ decision' = [decision EXCEPT ![a] = IF r \in expired THEN "expired"
                                                        ELSE IF approved THEN "approved" ELSE "rejected"]
                  /\ approver' = [approver EXCEPT
                       ![a] = IF approved /\ r \notin expired THEN "grant_get" ELSE "refuse"]
    BY <1>26 DEF ApprovalGet
  <2>2. UNCHANGED run
    BY <1>26 DEF ApprovalGet
  <2>3. Approvable(run[r]) => Is(r, "awaiting_approval", "pending")
    <3>1. run[r] \in Run BY <2>1
    <3> QED BY <3>1 DEF Approvable, Run
  <2> HIDE DEF Approvable
  <2>4. CASE Approvable(run[r])
    BY <2>1, <2>2, <2>3, <2>4
  <2>5. CASE ~Approvable(run[r])
    BY <2>1, <2>2, <2>5
  <2> QED BY <2>4, <2>5
<1>27. ASSUME NEW a \in Approvals, Refuse(a) PROVE AnswerDoc'  BY <1>27 DEF Refuse
<1>28. ASSUME NEW a \in Approvals, RefusalAnnounced(a) PROVE AnswerDoc'
  BY <1>28 DEF RefusalAnnounced
<1>29. ASSUME NEW a \in Approvals, ApproverReads(a) PROVE AnswerDoc'  BY <1>29 DEF ApproverReads
<1>30. ASSUME NEW a \in Approvals, Grant(a) PROVE AnswerDoc'  BY <1>30 DEF Grant
<1>31. ASSUME NEW a \in Approvals, Schedule(a) PROVE AnswerDoc'  BY <1>31 DEF Schedule
<1>32. ASSUME NEW a \in Approvals, ExecCheck(a) PROVE AnswerDoc'  BY <1>32 DEF ExecCheck, MayExecute
<1>33. ASSUME NEW a \in Approvals, MarkExecuting(a) PROVE AnswerDoc'  BY <1>33 DEF MarkExecuting
<1>34. ASSUME NEW a \in Approvals, Skill(a) PROVE AnswerDoc'  BY <1>34 DEF Skill
<1>35. ASSUME NEW a \in Approvals, ExecClose(a) PROVE AnswerDoc'  BY <1>35 DEF ExecClose
<1>36. ASSUME NEW a \in Approvals, ExecAnnounce(a) PROVE AnswerDoc'  BY <1>36 DEF ExecAnnounce
<1>37. ASSUME NEW a \in Approvals, ExecTouch(a) PROVE AnswerDoc'  BY <1>37 DEF ExecTouch
<1>38. ASSUME NEW a \in Approvals, ExecFailIndex(a) PROVE AnswerDoc'  BY <1>38 DEF ExecFailIndex
<1>39. ASSUME NEW a \in Approvals, ExecFailUpdate(a) PROVE AnswerDoc'  BY <1>39 DEF ExecFailUpdate
<1>40. ASSUME NEW a \in Approvals, ExecFault(a) PROVE AnswerDoc'  BY <1>40 DEF ExecFault
<1>41. ASSUME NEW a \in Approvals, ApprovalFault(a) PROVE AnswerDoc'  BY <1>41 DEF ApprovalFault
<1> QED
  BY <1>1, <1>2, <1>3, <1>4, <1>5, <1>6, <1>7, <1>8, <1>9, <1>10, <1>11, <1>12, <1>13, <1>14,
    <1>15, <1>16, <1>17, <1>18, <1>19, <1>20, <1>21, <1>22, <1>23, <1>24, <1>25, <1>26,
    <1>27, <1>28, <1>29, <1>30, <1>31, <1>32, <1>33, <1>34, <1>35, <1>36, <1>37, <1>38,
    <1>39, <1>40, <1>41
  DEF Next, SenderStep, RunnerStep, LoopStep, CloseStep, Requests, ApproverStep, CancelStep

\* ... nor while its skill is executed ...
LEMMA ExecDocKept ==
  ASSUME MemoryFails = FALSE, RunInv, PatientInv, Next, Patient
  PROVE  ExecDoc'
<1> USE CopilotRunAssumption, NoRunAssumption
    DEF Keep, KeepLoop, KeepCancel, KeepApproval, RunnerMoves, CancelMoves, ApproverMoves, Stop,
    Publish, Read, Store, Overwrite, PatientInv, OneWaits, ApproverWaits, DocInv, LoopDoc,
    TimeoutDoc, AnswerDoc, ExecDoc, OneExec, Is, Undisturbed, Patient, RunTypeOK, IsRun,
    Cancelled, ShapeInv, LoopPcs, LoopInv, ExecPcs
<1> RunTypeOK /\ HoldInv /\ ShapeInv /\ LoopInv BY DEF RunInv, TypeInv
<1>1. ASSUME NEW s \in Sends, SendCheck(s) PROVE ExecDoc'  BY <1>1 DEF SendCheck, IsActive
<1>2. ASSUME NEW s \in Sends, SendCreate(s) PROVE ExecDoc'  BY <1>2 DEF SendCreate
<1>3. ASSUME NEW s \in Sends, SendSchedule(s) PROVE ExecDoc'  BY <1>3 DEF SendSchedule
<1>4. ASSUME NEW s \in Sends, SendFault(s) PROVE ExecDoc'  BY <1>4 DEF SendFault
<1>5. ASSUME NEW s \in Sends, NEW from \in {"top", "toolcheck"}, StopsAt(s, from) PROVE ExecDoc'
  BY <1>5 DEF StopsAt
<1>6. ASSUME NEW s \in Sends, RoundBegins(s) PROVE ExecDoc'  BY <1>6 DEF RoundBegins
<1>7. ASSUME NEW s \in Sends, RoundsExhausted(s) PROVE ExecDoc'  BY <1>7 DEF RoundsExhausted
<1>8. ASSUME NEW s \in Sends, PlannerAnswers(s) PROVE ExecDoc'  BY <1>8 DEF PlannerAnswers
<1>9. ASSUME NEW s \in Sends, PlannerFails(s) PROVE ExecDoc'  BY <1>9 DEF PlannerFails
<1>10. ASSUME NEW s \in Sends, ToolAllowed(s) PROVE ExecDoc'  BY <1>10 DEF ToolAllowed
<1>11. ASSUME NEW s \in Sends, Act(s) PROVE ExecDoc'  BY <1>11 DEF Act
<1>12. ASSUME NEW s \in Sends, CloseCheck(s) PROVE ExecDoc'  BY <1>12 DEF CloseCheck
<1>13. ASSUME NEW s \in Sends, Close(s) PROVE ExecDoc'  BY <1>13 DEF Close, Outcome
<1>14. ASSUME NEW s \in Sends, UpdateGet(s) PROVE ExecDoc'  BY <1>14 DEF UpdateGet
<1>15. ASSUME NEW s \in Sends, UpdateIndex(s) PROVE ExecDoc'  BY <1>15 DEF UpdateIndex
<1>16. ASSUME NEW s \in Sends, Touch(s) PROVE ExecDoc'  BY <1>16 DEF Touch
<1>17. ASSUME NEW s \in Sends, Announce(s) PROVE ExecDoc'  BY <1>17 DEF Announce
<1>18. ASSUME NEW s \in Sends, FailGet(s) PROVE ExecDoc'  BY <1>18 DEF FailGet
<1>19. ASSUME NEW s \in Sends, FailIndex(s) PROVE ExecDoc'  BY <1>19 DEF FailIndex
<1>20. ASSUME NEW s \in Sends, RunnerFault(s) PROVE ExecDoc'  BY <1>20 DEF RunnerFault
<1>21. ASSUME NEW s \in Sends, Expire(s) PROVE ExecDoc'  BY <1>21 DEF Expire
<1>22. ASSUME NEW c \in Cancels, CancelCheck(c) PROVE ExecDoc'  BY <1>22 DEF CancelCheck, IsActive
<1>23. ASSUME NEW c \in Cancels, CancelGet(c) PROVE ExecDoc'  BY <1>23 DEF CancelGet
<1>24. ASSUME NEW c \in Cancels, CancelIndex(c) PROVE ExecDoc'  BY <1>24 DEF CancelIndex
<1>25. ASSUME NEW c \in Cancels, CancelAnnounce(c) PROVE ExecDoc'  BY <1>25 DEF CancelAnnounce
<1>26. ASSUME NEW a \in Approvals, ApprovalGet(a) PROVE ExecDoc'
  BY <1>26 DEF ApprovalGet, Approvable
<1>27. ASSUME NEW a \in Approvals, Refuse(a) PROVE ExecDoc'  BY <1>27 DEF Refuse
<1>28. ASSUME NEW a \in Approvals, RefusalAnnounced(a) PROVE ExecDoc'  BY <1>28 DEF RefusalAnnounced
<1>29. ASSUME NEW a \in Approvals, ApproverReads(a) PROVE ExecDoc'
  <2>1. PICK to \in {"grant_index", "mark_index"} : approver' = [approver EXCEPT ![a] = to]
    BY <1>29 DEF ApproverReads
  <2>2. to = "mark_index" => approver[a] = "mark_get"
    BY <1>29, <2>1 DEF ApproverReads
  <2>3. copy' = [copy EXCEPT ![a] = run[target[a]]] /\ UNCHANGED <<run, target>>
    BY <1>29 DEF ApproverReads
  <2> QED BY <2>1, <2>2, <2>3 DEF Threads
<1>30. ASSUME NEW a \in Approvals, Grant(a) PROVE ExecDoc'  BY <1>30 DEF Grant
<1>31. ASSUME NEW a \in Approvals, Schedule(a) PROVE ExecDoc'  BY <1>31 DEF Schedule
<1>32. ASSUME NEW a \in Approvals, ExecCheck(a) PROVE ExecDoc'  BY <1>32 DEF ExecCheck, MayExecute
<1>33. ASSUME NEW a \in Approvals, MarkExecuting(a) PROVE ExecDoc'  BY <1>33 DEF MarkExecuting
<1>34. ASSUME NEW a \in Approvals, Skill(a) PROVE ExecDoc'  BY <1>34 DEF Skill
<1>35. ASSUME NEW a \in Approvals, ExecClose(a) PROVE ExecDoc'  BY <1>35 DEF ExecClose
<1>36. ASSUME NEW a \in Approvals, ExecAnnounce(a) PROVE ExecDoc'  BY <1>36 DEF ExecAnnounce
<1>37. ASSUME NEW a \in Approvals, ExecTouch(a) PROVE ExecDoc'  BY <1>37 DEF ExecTouch
<1>38. ASSUME NEW a \in Approvals, ExecFailIndex(a) PROVE ExecDoc'  BY <1>38 DEF ExecFailIndex
<1>39. ASSUME NEW a \in Approvals, ExecFailUpdate(a) PROVE ExecDoc'  BY <1>39 DEF ExecFailUpdate
<1>40. ASSUME NEW a \in Approvals, ExecFault(a) PROVE ExecDoc'  BY <1>40 DEF ExecFault
<1>41. ASSUME NEW a \in Approvals, ApprovalFault(a) PROVE ExecDoc'  BY <1>41 DEF ApprovalFault
<1> QED
  BY <1>1, <1>2, <1>3, <1>4, <1>5, <1>6, <1>7, <1>8, <1>9, <1>10, <1>11, <1>12, <1>13, <1>14,
    <1>15, <1>16, <1>17, <1>18, <1>19, <1>20, <1>21, <1>22, <1>23, <1>24, <1>25, <1>26,
    <1>27, <1>28, <1>29, <1>30, <1>31, <1>32, <1>33, <1>34, <1>35, <1>36, <1>37, <1>38,
    <1>39, <1>40, <1>41
  DEF Next, SenderStep, RunnerStep, LoopStep, CloseStep, Requests, ApproverStep, CancelStep

\* ... and one task executes it.
LEMMA OneExecKept ==
  ASSUME MemoryFails = FALSE, RunInv, PatientInv, Next, Patient
  PROVE  OneExec'
<1> USE CopilotRunAssumption, NoRunAssumption
    DEF Keep, KeepLoop, KeepCancel, KeepApproval, RunnerMoves, CancelMoves, ApproverMoves, Stop,
    Publish, Read, Store, Overwrite, PatientInv, OneWaits, ApproverWaits, DocInv, LoopDoc,
    TimeoutDoc, AnswerDoc, ExecDoc, OneExec, Is, Undisturbed, Patient, RunTypeOK, IsRun,
    Cancelled, ShapeInv, LoopPcs, LoopInv, ExecPcs
<1> RunTypeOK /\ HoldInv /\ ShapeInv /\ LoopInv BY DEF RunInv, TypeInv
<1>1. ASSUME NEW s \in Sends, SendCheck(s) PROVE OneExec'  BY <1>1 DEF SendCheck, IsActive
<1>2. ASSUME NEW s \in Sends, SendCreate(s) PROVE OneExec'  BY <1>2 DEF SendCreate
<1>3. ASSUME NEW s \in Sends, SendSchedule(s) PROVE OneExec'  BY <1>3 DEF SendSchedule
<1>4. ASSUME NEW s \in Sends, SendFault(s) PROVE OneExec'  BY <1>4 DEF SendFault
<1>5. ASSUME NEW s \in Sends, NEW from \in {"top", "toolcheck"}, StopsAt(s, from) PROVE OneExec'
  BY <1>5 DEF StopsAt
<1>6. ASSUME NEW s \in Sends, RoundBegins(s) PROVE OneExec'  BY <1>6 DEF RoundBegins
<1>7. ASSUME NEW s \in Sends, RoundsExhausted(s) PROVE OneExec'  BY <1>7 DEF RoundsExhausted
<1>8. ASSUME NEW s \in Sends, PlannerAnswers(s) PROVE OneExec'  BY <1>8 DEF PlannerAnswers
<1>9. ASSUME NEW s \in Sends, PlannerFails(s) PROVE OneExec'  BY <1>9 DEF PlannerFails
<1>10. ASSUME NEW s \in Sends, ToolAllowed(s) PROVE OneExec'  BY <1>10 DEF ToolAllowed
<1>11. ASSUME NEW s \in Sends, Act(s) PROVE OneExec'  BY <1>11 DEF Act
<1>12. ASSUME NEW s \in Sends, CloseCheck(s) PROVE OneExec'  BY <1>12 DEF CloseCheck
<1>13. ASSUME NEW s \in Sends, Close(s) PROVE OneExec'  BY <1>13 DEF Close, Outcome
<1>14. ASSUME NEW s \in Sends, UpdateGet(s) PROVE OneExec'  BY <1>14 DEF UpdateGet
<1>15. ASSUME NEW s \in Sends, UpdateIndex(s) PROVE OneExec'  BY <1>15 DEF UpdateIndex
<1>16. ASSUME NEW s \in Sends, Touch(s) PROVE OneExec'  BY <1>16 DEF Touch
<1>17. ASSUME NEW s \in Sends, Announce(s) PROVE OneExec'  BY <1>17 DEF Announce
<1>18. ASSUME NEW s \in Sends, FailGet(s) PROVE OneExec'  BY <1>18 DEF FailGet
<1>19. ASSUME NEW s \in Sends, FailIndex(s) PROVE OneExec'  BY <1>19 DEF FailIndex
<1>20. ASSUME NEW s \in Sends, RunnerFault(s) PROVE OneExec'  BY <1>20 DEF RunnerFault
<1>21. ASSUME NEW s \in Sends, Expire(s) PROVE OneExec'  BY <1>21 DEF Expire
<1>22. ASSUME NEW c \in Cancels, CancelCheck(c) PROVE OneExec'  BY <1>22 DEF CancelCheck, IsActive
<1>23. ASSUME NEW c \in Cancels, CancelGet(c) PROVE OneExec'  BY <1>23 DEF CancelGet
<1>24. ASSUME NEW c \in Cancels, CancelIndex(c) PROVE OneExec'  BY <1>24 DEF CancelIndex
<1>25. ASSUME NEW c \in Cancels, CancelAnnounce(c) PROVE OneExec'  BY <1>25 DEF CancelAnnounce
<1>26. ASSUME NEW a \in Approvals, ApprovalGet(a) PROVE OneExec'
  BY <1>26 DEF ApprovalGet, Approvable
<1>27. ASSUME NEW a \in Approvals, Refuse(a) PROVE OneExec'  BY <1>27 DEF Refuse
<1>28. ASSUME NEW a \in Approvals, RefusalAnnounced(a) PROVE OneExec'  BY <1>28 DEF RefusalAnnounced
<1>29. ASSUME NEW a \in Approvals, ApproverReads(a) PROVE OneExec'  BY <1>29 DEF ApproverReads
<1>30. ASSUME NEW a \in Approvals, Grant(a) PROVE OneExec'  BY <1>30 DEF Grant
<1>31. ASSUME NEW a \in Approvals, Schedule(a) PROVE OneExec'  BY <1>31 DEF Schedule
<1>32. ASSUME NEW a \in Approvals, ExecCheck(a) PROVE OneExec'  BY <1>32 DEF ExecCheck, MayExecute
<1>33. ASSUME NEW a \in Approvals, MarkExecuting(a) PROVE OneExec'  BY <1>33 DEF MarkExecuting
<1>34. ASSUME NEW a \in Approvals, Skill(a) PROVE OneExec'  BY <1>34 DEF Skill
<1>35. ASSUME NEW a \in Approvals, ExecClose(a) PROVE OneExec'  BY <1>35 DEF ExecClose
<1>36. ASSUME NEW a \in Approvals, ExecAnnounce(a) PROVE OneExec'  BY <1>36 DEF ExecAnnounce
<1>37. ASSUME NEW a \in Approvals, ExecTouch(a) PROVE OneExec'  BY <1>37 DEF ExecTouch
<1>38. ASSUME NEW a \in Approvals, ExecFailIndex(a) PROVE OneExec'  BY <1>38 DEF ExecFailIndex
<1>39. ASSUME NEW a \in Approvals, ExecFailUpdate(a) PROVE OneExec'  BY <1>39 DEF ExecFailUpdate
<1>40. ASSUME NEW a \in Approvals, ExecFault(a) PROVE OneExec'  BY <1>40 DEF ExecFault
<1>41. ASSUME NEW a \in Approvals, ApprovalFault(a) PROVE OneExec'  BY <1>41 DEF ApprovalFault
<1> QED
  BY <1>1, <1>2, <1>3, <1>4, <1>5, <1>6, <1>7, <1>8, <1>9, <1>10, <1>11, <1>12, <1>13, <1>14,
    <1>15, <1>16, <1>17, <1>18, <1>19, <1>20, <1>21, <1>22, <1>23, <1>24, <1>25, <1>26,
    <1>27, <1>28, <1>29, <1>30, <1>31, <1>32, <1>33, <1>34, <1>35, <1>36, <1>37, <1>38,
    <1>39, <1>40, <1>41
  DEF Next, SenderStep, RunnerStep, LoopStep, CloseStep, Requests, ApproverStep, CancelStep

\* A skill has run at most once, for an approved run.
LEMMA OnceKept ==
  ASSUME MemoryFails = FALSE, RunInv, PatientInv, Next, Patient
  PROVE  OnceInv'
<1> USE CopilotRunAssumption, NoRunAssumption
    DEF Keep, KeepLoop, KeepCancel, KeepApproval, RunnerMoves, CancelMoves, ApproverMoves, Stop,
    Publish, Read, Store, Overwrite, PatientInv, OnceInv, DocInv, LoopDoc, TimeoutDoc,
    AnswerDoc, ExecDoc, OneExec, Is, Undisturbed, Patient, RunTypeOK, IsRun, Cancelled,
    ShapeInv, LoopPcs, LoopInv, ExecPcs
<1> RunTypeOK /\ HoldInv /\ ShapeInv /\ LoopInv BY DEF RunInv, TypeInv
<1>1. ASSUME NEW s \in Sends, SendCheck(s) PROVE OnceInv'  BY <1>1 DEF SendCheck, IsActive
<1>2. ASSUME NEW s \in Sends, SendCreate(s) PROVE OnceInv'  BY <1>2 DEF SendCreate
<1>3. ASSUME NEW s \in Sends, SendSchedule(s) PROVE OnceInv'  BY <1>3 DEF SendSchedule
<1>4. ASSUME NEW s \in Sends, SendFault(s) PROVE OnceInv'  BY <1>4 DEF SendFault
<1>5. ASSUME NEW s \in Sends, NEW from \in {"top", "toolcheck"}, StopsAt(s, from) PROVE OnceInv'
  BY <1>5 DEF StopsAt
<1>6. ASSUME NEW s \in Sends, RoundBegins(s) PROVE OnceInv'  BY <1>6 DEF RoundBegins
<1>7. ASSUME NEW s \in Sends, RoundsExhausted(s) PROVE OnceInv'  BY <1>7 DEF RoundsExhausted
<1>8. ASSUME NEW s \in Sends, PlannerAnswers(s) PROVE OnceInv'  BY <1>8 DEF PlannerAnswers
<1>9. ASSUME NEW s \in Sends, PlannerFails(s) PROVE OnceInv'  BY <1>9 DEF PlannerFails
<1>10. ASSUME NEW s \in Sends, ToolAllowed(s) PROVE OnceInv'  BY <1>10 DEF ToolAllowed
<1>11. ASSUME NEW s \in Sends, Act(s) PROVE OnceInv'  BY <1>11 DEF Act
<1>12. ASSUME NEW s \in Sends, CloseCheck(s) PROVE OnceInv'  BY <1>12 DEF CloseCheck
<1>13. ASSUME NEW s \in Sends, Close(s) PROVE OnceInv'  BY <1>13 DEF Close, Outcome
<1>14. ASSUME NEW s \in Sends, UpdateGet(s) PROVE OnceInv'  BY <1>14 DEF UpdateGet
<1>15. ASSUME NEW s \in Sends, UpdateIndex(s) PROVE OnceInv'  BY <1>15 DEF UpdateIndex
<1>16. ASSUME NEW s \in Sends, Touch(s) PROVE OnceInv'  BY <1>16 DEF Touch
<1>17. ASSUME NEW s \in Sends, Announce(s) PROVE OnceInv'  BY <1>17 DEF Announce
<1>18. ASSUME NEW s \in Sends, FailGet(s) PROVE OnceInv'  BY <1>18 DEF FailGet
<1>19. ASSUME NEW s \in Sends, FailIndex(s) PROVE OnceInv'  BY <1>19 DEF FailIndex
<1>20. ASSUME NEW s \in Sends, RunnerFault(s) PROVE OnceInv'  BY <1>20 DEF RunnerFault
<1>21. ASSUME NEW s \in Sends, Expire(s) PROVE OnceInv'  BY <1>21 DEF Expire
<1>22. ASSUME NEW c \in Cancels, CancelCheck(c) PROVE OnceInv'  BY <1>22 DEF CancelCheck, IsActive
<1>23. ASSUME NEW c \in Cancels, CancelGet(c) PROVE OnceInv'  BY <1>23 DEF CancelGet
<1>24. ASSUME NEW c \in Cancels, CancelIndex(c) PROVE OnceInv'  BY <1>24 DEF CancelIndex
<1>25. ASSUME NEW c \in Cancels, CancelAnnounce(c) PROVE OnceInv'  BY <1>25 DEF CancelAnnounce
<1>26. ASSUME NEW a \in Approvals, ApprovalGet(a) PROVE OnceInv'
  BY <1>26 DEF ApprovalGet, Approvable
<1>27. ASSUME NEW a \in Approvals, Refuse(a) PROVE OnceInv'  BY <1>27 DEF Refuse
<1>28. ASSUME NEW a \in Approvals, RefusalAnnounced(a) PROVE OnceInv'  BY <1>28 DEF RefusalAnnounced
<1>29. ASSUME NEW a \in Approvals, ApproverReads(a) PROVE OnceInv'  BY <1>29 DEF ApproverReads
<1>30. ASSUME NEW a \in Approvals, Grant(a) PROVE OnceInv'  BY <1>30 DEF Grant
<1>31. ASSUME NEW a \in Approvals, Schedule(a) PROVE OnceInv'  BY <1>31 DEF Schedule
<1>32. ASSUME NEW a \in Approvals, ExecCheck(a) PROVE OnceInv'  BY <1>32 DEF ExecCheck, MayExecute
<1>33. ASSUME NEW a \in Approvals, MarkExecuting(a) PROVE OnceInv'  BY <1>33 DEF MarkExecuting
<1>34. ASSUME NEW a \in Approvals, Skill(a) PROVE OnceInv'  BY <1>34 DEF Skill
<1>35. ASSUME NEW a \in Approvals, ExecClose(a) PROVE OnceInv'
  <2>1. PICK p \in {"executed", "failed"} :
          run' = [run EXCEPT ![target[a]] = [status |-> "completed", pending |-> p]]
    BY <1>35 DEF ExecClose
  <2>2. approver[a] = "close" /\ approver' = [approver EXCEPT ![a] = "announce"]
    BY <1>35 DEF ExecClose
  <2>3. UNCHANGED <<target, executed>>
    BY <1>35 DEF ExecClose
  <2>4. \A r \in Sends : executed'[r] = 1 =>
           run'[r] # NoRun /\ run'[r].pending \in {"approved", "executed", "failed"}
    <3>1. [status |-> "completed", pending |-> p] \in Run
      BY <2>1 DEF Run, Status, Settled, Pending
    <3> QED BY <2>1, <2>3, <3>1
  <2> QED BY <2>2, <2>3, <2>4
<1>36. ASSUME NEW a \in Approvals, ExecAnnounce(a) PROVE OnceInv'  BY <1>36 DEF ExecAnnounce
<1>37. ASSUME NEW a \in Approvals, ExecTouch(a) PROVE OnceInv'  BY <1>37 DEF ExecTouch
<1>38. ASSUME NEW a \in Approvals, ExecFailIndex(a) PROVE OnceInv'  BY <1>38 DEF ExecFailIndex
<1>39. ASSUME NEW a \in Approvals, ExecFailUpdate(a) PROVE OnceInv'  BY <1>39 DEF ExecFailUpdate
<1>40. ASSUME NEW a \in Approvals, ExecFault(a) PROVE OnceInv'  BY <1>40 DEF ExecFault
<1>41. ASSUME NEW a \in Approvals, ApprovalFault(a) PROVE OnceInv'  BY <1>41 DEF ApprovalFault
<1> QED
  BY <1>1, <1>2, <1>3, <1>4, <1>5, <1>6, <1>7, <1>8, <1>9, <1>10, <1>11, <1>12, <1>13, <1>14,
    <1>15, <1>16, <1>17, <1>18, <1>19, <1>20, <1>21, <1>22, <1>23, <1>24, <1>25, <1>26,
    <1>27, <1>28, <1>29, <1>30, <1>31, <1>32, <1>33, <1>34, <1>35, <1>36, <1>37, <1>38,
    <1>39, <1>40, <1>41
  DEF Next, SenderStep, RunnerStep, LoopStep, CloseStep, Requests, ApproverStep, CancelStep

\* Every step of a patient user is a step of the session, or changes no document.
LEMMA SessionStep ==
  ASSUME MemoryFails = FALSE, RunInv, PatientInv, Next, Patient
  PROVE  Session!Next \/ UNCHANGED run
<1> USE CopilotRunAssumption, NoRunAssumption
    DEF Keep, KeepLoop, KeepCancel, KeepApproval, RunnerMoves, CancelMoves, ApproverMoves, Stop,
    Publish, Read, Store, Overwrite, PatientInv, DocInv, LoopDoc, TimeoutDoc, AnswerDoc,
    ExecDoc, OneExec, OneActive, Is, IsActive, Active, Undisturbed, Patient, RunTypeOK,
    IsRun, Cancelled, ShapeInv, LoopPcs, ExecPcs, Session!Next, Session!Admit,
    Session!Answer, Session!Ask, Session!Approve, Session!Refuse, Session!UseSkill,
    Session!Is, Session!Become, Session!Busy
<1> RunTypeOK /\ HoldInv /\ ShapeInv /\ LoopInv BY DEF RunInv, TypeInv
<1>1. ASSUME NEW s \in Sends, SendCheck(s) PROVE Session!Next \/ UNCHANGED run
  BY <1>1 DEF SendCheck
<1>2. ASSUME NEW s \in Sends, SendCreate(s) PROVE Session!Next \/ UNCHANGED run
  BY <1>2 DEF SendCreate
<1>3. ASSUME NEW s \in Sends, SendSchedule(s) PROVE Session!Next \/ UNCHANGED run
  BY <1>3 DEF SendSchedule
<1>4. ASSUME NEW s \in Sends, SendFault(s) PROVE Session!Next \/ UNCHANGED run
  BY <1>4 DEF SendFault
<1>5. ASSUME NEW s \in Sends, NEW from \in {"top", "toolcheck"}, StopsAt(s, from) PROVE Session!Next \/ UNCHANGED run
  BY <1>5 DEF StopsAt
<1>6. ASSUME NEW s \in Sends, RoundBegins(s) PROVE Session!Next \/ UNCHANGED run
  BY <1>6 DEF RoundBegins
<1>7. ASSUME NEW s \in Sends, RoundsExhausted(s) PROVE Session!Next \/ UNCHANGED run
  BY <1>7 DEF RoundsExhausted
<1>8. ASSUME NEW s \in Sends, PlannerAnswers(s) PROVE Session!Next \/ UNCHANGED run
  BY <1>8 DEF PlannerAnswers
<1>9. ASSUME NEW s \in Sends, PlannerFails(s) PROVE Session!Next \/ UNCHANGED run
  BY <1>9 DEF PlannerFails
<1>10. ASSUME NEW s \in Sends, ToolAllowed(s) PROVE Session!Next \/ UNCHANGED run
  BY <1>10 DEF ToolAllowed
<1>11. ASSUME NEW s \in Sends, Act(s) PROVE Session!Next \/ UNCHANGED run  BY <1>11 DEF Act
<1>12. ASSUME NEW s \in Sends, CloseCheck(s) PROVE Session!Next \/ UNCHANGED run
  BY <1>12 DEF CloseCheck
<1>13. ASSUME NEW s \in Sends, Close(s) PROVE Session!Next \/ UNCHANGED run
  BY <1>13 DEF Close, Outcome
<1>14. ASSUME NEW s \in Sends, UpdateGet(s) PROVE Session!Next \/ UNCHANGED run
  BY <1>14 DEF UpdateGet
<1>15. ASSUME NEW s \in Sends, UpdateIndex(s) PROVE Session!Next \/ UNCHANGED run
  BY <1>15 DEF UpdateIndex
<1>16. ASSUME NEW s \in Sends, Touch(s) PROVE Session!Next \/ UNCHANGED run  BY <1>16 DEF Touch
<1>17. ASSUME NEW s \in Sends, Announce(s) PROVE Session!Next \/ UNCHANGED run
  BY <1>17 DEF Announce
<1>18. ASSUME NEW s \in Sends, FailGet(s) PROVE Session!Next \/ UNCHANGED run  BY <1>18 DEF FailGet
<1>19. ASSUME NEW s \in Sends, FailIndex(s) PROVE Session!Next \/ UNCHANGED run
  BY <1>19 DEF FailIndex
<1>20. ASSUME NEW s \in Sends, RunnerFault(s) PROVE Session!Next \/ UNCHANGED run
  BY <1>20 DEF RunnerFault
<1>21. ASSUME NEW s \in Sends, Expire(s) PROVE Session!Next \/ UNCHANGED run  BY <1>21 DEF Expire
<1>22. ASSUME NEW c \in Cancels, CancelCheck(c) PROVE Session!Next \/ UNCHANGED run
  BY <1>22 DEF CancelCheck
<1>23. ASSUME NEW c \in Cancels, CancelGet(c) PROVE Session!Next \/ UNCHANGED run
  BY <1>23 DEF CancelGet
<1>24. ASSUME NEW c \in Cancels, CancelIndex(c) PROVE Session!Next \/ UNCHANGED run
  BY <1>24 DEF CancelIndex
<1>25. ASSUME NEW c \in Cancels, CancelAnnounce(c) PROVE Session!Next \/ UNCHANGED run
  BY <1>25 DEF CancelAnnounce
<1>26. ASSUME NEW a \in Approvals, ApprovalGet(a) PROVE Session!Next \/ UNCHANGED run
  BY <1>26 DEF ApprovalGet, Approvable
<1>27. ASSUME NEW a \in Approvals, Refuse(a) PROVE Session!Next \/ UNCHANGED run
  BY <1>27 DEF Refuse
<1>28. ASSUME NEW a \in Approvals, RefusalAnnounced(a) PROVE Session!Next \/ UNCHANGED run
  BY <1>28 DEF RefusalAnnounced
<1>29. ASSUME NEW a \in Approvals, ApproverReads(a) PROVE Session!Next \/ UNCHANGED run
  BY <1>29 DEF ApproverReads
<1>30. ASSUME NEW a \in Approvals, Grant(a) PROVE Session!Next \/ UNCHANGED run  BY <1>30 DEF Grant
<1>31. ASSUME NEW a \in Approvals, Schedule(a) PROVE Session!Next \/ UNCHANGED run
  BY <1>31 DEF Schedule
<1>32. ASSUME NEW a \in Approvals, ExecCheck(a) PROVE Session!Next \/ UNCHANGED run
  BY <1>32 DEF ExecCheck, MayExecute
<1>33. ASSUME NEW a \in Approvals, MarkExecuting(a) PROVE Session!Next \/ UNCHANGED run
  BY <1>33 DEF MarkExecuting
<1>34. ASSUME NEW a \in Approvals, Skill(a) PROVE Session!Next \/ UNCHANGED run  BY <1>34 DEF Skill
<1>35. ASSUME NEW a \in Approvals, ExecClose(a) PROVE Session!Next \/ UNCHANGED run
  BY <1>35 DEF ExecClose
<1>36. ASSUME NEW a \in Approvals, ExecAnnounce(a) PROVE Session!Next \/ UNCHANGED run
  BY <1>36 DEF ExecAnnounce
<1>37. ASSUME NEW a \in Approvals, ExecTouch(a) PROVE Session!Next \/ UNCHANGED run
  BY <1>37 DEF ExecTouch
<1>38. ASSUME NEW a \in Approvals, ExecFailIndex(a) PROVE Session!Next \/ UNCHANGED run
  BY <1>38 DEF ExecFailIndex
<1>39. ASSUME NEW a \in Approvals, ExecFailUpdate(a) PROVE Session!Next \/ UNCHANGED run
  BY <1>39 DEF ExecFailUpdate
<1>40. ASSUME NEW a \in Approvals, ExecFault(a) PROVE Session!Next \/ UNCHANGED run
  BY <1>40 DEF ExecFault
<1>41. ASSUME NEW a \in Approvals, ApprovalFault(a) PROVE Session!Next \/ UNCHANGED run
  BY <1>41 DEF ApprovalFault
<1> QED
  BY <1>1, <1>2, <1>3, <1>4, <1>5, <1>6, <1>7, <1>8, <1>9, <1>10, <1>11, <1>12, <1>13, <1>14,
    <1>15, <1>16, <1>17, <1>18, <1>19, <1>20, <1>21, <1>22, <1>23, <1>24, <1>25, <1>26,
    <1>27, <1>28, <1>29, <1>30, <1>31, <1>32, <1>33, <1>34, <1>35, <1>36, <1>37, <1>38,
    <1>39, <1>40, <1>41
  DEF Next, SenderStep, RunnerStep, LoopStep, CloseStep, Requests, ApproverStep, CancelStep

\* The invariant of a patient user holds at first ...
LEMMA PatientInit == Init => PatientInv
BY CopilotRunAssumption, NoRunAssumption
DEF Init, PatientInv, OneWaits, SenderWaits, ApproverWaits, Undisturbed, OneActive, IsActive, DocInv,
    LoopDoc, TimeoutDoc, AnswerDoc, ExecDoc, OneExec, ExecPcs, OnceInv, IsRun

\* ... and is kept.
LEMMA PatientStep ==
  ASSUME MemoryFails = FALSE
  PROVE  RunInv /\ PatientInv /\ [Next /\ Patient]_runVars => PatientInv'
<1> SUFFICES ASSUME RunInv, PatientInv, [Next /\ Patient]_runVars PROVE PatientInv'
  OBVIOUS
<1>1. CASE Next /\ Patient
  <2>1. OneWaits'
    BY <1>1, OneWaitsKept DEF PatientInv
  <2>2. Undisturbed' /\ OneActive' /\ OnceInv'
    BY <1>1, UndisturbedKept, OneActiveKept, OnceKept
  <2>3. DocInv'
    BY <1>1, LoopDocKept, TimeoutDocKept, AnswerDocKept, ExecDocKept, OneExecKept DEF DocInv
  <2> QED BY <2>1, <2>2, <2>3 DEF PatientInv
<1>2. CASE UNCHANGED runVars
  <2> USE <1>2 DEF runVars, PatientInv
  <2>1. OneWaits' /\ Undisturbed' /\ OneActive'
    BY DEF OneWaits, SenderWaits, ApproverWaits, Undisturbed, OneActive, IsActive, IsRun
  <2>2. DocInv' /\ OnceInv'
    BY DEF DocInv, LoopDoc, TimeoutDoc, AnswerDoc, ExecDoc, OneExec, OnceInv, Is, IsRun
  <2> QED BY <2>1, <2>2
<1> QED BY <1>1, <1>2

\* For a patient user the answer decides: however many messages and answers there
\* are and whichever requests fail, a skill runs at most once for a run, and not
\* after a refusal or an expiry.
THEOREM PatientAnswerDecides ==
  ASSUME MemoryFails = FALSE
  PROVE  PatientSpec => []AnswerDecides
<1>1. RunInv /\ PatientInv => AnswerDecides
  BY DEF RunInv, TypeInv, RunTypeOK, PatientInv, OnceInv, AnswerDecides
<1>2. RunInv /\ [Next /\ Patient]_runVars => RunInv'
  BY RunInvStep
<1> QED BY <1>1, <1>2, RunInvInit, PatientInit, PatientStep, PTL DEF PatientSpec

\* For a patient user the documents, checks and background tasks of CopilotRun
\* implement CopilotSession: one run at a time, an approval answered once, an ended
\* run left as it is.
THEOREM PatientRunsImplementSession ==
  ASSUME MemoryFails = FALSE
  PROVE  PatientSpec => Session!Spec
<1>1. Init => Session!Init
  BY DEF Init, Session!Init
<1>2. RunInv /\ PatientInv /\ [Next /\ Patient]_runVars => [Session!Next]_run
  BY SessionStep DEF runVars
<1>3. RunInv /\ [Next /\ Patient]_runVars => RunInv'
  BY RunInvStep
<1> QED BY <1>1, <1>2, <1>3, RunInvInit, PatientInit, PatientStep, PTL DEF PatientSpec, Session!Spec
-----------------------------------------------------------------------------
(***************************************************************************)
(* Any user, any faults and cancels, but a single answer: what it comes to *)
(* is decided once, and every document and copy that says refused comes    *)
(* from a refusal.                                                         *)
(***************************************************************************)
AfterSkill == {"close", "announce", "touch", "fail_get", "fail_index", "failupd_get", "failupd_index", "done"}

Refused(a)  == decision[a] \in {"rejected", "expired"} /\ approver[a] \in {"refused", "done"}
SaysNo(d)   == d.pending \in {"rejected", "expired"}

SingleInv(a) ==
  /\ approver[a] \in {"refuse", "refused"} => decision[a] \in {"rejected", "expired"}
  /\ approver[a] \in ApproverPcs \ {"idle", "refuse", "refused", "done"} => decision[a] = "approved"
  /\ \A r \in Sends : executed[r] \in {0, 1}
  /\ \A r, q \in Sends : executed[r] = 1 /\ executed[q] = 1 => r = q
  /\ \A r \in Sends : executed[r] = 1 => decision[a] = "approved" /\ approver[a] \in AfterSkill
  /\ \A r \in Sends : IsRun(r) /\ SaysNo(run[r]) => Refused(a)
  /\ \A t \in Threads : Holding(t) /\ SaysNo(copy[t]) => Refused(a)

\* What a single answer came to stays so.
LEMMA SingleKept ==
  ASSUME NEW a0, Approvals = {a0}, TypeInv, SingleInv(a0), Next
  PROVE  SingleInv(a0)'
<1> USE CopilotRunAssumption, NoRunAssumption
    DEF Keep, KeepLoop, KeepCancel, KeepApproval, RunnerMoves, CancelMoves, ApproverMoves, Stop,
    Publish, Read, Store, Overwrite, SingleInv, AfterSkill, Refused, SaysNo, RunTypeOK,
    HoldInv, Holding, Threads, ShapeInv, IsRun, Run, ApproverPcs
<1> RunTypeOK /\ HoldInv /\ ShapeInv BY DEF TypeInv
<1>1. ASSUME NEW s \in Sends, SendCheck(s) PROVE SingleInv(a0)'  BY <1>1 DEF SendCheck, IsActive
<1>2. ASSUME NEW s \in Sends, SendCreate(s) PROVE SingleInv(a0)'  BY <1>2 DEF SendCreate
<1>3. ASSUME NEW s \in Sends, SendSchedule(s) PROVE SingleInv(a0)'  BY <1>3 DEF SendSchedule
<1>4. ASSUME NEW s \in Sends, SendFault(s) PROVE SingleInv(a0)'  BY <1>4 DEF SendFault
<1>5. ASSUME NEW s \in Sends, NEW from \in {"top", "toolcheck"}, StopsAt(s, from) PROVE SingleInv(a0)'
  BY <1>5 DEF StopsAt
<1>6. ASSUME NEW s \in Sends, RoundBegins(s) PROVE SingleInv(a0)'  BY <1>6 DEF RoundBegins
<1>7. ASSUME NEW s \in Sends, RoundsExhausted(s) PROVE SingleInv(a0)'  BY <1>7 DEF RoundsExhausted
<1>8. ASSUME NEW s \in Sends, PlannerAnswers(s) PROVE SingleInv(a0)'  BY <1>8 DEF PlannerAnswers
<1>9. ASSUME NEW s \in Sends, PlannerFails(s) PROVE SingleInv(a0)'  BY <1>9 DEF PlannerFails
<1>10. ASSUME NEW s \in Sends, ToolAllowed(s) PROVE SingleInv(a0)'  BY <1>10 DEF ToolAllowed
<1>11. ASSUME NEW s \in Sends, Act(s) PROVE SingleInv(a0)'  BY <1>11 DEF Act
<1>12. ASSUME NEW s \in Sends, CloseCheck(s) PROVE SingleInv(a0)'  BY <1>12 DEF CloseCheck
<1>13. ASSUME NEW s \in Sends, Close(s) PROVE SingleInv(a0)'  BY <1>13 DEF Close, Outcome
<1>14. ASSUME NEW s \in Sends, UpdateGet(s) PROVE SingleInv(a0)'  BY <1>14 DEF UpdateGet
<1>15. ASSUME NEW s \in Sends, UpdateIndex(s) PROVE SingleInv(a0)'  BY <1>15 DEF UpdateIndex
<1>16. ASSUME NEW s \in Sends, Touch(s) PROVE SingleInv(a0)'  BY <1>16 DEF Touch
<1>17. ASSUME NEW s \in Sends, Announce(s) PROVE SingleInv(a0)'  BY <1>17 DEF Announce
<1>18. ASSUME NEW s \in Sends, FailGet(s) PROVE SingleInv(a0)'  BY <1>18 DEF FailGet
<1>19. ASSUME NEW s \in Sends, FailIndex(s) PROVE SingleInv(a0)'  BY <1>19 DEF FailIndex
<1>20. ASSUME NEW s \in Sends, RunnerFault(s) PROVE SingleInv(a0)'  BY <1>20 DEF RunnerFault
<1>21. ASSUME NEW s \in Sends, Expire(s) PROVE SingleInv(a0)'  BY <1>21 DEF Expire
<1>22. ASSUME NEW c \in Cancels, CancelCheck(c) PROVE SingleInv(a0)'
  BY <1>22 DEF CancelCheck, IsActive
<1>23. ASSUME NEW c \in Cancels, CancelGet(c) PROVE SingleInv(a0)'  BY <1>23 DEF CancelGet
<1>24. ASSUME NEW c \in Cancels, CancelIndex(c) PROVE SingleInv(a0)'  BY <1>24 DEF CancelIndex
<1>25. ASSUME NEW c \in Cancels, CancelAnnounce(c) PROVE SingleInv(a0)'  BY <1>25 DEF CancelAnnounce
<1>26. ASSUME NEW a \in Approvals, ApprovalGet(a) PROVE SingleInv(a0)'
  <2>1. a = a0 /\ approver[a0] = "idle" /\ UNCHANGED <<run, copy, executed, runner, canceller>>
    BY <1>26 DEF ApprovalGet
  <2>2. \/ approver' = [approver EXCEPT ![a0] = "done"]
        \/ /\ decision'[a0] = "approved"
           /\ approver' = [approver EXCEPT ![a0] = "grant_get"]
        \/ /\ decision'[a0] \in {"expired", "rejected"}
           /\ approver' = [approver EXCEPT ![a0] = "refuse"]
    BY <1>26, <2>1 DEF ApprovalGet
  <2>3. \A r \in Sends : executed[r] = 0 /\ (IsRun(r) => ~SaysNo(run[r]))
    BY <2>1
  <2>4. \A t \in Threads : Holding(t) => ~SaysNo(copy[t])
    BY <2>1
  <2>5. \A t \in Threads : Holding(t)' => Holding(t)
    BY <2>1, <2>2
  <2> HIDE DEF Holding, SaysNo
  <2> QED BY <2>1, <2>2, <2>3, <2>4, <2>5 DEF SaysNo
<1>27. ASSUME NEW a \in Approvals, Refuse(a) PROVE SingleInv(a0)'  BY <1>27 DEF Refuse
<1>28. ASSUME NEW a \in Approvals, RefusalAnnounced(a) PROVE SingleInv(a0)'
  BY <1>28 DEF RefusalAnnounced
<1>29. ASSUME NEW a \in Approvals, ApproverReads(a) PROVE SingleInv(a0)'  BY <1>29 DEF ApproverReads
<1>30. ASSUME NEW a \in Approvals, Grant(a) PROVE SingleInv(a0)'  BY <1>30 DEF Grant
<1>31. ASSUME NEW a \in Approvals, Schedule(a) PROVE SingleInv(a0)'  BY <1>31 DEF Schedule
<1>32. ASSUME NEW a \in Approvals, ExecCheck(a) PROVE SingleInv(a0)'
  BY <1>32 DEF ExecCheck, MayExecute
<1>33. ASSUME NEW a \in Approvals, MarkExecuting(a) PROVE SingleInv(a0)'  BY <1>33 DEF MarkExecuting
<1>34. ASSUME NEW a \in Approvals, Skill(a) PROVE SingleInv(a0)'  BY <1>34 DEF Skill
<1>35. ASSUME NEW a \in Approvals, ExecClose(a) PROVE SingleInv(a0)'  BY <1>35 DEF ExecClose
<1>36. ASSUME NEW a \in Approvals, ExecAnnounce(a) PROVE SingleInv(a0)'  BY <1>36 DEF ExecAnnounce
<1>37. ASSUME NEW a \in Approvals, ExecTouch(a) PROVE SingleInv(a0)'  BY <1>37 DEF ExecTouch
<1>38. ASSUME NEW a \in Approvals, ExecFailIndex(a) PROVE SingleInv(a0)'  BY <1>38 DEF ExecFailIndex
<1>39. ASSUME NEW a \in Approvals, ExecFailUpdate(a) PROVE SingleInv(a0)'
  BY <1>39 DEF ExecFailUpdate
<1>40. ASSUME NEW a \in Approvals, ExecFault(a) PROVE SingleInv(a0)'  BY <1>40 DEF ExecFault
<1>41. ASSUME NEW a \in Approvals, ApprovalFault(a) PROVE SingleInv(a0)'  BY <1>41 DEF ApprovalFault
<1> QED
  BY <1>1, <1>2, <1>3, <1>4, <1>5, <1>6, <1>7, <1>8, <1>9, <1>10, <1>11, <1>12, <1>13, <1>14,
    <1>15, <1>16, <1>17, <1>18, <1>19, <1>20, <1>21, <1>22, <1>23, <1>24, <1>25, <1>26,
    <1>27, <1>28, <1>29, <1>30, <1>31, <1>32, <1>33, <1>34, <1>35, <1>36, <1>37, <1>38,
    <1>39, <1>40, <1>41
  DEF Next, SenderStep, RunnerStep, LoopStep, CloseStep, Requests, ApproverStep, CancelStep

\* A single answer decides, whatever else the user does and whichever calls fail.
THEOREM SingleAnswerDecides ==
  ASSUME NEW a0, Approvals = {a0}
  PROVE  Spec => []AnswerDecides
<1>1. Init => SingleInv(a0)
  BY CopilotRunAssumption, NoRunAssumption
  DEF Init, SingleInv, AfterSkill, Refused, SaysNo, IsRun, Holding, Threads, ApproverPcs
<1>2. RunInv /\ SingleInv(a0) /\ [Next]_runVars => SingleInv(a0)'
  <2> SUFFICES ASSUME RunInv, SingleInv(a0), [Next]_runVars PROVE SingleInv(a0)'
    OBVIOUS
  <2>1. CASE Next
    BY <2>1, SingleKept DEF RunInv
  <2>2. CASE UNCHANGED runVars
    BY <2>2 DEF runVars, SingleInv, Refused, IsRun, Holding
  <2> QED BY <2>1, <2>2
<1>3. RunInv /\ SingleInv(a0) => AnswerDecides
  BY CopilotRunAssumption DEF RunInv, TypeInv, RunTypeOK, SingleInv, AnswerDecides, Refused, SaysNo, AfterSkill
<1> QED BY <1>1, <1>2, <1>3, RunInvInit, RunInvStep, PTL DEF Spec
-----------------------------------------------------------------------------
(***************************************************************************)
(* The event stream.                                                       *)
(***************************************************************************)
\* A publisher holds the lock of its process from taking a number to taking the subscribers.
LockInv ==
  \A p \in Publishers :
    /\ pc[p] # "idle" => lock[home[p]] = p /\ targets[p] = {}
    /\ pc[p] # "idle" \/ targets[p] # {} => sent[p] \in 1 .. Len(Script[p])

\* Stored is what was begun, once, and the current event only after it was stored.
StoredInv ==
  /\ \A i \in DOMAIN stored :
       /\ stored[i].nr <= sent[stored[i].by]
       /\ pc[stored[i].by] = "store" => stored[i].nr < sent[stored[i].by]
  /\ \A i, j \in DOMAIN stored : i # j => stored[i] # stored[j]

\* no event of a list is one of another
Apart(s, t) == \A i \in DOMAIN s, j \in DOMAIN t : s[i] # t[j]
NoTwice(s)  == \A i, j \in DOMAIN s : i # j => s[i] # s[j]

\* Events of s have been begun, when their publishers have begun n.
Begun(s, n) == \A i \in DOMAIN s : s[i].nr <= n[s[i].by]
UpTo(s, n)  == \A i \in DOMAIN s : s[i].seq <= n

\* What a client has seen or will be sent was begun, and its cursor is past what it has seen.
SeenInv ==
  \A c \in Clients :
    /\ Begun(received[c], sent) /\ Begun(queue[c], sent)
    /\ UpTo(received[c], lastSeq[c])
    /\ phase[c] \in {"closed", "list", "terminal"} => queue[c] = <<>>

\* The queues that publishers still know are of connections that were opened, and one
\* that is not registered yet is none of them.
TargetInv ==
  \A p \in Publishers : \A t \in targets[p] :
    /\ t[2] <= connects[t[1]]
    /\ phase[t[1]] \in {"list", "replay"} => t[2] # connects[t[1]]

OpenInv == \A c \in Clients : phase[c] # "closed" => connects[c] >= 1

\* p is about to put its event into the queue of c, or may be
Coming(p, c) ==
  /\ phase[c] = "live" /\ conn[c] = home[p]
  /\ pc[p] # "idle" \/ <<c, connects[c]>> \in targets[p]

Before(s, p, n) == \A i \in DOMAIN s : s[i].by = p => s[i].nr < n

SentOnceInv ==
  \A c \in Clients :
    /\ NoTwice(received[c]) /\ NoTwice(queue[c]) /\ Apart(received[c], queue[c])
    /\ \A p \in Publishers : Coming(p, c) => Before(received[c], p, sent[p]) /\ Before(queue[c], p, sent[p])

BusTypes ==
  /\ EventsTypeOK
  /\ sent \in [Publishers -> Nat]
  /\ queue \in [Clients -> Seq(Event)] /\ received \in [Clients -> Seq(Event)]
  /\ esFailures \in Nat

BusInv == BusTypes /\ LockInv /\ OpenInv /\ StoredInv /\ SeenInv /\ TargetInv /\ SentOnceInv
-----------------------------------------------------------------------------
\* A set of numbers that is not empty has a least one.
LEMMA LeastNumber == ASSUME NEW T, T \subseteq Nat, T # {} PROVE \E n \in T : \A m \in T : n <= m
<1> DEFINE Less == {p \in Nat \X Nat : p[1] < p[2]}
<1>1. IsWellFoundedOn(Less, Nat)
  BY NatLessThanWellFounded DEF OpToRel
<1> HIDE DEF Less
<1>2. PICK n \in T : \A m \in T : ~ (<<m, n>> \in Less)
  BY <1>1, WFMin
<1>3. ASSUME NEW m \in T PROVE n <= m
  <2>1. n \in Nat /\ m \in Nat
    OBVIOUS
  <2>2. <<m, n>> \in Less <=> m < n
    BY <2>1 DEF Less
  <2>3. ~ (m < n)
    BY <1>2, <2>2
  <2> QED
    BY <2>1, <2>3
<1> QED
  BY <1>3

\* One that is bounded has a greatest.
LEMMA GreatestNumber ==
  ASSUME NEW T, T \subseteq Nat, NEW t \in T, NEW b \in Nat, \A m \in T : m <= b
  PROVE  Max(T) \in T /\ \A m \in T : m <= Max(T)
<1> DEFINE U == {u \in Nat : b - u \in T}
<1>1. U \subseteq Nat /\ b - t \in U
  <2>1. b - t \in Nat /\ b - (b - t) = t
    OBVIOUS
  <2> QED
    BY <2>1
<1> HIDE DEF U
<1>2. PICK u \in U : \A m \in U : u <= m
  BY <1>1, LeastNumber
<1>3. u \in Nat /\ b - u \in T
  BY <1>2 DEF U
<1>4. ASSUME NEW m \in T PROVE m <= b - u
  <2>1. b - m \in Nat /\ b - (b - m) = m
    OBVIOUS
  <2>2. b - m \in U
    BY <2>1 DEF U
  <2>3. u <= b - m
    BY <1>2, <2>2
  <2> QED
    BY <1>3, <2>1, <2>3
<1>5. Max(T) = CHOOSE x \in T : \A y \in T : x >= y
  BY DEF Max
<1>6. \E x \in T : \A y \in T : x >= y
  <2>1. \A y \in T : b - u >= y
    BY <1>3, <1>4
  <2> QED
    BY <1>3, <2>1
<1>7. Max(T) \in T /\ \A y \in T : Max(T) >= y
  BY <1>5, <1>6
<1> QED
  BY <1>7

\* The largest number of the stored events is that of one of them.
LEMMA MaxSeqBounds ==
  ASSUME NEW s \in Seq(Event)
  PROVE  MaxSeq(s) \in Nat /\ \A i \in DOMAIN s : s[i].seq <= MaxSeq(s)
<1> DEFINE Number(i) == s[i].seq
           Bounded(k) == \E b \in Nat : \A i \in 1 .. k : Number(i) <= b
           T == {k \in Nat : k <= Len(s) /\ ~Bounded(k)}
<1>1. Len(s) \in Nat /\ DOMAIN s = 1 .. Len(s)
  BY LenProperties
<1>2. ASSUME NEW i \in 1 .. Len(s) PROVE Number(i) \in Nat
  <2>1. s[i] \in Event
    BY <1>1, ElementOfSeq
  <2> QED
    BY <2>1 DEF Event, Number
<1> HIDE DEF Number
<1>3. T = {}
  <2> SUFFICES ASSUME T # {} PROVE FALSE
    OBVIOUS
  <2>1. T \subseteq Nat
    OBVIOUS
  <2> HIDE DEF T
  <2>2. PICK k \in T : \A m \in T : k <= m
    BY <2>1, LeastNumber
  <2>3. k \in Nat /\ k <= Len(s) /\ ~Bounded(k)
    BY <2>2 DEF T
  <2>4. k # 0
    <3>1. ASSUME k = 0 PROVE Bounded(k)
      <4>1. \A i \in 1 .. k : Number(i) <= 0
        BY <3>1
      <4> QED
        BY <4>1
    <3> QED
      BY <3>1, <2>3
  <2>5. k - 1 \in Nat /\ k - 1 <= Len(s) /\ k - 1 \notin T
    <3>1. k - 1 \in Nat /\ k - 1 <= Len(s) /\ ~ (k <= k - 1)
      BY <2>3, <2>4, <1>1
    <3>2. k - 1 \in T => k <= k - 1
      BY <2>2
    <3> QED
      BY <3>1, <3>2
  <2>6. PICK b \in Nat : \A i \in 1 .. (k - 1) : Number(i) <= b
    BY <2>5 DEF T
  <2>7. PICK d \in Nat : b <= d /\ Number(k) <= d
    <3>1. Number(k) \in Nat
      BY <1>1, <1>2, <2>3, <2>4
    <3>2. CASE Number(k) <= b
      BY <3>2
    <3>3. CASE b <= Number(k)
      <4>1. Number(k) <= Number(k)
        BY <3>1
      <4> QED
        BY <3>1, <3>3, <4>1
    <3> QED
      BY <3>1, <3>2, <3>3
  <2>8. ASSUME NEW i \in 1 .. k PROVE Number(i) <= d
    <3>1. CASE i = k
      BY <3>1, <2>7
    <3>2. CASE i # k
      <4>1. i \in 1 .. (k - 1)
        BY <3>2, <2>3
      <4>2. Number(i) <= b
        BY <4>1, <2>6
      <4>3. Number(i) \in Nat
        <5>1. i \in 1 .. Len(s)
          BY <1>1, <2>3
        <5> QED
          BY <5>1, <1>2
      <4> QED
        BY <4>2, <4>3, <2>7
    <3> QED
      BY <3>1, <3>2
  <2>9. Bounded(k)
    BY <2>8
  <2> QED
    BY <2>3, <2>9
<1>4. PICK b \in Nat : \A i \in 1 .. Len(s) : Number(i) <= b
  <2>1. Len(s) \notin T
    BY <1>3
  <2> QED
    BY <2>1, <1>1
<1>5. CASE s = <<>>
  <2>1. MaxSeq(s) = 0 /\ DOMAIN s = {}
    BY <1>5 DEF MaxSeq
  <2> QED
    BY <2>1
<1>6. CASE s # <<>>
  <2> DEFINE N == {Number(i) : i \in DOMAIN s}
  <2>1. 1 \in DOMAIN s
    BY <1>6, <1>1, EmptySeq
  <2>2. N \subseteq Nat /\ Number(1) \in N /\ \A m \in N : m <= b
    BY <2>1, <1>1, <1>2, <1>4
  <2>3. \A i \in DOMAIN s : Number(i) \in N
    OBVIOUS
  <2>4. MaxSeq(s) = Max(N)
    BY <1>6 DEF MaxSeq, Number
  <2> HIDE DEF N
  <2>5. Max(N) \in N /\ \A m \in N : m <= Max(N)
    BY <2>2, GreatestNumber
  <2>6. MaxSeq(s) \in Nat /\ \A i \in DOMAIN s : Number(i) <= MaxSeq(s)
    BY <2>2, <2>3, <2>4, <2>5
  <2> QED
    BY <2>6 DEF Number
<1> QED
  BY <1>5, <1>6

\* A listing has each stored event once, in the order of the numbers.
LEMMA ListingFacts ==
  ASSUME stored \in Seq(Event), NoTwice(stored), NEW listed \in Listings
  PROVE  /\ listed \in Seq(Event) /\ Len(listed) = Len(stored) /\ NoTwice(listed)
         /\ \A i \in DOMAIN listed : \E j \in DOMAIN stored : listed[i] = stored[j]
         /\ \A i, j \in DOMAIN listed : i < j => listed[i].seq <= listed[j].seq
<1>1. PICK place \in [DOMAIN stored -> DOMAIN stored] :
        /\ \A i, j \in DOMAIN stored :
             i < j => place[i] # place[j] /\ stored[place[i]].seq <= stored[place[j]].seq
        /\ listed = [i \in DOMAIN stored |-> stored[place[i]]]
  BY DEF Listings
<1>2. Len(stored) \in Nat /\ DOMAIN stored = 1 .. Len(stored)
  BY LenProperties
<1>3. \A i \in DOMAIN stored : stored[i] \in Event /\ place[i] \in DOMAIN stored /\ listed[i] = stored[place[i]]
  BY <1>1, <1>2, ElementOfSeq
<1>4. DOMAIN listed = 1 .. Len(stored)
  BY <1>1, <1>2
<1>5. listed \in Seq(Event) /\ Len(listed) = Len(stored)
  <2>1. listed \in [1 .. Len(stored) -> Event]
    BY <1>1, <1>2, <1>3
  <2> QED
    BY <2>1, <1>2, SeqDef, LenProperties
<1>6. ASSUME NEW i \in DOMAIN listed, NEW j \in DOMAIN listed, i # j PROVE listed[i] # listed[j]
  <2>1. i \in Nat /\ j \in Nat /\ i \in DOMAIN stored /\ j \in DOMAIN stored
    BY <1>2, <1>4
  <2>2. place[i] # place[j]
    BY <1>1, <1>6, <2>1
  <2> QED
    BY <2>1, <2>2, <1>3 DEF NoTwice
<1> QED
  BY <1>1, <1>2, <1>3, <1>4, <1>5, <1>6 DEF NoTwice

\* A replay is of stored events after the cursor, each once.
LEMMA ReplayFacts ==
  ASSUME stored \in Seq(Event), NoTwice(stored), NEW after \in Nat, NEW replay \in Replayed(after)
  PROVE  /\ replay \in Seq(Event) /\ NoTwice(replay)
         /\ \A i \in DOMAIN replay : \E j \in DOMAIN stored : replay[i] = stored[j]
         /\ \A i \in DOMAIN replay : replay[i].seq > after
<1>1. PICK listed \in Listings :
        replay = SubSeq(listed, Cardinality({i \in DOMAIN listed : listed[i].seq <= after}) + 1, Page(listed))
  BY DEF Replayed
<1> DEFINE early == {i \in DOMAIN listed : listed[i].seq <= after}
           c == Cardinality(early)
           n == Page(listed)
<1>2. /\ listed \in Seq(Event) /\ NoTwice(listed)
      /\ \A i \in DOMAIN listed : \E j \in DOMAIN stored : listed[i] = stored[j]
      /\ \A i, j \in DOMAIN listed : i < j => listed[i].seq <= listed[j].seq
  BY ListingFacts
<1>3. Len(listed) \in Nat /\ DOMAIN listed = 1 .. Len(listed)
  BY <1>2, LenProperties
<1>4. n \in Nat /\ n <= Len(listed)
  BY <1>3, CopilotEventsAssumption DEF Page
<1>5. \A i \in DOMAIN listed : listed[i] \in Event /\ listed[i].seq \in Nat
  <2>1. \A i \in DOMAIN listed : listed[i] \in Event
    BY <1>2, <1>3, ElementOfSeq
  <2> QED
    BY <2>1 DEF Event
<1>6. IsFiniteSet(early) /\ c \in Nat
  <2>1. IsFiniteSet(1 .. Len(listed))
    BY <1>3, FS_Interval
  <2>2. early \subseteq 1 .. Len(listed)
    BY <1>3
  <2>3. IsFiniteSet(early)
    BY <2>1, <2>2, FS_Subset
  <2> QED
    BY <2>3, FS_CardinalityType
<1>7. ASSUME NEW k \in DOMAIN listed, k > c PROVE listed[k].seq > after
  <2> SUFFICES ASSUME ~ (listed[k].seq > after) PROVE FALSE
    OBVIOUS
  <2>1. listed[k].seq <= after /\ k \in Nat
    BY <1>3, <1>5
  <2>2. 1 .. k \subseteq early
    <3> SUFFICES ASSUME NEW i \in 1 .. k PROVE i \in early
      OBVIOUS
    <3>1. i \in DOMAIN listed /\ i <= k
      BY <1>3, <2>1
    <3>2. listed[i].seq <= listed[k].seq
      <4>1. CASE i = k
        BY <4>1, <1>5
      <4>2. CASE i # k
        <5>1. i < k
          BY <3>1, <4>2, <2>1
        <5> QED
          BY <3>1, <5>1, <1>2
      <4> QED
        BY <4>1, <4>2
    <3>3. listed[i].seq <= after
      BY <3>1, <3>2, <2>1, <1>5
    <3> QED
      BY <3>1, <3>3
  <2>3. Cardinality(1 .. k) <= c
    BY <1>6, <2>2, FS_Subset
  <2>4. Cardinality(1 .. k) = k
    BY <2>1, <1>3, FS_Interval
  <2> QED
    BY <1>7, <1>6, <2>1, <2>3, <2>4
<1> HIDE DEF c, n, early
<1>8. replay = SubSeq(listed, c + 1, n)
  BY <1>1 DEF c, n, early
<1>9. \A i \in c + 1 .. n : listed[i] \in Event
  BY <1>3, <1>4, <1>5, <1>6
<1>10. /\ replay \in Seq(Event)
       /\ Len(replay) = IF c + 1 <= n THEN n - (c + 1) + 1 ELSE 0
       /\ \A i \in 1 .. n - (c + 1) + 1 : replay[i] = listed[(c + 1) + i - 1]
  BY <1>4, <1>6, <1>8, <1>9, SubSeqProperties
<1>11. DOMAIN replay = 1 .. Len(replay)
  BY <1>10, LenProperties
<1>12. ASSUME NEW i \in DOMAIN replay PROVE i \in Nat /\ c + i \in DOMAIN listed /\ c + i > c /\ replay[i] = listed[c + i]
  <2>1. i \in Nat /\ 1 <= i /\ i <= n - c /\ i \in 1 .. n - (c + 1) + 1
    BY <1>10, <1>11, <1>4, <1>6
  <2>2. (c + 1) + i - 1 = c + i
    BY <2>1, <1>6
  <2>3. replay[i] = listed[(c + 1) + i - 1]
    BY <2>1, <1>10
  <2>4. replay[i] = listed[c + i]
    BY <2>2, <2>3
  <2>5. c + i \in Nat /\ 1 <= c + i /\ c + i <= Len(listed) /\ c + i > c
    BY <2>1, <1>3, <1>4, <1>6
  <2>6. c + i \in DOMAIN listed
    BY <2>5, <1>3
  <2> QED
    BY <2>1, <2>4, <2>5, <2>6
<1>13. ASSUME NEW i \in DOMAIN replay, NEW j \in DOMAIN replay, i # j PROVE replay[i] # replay[j]
  <2>1. c + i # c + j
    BY <1>6, <1>12, <1>13
  <2> QED
    BY <2>1, <1>2, <1>12 DEF NoTwice
<1>14. ASSUME NEW i \in DOMAIN replay PROVE /\ replay[i].seq > after
                                           /\ \E j \in DOMAIN stored : replay[i] = stored[j]
  BY <1>2, <1>7, <1>12
<1> QED
  BY <1>10, <1>13, <1>14 DEF NoTwice

\* The event a publisher is at.
LEMMA CurrentIsEvent ==
  ASSUME BusTypes, LockInv, NEW p \in Publishers, pc[p] # "idle" \/ targets[p] # {}
  PROVE  Current(p) \in Event /\ Current(p).by = p /\ Current(p).nr = sent[p] /\ Current(p).seq = seq[p]
<1>1. sent[p] \in 1 .. Len(Script[p]) /\ Script[p] \in Seq(EventTypes)
  BY CopilotEventsAssumption DEF LockInv
<1>2. Script[p][sent[p]] \in EventTypes
  BY <1>1, ElementOfSeq
<1>3. sent[p] \in Nat /\ seq[p] \in Nat
  BY <1>1 DEF BusTypes, EventsTypeOK
<1> QED
  BY <1>2, <1>3 DEF Current, Event

\* A number taken is a number.
LEMMA TakesNumber ==
  ASSUME BusTypes, NEW p \in Publishers, TakeSeq(p) \/ TakeSeqFault(p)
  PROVE  /\ \E n \in Nat : TakeSeqAs(p, n)
         /\ esFailures' \in Nat /\ esFailures <= esFailures'
<1>1. home \in [Publishers -> Workers]
  BY CopilotEventsAssumption DEF BusTypes, EventsTypeOK
<1>2. next[home[p]] \in Nat
  BY <1>1 DEF BusTypes, EventsTypeOK
<1>3. stored \in Seq(Event)
  BY DEF BusTypes, EventsTypeOK
<1>4. MaxSeq(stored) \in Nat
  BY <1>3, MaxSeqBounds
<1>5. NextSeq(home[p]) \in Nat
  BY <1>2, <1>4 DEF NextSeq
<1>6. esFailures \in Nat
  BY DEF BusTypes
<1> QED
  BY <1>5, <1>6 DEF TakeSeq, TakeSeqFault

\* Every variable keeps its type.
LEMMA BusTypesKept ==
  ASSUME BusTypes, LockInv, OpenInv, NoTwice(stored), BusNext
  PROVE  BusTypes'
<1> USE CopilotEventsAssumption
<1> USE DEF BusTypes, EventsTypeOK, publisherVars, clientVars, KeepPublishers
<1>1. home \in [Publishers -> Workers]
  OBVIOUS
<1>2. ASSUME NEW p \in Publishers, NEW n \in Nat, TakeSeqAs(p, n), esFailures' \in Nat PROVE BusTypes'
  <2>1. Len(Script[p]) \in Nat
    BY LenProperties
  <2>2. sent[p] + 1 \in 0 .. Len(Script[p])
    BY <1>2, <2>1 DEF TakeSeqAs
  <2>3. sent' \in [Publishers -> Int] /\ \A q \in Publishers : sent'[q] \in 0 .. Len(Script[q])
    BY <1>2, <2>2 DEF TakeSeqAs
  <2> QED
    BY <1>1, <1>2, <2>3 DEF TakeSeqAs
<1>3. ASSUME NEW p \in Publishers, StoreEvent(p) PROVE BusTypes'
  <2>1. Current(p) \in Event
    BY <1>3, CurrentIsEvent DEF StoreEvent
  <2>2. stored' \in Seq(Event)
    <3>1. Append(stored, Current(p)) \in Seq(Event)
      BY <2>1, AppendProperties
    <3>2. stored' = Append(stored, Current(p)) \/ stored' = stored
      BY <1>3 DEF StoreEvent
    <3> QED
      BY <3>1, <3>2
  <2> QED
    BY <1>3, <2>2 DEF StoreEvent
<1>4. ASSUME NEW p \in Publishers, Snapshot(p) PROVE BusTypes'
  <2>1. Registered(home[p]) \subseteq Queues
    BY DEF Registered, Queues, OpenInv
  <2> QED
    BY <1>1, <1>4, <2>1 DEF Snapshot
<1>5. ASSUME NEW p \in Publishers, Deliver(p) PROVE BusTypes'
  <2>1. PICK t \in targets[p] :
          /\ targets' = [targets EXCEPT ![p] = @ \ {t}]
          /\ IF t \in Registered(home[p])
             THEN queue' = [queue EXCEPT ![t[1]] = Append(@, Current(p))]
             ELSE UNCHANGED queue
    BY <1>5 DEF Deliver
  <2>2. Current(p) \in Event
    BY CurrentIsEvent
  <2>3. t[1] \in Clients
    BY DEF Queues
  <2>4. ASSUME NEW c \in Clients PROVE queue'[c] \in Seq(Event)
    <3>1. queue'[c] = queue[c] \/ queue'[c] = Append(queue[c], Current(p))
      BY <2>1, <2>3
    <3>2. Append(queue[c], Current(p)) \in Seq(Event)
      BY <2>2, AppendProperties
    <3> QED
      BY <3>1, <3>2
  <2>5. targets' \in [Publishers -> SUBSET Queues]
    BY <2>1
  <2> QED
    BY <1>5, <2>4, <2>5 DEF Deliver
<1>6. ASSUME NEW c \in Clients, Restore(c) PROVE BusTypes'
  <2>1. \E listed \in Listings : received' = [received EXCEPT ![c] = listed]
    BY <1>6 DEF Restore
  <2>2. \A d \in Clients : received'[d] \in Seq(Event)
    BY <2>1, ListingFacts
  <2>3. MaxSeq(stored) \in Nat
    BY MaxSeqBounds
  <2> QED
    BY <1>6, <2>2, <2>3 DEF Restore
<1>7. ASSUME NEW c \in Clients, Connect(c) PROVE BusTypes'
  BY <1>7 DEF Connect, Phases
<1>8. ASSUME NEW c \in Clients, List(c) PROVE BusTypes'
  <2>1. \E replay \in Replayed(lastSeq[c]) : queue' = [queue EXCEPT ![c] = replay]
    BY <1>8 DEF List
  <2>2. \A d \in Clients : queue'[d] \in Seq(Event)
    BY <2>1, ReplayFacts
  <2> QED
    BY <1>8, <2>2 DEF List, Phases
<1>9. ASSUME NEW c \in Clients, Receive(c) PROVE BusTypes'
  <2>1. Head(queue[c]) \in Event /\ Tail(queue[c]) \in Seq(Event)
    BY <1>9, HeadTailProperties DEF Receive
  <2>2. Head(queue[c]).seq \in Nat
    BY <2>1 DEF Event
  <2>3. received' = [received EXCEPT ![c] = Append(@, Head(queue[c]))]
    BY <1>9 DEF Receive
  <2>4. \A d \in Clients : received'[d] \in Seq(Event)
    BY <2>1, <2>3, AppendProperties
  <2>5. lastSeq' \in [Clients -> Nat]
    BY <1>9, <2>2 DEF Receive
  <2>6. \A d \in Clients : queue'[d] \in Seq(Event)
    <3>1. <<>> \in Seq(Event)
      BY EmptySeq
    <3>2. queue' = [queue EXCEPT ![c] = <<>>] \/ queue' = [queue EXCEPT ![c] = Tail(@)]
      BY <1>9 DEF Receive
    <3> QED
      BY <2>1, <3>1, <3>2
  <2>7. phase' \in [Clients -> Phases]
    <3>1. phase' = [phase EXCEPT ![c] = "terminal"] \/ phase' = phase
      BY <1>9 DEF Receive
    <3> QED
      BY <3>1 DEF Phases
  <2> QED
    BY <1>9, <2>4, <2>5, <2>6, <2>7 DEF Receive
<1>10. ASSUME NEW c \in Clients, Register(c) PROVE BusTypes'
  BY <1>10 DEF Register, Phases
<1>11. ASSUME NEW c \in Clients, Drop(c) PROVE BusTypes'
  BY <1>11, EmptySeq DEF Drop, Phases
<1>12. ASSUME NEW w \in Workers, Restart(w) PROVE BusTypes'
  <2>1. \A p \in Publishers : Len(Script[p]) \in Nat
    BY LenProperties
  <2>2. \A p \in Publishers : sent'[p] \in 0 .. Len(Script[p])
    BY <1>12, <2>1 DEF Restart
  <2>3. \A c \in Clients : queue'[c] \in Seq(Event)
    BY <1>12, EmptySeq DEF Restart
  <2> QED
    BY <1>12, <2>2, <2>3 DEF Restart, Phases
<1> QED
  BY <1>2, <1>3, <1>4, <1>5, <1>6, <1>7, <1>8, <1>9, <1>10, <1>11, <1>12, TakesNumber
     DEF BusNext, PublisherStep

\* The places of a list that got one more event.
LEMMA AppendFacts ==
  ASSUME NEW s \in Seq(Event), NEW e \in Event
  PROVE  /\ \A i \in DOMAIN Append(s, e) :
              \/ i \in DOMAIN s /\ Append(s, e)[i] = s[i]
              \/ i \notin DOMAIN s /\ i = Len(s) + 1 /\ Append(s, e)[i] = e
<1>1. Len(s) \in Nat /\ DOMAIN s = 1 .. Len(s)
  BY LenProperties
<1>2. /\ Append(s, e) \in Seq(Event) /\ Len(Append(s, e)) = Len(s) + 1
      /\ \A i \in 1 .. Len(s) : Append(s, e)[i] = s[i]
      /\ Append(s, e)[Len(s) + 1] = e
  BY AppendProperties
<1>3. DOMAIN Append(s, e) = 1 .. Len(s) + 1
  BY <1>2, LenProperties
<1> QED
  BY <1>1, <1>2, <1>3

\* The first event of a list, and the places of the rest.
LEMMA HeadTailFacts ==
  ASSUME NEW s \in Seq(Event), s # <<>>
  PROVE  /\ Head(s) \in Event /\ Tail(s) \in Seq(Event)
         /\ 1 \in DOMAIN s /\ Head(s) = s[1]
         /\ \A i \in DOMAIN Tail(s) :
              i \in Nat /\ i + 1 \in DOMAIN s /\ i + 1 # 1 /\ Tail(s)[i] = s[i + 1]
<1>1. Len(s) \in Nat \ {0} /\ DOMAIN s = 1 .. Len(s)
  BY EmptySeq, LenProperties
<1>2. /\ Head(s) \in Event /\ Tail(s) \in Seq(Event) /\ Len(Tail(s)) = Len(s) - 1
      /\ \A i \in 1 .. Len(Tail(s)) : Tail(s)[i] = s[i + 1]
  BY HeadTailProperties
<1>3. DOMAIN Tail(s) = 1 .. Len(s) - 1
  BY <1>2, LenProperties
<1>4. Head(s) = s[1]
  OBVIOUS
<1> QED
  BY <1>1, <1>2, <1>3, <1>4

\* One more event, which is new.
LEMMA AppendOnce ==
  ASSUME NEW s \in Seq(Event), NEW e \in Event, NoTwice(s), \A i \in DOMAIN s : s[i] # e
  PROVE  NoTwice(Append(s, e))
<1> SUFFICES ASSUME NEW i \in DOMAIN Append(s, e), NEW j \in DOMAIN Append(s, e), i # j
             PROVE  Append(s, e)[i] # Append(s, e)[j]
  BY DEF NoTwice
<1>1. CASE i \in DOMAIN s /\ j \in DOMAIN s
  BY <1>1, AppendFacts DEF NoTwice
<1>2. CASE i \notin DOMAIN s \/ j \notin DOMAIN s
  BY <1>2, AppendFacts
<1> QED
  BY <1>1, <1>2

\* An event that the first list does not have.
LEMMA ApartAppend ==
  ASSUME NEW r \in Seq(Event), NEW s \in Seq(Event), NEW e \in Event,
         Apart(r, s), \A i \in DOMAIN r : r[i] # e
  PROVE  Apart(r, Append(s, e))
<1> SUFFICES ASSUME NEW i \in DOMAIN r, NEW j \in DOMAIN Append(s, e)
             PROVE  r[i] # Append(s, e)[j]
  BY DEF Apart
<1> QED
  BY AppendFacts DEF Apart

\* The first event moves from one list to the end of another.
LEMMA MoveOnce ==
  ASSUME NEW s \in Seq(Event), NEW t \in Seq(Event), t # <<>>, NoTwice(s), NoTwice(t), Apart(s, t)
  PROVE  /\ NoTwice(Append(s, Head(t))) /\ NoTwice(Tail(t)) /\ Apart(Append(s, Head(t)), Tail(t))
<1> DEFINE e == Head(t)
<1>1. /\ e \in Event /\ 1 \in DOMAIN t /\ e = t[1]
      /\ \A i \in DOMAIN Tail(t) : i \in Nat /\ i + 1 \in DOMAIN t /\ i + 1 # 1 /\ Tail(t)[i] = t[i + 1]
  BY HeadTailFacts
<1> HIDE DEF e
<1>2. NoTwice(Append(s, e))
  <2>1. \A i \in DOMAIN s : s[i] # e
    BY <1>1 DEF Apart
  <2> QED
    BY <1>1, <2>1, AppendOnce
<1>3. NoTwice(Tail(t))
  <2> SUFFICES ASSUME NEW i \in DOMAIN Tail(t), NEW j \in DOMAIN Tail(t), i # j
               PROVE  Tail(t)[i] # Tail(t)[j]
    BY DEF NoTwice
  <2>1. i + 1 # j + 1
    BY <1>1
  <2> QED
    BY <1>1, <2>1 DEF NoTwice
<1>4. Apart(Append(s, e), Tail(t))
  <2> SUFFICES ASSUME NEW i \in DOMAIN Append(s, e), NEW j \in DOMAIN Tail(t)
               PROVE  Append(s, e)[i] # Tail(t)[j]
    BY DEF Apart
  <2>1. CASE i \in DOMAIN s /\ Append(s, e)[i] = s[i]
    BY <1>1, <2>1 DEF Apart
  <2>2. CASE Append(s, e)[i] = e
    BY <1>1, <2>2 DEF NoTwice
  <2> QED
    BY <1>1, <2>1, <2>2, AppendFacts
<1> QED
  BY <1>2, <1>3, <1>4 DEF e

\* Between taking a number and taking the subscribers a publisher has the lock.
LEMMA LockKept ==
  ASSUME BusTypes, LockInv, BusNext
  PROVE  LockInv'
<1> USE CopilotEventsAssumption
<1> USE DEF BusTypes, EventsTypeOK, publisherVars, clientVars, KeepPublishers
<1>1. home \in [Publishers -> Workers]
  OBVIOUS
<1>2. ASSUME NEW p \in Publishers, NEW n \in Nat, TakeSeqAs(p, n) PROVE LockInv'
  <2> SUFFICES ASSUME NEW q \in Publishers
               PROVE  /\ pc'[q] # "idle" => lock'[home'[q]] = q /\ targets'[q] = {}
                      /\ pc'[q] # "idle" \/ targets'[q] # {} => sent'[q] \in 1 .. Len(Script[q])
    BY DEF LockInv
  <2>1. CASE q = p
    <3>1. Len(Script[p]) \in Nat
      BY LenProperties
    <3> QED
      BY <1>1, <1>2, <2>1, <3>1 DEF TakeSeqAs
  <2>2. CASE q # p
    BY <1>1, <1>2, <2>2 DEF TakeSeqAs, LockInv
  <2> QED
    BY <2>1, <2>2
<1>3. ASSUME NEW p \in Publishers, StoreEvent(p) PROVE LockInv'
  BY <1>3 DEF StoreEvent, LockInv
<1>4. ASSUME NEW p \in Publishers, Snapshot(p) PROVE LockInv'
  BY <1>1, <1>4 DEF Snapshot, LockInv
<1>5. ASSUME NEW p \in Publishers, Deliver(p) PROVE LockInv'
  BY <1>5 DEF Deliver, LockInv
<1>6. ASSUME NEW w \in Workers, Restart(w) PROVE LockInv'
  BY <1>1, <1>6 DEF Restart, LockInv
<1>7. ASSUME NEW c \in Clients,
             Restore(c) \/ Connect(c) \/ List(c) \/ Receive(c) \/ Register(c) \/ Drop(c)
      PROVE  LockInv'
  BY <1>7 DEF Restore, Connect, List, Receive, Register, Drop, LockInv
<1> QED
  BY <1>2, <1>3, <1>4, <1>5, <1>6, <1>7, TakesNumber DEF BusNext, PublisherStep

\* A connection that is not closed was opened.
LEMMA OpenKept ==
  ASSUME BusTypes, OpenInv, BusNext
  PROVE  OpenInv'
<1> USE DEF BusTypes, EventsTypeOK, publisherVars, clientVars, KeepPublishers
<1>1. ASSUME NEW p \in Publishers, PublisherStep(p) \/ TakeSeqFault(p) PROVE OpenInv'
  BY <1>1 DEF PublisherStep, TakeSeq, TakeSeqFault, TakeSeqAs, StoreEvent, Snapshot, Deliver, OpenInv
<1>2. ASSUME NEW w \in Workers, Restart(w) PROVE OpenInv'
  BY <1>2 DEF Restart, OpenInv
<1>3. ASSUME NEW c \in Clients, Connect(c) PROVE OpenInv'
  BY <1>3, CopilotEventsAssumption DEF Connect, OpenInv
<1>4. ASSUME NEW c \in Clients, Restore(c) \/ List(c) \/ Receive(c) \/ Register(c) \/ Drop(c)
      PROVE  OpenInv'
  <2>1. UNCHANGED connects
    BY <1>4 DEF Restore, List, Receive, Register, Drop
  <2>2. \A d \in Clients : phase'[d] # "closed" => phase[d] # "closed"
    BY <1>4 DEF Restore, List, Receive, Register, Drop
  <2> QED
    BY <2>1, <2>2 DEF OpenInv
<1> QED
  BY <1>1, <1>2, <1>3, <1>4 DEF BusNext

\* The queues publishers know were opened, and are registered or gone.
LEMMA TargetKept ==
  ASSUME BusTypes, LockInv, TargetInv, BusNext
  PROVE  TargetInv'
<1> USE DEF BusTypes, EventsTypeOK, publisherVars, clientVars, KeepPublishers
<1>1. ASSUME NEW p \in Publishers, TakeSeq(p) \/ TakeSeqFault(p) \/ StoreEvent(p) PROVE TargetInv'
  BY <1>1 DEF TakeSeq, TakeSeqFault, TakeSeqAs, StoreEvent, TargetInv
<1>2. ASSUME NEW p \in Publishers, Snapshot(p) PROVE TargetInv'
  <2>1. \A t \in Registered(home[p]) : t[2] = connects[t[1]] /\ phase[t[1]] = "live" /\ connects[t[1]] \in Int
    BY CopilotEventsAssumption DEF Registered
  <2>2. \A q \in Publishers : targets'[q] = IF q = p THEN Registered(home[p]) ELSE targets[q]
    BY <1>2 DEF Snapshot
  <2>3. UNCHANGED <<connects, phase>>
    BY <1>2 DEF Snapshot
  <2> SUFFICES ASSUME NEW q \in Publishers, NEW t \in targets'[q]
               PROVE  /\ t[2] <= connects[t[1]]
                      /\ phase[t[1]] \in {"list", "replay"} => t[2] # connects[t[1]]
    BY <2>3 DEF TargetInv
  <2>4. CASE t \in targets[q]
    BY <2>4 DEF TargetInv
  <2>5. CASE t \in Registered(home[p])
    BY <2>1, <2>5
  <2> QED
    BY <2>2, <2>4, <2>5
<1>3. ASSUME NEW p \in Publishers, Deliver(p) PROVE TargetInv'
  <2>1. \A q \in Publishers : targets'[q] \subseteq targets[q]
    BY <1>3 DEF Deliver
  <2> QED
    BY <1>3, <2>1 DEF TargetInv, Deliver
<1>4. ASSUME NEW w \in Workers, Restart(w) PROVE TargetInv'
  <2>1. \A q \in Publishers : targets'[q] \subseteq targets[q]
    BY <1>4 DEF Restart
  <2>2. \A c \in Clients : phase'[c] = phase[c] \/ phase'[c] = "closed"
    BY <1>4 DEF Restart
  <2>3. \A q \in Publishers : \A t \in targets[q] : t[1] \in Clients
    BY DEF Queues
  <2> QED
    BY <1>4, <2>1, <2>2, <2>3 DEF TargetInv, Restart
<1>5. ASSUME NEW c \in Clients, Connect(c) PROVE TargetInv'
  <2> SUFFICES ASSUME NEW q \in Publishers, NEW t \in targets[q]
               PROVE  /\ t[2] <= connects'[t[1]]
                      /\ phase'[t[1]] \in {"list", "replay"} => t[2] # connects'[t[1]]
    BY <1>5 DEF TargetInv, Connect
  <2>1. t[1] \in Clients /\ t[2] \in Int /\ connects[t[1]] \in Int /\ t[2] <= connects[t[1]]
    BY CopilotEventsAssumption DEF Queues, TargetInv
  <2>2. CASE t[1] = c
    BY <1>5, <2>1, <2>2 DEF Connect
  <2>3. CASE t[1] # c
    BY <1>5, <2>1, <2>3 DEF Connect, TargetInv
  <2> QED
    BY <2>2, <2>3
<1>6. ASSUME NEW c \in Clients, Restore(c) \/ List(c) \/ Receive(c) \/ Register(c) \/ Drop(c)
      PROVE  TargetInv'
  <2>1. UNCHANGED <<targets, connects>>
    BY <1>6 DEF Restore, List, Receive, Register, Drop
  <2>2. \A d \in Clients : phase'[d] \in {"list", "replay"} => phase[d] \in {"list", "replay"}
    BY <1>6 DEF Restore, List, Receive, Register, Drop
  <2>3. \A q \in Publishers : \A t \in targets[q] : t[1] \in Clients
    BY DEF Queues
  <2> QED
    BY <2>1, <2>2, <2>3 DEF TargetInv
<1> QED
  BY <1>1, <1>2, <1>3, <1>4, <1>5, <1>6 DEF BusNext, PublisherStep

\* No event is stored twice.
LEMMA StoredKept ==
  ASSUME BusTypes, BusTypes', LockInv, StoredInv, BusNext
  PROVE  StoredInv'
<1> USE CopilotEventsAssumption
<1> USE DEF BusTypes, EventsTypeOK, publisherVars, clientVars, KeepPublishers
<1>1. \A i \in DOMAIN stored : stored[i] \in Event /\ stored[i].by \in Publishers /\ stored[i].nr \in Nat
  <2>1. DOMAIN stored = 1 .. Len(stored)
    BY LenProperties
  <2>2. \A i \in DOMAIN stored : stored[i] \in Event
    BY <2>1, ElementOfSeq
  <2> QED
    BY <2>2 DEF Event
<1>2. ASSUME UNCHANGED stored,
             \A q \in Publishers : sent[q] <= sent'[q],
             \A q \in Publishers : pc'[q] = "store" => pc[q] = "store" \/ sent[q] < sent'[q]
      PROVE  StoredInv'
  <2>1. \A q \in Publishers : sent[q] \in Nat /\ sent'[q] \in Nat
    OBVIOUS
  <2>2. ASSUME NEW i \in DOMAIN stored
        PROVE  /\ stored[i].nr <= sent'[stored[i].by]
               /\ pc'[stored[i].by] = "store" => stored[i].nr < sent'[stored[i].by]
    <3> DEFINE q == stored[i].by
               n == stored[i].nr
    <3>1. q \in Publishers /\ n \in Nat /\ n <= sent[q] /\ (pc[q] = "store" => n < sent[q])
      BY <1>1 DEF StoredInv
    <3> HIDE DEF q, n
    <3>2. n <= sent'[q] /\ (pc'[q] = "store" => n < sent'[q])
      BY <1>2, <2>1, <3>1
    <3> QED
      BY <3>2 DEF q, n
  <2> QED
    BY <1>2, <2>2 DEF StoredInv
<1>3. ASSUME NEW p \in Publishers, NEW n \in Nat, TakeSeqAs(p, n) PROVE StoredInv'
  <2>1. \A q \in Publishers : sent'[q] = IF q = p THEN sent[q] + 1 ELSE sent[q]
    BY <1>3 DEF TakeSeqAs
  <2>2. \A q \in Publishers : q # p => pc'[q] = pc[q]
    BY <1>3 DEF TakeSeqAs
  <2>3. UNCHANGED stored
    BY <1>3 DEF TakeSeqAs
  <2>4. ASSUME NEW q \in Publishers PROVE sent[q] <= sent'[q] /\ (q = p => sent[q] < sent'[q])
    <3>1. sent[q] \in Nat
      OBVIOUS
    <3>2. CASE q = p
      BY <2>1, <3>1, <3>2
    <3>3. CASE q # p
      BY <2>1, <3>1, <3>3
    <3> QED
      BY <3>2, <3>3
  <2> QED
    BY <1>2, <2>2, <2>3, <2>4
<1>4. ASSUME NEW p \in Publishers, StoreEvent(p) PROVE StoredInv'
  <2>0. pc[p] = "store" /\ pc' = [pc EXCEPT ![p] = "snapshot"] /\ UNCHANGED sent
    BY <1>4 DEF StoreEvent
  <2>1. CASE UNCHANGED stored
    BY <1>2, <2>0, <2>1
  <2>2. CASE stored' = Append(stored, Current(p))
    <3> DEFINE e == Current(p)
    <3>1. e \in Event /\ e.by = p /\ e.nr = sent[p]
      BY <2>0, CurrentIsEvent
    <3> HIDE DEF e
    <3>2. \A i \in DOMAIN stored : stored[i] # e
      BY <1>1, <2>0, <3>1 DEF StoredInv
    <3>3. NoTwice(stored')
      BY <2>2, <3>1, <3>2, AppendOnce DEF StoredInv, NoTwice, e
    <3>4. ASSUME NEW i \in DOMAIN stored'
          PROVE  /\ stored'[i].nr <= sent[stored'[i].by]
                 /\ pc'[stored'[i].by] = "store" => stored'[i].nr < sent[stored'[i].by]
      <4>1. CASE i \in DOMAIN stored /\ stored'[i] = stored[i]
        BY <1>1, <2>0, <4>1 DEF StoredInv
      <4>2. CASE stored'[i] = e
        <5>1. pc'[p] # "store" /\ sent[p] <= sent[p]
          BY <2>0
        <5> QED
          BY <3>1, <4>2, <5>1
      <4> QED
        BY <2>2, <3>1, <4>1, <4>2, AppendFacts DEF e
    <3> QED
      BY <2>0, <3>3, <3>4 DEF StoredInv, NoTwice
  <2> QED
    BY <1>4, <2>1, <2>2 DEF StoreEvent
<1>5. ASSUME NEW p \in Publishers, Snapshot(p) \/ Deliver(p) PROVE StoredInv'
  <2>1. UNCHANGED <<stored, sent>> /\ \A q \in Publishers : pc'[q] = "store" => pc[q] = "store"
    BY <1>5 DEF Snapshot, Deliver
  <2> QED
    BY <1>2, <2>1
<1>6. ASSUME NEW w \in Workers, Restart(w) PROVE StoredInv'
  <2>1. UNCHANGED stored /\ \A q \in Publishers : pc'[q] = "store" => pc[q] = "store"
    BY <1>6 DEF Restart
  <2>2. ASSUME NEW q \in Publishers PROVE sent[q] <= sent'[q]
    <3>1. sent'[q] = sent[q] \/ sent'[q] = Len(Script[q])
      BY <1>6 DEF Restart
    <3>2. sent[q] \in 0 .. Len(Script[q]) /\ Len(Script[q]) \in Nat
      BY LenProperties
    <3> QED
      BY <3>1, <3>2
  <2> QED
    BY <1>2, <2>1, <2>2
<1>7. ASSUME NEW c \in Clients,
             Restore(c) \/ Connect(c) \/ List(c) \/ Receive(c) \/ Register(c) \/ Drop(c)
      PROVE  StoredInv'
  <2>1. UNCHANGED publisherVars
    BY <1>7 DEF Restore, Connect, List, Receive, Register, Drop
  <2> QED
    BY <1>2, <2>1
<1> QED
  BY <1>3, <1>4, <1>5, <1>6, <1>7, TakesNumber DEF BusNext, PublisherStep

\* The fields of an event in a list.
LEMMA InEvent ==
  ASSUME NEW s \in Seq(Event), NEW i \in DOMAIN s
  PROVE  /\ s[i] \in Event /\ s[i].by \in Publishers /\ s[i].nr \in Nat /\ s[i].seq \in Nat
<1>1. DOMAIN s = 1 .. Len(s)
  BY LenProperties
<1>2. s[i] \in Event
  BY <1>1, ElementOfSeq
<1> QED
  BY <1>2 DEF Event

\* Publishers never go back.
LEMMA SentGrows ==
  ASSUME BusTypes, BusNext
  PROVE  \A q \in Publishers : sent[q] <= sent'[q]
<1> USE DEF BusTypes, EventsTypeOK, publisherVars, clientVars, KeepPublishers
<1>1. ASSUME NEW p \in Publishers, NEW n \in Nat, TakeSeqAs(p, n), NEW q \in Publishers PROVE sent[q] <= sent'[q]
  BY <1>1 DEF TakeSeqAs
<1>2. ASSUME NEW p \in Publishers, StoreEvent(p) \/ Snapshot(p) \/ Deliver(p) PROVE UNCHANGED sent
  BY <1>2 DEF StoreEvent, Snapshot, Deliver
<1>3. ASSUME NEW w \in Workers, Restart(w), NEW q \in Publishers PROVE sent[q] <= sent'[q]
  <2>1. sent'[q] = sent[q] \/ sent'[q] = Len(Script[q])
    BY <1>3 DEF Restart
  <2>2. sent[q] \in 0 .. Len(Script[q]) /\ Len(Script[q]) \in Nat
    BY LenProperties, CopilotEventsAssumption
  <2> QED
    BY <2>1, <2>2
<1>4. ASSUME NEW c \in Clients,
             Restore(c) \/ Connect(c) \/ List(c) \/ Receive(c) \/ Register(c) \/ Drop(c)
      PROVE  UNCHANGED sent
  BY <1>4 DEF Restore, Connect, List, Receive, Register, Drop
<1> QED
  BY <1>1, <1>2, <1>3, <1>4, TakesNumber DEF BusNext, PublisherStep

\* What was begun stays begun.
LEMMA BegunStays ==
  ASSUME NEW s \in Seq(Event), NEW m \in [Publishers -> Nat], NEW n \in [Publishers -> Nat],
         Begun(s, m), \A q \in Publishers : m[q] <= n[q]
  PROVE  Begun(s, n)
<1> SUFFICES ASSUME NEW i \in DOMAIN s PROVE s[i].nr <= n[s[i].by]
  BY DEF Begun
<1> DEFINE q == s[i].by
           k == s[i].nr
<1>1. q \in Publishers /\ k \in Nat /\ k <= m[q]
  BY InEvent DEF Begun
<1> HIDE DEF q, k
<1>2. k <= n[q]
  <2>1. m[q] \in Nat /\ n[q] \in Nat /\ m[q] <= n[q]
    BY <1>1
  <2> QED
    BY <1>1, <2>1
<1> QED
  BY <1>2 DEF q, k

\* Of an event and of lists: what Begun and UpTo say of a longer list.
LEMMA BegunAppend ==
  ASSUME NEW s \in Seq(Event), NEW e \in Event, NEW n, Begun(s, n), e.nr <= n[e.by]
  PROVE  Begun(Append(s, e), n)
BY AppendFacts DEF Begun

\* The cursor past one more event.
LEMMA UpToAppend ==
  ASSUME NEW s \in Seq(Event), NEW e \in Event, NEW m \in Nat, NEW n \in Nat,
         UpTo(s, m), m <= n, e.seq <= n
  PROVE  UpTo(Append(s, e), n)
<1> SUFFICES ASSUME NEW i \in DOMAIN Append(s, e) PROVE Append(s, e)[i].seq <= n
  BY DEF UpTo
<1>1. CASE i \in DOMAIN s /\ Append(s, e)[i] = s[i]
  <2> DEFINE k == s[i].seq
  <2>1. k \in Nat /\ k <= m
    BY <1>1, InEvent DEF UpTo
  <2> HIDE DEF k
  <2>2. k <= n
    BY <2>1
  <2> QED
    BY <1>1, <2>2 DEF k
<1>2. CASE Append(s, e)[i] = e
  BY <1>2
<1> QED
  BY <1>1, <1>2, AppendFacts

\* What is said of a list holds of its first event and of the rest.
LEMMA BegunTail ==
  ASSUME NEW s \in Seq(Event), s # <<>>, NEW n, Begun(s, n)
  PROVE  Begun(Tail(s), n) /\ Head(s).nr <= n[Head(s).by]
BY HeadTailFacts DEF Begun

\* Nothing is in the empty list.
LEMMA BegunEmpty ==
  ASSUME NEW n
  PROVE  Begun(<<>>, n)
BY DEF Begun

\* What a client has, or will be sent, was begun, and is behind its cursor.
LEMMA SeenKept ==
  ASSUME BusTypes, BusTypes', LockInv, StoredInv, SeenInv, BusNext
  PROVE  SeenInv'
<1> USE CopilotEventsAssumption
<1> USE DEF BusTypes, EventsTypeOK, publisherVars, clientVars, KeepPublishers
<1>1. ASSUME NEW s \in Seq(Event), Begun(s, sent) PROVE Begun(s, sent')
  BY <1>1, SentGrows, BegunStays
<1>2. Begun(stored, sent)
  BY DEF StoredInv, Begun
<1> SUFFICES ASSUME NEW d \in Clients
             PROVE  /\ Begun(received'[d], sent') /\ Begun(queue'[d], sent')
                    /\ UpTo(received'[d], lastSeq'[d])
                    /\ phase'[d] \in {"closed", "list", "terminal"} => queue'[d] = <<>>
  BY DEF SeenInv
<1>3. /\ received[d] \in Seq(Event) /\ queue[d] \in Seq(Event) /\ lastSeq[d] \in Nat
      /\ Begun(received[d], sent) /\ Begun(queue[d], sent)
      /\ Begun(received[d], sent') /\ Begun(queue[d], sent')
      /\ UpTo(received[d], lastSeq[d])
      /\ phase[d] \in {"closed", "list", "terminal"} => queue[d] = <<>>
  BY <1>1 DEF SeenInv
<1>4. CASE received'[d] = received[d] /\ queue'[d] = queue[d] /\ lastSeq'[d] = lastSeq[d]
           /\ (phase'[d] \in {"closed", "list", "terminal"} => phase[d] \in {"closed", "list", "terminal"})
  BY <1>3, <1>4
<1>5. CASE received'[d] = received[d] /\ queue'[d] = <<>> /\ lastSeq'[d] = lastSeq[d]
  BY <1>3, <1>5, BegunEmpty
<1>6. ASSUME NEW p \in Publishers, TakeSeq(p) \/ TakeSeqFault(p) \/ StoreEvent(p) \/ Snapshot(p) PROVE UNCHANGED clientVars
  BY <1>6 DEF TakeSeq, TakeSeqFault, TakeSeqAs, StoreEvent, Snapshot
<1>7. CASE \E p \in Publishers : Deliver(p)
  <2>1. PICK p \in Publishers : Deliver(p)
    BY <1>7
  <2>2. PICK t \in targets[p] :
          IF t \in Registered(home[p])
          THEN queue' = [queue EXCEPT ![t[1]] = Append(@, Current(p))]
          ELSE UNCHANGED queue
    BY <2>1 DEF Deliver
  <2>3. UNCHANGED <<sent, received, lastSeq, phase>>
    BY <2>1 DEF Deliver
  <2>4. CASE queue'[d] = queue[d]
    BY <1>4, <2>3, <2>4
  <2>5. CASE queue'[d] = Append(queue[d], Current(p)) /\ phase[d] = "live"
    <3> DEFINE e == Current(p)
    <3>1. e \in Event /\ e.by = p /\ e.nr = sent[p]
      BY CurrentIsEvent
    <3>4. sent[p] \in Nat /\ sent[p] <= sent[p]
      OBVIOUS
    <3> HIDE DEF e
    <3>2. e.nr <= sent'[e.by]
      BY <2>3, <3>1, <3>4
    <3>3. Begun(Append(queue[d], e), sent')
      BY <1>3, <3>1, <3>2, BegunAppend
    <3> QED
      BY <1>3, <2>3, <2>5, <3>3 DEF e
  <2>6. CASE t \in Registered(home[p])
    <3>1. t[1] \in Clients /\ phase[t[1]] = "live"
      BY <2>6 DEF Registered
    <3>2. queue' = [queue EXCEPT ![t[1]] = Append(@, Current(p))]
      BY <2>2, <2>6
    <3>3. CASE t[1] = d
      BY <2>5, <3>1, <3>2, <3>3
    <3>4. CASE t[1] # d
      BY <2>4, <3>1, <3>2, <3>4
    <3> QED
      BY <3>3, <3>4
  <2>7. CASE t \notin Registered(home[p])
    BY <2>2, <2>4, <2>7
  <2> QED
    BY <2>6, <2>7
<1>8. ASSUME NEW c \in Clients, Restore(c)
      PROVE  /\ Begun(received'[d], sent') /\ Begun(queue'[d], sent')
             /\ UpTo(received'[d], lastSeq'[d])
             /\ phase'[d] \in {"closed", "list", "terminal"} => queue'[d] = <<>>
  <2>1. PICK listed \in Listings : received' = [received EXCEPT ![c] = listed]
    BY <1>8 DEF Restore
  <2>2. lastSeq' = [lastSeq EXCEPT ![c] = MaxSeq(stored)] /\ UNCHANGED <<phase, queue, sent>>
    BY <1>8 DEF Restore
  <2>3. CASE d # c
    BY <1>4, <2>1, <2>2, <2>3
  <2>4. CASE d = c
    <3>1. received'[d] = listed /\ lastSeq'[d] = MaxSeq(stored)
      BY <2>1, <2>2, <2>4
    <3>2. \A i \in DOMAIN listed : \E j \in DOMAIN stored : listed[i] = stored[j]
      BY ListingFacts DEF StoredInv, NoTwice
    <3>3. Begun(listed, sent)
      BY <1>2, <3>2 DEF Begun
    <3>4. UpTo(listed, MaxSeq(stored))
      BY <3>2, MaxSeqBounds DEF UpTo
    <3> QED
      BY <1>3, <2>2, <3>1, <3>3, <3>4
  <2> QED
    BY <2>3, <2>4
<1>9. ASSUME NEW c \in Clients, List(c)
      PROVE  /\ Begun(received'[d], sent') /\ Begun(queue'[d], sent')
             /\ UpTo(received'[d], lastSeq'[d])
             /\ phase'[d] \in {"closed", "list", "terminal"} => queue'[d] = <<>>
  <2>1. PICK replay \in Replayed(lastSeq[c]) : queue' = [queue EXCEPT ![c] = replay]
    BY <1>9 DEF List
  <2>2. phase' = [phase EXCEPT ![c] = "replay"] /\ UNCHANGED <<received, lastSeq, sent>>
    BY <1>9 DEF List
  <2>3. CASE d # c
    BY <1>4, <2>1, <2>2, <2>3
  <2>4. CASE d = c
    <3>1. queue'[d] = replay /\ phase'[d] = "replay"
      BY <2>1, <2>2, <2>4
    <3>2. \A i \in DOMAIN replay : \E j \in DOMAIN stored : replay[i] = stored[j]
      BY ReplayFacts DEF StoredInv, NoTwice
    <3>3. Begun(replay, sent)
      BY <1>2, <3>2 DEF Begun
    <3> QED
      BY <1>3, <2>2, <3>1, <3>3
  <2> QED
    BY <2>3, <2>4
<1>10. ASSUME NEW c \in Clients, Receive(c)
       PROVE  /\ Begun(received'[d], sent') /\ Begun(queue'[d], sent')
              /\ UpTo(received'[d], lastSeq'[d])
              /\ phase'[d] \in {"closed", "list", "terminal"} => queue'[d] = <<>>
  <2> DEFINE e == Head(queue[c])
  <2>1. /\ phase[c] \in {"replay", "live"} /\ queue[c] # <<>> /\ UNCHANGED sent
        /\ received' = [received EXCEPT ![c] = Append(@, e)]
        /\ lastSeq' = [lastSeq EXCEPT ![c] = IF e.seq > @ THEN e.seq ELSE @]
        /\ \/ phase' = [phase EXCEPT ![c] = "terminal"] /\ queue' = [queue EXCEPT ![c] = <<>>]
           \/ phase' = phase /\ queue' = [queue EXCEPT ![c] = Tail(@)]
    BY <1>10 DEF Receive
  <2>2. e \in Event /\ (d = c => Begun(Tail(queue[d]), sent) /\ e.nr <= sent[e.by])
    BY <1>3, <2>1, BegunTail, HeadTailFacts
  <2>3. e.seq \in Nat
    BY <2>2 DEF Event
  <2> HIDE DEF e
  <2>4. CASE d # c
    BY <1>4, <2>1, <2>4
  <2>5. CASE d = c
    <3>1. received'[d] = Append(received[d], e)
      BY <2>1, <2>5
    <3>2. Begun(received'[d], sent)
      <4>1. Begun(Append(received[d], e), sent)
        BY <1>3, <2>2, <2>5, BegunAppend
      <4> QED
        BY <3>1, <4>1
    <3>3. UpTo(received'[d], lastSeq'[d])
      <4>1. lastSeq'[d] \in Nat /\ lastSeq[d] <= lastSeq'[d] /\ e.seq <= lastSeq'[d]
        <5>1. lastSeq'[d] = IF e.seq > lastSeq[d] THEN e.seq ELSE lastSeq[d]
          BY <2>1, <2>5
        <5>2. lastSeq[d] \in Nat
          BY <1>3
        <5> DEFINE k == e.seq
                   m == lastSeq[d]
                   n == lastSeq'[d]
        <5>3. k \in Nat /\ m \in Nat /\ n = IF k > m THEN k ELSE m
          BY <2>3, <5>1, <5>2
        <5> HIDE DEF k, m, n
        <5>4. n \in Nat /\ m <= n /\ k <= n
          BY <5>3
        <5> QED
          BY <5>4 DEF k, m, n
      <4>2. UpTo(Append(received[d], e), lastSeq'[d])
        BY <1>3, <2>2, <4>1, UpToAppend
      <4> QED
        BY <3>1, <4>2
    <3>4. /\ queue'[d] = <<>> \/ queue'[d] = Tail(queue[d])
          /\ phase'[d] \in {"closed", "list", "terminal"} => queue'[d] = <<>>
      BY <2>1, <2>5
    <3>5. Begun(queue'[d], sent)
      <4>1. CASE queue'[d] = <<>>
        BY <4>1, BegunEmpty
      <4>2. CASE queue'[d] = Tail(queue[d])
        BY <2>2, <2>5, <4>2
      <4> QED
        BY <3>4, <4>1, <4>2
    <3> QED
      BY <2>1, <3>2, <3>3, <3>4, <3>5
  <2> QED
    BY <2>4, <2>5
<1>11. ASSUME NEW c \in Clients, Connect(c) \/ Register(c)
       PROVE  /\ received'[d] = received[d] /\ queue'[d] = queue[d] /\ lastSeq'[d] = lastSeq[d]
              /\ (phase'[d] \in {"closed", "list", "terminal"} => phase[d] \in {"closed", "list", "terminal"})
  BY <1>11 DEF Connect, Register
<1>12. ASSUME NEW c \in Clients, Drop(c)
       PROVE  /\ received'[d] = received[d] /\ lastSeq'[d] = lastSeq[d]
              /\ \/ queue'[d] = <<>>
                 \/ queue'[d] = queue[d] /\ phase'[d] = phase[d]
  <2>1. CASE d = c
    BY <1>12, <2>1 DEF Drop
  <2>2. CASE d # c
    BY <1>12, <2>2 DEF Drop
  <2> QED
    BY <2>1, <2>2
<1>13. ASSUME NEW w \in Workers, Restart(w)
       PROVE  /\ received'[d] = received[d] /\ lastSeq'[d] = lastSeq[d]
              /\ \/ queue'[d] = <<>>
                 \/ queue'[d] = queue[d] /\ phase'[d] = phase[d]
  BY <1>13 DEF Restart
<1> QED
  BY <1>4, <1>5, <1>6, <1>7, <1>8, <1>9, <1>10, <1>11, <1>12, <1>13 DEF BusNext, PublisherStep

\* Events of others, or older ones, may be added.
LEMMA BeforeAppend ==
  ASSUME NEW s \in Seq(Event), NEW e \in Event, NEW q, NEW n, Before(s, q, n), e.by = q => e.nr < n
  PROVE  Before(Append(s, e), q, n)
BY AppendFacts DEF Before

\* The first event moves to the other list.
LEMMA BeforeMoves ==
  ASSUME NEW s \in Seq(Event), NEW t \in Seq(Event), t # <<>>, NEW q, NEW n, Before(s, q, n), Before(t, q, n)
  PROVE  Before(Append(s, Head(t)), q, n) /\ Before(Tail(t), q, n)
<1>1. Head(t) \in Event /\ (Head(t).by = q => Head(t).nr < n) /\ Before(Tail(t), q, n)
  BY HeadTailFacts DEF Before
<1> QED
  BY <1>1, BeforeAppend

\* Who has begun one more event than an event of the list is behind it.
LEMMA BegunBefore ==
  ASSUME NEW s \in Seq(Event), NEW m \in [Publishers -> Nat], Begun(s, m),
         NEW q \in Publishers, NEW n \in Nat, m[q] < n
  PROVE  Before(s, q, n)
<1> SUFFICES ASSUME NEW i \in DOMAIN s, s[i].by = q PROVE s[i].nr < n
  BY DEF Before
<1> DEFINE k == s[i].nr
<1>1. k \in Nat /\ k <= m[q]
  BY InEvent DEF Begun
<1> HIDE DEF k
<1>2. k < n
  <2>1. m[q] \in Nat
    OBVIOUS
  <2> QED
    BY <1>1, <2>1
<1> QED
  BY <1>2 DEF k

\* No client is sent an event twice.
LEMMA SentOnceKept ==
  ASSUME BusTypes, BusTypes', LockInv, OpenInv, StoredInv, SeenInv, TargetInv, SentOnceInv, BusNext
  PROVE  SentOnceInv'
<1> USE CopilotEventsAssumption
<1> USE DEF BusTypes, EventsTypeOK, publisherVars, clientVars, KeepPublishers
<1> DEFINE Once(r, q) == NoTwice(r) /\ NoTwice(q) /\ Apart(r, q)
           Fine(d) == /\ Once(received'[d], queue'[d])
                      /\ \A p \in Publishers :
                           Coming(p, d)' => Before(received'[d], p, sent'[p]) /\ Before(queue'[d], p, sent'[p])
<1> SUFFICES ASSUME NEW d \in Clients PROVE Fine(d)
  BY DEF SentOnceInv
<1>1. /\ received[d] \in Seq(Event) /\ queue[d] \in Seq(Event) /\ lastSeq[d] \in Nat
      /\ sent \in [Publishers -> Nat] /\ sent' \in [Publishers -> Nat]
      /\ Begun(received[d], sent) /\ Begun(queue[d], sent) /\ UpTo(received[d], lastSeq[d])
      /\ phase[d] \in {"closed", "list", "terminal"} => queue[d] = <<>>
      /\ Once(received[d], queue[d])
      /\ \A p \in Publishers : Coming(p, d) => Before(received[d], p, sent[p]) /\ Before(queue[d], p, sent[p])
  BY DEF SeenInv, SentOnceInv
<1>2. NoTwice(stored)
  BY DEF StoredInv, NoTwice
<1>3. \A r : NoTwice(<<>>) /\ Apart(r, <<>>)
  BY DEF NoTwice, Apart
<1> HIDE DEF Once
<1>4. ASSUME received'[d] = received[d], queue'[d] = queue[d],
             \A p \in Publishers :
               Coming(p, d)' => \/ Coming(p, d) /\ sent'[p] = sent[p]
                                \/ sent[p] < sent'[p]
      PROVE  Fine(d)
  <2> SUFFICES ASSUME NEW p \in Publishers, Coming(p, d)'
               PROVE  Before(received[d], p, sent'[p]) /\ Before(queue[d], p, sent'[p])
    BY <1>1, <1>4
  <2>1. CASE Coming(p, d) /\ sent'[p] = sent[p]
    BY <1>1, <2>1
  <2>2. CASE sent[p] < sent'[p]
    <3>1. sent'[p] \in Nat
      BY <1>1
    <3> QED
      BY <1>1, <2>2, <3>1, BegunBefore
  <2> QED
    BY <1>4, <2>1, <2>2
<1>5. ASSUME phase'[d] # "live", Once(received'[d], queue'[d]) PROVE Fine(d)
  BY <1>5 DEF Coming
<1>6. ASSUME NEW p \in Publishers, NEW n \in Nat, TakeSeqAs(p, n) PROVE Fine(d)
  <2>1. /\ sent' = [sent EXCEPT ![p] = @ + 1] /\ pc' = [pc EXCEPT ![p] = "store"]
        /\ UNCHANGED <<home, targets, phase, conn, connects, queue, received>>
    BY <1>6 DEF TakeSeqAs
  <2>2. sent[p] < sent'[p]
    <3>1. sent[p] \in Nat /\ sent'[p] = sent[p] + 1
      BY <1>1, <2>1
    <3> QED
      BY <3>1
  <2>3. ASSUME NEW q \in Publishers, q # p PROVE sent'[q] = sent[q] /\ Coming(q, d)' = Coming(q, d)
    BY <2>1, <2>3 DEF Coming
  <2> QED
    BY <1>4, <2>1, <2>2, <2>3
<1>7. ASSUME NEW p \in Publishers, StoreEvent(p) \/ Snapshot(p) PROVE Fine(d)
  <2>1. UNCHANGED <<home, sent, phase, conn, connects, queue, received>>
    BY <1>7 DEF StoreEvent, Snapshot
  <2>2. ASSUME NEW q \in Publishers, Coming(q, d)' PROVE Coming(q, d)
    <3>1. CASE q = p
      <4>1. pc[p] # "idle"
        BY <1>7 DEF StoreEvent, Snapshot
      <4> QED
        BY <2>1, <2>2, <3>1, <4>1 DEF Coming
    <3>2. CASE q # p
      <4>1. pc'[q] = pc[q] /\ targets'[q] = targets[q]
        BY <1>7, <3>2 DEF StoreEvent, Snapshot
      <4> QED
        BY <2>1, <2>2, <4>1 DEF Coming
    <3> QED
      BY <3>1, <3>2
  <2> QED
    BY <1>4, <2>1, <2>2
<1>8. ASSUME NEW p \in Publishers, Deliver(p) PROVE Fine(d)
  <2>1. PICK t \in targets[p] :
          /\ targets' = [targets EXCEPT ![p] = @ \ {t}]
          /\ IF t \in Registered(home[p])
             THEN queue' = [queue EXCEPT ![t[1]] = Append(@, Current(p))]
             ELSE UNCHANGED queue
    BY <1>8 DEF Deliver
  <2>2. UNCHANGED <<home, pc, sent, phase, conn, connects, received>>
    BY <1>8 DEF Deliver
  <2>3. ASSUME NEW q \in Publishers, Coming(q, d)' PROVE Coming(q, d)
    <3>1. targets'[q] \subseteq targets[q]
      BY <2>1
    <3> QED
      BY <2>2, <2>3, <3>1 DEF Coming
  <2>4. CASE queue'[d] = queue[d]
    BY <1>4, <2>2, <2>3, <2>4
  <2>5. CASE t = <<d, connects[d]>> /\ phase[d] = "live" /\ conn[d] = home[p] /\ queue'[d] = Append(queue[d], Current(p))
    <3> DEFINE e == Current(p)
    <3>1. e \in Event /\ e.by = p /\ e.nr = sent[p]
      BY CurrentIsEvent
    <3> HIDE DEF e
    <3>2. Before(received[d], p, sent[p]) /\ Before(queue[d], p, sent[p])
      BY <1>1, <2>1, <2>5 DEF Coming
    <3>3. ASSUME NEW s \in Seq(Event), Before(s, p, sent[p]), NEW i \in DOMAIN s PROVE s[i] # e
      <4>1. sent[p] \in Nat
        BY <1>1
      <4>2. ~ (sent[p] < sent[p])
        BY <4>1
      <4> QED
        BY <3>1, <3>3, <4>2 DEF Before
    <3>4. NoTwice(Append(queue[d], e))
      BY <1>1, <3>1, <3>2, <3>3, AppendOnce DEF Once
    <3>5. Apart(received[d], Append(queue[d], e))
      <4>1. Apart(received[d], queue[d]) /\ \A i \in DOMAIN received[d] : received[d][i] # e
        BY <1>1, <3>2, <3>3 DEF Once
      <4> QED
        BY <1>1, <3>1, <4>1, ApartAppend
    <3>6. ~ Coming(p, d)'
      <4>1. pc[p] = "idle"
        BY <2>1 DEF LockInv
      <4>2. t \notin targets'[p]
        BY <2>1
      <4> QED
        BY <2>2, <2>5, <4>1, <4>2 DEF Coming
    <3>7. ASSUME NEW q \in Publishers, Coming(q, d)'
          PROVE  Before(received[d], q, sent[q]) /\ Before(Append(queue[d], e), q, sent[q])
      <4>1. q # p /\ Before(received[d], q, sent[q]) /\ Before(queue[d], q, sent[q])
        BY <1>1, <2>3, <3>6, <3>7
      <4> QED
        BY <1>1, <3>1, <4>1, BeforeAppend
    <3>8. queue'[d] = Append(queue[d], e) /\ received'[d] = received[d] /\ sent' = sent
      BY <2>2, <2>5 DEF e
    <3> QED
      BY <1>1, <3>4, <3>5, <3>7, <3>8 DEF Once
  <2>6. CASE t \in Registered(home[p])
    <3>1. PICK c \in Clients : t = <<c, connects[c]>> /\ phase[c] = "live" /\ conn[c] = home[p]
      BY <2>6 DEF Registered
    <3>2. queue' = [queue EXCEPT ![c] = Append(@, Current(p))]
      BY <2>1, <2>6, <3>1
    <3>3. CASE c = d
      BY <2>5, <3>1, <3>2, <3>3
    <3>4. CASE c # d
      BY <2>4, <3>2, <3>4
    <3> QED
      BY <3>3, <3>4
  <2>7. CASE t \notin Registered(home[p])
    BY <2>1, <2>4, <2>7
  <2> QED
    BY <2>6, <2>7
<1> DEFINE Same(c) == /\ received'[c] = received[c] /\ queue'[c] = queue[c] /\ phase'[c] = phase[c]
                      /\ conn'[c] = conn[c] /\ connects'[c] = connects[c]
<1>9. ASSUME Same(d), UNCHANGED publisherVars PROVE Fine(d)
  <2>1. \A p \in Publishers : Coming(p, d)' => Coming(p, d) /\ sent'[p] = sent[p]
    BY <1>9 DEF Coming
  <2> QED
    BY <1>4, <1>9, <2>1
<1>10. ASSUME NEW c \in Clients, c # d,
              Restore(c) \/ Connect(c) \/ List(c) \/ Receive(c) \/ Register(c) \/ Drop(c)
       PROVE  Fine(d)
  <2>1. UNCHANGED publisherVars
    BY <1>10 DEF Restore, Connect, List, Receive, Register, Drop
  <2>2. Same(d)
    <3>1. CASE Restore(c)
      <4>1. UNCHANGED <<phase, conn, connects, queue>> /\ \E listed : received' = [received EXCEPT ![c] = listed]
        BY <3>1 DEF Restore
      <4>2. received'[d] = received[d]
        BY <1>10, <4>1
      <4> QED
        BY <4>1, <4>2
    <3>2. CASE List(c)
      <4>1. /\ UNCHANGED <<conn, connects, received>> /\ phase' = [phase EXCEPT ![c] = "replay"]
            /\ \E replay : queue' = [queue EXCEPT ![c] = replay]
        BY <3>2 DEF List
      <4>2. queue'[d] = queue[d] /\ phase'[d] = phase[d]
        BY <1>10, <4>1
      <4> QED
        BY <4>1, <4>2
    <3>5. CASE Connect(c)
      <4>1. /\ UNCHANGED <<queue, received>> /\ phase' = [phase EXCEPT ![c] = "list"]
            /\ connects' = [connects EXCEPT ![c] = @ + 1] /\ \E w : conn' = [conn EXCEPT ![c] = w]
        BY <3>5 DEF Connect
      <4>2. phase'[d] = phase[d] /\ connects'[d] = connects[d] /\ conn'[d] = conn[d]
        BY <1>10, <4>1
      <4> QED
        BY <4>1, <4>2
    <3>6. CASE Register(c)
      <4>1. UNCHANGED <<conn, connects, queue, received>> /\ phase' = [phase EXCEPT ![c] = "live"]
        BY <3>6 DEF Register
      <4>2. phase'[d] = phase[d]
        BY <1>10, <4>1
      <4> QED
        BY <4>1, <4>2
    <3>4. CASE Drop(c)
      <4>1. /\ UNCHANGED <<conn, connects, received>> /\ phase' = [phase EXCEPT ![c] = "closed"]
            /\ queue' = [queue EXCEPT ![c] = <<>>]
        BY <3>4 DEF Drop
      <4>2. queue'[d] = queue[d] /\ phase'[d] = phase[d]
        BY <1>10, <4>1
      <4> QED
        BY <4>1, <4>2
    <3>3. CASE Receive(c)
      <4>1. UNCHANGED <<conn, connects>> /\ received' = [received EXCEPT ![c] = Append(@, Head(queue[c]))]
        BY <3>3 DEF Receive
      <4>2. \/ phase' = [phase EXCEPT ![c] = "terminal"] /\ queue' = [queue EXCEPT ![c] = <<>>]
            \/ phase' = phase /\ queue' = [queue EXCEPT ![c] = Tail(@)]
        BY <3>3 DEF Receive
      <4>3. received'[d] = received[d]
        BY <1>10, <4>1
      <4>4. queue'[d] = queue[d] /\ phase'[d] = phase[d]
        BY <1>10, <4>2
      <4> QED
        BY <4>1, <4>3, <4>4
    <3> QED
      BY <1>10, <3>1, <3>2, <3>3, <3>4, <3>5, <3>6
  <2> QED
    BY <1>9, <2>1, <2>2
<1> HIDE DEF Same
<1>11. CASE Restore(d)
  <2>1. PICK listed \in Listings : received' = [received EXCEPT ![d] = listed]
    BY <1>11 DEF Restore
  <2>2. phase[d] = "closed" /\ UNCHANGED <<phase, queue>>
    BY <1>11 DEF Restore
  <2>3. NoTwice(listed)
    BY <1>2, ListingFacts
  <2>4. received'[d] = listed /\ queue'[d] = <<>> /\ phase'[d] # "live"
    BY <1>1, <2>1, <2>2
  <2>5. Once(received'[d], queue'[d])
    BY <1>3, <2>3, <2>4 DEF Once
  <2> QED
    BY <1>5, <2>4, <2>5
<1>12. CASE List(d)
  <2>1. PICK replay \in Replayed(lastSeq[d]) : queue' = [queue EXCEPT ![d] = replay]
    BY <1>12 DEF List
  <2>2. phase' = [phase EXCEPT ![d] = "replay"] /\ UNCHANGED received
    BY <1>12 DEF List
  <2>3. replay \in Seq(Event) /\ NoTwice(replay) /\ \A i \in DOMAIN replay : replay[i].seq > lastSeq[d]
    BY <1>1, <1>2, ReplayFacts
  <2>4. received'[d] = received[d] /\ queue'[d] = replay /\ phase'[d] # "live"
    BY <2>1, <2>2
  <2>5. Apart(received[d], replay)
    <3> SUFFICES ASSUME NEW i \in DOMAIN received[d], NEW j \in DOMAIN replay, received[d][i] = replay[j]
                 PROVE  FALSE
      BY DEF Apart
    <3> DEFINE k == replay[j].seq
    <3>1. k \in Nat /\ k > lastSeq[d] /\ k <= lastSeq[d]
      BY <1>1, <2>3, InEvent DEF UpTo
    <3> HIDE DEF k
    <3> QED
      BY <1>1, <3>1
  <2>6. Once(received'[d], queue'[d])
    BY <1>1, <2>3, <2>4, <2>5 DEF Once
  <2> QED
    BY <1>5, <2>4, <2>6
<1>13. CASE Receive(d)
  <2> DEFINE e == Head(queue[d])
  <2>1. queue[d] # <<>> /\ UNCHANGED <<home, pc, sent, targets, conn, connects>>
    BY <1>13 DEF Receive
  <2>2. received'[d] = Append(received[d], e)
    BY <1>13 DEF Receive
  <2>3. \/ phase'[d] = "terminal" /\ queue'[d] = <<>>
        \/ phase'[d] = phase[d] /\ queue'[d] = Tail(queue[d])
    BY <1>13 DEF Receive
  <2>4. NoTwice(Append(received[d], e)) /\ NoTwice(Tail(queue[d])) /\ Apart(Append(received[d], e), Tail(queue[d]))
    BY <1>1, <2>1, MoveOnce DEF Once
  <2>5. CASE phase'[d] = "terminal" /\ queue'[d] = <<>>
    <3>1. Once(received'[d], queue'[d])
      BY <1>3, <2>2, <2>4, <2>5 DEF Once
    <3> QED
      BY <1>5, <2>5, <3>1
  <2>6. CASE phase'[d] = phase[d] /\ queue'[d] = Tail(queue[d])
    <3>1. Once(received'[d], queue'[d])
      BY <2>2, <2>4, <2>6 DEF Once
    <3>2. ASSUME NEW q \in Publishers, Coming(q, d)'
          PROVE  Before(received'[d], q, sent'[q]) /\ Before(queue'[d], q, sent'[q])
      <4>1. Coming(q, d)
        BY <2>1, <2>6, <3>2 DEF Coming
      <4>2. Before(received[d], q, sent[q]) /\ Before(queue[d], q, sent[q])
        BY <1>1, <4>1
      <4>3. Before(Append(received[d], e), q, sent[q]) /\ Before(Tail(queue[d]), q, sent[q])
        BY <1>1, <2>1, <4>2, BeforeMoves
      <4> QED
        BY <2>1, <2>2, <2>6, <4>3
    <3> QED
      BY <3>1, <3>2
  <2> QED
    BY <2>3, <2>5, <2>6
<1>14. CASE Register(d)
  <2>1. /\ phase[d] = "replay" /\ lock[conn[d]] = Nobody
        /\ UNCHANGED <<home, pc, sent, targets, conn, connects, queue, received>>
    BY <1>14 DEF Register
  <2>2. ASSUME NEW q \in Publishers, Coming(q, d)' PROVE FALSE
    <3>1. conn[d] = home[q]
      BY <2>1, <2>2 DEF Coming
    <3>2. pc[q] = "idle"
      BY <2>1, <3>1 DEF LockInv
    <3>3. <<d, connects[d]>> \notin targets[q]
      BY <2>1 DEF TargetInv
    <3> QED
      BY <2>1, <2>2, <3>2, <3>3 DEF Coming
  <2> QED
    BY <1>1, <2>1, <2>2
<1>15. CASE Connect(d) \/ Drop(d)
  <2>1. received'[d] = received[d] /\ (queue'[d] = queue[d] \/ queue'[d] = <<>>) /\ phase'[d] # "live"
    BY <1>15 DEF Connect, Drop
  <2>2. Once(received'[d], queue'[d])
    BY <1>1, <1>3, <2>1 DEF Once
  <2> QED
    BY <1>5, <2>1, <2>2
<1>16. ASSUME NEW w \in Workers, Restart(w) PROVE Fine(d)
  <2>1. UNCHANGED <<home, conn, connects, received>>
    BY <1>16 DEF Restart
  <2>2. \/ phase'[d] = "closed" /\ queue'[d] = <<>>
        \/ phase'[d] = phase[d] /\ queue'[d] = queue[d]
    BY <1>16 DEF Restart
  <2>3. ASSUME NEW q \in Publishers
        PROVE  \/ pc'[q] = "idle" /\ targets'[q] = {}
               \/ pc'[q] = pc[q] /\ targets'[q] = targets[q] /\ sent'[q] = sent[q]
    BY <1>16 DEF Restart
  <2>4. CASE phase'[d] = "closed" /\ queue'[d] = <<>>
    <3>1. Once(received'[d], queue'[d])
      BY <1>1, <1>3, <2>1, <2>4 DEF Once
    <3> QED
      BY <1>5, <2>4, <3>1
  <2>5. CASE phase'[d] = phase[d] /\ queue'[d] = queue[d]
    <3>1. ASSUME NEW q \in Publishers, Coming(q, d)' PROVE Coming(q, d) /\ sent'[q] = sent[q]
      BY <2>1, <2>3, <2>5, <3>1 DEF Coming
    <3> QED
      BY <1>4, <2>1, <2>5, <3>1
  <2> QED
    BY <2>2, <2>4, <2>5
<1> QED
  BY <1>6, <1>7, <1>8, <1>10, <1>11, <1>12, <1>13, <1>14, <1>15, <1>16, TakesNumber DEF BusNext, PublisherStep

\* While no call fails and the publishers share a process, the number that is taken, and
\* the one that will be, are above what is stored.
Below(s, n)   == \A i \in DOMAIN s : s[i].seq < n
Increasing(s) == \A i, j \in DOMAIN s : i < j => s[i].seq < s[j].seq

Calm == esFailures = 0 /\ \A p, q \in Publishers : home[p] = home[q]

OrderInv ==
  Calm =>
    /\ Increasing(stored)
    /\ \A p \in Publishers :
         /\ pc[p] = "store" => Below(stored, seq[p]) /\ next[home[p]] = seq[p] + 1
         /\ next[home[p]] # 0 => Below(stored, next[home[p]])

\* What is below a number is below a larger one.
LEMMA BelowMore ==
  ASSUME NEW s \in Seq(Event), NEW m \in Nat, NEW n \in Nat, UpTo(s, m) \/ Below(s, m), m < n
  PROVE  Below(s, n)
<1> SUFFICES ASSUME NEW i \in DOMAIN s PROVE s[i].seq < n
  BY DEF Below
<1> DEFINE k == s[i].seq
<1>1. k \in Nat /\ (k <= m \/ k < m)
  BY InEvent DEF UpTo, Below
<1> HIDE DEF k
<1>2. k < n
  BY <1>1
<1> QED
  BY <1>2 DEF k

\* One more event, below the number.
LEMMA BelowAppend ==
  ASSUME NEW s \in Seq(Event), NEW e \in Event, NEW n, Below(s, n), e.seq < n
  PROVE  Below(Append(s, e), n)
BY AppendFacts DEF Below

\* One more event, above all others.
LEMMA IncreasingAppend ==
  ASSUME NEW s \in Seq(Event), NEW e \in Event, Increasing(s), Below(s, e.seq)
  PROVE  Increasing(Append(s, e))
<1> SUFFICES ASSUME NEW i \in DOMAIN Append(s, e), NEW j \in DOMAIN Append(s, e), i < j
             PROVE  Append(s, e)[i].seq < Append(s, e)[j].seq
  BY DEF Increasing
<1>1. Len(s) \in Nat /\ DOMAIN s = 1 .. Len(s)
  BY LenProperties
<1>2. i \in DOMAIN s /\ Append(s, e)[i] = s[i]
  <2>1. CASE i \in DOMAIN s
    BY <2>1, AppendFacts
  <2>2. CASE i \notin DOMAIN s
    <3>1. i = Len(s) + 1
      BY <2>2, AppendFacts
    <3>2. j \in DOMAIN s \/ j = Len(s) + 1
      BY AppendFacts
    <3> QED
      BY <1>1, <3>1, <3>2
  <2> QED
    BY <2>1, <2>2
<1>3. CASE j \in DOMAIN s /\ Append(s, e)[j] = s[j]
  BY <1>2, <1>3 DEF Increasing
<1>4. CASE Append(s, e)[j] = e
  BY <1>2, <1>4 DEF Below
<1> QED
  BY <1>3, <1>4, AppendFacts

\* Numbers are stored in the order in which they are taken.
LEMMA OrderKept ==
  ASSUME BusTypes, BusTypes', LockInv, OrderInv, BusNext
  PROVE  OrderInv'
<1> USE CopilotEventsAssumption
<1> USE DEF BusTypes, EventsTypeOK, publisherVars, clientVars, KeepPublishers
<1>1. UNCHANGED home /\ esFailures' \in Nat /\ esFailures <= esFailures'
  <2>1. ASSUME NEW p \in Publishers, TakeSeq(p) \/ TakeSeqFault(p) PROVE UNCHANGED home
    BY <2>1 DEF TakeSeq, TakeSeqFault, TakeSeqAs
  <2>2. ASSUME NEW p \in Publishers, StoreEvent(p)
        PROVE UNCHANGED home /\ esFailures' \in Nat /\ esFailures <= esFailures'
    BY <2>2 DEF StoreEvent
  <2>3. ASSUME NEW p \in Publishers, Snapshot(p) \/ Deliver(p) PROVE UNCHANGED <<home, esFailures>>
    BY <2>3 DEF Snapshot, Deliver
  <2>4. ASSUME NEW w \in Workers, Restart(w) PROVE UNCHANGED <<home, esFailures>>
    BY <2>4 DEF Restart
  <2>5. ASSUME NEW c \in Clients,
               Restore(c) \/ Connect(c) \/ List(c) \/ Receive(c) \/ Register(c) \/ Drop(c)
        PROVE  UNCHANGED <<home, esFailures>>
    BY <2>5 DEF Restore, Connect, List, Receive, Register, Drop
  <2>6. esFailures \in Nat /\ esFailures <= esFailures
    OBVIOUS
  <2> DEFINE Later == UNCHANGED home /\ esFailures' \in Nat /\ esFailures <= esFailures'
  <2>7. ASSUME UNCHANGED <<home, esFailures>> PROVE Later
    BY <2>6, <2>7
  <2>8. ASSUME NEW p \in Publishers, PublisherStep(p) \/ TakeSeqFault(p) PROVE Later
    BY <2>1, <2>2, <2>3, <2>7, <2>8, TakesNumber DEF PublisherStep
  <2> HIDE DEF Later
  <2>9. Later
    BY <2>4, <2>5, <2>7, <2>8 DEF BusNext
  <2> QED
    BY <2>9 DEF Later
<1> SUFFICES ASSUME Calm'
             PROVE  /\ Increasing(stored')
                    /\ \A q \in Publishers :
                         /\ pc'[q] = "store" => Below(stored', seq'[q]) /\ next'[home'[q]] = seq'[q] + 1
                         /\ next'[home'[q]] # 0 => Below(stored', next'[home'[q]])
  BY DEF OrderInv
<1>2. Calm /\ esFailures = 0 /\ esFailures' = 0
  <2>1. esFailures \in Nat
    OBVIOUS
  <2> QED
    BY <1>1, <2>1 DEF Calm
<1>3. /\ Increasing(stored)
      /\ \A p \in Publishers :
           /\ pc[p] = "store" => Below(stored, seq[p]) /\ next[home[p]] = seq[p] + 1
           /\ next[home[p]] # 0 => Below(stored, next[home[p]])
  BY <1>2 DEF OrderInv
<1>4. home \in [Publishers -> Workers] /\ \A p, q \in Publishers : home[p] = home[q]
  BY <1>2 DEF Calm
<1>5. ASSUME UNCHANGED <<stored, seq>>,
             \A q \in Publishers : /\ pc'[q] = "store" => pc[q] = "store" /\ next'[home[q]] = next[home[q]]
                                   /\ next'[home[q]] # 0 => next'[home[q]] = next[home[q]]
      PROVE  /\ Increasing(stored')
             /\ \A q \in Publishers :
                  /\ pc'[q] = "store" => Below(stored', seq'[q]) /\ next'[home'[q]] = seq'[q] + 1
                  /\ next'[home'[q]] # 0 => Below(stored', next'[home'[q]])
  BY <1>1, <1>3, <1>5
<1>6. ASSUME NEW p \in Publishers, TakeSeq(p)
      PROVE  /\ Increasing(stored')
             /\ \A q \in Publishers :
                  /\ pc'[q] = "store" => Below(stored', seq'[q]) /\ next'[home'[q]] = seq'[q] + 1
                  /\ next'[home'[q]] # 0 => Below(stored', next'[home'[q]])
  <2> DEFINE n == NextSeq(home[p])
  <2>1. /\ lock[home[p]] = Nobody
        /\ seq' = [seq EXCEPT ![p] = n] /\ next' = [next EXCEPT ![home[p]] = n + 1]
        /\ pc' = [pc EXCEPT ![p] = "store"] /\ UNCHANGED stored
    BY <1>6 DEF TakeSeq, TakeSeqAs
  <2>2. stored \in Seq(Event) /\ next[home[p]] \in Nat /\ MaxSeq(stored) \in Nat /\ UpTo(stored, MaxSeq(stored))
    <3>1. stored \in Seq(Event) /\ next[home[p]] \in Nat
      BY <1>4
    <3> QED
      BY <3>1, MaxSeqBounds DEF UpTo
  <2>3. n \in Nat /\ Below(stored, n)
    <3>1. CASE next[home[p]] # 0
      BY <1>3, <2>2, <3>1 DEF NextSeq
    <3>2. CASE next[home[p]] = 0
      <4>1. MaxSeq(stored) + 1 \in Nat /\ MaxSeq(stored) < MaxSeq(stored) + 1
        BY <2>2
      <4>2. Below(stored, MaxSeq(stored) + 1)
        BY <2>2, <4>1, BelowMore
      <4> QED
        BY <3>2, <4>1, <4>2 DEF NextSeq
    <3> QED
      BY <3>1, <3>2
  <2> HIDE DEF n
  <2>4. n + 1 \in Nat /\ Below(stored, n + 1)
    <3>1. n + 1 \in Nat /\ n < n + 1
      BY <2>3
    <3> QED
      BY <2>2, <2>3, <3>1, BelowMore
  <2>5. ASSUME NEW q \in Publishers PROVE next'[home[q]] = n + 1
    <3>1. home[q] = home[p] /\ home[p] \in Workers
      BY <1>4
    <3> QED
      BY <2>1, <3>1
  <2>6. ASSUME NEW q \in Publishers, pc'[q] = "store" PROVE q = p
    <3> SUFFICES ASSUME q # p PROVE FALSE
      OBVIOUS
    <3>1. pc[q] = "store"
      BY <2>1, <2>6
    <3>2. lock[home[q]] = q /\ home[q] = home[p]
      BY <1>4, <3>1 DEF LockInv
    <3> QED
      BY <2>1, <3>2
  <2>7. seq'[p] = n
    BY <2>1
  <2> QED
    BY <1>1, <1>3, <2>1, <2>3, <2>4, <2>5, <2>6, <2>7
<1>7. ASSUME NEW p \in Publishers, TakeSeqFault(p) PROVE FALSE
  BY <1>2, <1>7 DEF TakeSeqFault
<1>8. ASSUME NEW p \in Publishers, StoreEvent(p)
      PROVE  /\ Increasing(stored')
             /\ \A q \in Publishers :
                  /\ pc'[q] = "store" => Below(stored', seq'[q]) /\ next'[home'[q]] = seq'[q] + 1
                  /\ next'[home'[q]] # 0 => Below(stored', next'[home'[q]])
  <2> DEFINE e == Current(p)
  <2>1. /\ pc[p] = "store" /\ pc' = [pc EXCEPT ![p] = "snapshot"] /\ stored' = Append(stored, e)
        /\ UNCHANGED <<home, next, seq>>
    BY <1>2, <1>8 DEF StoreEvent
  <2>2. e \in Event /\ e.seq = seq[p]
    BY <2>1, CurrentIsEvent
  <2> HIDE DEF e
  <2>3. Below(stored, seq[p]) /\ next[home[p]] = seq[p] + 1 /\ seq[p] \in Nat /\ stored \in Seq(Event)
    BY <1>3, <2>1
  <2>4. Increasing(Append(stored, e))
    BY <1>3, <2>2, <2>3, IncreasingAppend
  <2>5. Below(Append(stored, e), seq[p] + 1)
    <3>1. seq[p] + 1 \in Nat /\ seq[p] < seq[p] + 1
      BY <2>3
    <3>2. Below(stored, seq[p] + 1)
      BY <2>3, <3>1, BelowMore
    <3> QED
      BY <2>2, <2>3, <3>1, <3>2, BelowAppend
  <2>6. ASSUME NEW q \in Publishers PROVE next[home[q]] = seq[p] + 1
    BY <1>4, <2>3
  <2>7. ASSUME NEW q \in Publishers PROVE pc'[q] # "store"
    <3>1. CASE q = p
      BY <2>1, <3>1
    <3>2. CASE q # p
      <4>1. lock[home[p]] = p /\ home[q] = home[p]
        BY <1>4, <2>1 DEF LockInv
      <4>2. pc[q] = "idle"
        BY <3>2, <4>1 DEF LockInv
      <4> QED
        BY <2>1, <3>2, <4>2
    <3> QED
      BY <3>1, <3>2
  <2> QED
    BY <2>1, <2>4, <2>5, <2>6, <2>7
<1>9. ASSUME NEW p \in Publishers, Snapshot(p) \/ Deliver(p)
      PROVE  UNCHANGED <<stored, seq, next>> /\ \A q \in Publishers : pc'[q] = "store" => pc[q] = "store"
  BY <1>9 DEF Snapshot, Deliver
<1>10. ASSUME NEW w \in Workers, Restart(w)
       PROVE  /\ UNCHANGED <<stored, seq>>
              /\ \A q \in Publishers : /\ pc'[q] = "store" => pc[q] = "store" /\ next'[home[q]] = next[home[q]]
                                       /\ next'[home[q]] # 0 => next'[home[q]] = next[home[q]]
  BY <1>4, <1>10 DEF Restart
<1>11. ASSUME NEW c \in Clients,
              Restore(c) \/ Connect(c) \/ List(c) \/ Receive(c) \/ Register(c) \/ Drop(c)
       PROVE  UNCHANGED <<stored, seq, next, pc>>
  BY <1>11 DEF Restore, Connect, List, Receive, Register, Drop
<1>12. ASSUME UNCHANGED <<stored, seq, next>>, \A q \in Publishers : pc'[q] = "store" => pc[q] = "store"
       PROVE  /\ Increasing(stored')
              /\ \A q \in Publishers :
                   /\ pc'[q] = "store" => Below(stored', seq'[q]) /\ next'[home'[q]] = seq'[q] + 1
                   /\ next'[home'[q]] # 0 => Below(stored', next'[home'[q]])
  BY <1>5, <1>12
<1> QED
  BY <1>5, <1>6, <1>7, <1>8, <1>9, <1>10, <1>11, <1>12 DEF BusNext, PublisherStep

\* Nothing is stored or sent at the start.
LEMMA BusBegins ==
  ASSUME BusInit
  PROVE  BusInv /\ OrderInv
<1> USE CopilotEventsAssumption
<1>1. \A p \in Publishers : Len(Script[p]) \in Nat
  BY LenProperties
<1>2. BusTypes
  BY <1>1, EmptySeq DEF BusInit, BusTypes, EventsTypeOK, Phases
<1>3. LockInv /\ OpenInv /\ StoredInv /\ TargetInv
  BY DEF BusInit, LockInv, OpenInv, StoredInv, TargetInv
<1>4. SeenInv
  BY DEF BusInit, SeenInv, Begun, UpTo
<1>5. SentOnceInv
  BY DEF BusInit, SentOnceInv, NoTwice, Apart, Before
<1>6. OrderInv
  BY DEF BusInit, OrderInv, Increasing, Below
<1> QED
  BY <1>2, <1>3, <1>4, <1>5, <1>6 DEF BusInv

\* Nothing changes when no variable does.
LEMMA BusStutter ==
  ASSUME BusInv, OrderInv, UNCHANGED eventVars
  PROVE  BusInv' /\ OrderInv'
<1> USE DEF eventVars
<1>1. BusTypes'
  BY DEF BusInv, BusTypes, EventsTypeOK
<1>2. LockInv' /\ OpenInv' /\ StoredInv' /\ TargetInv'
  BY DEF BusInv, LockInv, OpenInv, StoredInv, TargetInv
<1>3. SeenInv'
  BY DEF BusInv, SeenInv
<1>4. SentOnceInv'
  BY DEF BusInv, SentOnceInv, Coming
<1>5. OrderInv'
  BY DEF OrderInv, Calm
<1> QED
  BY <1>1, <1>2, <1>3, <1>4, <1>5 DEF BusInv

\* Every step keeps the invariant.
LEMMA BusStep ==
  ASSUME BusInv, OrderInv, BusNext
  PROVE  BusInv' /\ OrderInv'
<1>1. NoTwice(stored)
  BY DEF BusInv, StoredInv, NoTwice
<1>2. BusTypes'
  BY <1>1, BusTypesKept DEF BusInv
<1> QED
  BY <1>2, LockKept, OpenKept, StoredKept, SeenKept, TargetKept, SentOnceKept, OrderKept DEF BusInv

\* The inductive invariant of the event stream.
THEOREM BusInvariant == BusSpec => [](BusInv /\ OrderInv)
<1>1. BusInv /\ OrderInv /\ [BusNext]_eventVars => (BusInv /\ OrderInv)'
  BY BusStutter, BusStep
<1> QED
  BY <1>1, BusBegins, PTL DEF BusSpec

\* Every variable of the event stream keeps its type.
THEOREM EventsTypes == BusSpec => []EventsTypeOK
<1>1. BusInv => EventsTypeOK
  BY DEF BusInv, BusTypes
<1> QED
  BY <1>1, BusInvariant, PTL

\* However many workers, publishers and clients there are, and whatever restarts,
\* reconnects and failed calls do: no client is sent the same event twice.
THEOREM EventsOnce == BusSpec => []NoEventTwice
<1>1. BusInv => NoEventTwice
  BY DEF BusInv, SentOnceInv, NoTwice, NoEventTwice
<1> QED
  BY <1>1, BusInvariant, PTL

\* While no call fails, one process numbers the stored events of a run in the order in
\* which it stores them, restarts included.
THEOREM EventsInOrder == BusSpec => []StoredInOrder
<1>1. OrderInv => StoredInOrder
  BY DEF OrderInv, Calm, Increasing, StoredInOrder
<1> QED
  BY <1>1, BusInvariant, PTL
=============================================================================
