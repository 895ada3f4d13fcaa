----------------------------- MODULE CopilotRun -----------------------------
(***************************************************************************)
(* The runs of one Account Copilot session and everybody who writes them:  *)
(*                                                                         *)
(*   a send       checks that no run is active, creates one, schedules it  *)
(*   the runner   the background task of a run: the ReAct loop, then the   *)
(*                closing writes                                           *)
(*   a cancel     checks that the run is active and marks it cancelled     *)
(*   an approval  checks the pending approval, then rejects or expires it, *)
(*                or marks it approved and schedules the skill             *)
(*                                                                         *)
(* A run document is read and written as a whole without a version, so a   *)
(* repository call is a GET and an INDEX with other writers in between.    *)
(* A call that overwrites every field modelled here (mark_run_completed,   *)
(* mark_run_awaiting_approval) is one step: what it read does not matter.  *)
(***************************************************************************)
EXTENDS Integers, FiniteSets

CONSTANTS
  Sends,           \* requests that send a message; each creates at most one run
  Approvals,       \* requests that answer a pending approval
  Cancels,         \* requests that cancel a run
  MaxRounds,       \* rounds of the ReAct loop
  MemoryFails,     \* TRUE: the memory update after a run may fail
  BackgroundFaults,\* how many calls of a background task may raise
  RequestFaults,   \* how many calls of a request may raise
  NoRun

ASSUME CopilotRunAssumption ==
  /\ MaxRounds \in Nat \ {0}
  /\ MemoryFails \in BOOLEAN
  /\ BackgroundFaults \in Nat
  /\ RequestFaults \in Nat
  /\ Sends # {}
  /\ Sends \cap Approvals = {} /\ Sends \cap Cancels = {} /\ Approvals \cap Cancels = {}

VARIABLES
  run,        \* the stored run of each send
  expired,    \* runs whose approval is past its expires_at
  sender,     \* where a send request is
  runner,     \* where the background task of a run is
  round, stop,\* its round, and what ended its loop
  saved,      \* the status it last wrote: what decides on run_completed
  approver,   \* where an approval request, then its background task, is
  decision,   \* what it came to
  canceller,  \* where a cancel request is
  target,     \* the run an approval or a cancel is about
  copy,       \* the document a thread has read and not yet written back
  events,     \* terminal events published for a run
  late,       \* actions begun for a run after its cancel was stored
  executed,   \* skill executions of a run
  faults, reqFaults

runVars == <<run, expired, sender, runner, round, stop, saved, approver, decision,
             canceller, target, copy, events, late, executed, faults, reqFaults>>

Threads == Sends \cup Approvals \cup Cancels

Active   == {"running", "awaiting_approval"}
Settled  == {"completed", "failed", "cancelled"}
Status   == Active \cup Settled
Pending  == {"none", "pending", "approved", "executed", "failed", "rejected", "expired"}
TERMINAL_EVENTS == {"run_completed", "run_failed", "run_cancelled"}
StopReasons == {"none", "final", "fallback", "approval", "cancelled", "timeout"}

Run == [status: Status, pending: Pending]

ASSUME NoRunAssumption == NoRun \notin Run

RunnerPcs == {"none", "top", "plan", "toolcheck", "act", "check", "close", "timeout_get",
              "timeout_index", "touch", "memory_get", "memory_index", "announce",
              "fail_get", "fail_index", "done"}
ApproverPcs == {"idle", "refuse", "refused", "grant_get", "grant_index", "granted",
                "exec_get", "mark_get", "mark_index", "skill", "close", "announce", "touch",
                "fail_get", "fail_index", "failupd_get", "failupd_index", "done"}

IsRun(r)     == run[r] # NoRun
IsActive(r)  == IsRun(r) /\ run[r].status \in Active
Cancelled(r) == run[r].status = "cancelled"

\* a request the user is still waiting for
Waiting ==
  \/ \E s \in Sends : sender[s] \in {"admitted", "created"}
  \/ \E a \in Approvals : approver[a] \in {"refuse", "refused", "grant_get", "grant_index", "granted"}
  \/ \E c \in Cancels : canceller[c] \in {"checked", "read", "announce"}
-----------------------------------------------------------------------------
(***************************************************************************)
(* What the writes make of a document: mark_run_failed, mark_run_cancelled *)
(* and update_run_fields keep what they do not name from their copy.       *)
(***************************************************************************)
Read(t, r) == copy' = [copy EXCEPT ![t] = run[r]]

Store(t, r, d) ==
  /\ run' = [run EXCEPT ![r] = d]
  /\ copy' = [copy EXCEPT ![t] = NoRun]

Overwrite(r, d) == run' = [run EXCEPT ![r] = d] /\ UNCHANGED copy

\* Mutant: only the runner's own completion is published.
PublishCompletion(r, type) ==
  events' = [events EXCEPT ![r] = IF type = "run_completed" THEN @ \cup {type} ELSE @]

Publish(r, type) == events' = [events EXCEPT ![r] = @ \cup {type}]
-----------------------------------------------------------------------------
(***************************************************************************)
(* Sending a message.                                                      *)
(***************************************************************************)
SendCheck(s) ==
  /\ sender[s] = "idle"
  /\ sender' = [sender EXCEPT ![s] = IF \E r \in Sends : IsActive(r) THEN "done" ELSE "admitted"]
  /\ UNCHANGED <<run, expired, runner, round, stop, saved, approver, decision,
                 canceller, target, copy, events, late, executed, faults, reqFaults>>

\* the user's message, then the run, which is born running
SendCreate(s) ==
  /\ sender[s] = "admitted"
  /\ Overwrite(s, [status |-> "running", pending |-> "none"])
  /\ sender' = [sender EXCEPT ![s] = "created"]
  /\ UNCHANGED <<expired, runner, round, stop, saved, approver, decision,
                 canceller, target, events, late, executed, faults, reqFaults>>

SendSchedule(s) ==
  /\ sender[s] = "created"
  /\ sender' = [sender EXCEPT ![s] = "done"]
  /\ runner' = [runner EXCEPT ![s] = "top"]
  /\ UNCHANGED <<run, expired, round, stop, saved, approver, decision,
                 canceller, target, copy, events, late, executed, faults, reqFaults>>

\* the message update after create_run raises: nobody runs the run
SendFault(s) ==
  /\ sender[s] \in {"admitted", "created"}
  /\ reqFaults < RequestFaults
  /\ reqFaults' = reqFaults + 1
  /\ sender' = [sender EXCEPT ![s] = "done"]
  /\ UNCHANGED <<run, expired, runner, round, stop, saved, approver, decision,
                 canceller, target, copy, events, late, executed, faults>>
-----------------------------------------------------------------------------
(***************************************************************************)
(* The ReAct loop.                                                         *)
(***************************************************************************)
Keep == UNCHANGED <<run, expired, sender, saved, approver, decision, canceller, target,
                    copy, executed, faults, reqFaults>>

RunnerMoves(r, from, to) == runner[r] = from /\ runner' = [runner EXCEPT ![r] = to]

\* the loop ends; the closing check of the route comes next
Stop(r, why) == stop' = [stop EXCEPT ![r] = why]

\* cancel_checker and the clock, before the planner and before a tool
StopsAt(r, from) ==
  /\ RunnerMoves(r, from, "check")
  /\ \/ Cancelled(r) /\ Stop(r, "cancelled") /\ Publish(r, "run_cancelled")
     \/ ~Cancelled(r) /\ Stop(r, "timeout") /\ Publish(r, "run_failed")
  /\ UNCHANGED <<round, late>> /\ Keep

\* Mutant: a round begins without asking cancel_checker.
RoundBeginsUnchecked(r) ==
  /\ RunnerMoves(r, "top", "plan")
  /\ round[r] <= MaxRounds
  /\ UNCHANGED <<round, stop, events, late>> /\ Keep

RoundBegins(r) ==
  /\ RunnerMoves(r, "top", "plan")
  /\ round[r] <= MaxRounds
  /\ ~Cancelled(r)
  /\ UNCHANGED <<round, stop, events, late>> /\ Keep

RoundsExhausted(r) ==
  /\ RunnerMoves(r, "top", "check")
  /\ round[r] > MaxRounds
  /\ Stop(r, "fallback")
  /\ UNCHANGED <<round, events, late>> /\ Keep

\* the planner answers: an answer or a refused skill, an approval to ask for,
\* a tool (checked once more) or a subagent (not checked again)
PlannerAnswers(r) ==
  /\ runner[r] = "plan"
  /\ \/ \E why \in {"final", "fallback", "approval"} :
          Stop(r, why) /\ RunnerMoves(r, "plan", "check")
     \/ \E next \in {"toolcheck", "act"} :
          RunnerMoves(r, "plan", next) /\ UNCHANGED stop
  /\ UNCHANGED <<round, events, late>> /\ Keep

\* the planner fails: the loop announces a failure of its own
PlannerFails(r) ==
  /\ RunnerMoves(r, "plan", "check")
  /\ Stop(r, "fallback")
  /\ Publish(r, "run_failed")
  /\ UNCHANGED <<round, late>> /\ Keep

ToolAllowed(r) ==
  /\ RunnerMoves(r, "toolcheck", "act")
  /\ ~Cancelled(r)
  /\ UNCHANGED <<round, stop, events, late>> /\ Keep

\* the tool or the subagent runs; three empty results in a row end the loop
Act(r) ==
  /\ \/ RunnerMoves(r, "act", "top") /\ UNCHANGED stop
     \/ round[r] >= 3 /\ RunnerMoves(r, "act", "check") /\ Stop(r, "fallback")
  /\ round' = [round EXCEPT ![r] = @ + 1]
  /\ late' = IF Cancelled(r) THEN [late EXCEPT ![r] = @ + 1] ELSE late
  /\ UNCHANGED events /\ Keep

LoopStep(r) ==
  \/ round[r] <= MaxRounds /\ StopsAt(r, "top")
  \/ StopsAt(r, "toolcheck")
  \/ RoundBegins(r)
  \/ RoundsExhausted(r)
  \/ PlannerAnswers(r)
  \/ PlannerFails(r)
  \/ ToolAllowed(r)
  \/ Act(r)
-----------------------------------------------------------------------------
(***************************************************************************)
(* The closing writes of the runner.                                       *)
(***************************************************************************)
KeepLoop == UNCHANGED <<expired, sender, round, stop, approver, decision, canceller,
                        target, late, executed, faults, reqFaults>>

\* the last look before anything is persisted
CloseCheck(r) ==
  /\ runner[r] = "check"
  /\ IF Cancelled(r)
     THEN RunnerMoves(r, "check", "done") /\ Publish(r, "run_cancelled")
     ELSE RunnerMoves(r, "check", "close") /\ UNCHANGED events
  /\ UNCHANGED <<run, copy, saved>> /\ KeepLoop

Outcome(r) ==
  CASE stop[r] = "cancelled" -> [status |-> "cancelled", pending |-> run[r].pending]
    [] stop[r] = "approval"  -> [status |-> "awaiting_approval", pending |-> "pending"]
    [] OTHER                 -> [status |-> "completed", pending |-> "none"]

\* the assistant's message, then the verdict: whatever the document says now
Close(r) ==
  /\ RunnerMoves(r, "close", IF stop[r] = "timeout" THEN "timeout_get" ELSE "touch")
  /\ Overwrite(r, Outcome(r))
  /\ saved' = [saved EXCEPT ![r] = Outcome(r).status]
  /\ UNCHANGED events /\ KeepLoop

\* update_run_fields: RUN_TIMEOUT, and later the memory error; the status goes
\* back as it was read
UpdateGet(r) ==
  /\ \/ RunnerMoves(r, "timeout_get", "timeout_index")
     \/ RunnerMoves(r, "memory_get", "memory_index")
  /\ Read(r, r)
  /\ UNCHANGED <<run, saved, events>> /\ KeepLoop

UpdateIndex(r) ==
  /\ \/ RunnerMoves(r, "timeout_index", "touch")
     \/ RunnerMoves(r, "memory_index", "announce")
  /\ Store(r, r, copy[r])
  /\ saved' = [saved EXCEPT ![r] = copy[r].status]
  /\ UNCHANGED events /\ KeepLoop

\* the session's counters, then the memory update, which may fail
Touch(r) ==
  /\ \/ RunnerMoves(r, "touch", "announce")
     \/ MemoryFails /\ RunnerMoves(r, "touch", "memory_get")
  /\ UNCHANGED <<run, copy, saved, events>> /\ KeepLoop

Announce(r) ==
  /\ RunnerMoves(r, "announce", "done")
  /\ IF saved[r] = "completed" THEN Publish(r, "run_completed") ELSE UNCHANGED events
  /\ UNCHANGED <<run, copy, saved>> /\ KeepLoop

\* the except branch of the background task
FailGet(r) ==
  /\ RunnerMoves(r, "fail_get", "fail_index")
  /\ Read(r, r)
  /\ UNCHANGED <<run, saved, events>> /\ KeepLoop

\* Mutant: the except branch announces the failure and does not store it.
FailIndexAnnounceOnly(r) ==
  /\ RunnerMoves(r, "fail_index", "done")
  /\ Store(r, r, copy[r])
  /\ Publish(r, "run_failed")
  /\ UNCHANGED saved /\ KeepLoop

FailIndex(r) ==
  /\ RunnerMoves(r, "fail_index", "done")
  /\ Store(r, r, [copy[r] EXCEPT !.status = "failed"])
  /\ Publish(r, "run_failed")
  /\ UNCHANGED saved /\ KeepLoop

CloseStep(r) ==
  \/ CloseCheck(r) \/ Close(r) \/ UpdateGet(r) \/ UpdateIndex(r)
  \/ Touch(r) \/ Announce(r) \/ FailGet(r) \/ FailIndex(r)

\* a repository call of the task raises; publish never does
RunnerFault(r) ==
  /\ runner[r] \notin {"none", "plan", "act", "announce", "done"}
  /\ faults < BackgroundFaults
  /\ faults' = faults + 1
  /\ runner' = [runner EXCEPT ![r] = IF @ \in {"fail_get", "fail_index"} THEN "done" ELSE "fail_get"]
  /\ copy' = [copy EXCEPT ![r] = NoRun]
  /\ UNCHANGED <<run, expired, sender, round, stop, saved, approver, decision,
                 canceller, target, events, late, executed, reqFaults>>
-----------------------------------------------------------------------------
(***************************************************************************)
(* Cancelling.                                                             *)
(***************************************************************************)
KeepCancel == UNCHANGED <<expired, sender, runner, round, stop, saved, approver,
                          decision, late, executed, faults, reqFaults>>

CancelMoves(c, from, to) == canceller[c] = from /\ canceller' = [canceller EXCEPT ![c] = to]

CancelCheck(c) ==
  /\ \E r \in Sends :
       /\ IsRun(r)
       /\ CancelMoves(c, "idle", IF IsActive(r) THEN "checked" ELSE "done")
       /\ target' = [target EXCEPT ![c] = r]
  /\ UNCHANGED <<run, copy, events>> /\ KeepCancel

CancelGet(c) ==
  /\ CancelMoves(c, "checked", "read")
  /\ Read(c, target[c])
  /\ UNCHANGED <<run, target, events>> /\ KeepCancel

CancelIndex(c) ==
  /\ CancelMoves(c, "read", "announce")
  /\ Store(c, target[c], [copy[c] EXCEPT !.status = "cancelled"])
  /\ UNCHANGED <<target, events>> /\ KeepCancel

CancelAnnounce(c) ==
  /\ CancelMoves(c, "announce", "done")
  /\ Publish(target[c], "run_cancelled")
  /\ UNCHANGED <<run, copy, target>> /\ KeepCancel

CancelStep(c) == CancelGet(c) \/ CancelIndex(c) \/ CancelAnnounce(c)
-----------------------------------------------------------------------------
(***************************************************************************)
(* Answering a pending approval.                                           *)
(***************************************************************************)
KeepApproval == UNCHANGED <<expired, sender, runner, round, stop, saved, canceller,
                            late, faults, reqFaults>>

ApproverMoves(a, from, to) == approver[a] = from /\ approver' = [approver EXCEPT ![a] = to]

\* Mutant: only the status is validated, as while the skill runs.
ApprovableByStatus(d) == d.status \in {"running", "awaiting_approval"} /\ d.pending # "none"

\* _validate_pending; the approval id and the plan hash are those of the run
Approvable(d) == d.status = "awaiting_approval" /\ d.pending = "pending"

\* handle_approval: one read that everything up to the write is based on
ApprovalGet(a) ==
  /\ \E r \in Sends, approved \in BOOLEAN :
       /\ IsRun(r)
       /\ target' = [target EXCEPT ![a] = r]
       /\ IF ~Approvable(run[r])
          THEN ApproverMoves(a, "idle", "done") /\ UNCHANGED decision
          ELSE /\ decision' = [decision EXCEPT ![a] = IF r \in expired THEN "expired"
                                                       ELSE IF approved THEN "approved" ELSE "rejected"]
               /\ ApproverMoves(a, "idle", IF approved /\ r \notin expired THEN "grant_get" ELSE "refuse")
  /\ UNCHANGED <<run, copy, events, executed>> /\ KeepApproval

\* Mutant: a refusal settles the run and leaves the approval pending.
RefuseStatusOnly(a) ==
  /\ ApproverMoves(a, "refuse", "refused")
  /\ Overwrite(target[a], [status |-> "completed", pending |-> "pending"])
  /\ UNCHANGED <<decision, target, events, executed>> /\ KeepApproval

\* _reject and _expire: the assistant's message, then the verdict
Refuse(a) ==
  /\ ApproverMoves(a, "refuse", "refused")
  /\ Overwrite(target[a], [status |-> "completed", pending |-> decision[a]])
  /\ UNCHANGED <<decision, target, events, executed>> /\ KeepApproval

RefusalAnnounced(a) ==
  /\ ApproverMoves(a, "refused", "done")
  /\ Publish(target[a], "run_completed")
  /\ UNCHANGED <<run, copy, decision, target, executed>> /\ KeepApproval

\* the repository reads of approve_only and of execute_approved_skill
ApproverReads(a) ==
  /\ \/ ApproverMoves(a, "grant_get", "grant_index")
     \/ ApproverMoves(a, "mark_get", "mark_index")
     \/ ApproverMoves(a, "fail_get", "fail_index")
     \/ ApproverMoves(a, "failupd_get", "failupd_index")
  /\ Read(a, target[a])
  /\ UNCHANGED <<run, decision, target, events, executed>> /\ KeepApproval

\* approve_only
Grant(a) ==
  /\ ApproverMoves(a, "grant_index", "granted")
  /\ Store(a, target[a], [status |-> "running", pending |-> "approved"])
  /\ UNCHANGED <<decision, target, events, executed>> /\ KeepApproval

Schedule(a) ==
  /\ ApproverMoves(a, "granted", "exec_get")
  /\ UNCHANGED <<run, copy, decision, target, events, executed>> /\ KeepApproval

\* the guard of the background task, on a fresh read
MayExecute(d) == d.pending = "approved"

ExecCheck(a) ==
  /\ ApproverMoves(a, "exec_get", IF MayExecute(run[target[a]]) THEN "mark_get" ELSE "done")
  /\ UNCHANGED <<run, copy, decision, target, events, executed>> /\ KeepApproval

\* execution_status = running, written with the approval as it was read
MarkExecuting(a) ==
  /\ ApproverMoves(a, "mark_index", "skill")
  /\ Store(a, target[a], [copy[a] EXCEPT !.pending = "approved"])
  /\ UNCHANGED <<decision, target, events, executed>> /\ KeepApproval

Skill(a) ==
  /\ ApproverMoves(a, "skill", "close")
  /\ executed' = [executed EXCEPT ![target[a]] = @ + 1]
  /\ UNCHANGED <<run, copy, decision, target, events>> /\ KeepApproval

ExecClose(a) ==
  /\ ApproverMoves(a, "close", "announce")
  /\ \E p \in {"executed", "failed"} :
       Overwrite(target[a], [status |-> "completed", pending |-> p])
  /\ UNCHANGED <<decision, target, events, executed>> /\ KeepApproval

ExecAnnounce(a) ==
  /\ ApproverMoves(a, "announce", "touch")
  /\ Publish(target[a], "run_completed")
  /\ UNCHANGED <<run, copy, decision, target, executed>> /\ KeepApproval

ExecTouch(a) ==
  /\ ApproverMoves(a, "touch", "done")
  /\ UNCHANGED <<run, copy, decision, target, events, executed>> /\ KeepApproval

\* _handle_execution_failure: two calls, the event only after both
ExecFailIndex(a) ==
  /\ ApproverMoves(a, "fail_index", "failupd_get")
  /\ Store(a, target[a], [copy[a] EXCEPT !.status = "failed"])
  /\ UNCHANGED <<decision, target, events, executed>> /\ KeepApproval

ExecFailUpdate(a) ==
  /\ ApproverMoves(a, "failupd_index", "done")
  /\ Store(a, target[a], [copy[a] EXCEPT !.pending = "failed"])
  /\ Publish(target[a], "run_failed")
  /\ UNCHANGED <<decision, target, executed>> /\ KeepApproval

ApproverStep(a) ==
  \/ Refuse(a) \/ RefusalAnnounced(a) \/ ApproverReads(a) \/ Grant(a) \/ Schedule(a)
  \/ ExecCheck(a) \/ MarkExecuting(a) \/ Skill(a) \/ ExecClose(a) \/ ExecAnnounce(a)
  \/ ExecTouch(a) \/ ExecFailIndex(a) \/ ExecFailUpdate(a)

\* a call of the background task raises; inside of the handler it is swallowed
ExecFault(a) ==
  /\ approver[a] \in {"exec_get", "mark_get", "mark_index", "skill", "close", "touch",
                      "fail_get", "fail_index", "failupd_get", "failupd_index"}
  /\ faults < BackgroundFaults
  /\ faults' = faults + 1
  /\ approver' = [approver EXCEPT ![a] =
       IF @ \in {"fail_get", "fail_index", "failupd_get", "failupd_index"} THEN "done" ELSE "fail_get"]
  /\ copy' = [copy EXCEPT ![a] = NoRun]
  /\ UNCHANGED <<run, expired, sender, runner, round, stop, saved, decision, canceller,
                 target, events, late, executed, reqFaults>>

\* a call of the request raises: the answer is an error, nothing is scheduled
ApprovalFault(a) ==
  /\ approver[a] \in {"refuse", "refused", "grant_get", "grant_index", "granted"}
  /\ reqFaults < RequestFaults
  /\ reqFaults' = reqFaults + 1
  /\ approver' = [approver EXCEPT ![a] = "done"]
  /\ copy' = [copy EXCEPT ![a] = NoRun]
  /\ UNCHANGED <<run, expired, sender, runner, round, stop, saved, decision, canceller,
                 target, events, late, executed, faults>>

\* thirty minutes pass
Expire(r) ==
  /\ IsRun(r) /\ run[r].pending = "pending"
  /\ r \notin expired
  /\ expired' = expired \cup {r}
  /\ UNCHANGED <<run, sender, runner, round, stop, saved, approver, decision, canceller,
                 target, copy, events, late, executed, faults, reqFaults>>
-----------------------------------------------------------------------------
Init ==
  /\ run = [s \in Sends |-> NoRun]
  /\ expired = {}
  /\ sender = [s \in Sends |-> "idle"]
  /\ runner = [s \in Sends |-> "none"]
  /\ round = [s \in Sends |-> 1]
  /\ stop = [s \in Sends |-> "none"]
  /\ saved = [s \in Sends |-> "running"]
  /\ approver = [a \in Approvals |-> "idle"]
  /\ decision = [a \in Approvals |-> "pending"]
  /\ canceller = [c \in Cancels |-> "idle"]
  /\ target = [t \in Approvals \cup Cancels |-> CHOOSE s \in Sends : TRUE]
  /\ copy = [t \in Threads |-> NoRun]
  /\ events = [s \in Sends |-> {}]
  /\ late = [s \in Sends |-> 0]
  /\ executed = [s \in Sends |-> 0]
  /\ faults = 0
  /\ reqFaults = 0

SenderStep(s) == SendCreate(s) \/ SendSchedule(s)
RunnerStep(r) == LoopStep(r) \/ CloseStep(r)

Requests ==
  \/ \E s \in Sends : SendCheck(s) \/ SendFault(s)
  \/ \E a \in Approvals : ApprovalGet(a) \/ ApprovalFault(a)
  \/ \E c \in Cancels : CancelCheck(c)

Next ==
  \/ \E s \in Sends : SenderStep(s) \/ RunnerStep(s) \/ RunnerFault(s) \/ Expire(s)
  \/ \E a \in Approvals : ApproverStep(a) \/ ExecFault(a)
  \/ \E c \in Cancels : CancelStep(c)
  \/ Requests

Spec == Init /\ [][Next]_runVars

\* threads are scheduled, tools, models and skills time out; nobody owes a request
Fairness ==
  /\ \A s \in Sends : WF_runVars(SenderStep(s)) /\ WF_runVars(RunnerStep(s))
  /\ \A a \in Approvals : WF_runVars(ApproverStep(a))
  /\ \A c \in Cancels : WF_runVars(CancelStep(c))

FairSpec == Spec /\ Fairness
-----------------------------------------------------------------------------
(***************************************************************************)
(* Properties.                                                             *)
(***************************************************************************)
\* Every variable keeps its type.
RunTypeOK ==
  /\ run \in [Sends -> Run \cup {NoRun}]
  /\ expired \subseteq Sends
  /\ sender \in [Sends -> {"idle", "admitted", "created", "done"}]
  /\ runner \in [Sends -> RunnerPcs]
  /\ round \in [Sends -> 1 .. MaxRounds + 1]
  /\ stop \in [Sends -> StopReasons]
  /\ saved \in [Sends -> Status]
  /\ approver \in [Approvals -> ApproverPcs]
  /\ decision \in [Approvals -> {"pending", "approved", "rejected", "expired"}]
  /\ canceller \in [Cancels -> {"idle", "checked", "read", "announce", "done"}]
  /\ target \in [Approvals \cup Cancels -> Sends]
  /\ copy \in [Threads -> Run \cup {NoRun}]
  /\ events \in [Sends -> SUBSET TERMINAL_EVENTS]
  /\ late \in [Sends -> Nat]
  /\ executed \in [Sends -> Nat]

\* The answer to an approval decides: a skill runs at most once for a run, since
\* pending_approval goes from pending to approved once and the background task looks
\* at it again, and after a refusal or an expiry it has not run at all.
AnswerDecides ==
  \A r \in Sends :
    executed[r] <= IF IsRun(r) /\ run[r].pending \in {"rejected", "expired"} THEN 0 ELSE 1

\* After a cancel is stored the loop begins at most one more tool or subagent.
CancelStopsRuntime == \A r \in Sends : late[r] <= 1

\* A cancelled run stays cancelled ("the background completion does not
\* overwrite cancelled").
CancelledIsFinal ==
  [][\A r \in Sends : IsRun(r) /\ Cancelled(r) => run'[r].status = "cancelled"]_runVars

StillRunning(r) == IsRun(r) /\ run[r].status = "running"

\* The session as its user may think of it.
Session == INSTANCE CopilotSession WITH Runs <- Sends
=============================================================================
