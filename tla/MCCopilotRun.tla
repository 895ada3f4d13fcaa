---------------------------- MODULE MCCopilotRun ----------------------------
(***************************************************************************)
(* Instances of CopilotRun for TLC. The user is one of two: a patient one, *)
(* who waits for the answer to a request before making the next and        *)
(* cancels nothing, while one of the requests may fail; or a hasty one,    *)
(* with one message, one answer to an approval and one cancel at any       *)
(* moment, while one call of a background task may fail.                   *)
(***************************************************************************)
EXTENDS CopilotRun

CONSTANTS send1, send2, approval1, approval2, cancel1

TwoSends     == {send1, send2}
TwoApprovals == {approval1, approval2}
OneCancel    == {cancel1}

VARIABLE user

Begins(pc) == \E t \in DOMAIN pc : pc[t] = "idle" /\ pc'[t] # "idle"

\* The runs of a patient user come to their answer in the second round.
PatientRounds == 2

Patient ==
  /\ Begins(sender) \/ Begins(approver) => ~Waiting
  /\ \A s \in Sends : round[s] >= PatientRounds => runner'[s] \notin {"toolcheck", "act"}
  /\ UNCHANGED <<canceller, faults>>

Hasty ==
  /\ sender'[send2] = "idle" /\ approver'[approval2] = "idle"
  /\ UNCHANGED reqFaults

MCVars == <<runVars, user>>
MCNext ==
  /\ Next
  /\ UNCHANGED user
  /\ user = "patient" => Patient
  /\ user = "hasty"   => Hasty

\* The fairness of CopilotRun, for the threads of a hasty user.
Scheduled(step) == user = "hasty" /\ step
MCFairness ==
  /\ WF_runVars(Scheduled(SenderStep(send1)))
  /\ WF_runVars(Scheduled(RunnerStep(send1)))
  /\ WF_runVars(Scheduled(ApproverStep(approval1)))
  /\ WF_runVars(Scheduled(CancelStep(cancel1)))

MCInit == Init /\ user \in {"patient", "hasty"}

MCSpec == MCInit /\ [][MCNext]_MCVars /\ MCFairness

\* For a patient user the runs implement the session of CopilotSession: one run
\* at a time, an approval answered once, an ended run left as it is.
PatientSession ==
  /\ user = "patient" => Session!Init
  /\ [][user = "patient" => Session!Next]_run

\* After a hasty cancel is stored the loop begins at most one more tool or
\* subagent; without a request that failed, a run whose background task was
\* started does not stay running, and a settled run is announced.
HastyRunEnds ==
  \A r \in Sends :
    (user = "hasty" /\ runner[r] # "none" /\ StillRunning(r)) ~> ~StillRunning(r)

HastyRunAnnounced ==
  \A r \in Sends :
    (user = "hasty" /\ IsRun(r) /\ run[r].status \in Settled) ~> events[r] # {}
=============================================================================
