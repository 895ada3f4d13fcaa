--------------------------- MODULE CopilotSession ---------------------------
(***************************************************************************)
(* What a copilot session promises its user: one run at a time; a run may  *)
(* stop once to ask for the use of a skill; the answer is taken once; a    *)
(* run that has come to an end stays as it is and lets the next one in.    *)
(* CopilotRun implements this, as long as nothing fails and nobody         *)
(* cancels, with checks, documents and background tasks.                   *)
(***************************************************************************)
CONSTANTS Runs, NoRun

VARIABLE run

Is(r, status, pending) == run[r] = [status |-> status, pending |-> pending]

Become(r, status, pending) ==
  run' = [run EXCEPT ![r] = [status |-> status, pending |-> pending]]

Busy == \E r \in Runs : run[r] # NoRun /\ run[r].status \in {"running", "awaiting_approval"}

Init == run = [r \in Runs |-> NoRun]

Admit(r)  == ~Busy /\ run[r] = NoRun /\ Become(r, "running", "none")
Answer(r) == Is(r, "running", "none") /\ Become(r, "completed", "none")
Ask(r)    == Is(r, "running", "none") /\ Become(r, "awaiting_approval", "pending")
Approve(r) == Is(r, "awaiting_approval", "pending") /\ Become(r, "running", "approved")

Refuse(r) ==
  /\ Is(r, "awaiting_approval", "pending")
  /\ \E p \in {"rejected", "expired"} : Become(r, "completed", p)

UseSkill(r) ==
  /\ Is(r, "running", "approved")
  /\ \E p \in {"executed", "failed"} : Become(r, "completed", p)

Next == \E r \in Runs :
  Admit(r) \/ Answer(r) \/ Ask(r) \/ Approve(r) \/ Refuse(r) \/ UseSkill(r)

Spec == Init /\ [][Next]_run
=============================================================================
