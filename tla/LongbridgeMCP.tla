---------------------------- MODULE LongbridgeMCP ----------------------------
(***************************************************************************)
(* LongbridgeMCPClient on top of the authorization: threads of the agents  *)
(* call tools, each call asks for an access token, initialises the session *)
(* once for all of them under a lock, and posts.  A post that times out or *)
(* fails is repeated a bounded number of times; an error status or an      *)
(* error of the tool ends the call.                                        *)
(***************************************************************************)
EXTENDS LongbridgeAuth

CONSTANTS
    Agents,      \* the threads that call tools
    MaxRetries,  \* config.max_retries
    Nobody       \* the lock is free

ASSUME MCPAssumption == Agents \subseteq Threads /\ MaxRetries \in Nat /\ Nobody \notin Threads

VARIABLES
    initialized, initLock,
    call         \* of a thread: the call, and how the last one ended

mcpVars == <<initialized, initLock, call>>
allVars == <<authVars, mcpVars>>

\* raised: the last call ended with an exception instead of a result.
NoCall == [pc |-> "idle", attempt |-> 0, raised |-> FALSE]

MCPInit ==
    /\ Init
    /\ initialized = FALSE /\ initLock = Nobody
    /\ call = [t \in Threads |-> NoCall]

At(t, pc) == call[t].pc = pc
CallGoes(t, pc) == call' = [call EXCEPT ![t].pc = pc]
CallReturns(t) == call' = [call EXCEPT ![t] = NoCall]
CallRaises(t) == call' = [call EXCEPT ![t] = [NoCall EXCEPT !.raised = TRUE]]
KeepAuth == UNCHANGED authVars

\* get_access_token has ended and its outcome is taken.
TakeToken(t) ==
    /\ Idle(t)
    /\ op' = [op EXCEPT ![t] = NoOp]
    /\ UNCHANGED <<file, sdk, server, age, links, lapsed, ops, faults, overlapped, mishap>>

----------------------------------------------------------------------------
\* call_tool and list_tools begin with the authorization header.
BeginCall(t) ==
    /\ At(t, "idle")
    /\ GetAccessToken(t)
    /\ call' = [call EXCEPT ![t] = [NoCall EXCEPT !.pc = "header"]]
    /\ UNCHANGED <<initialized, initLock>>

\* With a header _ensure_initialized looks at the flag; without one the call ends.
HaveHeader(t) ==
    /\ At(t, "header") /\ TakeToken(t)
    /\ IF op[t].ret = "raised" THEN CallRaises(t)
       ELSE IF op[t].ret = "none" THEN CallReturns(t)
       ELSE CallGoes(t, IF initialized THEN "post" ELSE "lock")
    /\ UNCHANGED <<initialized, initLock>>

\* The lock; the flag once more; a header of its own.
Lock(t) ==
    /\ At(t, "lock") /\ initLock = Nobody
    /\ IF initialized
       THEN CallGoes(t, "post") /\ UNCHANGED initLock /\ KeepAuth
       ELSE /\ initLock' = t /\ CallGoes(t, "initheader")
            /\ ReadAccessToken(t) /\ UNCHANGED ops
    /\ UNCHANGED initialized

\* Mutant: the lock is kept when there is no token.
InitHeaderKeepsLock(t) ==
    /\ At(t, "initheader") /\ TakeToken(t)
    /\ IF op[t].ret # "token"
       THEN CallReturns(t)
       ELSE CallGoes(t, "initialize")
    /\ UNCHANGED <<initialized, initLock>>

InitHeader(t) ==
    /\ At(t, "initheader") /\ TakeToken(t)
    /\ IF op[t].ret = "raised" THEN CallRaises(t)
       ELSE IF op[t].ret = "none" THEN CallReturns(t)
       ELSE CallGoes(t, "initialize")
    /\ initLock' = IF op[t].ret # "token" THEN Nobody ELSE t
    /\ UNCHANGED initialized

\* The initialize request: accepted, or any failure, which ends this call only.
Initialize(t) ==
    /\ At(t, "initialize")
    /\ initLock' = Nobody
    /\ \/ initialized' = TRUE /\ CallGoes(t, "post")
       \/ CallReturns(t) /\ UNCHANGED initialized
    /\ KeepAuth

\* A forbidden tool, an answer, an error in it and an error status end the call.
Post(t) ==
    /\ At(t, "post")
    /\ CallReturns(t)
    /\ UNCHANGED <<initialized, initLock>> /\ KeepAuth

\* A timeout or a broken connection: a tool is tried again until the last attempt.
Retry(t) ==
    /\ At(t, "post") /\ call[t].attempt < MaxRetries
    /\ call' = [call EXCEPT ![t].attempt = @ + 1]
    /\ UNCHANGED <<initialized, initLock>> /\ KeepAuth

CallStep(t) ==
    \/ HaveHeader(t) \/ Lock(t) \/ InitHeader(t) \/ Initialize(t) \/ Post(t) \/ Retry(t)
    \/ AuthStep(t) /\ UNCHANGED mcpVars

MCPNext ==
    \/ \E t \in Agents : BeginCall(t)
    \/ \E t \in Threads \ Agents : AdminBegins(t) /\ UNCHANGED mcpVars
    \/ \E t \in Threads : CallStep(t)
    \/ Time /\ UNCHANGED mcpVars

MCPSpec == MCPInit /\ [][MCPNext]_allVars

\* A thread goes on with what it has begun; calls are bounded, so that the lock is
\* not taken from a waiting thread forever.
FairMCPSpec == MCPSpec /\ \A t \in Agents : WF_allVars(CallStep(t))

----------------------------------------------------------------------------
\* Types of the variables.
MCPTypeOK ==
    /\ AuthTypeOK
    /\ initialized \in BOOLEAN /\ initLock \in Threads \cup {Nobody}
    /\ \A t \in Threads :
        /\ call[t].pc \in {"idle", "header", "lock", "initheader", "initialize", "post"}
        /\ call[t].attempt \in 0..MaxRetries /\ call[t].raised \in BOOLEAN

\* Every call ends: no failure of the token, of the initialisation or of the
\* post leaves the lock taken or retries without end.
CallEnds == \A t \in Agents : call[t].pc # "idle" ~> call[t].pc = "idle"
=============================================================================
