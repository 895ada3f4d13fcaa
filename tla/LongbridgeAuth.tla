--------------------------- MODULE LongbridgeAuth ---------------------------
(***************************************************************************)
(* The LongBridge OpenAPI authorization: one JSON file holds the client,   *)
(* the token set and the pending authorizations; the SDK reads a token     *)
(* cache of its own.  Every operation of LongbridgeOpenAPIOAuthService     *)
(* reads the whole file, talks to the authorization server, and saves the  *)
(* whole state it has read; nothing serialises the threads of the backend. *)
(***************************************************************************)
EXTENDS Naturals, FiniteSets

CONSTANTS
    Threads,    \* threads of the backend
    MaxTokens,  \* bound: token responses of the authorization server
    MaxLinks,   \* bound: authorizations that are started
    MaxOps,     \* bound: operations that are begun
    MaxFaults   \* bound: lost answers and failing writes of the SDK cache

ASSUME AuthAssumption ==
    /\ MaxTokens \in Nat \ {0}
    /\ {MaxLinks, MaxOps, MaxFaults} \subseteq Nat

VARIABLES
    file,    \* what the JSON file holds
    sdk,     \* access token in the SDK's cache, 0 when there is no cache file
    server,  \* tokens issued, refresh tokens that are still good, redeemed links
    age,     \* of each access token
    links,   \* authorizations started; their pending state may have lapsed
    lapsed,
    op,      \* the operation of a thread: where it is and what it has read
    ops, faults,
    overlapped,  \* some save put back what was read before another save
    mishap       \* an answer of the server was lost, or the SDK cache not written

authVars == <<file, sdk, server, age, links, lapsed, op, ops, faults, overlapped, mishap>>

\* Tokens are numbered as the server issues them; a response without a refresh
\* token leaves the previous one in place.
Tokens == 1..MaxTokens
TokenSet == [access : 0..MaxTokens, refresh : 0..MaxTokens]
NoTokens == [access |-> 0, refresh |-> 0]

\* The client id, the tokens, the pending states; last_error is only displayed.
FileState == [client : BOOLEAN, token : TokenSet, pending : SUBSET (1..MaxLinks)]
EmptyFile == [client |-> FALSE, token |-> NoTokens, pending |-> {}]

\* An operation: what it has read, and whether that was saved over since; what
\* get_access_token had read before the refresh; how the last one ended.
Kinds == {"none", "start", "complete", "get", "refresh", "disconnect"}
NoOp == [kind |-> "none", pc |-> "idle", link |-> 0, new |-> NoTokens,
         snap |-> EmptyFile, stale |-> FALSE, old |-> EmptyFile, oldStale |-> FALSE,
         ret |-> "none"]

Idle(t) == op[t].pc = "idle"

Init ==
    /\ \/ /\ file = EmptyFile /\ sdk = 0
          /\ server = [issued |-> 0, live |-> {}, redeemed |-> {}]
       \/ /\ file = [client |-> TRUE, token |-> [access |-> 1, refresh |-> 1], pending |-> {}]
          /\ sdk = 1
          /\ server = [issued |-> 1, live |-> {1}, redeemed |-> {}]
    /\ age = [n \in Tokens |-> "fresh"]
    /\ links = 0 /\ lapsed = {}
    /\ op = [t \in Threads |-> NoOp]
    /\ ops = 0 /\ faults = 0
    /\ overlapped = FALSE /\ mishap = FALSE

----------------------------------------------------------------------------
Pruned(s) == [s EXCEPT !.pending = @ \ lapsed]

Begin(t) ==
    /\ Idle(t) /\ ops < MaxOps
    /\ ops' = ops + 1

\* A thread goes on with what it has just read.
Reads(t, kind, pc, s) ==
    op' = [op EXCEPT ![t] = 
        [NoOp EXCEPT !.kind = kind, !.pc = pc, !.snap = s,
                     !.old = IF kind = "get" THEN s ELSE EmptyFile]]
Goes(t, pc) == op' = [op EXCEPT ![t].pc = pc]

\* get_access_token is over: with a token, with none, or with an exception; of the
\* other operations nobody asks.
Returning(t, ret) == [NoOp EXCEPT !.ret = IF op[t].kind = "get" THEN ret ELSE "none"]
Returns(t, ret) == op' = [op EXCEPT ![t] = Returning(t, ret)]
Raises(t) == Returns(t, "raised")

\* get_access_token catches what refresh_token raises, the routes do not.
RefreshRaises(t) == IF op[t].kind = "get" THEN Goes(t, "failed") ELSE Raises(t)

Fault == faults < MaxFaults /\ faults' = faults + 1

\* store.save replaces the file; what other threads have read is then stale.
Save(t, s, stale, next) ==
    /\ file' = s
    /\ overlapped' = (overlapped \/ stale)
    /\ op' = [u \in Threads |->
                IF u = t THEN next
                ELSE IF Idle(u) THEN op[u]
                ELSE [op[u] EXCEPT !.stale = TRUE, !.oldStale = op[u].kind = "get"]]

\* The token endpoint answers with a new access token: for a code, which it takes
\* once, or for a refresh token, which it replaces or leaves out of the answer.
IssueForCode(l, new) ==
    LET n == server.issued + 1 IN
    /\ n <= MaxTokens /\ l \notin server.redeemed
    /\ new = [access |-> n, refresh |-> n]
    /\ server' = [issued |-> n, live |-> server.live \cup {n}, redeemed |-> server.redeemed \cup {l}]
IssueForRefresh(used, new) ==
    LET n == server.issued + 1 IN
    /\ n <= MaxTokens /\ used \in server.live
    /\ \/ /\ new = [access |-> n, refresh |-> n]
          /\ server' = [server EXCEPT !.issued = n, !.live = (@ \ {used}) \cup {n}]
       \/ /\ new = [access |-> n, refresh |-> used]
          /\ server' = [server EXCEPT !.issued = n]

----------------------------------------------------------------------------
(***************************************************************************)
(* The operations.                                                         *)
(***************************************************************************)

\* start_authorization: without a client id one is registered and saved first.
StartAuthorization(t) ==
    /\ Begin(t)
    /\ links + Cardinality({u \in Threads : op[u].kind = "start"}) < MaxLinks
    /\ Reads(t, "start", IF file.client THEN "pend" ELSE "register", Pruned(file))
    /\ UNCHANGED <<file, sdk, server, age, links, lapsed, faults, overlapped, mishap>>

RegisterClient(t) ==
    /\ op[t].pc = "register"
    /\ LET s == [op[t].snap EXCEPT !.client = TRUE] IN
       \/ /\ Save(t, s, op[t].stale, [op[t] EXCEPT !.pc = "pend", !.snap = s])
          /\ UNCHANGED faults
       \/ Fault /\ Raises(t) /\ UNCHANGED <<file, overlapped>>
    /\ UNCHANGED <<sdk, server, age, links, lapsed, ops, mishap>>

SavePending(t) ==
    /\ op[t].pc = "pend"
    /\ links' = links + 1
    /\ Save(t, [op[t].snap EXCEPT !.pending = @ \cup {links + 1}], op[t].stale, NoOp)
    /\ UNCHANGED <<sdk, server, age, lapsed, ops, faults, mishap>>

\* PENDING_STATE_TTL_SECONDS pass.
Lapse ==
    /\ \E l \in (1..links) \ lapsed : lapsed' = lapsed \cup {l}
    /\ UNCHANGED <<file, sdk, server, age, links, op, ops, faults, overlapped, mishap>>

\* complete_authorization: the browser comes back with a state and a code.
CompleteAuthorization(t) ==
    /\ Begin(t)
    /\ \E l \in 1..links :
        LET s == Pruned(file) IN
        IF l \in s.pending /\ s.client
        THEN op' = [op EXCEPT ![t] = [NoOp EXCEPT !.kind = "complete", !.pc = "exchange",
                                          !.snap = s, !.link = l]]
        ELSE Raises(t)
    /\ UNCHANGED <<file, sdk, server, age, links, lapsed, faults, overlapped, mishap>>

\* The server takes a code once; it may refuse, or fail before it has acted.
ExchangeCode(t) ==
    /\ op[t].pc = "exchange"
    /\ \/ /\ \E new \in TokenSet :
              /\ IssueForCode(op[t].link, new)
              /\ op' = [op EXCEPT ![t].pc = "save", ![t].new = new]
          /\ UNCHANGED <<faults, mishap>>
       \/ Raises(t) /\ UNCHANGED <<server, faults, mishap>>
       \/ /\ Fault /\ Raises(t) /\ mishap' = TRUE
          /\ \E new \in TokenSet : IssueForCode(op[t].link, new)
    /\ UNCHANGED <<file, sdk, age, links, lapsed, ops, overlapped>>

\* A due token may be past its end already: then it is not handed out.
Leftover == {"token", "none"}

\* get_access_token decides by the age of the token it has read.
ReadAccessToken(t) ==
    LET s == Pruned(file) token == s.token IN
    /\ Idle(t)
    /\ IF ~s.client \/ token.access = 0 THEN op' = [op EXCEPT ![t] = NoOp]
       ELSE IF age[token.access] = "fresh" THEN Reads(t, "get", "share", s)
       ELSE IF token.refresh = 0
            THEN \E ret \in Leftover : op' = [op EXCEPT ![t] = [NoOp EXCEPT !.ret = ret]]
       ELSE Reads(t, "get", "read", s)
    /\ UNCHANGED <<file, sdk, server, age, links, lapsed, faults, overlapped, mishap>>
GetAccessToken(t) == Begin(t) /\ ReadAccessToken(t)

\* A fresh token is put into the SDK's cache before it is returned; that write is
\* outside of any try.
ShareToken(t) ==
    /\ op[t].pc = "share"
    /\ \/ /\ sdk' = op[t].snap.token.access
          /\ overlapped' = (overlapped \/ op[t].stale)
          /\ Returns(t, "token")
          /\ UNCHANGED faults
       \/ Fault /\ Raises(t) /\ UNCHANGED <<sdk, overlapped>>
    /\ UNCHANGED <<file, server, age, links, lapsed, ops, mishap>>

\* The refresh an administrator asks for.
AdminRefresh(t) ==
    /\ Begin(t)
    /\ Reads(t, "refresh", "read", file)
    /\ UNCHANGED <<file, sdk, server, age, links, lapsed, faults, overlapped, mishap>>

\* refresh_token reads the file again.
ReadForRefresh(t) ==
    /\ op[t].pc = "read"
    /\ IF file.client /\ file.token.refresh # 0
       THEN op' = [op EXCEPT ![t].pc = "post", ![t].snap = file, ![t].stale = FALSE]
       ELSE RefreshRaises(t)
    /\ UNCHANGED <<file, sdk, server, age, links, lapsed, ops, faults, overlapped, mishap>>

\* The answer is a token set, an error (always, when the refresh token was used
\* before), or it is lost after the server has acted.
PostRefresh(t) ==
    LET used == op[t].snap.token.refresh IN
    /\ op[t].pc = "post"
    /\ \/ /\ \E new \in TokenSet :
              /\ IssueForRefresh(used, new)
              /\ op' = [op EXCEPT ![t].pc = "save", ![t].new = new]
          /\ UNCHANGED <<faults, mishap>>
       \/ RefreshRaises(t) /\ UNCHANGED <<server, faults, mishap>>
       \/ /\ Fault /\ RefreshRaises(t)
          /\ mishap' = TRUE
          /\ \E new \in TokenSet : IssueForRefresh(used, new)
    /\ UNCHANGED <<file, sdk, age, links, lapsed, ops, overlapped>>

\* Mutant: the refresh token that was used stays in the file.
SaveAccessOnly(t) ==
    /\ op[t].pc = "save"
    /\ LET kept == IF op[t].kind = "complete" THEN op[t].new.refresh ELSE op[t].snap.token.refresh
           s == [op[t].snap EXCEPT !.token = [access |-> op[t].new.access, refresh |-> kept],
                                   !.pending = @ \ {op[t].link}]
       IN  Save(t, s, op[t].stale, [op[t] EXCEPT !.pc = "sync", !.snap = s, !.new = NoTokens, !.stale = FALSE])
    /\ UNCHANGED <<sdk, server, age, links, lapsed, ops, faults, mishap>>

\* The new tokens are saved with everything else as it was read.
SaveTokens(t) ==
    /\ op[t].pc = "save"
    /\ LET s == [op[t].snap EXCEPT !.token = op[t].new, !.pending = @ \ {op[t].link}] IN
       Save(t, s, op[t].stale, [op[t] EXCEPT !.pc = "sync", !.snap = s, !.new = NoTokens, !.stale = FALSE])
    /\ UNCHANGED <<sdk, server, age, links, lapsed, ops, faults, mishap>>

\* sync_sdk_token_cache after the save.
SyncSdk(t) ==
    /\ op[t].pc = "sync"
    /\ \/ /\ sdk' = op[t].snap.token.access
          /\ overlapped' = (overlapped \/ op[t].stale)
          /\ Returns(t, "token")
          /\ UNCHANGED <<faults, mishap>>
       \/ /\ Fault /\ mishap' = TRUE
          /\ RefreshRaises(t)
          /\ UNCHANGED <<sdk, overlapped>>
    /\ UNCHANGED <<file, server, age, links, lapsed, ops>>

\* The except branch of get_access_token saves the state that was read before the
\* refresh, with the error in it, and falls back on the old token.
RefreshFailed(t) ==
    /\ op[t].pc = "failed"
    /\ \E ret \in Leftover : Save(t, op[t].old, op[t].oldStale, Returning(t, ret))
    /\ UNCHANGED <<sdk, server, age, links, lapsed, ops, faults, mishap>>

\* disconnect: clear_token reads and saves, then the SDK's cache is removed.
Disconnect(t) ==
    /\ Begin(t)
    /\ Reads(t, "disconnect", "clear", file)
    /\ UNCHANGED <<file, sdk, server, age, links, lapsed, faults, overlapped, mishap>>

ClearToken(t) ==
    /\ op[t].pc = "clear"
    /\ LET s == [op[t].snap EXCEPT !.token = NoTokens, !.pending = {}] IN
       Save(t, s, op[t].stale,
            IF s.client THEN [op[t] EXCEPT !.pc = "unlink", !.stale = FALSE] ELSE NoOp)
    /\ UNCHANGED <<sdk, server, age, links, lapsed, ops, faults, mishap>>

\* An OSError of unlink is swallowed.
UnlinkSdk(t) ==
    /\ op[t].pc = "unlink"
    /\ \/ /\ sdk' = 0
          /\ overlapped' = (overlapped \/ op[t].stale)
          /\ UNCHANGED <<faults, mishap>>
       \/ Fault /\ mishap' = TRUE /\ UNCHANGED <<sdk, overlapped>>
    /\ Returns(t, "none")
    /\ UNCHANGED <<file, server, age, links, lapsed, ops>>

\* Time passes: a token has TOKEN_REFRESH_SKEW_SECONDS left, or less, or none.
Ages(n) ==
    /\ n <= server.issued /\ age[n] = "fresh"
    /\ age' = [age EXCEPT ![n] = "due"]
    /\ UNCHANGED <<file, sdk, server, links, lapsed, op, ops, faults, overlapped, mishap>>

\* A thread that has begun an operation goes on with it.
AuthStep(t) ==
    \/ RegisterClient(t) \/ SavePending(t) \/ ExchangeCode(t)
    \/ ShareToken(t) \/ ReadForRefresh(t) \/ PostRefresh(t) \/ SaveTokens(t)
    \/ SyncSdk(t) \/ RefreshFailed(t) \/ ClearToken(t) \/ UnlinkSdk(t)

AdminBegins(t) ==
    StartAuthorization(t) \/ CompleteAuthorization(t) \/ AdminRefresh(t) \/ Disconnect(t)

Time == Lapse \/ \E n \in Tokens : Ages(n)

Next ==
    \/ \E t \in Threads : AdminBegins(t) \/ GetAccessToken(t) \/ AuthStep(t)
    \/ Time

Spec == Init /\ [][Next]_authVars

----------------------------------------------------------------------------
(***************************************************************************)
(* Properties.                                                             *)
(***************************************************************************)

\* Types of the variables.
AuthTypeOK ==
    /\ file \in FileState
    /\ sdk \in 0..MaxTokens
    /\ server.issued \in 0..MaxTokens /\ server.live \subseteq Tokens
    /\ age \in [Tokens -> {"fresh", "due"}]
    /\ links \in 0..MaxLinks /\ lapsed \subseteq 1..links
    /\ \A t \in Threads :
        op[t].kind \in Kinds /\ op[t].ret \in {"token", "none", "raised"} /\ op[t].snap \in FileState /\ op[t].old \in FileState

Quiet == \A t \in Threads : Idle(t)

\* As long as no save put back what had been read before another save, and no
\* answer was lost: the file holds a refresh token the server still takes, or
\* nobody is authorised (a refresh that rotates the token never loses it), and
\* the SDK works with the token of the file, after a disconnect with none.
TokensAgree ==
    Quiet /\ ~overlapped /\ ~mishap =>
        /\ file.token.refresh # 0 => file.token.refresh \in server.live
        /\ sdk = file.token.access
=============================================================================
