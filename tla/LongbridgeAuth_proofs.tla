----------------------- MODULE LongbridgeAuth_proofs -----------------------
(***************************************************************************)
(* The tokens of the LongBridge authorization agree, for any threads,      *)
(* tokens, authorizations, operations and faults, and also under the calls *)
(* of LongbridgeMCPClient: as long as no save put back what had been read  *)
(* before another save, and no answer of the server was lost.              *)
(***************************************************************************)
EXTENDS LongbridgeMCP, TLAPS

Toks  == [access : Nat, refresh : Nat]
Files == [client : BOOLEAN, token : Toks, pending : SUBSET Nat]
Pcs   == {"idle", "register", "pend", "exchange", "save", "sync", "share", "read", "post",
          "failed", "clear", "unlink"}
Ops   == [kind : Kinds, pc : Pcs, link : Nat, new : Toks, snap : Files, stale : BOOLEAN,
          old : Files, oldStale : BOOLEAN, ret : {"none", "token", "raised"}]

TypeInv ==
    /\ file \in Files
    /\ server \in [issued : Nat, live : SUBSET Nat, redeemed : SUBSET Nat]
    /\ links \in Nat
    /\ op = [t \in Threads |-> op[t]]
    /\ \A t \in Threads : op[t] \in Ops

Clean == ~overlapped /\ ~mishap

\* Without a client there are no tokens.
FileOK(s) == ~s.client => s.token = NoTokens

\* Some other thread has a token set that it is about to save.
Saving(u) == op[u].pc = "save"

\* What a thread has read is what the file holds, unless it was marked as stale, and the
\* refresh token that it is about to save is good, unless somebody else is to save his.
OpOK(t) ==
    LET o == op[t] IN
    /\ FileOK(o.snap) /\ FileOK(o.old)
    /\ o.pc \in {"exchange", "post", "save"} => o.snap.client
    /\ o.pc = "failed" => o.kind = "get"
    /\ ~o.stale /\ o.pc \in {"register", "pend", "share", "sync", "clear"}
         => o.snap.token = file.token
    /\ ~o.oldStale /\ o.kind = "get" /\ o.pc \in {"read", "post", "failed"}
         => o.old.token = file.token
    /\ ~o.stale /\ o.pc = "unlink" => file.token = NoTokens
    /\ ~o.stale /\ Saving(t)
         => o.new.refresh \in server.live \/ \E u \in Threads \ {t} : Saving(u)

AgreeInv ==
    /\ FileOK(file)
    /\ \/ file.token.refresh = 0
       \/ file.token.refresh \in server.live
       \/ \E t \in Threads : Saving(t)
    /\ \/ sdk = file.token.access
       \/ \E t \in Threads : op[t].pc \in {"sync", "unlink"}
    /\ \A t \in Threads : OpOK(t)

TokenInv == TypeInv /\ (Clean => AgreeInv)
-----------------------------------------------------------------------------
\* What is known of an operation.
LEMMA OpFacts ==
  ASSUME NEW o \in Ops
  PROVE  /\ o.kind \in Kinds /\ o.pc \in Pcs /\ o.link \in Nat /\ o.new \in Toks /\ o.snap \in Files
         /\ o.stale \in BOOLEAN /\ o.old \in Files /\ o.oldStale \in BOOLEAN
         /\ o.ret \in {"none", "token", "raised"}
BY DEF Ops

\* The operation of a thread that has none, and the file of a client that has none.
LEMMA NoOpFacts == NoOp \in Ops /\ EmptyFile \in Files /\ NoTokens \in Toks
<1>1. NoTokens \in Toks
  BY DEF NoTokens, Toks
<1>2. EmptyFile \in Files
  BY <1>1 DEF EmptyFile, Files
<1> QED BY <1>1, <1>2 DEF NoOp, Ops, Kinds, Pcs

\* A step of a thread that does not save: the others keep what they have read.
LEMMA MoveKeeps ==
  ASSUME TokenInv, NEW t \in Threads, NEW o \in Ops,
         op' = [op EXCEPT ![t] = o], file' = file,
         server' \in [issued : Nat, live : SUBSET Nat, redeemed : SUBSET Nat], links' \in Nat,
         Clean' =>
           /\ Clean
           /\ AgreeInv => OpOK(t)'
           /\ o.pc = "save" \/ (op[t].pc # "save" /\ server.live \subseteq server'.live)
           /\ \/ o.pc \in {"sync", "unlink"}
              \/ sdk' = sdk /\ op[t].pc \notin {"sync", "unlink"}
              \/ AgreeInv => sdk' = file.token.access
  PROVE  TokenInv'
<1>1. TypeInv /\ (Clean => AgreeInv)
  BY DEF TokenInv
<1>2. /\ op' = [u \in Threads |-> op'[u]] /\ op'[t] = o
      /\ \A u \in Threads \ {t} : op'[u] = op[u]
  BY <1>1 DEF TypeInv
<1>3. TypeInv'
  BY <1>1, <1>2 DEF TypeInv
<1>4. ASSUME Clean' PROVE AgreeInv'
  <2>1. AgreeInv /\ OpOK(t)'
    BY <1>1, <1>4
  <2>2. FileOK(file)'
    BY <2>1 DEF AgreeInv, FileOK
  <2>3. \/ file'.token.refresh = 0 \/ file'.token.refresh \in server'.live
        \/ \E u \in Threads : Saving(u)'
    BY <1>2, <1>4, <2>1 DEF AgreeInv, Saving
  <2>4. \/ sdk' = file'.token.access
        \/ \E u \in Threads : op'[u].pc \in {"sync", "unlink"}
    BY <1>2, <1>4, <2>1 DEF AgreeInv
  <2>5. ASSUME NEW u \in Threads \ {t} PROVE OpOK(u)'
    <3>1. OpOK(u) /\ op'[u] = op[u]
      BY <1>2, <2>1 DEF AgreeInv
    <3>2. Saving(u) /\ ~op[u].stale
            => op[u].new.refresh \in server.live \/ \E v \in Threads \ {u} : Saving(v)
      BY <3>1 DEF OpOK
    <3>3. ~op'[u].stale /\ Saving(u)'
            => op'[u].new.refresh \in server'.live \/ \E v \in Threads \ {u} : Saving(v)'
      BY <1>2, <1>4, <3>1, <3>2 DEF Saving
    <3> QED BY <3>1, <3>3 DEF OpOK, FileOK
  <2> QED BY <2>1, <2>2, <2>3, <2>4, <2>5 DEF AgreeInv
<1> QED BY <1>3, <1>4 DEF TokenInv

\* A step of a thread that saves the file: what the others have read is stale.
LEMMA SaveKeeps ==
  ASSUME TokenInv, NEW t \in Threads, NEW s \in Files, NEW stale \in BOOLEAN, NEW next \in Ops,
         Save(t, s, stale, next), sdk' = sdk, server' = server, links' \in Nat, mishap' = mishap,
         AgreeInv /\ ~stale =>
           /\ FileOK(s) /\ OpOK(t)'
           /\ \/ s.token.refresh = 0 \/ s.token.refresh \in server.live
              \/ next.pc = "save" \/ \E u \in Threads \ {t} : Saving(u)
           /\ \/ next.pc \in {"sync", "unlink"}
              \/ s.token.access = file.token.access /\ op[t].pc \notin {"sync", "unlink"}
  PROVE  TokenInv'
<1>1. TypeInv /\ (Clean => AgreeInv)
  BY DEF TokenInv
<1>2. ASSUME NEW u \in Threads \ {t}
      PROVE  op'[u] = IF op[u].pc = "idle" THEN op[u]
                      ELSE [op[u] EXCEPT !.stale = TRUE, !.oldStale = op[u].kind = "get"]
  BY DEF Save, Idle
<1>3. op'[t] = next /\ file' = s /\ op' = [u \in Threads |-> op'[u]]
  BY DEF Save
<1>4. ASSUME NEW u \in Threads \ {t}
      PROVE  /\ op'[u] \in Ops /\ op'[u].pc = op[u].pc /\ op'[u].kind = op[u].kind
             /\ op'[u].snap = op[u].snap /\ op'[u].old = op[u].old
             /\ op[u].pc # "idle" => op'[u].stale
             /\ op[u].pc # "idle" /\ op[u].kind = "get" => op'[u].oldStale
  <2> DEFINE got == op[u].kind = "get"
             marked == [op[u] EXCEPT !.stale = TRUE, !.oldStale = got]
  <2>1. op[u] \in Ops /\ got \in BOOLEAN /\ (op[u].kind = "get" => got)
    BY <1>1 DEF TypeInv
  <2>2. op'[u] = IF op[u].pc = "idle" THEN op[u] ELSE marked
    BY <1>2
  <2> HIDE DEF got
  <2>3. /\ marked \in Ops /\ marked.stale = TRUE /\ marked.oldStale = got
        /\ marked.kind = op[u].kind /\ marked.pc = op[u].pc
        /\ marked.snap = op[u].snap /\ marked.old = op[u].old
    BY <2>1 DEF Ops
  <2> HIDE DEF marked
  <2>4. CASE op[u].pc = "idle"
    BY <2>1, <2>2, <2>4
  <2>5. CASE op[u].pc # "idle"
    BY <2>1, <2>2, <2>3, <2>5
  <2> QED BY <2>4, <2>5
<1>5. TypeInv'
  BY <1>1, <1>3, <1>4 DEF TypeInv
<1>6. ASSUME Clean' PROVE AgreeInv'
  <2>1. Clean /\ ~stale
    BY <1>6 DEF Clean, Save
  <2>2. AgreeInv /\ FileOK(s) /\ OpOK(t)'
    BY <1>1, <2>1
  <2>3. \/ file'.token.refresh = 0 \/ file'.token.refresh \in server'.live
        \/ \E u \in Threads : Saving(u)'
    BY <1>3, <1>4, <2>1, <2>2 DEF Saving
  <2>4. \/ sdk' = file'.token.access
        \/ \E u \in Threads : op'[u].pc \in {"sync", "unlink"}
    BY <1>3, <1>4, <2>1, <2>2 DEF AgreeInv
  <2>5. ASSUME NEW u \in Threads \ {t} PROVE OpOK(u)'
    <3>1. OpOK(u)
      BY <2>2 DEF AgreeInv
    <3> QED BY <1>4, <3>1 DEF OpOK, Saving, FileOK
  <2>6. FileOK(file)'
    BY <1>3, <2>2 DEF FileOK
  <2> QED BY <2>2, <2>3, <2>4, <2>5, <2>6 DEF AgreeInv
<1> QED BY <1>5, <1>6 DEF TokenInv

\* A thread without an operation holds nothing that could be wrong.
LEMMA IdleOK ==
  ASSUME NEW o \in Ops, NEW t \in Threads, op'[t] = o,
         o.pc = "idle", o.snap = EmptyFile, o.old = EmptyFile
  PROVE  OpOK(t)'
BY DEF OpOK, FileOK, Saving, EmptyFile, NoTokens

\* An operation that ends without a save: the lost answers and the SDK cache that is not
\* written are mishaps.
LEMMA ReturnKeeps ==
  ASSUME TokenInv, NEW t \in Threads, NEW ret \in {"none", "token", "raised"},
         op' = [op EXCEPT ![t] = [NoOp EXCEPT !.ret = ret]],
         file' = file, links' = links,
         server' \in [issued : Nat, live : SUBSET Nat, redeemed : SUBSET Nat],
         op[t].pc # "save",
         Clean' =>
           /\ Clean /\ server.live \subseteq server'.live
           /\ \/ sdk' = sdk /\ op[t].pc \notin {"sync", "unlink"}
              \/ AgreeInv => sdk' = file.token.access
  PROVE  TokenInv'
<1> DEFINE o == [NoOp EXCEPT !.ret = ret]
<1>1. o \in Ops /\ o.pc = "idle" /\ o.snap = EmptyFile /\ o.old = EmptyFile
  BY NoOpFacts DEF NoOp, Ops
<1>2. links' \in Nat /\ op'[t] = o
  BY DEF TokenInv, TypeInv
<1> HIDE DEF o
<1>3. OpOK(t)'
  BY <1>1, <1>2, IdleOK
<1>4. op' = [op EXCEPT ![t] = o]
  BY DEF o
<1> QED BY <1>1, <1>2, <1>3, <1>4, MoveKeeps

\* A thread that has read the file and will go on.
LEMMA ReadKeeps ==
  ASSUME TokenInv, NEW t \in Threads, NEW kind \in Kinds, NEW s \in Files,
         NEW pc \in {"register", "pend", "share", "read", "clear"},
         Reads(t, kind, pc, s), s.client = file.client, s.token = file.token,
         op[t].pc = "idle",
         file' = file, sdk' = sdk, server' = server, links' = links,
         overlapped' = overlapped, mishap' = mishap
  PROVE  TokenInv'
<1> DEFINE old == IF kind = "get" THEN s ELSE EmptyFile
           o == [NoOp EXCEPT !.kind = kind, !.pc = pc, !.snap = s, !.old = old]
<1>1. op' = [op EXCEPT ![t] = o]
  BY DEF Reads
<1>2. old \in Files /\ (kind = "get" => old = s) /\ (kind # "get" => old = EmptyFile)
  BY NoOpFacts
<1> HIDE DEF old
<1>3. pc \in Pcs
  BY DEF Pcs
<1>4. /\ o \in Ops /\ o.kind = kind /\ o.pc = pc /\ o.snap = s /\ o.old = old
      /\ o.stale = FALSE /\ o.oldStale = FALSE
  BY <1>2, <1>3, NoOpFacts DEF NoOp, Ops
<1>5. op'[t] = o /\ links' \in Nat
  BY <1>1 DEF TokenInv, TypeInv
<1> HIDE DEF o
<1>6. ASSUME AgreeInv PROVE OpOK(t)'
  <2>1. FileOK(s) /\ FileOK(old)
    BY <1>2, <1>6 DEF AgreeInv, FileOK, EmptyFile
  <2>2. o.pc \notin {"exchange", "post", "save", "failed", "unlink"}
    BY <1>4
  <2> QED BY <1>2, <1>4, <1>5, <2>1, <2>2 DEF OpOK, Saving, FileOK
<1>7. server' \in [issued : Nat, live : SUBSET Nat, redeemed : SUBSET Nat] /\ (Clean' => Clean)
  BY DEF TokenInv, TypeInv, Clean
<1> QED BY <1>1, <1>4, <1>5, <1>6, <1>7, MoveKeeps

\* Without the lapsed states a file is a file with the same client and tokens.
LEMMA PrunedFile ==
  ASSUME NEW s \in Files
  PROVE  Pruned(s) \in Files /\ Pruned(s).client = s.client /\ Pruned(s).token = s.token
BY DEF Pruned, Files

-----------------------------------------------------------------------------
(***************************************************************************)
(* Every operation keeps the invariant.                                    *)
(***************************************************************************)

\* get_access_token takes the file and its age: it ends or goes on.
LEMMA ReadAccessKeeps ==
  ASSUME TokenInv, NEW t \in Threads, ReadAccessToken(t)
  PROVE  TokenInv'
<1> DEFINE s == Pruned(file)
<1>1. file \in Files /\ op[t].pc = "idle"
  BY DEF TokenInv, TypeInv, ReadAccessToken, Idle
<1>2. s \in Files /\ s.client = file.client /\ s.token = file.token
  BY <1>1, PrunedFile
<1>3. UNCHANGED <<file, sdk, server, links, overlapped, mishap>>
  BY DEF ReadAccessToken
<1>4. \/ op' = [op EXCEPT ![t] = NoOp]
      \/ \E ret \in Leftover : op' = [op EXCEPT ![t] = [NoOp EXCEPT !.ret = ret]]
      \/ \E pc \in {"share", "read"} : Reads(t, "get", pc, s)
  <2>1. IF ~s.client \/ s.token.access = 0 THEN op' = [op EXCEPT ![t] = NoOp]
        ELSE IF age[s.token.access] = "fresh" THEN Reads(t, "get", "share", s)
        ELSE IF s.token.refresh = 0
             THEN \E ret \in Leftover : op' = [op EXCEPT ![t] = [NoOp EXCEPT !.ret = ret]]
        ELSE Reads(t, "get", "read", s)
    BY DEF ReadAccessToken
  <2> HIDE DEF s
  <2>2. op' = [op EXCEPT ![t] = NoOp] \/ Reads(t, "get", "share", s) \/ Reads(t, "get", "read", s)
        \/ \E ret \in Leftover : op' = [op EXCEPT ![t] = [NoOp EXCEPT !.ret = ret]]
    BY Zenon, <2>1
  <2> QED BY Zenon, <2>2
<1>5. NoOp = [NoOp EXCEPT !.ret = "none"]
  <2>1. NoOp \in Ops /\ NoOp.ret = "none"
    BY NoOpFacts DEF NoOp
  <2> QED BY <2>1 DEF Ops
<1>6. server \in [issued : Nat, live : SUBSET Nat, redeemed : SUBSET Nat]
  BY DEF TokenInv, TypeInv
<1> HIDE DEF s
<1>7. ASSUME NEW ret \in {"none", "token", "raised"}, op' = [op EXCEPT ![t] = [NoOp EXCEPT !.ret = ret]]
      PROVE  TokenInv'
  BY <1>1, <1>3, <1>6, <1>7, ReturnKeeps DEF Clean
<1>8. ASSUME NEW pc \in {"share", "read"}, Reads(t, "get", pc, s) PROVE TokenInv'
  BY <1>1, <1>2, <1>3, <1>8, ReadKeeps DEF Kinds
<1> QED BY <1>4, <1>5, <1>7, <1>8 DEF Leftover

\* An operation of the administrator begins.
LEMMA AdminKeeps ==
  ASSUME TokenInv, NEW t \in Threads, AdminBegins(t)
  PROVE  TokenInv'
<1>1. file \in Files /\ op[t].pc = "idle" /\ UNCHANGED <<file, sdk, server, links, overlapped, mishap>>
  BY DEF TokenInv, TypeInv, AdminBegins, StartAuthorization, CompleteAuthorization, AdminRefresh,
         Disconnect, Begin, Idle
<1>2. Pruned(file) \in Files /\ Pruned(file).client = file.client /\ Pruned(file).token = file.token
  BY <1>1, PrunedFile
<1>3. CASE StartAuthorization(t)
  <2>1. PICK pc \in {"register", "pend"} : Reads(t, "start", pc, Pruned(file))
    BY <1>3 DEF StartAuthorization
  <2> QED BY <1>1, <1>2, <2>1, ReadKeeps DEF Kinds
<1>4. CASE CompleteAuthorization(t)
  <2> DEFINE s == Pruned(file)
  <2>1. PICK l \in 1..links :
          IF l \in s.pending /\ s.client
          THEN op' = [op EXCEPT ![t] = [NoOp EXCEPT !.kind = "complete", !.pc = "exchange",
                                          !.snap = s, !.link = l]]
          ELSE Raises(t)
    BY <1>4 DEF CompleteAuthorization
  <2>2. CASE l \in s.pending /\ s.client
    <3> DEFINE o == [NoOp EXCEPT !.kind = "complete", !.pc = "exchange", !.snap = s, !.link = l]
    <3>1. op' = [op EXCEPT ![t] = o]
      BY <2>1, <2>2
    <3>2. l \in Nat
      BY DEF TokenInv, TypeInv
    <3>3. s \in Files /\ s.client = file.client /\ s.token = file.token
      BY <1>2
    <3> HIDE DEF s
    <3>4. /\ o \in Ops /\ o.kind = "complete" /\ o.pc = "exchange" /\ o.snap = s /\ o.old = EmptyFile
          /\ o.stale = FALSE /\ o.oldStale = FALSE
      BY <3>2, <3>3, NoOpFacts DEF NoOp, Ops, Kinds, Pcs
    <3>5. op'[t] = o /\ links' \in Nat
            /\ server' \in [issued : Nat, live : SUBSET Nat, redeemed : SUBSET Nat]
      BY <1>1, <3>1 DEF TokenInv, TypeInv
    <3> HIDE DEF o
    <3>6. AgreeInv => OpOK(t)'
      BY <2>2, <3>3, <3>4, <3>5 DEF AgreeInv, OpOK, FileOK, Saving, EmptyFile
    <3> QED BY <1>1, <3>1, <3>4, <3>5, <3>6, MoveKeeps DEF Clean
  <2>3. CASE ~(l \in s.pending /\ s.client)
    <3>1. Raises(t)
      BY <2>1, <2>3
    <3>2. PICK ret \in {"raised", "none"} : op' = [op EXCEPT ![t] = [NoOp EXCEPT !.ret = ret]]
      BY <3>1 DEF Raises, Returns, Returning
    <3>3. server \in [issued : Nat, live : SUBSET Nat, redeemed : SUBSET Nat]
      BY DEF TokenInv, TypeInv
    <3> QED BY <1>1, <3>2, <3>3, ReturnKeeps DEF Clean
  <2> QED BY <2>2, <2>3
<1>5. CASE AdminRefresh(t)
  BY <1>1, <1>5, ReadKeeps DEF AdminRefresh, Kinds
<1>6. CASE Disconnect(t)
  BY <1>1, <1>6, ReadKeeps DEF Disconnect, Kinds
<1> QED BY <1>3, <1>4, <1>5, <1>6 DEF AdminBegins

\* An exception: get_access_token goes on to its except branch, any other operation ends.
LEMMA RaiseKeeps ==
  ASSUME TokenInv, NEW t \in Threads, RefreshRaises(t), op[t].pc \in {"read", "post", "sync"},
         file' = file, sdk' = sdk, links' = links, overlapped' = overlapped,
         server' \in [issued : Nat, live : SUBSET Nat, redeemed : SUBSET Nat],
         mishap' \/ (mishap' = mishap /\ server' = server /\ op[t].pc # "sync")
  PROVE  TokenInv'
<1>0. op[t] \in Ops /\ links' \in Nat
  BY DEF TokenInv, TypeInv
<1>1. CASE op[t].kind = "get"
  <2> DEFINE o == [op[t] EXCEPT !.pc = "failed"]
  <2>1. op' = [op EXCEPT ![t] = o] /\ op'[t] = o
    BY <1>1 DEF RefreshRaises, Goes, TokenInv, TypeInv
  <2>2. /\ o \in Ops /\ o.kind = "get" /\ o.pc = "failed" /\ o.snap = op[t].snap /\ o.old = op[t].old
        /\ o.stale = op[t].stale /\ o.oldStale = op[t].oldStale
    BY <1>0, <1>1 DEF Ops, Pcs
  <2> HIDE DEF o
  <2>3. ASSUME ~mishap', AgreeInv PROVE OpOK(t)'
    <3>1. OpOK(t) /\ op[t].pc \in {"read", "post"}
      BY <2>3 DEF AgreeInv
    <3> QED BY <1>1, <2>1, <2>2, <3>1 DEF OpOK, FileOK, Saving
  <2>4. Clean' => Clean /\ ~mishap' /\ server' = server /\ op[t].pc \in {"read", "post"}
    BY DEF Clean
  <2> QED BY <1>0, <2>1, <2>2, <2>3, <2>4, MoveKeeps
<1>2. CASE op[t].kind # "get"
  <2>1. op' = [op EXCEPT ![t] = [NoOp EXCEPT !.ret = "none"]]
    BY <1>2 DEF RefreshRaises, Raises, Returns, Returning
  <2>2. Clean' => Clean /\ server' = server /\ op[t].pc \in {"read", "post"}
    BY DEF Clean
  <2> QED BY <2>1, <2>2, ReturnKeeps
<1> QED BY <1>1, <1>2

\* The file is saved with the tokens that it has.
LEMMA SaveSameKeeps ==
  ASSUME TokenInv, NEW t \in Threads, NEW s \in Files, NEW stale \in BOOLEAN, NEW next \in Ops,
         Save(t, s, stale, next), sdk' = sdk, server' = server, links' \in Nat, mishap' = mishap,
         op[t].pc \notin {"save", "sync", "unlink"},
         AgreeInv /\ ~stale => s.token = file.token /\ FileOK(s) /\ OpOK(t)'
  PROVE  TokenInv'
<1>1. ASSUME AgreeInv, ~stale
      PROVE  /\ FileOK(s) /\ OpOK(t)'
             /\ \/ s.token.refresh = 0 \/ s.token.refresh \in server.live
                \/ \E u \in Threads \ {t} : Saving(u)
             /\ s.token.access = file.token.access /\ op[t].pc \notin {"sync", "unlink"}
  BY <1>1 DEF AgreeInv, Saving
<1> QED BY <1>1, SaveKeeps

\* The first save of start_authorization, or a registration that fails.
LEMMA RegisterKeeps ==
  ASSUME TokenInv, NEW t \in Threads, RegisterClient(t)
  PROVE  TokenInv'
<1> DEFINE s == [op[t].snap EXCEPT !.client = TRUE]
           o == [op[t] EXCEPT !.pc = "pend", !.snap = s]
<1>1. op[t] \in Ops /\ op[t].pc = "register" /\ UNCHANGED <<sdk, server, links, mishap>>
  BY DEF TokenInv, TypeInv, RegisterClient
<1>2. Save(t, s, op[t].stale, o) \/ (Raises(t) /\ UNCHANGED <<file, overlapped>>)
  BY DEF RegisterClient
<1>3. op[t].snap \in Files /\ op[t].stale \in BOOLEAN /\ links' \in Nat
  BY <1>1, OpFacts DEF TokenInv, TypeInv
<1>4. s \in Files /\ s.client = TRUE /\ s.token = op[t].snap.token
  BY <1>3 DEF Files
<1> HIDE DEF s
<1>5. /\ o \in Ops /\ o.pc = "pend" /\ o.snap = s /\ o.old = op[t].old
  BY <1>1, <1>4 DEF Ops, Pcs
<1> HIDE DEF o
<1>6. CASE Save(t, s, op[t].stale, o)
  <2>1. op'[t] = o /\ file' = s
    BY <1>6 DEF Save
  <2>2. AgreeInv /\ ~op[t].stale => s.token = file.token /\ FileOK(s) /\ OpOK(t)'
    BY <1>1, <1>4, <1>5, <2>1 DEF AgreeInv, OpOK, FileOK, Saving
  <2> QED BY <1>1, <1>3, <1>4, <1>5, <1>6, <2>2, SaveSameKeeps
<1>7. CASE Raises(t) /\ UNCHANGED <<file, overlapped>>
  <2>1. PICK ret \in {"raised", "none"} : op' = [op EXCEPT ![t] = [NoOp EXCEPT !.ret = ret]]
    BY <1>7 DEF Raises, Returns, Returning
  <2>2. server' \in [issued : Nat, live : SUBSET Nat, redeemed : SUBSET Nat]
    BY <1>1 DEF TokenInv, TypeInv
  <2> QED BY <1>1, <1>7, <2>1, <2>2, ReturnKeeps DEF Clean
<1> QED BY <1>2, <1>6, <1>7

\* The second: the state of the new authorization.
LEMMA PendingKeeps ==
  ASSUME TokenInv, NEW t \in Threads, SavePending(t)
  PROVE  TokenInv'
<1> DEFINE s == [op[t].snap EXCEPT !.pending = @ \cup {links + 1}]
<1>1. op[t] \in Ops /\ op[t].pc = "pend" /\ UNCHANGED <<sdk, server, mishap>> /\ links' \in Nat
  BY DEF TokenInv, TypeInv, SavePending
<1>2. Save(t, s, op[t].stale, NoOp)
  BY DEF SavePending
<1>3. op[t].snap \in Files /\ op[t].stale \in BOOLEAN /\ links + 1 \in Nat
  BY <1>1, OpFacts DEF TokenInv, TypeInv
<1>4. s \in Files /\ s.client = op[t].snap.client /\ s.token = op[t].snap.token
  BY <1>3 DEF Files
<1> HIDE DEF s
<1>5. op'[t] = NoOp /\ NoOp.pc = "idle" /\ NoOp.snap = EmptyFile /\ NoOp.old = EmptyFile
  BY <1>2 DEF Save, NoOp
<1>6. NoOp \in Ops /\ OpOK(t)'
  BY <1>5, NoOpFacts, IdleOK
<1>7. AgreeInv /\ ~op[t].stale => s.token = file.token /\ FileOK(s)
  BY <1>1, <1>4 DEF AgreeInv, OpOK, FileOK
<1> QED BY <1>1, <1>2, <1>3, <1>4, <1>6, <1>7, SaveSameKeeps

\* The except branch: the file as it was read before the refresh.
LEMMA FailedKeeps ==
  ASSUME TokenInv, NEW t \in Threads, RefreshFailed(t)
  PROVE  TokenInv'
<1>1. op[t] \in Ops /\ op[t].pc = "failed" /\ UNCHANGED <<sdk, server, links, mishap>> /\ links' \in Nat
  BY DEF TokenInv, TypeInv, RefreshFailed
<1>2. PICK ret \in {"token", "none"} :
        Save(t, op[t].old, op[t].oldStale, [NoOp EXCEPT !.ret = ret])
  <2>1. PICK left \in Leftover : Save(t, op[t].old, op[t].oldStale, Returning(t, left))
    BY DEF RefreshFailed
  <2>2. Returning(t, left) = [NoOp EXCEPT !.ret = left] \/ Returning(t, left) = [NoOp EXCEPT !.ret = "none"]
    BY DEF Returning
  <2> QED BY <2>1, <2>2 DEF Leftover
<1> DEFINE o == [NoOp EXCEPT !.ret = ret]
<1>3. o \in Ops /\ o.pc = "idle" /\ o.snap = EmptyFile /\ o.old = EmptyFile
  BY NoOpFacts DEF NoOp, Ops
<1>4. op[t].old \in Files /\ op[t].oldStale \in BOOLEAN
  BY <1>1, OpFacts
<1>5. op'[t] = o
  BY <1>2 DEF Save
<1>6. Save(t, op[t].old, op[t].oldStale, o)
  BY <1>2
<1> HIDE DEF o
<1>7. OpOK(t)'
  BY <1>3, <1>5, IdleOK
<1>8. AgreeInv /\ ~op[t].oldStale => op[t].old.token = file.token /\ FileOK(op[t].old)
  BY <1>1 DEF AgreeInv, OpOK
<1> QED BY <1>1, <1>3, <1>4, <1>6, <1>7, <1>8, SaveSameKeeps

\* The tokens of the answer replace those of the file.
LEMMA TokensKeep ==
  ASSUME TokenInv, NEW t \in Threads, SaveTokens(t)
  PROVE  TokenInv'
<1> DEFINE s == [op[t].snap EXCEPT !.token = op[t].new, !.pending = @ \ {op[t].link}]
           o == [op[t] EXCEPT !.pc = "sync", !.snap = s, !.new = NoTokens, !.stale = FALSE]
<1>1. op[t] \in Ops /\ op[t].pc = "save" /\ UNCHANGED <<sdk, server, links, mishap>> /\ links' \in Nat
  BY DEF TokenInv, TypeInv, SaveTokens
<1>2. Save(t, s, op[t].stale, o)
  BY DEF SaveTokens
<1>3. op[t].snap \in Files /\ op[t].new \in Toks /\ op[t].stale \in BOOLEAN
  BY <1>1, OpFacts
<1>4. s \in Files /\ s.client = op[t].snap.client /\ s.token = op[t].new
  BY <1>3 DEF Files
<1> HIDE DEF s
<1>5. o \in Ops /\ o.pc = "sync" /\ o.snap = s /\ o.old = op[t].old
  BY <1>1, <1>4, NoOpFacts DEF Ops, Pcs
<1> HIDE DEF o
<1>6. op'[t] = o /\ file' = s
  BY <1>2 DEF Save
<1>7. ASSUME AgreeInv, ~op[t].stale
      PROVE  /\ FileOK(s) /\ OpOK(t)'
             /\ s.token.refresh \in server.live \/ \E u \in Threads \ {t} : Saving(u)
  <2>1. OpOK(t)
    BY <1>7 DEF AgreeInv
  <2>2. FileOK(s) /\ (s.token.refresh \in server.live \/ \E u \in Threads \ {t} : Saving(u))
    BY <1>1, <1>4, <1>7, <2>1 DEF OpOK, FileOK, Saving
  <2>3. OpOK(t)'
    BY <1>1, <1>5, <1>6, <2>1, <2>2 DEF OpOK, FileOK, Saving
  <2> QED BY <2>2, <2>3
<1> QED BY <1>1, <1>2, <1>3, <1>4, <1>5, <1>7, SaveKeeps

\* clear_token: nobody is authorised any more.
LEMMA ClearKeeps ==
  ASSUME TokenInv, NEW t \in Threads, ClearToken(t)
  PROVE  TokenInv'
<1> DEFINE s == [op[t].snap EXCEPT !.token = NoTokens, !.pending = {}]
           o == [op[t] EXCEPT !.pc = "unlink", !.stale = FALSE]
<1>1. op[t] \in Ops /\ op[t].pc = "clear" /\ UNCHANGED <<sdk, server, links, mishap>> /\ links' \in Nat
  BY DEF TokenInv, TypeInv, ClearToken
<1>2. Save(t, s, op[t].stale, IF s.client THEN o ELSE NoOp)
  BY DEF ClearToken
<1>3. op[t].snap \in Files /\ op[t].stale \in BOOLEAN
  BY <1>1, OpFacts
<1>4. s \in Files /\ s.client = op[t].snap.client /\ s.token = NoTokens
  BY <1>3, NoOpFacts DEF Files
<1> HIDE DEF s
<1>5. o \in Ops /\ o.pc = "unlink" /\ o.snap = op[t].snap /\ o.old = op[t].old
  BY <1>1 DEF Ops, Pcs
<1> HIDE DEF o
<1>6. NoOp \in Ops /\ NoOp.pc = "idle" /\ NoOp.snap = EmptyFile /\ NoOp.old = EmptyFile
  BY NoOpFacts DEF NoOp
<1>7. FileOK(s)
  BY <1>4 DEF FileOK
<1>8. s.token.refresh = 0 /\ s.token.access = 0 /\ NoTokens.access = 0
  BY <1>4 DEF NoTokens
<1>9. CASE s.client
  <2>1. Save(t, s, op[t].stale, o)
    BY <1>2, <1>9
  <2>2. op'[t] = o /\ file' = s
    BY <2>1 DEF Save
  <2>3. AgreeInv => OpOK(t)'
    BY <1>4, <1>5, <2>2 DEF AgreeInv, OpOK, FileOK, Saving
  <2> QED BY <1>1, <1>3, <1>4, <1>5, <1>7, <1>8, <2>1, <2>3, SaveKeeps
<1>10. CASE ~s.client
  <2>1. Save(t, s, op[t].stale, NoOp)
    BY <1>2, <1>10
  <2>2. op'[t] = NoOp
    BY <2>1 DEF Save
  <2>3. OpOK(t)'
    BY <1>6, <2>2, IdleOK
  <2>4. AgreeInv /\ ~op[t].stale => s.token = file.token
    BY <1>1, <1>4, <1>10 DEF AgreeInv, OpOK, FileOK
  <2> QED BY <1>1, <1>3, <1>4, <1>6, <1>7, <2>1, <2>3, <2>4, SaveSameKeeps
<1> QED BY <1>9, <1>10

\* A step that ends the operation without a save, by an exception or with what it found.
LEMMA EndKeeps ==
  ASSUME TokenInv, NEW t \in Threads, NEW given \in {"none", "token", "raised"}, Returns(t, given),
         file' = file, links' = links,
         server' \in [issued : Nat, live : SUBSET Nat, redeemed : SUBSET Nat],
         op[t].pc # "save",
         Clean' =>
           /\ Clean /\ server.live \subseteq server'.live
           /\ \/ sdk' = sdk /\ op[t].pc \notin {"sync", "unlink"}
              \/ AgreeInv => sdk' = file.token.access
  PROVE  TokenInv'
<1>1. PICK ret \in {"none", given} : op' = [op EXCEPT ![t] = [NoOp EXCEPT !.ret = ret]]
  BY DEF Returns, Returning
<1>2. ret \in {"none", "token", "raised"}
  OBVIOUS
<1> QED BY <1>1, <1>2, ReturnKeeps

\* What the server issues: a good refresh token, and no other is lost but the one used.
LEMMA IssueFacts ==
  ASSUME TokenInv, NEW new \in TokenSet, NEW l, NEW used,
         IssueForCode(l, new) \/ IssueForRefresh(used, new), l \in Nat
  PROVE  /\ server' \in [issued : Nat, live : SUBSET Nat, redeemed : SUBSET Nat]
         /\ new \in Toks /\ new.refresh \in server'.live
<1>1. server \in [issued : Nat, live : SUBSET Nat, redeemed : SUBSET Nat]
  BY DEF TokenInv, TypeInv
<1>2. new \in Toks
  BY AuthAssumption DEF TokenSet, Toks
<1> DEFINE n == server.issued + 1
<1>3. n \in Nat
  BY <1>1
<1>4. CASE IssueForCode(l, new)
  <2>1. new = [access |-> n, refresh |-> n]
        /\ server' = [issued |-> n, live |-> server.live \cup {n}, redeemed |-> server.redeemed \cup {l}]
    BY <1>4 DEF IssueForCode
  <2> HIDE DEF n
  <2> QED BY <1>1, <1>2, <1>3, <2>1
<1>5. CASE IssueForRefresh(used, new)
  <2>1. used \in server.live
        /\ \/ /\ new = [access |-> n, refresh |-> n]
              /\ server' = [server EXCEPT !.issued = n, !.live = (@ \ {used}) \cup {n}]
           \/ new = [access |-> n, refresh |-> used] /\ server' = [server EXCEPT !.issued = n]
    BY <1>5 DEF IssueForRefresh
  <2> DEFINE left == (server.live \ {used}) \cup {n}
  <2>2. left \in SUBSET Nat /\ n \in left
    BY <1>1, <1>3
  <2> HIDE DEF n, left
  <2>3. CASE new = [access |-> n, refresh |-> n] /\ server' = [server EXCEPT !.issued = n, !.live = left]
    BY <1>1, <1>2, <1>3, <2>2, <2>3
  <2>4. CASE new = [access |-> n, refresh |-> used] /\ server' = [server EXCEPT !.issued = n]
    BY <1>1, <1>2, <1>3, <2>1, <2>4
  <2> QED BY <2>1, <2>3, <2>4 DEF left
<1> QED BY <1>4, <1>5

\* The answer of the token endpoint: the thread is about to save the tokens.
LEMMA AnswerKeeps ==
  ASSUME TokenInv, NEW t \in Threads, NEW new \in Toks,
         op[t].pc \in {"exchange", "post"},
         op' = [op EXCEPT ![t].pc = "save", ![t].new = new],
         server' \in [issued : Nat, live : SUBSET Nat, redeemed : SUBSET Nat],
         new.refresh \in server'.live,
         UNCHANGED <<file, sdk, links, overlapped, mishap>>
  PROVE  TokenInv'
<1> DEFINE o == [op[t] EXCEPT !.pc = "save", !.new = new]
<1>1. op[t] \in Ops /\ links' \in Nat
  BY DEF TokenInv, TypeInv
<1>2. op' = [op EXCEPT ![t] = o] /\ op'[t] = o
  BY DEF TokenInv, TypeInv
<1>3. /\ o \in Ops /\ o.pc = "save" /\ o.snap = op[t].snap /\ o.old = op[t].old /\ o.new = new
  BY <1>1 DEF Ops, Pcs
<1> HIDE DEF o
<1>4. AgreeInv => OpOK(t)'
  BY <1>2, <1>3 DEF AgreeInv, OpOK, FileOK, Saving
<1>5. Clean' => Clean
  BY DEF Clean
<1> QED BY <1>1, <1>2, <1>3, <1>4, <1>5, MoveKeeps

\* A code is exchanged.
LEMMA ExchangeKeeps ==
  ASSUME TokenInv, NEW t \in Threads, ExchangeCode(t)
  PROVE  TokenInv'
<1>1. /\ op[t].pc = "exchange" /\ op[t].link \in Nat
      /\ server \in [issued : Nat, live : SUBSET Nat, redeemed : SUBSET Nat]
      /\ UNCHANGED <<file, sdk, links, overlapped>>
  BY DEF TokenInv, TypeInv, ExchangeCode, Ops
<1>2. CASE /\ \E new \in TokenSet :
                IssueForCode(op[t].link, new) /\ op' = [op EXCEPT ![t].pc = "save", ![t].new = new]
           /\ UNCHANGED <<faults, mishap>>
  BY <1>1, <1>2, IssueFacts, AnswerKeeps
<1>3. CASE Raises(t) /\ UNCHANGED <<server, faults, mishap>>
  BY <1>1, <1>3, EndKeeps DEF Raises, Clean
<1>4. CASE Raises(t) /\ mishap' = TRUE /\ \E new \in TokenSet : IssueForCode(op[t].link, new)
  <2>1. server' \in [issued : Nat, live : SUBSET Nat, redeemed : SUBSET Nat]
    BY <1>1, <1>4, IssueFacts
  <2> QED BY <1>1, <1>4, <2>1, EndKeeps DEF Raises, Clean
<1> QED BY <1>2, <1>3, <1>4 DEF ExchangeCode

\* A fresh token is put into the SDK's cache.
LEMMA ShareKeeps ==
  ASSUME TokenInv, NEW t \in Threads, ShareToken(t)
  PROVE  TokenInv'
<1>1. /\ op[t].pc = "share" /\ UNCHANGED <<file, server, links, mishap>>
      /\ server' \in [issued : Nat, live : SUBSET Nat, redeemed : SUBSET Nat]
  BY DEF TokenInv, TypeInv, ShareToken
<1>2. CASE sdk' = op[t].snap.token.access /\ overlapped' = (overlapped \/ op[t].stale) /\ Returns(t, "token")
  <2>1. Clean' => Clean /\ (AgreeInv => sdk' = file.token.access)
    BY <1>1, <1>2 DEF Clean, AgreeInv, OpOK
  <2> QED BY <1>1, <1>2, <2>1, EndKeeps
<1>3. CASE Raises(t) /\ UNCHANGED <<sdk, overlapped>>
  BY <1>1, <1>3, EndKeeps DEF Raises, Clean
<1> QED BY <1>2, <1>3 DEF ShareToken

\* refresh_token reads the file again.
LEMMA ReReadKeeps ==
  ASSUME TokenInv, NEW t \in Threads, ReadForRefresh(t)
  PROVE  TokenInv'
<1> DEFINE o == [op[t] EXCEPT !.pc = "post", !.snap = file, !.stale = FALSE]
<1>1. /\ op[t] \in Ops /\ op[t].pc = "read" /\ file \in Files /\ links' \in Nat
      /\ UNCHANGED <<file, sdk, server, links, overlapped, mishap>>
      /\ server' \in [issued : Nat, live : SUBSET Nat, redeemed : SUBSET Nat]
  BY DEF TokenInv, TypeInv, ReadForRefresh
<1>2. CASE file.client /\ op' = [op EXCEPT ![t].pc = "post", ![t].snap = file, ![t].stale = FALSE]
  <2>1. op' = [op EXCEPT ![t] = o] /\ op'[t] = o
    BY <1>2 DEF TokenInv, TypeInv
  <2>2. /\ o \in Ops /\ o.pc = "post" /\ o.snap = file /\ o.old = op[t].old /\ o.kind = op[t].kind
        /\ o.oldStale = op[t].oldStale
    BY <1>1 DEF Ops, Pcs
  <2> HIDE DEF o
  <2>3. AgreeInv => OpOK(t)'
    BY <1>1, <1>2, <2>1, <2>2 DEF AgreeInv, OpOK, FileOK, Saving
  <2> QED BY <1>1, <2>1, <2>2, <2>3, MoveKeeps DEF Clean
<1>3. CASE RefreshRaises(t)
  BY <1>1, <1>3, RaiseKeeps
<1> QED BY <1>2, <1>3 DEF ReadForRefresh

\* The refresh token is used.
LEMMA PostKeeps ==
  ASSUME TokenInv, NEW t \in Threads, PostRefresh(t)
  PROVE  TokenInv'
<1> DEFINE used == op[t].snap.token.refresh
<1>1. /\ op[t].pc = "post" /\ UNCHANGED <<file, sdk, links, overlapped>>
      /\ server \in [issued : Nat, live : SUBSET Nat, redeemed : SUBSET Nat]
  BY DEF TokenInv, TypeInv, PostRefresh
<1>2. CASE /\ \E new \in TokenSet :
                IssueForRefresh(used, new) /\ op' = [op EXCEPT ![t].pc = "save", ![t].new = new]
           /\ UNCHANGED <<faults, mishap>>
  <2> HIDE DEF used
  <2>1. 0 \in Nat
    OBVIOUS
  <2> QED BY <1>1, <1>2, <2>1, IssueFacts, AnswerKeeps
<1>3. CASE RefreshRaises(t) /\ UNCHANGED <<server, faults, mishap>>
  BY <1>1, <1>3, RaiseKeeps
<1>4. CASE RefreshRaises(t) /\ mishap' = TRUE /\ \E new \in TokenSet : IssueForRefresh(used, new)
  <2> HIDE DEF used
  <2>1. 0 \in Nat
    OBVIOUS
  <2>2. server' \in [issued : Nat, live : SUBSET Nat, redeemed : SUBSET Nat]
    BY <1>1, <1>4, <2>1, IssueFacts
  <2> QED BY <1>1, <1>4, <2>2, RaiseKeeps
<1> QED BY <1>2, <1>3, <1>4 DEF PostRefresh

\* The SDK's cache follows the file.
LEMMA SyncKeeps ==
  ASSUME TokenInv, NEW t \in Threads, SyncSdk(t)
  PROVE  TokenInv'
<1>1. /\ op[t].pc = "sync" /\ UNCHANGED <<file, server, links>>
      /\ server' \in [issued : Nat, live : SUBSET Nat, redeemed : SUBSET Nat]
  BY DEF TokenInv, TypeInv, SyncSdk
<1>2. CASE /\ sdk' = op[t].snap.token.access /\ overlapped' = (overlapped \/ op[t].stale)
           /\ Returns(t, "token") /\ UNCHANGED <<faults, mishap>>
  <2>1. Clean' => Clean /\ (AgreeInv => sdk' = file.token.access)
    BY <1>1, <1>2 DEF Clean, AgreeInv, OpOK
  <2> QED BY <1>1, <1>2, <2>1, EndKeeps
<1>3. CASE mishap' = TRUE /\ RefreshRaises(t) /\ UNCHANGED <<sdk, overlapped>>
  BY <1>1, <1>3, RaiseKeeps
<1> QED BY <1>2, <1>3 DEF SyncSdk

\* The SDK's cache is removed.
LEMMA UnlinkKeeps ==
  ASSUME TokenInv, NEW t \in Threads, UnlinkSdk(t)
  PROVE  TokenInv'
<1>1. /\ op[t].pc = "unlink" /\ UNCHANGED <<file, server, links>> /\ Returns(t, "none")
      /\ server' \in [issued : Nat, live : SUBSET Nat, redeemed : SUBSET Nat]
  BY DEF TokenInv, TypeInv, UnlinkSdk
<1>2. \/ sdk' = 0 /\ overlapped' = (overlapped \/ op[t].stale) /\ mishap' = mishap
      \/ mishap' = TRUE
  BY DEF UnlinkSdk
<1>3. Clean' => Clean /\ (AgreeInv => sdk' = file.token.access)
  <2>1. ASSUME Clean' PROVE Clean /\ sdk' = 0 /\ ~op[t].stale
    <3>1. ~overlapped' /\ mishap' # TRUE /\ ~mishap'
      BY <2>1 DEF Clean
    <3>2. sdk' = 0 /\ overlapped' = (overlapped \/ op[t].stale) /\ mishap' = mishap
      BY <1>2, <3>1
    <3>3. ~overlapped /\ ~op[t].stale
      BY Zenon, <3>1, <3>2
    <3>4. ~mishap
      BY Zenon, <3>1, <3>2
    <3> QED BY <3>2, <3>3, <3>4 DEF Clean
  <2>2. ASSUME AgreeInv, ~op[t].stale PROVE file.token.access = 0
    <3>1. file.token = NoTokens
      BY <1>1, <2>2 DEF AgreeInv, OpOK
    <3> QED BY <3>1 DEF NoTokens
  <2> QED BY <2>1, <2>2
<1> QED BY <1>1, <1>3, EndKeeps

-----------------------------------------------------------------------------
\* A thread goes on with its operation.
LEMMA AuthStepKeeps ==
  ASSUME TokenInv, NEW t \in Threads, AuthStep(t)
  PROVE  TokenInv'
BY RegisterKeeps, PendingKeeps, FailedKeeps, TokensKeep, ClearKeeps, ExchangeKeeps, ShareKeeps,
   ReReadKeeps, PostKeeps, SyncKeeps, UnlinkKeeps DEF AuthStep

\* What the invariant speaks of does not change.
LEMMA StillKept ==
  ASSUME TokenInv, UNCHANGED <<file, sdk, server, links, op, overlapped, mishap>>
  PROVE  TokenInv'
BY DEF TokenInv, TypeInv, Clean, AgreeInv, OpOK, FileOK, Saving

\* Nobody has begun anything.
LEMMA TokenInit == Init => TokenInv
<1> SUFFICES ASSUME Init PROVE TokenInv
  OBVIOUS
<1> DEFINE one == [access |-> 1, refresh |-> 1]
<1>1. one \in Toks /\ one.access = 1 /\ one.refresh = 1
  BY DEF Toks
<1> HIDE DEF one
<1>2. [client |-> TRUE, token |-> one, pending |-> {}] \in Files
  BY <1>1 DEF Files
<1>3. /\ file \in Files /\ FileOK(file) /\ sdk = file.token.access
      /\ file.token.refresh = 0 \/ file.token.refresh \in server.live
      /\ server \in [issued : Nat, live : SUBSET Nat, redeemed : SUBSET Nat]
  <2>1. CASE /\ file = EmptyFile /\ sdk = 0
             /\ server = [issued |-> 0, live |-> {}, redeemed |-> {}]
    BY <2>1, NoOpFacts DEF FileOK, EmptyFile, NoTokens
  <2>2. CASE /\ file = [client |-> TRUE, token |-> one, pending |-> {}]
             /\ sdk = 1 /\ server = [issued |-> 1, live |-> {1}, redeemed |-> {}]
    BY <1>1, <1>2, <2>2 DEF FileOK
  <2> QED BY <2>1, <2>2 DEF Init, one
<1>4. /\ op = [t \in Threads |-> op[t]] /\ \A t \in Threads : op[t] = NoOp
      /\ links \in Nat
  BY DEF Init
<1>5. TypeInv
  BY <1>3, <1>4, NoOpFacts DEF TypeInv
<1>6. \A t \in Threads : OpOK(t)
  BY <1>4 DEF OpOK, FileOK, Saving, NoOp, EmptyFile, NoTokens
<1> QED BY <1>3, <1>5, <1>6 DEF TokenInv, AgreeInv

\* When nobody is at work the invariant says that the tokens agree.
LEMMA AgreeFromInv == TokenInv => TokensAgree
BY DEF TokenInv, AgreeInv, Clean, TokensAgree, Quiet, Idle, Saving

\* For any threads, tokens, authorizations, operations and faults: unless a save put back
\* what was read before another save, or an answer was lost, the file holds a refresh
\* token the server still takes, and the SDK works with the token of the file.
THEOREM RotationLosesNoToken == Spec => []TokensAgree
<1>1. ASSUME TokenInv, [Next]_authVars PROVE TokenInv'
  <2>1. CASE UNCHANGED authVars
    BY <1>1, <2>1, StillKept DEF authVars
  <2>2. ASSUME NEW t \in Threads, AdminBegins(t) \/ GetAccessToken(t) \/ AuthStep(t)
        PROVE  TokenInv'
    BY <1>1, <2>2, AdminKeeps, ReadAccessKeeps, AuthStepKeeps DEF GetAccessToken
  <2>3. CASE Time
    BY <1>1, <2>3, StillKept DEF Time, Lapse, Ages
  <2> QED BY <1>1, <2>1, <2>2, <2>3 DEF Next
<1> QED BY TokenInit, <1>1, AgreeFromInv, PTL DEF Spec

\* The same when the agents' calls use the authorization: for any threads that call tools,
\* initialise the session and repeat posts that time out or fail any number of times.
THEOREM CallsKeepTheTokens == MCPSpec => []TokensAgree
<1>1. MCPInit => TokenInv
  BY TokenInit DEF MCPInit
<1>2. ASSUME TokenInv, [MCPNext]_allVars PROVE TokenInv'
  <2>1. CASE UNCHANGED allVars
    BY <1>2, <2>1, StillKept DEF allVars, authVars
  <2>2. ASSUME NEW t \in Agents, BeginCall(t) PROVE TokenInv'
    BY <1>2, <2>2, MCPAssumption, ReadAccessKeeps DEF BeginCall, GetAccessToken
  <2>3. ASSUME NEW t \in Threads \ Agents, AdminBegins(t) PROVE TokenInv'
    BY <1>2, <2>3, AdminKeeps
  <2>4. ASSUME NEW t \in Threads, CallStep(t) PROVE TokenInv'
    <3>1. CASE AuthStep(t)
      BY <1>2, <3>1, AuthStepKeeps
    <3>2. CASE HaveHeader(t) \/ InitHeader(t)
      <4>1. TakeToken(t)
        BY <3>2 DEF HaveHeader, InitHeader
      <4>2. op' = [op EXCEPT ![t] = [NoOp EXCEPT !.ret = "none"]]
        BY <4>1 DEF TakeToken, NoOp
      <4>3. server \in [issued : Nat, live : SUBSET Nat, redeemed : SUBSET Nat]
        BY <1>2 DEF TokenInv, TypeInv
      <4> QED BY <1>2, <4>1, <4>2, <4>3, ReturnKeeps DEF TakeToken, Idle, Clean
    <3>3. CASE Lock(t)
      BY <1>2, <3>3, ReadAccessKeeps, StillKept DEF Lock, KeepAuth, authVars
    <3>4. CASE Initialize(t) \/ Post(t) \/ Retry(t)
      BY <1>2, <3>4, StillKept DEF Initialize, Post, Retry, KeepAuth, authVars
    <3> QED BY <2>4, <3>1, <3>2, <3>3, <3>4 DEF CallStep
  <2>5. CASE Time
    BY <1>2, <2>5, StillKept DEF Time, Lapse, Ages
  <2> QED BY <1>2, <2>1, <2>2, <2>3, <2>4, <2>5 DEF MCPNext
<1> QED BY <1>1, <1>2, AgreeFromInv, PTL DEF MCPSpec
=============================================================================
