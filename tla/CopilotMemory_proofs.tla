------------------------ MODULE CopilotMemory_proofs ------------------------
(***************************************************************************)
(* What a copilot session remembers, for any requests, any length of the   *)
(* conversation, any faults and any number of messages that are listed.    *)
(***************************************************************************)
EXTENDS CopilotMemory, FiniteSetTheorems, TLAPS

Segments == {m \in [first : Nat, last : Nat] : 1 <= m.first /\ m.first <= m.last}

\* what the first n memories cover
CoversTo(ms, n) == UNION {ms[i].first .. ms[i].last : i \in 1..n}

\* The memories follow each other without a gap, however they overlap.
NoGaps(ms) == \A n \in 1 .. Len(ms) : \E m \in Nat \ {0} : CoversTo(ms, n) = 1..m

\* A session document, stored or in a request's hands, claims what is covered.
DocOK(d) ==
  /\ d \in Session
  /\ 1 .. d.until \subseteq d.shown
  /\ d.shown \subseteq Covers(memories)

Places == {"idle", "posted", "context", "running", "touch_get", "touch_index", "title_index",
           "mem_get", "mem_list", "chat", "list", "update_get", "update_index", "done"}
HoldsCopy == {"context", "touch_index", "title_index", "mem_list", "update_index"}

\* A segment is summarised when all messages before it are, and whoever updates the
\* session has found a memory.
ThreadOK(t) ==
  /\ pc[t] \in Places
  /\ pc[t] \in HoldsCopy => DocOK(copy[t])
  /\ pc[t] = "chat" => segment[t] \in Segments /\ 1 .. (segment[t].first - 1) \subseteq Covers(memories)
  /\ pc[t] = "list" => Len(memories) >= 1
  /\ pc[t] \in {"update_get", "update_index"} => listed[t] \in 1 .. Len(memories)

ShapeInv ==
  /\ posted \in Nat
  /\ memories \in Seq(Segments)
  /\ pc = [t \in Threads |-> pc[t]] /\ copy = [t \in Threads |-> copy[t]]
  /\ segment = [t \in Threads |-> segment[t]] /\ listed = [t \in Threads |-> listed[t]]

CoverInv ==
  /\ ShapeInv
  /\ DocOK(session)
  /\ NoGaps(memories)
  /\ \A t \in Threads : ThreadOK(t)
-----------------------------------------------------------------------------
\* An appended memory adds its messages and leaves the earlier ones in place.
LEMMA AppendCovers ==
  ASSUME NEW ms \in Seq(Segments), NEW m \in Segments
  PROVE  /\ Append(ms, m) \in Seq(Segments) /\ Len(Append(ms, m)) = Len(ms) + 1
         /\ \A n \in 0 .. Len(ms) : CoversTo(Append(ms, m), n) = CoversTo(ms, n)
         /\ CoversTo(Append(ms, m), Len(ms) + 1) = CoversTo(ms, Len(ms)) \cup (m.first .. m.last)
<1>1. Append(ms, m) \in Seq(Segments) /\ Len(Append(ms, m)) = Len(ms) + 1
  OBVIOUS
<1>2. \A i \in 1 .. Len(ms) : Append(ms, m)[i] = ms[i]
  OBVIOUS
<1>3. Append(ms, m)[Len(ms) + 1] = m
  OBVIOUS
<1>4. Len(ms) \in Nat
  OBVIOUS
<1>5. \A n \in 0 .. Len(ms) : CoversTo(Append(ms, m), n) = CoversTo(ms, n)
  BY <1>2, <1>4 DEF CoversTo
<1>6. 1 .. (Len(ms) + 1) = 1 .. Len(ms) \cup {Len(ms) + 1}
  BY <1>4
<1>7. CoversTo(Append(ms, m), Len(ms) + 1) = CoversTo(ms, Len(ms)) \cup (m.first .. m.last)
  BY <1>2, <1>3, <1>6 DEF CoversTo
<1> QED BY <1>1, <1>5, <1>7

\* All memories are the first Len of them, and those that were found are a prefix.
LEMMA CoversFacts ==
  ASSUME NEW ms \in Seq(Segments)
  PROVE  /\ Covers(ms) = CoversTo(ms, Len(ms))
         /\ \A n \in 1 .. Len(ms) : Covers(SubSeq(ms, 1, n)) = CoversTo(ms, n)
         /\ \A n \in 1 .. Len(ms) : CoversTo(ms, n) \subseteq Covers(ms)
         /\ Covers(ms) \subseteq Nat
<1>1. Len(ms) \in Nat /\ DOMAIN ms = 1 .. Len(ms)
  OBVIOUS
<1>2. Covers(ms) = CoversTo(ms, Len(ms))
  BY <1>1 DEF Covers, CoversTo
<1>3. ASSUME NEW n \in 1 .. Len(ms) PROVE Covers(SubSeq(ms, 1, n)) = CoversTo(ms, n)
  <2>1. DOMAIN SubSeq(ms, 1, n) = 1..n /\ \A i \in 1..n : SubSeq(ms, 1, n)[i] = ms[i]
    BY <1>1
  <2> QED BY <2>1 DEF Covers, CoversTo
<1>4. \A n \in 1 .. Len(ms) : CoversTo(ms, n) \subseteq CoversTo(ms, Len(ms))
  BY <1>1 DEF CoversTo
<1>5. \A i \in 1 .. Len(ms) : ms[i].first .. ms[i].last \subseteq Nat
  BY DEF Segments
<1> QED BY <1>1, <1>2, <1>3, <1>4, <1>5 DEF CoversTo

\* The greatest of the first m numbers.
LEMMA GreatestOf ==
  ASSUME NEW m \in Nat \ {0}
  PROVE  (CHOOSE k \in 1..m : \A n \in 1..m : n <= k) = m
OBVIOUS

\* A memory of messages whose predecessors are covered leaves no gap.
LEMMA NoGapsKept ==
  ASSUME NEW ms \in Seq(Segments), NoGaps(ms), NEW m \in Segments,
         1 .. (m.first - 1) \subseteq Covers(ms)
  PROVE  NoGaps(Append(ms, m)) /\ Covers(ms) \subseteq Covers(Append(ms, m))
<1> DEFINE after == Append(ms, m)
<1>1. /\ after \in Seq(Segments) /\ Len(after) = Len(ms) + 1 /\ Len(ms) \in Nat
      /\ \A n \in 0 .. Len(ms) : CoversTo(after, n) = CoversTo(ms, n)
      /\ CoversTo(after, Len(ms) + 1) = CoversTo(ms, Len(ms)) \cup (m.first .. m.last)
  BY AppendCovers
<1>2. Covers(ms) = CoversTo(ms, Len(ms)) /\ Covers(after) = CoversTo(after, Len(ms) + 1)
  BY <1>1, CoversFacts
<1> HIDE DEF after
<1>3. \E k \in Nat \ {0} : CoversTo(after, Len(ms) + 1) = 1..k
  <2>1. m.first \in Nat /\ m.last \in Nat /\ 1 <= m.first /\ m.first <= m.last
    BY DEF Segments
  <2>2. CASE Len(ms) = 0
    <3>1. CoversTo(ms, Len(ms)) = {}
      BY <2>2 DEF CoversTo
    <3>2. m.first = 1
      <4>1. m.first >= 2 => 1 \in 1 .. (m.first - 1)
        BY <2>1
      <4> QED BY <1>2, <2>1, <3>1, <4>1
    <3> QED BY <1>1, <2>1, <3>1, <3>2
  <2>3. CASE Len(ms) # 0
    <3>1. PICK k \in Nat \ {0} : CoversTo(ms, Len(ms)) = 1..k
      BY <1>1, <2>3 DEF NoGaps
    <3>2. m.first <= k + 1
      <4>1. m.first = 1 \/ m.first - 1 \in 1 .. (m.first - 1)
        BY <2>1
      <4> QED BY <1>2, <2>1, <3>1, <4>1
    <3>3. CASE m.last <= k
      <4>1. 1..k \cup (m.first .. m.last) = 1..k
        BY <2>1, <3>3
      <4> QED BY <1>1, <3>1, <4>1
    <3>4. CASE m.last > k
      <4>1. 1..k \cup (m.first .. m.last) = 1 .. m.last
        BY <2>1, <3>2, <3>4
      <4>2. CoversTo(after, Len(ms) + 1) = 1 .. m.last
        BY <1>1, <3>1, <4>1
      <4>3. m.last \in Nat \ {0}
        BY <2>1
      <4> QED BY <4>2, <4>3
    <3> QED BY <2>1, <3>3, <3>4
  <2> QED BY <2>2, <2>3
<1>4. NoGaps(after)
  BY <1>1, <1>3 DEF NoGaps
<1> QED BY <1>1, <1>2, <1>4 DEF after

-----------------------------------------------------------------------------
\* What any step does to the stored documents: one request writes one of them, from what
\* it has in its hands, also when the call then raises.
LEMMA StepFacts ==
  ASSUME CoverInv, Next
  PROVE  /\ posted' \in {posted, posted + 1}
         /\ \/ session' = session
            \/ \E t \in Threads : pc[t] = "touch_index" /\ session' = Touched(t)
            \/ \E t \in Threads : pc[t] = "title_index" /\ session' = copy[t]
            \/ \E t \in Threads : pc[t] = "update_index" /\ session' = Summary(t)
         /\ \/ memories' = memories
            \/ \E t \in Threads : pc[t] = "chat" /\ memories' = Append(memories, segment[t])
<1>1. CASE Step
  BY <1>1 DEF Step, SendStep, MemoryStep, Post, LoadSession, LoadRecent, Finish, Cancel, Decide,
     TouchGet, TouchIndex, TitleGet, TitleIndex, MemoryGet, MemoryList, CreateMemory, NoSummary,
     ListMemories, UpdateGet, UpdateIndex, At, Threads
<1>2. ASSUME NEW t \in Threads, Fault(t)
      PROVE  /\ posted' \in {posted, posted + 1}
             /\ \/ session' = session
                \/ pc[t] = "touch_index" /\ session' = Touched(t)
                \/ pc[t] = "title_index" /\ session' = copy[t]
                \/ pc[t] = "update_index" /\ session' = Summary(t)
             /\ \/ memories' = memories
                \/ pc[t] = "chat" /\ memories' = Append(memories, segment[t])
  BY <1>2 DEF Fault, Effect
<1> QED BY <1>1, <1>2 DEF Next

\* Messages and memories are only ever added, and the stored session stays true.
LEMMA StoredKept ==
  ASSUME CoverInv, Next
  PROVE  /\ posted' \in Nat
         /\ memories' \in Seq(Segments) /\ NoGaps(memories')
         /\ Covers(memories) \subseteq Covers(memories') /\ Len(memories) <= Len(memories')
         /\ DocOK(session)'
<1>1. posted' \in Nat
  BY StepFacts DEF CoverInv, ShapeInv
<1>2. /\ memories' \in Seq(Segments) /\ NoGaps(memories')
      /\ Covers(memories) \subseteq Covers(memories') /\ Len(memories) <= Len(memories')
  <2>1. CASE memories' = memories
    BY <2>1 DEF CoverInv, ShapeInv
  <2>2. ASSUME NEW t \in Threads, pc[t] = "chat", memories' = Append(memories, segment[t])
        PROVE  /\ memories' \in Seq(Segments) /\ NoGaps(memories')
               /\ Covers(memories) \subseteq Covers(memories') /\ Len(memories) <= Len(memories')
    <3>1. segment[t] \in Segments /\ 1 .. (segment[t].first - 1) \subseteq Covers(memories)
      BY <2>2 DEF CoverInv, ThreadOK
    <3>2. memories \in Seq(Segments) /\ NoGaps(memories)
      BY DEF CoverInv, ShapeInv
    <3>3. Append(memories, segment[t]) \in Seq(Segments)
          /\ Len(Append(memories, segment[t])) = Len(memories) + 1 /\ Len(memories) \in Nat
      BY <3>1, <3>2
    <3> QED BY <2>2, <3>1, <3>2, <3>3, NoGapsKept
  <2> QED BY <2>1, <2>2, StepFacts
<1>4. DocOK(session)'
  <2>1. CASE session' = session
    BY <1>2, <2>1 DEF DocOK, CoverInv
  <2>2. ASSUME NEW t \in Threads, pc[t] = "touch_index", session' = Touched(t)
        PROVE  DocOK(session)'
    <3>1. DocOK(copy[t])
      BY <2>2 DEF CoverInv, ThreadOK, HoldsCopy
    <3>2. /\ session' \in Session /\ session'.until = copy[t].until
          /\ session'.shown = copy[t].shown
      BY <2>2, <3>1 DEF DocOK, Touched, Session
    <3> QED BY <1>2, <3>1, <3>2 DEF DocOK
  <2>3. ASSUME NEW t \in Threads, pc[t] = "title_index", session' = copy[t]
        PROVE  DocOK(session)'
    <3>1. DocOK(copy[t])
      BY <2>3 DEF CoverInv, ThreadOK, HoldsCopy
    <3> QED BY <1>2, <2>3, <3>1 DEF DocOK
  <2>4. ASSUME NEW t \in Threads, pc[t] = "update_index", session' = Summary(t)
        PROVE  DocOK(session)'
    <3>1. DocOK(copy[t]) /\ listed[t] \in 1 .. Len(memories)
      BY <2>4 DEF CoverInv, ThreadOK, HoldsCopy
    <3>2. memories \in Seq(Segments) /\ NoGaps(memories)
      BY DEF CoverInv, ShapeInv
    <3>3. Covers(Known(t)) = CoversTo(memories, listed[t])
          /\ CoversTo(memories, listed[t]) \subseteq Covers(memories)
      BY <3>1, <3>2, CoversFacts DEF Known
    <3>4. PICK k \in Nat \ {0} : Covers(Known(t)) = 1..k
      BY <3>1, <3>2, <3>3 DEF NoGaps
    <3>5. LastOf(t) = k
      BY <3>4, GreatestOf DEF LastOf
    <3>6. session' = [copy[t] EXCEPT !.until = k, !.shown = 1..k]
      BY <2>4, <3>4, <3>5 DEF Summary
    <3>7. session' \in Session /\ session'.until = k /\ session'.shown = 1..k
      <4> DEFINE S == 1..k
      <4>1. k \in Nat /\ S \in SUBSET Nat
        OBVIOUS
      <4> HIDE DEF S
      <4>2. session' = [copy[t] EXCEPT !.until = k, !.shown = S]
        BY <3>6 DEF S
      <4> QED BY <3>1, <4>1, <4>2 DEF DocOK, Session, S
    <3> QED BY <1>2, <3>3, <3>4, <3>7 DEF DocOK
  <2> QED BY <2>1, <2>2, <2>3, <2>4, StepFacts
<1> QED BY <1>1, <1>2, <1>4

\* What a request has in its hands stays true as long as it does not move.
LEMMA OthersKept ==
  ASSUME CoverInv, Next, NEW u \in Threads, pc'[u] = pc[u], copy'[u] = copy[u],
         segment'[u] = segment[u], listed'[u] = listed[u]
  PROVE  ThreadOK(u)'
<1>1. Covers(memories) \subseteq Covers(memories') /\ Len(memories) <= Len(memories')
      /\ Len(memories) \in Nat /\ Len(memories') \in Nat
  BY StoredKept DEF CoverInv, ShapeInv
<1>2. ThreadOK(u)
  BY DEF CoverInv
<1>3. DocOK(copy[u]) => DocOK(copy[u])'
  BY <1>1 DEF DocOK
<1> QED BY <1>1, <1>2, <1>3 DEF ThreadOK, DocOK

\* The segment to be summarised next begins where the summarised messages end.
LEMMA NextSegmentFacts ==
  ASSUME CoverInv, NEW d, DocOK(d), Old(d) > 0
  PROVE  /\ NextSegment(d) \in Segments /\ NextSegment(d).last <= Listed
         /\ 1 .. (NextSegment(d).first - 1) \subseteq Covers(memories)
         /\ d.until <= Listed => NextSegment(d).first = d.until + 1
<1> USE MemoryAssumption DEF CoverInv, ShapeInv, Listed, MinOf, MaxOf, RecentCount, SegmentCount
<1>1. d.until \in Nat
  BY DEF DocOK, Session
<1>2. Uncompressed(d) \in Nat /\ Uncompressed(d) \in {1, d.until + 1}
      /\ (d.until <= Listed => Uncompressed(d) = d.until + 1)
  BY <1>1 DEF Uncompressed
<1>3. Old(d) = Listed - Uncompressed(d) + 1 - 8
  BY <1>2 DEF Old
<1>4. NextSegment(d) = [first |-> Uncompressed(d),
                        last  |-> Uncompressed(d) + MinOf(Old(d), SegmentCount) - 1]
  BY DEF NextSegment
<1>5. /\ NextSegment(d).first = Uncompressed(d)
      /\ NextSegment(d).last = Uncompressed(d) + MinOf(Old(d), 8) - 1
  BY <1>4
<1>6. /\ NextSegment(d).last \in Nat /\ NextSegment(d).first <= NextSegment(d).last
      /\ NextSegment(d).last <= Listed /\ 1 <= NextSegment(d).first
  <2> DEFINE b == Uncompressed(d)
             l == Listed
  <2>1. l \in Nat
    OBVIOUS
  <2> HIDE DEF b, l
  <2>2. b \in Nat /\ b >= 1 /\ Old(d) = l - b + 1 - 8 /\ Old(d) > 0
    BY <1>1, <1>2, <1>3 DEF b, l
  <2>3. NextSegment(d).first = b /\ NextSegment(d).last = b + MinOf(Old(d), 8) - 1
    BY <1>5 DEF b
  <2> QED BY <2>1, <2>2, <2>3 DEF MinOf, l
<1>7. NextSegment(d) \in Segments
  BY <1>2, <1>4, <1>5, <1>6 DEF Segments
<1>8. 1 .. (NextSegment(d).first - 1) \subseteq Covers(memories)
  BY <1>1, <1>2, <1>5 DEF DocOK
<1> QED BY <1>2, <1>5, <1>6, <1>7, <1>8

\* Every request keeps its promise.
LEMMA ThreadsKept ==
  ASSUME CoverInv, Next
  PROVE  ShapeInv' /\ \A t \in Threads : ThreadOK(t)'
<1>1. posted' \in Nat /\ memories' \in Seq(Segments) /\ DocOK(session)'
  BY StoredKept
<1>2. ASSUME NEW t \in Threads,
             \E to : pc' = [pc EXCEPT ![t] = to],
             \E d : copy' = [copy EXCEPT ![t] = d],
             \E m : segment' = [segment EXCEPT ![t] = m],
             \E n : listed' = [listed EXCEPT ![t] = n],
             ThreadOK(t)'
      PROVE  ShapeInv' /\ \A u \in Threads : ThreadOK(u)'
  <2>1. ShapeInv'
    BY <1>1, <1>2 DEF CoverInv, ShapeInv
  <2>2. \A u \in Threads \ {t} : /\ pc'[u] = pc[u] /\ copy'[u] = copy[u]
                                 /\ segment'[u] = segment[u] /\ listed'[u] = listed[u]
    BY <1>2 DEF CoverInv, ShapeInv
  <2>3. \A u \in Threads \ {t} : ThreadOK(u)'
    BY <2>2, OthersKept
  <2> QED BY <1>2, <2>1, <2>3
<1>3. \A t \in Threads : /\ pc = [pc EXCEPT ![t] = pc[t]] /\ copy = [copy EXCEPT ![t] = copy[t]]
                         /\ segment = [segment EXCEPT ![t] = segment[t]]
                         /\ listed = [listed EXCEPT ![t] = listed[t]]
  BY DEF CoverInv, ShapeInv
<1>4. DOMAIN pc = Threads /\ DOMAIN copy = Threads /\ DOMAIN segment = Threads
      /\ DOMAIN listed = Threads
  BY DEF CoverInv, ShapeInv
<1> USE <1>4 DEF ThreadOK, Places, HoldsCopy, At, Go, Leave, Take
<1>5. ASSUME NEW s \in Sends, Post(s) PROVE ThreadOK(s)'  BY <1>5 DEF Post, Threads
<1>6. ASSUME NEW s \in Sends, LoadSession(s) PROVE ThreadOK(s)'
  BY <1>1, <1>6 DEF LoadSession, Threads
<1>7. ASSUME NEW s \in Sends, LoadRecent(s) PROVE ThreadOK(s)'  BY <1>7 DEF LoadRecent, Threads
<1>8. ASSUME NEW s \in Sends, Finish(s) PROVE ThreadOK(s)'  BY <1>8 DEF Finish, Threads
<1>9. ASSUME NEW s \in Sends, Cancel(s) PROVE ThreadOK(s)'  BY <1>9 DEF Cancel, Threads
<1>10. ASSUME NEW a \in Answers, Decide(a) PROVE ThreadOK(a)'  BY <1>10 DEF Decide, Threads
<1>11. ASSUME NEW t \in Threads, TouchGet(t) PROVE ThreadOK(t)'
  BY <1>1, <1>11 DEF TouchGet, DocOK
<1>12. ASSUME NEW t \in Threads, TouchIndex(t) PROVE ThreadOK(t)'  BY <1>12 DEF TouchIndex
<1>13. ASSUME NEW t \in Threads, TitleGet(t) PROVE ThreadOK(t)'
  BY <1>1, <1>13 DEF TitleGet, DocOK
<1>14. ASSUME NEW t \in Threads, TitleIndex(t) PROVE ThreadOK(t)'  BY <1>14 DEF TitleIndex
<1>15. ASSUME NEW t \in Threads, MemoryGet(t) PROVE ThreadOK(t)'
  BY <1>1, <1>15 DEF MemoryGet, DocOK
<1>16. ASSUME NEW t \in Threads, MemoryList(t) PROVE ThreadOK(t)'
  <2>1. DocOK(copy[t]) /\ memories' = memories
    BY <1>16 DEF CoverInv, MemoryList
  <2>2. \/ pc'[t] = "done"
        \/ /\ pc'[t] = "chat" /\ Old(copy[t]) > 0 /\ segment'[t] = NextSegment(copy[t])
    BY <1>16 DEF MemoryList
  <2> QED BY <2>1, <2>2, NextSegmentFacts
<1>17. ASSUME NEW t \in Threads, CreateMemory(t) PROVE ThreadOK(t)'
  <2>1. segment[t] \in Segments /\ memories \in Seq(Segments)
    BY <1>17 DEF CoverInv, ShapeInv, CreateMemory
  <2>2. memories' = Append(memories, segment[t]) /\ pc'[t] = "list"
    BY <1>17 DEF CreateMemory
  <2>3. Len(memories') >= 1
    BY <2>1, <2>2
  <2> QED BY <2>2, <2>3
<1>18. ASSUME NEW t \in Threads, NoSummary(t) PROVE ThreadOK(t)'  BY <1>18 DEF NoSummary
<1>19. ASSUME NEW t \in Threads, ListMemories(t) PROVE ThreadOK(t)'
  <2>1. Len(memories) >= 1 /\ Len(memories) \in Nat
    BY <1>19 DEF CoverInv, ShapeInv, ListMemories
  <2> QED BY <1>19, <2>1 DEF ListMemories
<1>20. ASSUME NEW t \in Threads, UpdateGet(t) PROVE ThreadOK(t)'
  <2>1. listed[t] \in 1 .. Len(memories)
    BY <1>20 DEF CoverInv, UpdateGet
  <2> QED BY <1>1, <1>20, <2>1 DEF UpdateGet, DocOK
<1>21. ASSUME NEW t \in Threads, UpdateIndex(t) PROVE ThreadOK(t)'  BY <1>21 DEF UpdateIndex
<1>22. ASSUME NEW t \in Threads, Fault(t) PROVE ThreadOK(t)'  BY <1>22 DEF Fault, AfterFault
<1> QED
  <2>1. ASSUME NEW t \in Threads, ThreadOK(t)',
               \/ t \in Sends /\ SendStep(t)
               \/ t \in Answers /\ Decide(t)
               \/ TouchGet(t) \/ TouchIndex(t) \/ TitleGet(t) \/ TitleIndex(t)
               \/ MemoryStep(t) \/ Fault(t)
        PROVE  ShapeInv' /\ \A u \in Threads : ThreadOK(u)'
    <3> HIDE DEF ThreadOK
    <3>1. /\ \E to : pc' = [pc EXCEPT ![t] = to]
          /\ \E d : copy' = [copy EXCEPT ![t] = d]
          /\ \E m : segment' = [segment EXCEPT ![t] = m]
          /\ \E n : listed' = [listed EXCEPT ![t] = n]
      BY <1>3, <2>1
      DEF SendStep, Post, LoadSession, LoadRecent, Finish, Cancel, Decide, TouchGet,
          TouchIndex, TitleGet, TitleIndex, MemoryStep, MemoryGet, MemoryList, CreateMemory,
          NoSummary, ListMemories, UpdateGet, UpdateIndex, Fault
    <3> QED BY <1>2, <2>1, <3>1
  <2> HIDE DEF ThreadOK
  <2> QED
    BY <1>5, <1>6, <1>7, <1>8, <1>9, <1>10, <1>11, <1>12, <1>13, <1>14, <1>15, <1>16, <1>17,
       <1>18, <1>19, <1>20, <1>21, <1>22, <2>1
    DEF Next, Step, SendStep, MemoryStep, Threads

\* Nothing is stored and no thread holds a copy at first.
LEMMA CoverInit == Init => CoverInv
<1> SUFFICES ASSUME Init PROVE CoverInv
  OBVIOUS
<1>1. posted \in Nat /\ memories = <<>>
  BY MemoryAssumption DEF Init
<1>2. DocOK(session)
  BY <1>1 DEF Init, DocOK, Session
<1>3. ShapeInv /\ NoGaps(memories)
  BY <1>1 DEF Init, ShapeInv, NoGaps
<1> QED BY <1>1, <1>2, <1>3 DEF Init, CoverInv, ThreadOK, Places, HoldsCopy

\* A step keeps what is covered covered, whichever thread takes it.
LEMMA CoverStep ==
  ASSUME CoverInv, [Next]_vars
  PROVE  CoverInv'
<1>1. CASE Next
  BY <1>1, StoredKept, ThreadsKept DEF CoverInv
<1>2. CASE UNCHANGED vars
  BY <1>2 DEF vars, CoverInv, ShapeInv, DocOK, NoGaps, ThreadOK, CoversTo, Covers
<1> QED BY <1>1, <1>2

\* What the session document says is compressed is told by its rolling summary, and
\* that is the sum of stored memories (maybe_compress_session), whatever summaries
\* overlap, fail half-way or are undone by a document written from an old copy.
THEOREM CompressedStaysCovered == Spec => []CompressedIsCovered
<1>1. CoverInv => CompressedIsCovered
  BY DEF CoverInv, DocOK, CompressedIsCovered
<1> QED BY <1>1, CoverInit, CoverStep, PTL DEF Spec
-----------------------------------------------------------------------------
(* Without faults, and as long as one request works at a time *)

Clean == ~overlapped /\ faults = 0

\* The last message that a memory covers.
End == IF Len(memories) = 0 THEN 0 ELSE memories[Len(memories)].last

Updates == {"list", "update_get", "update_index"}
Ordered == \A i, j \in 1 .. Len(memories) : i < j => memories[i].last < memories[j].first
Bounded == \A i \in 1 .. Len(memories) : memories[i].last <= Listed

\* The copies of a request are current, and its segment begins where the memories end.
CurrentOK(t) ==
  /\ pc[t] \in {"touch_index", "title_index", "mem_list"} => copy[t].until = session.until
  /\ pc[t] = "chat" => segment[t].first = End + 1 /\ segment[t].last <= Listed
  /\ pc[t] \in {"update_get", "update_index"} => listed[t] = Len(memories)

OnceInv ==
  /\ faults \in Nat
  /\ ~overlapped => \A t, u \in Threads : Working(t) /\ Working(u) => t = u
  /\ Clean =>
       /\ Ordered /\ Bounded
       /\ (\A t \in Threads : pc[t] \notin Updates) => session.until = End
       /\ \A t \in Threads : CurrentOK(t)

\* The last memory ends after all others.
LEMMA EndFacts ==
  ASSUME CoverInv, Ordered, Bounded
  PROVE  /\ End \in Nat /\ End <= Listed
         /\ \A i \in 1 .. Len(memories) : memories[i].last <= End
<1>1. memories \in Seq(Segments) /\ Len(memories) \in Nat
  BY DEF CoverInv, ShapeInv
<1>2. \A i \in 1 .. Len(memories) : /\ memories[i].first \in Nat /\ memories[i].last \in Nat
                                    /\ memories[i].first <= memories[i].last
  BY <1>1 DEF Segments
<1>3. Listed \in Nat
  BY MemoryAssumption DEF CoverInv, ShapeInv, Listed, MinOf
<1>4. CASE Len(memories) = 0
  BY <1>1, <1>3, <1>4 DEF End
<1>5. CASE Len(memories) # 0
  <2>1. End = memories[Len(memories)].last /\ Len(memories) \in 1 .. Len(memories)
    BY <1>1, <1>5 DEF End
  <2>2. ASSUME NEW i \in 1 .. Len(memories) PROVE memories[i].last <= End
    <3>1. CASE i = Len(memories)
      BY <1>2, <2>1, <3>1
    <3>2. CASE i # Len(memories)
      <4>1. i < Len(memories)
        BY <1>1, <3>2
      <4> QED BY <1>2, <2>1, <4>1 DEF Ordered
    <3> QED BY <3>1, <3>2
  <2> QED BY <1>2, <2>1, <2>2 DEF Bounded
<1> QED BY <1>4, <1>5

\* What an update finds last is the end of the memories.
LEMMA LastIsEnd ==
  ASSUME CoverInv, Ordered, Bounded, NEW t \in Threads, listed[t] = Len(memories),
         Len(memories) >= 1
  PROVE  LastOf(t) = End
<1>1. memories \in Seq(Segments) /\ Len(memories) \in 1 .. Len(memories) /\ NoGaps(memories)
      /\ DOMAIN memories = 1 .. Len(memories)
  BY DEF CoverInv, ShapeInv
<1>2. Covers(Known(t)) = Covers(memories)
  BY <1>1, CoversFacts DEF Known
<1>3. PICK k \in Nat \ {0} : Covers(memories) = 1..k
  BY <1>1, CoversFacts DEF NoGaps
<1>4. LastOf(t) = k
  BY <1>2, <1>3, GreatestOf DEF LastOf
<1>5. \A i \in 1 .. Len(memories) : memories[i] \in Segments
  BY <1>1
<1>6. End = memories[Len(memories)].last /\ End \in Nat
  BY <1>1, EndFacts DEF End
<1>7. End \in Covers(memories)
  BY <1>1, <1>5, <1>6 DEF Covers, Segments
<1>8. PICK i \in 1 .. Len(memories) : k \in memories[i].first .. memories[i].last
  <2>1. k \in Covers(memories)
    BY <1>3
  <2> QED BY <1>1, <2>1 DEF Covers
<1>9. k <= End
  BY <1>5, <1>6, <1>8, EndFacts DEF Segments
<1> QED BY <1>3, <1>4, <1>6, <1>7, <1>9

\* As long as nothing has gone wrong, nothing had.
LEMMA CleanBefore ==
  ASSUME OnceInv, Next, Clean'
  PROVE  /\ Step /\ Clean
         /\ \A t, u \in Threads : Working(t) /\ Working(u) => t = u
<1>1. ~overlapped
  BY DEF Next, Watch, Clean
<1>2. ASSUME NEW t \in Threads PROVE ~Fault(t)
  BY DEF OnceInv, Fault, Clean
<1>3. Step /\ faults' = faults
  BY <1>2 DEF Next
<1> QED BY <1>1, <1>3 DEF Clean, OnceInv

\* What is to be kept in a step, when nothing goes wrong.
Once ==
  /\ Ordered /\ Bounded
  /\ (\A t \in Threads : pc[t] \notin Updates) => session.until = End
  /\ \A t \in Threads : CurrentOK(t)

Alone(t) == \A u \in Threads \ {t} : pc[u] \in {"idle", "posted", "running", "done"}

\* The list of messages only grows.
LEMMA ListedGrows ==
  ASSUME CoverInv, Next
  PROVE  Listed \in Nat /\ Listed' \in Nat /\ Listed <= Listed'
<1>1. posted \in Nat /\ posted' \in {posted, posted + 1}
  BY StepFacts DEF CoverInv, ShapeInv
<1> QED BY <1>1, MemoryAssumption DEF Listed, MinOf

\* A request that writes nothing disturbs nobody.
LEMMA ReadersKeepOnce ==
  ASSUME CoverInv, Once, Next, NEW t \in Threads, session' = session, memories' = memories,
         \A u \in Threads \ {t} : /\ pc'[u] = pc[u] /\ copy'[u] = copy[u]
                                  /\ segment'[u] = segment[u] /\ listed'[u] = listed[u],
         pc[t] \in Updates => pc'[t] \in Updates,
         CurrentOK(t)'
  PROVE  Once'
<1>1. memories \in Seq(Segments) /\ Listed \in Nat /\ Listed' \in Nat /\ Listed <= Listed'
  BY ListedGrows DEF CoverInv, ShapeInv
<1>2. \A i \in 1 .. Len(memories) : memories[i].last \in Nat
  BY <1>1 DEF Segments
<1>3. Ordered' /\ End' = End
  BY DEF Once, Ordered, End
<1>4. Bounded'
  BY <1>1, <1>2 DEF Once, Bounded
<1>5. (\A u \in Threads : pc'[u] \notin Updates) => session'.until = End'
  <2>1. (\A u \in Threads : pc'[u] \notin Updates) => \A u \in Threads : pc[u] \notin Updates
    OBVIOUS
  <2> QED BY <1>3, <2>1 DEF Once
<1>6. ASSUME NEW u \in Threads \ {t} PROVE CurrentOK(u)'
  <2>1. CurrentOK(u) /\ ThreadOK(u)
    BY DEF Once, CoverInv
  <2>2. pc[u] = "chat" => segment[u].last \in Nat
    BY <2>1 DEF ThreadOK, Segments
  <2> QED BY <1>1, <1>3, <2>1, <2>2 DEF CurrentOK
<1> QED BY <1>3, <1>4, <1>5, <1>6 DEF Once

\* A writer works alone, and the others have nothing in their hands.
LEMMA IdleAreCurrent ==
  ASSUME NEW t \in Threads, Alone(t),
         \A u \in Threads \ {t} : pc'[u] = pc[u]
  PROVE  \A u \in Threads \ {t} : CurrentOK(u)' /\ pc'[u] \notin Updates
BY DEF Alone, CurrentOK, Updates

\* One case per action: a call that raises ends the promise, and so does a request
\* that begins beside another one; every other step keeps copies current.
LEMMA OnceKept ==
  ASSUME CoverInv, OnceInv, Next
  PROVE  OnceInv'
<1>1. faults' \in Nat
  <2>1. ASSUME NEW t \in Threads, Fault(t) PROVE faults' \in Nat
    BY <2>1 DEF Fault, OnceInv
  <2> QED BY <2>1 DEF Next, OnceInv
<1>2. ~overlapped' => \A t, u \in Threads : Working(t)' /\ Working(u)' => t = u
  BY DEF Next, Watch
<1> SUFFICES ASSUME Clean' PROVE Once'
  BY <1>1, <1>2 DEF OnceInv, Once
<1>3. /\ Step /\ Once
      /\ \A t, u \in Threads : Working(t) /\ Working(u) => t = u
  BY CleanBefore DEF OnceInv, Once
<1>4. /\ pc = [t \in Threads |-> pc[t]] /\ copy = [t \in Threads |-> copy[t]]
      /\ segment = [t \in Threads |-> segment[t]] /\ listed = [t \in Threads |-> listed[t]]
      /\ memories \in Seq(Segments)
  BY DEF CoverInv, ShapeInv
<1>5. \A t \in Threads : Working(t) => Alone(t)
  <2>1. \A u \in Threads : ~Working(u) => pc[u] \in {"idle", "posted", "running", "done"}
    BY DEF Working
  <2> QED BY <1>3, <2>1 DEF Alone
<1>6. \A t \in Threads : ThreadOK(t) /\ CurrentOK(t)
  BY <1>3 DEF CoverInv, Once
<1> USE <1>4, <1>6 DEF At, Go, Leave, Take, Updates
<1>7. ASSUME NEW s \in Sends, Post(s) PROVE Once'
  BY <1>3, <1>7, ReadersKeepOnce DEF Post, Threads, CurrentOK
<1>8. ASSUME NEW s \in Sends, LoadSession(s) PROVE Once'
  BY <1>3, <1>8, ReadersKeepOnce DEF LoadSession, Threads, CurrentOK
<1>9. ASSUME NEW s \in Sends, LoadRecent(s) PROVE Once'
  BY <1>3, <1>9, ReadersKeepOnce DEF LoadRecent, Threads, CurrentOK
<1>10. ASSUME NEW s \in Sends, Finish(s) PROVE Once'
  BY <1>3, <1>10, ReadersKeepOnce DEF Finish, Threads, CurrentOK
<1>11. ASSUME NEW s \in Sends, Cancel(s) PROVE Once'
  BY <1>3, <1>11, ReadersKeepOnce DEF Cancel, Threads, CurrentOK
<1>12. ASSUME NEW a \in Answers, Decide(a) PROVE Once'
  BY <1>3, <1>12, ReadersKeepOnce DEF Decide, Threads, CurrentOK
<1>13. ASSUME NEW t \in Threads, TouchGet(t) PROVE Once'
  BY <1>3, <1>13, ReadersKeepOnce DEF TouchGet, CurrentOK
<1>14. ASSUME NEW t \in Threads, TitleGet(t) PROVE Once'
  BY <1>3, <1>14, ReadersKeepOnce DEF TitleGet, CurrentOK
<1>15. ASSUME NEW t \in Threads, MemoryGet(t) PROVE Once'
  BY <1>3, <1>15, ReadersKeepOnce DEF MemoryGet, CurrentOK
<1>16. ASSUME NEW t \in Threads, NoSummary(t) PROVE Once'
  BY <1>3, <1>16, ReadersKeepOnce DEF NoSummary, CurrentOK
<1>17. ASSUME NEW t \in Threads, ListMemories(t) PROVE Once'
  BY <1>3, <1>17, ReadersKeepOnce DEF ListMemories, CurrentOK
<1>18. ASSUME NEW t \in Threads, UpdateGet(t) PROVE Once'
  BY <1>3, <1>18, ReadersKeepOnce DEF UpdateGet, CurrentOK
<1>19. ASSUME NEW t \in Threads, MemoryList(t) PROVE Once'
  <2>1. pc[t] = "mem_list" /\ DocOK(copy[t]) /\ copy[t].until = session.until
    BY <1>19 DEF MemoryList, ThreadOK, HoldsCopy, CurrentOK
  <2>2. session.until = End /\ End <= Listed
    BY <1>3, <1>5, <2>1, EndFacts DEF Working, Alone, Once
  <2>3. \/ pc'[t] = "done"
        \/ /\ pc'[t] = "chat" /\ Old(copy[t]) > 0 /\ segment'[t] = NextSegment(copy[t])
    BY <1>19 DEF MemoryList
  <2>4. /\ session' = session /\ memories' = memories /\ posted' = posted
        /\ \A u \in Threads \ {t} : /\ pc'[u] = pc[u] /\ copy'[u] = copy[u]
                                    /\ segment'[u] = segment[u] /\ listed'[u] = listed[u]
    BY <1>19 DEF MemoryList
  <2>5. CurrentOK(t)'
    BY <2>1, <2>2, <2>3, <2>4, NextSegmentFacts DEF CurrentOK, End, Listed
  <2> QED BY <1>3, <2>1, <2>4, <2>5, ReadersKeepOnce
<1>20. ASSUME NEW t \in Threads, TouchIndex(t) PROVE Once'
  <2>1. /\ pc[t] = "touch_index" /\ session' = Touched(t) /\ DocOK(copy[t])
        /\ copy[t].until = session.until /\ Alone(t)
    BY <1>5, <1>20 DEF TouchIndex, ThreadOK, HoldsCopy, CurrentOK, Working
  <2>2. session'.until = session.until
    BY <2>1 DEF Touched, DocOK, Session
  <2>3. /\ memories' = memories /\ posted' = posted /\ pc'[t] \in {"mem_get", "done"}
        /\ \A u \in Threads \ {t} : pc'[u] = pc[u]
    BY <1>20 DEF TouchIndex
  <2>4. session.until = End
    BY <1>3, <2>1 DEF Once, Alone
  <2>5. CurrentOK(t)'
    BY <2>3 DEF CurrentOK
  <2> QED BY <1>3, <2>1, <2>2, <2>3, <2>4, <2>5, IdleAreCurrent
      DEF Once, Ordered, Bounded, End, Listed
<1>21. ASSUME NEW t \in Threads, TitleIndex(t) PROVE Once'
  <2>1. /\ pc[t] = "title_index" /\ session' = copy[t]
        /\ copy[t].until = session.until /\ Alone(t)
    BY <1>5, <1>21 DEF TitleIndex, CurrentOK, Working
  <2>2. /\ memories' = memories /\ posted' = posted /\ pc'[t] = "done"
        /\ \A u \in Threads \ {t} : pc'[u] = pc[u]
    BY <1>21 DEF TitleIndex
  <2>3. session.until = End
    BY <1>3, <2>1 DEF Once, Alone
  <2>4. CurrentOK(t)'
    BY <2>2 DEF CurrentOK
  <2> QED BY <1>3, <2>1, <2>2, <2>3, <2>4, IdleAreCurrent
      DEF Once, Ordered, Bounded, End, Listed
<1>22. ASSUME NEW t \in Threads, CreateMemory(t) PROVE Once'
  <2>1. /\ pc[t] = "chat" /\ segment[t] \in Segments /\ Alone(t)
        /\ segment[t].first = End + 1 /\ segment[t].last <= Listed
    BY <1>5, <1>22 DEF CreateMemory, ThreadOK, CurrentOK, Working
  <2>2. /\ memories' = Append(memories, segment[t]) /\ posted' = posted /\ pc'[t] = "list"
        /\ \A u \in Threads \ {t} : pc'[u] = pc[u]
    BY <1>22 DEF CreateMemory
  <2>3. /\ Len(memories') = Len(memories) + 1 /\ Len(memories) \in Nat
        /\ \A i \in 1 .. Len(memories) : memories'[i] = memories[i]
        /\ memories'[Len(memories) + 1] = segment[t]
    BY <2>1, <2>2
  <2>4. \A i \in 1 .. Len(memories) : memories[i].last <= End /\ memories[i].last \in Nat
    BY <1>3, EndFacts DEF Once, Segments
  <2>5. End \in Nat
    BY <1>3, EndFacts DEF Once
  <2>6. Ordered'
    <3>1. \A i \in 1 .. Len(memories) : memories[i].last < segment[t].first
      BY <2>1, <2>4, <2>5
    <3> QED BY <1>3, <2>3, <3>1 DEF Once, Ordered
  <2>7. Bounded'
    BY <1>3, <2>1, <2>2, <2>3 DEF Once, Bounded, Listed
  <2>8. CurrentOK(t)'
    BY <2>2 DEF CurrentOK
  <2> QED BY <2>1, <2>2, <2>6, <2>7, <2>8, IdleAreCurrent DEF Once
<1>23. ASSUME NEW t \in Threads, UpdateIndex(t) PROVE Once'
  <2>1. /\ pc[t] = "update_index" /\ DocOK(copy[t]) /\ listed[t] \in 1 .. Len(memories)
        /\ listed[t] = Len(memories) /\ Alone(t) /\ session' = Summary(t)
    BY <1>5, <1>23 DEF UpdateIndex, ThreadOK, HoldsCopy, CurrentOK, Working
  <2>2. /\ memories' = memories /\ posted' = posted /\ pc'[t] = "done"
        /\ \A u \in Threads \ {t} : pc'[u] = pc[u]
    BY <1>23 DEF UpdateIndex
  <2>3. LastOf(t) = End
    BY <1>3, <2>1, LastIsEnd DEF Once
  <2>4. session'.until = End
    BY <2>1, <2>3 DEF Summary, DocOK, Session
  <2>5. CurrentOK(t)'
    BY <2>2 DEF CurrentOK
  <2> QED BY <1>3, <2>1, <2>2, <2>4, <2>5, IdleAreCurrent
      DEF Once, Ordered, Bounded, End, Listed
<1> QED
  BY <1>3, <1>7, <1>8, <1>9, <1>10, <1>11, <1>12, <1>13, <1>14, <1>15, <1>16, <1>17, <1>18, <1>19,
     <1>20, <1>21, <1>22, <1>23
  DEF Step, SendStep, MemoryStep, Threads

\* Nothing is summarised at first, and nobody works.
LEMMA OnceInit == Init => OnceInv
BY DEF Init, OnceInv, Clean, Ordered, Bounded, End, CurrentOK, Working, Updates

\* Any step keeps it.
LEMMA OnceStep ==
  ASSUME CoverInv, OnceInv, [Next]_vars
  PROVE  OnceInv'
<1>1. CASE Next
  BY <1>1, OnceKept
<1>2. CASE UNCHANGED vars
  BY <1>2 DEF vars, OnceInv, Clean, Ordered, Bounded, End, CurrentOK, Working, Updates, Listed
<1> QED BY <1>1, <1>2

\* A message is summarised again only after a fault between the memory and the session,
\* or when two requests worked on the session at the same time.
THEOREM SummarisedOnlyOnce == Spec => []SummarisedOnce
<1>1. CoverInv /\ OnceInv => SummarisedOnce
  <2>1. CoverInv => DOMAIN memories = 1 .. Len(memories)
    BY DEF CoverInv, ShapeInv
  <2> QED BY <2>1 DEF OnceInv, Clean, Ordered, SummarisedOnce
<1> QED BY <1>1, OnceInit, OnceStep, CoverInit, CoverStep, PTL DEF Spec
-----------------------------------------------------------------------------
(* What a planner is told *)

\* As long as no summary has failed either, and all messages are listed.
Smooth == Clean /\ ~skipped /\ posted <= ListLimit

Reading  == {"posted", "context", "running"}
Touching == {"touch_get", "touch_index"}
Closing  == {"touch_get", "touch_index", "mem_get", "mem_list", "chat"}

\* whether one of these requests is at one of these places, by the places p
Somewhere(p, requests, places) == \E t \in requests : p[t] \in places

\* a message that is posted and not answered; messages that are posted and not counted
Open      == IF Somewhere(pc, Sends, Reading) THEN 1 ELSE 0
Uncounted == Open + (IF Somewhere(pc, Sends, Touching) THEN 2 ELSE IF Somewhere(pc, Answers, Touching) THEN 1 ELSE 0)

\* how many messages, but for an open one, no memory covers
Allowed == IF Somewhere(pc, Sends, Closing) THEN 14
           ELSE IF Somewhere(pc, Sends, Updates) THEN 8
           ELSE IF asked # {} THEN 11 ELSE 12

\* One run at a time is active, and it is read before it asks.
OneActive ==
  /\ asked \subseteq Sends
  /\ \A s \in asked : pc[s] \notin Reading \cup {"idle"}
  /\ \A r, s \in Sends : Active(r) /\ Active(s) => r = s

Few ==
  /\ posted <= session.count + Uncounted
  /\ posted <= End + Open + Allowed
  /\ \A t \in Threads :
       /\ pc[t] \in {"touch_index", "title_index", "mem_list", "update_index"} =>
            copy[t].count = session.count
       /\ pc[t] = "context" => copy[t].until = session.until
       /\ pc[t] = "chat" /\ t \in Sends => posted <= segment[t].last + 8 + Open
  /\ Cardinality(missing) <= 5

FewInv == OneActive /\ (Smooth => Few)

\* A request that moves within these places changes nothing for them.
LEMMA SomewhereKept ==
  ASSUME NEW p, p = [u \in Threads |-> p[u]], NEW t \in Threads, NEW to,
         NEW requests \in SUBSET Threads, NEW places,
         t \in requests => (p[t] \in places <=> to \in places)
  PROVE  Somewhere([p EXCEPT ![t] = to], requests, places) <=> Somewhere(p, requests, places)
BY DEF Somewhere

\* A request that moves within the places that count leaves the measures as they are.
LEMMA MeasuresKept ==
  ASSUME ShapeInv, NEW t \in Threads, NEW to, pc' = [pc EXCEPT ![t] = to],
         \A places \in {Reading, Touching, Closing, Updates} :
           t \in Sends => (pc[t] \in places <=> to \in places),
         t \in Answers => (pc[t] \in Touching <=> to \in Touching),
         asked' = asked
  PROVE  Open' = Open /\ Uncounted' = Uncounted /\ Allowed' = Allowed
<1>1. pc = [u \in Threads |-> pc[u]] /\ Sends \in SUBSET Threads /\ Answers \in SUBSET Threads
  BY DEF ShapeInv, Threads
<1>2. \A places \in {Reading, Touching, Closing, Updates} :
        Somewhere(pc', Sends, places) <=> Somewhere(pc, Sends, places)
  BY <1>1, SomewhereKept
<1>3. Somewhere(pc', Answers, Touching) <=> Somewhere(pc, Answers, Touching)
  BY <1>1, SomewhereKept
<1> QED BY <1>2, <1>3 DEF Open, Uncounted, Allowed

\* Where the only request that works on the session is, decides what is going on.
LEMMA AloneMeasures ==
  ASSUME NEW p, NEW t \in Threads,
         \A u \in Threads \ {t} : p[u] \in {"idle", "posted", "running", "done"}
  PROVE  /\ \A places \in {Touching, Closing, Updates} :
              Somewhere(p, Sends, places) <=> t \in Sends /\ p[t] \in places
         /\ Somewhere(p, Answers, Touching) <=> t \in Answers /\ p[t] \in Touching
<1>1. \A u \in Threads \ {t} : p[u] \notin Touching \cup Closing \cup Updates
  BY DEF Touching, Closing, Updates
<1>2. Sends \subseteq Threads /\ Answers \subseteq Threads
  BY DEF Threads
<1> QED BY <1>1, <1>2 DEF Somewhere

\* A request that does not begin to be read leaves one run active at most.
LEMMA ActiveMoves ==
  ASSUME ShapeInv, OneActive, NEW t \in Threads, NEW to, pc' = [pc EXCEPT ![t] = to], to # "idle",
         to \in Reading /\ t \in Sends => pc[t] \in Reading /\ asked' = asked,
         \A s \in asked' : s \in asked \/ (s = t /\ s \in Sends /\ pc[s] \in Reading)
  PROVE  OneActive'
<1>1. \A u \in Threads : pc'[u] = IF u = t THEN to ELSE pc[u]
  BY DEF ShapeInv
<1>2. Sends \subseteq Threads
  BY DEF Threads
<1>3. asked' \subseteq Sends
  BY DEF OneActive
<1>4. \A s \in Sends : Active(s)' => Active(s)
  BY <1>1, <1>2 DEF Active, Reading
<1>5. \A r, s \in Sends : Active(r)' /\ Active(s)' => r = s
  BY <1>4 DEF OneActive
<1>6. \A s \in asked' : pc'[s] \notin Reading \cup {"idle"}
  BY <1>1, <1>2, <1>3 DEF OneActive
<1> QED BY <1>3, <1>5, <1>6 DEF OneActive

\* A message is taken only when no run is active: one case per action.
LEMMA OneActiveKept ==
  ASSUME CoverInv, OneActive, Next
  PROVE  OneActive'
<1>1. ShapeInv /\ pc = [t \in Threads |-> pc[t]]
  BY DEF CoverInv, ShapeInv
<1> USE <1>1 DEF At, Go
<1>2. ASSUME NEW s \in Sends, ~\E r \in Sends : Active(r), pc' = [pc EXCEPT ![s] = "posted"],
             asked' = asked
      PROVE  OneActive'
  <2>1. asked = {}
    BY <1>2 DEF OneActive, Active
  <2>2. \A u \in Threads \ {s} : pc'[u] = pc[u]
    BY <1>2
  <2>3. \A r \in Sends \ {s} : ~Active(r)'
    BY <1>2, <2>1, <2>2 DEF Active, Threads
  <2> QED BY <1>2, <2>1, <2>3 DEF OneActive
<1>3. ASSUME NEW s \in Sends, Post(s) PROVE OneActive'
  BY <1>2, <1>3 DEF Post
<1>4. ASSUME NEW s \in Sends, LoadSession(s) \/ LoadRecent(s) \/ Finish(s) \/ Cancel(s)
      PROVE  OneActive'
  BY <1>4, ActiveMoves DEF LoadSession, LoadRecent, Finish, Cancel, Reading, Threads
<1>5. ASSUME NEW a \in Answers, Decide(a) PROVE OneActive'
  BY <1>5, ActiveMoves DEF Decide, Reading, Threads
<1>6. ASSUME NEW t \in Threads,
             TouchGet(t) \/ TouchIndex(t) \/ TitleGet(t) \/ TitleIndex(t) \/ MemoryStep(t)
      PROVE  OneActive'
  BY <1>6, ActiveMoves DEF TouchGet, TouchIndex, TitleGet, TitleIndex, MemoryStep, MemoryGet,
     MemoryList, CreateMemory, NoSummary, ListMemories, UpdateGet, UpdateIndex, Reading
<1>7. ASSUME NEW t \in Threads, Fault(t) PROVE OneActive'
  <2>1. pc' = [pc EXCEPT ![t] = AfterFault(t)] /\ asked' \subseteq asked
        /\ AfterFault(t) \in {"running", "done"}
        /\ (AfterFault(t) = "running" => pc[t] \in Reading)
        /\ (asked' = asked \/ (t \in Answers /\ pc[t] = "idle"))
    BY <1>7 DEF Fault, AfterFault, Reading
  <2> QED BY <2>1, ActiveMoves DEF Reading
<1> QED
  BY <1>3, <1>4, <1>5, <1>6, <1>7 DEF Next, Step, SendStep, Threads


\* The measures are numbers, and so is what they are compared with.
LEMMA MeasureFacts ==
  ASSUME CoverInv
  PROVE  /\ Open \in {0, 1} /\ Uncounted \in {Open, Open + 1, Open + 2}
         /\ Allowed \in {8, 11, 12, 14}
         /\ posted \in Nat /\ session.count \in Nat /\ session.until \in Nat
         /\ (posted <= ListLimit => Listed = posted)
<1>1. posted \in Nat /\ session \in Session
  BY DEF CoverInv, ShapeInv, DocOK
<1> QED BY <1>1, MemoryAssumption DEF Open, Uncounted, Allowed, Session, Listed, MinOf

\* A request that posts nothing, writes nothing and moves within the places that count
\* disturbs nobody.
LEMMA ReadersKeepFew ==
  ASSUME CoverInv, Few, NEW t \in Threads, NEW to, pc' = [pc EXCEPT ![t] = to],
         \A places \in {Reading, Touching, Closing, Updates} :
           t \in Sends => (pc[t] \in places <=> to \in places),
         t \in Answers => (pc[t] \in Touching <=> to \in Touching),
         posted' = posted, session' = session, memories' = memories, asked' = asked,
         \A u \in Threads \ {t} : copy'[u] = copy[u] /\ segment'[u] = segment[u],
         to \in {"touch_index", "title_index", "mem_list", "update_index"} =>
           copy'[t].count = session.count,
         to = "context" => copy'[t].until = session.until,
         to = "chat" /\ t \in Sends => posted <= segment'[t].last + 8 + Open,
         Cardinality(missing') <= 5
  PROVE  Few'
<1>1. Open' = Open /\ Uncounted' = Uncounted /\ Allowed' = Allowed
  BY MeasuresKept DEF CoverInv
<1>2. \A u \in Threads : pc'[u] = IF u = t THEN to ELSE pc[u]
  BY DEF CoverInv, ShapeInv
<1>3. End' = End
  BY DEF End
<1> QED BY <1>1, <1>2, <1>3 DEF Few

\* Whoever writes alone leaves the others with nothing in their hands.
LEMMA AloneKeepsFew ==
  ASSUME CoverInv, NEW t \in Threads, NEW to, pc' = [pc EXCEPT ![t] = to], Alone(t),
         to \notin {"touch_index", "title_index", "mem_list", "update_index", "context", "chat"},
         posted' <= session'.count + Uncounted', posted' <= End' + Open' + Allowed',
         Cardinality(missing') <= 5
  PROVE  Few'
<1>1. \A u \in Threads : pc'[u] = IF u = t THEN to ELSE pc[u]
  BY DEF CoverInv, ShapeInv
<1> QED BY <1>1 DEF Few, Alone

\* Between the summarised messages and the recent ones.
LEMMA BetweenAreFew ==
  ASSUME NEW u \in Nat, NEW n \in Nat, n <= u + 13,
         NEW gap, gap \subseteq (u + 1) .. (n - 8)
  PROVE  Cardinality(gap) <= 5
<1> DEFINE a == u + 1
           b == n - 8
<1>1. IsFiniteSet((u + 1) .. (n - 8)) /\ Cardinality((u + 1) .. (n - 8)) <= 5
  <2>1. a \in Int /\ b \in Int /\ b - a + 1 <= 5
    OBVIOUS
  <2> HIDE DEF a, b
  <2>2. IsFiniteSet(a..b) /\ Cardinality(a..b) = IF a > b THEN 0 ELSE b - a + 1
    BY <2>1, FS_Interval
  <2>3. Cardinality(a..b) <= 5
    BY <2>1, <2>2
  <2> QED BY <2>2, <2>3 DEF a, b
<1>2. IsFiniteSet(gap) /\ Cardinality(gap) <= Cardinality((u + 1) .. (n - 8))
  BY <1>1, FS_Subset
<1>3. Cardinality(gap) \in Nat /\ Cardinality((u + 1) .. (n - 8)) \in Nat
  BY <1>1, <1>2, FS_CardinalityType
<1> QED BY <1>1, <1>2, <1>3


\* One case per action: what is posted is counted and summarised in time, as a request
\* that closes a run works alone, and only one further run can begin beside it.
LEMMA FewKept ==
  ASSUME CoverInv, OnceInv, OneActive, Smooth => Few, Next, Smooth'
  PROVE  Few'
<1>1. /\ Step /\ Once
      /\ \A t, u \in Threads : Working(t) /\ Working(u) => t = u
      /\ Clean
  BY CleanBefore DEF OnceInv, Once, Smooth
<1>2. posted \in Nat /\ posted' \in {posted, posted + 1} /\ posted' <= ListLimit /\ ListLimit \in Nat
  BY StepFacts, MemoryAssumption DEF CoverInv, ShapeInv, Smooth
<1>3. ~skipped' /\ ~skipped
  BY <1>1 DEF Smooth, Step, SendStep, MemoryStep, Post, LoadSession, LoadRecent, Finish, Cancel, Decide,
     TouchGet, TouchIndex, TitleGet, TitleIndex, MemoryGet, MemoryList, CreateMemory, NoSummary,
     ListMemories, UpdateGet, UpdateIndex
<1>4. Few /\ Listed = posted
  BY <1>1, <1>2, <1>3, MeasureFacts DEF Smooth
<1>5. /\ pc = [t \in Threads |-> pc[t]] /\ copy = [t \in Threads |-> copy[t]]
      /\ segment = [t \in Threads |-> segment[t]] /\ listed = [t \in Threads |-> listed[t]]
      /\ memories \in Seq(Segments)
  BY DEF CoverInv, ShapeInv
<1>6. \A t \in Threads : Working(t) => Alone(t)
  <2>1. \A u \in Threads : ~Working(u) => pc[u] \in {"idle", "posted", "running", "done"}
    BY DEF Working
  <2> QED BY <1>1, <2>1 DEF Alone
<1>7. ASSUME NEW t \in Threads, Working(t)', \A u \in Threads \ {t} : pc'[u] = pc[u]
      PROVE  Alone(t)
  <2>1. \A u \in Threads \ {t} : ~Working(u)'
    BY <1>7 DEF Next, Watch, Smooth, Clean
  <2> QED BY <1>7, <2>1 DEF Alone, Working
<1>8. \A t \in Threads : ThreadOK(t) /\ CurrentOK(t)
  BY <1>1 DEF CoverInv, Once
<1>9. /\ Open \in {0, 1} /\ Uncounted \in {Open, Open + 1, Open + 2} /\ Allowed \in {8, 11, 12, 14}
      /\ session.count \in Nat /\ session.until \in Nat
      /\ posted <= session.count + Uncounted /\ posted <= End + Open + Allowed
      /\ Cardinality(missing) <= 5
  BY <1>4, MeasureFacts DEF Few
<1>10. End \in Nat /\ End <= posted
  BY <1>1, <1>4, EndFacts DEF Once
<1>11. /\ Sends \subseteq Threads /\ Answers \subseteq Threads /\ Sends \cap Answers = {}
       /\ (Sends \cup Answers) \cap (Rebuilds \cup Titles) = {}
       /\ Rebuilds \subseteq Threads /\ Titles \subseteq Threads
  BY MemoryAssumption DEF Threads
<1> USE <1>5, <1>11 DEF At, Go, Leave, Take
<1>12. ASSUME NEW t \in Threads, TouchGet(t) PROVE Few'
  BY <1>4, <1>12, ReadersKeepFew, <1>9 DEF TouchGet, Reading, Touching, Closing, Updates
<1>13. ASSUME NEW t \in Titles, TitleGet(t) PROVE Few'
  BY <1>4, <1>13, ReadersKeepFew, <1>9 DEF TitleGet, Reading, Touching, Closing, Updates
<1>14. ASSUME NEW t \in Sends \cup Rebuilds, MemoryGet(t) PROVE Few'
  BY <1>4, <1>14, ReadersKeepFew, <1>9 DEF MemoryGet, Reading, Touching, Closing, Updates
<1>15. ASSUME NEW t \in Threads, ListMemories(t) PROVE Few'
  BY <1>4, <1>15, ReadersKeepFew, <1>9 DEF ListMemories, Reading, Touching, Closing, Updates
<1>16. ASSUME NEW t \in Threads, UpdateGet(t) PROVE Few'
  BY <1>4, <1>16, ReadersKeepFew, <1>9 DEF UpdateGet, Reading, Touching, Closing, Updates
<1>17. ASSUME NEW s \in Sends, LoadSession(s) PROVE Few'
  BY <1>4, <1>17, ReadersKeepFew, <1>9 DEF LoadSession, Reading, Touching, Closing, Updates
<1>18. ASSUME NEW s \in Sends, LoadRecent(s) PROVE Few'
  <2>1. /\ pc[s] = "context" /\ Alone(s) /\ asked' = asked /\ posted' = posted
        /\ session' = session /\ memories' = memories
        /\ pc' = [pc EXCEPT ![s] = "running"] /\ copy' = [copy EXCEPT ![s] = NoDoc]
        /\ segment' = segment
    BY <1>6, <1>18 DEF LoadRecent, Working
  <2>2. copy[s].until = session.until /\ DocOK(copy[s])
    BY <1>4, <1>8, <2>1 DEF Few, ThreadOK, HoldsCopy
  <2>3. session.until = End
    BY <1>1, <2>1 DEF Once, Alone, Updates
  <2>4. posted <= End + 13
    <3>1. Allowed \in {11, 12}
      BY <2>1, AloneMeasures DEF Alone, Allowed, Closing, Updates
    <3> QED BY <1>2, <1>9, <1>10, <3>1
  <2>5. missing' \subseteq (End + 1) .. (posted - 8)
    <3>1. missing' = (1 .. posted) \ ((MaxOf(posted - 8, 0) + 1 .. posted) \cup copy[s].shown)
      BY <1>4, <1>18 DEF LoadRecent, RecentCount
    <3>2. 1 .. End \subseteq copy[s].shown
      BY <2>2, <2>3 DEF DocOK
    <3>3. ASSUME NEW m \in missing' PROVE m \in (End + 1) .. (posted - 8)
      <4>1. m \in 1 .. posted /\ m \notin MaxOf(posted - 8, 0) + 1 .. posted /\ m \notin 1 .. End
        BY <3>1, <3>2, <3>3
      <4> QED BY <1>2, <1>10, <4>1 DEF MaxOf
    <3> QED BY <3>3
  <2>6. Cardinality(missing') <= 5
    BY <1>2, <1>10, <2>4, <2>5, BetweenAreFew
  <2> QED BY <1>4, <2>1, <2>6, ReadersKeepFew DEF Reading, Touching, Closing, Updates
<1>19. ASSUME NEW t \in Titles, TitleIndex(t) PROVE Few'
  <2>1. /\ pc[t] = "title_index" /\ Alone(t) /\ asked' = asked /\ posted' = posted
        /\ session' = copy[t] /\ memories' = memories /\ missing' = missing
        /\ pc' = [pc EXCEPT ![t] = "done"]
    BY <1>6, <1>19 DEF TitleIndex, Working
  <2>2. copy[t].count = session.count
    BY <1>4, <2>1 DEF Few
  <2>3. Open' = Open /\ Uncounted' = Uncounted /\ Allowed' = Allowed /\ End' = End
    BY <2>1, MeasuresKept DEF CoverInv, End
  <2> QED BY <1>9, <2>1, <2>2, <2>3, AloneKeepsFew
<1>20. ASSUME NEW t \in Sends \cup Answers, TouchIndex(t) PROVE Few'
  <2>1. /\ pc[t] = "touch_index" /\ Alone(t) /\ asked' = asked /\ posted' = posted
        /\ session' = Touched(t) /\ memories' = memories /\ missing' = missing
        /\ pc' = [pc EXCEPT ![t] = IF t \in Sends THEN "mem_get" ELSE "done"]
        /\ \A u \in Threads \ {t} : pc'[u] \in {"idle", "posted", "running", "done"}
    BY <1>6, <1>20 DEF TouchIndex, Working, Alone
  <2>2. copy[t].count = session.count /\ DocOK(copy[t])
    BY <1>4, <1>8, <2>1 DEF Few, ThreadOK, HoldsCopy
  <2>3. session'.count = session.count + IF t \in Sends THEN 2 ELSE 1
    BY <2>1, <2>2 DEF Touched, DocOK, Session
  <2>4. Somewhere(pc', Sends, Reading) <=> Somewhere(pc, Sends, Reading)
    BY <2>1, SomewhereKept DEF Reading
  <2>5. Open' = Open /\ End' = End
    BY <2>1, <2>4 DEF Open, End
  <2>6. Uncounted = Open + IF t \in Sends THEN 2 ELSE 1
    BY <2>1, AloneMeasures DEF Alone, Uncounted, Touching
  <2>7. Uncounted' = Open
    <3>1. pc'[t] \notin Touching
      BY <2>1 DEF Touching
    <3> QED BY <1>9, <2>1, <2>5, <3>1, AloneMeasures DEF Uncounted
  <2>8. Allowed' = Allowed
    <3>1. /\ pc'[t] \in Closing <=> t \in Sends
          /\ pc[t] \in Closing /\ pc[t] \notin Updates /\ pc'[t] \notin Updates
      BY <2>1 DEF Closing, Updates
    <3>2. /\ Somewhere(pc, Sends, Closing) <=> t \in Sends
          /\ Somewhere(pc', Sends, Closing) <=> t \in Sends
          /\ ~Somewhere(pc, Sends, Updates) /\ ~Somewhere(pc', Sends, Updates)
      BY <2>1, <3>1, AloneMeasures DEF Alone
    <3> QED BY <2>1, <3>2 DEF Allowed
  <2>9. posted' <= session'.count + Uncounted' /\ posted' <= End' + Open' + Allowed'
    BY <1>2, <1>9, <1>10, <2>1, <2>3, <2>5, <2>6, <2>7, <2>8
  <2>10. CASE t \in Sends
    BY <1>9, <2>1, <2>9, <2>10, AloneKeepsFew
  <2>11. CASE t \notin Sends
    BY <1>9, <2>1, <2>9, <2>11, AloneKeepsFew
  <2> QED BY <2>10, <2>11
<1>21. ASSUME NEW t \in Sends \cup Rebuilds, UpdateIndex(t) PROVE Few'
  <2>1. /\ pc[t] = "update_index" /\ Alone(t) /\ asked' = asked /\ posted' = posted
        /\ session' = Summary(t) /\ memories' = memories /\ missing' = missing
        /\ pc' = [pc EXCEPT ![t] = "done"]
        /\ \A u \in Threads \ {t} : pc'[u] \in {"idle", "posted", "running", "done"}
    BY <1>6, <1>21 DEF UpdateIndex, Working, Alone
  <2>2. copy[t].count = session.count /\ DocOK(copy[t])
    BY <1>4, <1>8, <2>1 DEF Few, ThreadOK, HoldsCopy
  <2>3. session'.count = session.count
    BY <2>1, <2>2 DEF Summary, DocOK, Session
  <2>4. Somewhere(pc', Sends, Reading) <=> Somewhere(pc, Sends, Reading)
    BY <2>1, SomewhereKept DEF Reading
  <2>5. Open' = Open /\ End' = End
    BY <2>1, <2>4 DEF Open, End
  <2>6. Uncounted' = Uncounted
    BY <2>1, <2>5, AloneMeasures DEF Alone, Uncounted, Touching
  <2>7. Allowed <= Allowed' /\ Allowed' \in Nat /\ Allowed \in Nat
    <3>1. pc'[t] \notin Closing \cup Updates /\ pc[t] \in Updates /\ pc[t] \notin Closing
      BY <2>1 DEF Closing, Updates
    <3>2. Allowed' = IF asked # {} THEN 11 ELSE 12
      BY <2>1, <3>1, AloneMeasures DEF Allowed
    <3>3. Allowed = IF t \in Sends THEN 8 ELSE IF asked # {} THEN 11 ELSE 12
      BY <2>1, <3>1, AloneMeasures DEF Allowed, Alone
    <3> QED BY <3>2, <3>3
  <2>8. posted' <= session'.count + Uncounted' /\ posted' <= End' + Open' + Allowed'
    BY <1>2, <1>9, <1>10, <2>1, <2>3, <2>5, <2>6, <2>7
  <2> QED BY <1>9, <2>1, <2>8, AloneKeepsFew
<1>22. ASSUME NEW t \in Sends \cup Rebuilds, MemoryList(t) PROVE Few'
  <2>1. /\ pc[t] = "mem_list" /\ Alone(t) /\ asked' = asked /\ posted' = posted
        /\ session' = session /\ memories' = memories /\ missing' = missing
        /\ copy' = [copy EXCEPT ![t] = NoDoc]
    BY <1>6, <1>22 DEF MemoryList, Working
  <2>2. /\ copy[t].count = session.count /\ copy[t].until = End
    <3>1. session.until = End
      BY <1>1, <2>1 DEF Once, Alone, Updates
    <3> QED BY <1>4, <1>8, <2>1, <3>1 DEF Few, CurrentOK
  <2>3. Uncounted = Open
    <3>1. pc[t] \notin Touching
      BY <2>1 DEF Touching
    <3>2. ~Somewhere(pc, Sends, Touching) /\ ~Somewhere(pc, Answers, Touching)
      BY <2>1, <3>1, AloneMeasures DEF Alone
    <3> QED BY <1>9, <3>2 DEF Uncounted
  <2>4. Uncompressed(copy[t]) = End + 1
    BY <1>4, <1>10, <2>2 DEF Uncompressed
  <2>5. Old(copy[t]) = MaxOf(posted - End - 8, 0)
    BY <1>2, <1>4, <1>10, <2>4 DEF Old, RecentCount, MaxOf
  <2>6. CASE pc' = [pc EXCEPT ![t] = "chat"] /\ segment' = [segment EXCEPT ![t] = NextSegment(copy[t])]
             /\ Old(copy[t]) > 0
    <3>1. ASSUME t \in Sends PROVE posted <= segment'[t].last + 8 + Open
      <4>1. posted <= End + Open + 14
        BY <1>2, <1>9, <1>10
      <4>2. segment'[t].last = End + MinOf(posted - End - 8, 8) /\ posted - End - 8 > 0
        <5>1. segment'[t].last = End + 1 + MinOf(Old(copy[t]), 8) - 1
          BY <2>4, <2>6 DEF NextSegment, SegmentCount
        <5>2. Old(copy[t]) = posted - End - 8 /\ posted - End - 8 > 0
          BY <1>2, <1>10, <2>5, <2>6 DEF MaxOf
        <5> QED BY <1>2, <1>10, <5>1, <5>2 DEF MinOf
      <4> QED BY <1>2, <1>9, <1>10, <4>1, <4>2 DEF MinOf
    <3> QED BY <1>4, <1>9, <2>1, <2>6, <3>1, ReadersKeepFew DEF Reading, Touching, Closing, Updates
  <2>7. CASE pc' = [pc EXCEPT ![t] = "done"] /\ ~(ShouldCompress(copy[t]) /\ Old(copy[t]) > 0)
    <3>1. posted <= End + Open + 11
      <4>1. CASE Old(copy[t]) = 0
        BY <1>2, <1>9, <1>10, <2>5, <4>1 DEF MaxOf
      <4>2. CASE Old(copy[t]) # 0
        <5>1. Old(copy[t]) > 0
          BY <1>2, <1>10, <2>5, <4>2 DEF MaxOf
        <5>2. (IF session.count = 0 THEN posted ELSE session.count) < 12
          BY <1>2, <1>4, <1>9, <2>2, <2>7, <5>1 DEF ShouldCompress, CompressAt
        <5> QED BY <1>2, <1>9, <1>10, <2>3, <5>2
      <4> QED BY <4>1, <4>2
    <3>2. \A u \in Threads \ {t} : pc'[u] \in {"idle", "posted", "running", "done"}
      BY <2>1, <2>7 DEF Alone
    <3>3. Open' = Open /\ End' = End
      <4>1. Somewhere(pc', Sends, Reading) <=> Somewhere(pc, Sends, Reading)
        BY <2>1, <2>7, SomewhereKept DEF Reading
      <4> QED BY <2>1, <4>1 DEF Open, End
    <3>4. pc'[t] \notin Touching \cup Closing \cup Updates
      BY <2>7 DEF Touching, Closing, Updates
    <3>5. Uncounted' = Open
      BY <1>9, <3>2, <3>3, <3>4, AloneMeasures DEF Uncounted
    <3>6. Allowed' \in {11, 12}
      BY <3>2, <3>4, AloneMeasures DEF Allowed
    <3>7. posted' <= session'.count + Uncounted' /\ posted' <= End' + Open' + Allowed'
      BY <1>2, <1>9, <1>10, <2>1, <2>3, <3>1, <3>3, <3>5, <3>6
    <3> QED BY <1>9, <2>1, <2>7, <3>7, AloneKeepsFew
  <2> QED BY <1>22, <2>6, <2>7 DEF MemoryList
<1>23. ASSUME NEW t \in Sends \cup Rebuilds, CreateMemory(t) PROVE Few'
  <2>1. /\ pc[t] = "chat" /\ Alone(t) /\ asked' = asked /\ posted' = posted
        /\ session' = session /\ memories' = Append(memories, segment[t]) /\ missing' = missing
        /\ pc' = [pc EXCEPT ![t] = "list"]
        /\ \A u \in Threads \ {t} : pc'[u] \in {"idle", "posted", "running", "done"}
    BY <1>6, <1>23 DEF CreateMemory, Working, Alone
  <2>2. segment[t] \in Segments /\ segment[t].first = End + 1 /\ segment[t].last <= posted
    BY <1>4, <1>8, <2>1 DEF ThreadOK, CurrentOK
  <2>3. End' = segment[t].last /\ End' \in Nat /\ End <= End'
    <3>1. Len(memories') = Len(memories) + 1 /\ memories'[Len(memories) + 1] = segment[t]
          /\ Len(memories) \in Nat
      BY <2>1, <2>2
    <3> QED BY <1>10, <2>2, <3>1 DEF End, Segments
  <2>4. Open' = Open
    <3>1. Somewhere(pc', Sends, Reading) <=> Somewhere(pc, Sends, Reading)
      BY <2>1, SomewhereKept DEF Reading
    <3> QED BY <3>1 DEF Open
  <2>5. Uncounted' = Open /\ Uncounted = Open
    <3>1. pc'[t] \notin Touching /\ pc[t] \notin Touching
      BY <2>1 DEF Touching
    <3> QED BY <1>9, <2>1, <2>4, <3>1, AloneMeasures DEF Uncounted, Alone
  <2>6. CASE t \in Sends
    <3>1. posted <= End' + 8 + Open
      BY <1>4, <2>1, <2>3, <2>6 DEF Few
    <3>2. Allowed' = 8
      <4>1. pc'[t] \in Updates /\ pc'[t] \notin Closing
        BY <2>1 DEF Updates, Closing
      <4>2. Somewhere(pc', Sends, Updates) /\ ~Somewhere(pc', Sends, Closing)
        BY <2>1, <2>6, <4>1, AloneMeasures
      <4> QED BY <4>2 DEF Allowed
    <3>3. posted' <= session'.count + Uncounted' /\ posted' <= End' + Open' + Allowed'
      BY <1>2, <1>9, <1>10, <2>1, <2>3, <2>4, <2>5, <3>1, <3>2
    <3> QED BY <1>9, <2>1, <3>3, AloneKeepsFew
  <2>7. CASE t \notin Sends
    <3>1. Allowed' = Allowed
      BY <2>1, <2>7, MeasuresKept DEF CoverInv
    <3>2. posted' <= session'.count + Uncounted'
      BY <1>9, <2>1, <2>5
    <3>3. posted' <= End' + Open' + Allowed'
      <4>1. Open \in Nat /\ Allowed \in Nat /\ posted <= End + Open + Allowed
        BY <1>9
      <4>2. posted <= End' + Open + Allowed
        BY <1>2, <1>10, <2>3, <4>1
      <4> QED BY <2>1, <2>4, <3>1, <4>2
    <3> QED BY <1>9, <2>1, <3>2, <3>3, AloneKeepsFew
  <2> QED BY <2>6, <2>7
<1>24. ASSUME NEW s \in Sends, Post(s) PROVE Few'
  <2>1. /\ pc[s] = "idle" /\ asked' = asked /\ posted' = posted + 1
        /\ session' = session /\ memories' = memories /\ missing' = missing
        /\ copy' = copy /\ segment' = segment
        /\ pc' = [pc EXCEPT ![s] = "posted"] /\ ~\E r \in Sends : Active(r)
    BY <1>24 DEF Post
  <2>2. Open = 0 /\ Open' = 1
    BY <2>1 DEF Open, Somewhere, Active, Reading
  <2>3. /\ \A places \in {Touching, Closing, Updates} :
             Somewhere(pc', Sends, places) <=> Somewhere(pc, Sends, places)
        /\ Somewhere(pc', Answers, Touching) <=> Somewhere(pc, Answers, Touching)
    <3>1. pc[s] \notin Touching \cup Closing \cup Updates
          /\ "posted" \notin Touching \cup Closing \cup Updates
      BY <2>1 DEF Touching, Closing, Updates
    <3> QED BY <2>1, <3>1, SomewhereKept
  <2>4. Allowed' = Allowed /\ Uncounted' = Uncounted + 1
    <3>1. Allowed' = Allowed
      BY <2>1, <2>3 DEF Allowed
    <3>2. Uncounted' = Uncounted + 1
      BY <2>2, <2>3 DEF Uncounted
    <3> QED BY <3>1, <3>2
  <2>5. posted' <= session'.count + Uncounted' /\ posted' <= End' + Open' + Allowed'
    <3>1. End' = End
      BY <2>1 DEF End
    <3>2. Uncounted \in Nat /\ Allowed \in Nat /\ session.count \in Nat
      BY <1>9
    <3>3. posted <= session.count + Uncounted /\ posted <= End + 0 + Allowed
      BY <1>9, <2>2
    <3>4. posted + 1 <= session.count + (Uncounted + 1) /\ posted + 1 <= End + 1 + Allowed
      BY <1>2, <1>10, <3>2, <3>3
    <3>5. posted' = posted + 1 /\ session' = session /\ Open' = 1
      BY <2>1, <2>2
    <3>6. posted' <= session'.count + Uncounted'
      BY <2>4, <3>4, <3>5
    <3>7. posted' <= End' + Open' + Allowed'
      BY <2>4, <3>1, <3>4, <3>5
    <3> QED BY <3>6, <3>7
  <2>6. ASSUME NEW u \in Threads
        PROVE  /\ pc'[u] \in {"touch_index", "title_index", "mem_list", "update_index"} =>
                    copy'[u].count = session'.count
               /\ pc'[u] = "context" => copy'[u].until = session'.until
               /\ pc'[u] = "chat" /\ u \in Sends => posted' <= segment'[u].last + 8 + Open'
    <3>1. pc'[u] = IF u = s THEN "posted" ELSE pc[u]
      BY <2>1
    <3>2. ASSUME pc[u] = "chat", u \in Sends
          PROVE  posted' <= segment'[u].last + 8 + Open'
      <4>1. segment[u].last \in Nat /\ posted <= segment[u].last + 8 + Open
        BY <1>4, <1>8, <3>2 DEF Few, ThreadOK, Segments
      <4> QED BY <1>2, <2>1, <2>2, <4>1
    <3> QED BY <1>4, <2>1, <3>1, <3>2 DEF Few
  <2> QED BY <1>9, <2>1, <2>5, <2>6 DEF Few
<1>25. ASSUME NEW s \in Sends, Finish(s) PROVE Few'
  <2>1. /\ pc[s] = "running" /\ posted' = posted + 1
        /\ session' = session /\ memories' = memories /\ missing' = {}
        /\ pc' = [pc EXCEPT ![s] = "touch_get"]
    BY <1>25 DEF Finish
  <2>2. Alone(s)
    BY <1>7, <2>1 DEF Working
  <2>3. \A u \in Threads \ {s} : pc'[u] \in {"idle", "posted", "running", "done"}
    BY <2>1, <2>2 DEF Alone
  <2>4. Open = 1 /\ asked = {}
    BY <2>1 DEF Open, Somewhere, Reading, OneActive, Active
  <2>5. Open' = 0
    <3>1. \A r \in Sends : pc[r] \in Reading => r = s
      BY <2>1 DEF Reading, OneActive, Active
    <3> QED BY <2>1, <3>1 DEF Open, Somewhere, Reading
  <2>6. Uncounted = 1 /\ Allowed = 12
    <3>1. pc[s] \notin Touching \cup Closing \cup Updates
      BY <2>1 DEF Touching, Closing, Updates
    <3>2. /\ ~Somewhere(pc, Sends, Touching) /\ ~Somewhere(pc, Answers, Touching)
          /\ ~Somewhere(pc, Sends, Closing) /\ ~Somewhere(pc, Sends, Updates)
      BY <2>2, <3>1, AloneMeasures DEF Alone
    <3> QED BY <2>4, <3>2 DEF Uncounted, Allowed
  <2>7. Uncounted' = 2 /\ Allowed' = 14
    <3>1. pc'[s] \in Touching \cap Closing
      BY <2>1 DEF Touching, Closing
    <3>2. Somewhere(pc', Sends, Touching) /\ Somewhere(pc', Sends, Closing)
      BY <2>3, <3>1, AloneMeasures
    <3> QED BY <2>5, <3>2 DEF Uncounted, Allowed
  <2>8. posted' <= session'.count + Uncounted' /\ posted' <= End' + Open' + Allowed'
    <3>1. End' = End
      BY <2>1 DEF End
    <3> QED BY <1>2, <1>9, <1>10, <2>1, <2>4, <2>5, <2>6, <2>7, <3>1
  <2>9. Cardinality(missing') <= 5
    BY <2>1, FS_EmptySet
  <2> QED BY <2>1, <2>2, <2>8, <2>9, AloneKeepsFew
<1>26. ASSUME NEW a \in Answers, Decide(a) PROVE Few'
  <2>1. /\ pc[a] = "idle" /\ posted' = posted + 1
        /\ session' = session /\ memories' = memories /\ missing' = missing
        /\ pc' = [pc EXCEPT ![a] = "touch_get"]
    BY <1>26 DEF Decide
  <2>2. PICK s \in asked : asked' = asked \ {s}
    BY <1>26 DEF Decide
  <2>3. Alone(a)
    BY <1>7, <2>1 DEF Working
  <2>4. \A u \in Threads \ {a} : pc'[u] \in {"idle", "posted", "running", "done"}
    BY <2>1, <2>3 DEF Alone
  <2>5. s \in Sends /\ asked' = {}
    BY <2>2 DEF OneActive, Active
  <2>6. Open = 0 /\ Open' = 0
    <3>1. \A r \in Sends : pc[r] \notin Reading
      BY <2>2, <2>5 DEF OneActive, Active, Reading
    <3> QED BY <2>1, <3>1 DEF Open, Somewhere
  <2>7. Uncounted = 0 /\ Allowed = 11
    <3>1. pc[a] \notin Touching \cup Closing \cup Updates
      BY <2>1 DEF Touching, Closing, Updates
    <3>2. /\ ~Somewhere(pc, Sends, Touching) /\ ~Somewhere(pc, Answers, Touching)
          /\ ~Somewhere(pc, Sends, Closing) /\ ~Somewhere(pc, Sends, Updates)
      BY <2>3, <3>1, AloneMeasures DEF Alone
    <3> QED BY <2>2, <2>6, <3>2 DEF Uncounted, Allowed
  <2>8. Uncounted' = 1 /\ Allowed' = 12
    <3>1. pc'[a] \in Touching /\ a \notin Sends
      BY <2>1 DEF Touching
    <3>2. /\ ~Somewhere(pc', Sends, Touching) /\ Somewhere(pc', Answers, Touching)
          /\ ~Somewhere(pc', Sends, Closing) /\ ~Somewhere(pc', Sends, Updates)
      BY <2>4, <3>1, AloneMeasures
    <3> QED BY <2>5, <2>6, <3>2 DEF Uncounted, Allowed
  <2>9. posted' <= session'.count + Uncounted' /\ posted' <= End' + Open' + Allowed'
    <3>1. End' = End
      BY <2>1 DEF End
    <3> QED BY <1>2, <1>9, <1>10, <2>1, <2>6, <2>7, <2>8, <3>1
  <2> QED BY <1>9, <2>1, <2>3, <2>9, AloneKeepsFew
<1>27. ASSUME NEW s \in Sends, Cancel(s) PROVE Few'
  BY <1>3, <1>27 DEF Cancel
<1>28. ASSUME NEW t \in Threads, NoSummary(t) PROVE Few'
  BY <1>3, <1>28 DEF NoSummary
<1> QED
  BY <1>1, <1>12, <1>13, <1>14, <1>15, <1>16, <1>17, <1>18, <1>19, <1>20, <1>21, <1>22, <1>23, <1>24,
     <1>25, <1>26, <1>27, <1>28
  DEF Step, SendStep, MemoryStep

\* A planner is told of everything but at most five messages (load_context_for_run), as
\* long as summaries succeed, nobody cancels and all messages are listed: the closing of
\* a run summarises before the distance between what is recent and what is summarised
\* can grow, also when the next message has been posted meanwhile.
THEOREM PlannersMissFew == Spec => []MissingAreFew
<1> DEFINE Inv == CoverInv /\ OnceInv /\ FewInv
<1>1. Init => FewInv
  <2> SUFFICES ASSUME Init PROVE FewInv
    OBVIOUS
  <2>1. posted \in Nat /\ Sends \subseteq Threads /\ Answers \subseteq Threads
    BY MemoryAssumption DEF Init, Threads
  <2>2. OneActive
    BY <2>1 DEF Init, OneActive, Active
  <2>3. ASSUME Smooth PROVE Few
    <3>1. posted < 12 /\ session.count = posted
      <4>1. ~(posted >= CompressAt)
        BY <2>3, Zenon DEF Init, Smooth
      <4>2. session.count = posted
        BY DEF Init
      <4> QED BY <2>1, <4>1, <4>2 DEF CompressAt
    <3>2. End = 0
      BY DEF Init, End
    <3>3. Open = 0 /\ Uncounted = 0 /\ Allowed = 12
      BY <2>1 DEF Init, Open, Uncounted, Allowed, Somewhere, Reading, Touching, Closing, Updates
    <3>4. Cardinality(missing) <= 5
      BY FS_EmptySet DEF Init
    <3> QED BY <2>1, <3>1, <3>2, <3>3, <3>4 DEF Init, Few
  <2> QED BY <2>2, <2>3 DEF FewInv
<1>2. Inv /\ [Next]_vars => FewInv'
  <2>1. CASE Next
    BY <2>1, OneActiveKept, FewKept DEF FewInv
  <2>2. CASE UNCHANGED vars
    BY <2>2 DEF vars, FewInv, OneActive, Active, Smooth, Clean, Few, Open, Uncounted, Allowed,
       Somewhere, End
  <2> QED BY <2>1, <2>2
<1>3. Inv => MissingAreFew
  BY DEF FewInv, Smooth, Clean, Few, MissingAreFew
<1> QED BY <1>1, <1>2, <1>3, OnceInit, OnceStep, CoverInit, CoverStep, PTL DEF Spec
=============================================================================
