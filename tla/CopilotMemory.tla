--------------------------- MODULE CopilotMemory ---------------------------
(***************************************************************************)
(* What a copilot session remembers, and everybody who writes it:          *)
(*                                                                         *)
(*   a send      posts the user's message, reads the context for the       *)
(*               planner, posts the answer, counts both in the session     *)
(*               document and has old messages summarised                  *)
(*   an answer   to a pending approval posts a message and counts it       *)
(*   a rebuild   is the summarising alone, on the user's request           *)
(*   a title     is a new title for the session                            *)
(*                                                                         *)
(* The session document is read and written as a whole.  Messages are      *)
(* numbered in the order in which list_messages returns them.  How a run   *)
(* comes to its answer, and that two sends may both find no active run, is *)
(* the matter of CopilotRun: here the check and the creation are one step. *)
(***************************************************************************)
EXTENDS Integers, Sequences, FiniteSets

CONSTANTS
  Sends, Answers, Rebuilds, Titles,   \* the requests
  Before,      \* how many messages the session may start with, none summarised
  ListLimit,   \* how many messages list_messages returns
  MaxFaults,   \* how many calls to Elasticsearch may raise
  MaxExtras,   \* how many requests other than sends may be made
  NoDoc

ASSUME MemoryAssumption ==
  /\ Before \subseteq Nat
  /\ ListLimit \in Nat
  /\ MaxFaults \in Nat /\ MaxExtras \in Nat
  /\ Sends \cap Answers = {} /\ (Sends \cup Answers) \cap (Rebuilds \cup Titles) = {}
  /\ Rebuilds \cap Titles = {}

\* the arguments of AccountCopilotMemoryService
RecentCount       == 8
SegmentCount      == 8
CompressAt        == 12
UncompressedLimit == 10

VARIABLES
  posted,    \* the messages of the session are 1 .. posted
  session,   \* the stored session document
  memories,  \* the stored memories, in the order of their creation
  wordy,     \* eight messages fit into max_context_chars, nine do not
  pc, copy,  \* where a request is; the session document it has read
  segment,   \* the messages it summarises
  listed,    \* how many memories it has found
  asked,     \* runs that wait for an approval
  missing,   \* the messages that the planner of the active run was told nothing of
  overlapped, skipped, faults   \* what has gone less than smoothly

vars == <<posted, session, memories, wordy, pc, copy, segment, listed, asked, missing,
          overlapped, skipped, faults>>

Threads == Sends \cup Answers \cup Rebuilds \cup Titles

Session == [count: Nat, until: Nat, shown: SUBSET Nat]
Nothing == [first |-> 0, last |-> 0]

MinOf(a, b) == IF a < b THEN a ELSE b
MaxOf(a, b) == IF a < b THEN b ELSE a

Covers(ms) == UNION {ms[i].first .. ms[i].last : i \in DOMAIN ms}

\* list_messages: the oldest ListLimit messages
Listed == MinOf(posted, ListLimit)
-----------------------------------------------------------------------------
(* The moves of a request *)

\* whether another request is made
Extra(t) ==
  t \notin Sends => Cardinality({u \in Threads \ Sends : pc[u] # "idle"}) < MaxExtras

Go(t, to)   == pc' = [pc EXCEPT ![t] = to]
At(t, from) == pc[t] = from
Leave(t)    == copy' = [copy EXCEPT ![t] = NoDoc]
Take(t)     == copy' = [copy EXCEPT ![t] = session]

\* a run that is running or waits for an approval
Active(s) == pc[s] \in {"posted", "context", "running"} \/ s \in asked

\* reading the context, or closing: counting, summarising, renaming
Working(t) == pc[t] \notin {"idle", "posted", "running", "done"}
-----------------------------------------------------------------------------
(* Sends and answers *)

\* the user's message and the run
Post(s) ==
  /\ At(s, "idle") /\ ~\E r \in Sends : Active(r)
  /\ posted' = posted + 1
  /\ Go(s, "posted")
  /\ UNCHANGED <<session, memories, copy, segment, listed, asked, missing, skipped>>

\* load_context_for_run, first the session
LoadSession(s) ==
  /\ At(s, "posted")
  /\ Take(s) /\ Go(s, "context")
  /\ UNCHANGED <<posted, session, memories, segment, listed, asked, missing, skipped>>

\* then the recent messages.  What relevant memories add is not counted on.
LoadRecent(s) ==
  /\ At(s, "context")
  /\ missing' = (1 .. posted) \ ((MaxOf(Listed - RecentCount, 0) + 1 .. Listed) \cup copy[s].shown)
  /\ Leave(s) /\ Go(s, "running")
  /\ UNCHANGED <<posted, session, memories, segment, listed, asked, skipped>>

\* the loop has an answer or asks for an approval, and the run is not cancelled
Finish(s) ==
  /\ At(s, "running")
  /\ posted' = posted + 1
  /\ asked' \in {asked, asked \cup {s}}
  /\ missing' = {}
  /\ Go(s, "touch_get")
  /\ UNCHANGED <<session, memories, copy, segment, listed, skipped>>

\* a cancelled run posts nothing, counts nothing and remembers nothing
Cancel(s) ==
  /\ At(s, "running")
  /\ Go(s, "done")
  /\ skipped' = TRUE
  /\ missing' = {}
  /\ UNCHANGED <<posted, session, memories, copy, segment, listed, asked>>

\* rejected, expired, or executed: one more message, and the run is settled
Decide(a) ==
  /\ At(a, "idle") /\ Extra(a)
  /\ \E s \in asked : asked' = asked \ {s}
  /\ posted' = posted + 1
  /\ Go(a, "touch_get")
  /\ UNCHANGED <<session, memories, copy, segment, listed, missing, skipped>>

TouchGet(t) ==
  /\ At(t, "touch_get")
  /\ Take(t) /\ Go(t, "touch_index")
  /\ UNCHANGED <<posted, session, memories, segment, listed, asked, missing, skipped>>

\* touch_session
Touched(t) == [copy[t] EXCEPT !.count = @ + IF t \in Sends THEN 2 ELSE 1]

TouchIndex(t) ==
  /\ At(t, "touch_index")
  /\ session' = Touched(t)
  /\ Leave(t) /\ Go(t, IF t \in Sends THEN "mem_get" ELSE "done")
  /\ UNCHANGED <<posted, memories, segment, listed, asked, missing, skipped>>

\* update_session
TitleGet(t) ==
  /\ At(t, "idle") /\ Extra(t)
  /\ Take(t) /\ Go(t, "title_index")
  /\ UNCHANGED <<posted, session, memories, segment, listed, asked, missing, skipped>>

TitleIndex(t) ==
  /\ At(t, "title_index")
  /\ session' = copy[t]
  /\ Leave(t) /\ Go(t, "done")
  /\ UNCHANGED <<posted, memories, segment, listed, asked, missing, skipped>>
-----------------------------------------------------------------------------
(* maybe_compress_session *)

\* Mutant: the message that was summarised last is summarised again.
UncompressedTooEarly(doc) == IF doc.until = 0 THEN 1 ELSE doc.until

\* _uncompressed_messages: the number of the first one.  A message that is not in the
\* list any more would mean the whole list, but the list only grows at its end.
Uncompressed(doc) == IF doc.until <= Listed THEN doc.until + 1 ELSE 1

\* those that are older than the recent ones
Old(doc) == MaxOf(Listed - Uncompressed(doc) + 1 - RecentCount, 0)

\* Mutant: the counter of the session is not looked at.
ShouldCompressLate(doc) == Old(doc) > UncompressedLimit

ShouldCompress(doc) ==
  \/ (IF doc.count = 0 THEN Listed ELSE doc.count) >= CompressAt /\ Old(doc) > 0
  \/ Old(doc) > UncompressedLimit
  \/ wordy /\ Listed - Uncompressed(doc) + 1 > RecentCount

NextSegment(doc) ==
  [first |-> Uncompressed(doc), last |-> Uncompressed(doc) + MinOf(Old(doc), SegmentCount) - 1]

MemoryGet(t) ==
  /\ IF t \in Rebuilds THEN At(t, "idle") /\ Extra(t) ELSE At(t, "mem_get")
  /\ Take(t) /\ Go(t, "mem_list")
  /\ UNCHANGED <<posted, session, memories, segment, listed, asked, missing, skipped>>

\* the messages, and whether any of them are to be summarised
MemoryList(t) ==
  /\ At(t, "mem_list")
  /\ IF ShouldCompress(copy[t]) /\ Old(copy[t]) > 0
     THEN Go(t, "chat") /\ segment' = [segment EXCEPT ![t] = NextSegment(copy[t])]
     ELSE Go(t, "done") /\ UNCHANGED segment
  /\ Leave(t)
  /\ UNCHANGED <<posted, session, memories, listed, asked, missing, skipped>>

\* the model summarises the segment, and the memory is stored
CreateMemory(t) ==
  /\ At(t, "chat")
  /\ memories' = Append(memories, segment[t])
  /\ segment' = [segment EXCEPT ![t] = Nothing]
  /\ Go(t, "list")
  /\ UNCHANGED <<posted, session, copy, listed, asked, missing, skipped>>

\* the model raises, or answers with no valid JSON
NoSummary(t) ==
  /\ At(t, "chat")
  /\ segment' = [segment EXCEPT ![t] = Nothing]
  /\ skipped' = TRUE
  /\ Go(t, "done")
  /\ UNCHANGED <<posted, session, memories, copy, listed, asked, missing>>

\* update_session_summary: all memories, then the session as it is now
ListMemories(t) ==
  /\ At(t, "list")
  /\ listed' = [listed EXCEPT ![t] = Len(memories)]
  /\ Go(t, "update_get")
  /\ UNCHANGED <<posted, session, memories, copy, segment, asked, missing, skipped>>

UpdateGet(t) ==
  /\ At(t, "update_get")
  /\ Take(t) /\ Go(t, "update_index")
  /\ UNCHANGED <<posted, session, memories, segment, listed, asked, missing, skipped>>

\* the memories in the order of the messages they end with
Known(t)  == SubSeq(memories, 1, listed[t])
LastOf(t) == CHOOSE m \in Covers(Known(t)) : \A n \in Covers(Known(t)) : n <= m

\* Mutant: everything that is not recent counts as compressed.
SummaryByWindow(t) ==
  [copy[t] EXCEPT !.until = MaxOf(Listed - RecentCount, 0), !.shown = Covers(Known(t))]

Summary(t) == [copy[t] EXCEPT !.until = LastOf(t), !.shown = Covers(Known(t))]

UpdateIndex(t) ==
  /\ At(t, "update_index")
  /\ session' = Summary(t)
  /\ listed' = [listed EXCEPT ![t] = 0]
  /\ Leave(t) /\ Go(t, "done")
  /\ UNCHANGED <<posted, memories, segment, asked, missing, skipped>>
-----------------------------------------------------------------------------
(* A call raises, before or after its effect.                              *)

\* a send that does not get as far as its run, a context that could not be read, a
\* task whose except branch marks the run failed, an update that is given up
AfterFault(t) == IF pc[t] \in {"posted", "context"} THEN "running" ELSE "done"

Effect(t) ==
  CASE pc[t] = "running" -> posted' = posted + 1 /\ UNCHANGED <<session, memories>>
    [] pc[t] = "idle" /\ t \in Sends \cup Answers -> posted' = posted + 1 /\ UNCHANGED <<session, memories>>
    [] pc[t] = "touch_index"  -> session' = Touched(t) /\ UNCHANGED <<posted, memories>>
    [] pc[t] = "title_index"  -> session' = copy[t] /\ UNCHANGED <<posted, memories>>
    [] pc[t] = "chat"         -> memories' = Append(memories, segment[t]) /\ UNCHANGED <<posted, session>>
    [] pc[t] = "update_index" -> session' = Summary(t) /\ UNCHANGED <<posted, memories>>
    [] OTHER -> UNCHANGED <<posted, session, memories>>

MayStart(t) ==
  \/ t \in Sends /\ ~\E r \in Sends : Active(r)
  \/ t \in Answers /\ asked # {} /\ Extra(t)
  \/ t \in Rebuilds \cup Titles /\ Extra(t)

Fault(t) ==
  /\ faults < MaxFaults
  /\ pc[t] # "done"
  /\ pc[t] = "idle" => MayStart(t)
  /\ faults' = faults + 1
  /\ \/ UNCHANGED <<posted, session, memories>>
     \/ Effect(t)
  /\ missing' = IF pc[t] \in {"posted", "context"} THEN 1 .. posted
                ELSE IF pc[t] = "running" THEN {} ELSE missing
  /\ asked' \in IF t \in Answers /\ pc[t] = "idle" THEN {asked \ {s} : s \in asked} \cup {asked} ELSE {asked}
  /\ segment' = [segment EXCEPT ![t] = Nothing]
  /\ listed' = [listed EXCEPT ![t] = 0]
  /\ Leave(t) /\ Go(t, AfterFault(t))
  /\ UNCHANGED skipped
-----------------------------------------------------------------------------
Init ==
  /\ posted \in Before
  /\ wordy \in {long \in BOOLEAN : long => posted <= RecentCount}
  /\ session = [count |-> posted, until |-> 0, shown |-> {}]
  /\ memories = <<>>
  /\ pc = [t \in Threads |-> "idle"]
  /\ copy = [t \in Threads |-> NoDoc]
  /\ segment = [t \in Threads |-> Nothing]
  /\ listed = [t \in Threads |-> 0]
  /\ asked = {}
  /\ missing = {}
  /\ overlapped = FALSE /\ skipped = (posted >= CompressAt) /\ faults = 0

MemoryStep(t) ==
  MemoryGet(t) \/ MemoryList(t) \/ CreateMemory(t) \/ NoSummary(t) \/ ListMemories(t)
    \/ UpdateGet(t) \/ UpdateIndex(t)

SendStep(s) ==
  Post(s) \/ LoadSession(s) \/ LoadRecent(s) \/ Finish(s) \/ Cancel(s)

Step ==
  \/ \E s \in Sends : SendStep(s)
  \/ \E a \in Answers : Decide(a)
  \/ \E t \in Sends \cup Answers : TouchGet(t) \/ TouchIndex(t)
  \/ \E t \in Titles : TitleGet(t) \/ TitleIndex(t)
  \/ \E t \in Sends \cup Rebuilds : MemoryStep(t)

\* whether two requests have worked on the session at the same time
Watch == overlapped' = (overlapped \/ \E t, u \in Threads : t # u /\ Working(t)' /\ Working(u)')

Next ==
  /\ \/ Step /\ UNCHANGED faults
     \/ \E t \in Threads : Fault(t)
  /\ Watch
  /\ UNCHANGED wordy

Spec == Init /\ [][Next]_vars
-----------------------------------------------------------------------------
(* Properties *)

\* What counts as compressed is told by the rolling summary, which is the sum of stored
\* memories: no message is skipped by summaries that overlap, fail half-way, are undone
\* by a counter or a title written from an old copy, or meet new messages.
CompressedIsCovered ==
  /\ 1 .. session.until \subseteq session.shown
  /\ session.shown \subseteq Covers(memories)

\* A message is summarised again only after a fault between the memory and the session,
\* or when two requests worked on the session at the same time.
SummarisedOnce ==
  ~overlapped /\ faults = 0 =>
    \A i, j \in DOMAIN memories : i < j => memories[i].last < memories[j].first

\* A planner is told of everything but a few messages: those between the recent ones and
\* the summarised ones, as long as summaries succeed, nobody cancels and the session has
\* no more messages than are ever listed.
MissingAreFew ==
  ~overlapped /\ ~skipped /\ faults = 0 /\ posted <= ListLimit => Cardinality(missing) <= 5
=============================================================================
