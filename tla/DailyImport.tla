---------------------------- MODULE DailyImport ----------------------------
(***************************************************************************)
(* The daily import of the worker and the read-through cache of the        *)
(* backend.  An importer (the scheduler's process, or a command line       *)
(* beside it) asks IBKR for a statement, polls until it is ready, upserts  *)
(* it index by index into Elasticsearch, clears the Redis cache and calls  *)
(* the two trigger endpoints of the backend.  Readers of the backend look  *)
(* into the cache, compute from several searches what they miss, and set   *)
(* it.  Nothing orders these processes.                                    *)
(***************************************************************************)
EXTENDS Naturals, Sequences, FiniteSets

CONSTANTS
    Importers,  \* importing processes; "scheduler" or "cli"
    Keys,       \* cache keys that are read
    NDays,      \* report dates, NDays is the latest one
    MaxRev,     \* bound: revisions of the account IBKR reports
    MaxPoll,    \* FLEX_MAX_POLL_RETRIES
    MaxJobs,    \* bound: imports that are started
    MaxReads,   \* bound: requests of readers
    MaxFaults   \* bound: exceptions of IBKR, Elasticsearch, Redis, backend

ASSUME ImportAssumption ==
    /\ Importers \subseteq {"scheduler", "cli"}
    /\ Keys \subseteq {"overview", "positions", "equity-curve"}
    /\ {NDays, MaxRev, MaxPoll} \subseteq Nat \ {0}
    /\ {MaxJobs, MaxReads, MaxFaults} \subseteq Nat

VARIABLES
    ibkr,     \* the revision of the account a statement generated now has
    store,    \* the five indices: per date the revision of the document
    job,      \* per importer: program counter, statement, position
    cache,    \* per key: nothing, or what a reader has set
    reader,   \* the request of a reader that is being computed
    started, reads, faults

vars == <<ibkr, store, job, cache, reader, started, reads, faults>>

Days == 1..NDays
Revs == 0..MaxRev   \* 0: no such document, or a field that is null

\* The order of documents_by_index.
IndexOrder == <<"account", "position", "trade", "cash", "price">>
Indices == {IndexOrder[n] : n \in 1..Len(IndexOrder)}

\* A document: the revision of its plain fields and of its optional ones (the
\* CNAV, CRTT and FIFO fields of an account, previous_close of a price).
Docs == [rev : Revs, extra : Revs]
NoDoc == [rev |-> 0, extra |-> 0]

\* reports: the report dates of the statement's section EQUT.
Statements ==
    {s \in [from : Days, to : Days, reports : SUBSET Days, rev : 1..MaxRev] :
        s.from <= s.to /\ s.reports # {} /\ s.reports \subseteq s.from .. s.to}
Window(s) == s.from .. s.to

\* _is_single_day_statement: a range with one report date counts as a day, too.  The
\* account of such a day is that of the last date of the range.
SingleDay(s) == s.from = s.to \/ \E d \in Days : s.reports = {d}
Detailed(s, d) == SingleDay(s) /\ d = s.to

\* The dates for which an index gets documents: positions are those of the
\* report date, trades and cash flows carry dates of their own.
AccountDates(s) == s.reports \cup {d \in Days : Detailed(s, d)}
PositionDates(s) == {s.to}
TradeDates(s) == Window(s)
CashDates(s) == Window(s)
DatesOf(index, s) == CASE index = "account"  -> AccountDates(s)
                       [] index = "position" -> PositionDates(s)
                       [] index = "trade"    -> TradeDates(s)
                       [] index = "cash"     -> CashDates(s)
                       [] OTHER              -> Window(s)

\* Mutant: the days of a range are cleaned like a single day.
MergedCleaned(index, s, d, old) ==
    [rev |-> s.rev, extra |-> IF index = "account" /\ ~Detailed(s, d) THEN 0 ELSE s.rev]
\* The update of one document with doc_as_upsert.  A report date of a longer statement
\* is compacted, so that the optional fields of an account stay as they are; the
\* account of a single day carries them.  The first price of a statement has no previous
\* close and says so with a null.
Merged(index, s, d, old) ==
    [rev |-> s.rev,
     extra |-> CASE index = "account" -> IF Detailed(s, d) THEN s.rev ELSE old.extra
                 [] index = "price"   -> IF d > s.from THEN s.rev ELSE 0
                 [] OTHER             -> s.rev]

BulkUpsert(index, s, dates) ==
    [store EXCEPT ![index] =
        [d \in Days |-> IF d \in dates THEN Merged(index, s, d, @[d]) ELSE @[d]]]

(***************************************************************************)
(* Readers.  A key is computed from two rounds of searches.                *)
(***************************************************************************)

FirstSearch(k) == {"account"}
SecondSearch(k) == CASE k = "overview"  -> {"account", "position", "trade"}
                     [] k = "positions" -> {"position", "trade"}
                     [] OTHER           -> {"account", "cash", "trade"}

\* An answer is abstracted to fresh: it shows what is stored; and dirty: something
\* was written while it was computed.
NoEntry == [set |-> FALSE, fresh |-> TRUE, dirty |-> FALSE]
Cached(k) == cache[k].set
NoReader == [pc |-> "idle", key |-> "", fresh |-> TRUE, dirty |-> FALSE]

NoStatement == [from |-> 0, to |-> 0, reports |-> {}, rev |-> 0]
NoJob == [pc |-> "idle", stmt |-> NoStatement, attempt |-> 0, next |-> 1, left |-> {},
          alone |-> TRUE]

Init ==
    /\ ibkr = 1
    /\ store = [x \in Indices |-> [d \in Days |-> NoDoc]]
    /\ job = [i \in Importers |-> NoJob]
    /\ cache = [k \in Keys |-> NoEntry]
    /\ reader = NoReader
    /\ started = 0 /\ reads = 0 /\ faults = 0

Fault == faults < MaxFaults /\ faults' = faults + 1
GoTo(i, pc) == job' = [job EXCEPT ![i].pc = pc]
\* An exception ends the job: the scheduler logs it, the command line exits.
GiveUp(i) == job' = [job EXCEPT ![i] = NoJob]

----------------------------------------------------------------------------
(***************************************************************************)
(* FlexClient.                                                             *)
(***************************************************************************)

\* IBKR books or corrects something.
Booking ==
    /\ ibkr < MaxRev
    /\ ibkr' = ibkr + 1
    /\ UNCHANGED <<store, job, cache, reader, started, reads, faults>>

\* pull_daily_incremental begins: send_request answers with a reference code.
\* The scheduler runs one instance of its job at a time.
SendRequest(i) ==
    /\ job[i].pc = "idle" /\ started < MaxJobs
    /\ started' = started + 1
    /\ \/ /\ job' = [job EXCEPT ![i].pc = "poll", ![i].attempt = 1]
          /\ UNCHANGED faults
       \/ Fault /\ UNCHANGED job
    /\ UNCHANGED <<ibkr, store, cache, reader, reads>>

\* get_statement has an answer: the daily statement, generated by now.
GetStatement(i) ==
    /\ job[i].pc = "poll"
    /\ job' = [job EXCEPT ![i].pc = "write", ![i].next = 1,
                   ![i].stmt = [from |-> NDays, to |-> NDays, reports |-> {NDays}, rev |-> ibkr],
                   ![i].alone = \A j \in Importers \ {i} : job[j].pc # "write"]
    /\ UNCHANGED <<ibkr, store, cache, reader, started, reads, faults>>

\* FlexStatementNotReady: sleep and ask again, or give up after the last attempt.
NotReady(i) ==
    /\ job[i].pc = "poll"
    /\ IF job[i].attempt = MaxPoll
       THEN GiveUp(i)
       ELSE job' = [job EXCEPT ![i].attempt = @ + 1]
    /\ UNCHANGED <<ibkr, store, cache, reader, started, reads, faults>>

\* Any other error of get_statement.
PollFails(i) ==
    /\ job[i].pc = "poll"
    /\ Fault /\ GiveUp(i)
    /\ UNCHANGED <<ibkr, store, cache, reader, started, reads>>

\* import-daily-file: any range, downloaded at any time before.
ImportFile(i) ==
    /\ i = "cli" /\ job[i].pc = "idle" /\ started < MaxJobs
    /\ started' = started + 1
    /\ \E s \in Statements :
        /\ s.rev <= ibkr
        /\ job' = [job EXCEPT ![i].pc = "write", ![i].next = 1, ![i].stmt = s,
                       ![i].alone = \A j \in Importers \ {i} : job[j].pc # "write"]
    /\ UNCHANGED <<ibkr, store, cache, reader, reads, faults>>

(***************************************************************************)
(* import_daily_snapshot_file.                                             *)
(***************************************************************************)

\* What a write to index x makes of the answers that were computed before it.
HasRead(x) == CASE reader.pc = "second" -> x \in FirstSearch(reader.key)
                [] reader.pc = "set"    -> x \in FirstSearch(reader.key) \cup SecondSearch(reader.key)
                [] OTHER                -> FALSE
Outdate(x) ==
    LET changed == store'[x] # store[x]
    IN  /\ reader' = IF reader.pc = "idle" THEN reader
                     ELSE [reader EXCEPT !.dirty = TRUE,
                                         !.fresh = @ /\ ~(changed /\ HasRead(x))]
        /\ cache' = [k \in Keys |->
                IF Cached(k) /\ changed /\ x \in FirstSearch(k) \cup SecondSearch(k)
                THEN [cache[k] EXCEPT !.fresh = FALSE] ELSE cache[k]]
\* Mutant: the cache is not cleared.
AfterWriteNoScan(i, next) ==
    [j \in Importers |->
        IF j = i THEN [job[i] EXCEPT
            !.next = next,
            !.pc = IF next > Len(IndexOrder) THEN "clear" ELSE "write"]
        ELSE [job[j] EXCEPT !.alone = @ /\ job[j].pc = "idle"]]
\* The writer goes on; no other importer is alone any longer.
AfterWrite(i, next) ==
    [j \in Importers |->
        IF j = i THEN [job[i] EXCEPT
            !.next = next,
            !.pc = IF next > Len(IndexOrder) THEN "clear" ELSE "write",
            !.left = IF next > Len(IndexOrder)
                     THEN {k \in Keys : Cached(k)} ELSE {}]
        ELSE [job[j] EXCEPT !.alone = @ /\ job[j].pc = "idle"]]

\* bulk_upsert of the next index; at the end clear_all begins its scan.
WriteIndex(i) ==
    LET x == IndexOrder[job[i].next] s == job[i].stmt
    IN  /\ job[i].pc = "write"
        /\ store' = BulkUpsert(x, s, DatesOf(x, s))
        /\ job' = AfterWrite(i, job[i].next + 1)
        /\ Outdate(x)
        /\ UNCHANGED <<ibkr, started, reads, faults>>

\* Mutant: a failing bulk request is skipped.
WriteFailsAndSkips(i) ==
    LET x == IndexOrder[job[i].next] s == job[i].stmt
    IN  /\ job[i].pc = "write" /\ Fault
        /\ UNCHANGED <<ibkr, store, started, reads>>
        /\ job' = AfterWrite(i, job[i].next + 1)
        /\ Outdate(x)
\* A bulk request fails, some of its documents are written, the job ends.
WriteFails(i) ==
    LET x == IndexOrder[job[i].next] s == job[i].stmt
    IN  /\ job[i].pc = "write" /\ Fault
        /\ \E dates \in SUBSET DatesOf(x, s) : store' = BulkUpsert(x, s, dates)
        /\ job' = [AfterWrite(i, job[i].next) EXCEPT ![i] = NoJob]
        /\ Outdate(x)
        /\ UNCHANGED <<ibkr, started, reads>>

\* clear_all: SCAN returns at least the keys that were there when it began.
ClearKey(i) ==
    /\ job[i].pc = "clear"
    /\ \E k \in job[i].left :
        /\ job' = [job EXCEPT ![i].left = @ \ {k}]
        /\ cache' = [cache EXCEPT ![k] = NoEntry]
    /\ UNCHANGED <<ibkr, store, reader, started, reads, faults>>

\* The scan is over, or Redis failed and clear_all swallowed it: a pull goes on
\* to its triggers, the import of a file is finished.
ClearDone(i) ==
    /\ job[i].pc = "clear"
    /\ \/ job[i].left = {} /\ UNCHANGED faults
       \/ Fault
    /\ IF job[i].attempt > 0
       THEN job' = [job EXCEPT ![i].pc = "email", ![i].left = {}]
       ELSE GiveUp(i)
    /\ UNCHANGED <<ibkr, store, cache, reader, started, reads>>

\* The triggers are posts to the backend whose errors are swallowed.
TriggerEmail(i) ==
    /\ job[i].pc = "email"
    /\ GoTo(i, "review")
    /\ UNCHANGED <<ibkr, store, cache, reader, started, reads, faults>>
TriggerReview(i) ==
    /\ job[i].pc = "review"
    /\ GiveUp(i)
    /\ UNCHANGED <<ibkr, store, cache, reader, started, reads, faults>>

----------------------------------------------------------------------------
(***************************************************************************)
(* The backend.                                                            *)
(***************************************************************************)

\* get_json: nothing there, or Redis does not answer, which reads the same.
GetJson(k) ==
    /\ reader.pc = "idle" /\ reads < MaxReads
    /\ reads' = reads + 1
    /\ \/ ~Cached(k) /\ UNCHANGED faults
       \/ Cached(k) /\ Fault
    /\ reader' = [NoReader EXCEPT !.pc = "first", !.key = k]
    /\ UNCHANGED <<ibkr, store, job, cache, started>>

\* The search for the latest date, which ends the request when there is no data.
Search ==
    /\ reader.pc = "first"
    /\ reader' = IF store["account"] = [d \in Days |-> NoDoc]
                 THEN NoReader
                 ELSE [reader EXCEPT !.pc = "second"]
    /\ UNCHANGED <<ibkr, store, job, cache, started, reads, faults>>
MultiSearch ==
    /\ reader.pc = "second"
    /\ reader' = [reader EXCEPT !.pc = "set"]
    /\ UNCHANGED <<ibkr, store, job, cache, started, reads, faults>>

\* set_json, whose errors are swallowed.
SetJson ==
    /\ reader.pc = "set"
    /\ \/ /\ cache' = [cache EXCEPT ![reader.key] =
                [set |-> TRUE, fresh |-> reader.fresh, dirty |-> reader.dirty]]
          /\ UNCHANGED faults
       \/ Fault /\ UNCHANGED cache
    /\ reader' = NoReader
    /\ UNCHANGED <<ibkr, store, job, started, reads>>

\* Mutant: no TTL.
ExpireNever(k) == FALSE /\ UNCHANGED vars
\* setex: an entry lives for CACHE_TTL_SECONDS.
Expire(k) ==
    /\ Cached(k)
    /\ cache' = [cache EXCEPT ![k] = NoEntry]
    /\ UNCHANGED <<ibkr, store, job, reader, started, reads, faults>>

ImporterStep(i) ==
    \/ GetStatement(i) \/ NotReady(i) \/ WriteIndex(i)
    \/ ClearKey(i) \/ ClearDone(i) \/ TriggerEmail(i) \/ TriggerReview(i)
ReaderStep == Search \/ MultiSearch \/ SetJson

Next ==
    \/ Booking
    \/ \E i \in Importers :
        \/ SendRequest(i) \/ ImportFile(i) \/ PollFails(i) \/ WriteFails(i)
        \/ ImporterStep(i)
    \/ \E k \in Keys : GetJson(k) \/ Expire(k)
    \/ ReaderStep

Spec == Init /\ [][Next]_vars

\* Processes that have begun go on, time passes in Redis.
FairSpec ==
    /\ Spec
    /\ \A i \in Importers : WF_vars(ImporterStep(i))
    /\ WF_vars(ReaderStep)
    /\ \A k \in Keys : WF_vars(Expire(k))

----------------------------------------------------------------------------
(***************************************************************************)
(* Properties.                                                             *)
(***************************************************************************)

\* Types of the variables; no job asks more than FLEX_MAX_POLL_RETRIES times.
ImportTypeOK ==
    /\ ibkr \in 1..MaxRev
    /\ store \in [Indices -> [Days -> Docs]]
    /\ \A i \in Importers :
        /\ job[i].pc \in {"idle", "poll", "write", "clear", "email", "review"}
        /\ job[i].stmt \in Statements \cup {NoStatement}
        /\ job[i].attempt \in 0..MaxPoll
        /\ job[i].next \in 1 .. Len(IndexOrder) + 1
        /\ job[i].left \subseteq Keys
    /\ \A k \in Keys : cache[k] \in [set : BOOLEAN, fresh : BOOLEAN, dirty : BOOLEAN]
    /\ reader.pc \in {"idle", "first", "second", "set"}
    /\ faults \in 0..MaxFaults

\* When the e-mail and the review are triggered, all five indices hold the whole
\* statement, whatever partial imports went before: a failing bulk request
\* must end the job (unless another importer wrote at the same time).
TriggeredComplete ==
    \A i \in Importers :
        job[i].pc \in {"email", "review"} /\ job[i].alone =>
            \A x \in Indices : \A d \in DatesOf(x, job[i].stmt) :
                store[x][d].rev = job[i].stmt.rev

\* Once no import is under way, a cached answer that does not show the stored data
\* was computed by a reader that overlapped an import: everything else is deleted by
\* clear_all, because it comes after the last write.  With an exception of
\* Redis, or of an import between two indices, that does not hold.
StaleOnlyIfOverlapped ==
    (faults = 0 /\ \A i \in Importers : job[i].pc \in {"idle", "poll", "email", "review"}) =>
        \A k \in Keys :
            Cached(k) /\ ~cache[k].dirty => cache[k].fresh

\* The file import of a range of days, made after the daily pulls, leaves the
\* net asset value and cash report of the single days alone.
DetailKept ==
    [][\A d \in Days :
        store["account"][d].extra # 0 => store'["account"][d].extra # 0]_vars

\* A stale answer does not outlive its TTL: whatever the faults and overlaps were,
\* in the end the cache holds what is stored, or nothing.
CacheConverges ==
    <>[](\A k \in Keys : cache[k].fresh)
=============================================================================
