------------------------ MODULE DailyImport_proofs ------------------------
(***************************************************************************)
(* What the daily import promises for every set of importers and keys, any *)
(* number of dates, revisions, jobs, reads and faults: the triggers follow *)
(* complete imports, details of single days stay, and without exceptions a *)
(* stale answer in the cache comes from a reader that overlapped an import.*)
(***************************************************************************)
EXTENDS DailyImport, TLAPS

Working == {"write", "clear", "email", "review"}
Jobs == [pc : {"idle", "poll"} \cup Working, stmt : Statements \cup {NoStatement},
         attempt : Nat, next : Nat, left : SUBSET Keys, alone : BOOLEAN]
Entries == [set : BOOLEAN, fresh : BOOLEAN, dirty : BOOLEAN]
Readers == [pc : {"idle", "first", "second", "set"}, key : Keys \cup {""},
            fresh : BOOLEAN, dirty : BOOLEAN]

JobOK(v) == /\ v \in Jobs
            /\ v.attempt <= MaxPoll
            /\ v.next \in 1 .. Len(IndexOrder) + 1
            /\ v.pc \in Working => v.stmt \in Statements
            /\ v.pc = "write" => v.next <= Len(IndexOrder)
JobsOK == /\ DOMAIN job = Importers
          /\ job = [i \in Importers |-> job[i]]
          /\ \A i \in Importers : JobOK(job[i])

TypeInv ==
    /\ JobsOK
    /\ ibkr \in 1..MaxRev
    /\ store \in [Indices -> [Days -> Docs]]
    /\ cache \in [Keys -> Entries]
    /\ reader \in Readers
    /\ faults \in 0..MaxFaults
    /\ reader.pc # "idle" => reader.key \in Keys

\* What importer i has written nobody has written over: all indices once it is past
\* its writes, and those before the next one until then.
WrittenBy(i) == {n \in 1 .. Len(IndexOrder) : job[i].pc = "write" => n < job[i].next}
Holds(x, s) == \A d \in DatesOf(x, s) : store[x][d].rev = s.rev
CompleteInv ==
    \A i \in Importers :
        job[i].pc \in Working /\ job[i].alone =>
            \A n \in WrittenBy(i) : Holds(IndexOrder[n], job[i].stmt)

\* Without a fault a stale answer is about to be deleted, or its reader saw an import.
AboutToClear(k) ==
    \E i \in Importers : \/ job[i].pc = "write"
                         \/ job[i].pc = "clear" /\ k \in job[i].left
FreshInv ==
    faults = 0 =>
        /\ reader.pc # "idle" /\ ~reader.dirty => reader.fresh
        /\ \A k \in Keys : Cached(k) /\ ~cache[k].dirty /\ ~cache[k].fresh => AboutToClear(k)

-----------------------------------------------------------------------------
\* The bounds are numbers, and all but three of them are not zero.
LEMMA Bounds ==
  /\ NDays \in Nat /\ NDays >= 1 /\ MaxRev \in Nat /\ MaxRev >= 1
  /\ MaxPoll \in Nat /\ MaxPoll >= 1 /\ MaxJobs \in Nat /\ MaxReads \in Nat
  /\ MaxFaults \in Nat
BY ImportAssumption

\* There are five indices, each with a place of its own in the order.
LEMMA IndexFacts ==
  /\ Len(IndexOrder) = 5
  /\ Indices = {"account", "position", "trade", "cash", "price"}
  /\ \A n \in 1 .. Len(IndexOrder) : IndexOrder[n] \in Indices
  /\ \A n, m \in 1 .. Len(IndexOrder) : IndexOrder[n] = IndexOrder[m] => n = m
<1>1. Len(IndexOrder) = 5
  BY DEF IndexOrder
<1>2. 1..5 = {1, 2, 3, 4, 5}
  OBVIOUS
<1>3. /\ IndexOrder[1] = "account" /\ IndexOrder[2] = "position" /\ IndexOrder[3] = "trade"
      /\ IndexOrder[4] = "cash" /\ IndexOrder[5] = "price"
  BY DEF IndexOrder
<1>4. Indices = {"account", "position", "trade", "cash", "price"}
  BY <1>1, <1>2, <1>3 DEF Indices
<1>5. \A n \in 1..5 : IndexOrder[n] \in Indices
  BY <1>2, <1>3, <1>4
<1>6. \A n, m \in 1..5 : IndexOrder[n] = IndexOrder[m] => n = m
  BY <1>2, <1>3
<1> QED BY <1>1, <1>4, <1>5, <1>6

\* A bulk request writes documents of the statement's revision for the dates it is
\* given and leaves every other document alone.
LEMMA BulkFacts ==
  ASSUME store \in [Indices -> [Days -> Docs]], NEW x \in Indices, NEW s \in Statements,
         NEW dates
  PROVE  LET after == BulkUpsert(x, s, dates)
         IN  /\ after \in [Indices -> [Days -> Docs]]
             /\ \A y \in Indices \ {x} : after[y] = store[y]
             /\ \A d \in Days \cap dates : after[x][d].rev = s.rev
             /\ \A d \in Days \ dates : after[x][d] = store[x][d]
<1> USE ImportAssumption DEF Docs, Revs, Days
<1>1. s.rev \in 1..MaxRev /\ s.from \in Days
  BY DEF Statements
<1>2. \A d \in Days, old \in Docs : Merged(x, s, d, old) \in Docs
  BY <1>1 DEF Merged
<1>3. \A d \in Days, old \in Docs : Merged(x, s, d, old).rev = s.rev
  BY DEF Merged
<1>4. \A d \in Days : store[x][d] \in Docs
  OBVIOUS
<1>5. [d \in Days |-> IF d \in dates THEN Merged(x, s, d, store[x][d]) ELSE store[x][d]]
        \in [Days -> Docs]
  BY <1>2, <1>4
<1> QED BY <1>3, <1>4, <1>5 DEF BulkUpsert

\* Every date of a statement is a report date.
LEMMA DatesAreDays ==
  ASSUME NEW x, NEW s \in Statements
  PROVE  DatesOf(x, s) \subseteq Days
BY ImportAssumption
DEF DatesOf, AccountDates, PositionDates, TradeDates, CashDates, Window, Statements, Days

\* A write outdates entries and the request that is being computed, no more.
LEMMA OutdateFacts ==
  ASSUME TypeInv, NEW x, Outdate(x)
  PROVE  /\ cache' \in [Keys -> Entries]
         /\ reader' \in Readers
         /\ reader'.pc = reader.pc /\ reader'.key = reader.key
         /\ \A k \in Keys : cache'[k].set = cache[k].set /\ cache'[k].dirty = cache[k].dirty
         /\ reader'.pc # "idle" => reader'.dirty
<1>1. reader' = IF reader.pc = "idle" THEN reader
                ELSE [reader EXCEPT !.dirty = TRUE, !.fresh = reader'.fresh]
  BY DEF TypeInv, Readers, Outdate
<1>2. reader.pc # "idle" => reader'.fresh \in BOOLEAN
  BY DEF TypeInv, Readers, Outdate
<1>3. reader' \in Readers /\ reader'.pc = reader.pc /\ reader'.key = reader.key
      /\ (reader'.pc # "idle" => reader'.dirty)
  BY <1>1, <1>2 DEF TypeInv, Readers
<1>4. \A k \in Keys : \/ cache'[k] = cache[k]
                      \/ cache'[k] = [cache[k] EXCEPT !.fresh = FALSE]
  BY DEF Outdate
<1>5. cache' \in [Keys -> Entries]
  <2>1. \A k \in Keys : cache[k] \in Entries BY DEF TypeInv
  <2>2. \A k \in Keys : cache'[k] \in Entries BY <2>1, <1>4 DEF Entries
  <2> QED BY <2>2 DEF Outdate
<1>6. \A k \in Keys : cache'[k].set = cache[k].set /\ cache'[k].dirty = cache[k].dirty
  <2>1. \A k \in Keys : cache[k] \in Entries BY DEF TypeInv
  <2> QED BY <2>1, <1>4 DEF Entries
<1> QED BY <1>3, <1>5, <1>6

\* The jobs after importer i has written: i has moved on, the others have kept all
\* but being alone.
LEMMA AfterWriteFacts ==
  ASSUME TypeInv, NEW i \in Importers, job[i].pc = "write",
         NEW next \in 1 .. Len(IndexOrder) + 1
  PROVE  LET after == AfterWrite(i, next)
         IN  /\ DOMAIN after = Importers /\ after = [j \in Importers |-> after[j]]
             /\ JobOK(after[i])
             /\ after[i].pc \in {"write", "clear"}
             /\ after[i].pc = "write" <=> next <= Len(IndexOrder)
             /\ after[i].next = next /\ after[i].stmt = job[i].stmt
             /\ after[i].alone = job[i].alone
             /\ after[i].pc = "clear" => after[i].left = {k \in Keys : Cached(k)}
             /\ \A j \in Importers \ {i} :
                    after[j] = [job[j] EXCEPT !.alone = @ /\ job[j].pc = "idle"]
<1>1. Len(IndexOrder) = 5
  BY IndexFacts
<1>2. job[i] \in Jobs /\ job[i].stmt \in Statements /\ job[i].attempt <= MaxPoll
  BY DEF TypeInv, JobsOK, JobOK, Working
<1> DEFINE after == AfterWrite(i, next)
<1>3. after[i] = [job[i] EXCEPT
          !.next = next,
          !.pc = IF next > Len(IndexOrder) THEN "clear" ELSE "write",
          !.left = IF next > Len(IndexOrder) THEN {k \in Keys : Cached(k)} ELSE {}]
  BY DEF AfterWrite
<1>4. \A j \in Importers \ {i} : after[j] = [job[j] EXCEPT !.alone = @ /\ job[j].pc = "idle"]
  BY DEF AfterWrite
<1>5. DOMAIN after = Importers /\ after = [j \in Importers |-> after[j]]
  BY DEF AfterWrite
<1> HIDE DEF after
<1>6. /\ after[i].pc \in {"write", "clear"}
      /\ after[i].pc = "write" <=> next <= Len(IndexOrder)
      /\ after[i].next = next /\ after[i].stmt = job[i].stmt
      /\ after[i].alone = job[i].alone
      /\ after[i].pc = "clear" => after[i].left = {k \in Keys : Cached(k)}
      /\ JobOK(after[i])
  <2> DEFINE pc   == IF next > Len(IndexOrder) THEN "clear" ELSE "write"
             left == IF next > Len(IndexOrder) THEN {k \in Keys : Cached(k)} ELSE {}
  <2>1. /\ left \in SUBSET Keys /\ pc \in {"write", "clear"}
        /\ pc = "clear" => left = {k \in Keys : Cached(k)}
        /\ pc = "write" <=> next <= Len(IndexOrder)
        /\ next \in Nat
    BY <1>1
  <2>2. after[i] = [job[i] EXCEPT !.next = next, !.pc = pc, !.left = left]
    BY <1>3
  <2> HIDE DEF pc, left
  <2>3. after[i] \in Jobs
    BY <1>2, <2>1, <2>2 DEF Jobs, Working
  <2>4. /\ after[i].pc = pc /\ after[i].next = next /\ after[i].left = left
        /\ after[i].stmt = job[i].stmt /\ after[i].alone = job[i].alone
        /\ after[i].attempt = job[i].attempt
    BY <1>2, <2>2 DEF Jobs
  <2> QED BY <1>2, <2>1, <2>3, <2>4 DEF JobOK
<1> QED BY <1>4, <1>5, <1>6 DEF after

\* One job changes, or loses being alone: the others stay what they are.
LEMMA OneJob ==
  ASSUME JobsOK, NEW i \in Importers, NEW v, JobOK(v), job' = [job EXCEPT ![i] = v]
  PROVE  JobsOK'
BY DEF JobsOK
\* A job that has its statement begins to write.
LEMMA Begins ==
  ASSUME NEW v, JobOK(v), NEW s \in Statements, NEW b \in BOOLEAN
  PROVE  JobOK([v EXCEPT !.pc = "write", !.next = 1, !.stmt = s, !.alone = b])
<1> DEFINE w == [v EXCEPT !.pc = "write", !.next = 1, !.stmt = s, !.alone = b]
<1>1. w \in Jobs
  BY DEF JobOK, Jobs, Working
<1>2. w.pc = "write" /\ w.next = 1 /\ w.stmt = s /\ w.attempt = v.attempt
  BY DEF JobOK, Jobs
<1> QED BY <1>1, <1>2, IndexFacts DEF JobOK


\* A job that is over.
LEMMA NoJobOK == JobOK(NoJob)
BY Bounds, IndexFacts DEF JobOK, NoJob, Jobs, Working

-----------------------------------------------------------------------------
\* An exception is counted within the bound.
LEMMA FaultCounts ==
  ASSUME faults \in 0..MaxFaults, Fault
  PROVE  faults' \in 0..MaxFaults
BY Bounds DEF Fault

\* Initially nothing is stored, nobody works and nothing is cached.
LEMMA InitInv == Init => TypeInv /\ CompleteInv /\ FreshInv
<1> SUFFICES ASSUME Init PROVE TypeInv /\ CompleteInv /\ FreshInv
  OBVIOUS
<1>1. TypeInv
  <2>1. JobsOK
    BY NoJobOK DEF Init, JobsOK
  <2>2. NoEntry \in Entries /\ NoReader \in Readers /\ NoDoc \in Docs
    BY Bounds DEF NoEntry, Entries, NoReader, Readers, NoDoc, Docs, Revs
  <2>3. /\ ibkr \in 1..MaxRev /\ faults \in 0..MaxFaults
        /\ store \in [Indices -> [Days -> Docs]] /\ cache \in [Keys -> Entries]
    BY <2>2, Bounds DEF Init
  <2> QED BY <2>1, <2>2, <2>3 DEF Init, TypeInv, NoReader
<1>2. CompleteInv
  BY DEF Init, CompleteInv, NoJob, Working
<1>3. FreshInv
  BY DEF Init, FreshInv, NoReader, NoEntry, Cached
<1> QED BY <1>1, <1>2, <1>3

\* A write keeps the types, whether it succeeds or fails.
LEMMA WriteKeepsTypes ==
  ASSUME TypeInv, NEW i \in Importers, WriteIndex(i) \/ WriteFails(i)
  PROVE  TypeInv'
<1> DEFINE x == IndexOrder[job[i].next]
           s == job[i].stmt
<1>1. /\ job[i].pc = "write" /\ job[i].next \in 1..5 /\ x \in Indices /\ s \in Statements
      /\ JobOK(job[i])
  BY IndexFacts DEF TypeInv, JobsOK, JobOK, Jobs, WriteIndex, WriteFails, Working
<1>2. Outdate(x) /\ ibkr' = ibkr
  BY DEF WriteIndex, WriteFails
<1>3. store' \in [Indices -> [Days -> Docs]]
  BY <1>1, BulkFacts DEF TypeInv, WriteIndex, WriteFails
<1>4. /\ cache' \in [Keys -> Entries] /\ reader' \in Readers
      /\ reader'.pc # "idle" => reader'.key \in Keys
  BY <1>2, OutdateFacts DEF TypeInv
<1> HIDE DEF x, s
<1>5. ASSUME NEW next \in 1 .. Len(IndexOrder) + 1
      PROVE  /\ DOMAIN AfterWrite(i, next) = Importers
             /\ AfterWrite(i, next) = [j \in Importers |-> AfterWrite(i, next)[j]]
             /\ \A j \in Importers : JobOK(AfterWrite(i, next)[j])
  <2> DEFINE after == AfterWrite(i, next)
  <2>1. /\ DOMAIN after = Importers /\ after = [j \in Importers |-> after[j]]
        /\ JobOK(after[i])
        /\ \A j \in Importers \ {i} :
               after[j] = [job[j] EXCEPT !.alone = @ /\ job[j].pc = "idle"]
    BY <1>1, AfterWriteFacts
  <2> HIDE DEF after
  <2>2. \A j \in Importers \ {i} : JobOK(after[j])
    <3>1. \A j \in Importers : JobOK(job[j])
      BY DEF TypeInv, JobsOK
    <3>2. ASSUME NEW v, JobOK(v), NEW b \in BOOLEAN PROVE JobOK([v EXCEPT !.alone = b])
      BY <3>2 DEF JobOK, Jobs
    <3>3. \A j \in Importers \ {i} : \E b \in BOOLEAN : after[j] = [job[j] EXCEPT !.alone = b]
      BY <2>1
    <3> HIDE DEF JobOK
    <3> QED BY <2>1, <3>1, <3>2, <3>3
  <2> QED BY <2>1, <2>2 DEF after
<1>6. job[i].next \in 1 .. Len(IndexOrder) + 1 /\ job[i].next + 1 \in 1 .. Len(IndexOrder) + 1
  BY <1>1, IndexFacts
<1>7. CASE WriteIndex(i)
  <2>1. job' = AfterWrite(i, job[i].next + 1) /\ faults' = faults
    BY <1>7 DEF WriteIndex
  <2>2. JobsOK'
    BY <2>1, <1>5, <1>6 DEF JobsOK
  <2> QED BY <2>1, <2>2, <1>2, <1>3, <1>4 DEF TypeInv
<1>8. CASE WriteFails(i)
  <2>1. job' = [AfterWrite(i, job[i].next) EXCEPT ![i] = NoJob] /\ faults' \in 0..MaxFaults
    BY <1>8, Bounds DEF WriteFails, Fault, TypeInv
  <2>2. JobsOK'
    BY <2>1, <1>5, <1>6, NoJobOK DEF JobsOK
  <2> QED BY <2>1, <2>2, <1>2, <1>3, <1>4 DEF TypeInv
<1> QED BY <1>7, <1>8

\* Every other step of a job changes one job and keeps the types.
LEMMA JobStepKeepsTypes ==
  ASSUME TypeInv, NEW i \in Importers,
         \/ SendRequest(i) \/ GetStatement(i) \/ NotReady(i) \/ PollFails(i) \/ ImportFile(i)
         \/ ClearKey(i) \/ ClearDone(i) \/ TriggerEmail(i) \/ TriggerReview(i)
  PROVE  TypeInv'
<1>1. JobOK(job[i])
  BY DEF TypeInv, JobsOK
<1>2. /\ ibkr' = ibkr /\ store' = store /\ reader' = reader /\ faults' \in 0..MaxFaults
      /\ cache' \in [Keys -> Entries]
  <2>1. faults' \in 0..MaxFaults
    BY FaultCounts DEF TypeInv, SendRequest, GetStatement, NotReady, PollFails, ImportFile,
       ClearKey, ClearDone, TriggerEmail, TriggerReview
  <2>2. cache' \in [Keys -> Entries]
    <3>1. \/ cache' = cache
          \/ \E k \in job[i].left : cache' = [cache EXCEPT ![k] = NoEntry]
      BY DEF SendRequest, GetStatement, NotReady, PollFails, ImportFile, ClearKey, ClearDone,
         TriggerEmail, TriggerReview
    <3>2. NoEntry \in Entries
      BY DEF NoEntry, Entries
    <3> QED BY <3>1, <3>2 DEF TypeInv
  <2> QED
    BY <2>1, <2>2 DEF SendRequest, GetStatement, NotReady, PollFails, ImportFile,
       ClearKey, ClearDone, TriggerEmail, TriggerReview
<1>3. ASSUME NEW v, JobOK(v), job' = [job EXCEPT ![i] = v]
      PROVE  TypeInv'
  BY <1>2, <1>3, OneJob DEF TypeInv
<1> USE DEF JobOK, Jobs, Working
<1> USE DEF JobOK, Jobs, Working
<1>4. CASE SendRequest(i)
  <2>1. JobOK([job[i] EXCEPT !.pc = "poll", !.attempt = 1])
    BY <1>1, Bounds
  <2>2. CASE job' = job
    BY <1>2, <2>2 DEF TypeInv, JobsOK
  <2>3. CASE job' = [job EXCEPT ![i] = [job[i] EXCEPT !.pc = "poll", !.attempt = 1]]
    <3> HIDE DEF JobOK
    <3> QED BY <2>1, <2>3, <1>3
  <2> QED BY <1>4, <2>2, <2>3 DEF SendRequest, TypeInv, JobsOK
<1>5. CASE GetStatement(i)
  <2>1. [from |-> NDays, to |-> NDays, reports |-> {NDays}, rev |-> ibkr] \in Statements
    <3>1. NDays \in Days /\ {NDays} \subseteq NDays .. NDays /\ ibkr \in 1..MaxRev
      BY Bounds DEF Days, TypeInv
    <3> QED BY <3>1, Bounds DEF Statements
  <2> DEFINE v == [job[i] EXCEPT !.pc = "write", !.next = 1,
                       !.stmt = [from |-> NDays, to |-> NDays, reports |-> {NDays}, rev |-> ibkr],
                       !.alone = \A j \in Importers \ {i} : job[j].pc # "write"]
  <2>2. JobOK(v)
    BY <1>1, <2>1, Begins
  <2>3. job' = [job EXCEPT ![i] = v]
    BY <1>5 DEF GetStatement, TypeInv, JobsOK
  <2> HIDE DEF JobOK
  <2> QED BY <2>2, <2>3, <1>3
<1>6. CASE NotReady(i)
  <2>1. CASE job[i].attempt = MaxPoll
    BY <1>3, <1>6, <2>1, NoJobOK DEF NotReady, GiveUp
  <2>2. CASE job[i].attempt # MaxPoll
    <3> DEFINE v == [job[i] EXCEPT !.attempt = @ + 1]
    <3>1. JobOK(v)
      BY <1>1, <1>6, <2>2, Bounds DEF NotReady
    <3>2. job' = [job EXCEPT ![i] = v]
      BY <1>6, <2>2 DEF NotReady
    <3> HIDE DEF JobOK
    <3> QED BY <3>1, <3>2, <1>3
  <2> QED BY <2>1, <2>2
<1>7. CASE ImportFile(i)
  <2>1. PICK s \in Statements : job' = [job EXCEPT ![i].pc = "write", ![i].next = 1,
            ![i].stmt = s, ![i].alone = \A j \in Importers \ {i} : job[j].pc # "write"]
    BY <1>7 DEF ImportFile
  <2> DEFINE v == [job[i] EXCEPT !.pc = "write", !.next = 1, !.stmt = s,
                       !.alone = \A j \in Importers \ {i} : job[j].pc # "write"]
  <2>2. JobOK(v)
    BY <1>1, Begins
  <2>3. job' = [job EXCEPT ![i] = v]
    BY <2>1 DEF TypeInv, JobsOK
  <2> HIDE DEF JobOK
  <2> QED BY <2>2, <2>3, <1>3
<1>8. CASE ClearKey(i)
  <2>1. PICK k \in job[i].left : job' = [job EXCEPT ![i].left = @ \ {k}]
    BY <1>8 DEF ClearKey
  <2>2. JobOK([job[i] EXCEPT !.left = @ \ {k}])
    BY <1>1
  <2> HIDE DEF JobOK
  <2> QED BY <2>1, <2>2, <1>3
<1>9. CASE ClearDone(i)
  <2>1. JobOK([job[i] EXCEPT !.pc = "email", !.left = {}])
    BY <1>1, <1>9 DEF ClearDone
  <2>2. \/ job' = [job EXCEPT ![i] = [job[i] EXCEPT !.pc = "email", !.left = {}]]
        \/ job' = [job EXCEPT ![i] = NoJob]
    BY <1>9 DEF ClearDone, GiveUp, TypeInv, JobsOK
  <2> HIDE DEF JobOK
  <2> QED BY <2>1, <2>2, <1>3, NoJobOK
<1>10. CASE TriggerEmail(i)
  <2>1. JobOK([job[i] EXCEPT !.pc = "review"])
    BY <1>1, <1>10 DEF TriggerEmail
  <2> HIDE DEF JobOK
  <2> QED BY <1>10, <2>1, <1>3 DEF TriggerEmail, GoTo
<1>11. CASE PollFails(i) \/ TriggerReview(i)
  <2> HIDE DEF JobOK
  <2> QED BY <1>3, <1>11, NoJobOK DEF PollFails, TriggerReview, GiveUp
<1> QED BY <1>4, <1>5, <1>6, <1>7, <1>8, <1>9, <1>10, <1>11

\* Every step keeps the types.
LEMMA TypeKept ==
  ASSUME TypeInv, [Next]_vars
  PROVE  TypeInv'
<1>1. ASSUME Booking PROVE TypeInv'
  BY <1>1, Bounds DEF Booking, TypeInv, JobsOK
<1>2. ASSUME NEW k \in Keys, GetJson(k) PROVE TypeInv'
  <2>1. faults' \in 0..MaxFaults
    BY <1>2, FaultCounts DEF GetJson, TypeInv
  <2>2. reader' \in Readers /\ reader'.key \in Keys
    BY <1>2 DEF GetJson, NoReader, Readers
  <2> QED BY <1>2, <2>1, <2>2 DEF GetJson, TypeInv, JobsOK
<1>3. ASSUME NEW k \in Keys, Expire(k) PROVE TypeInv'
  BY <1>3 DEF Expire, NoEntry, Entries, TypeInv, JobsOK
<1>4. ASSUME Search PROVE TypeInv'
  BY <1>4 DEF Search, NoReader, Readers, TypeInv, JobsOK
<1>5. ASSUME MultiSearch PROVE TypeInv'
  BY <1>5 DEF MultiSearch, Readers, TypeInv, JobsOK
<1>6. ASSUME SetJson PROVE TypeInv'
  <2>1. faults' \in 0..MaxFaults
    BY <1>6, FaultCounts DEF SetJson, TypeInv
  <2>2. reader' = NoReader /\ NoReader \in Readers /\ NoReader.pc = "idle"
    BY <1>6 DEF SetJson, NoReader, Readers
  <2>3. cache' \in [Keys -> Entries]
    <3>1. [set |-> TRUE, fresh |-> reader.fresh, dirty |-> reader.dirty] \in Entries
      BY DEF TypeInv, Readers, Entries
    <3> QED BY <1>6, <3>1 DEF SetJson, TypeInv
  <2> QED BY <1>6, <2>1, <2>2, <2>3 DEF SetJson, TypeInv, JobsOK
<1>7. ASSUME UNCHANGED vars PROVE TypeInv'
  BY <1>7 DEF vars, TypeInv, JobsOK
<1> QED
  BY <1>1, <1>2, <1>3, <1>4, <1>5, <1>6, <1>7, WriteKeepsTypes, JobStepKeepsTypes
  DEF Next, ImporterStep, ReaderStep

\* Types of the variables; no job asks more than FLEX_MAX_POLL_RETRIES times.
THEOREM ImportTypeCorrect == Spec => []ImportTypeOK
<1>1. TypeInv => ImportTypeOK
  <2> SUFFICES ASSUME TypeInv PROVE ImportTypeOK
    OBVIOUS
  <2>1. ASSUME NEW i \in Importers
        PROVE  /\ job[i].pc \in {"idle", "poll", "write", "clear", "email", "review"}
               /\ job[i].stmt \in Statements \cup {NoStatement}
               /\ job[i].attempt \in 0..MaxPoll
               /\ job[i].next \in 1 .. Len(IndexOrder) + 1
               /\ job[i].left \subseteq Keys
    <3>1. JobOK(job[i])
      BY DEF TypeInv, JobsOK
    <3> QED BY <3>1, Bounds DEF JobOK, Jobs, Working
  <2>2. \A k \in Keys : cache[k] \in [set : BOOLEAN, fresh : BOOLEAN, dirty : BOOLEAN]
    BY DEF TypeInv, Entries
  <2>3. reader.pc \in {"idle", "first", "second", "set"}
    BY DEF TypeInv, Readers
  <2> QED BY <2>1, <2>2, <2>3 DEF TypeInv, ImportTypeOK
<1> QED BY <1>1, InitInv, TypeKept, PTL DEF Spec

-----------------------------------------------------------------------------
\* What a step does to the jobs and to the indices, for the invariants below: only
\* writes change documents, and whoever writes takes away that others are alone.
LEMMA WritesOnly ==
  ASSUME TypeInv, [Next]_vars, store' # store
  PROVE  \E i \in Importers : WriteIndex(i) \/ WriteFails(i)
BY DEF Next, vars, Booking, SendRequest, ImportFile, PollFails, ImporterStep, GetStatement,
   NotReady, ClearKey, ClearDone, TriggerEmail, TriggerReview, GetJson, Expire, ReaderStep,
   Search, MultiSearch, SetJson

\* A write makes the next index hold the statement and keeps the others.
LEMMA WriteFacts ==
  ASSUME TypeInv, NEW i \in Importers, WriteIndex(i)
  PROVE  LET n == job[i].next
             s == job[i].stmt
         IN  /\ n \in 1 .. Len(IndexOrder) /\ s \in Statements
             /\ \A d \in DatesOf(IndexOrder[n], s) : store'[IndexOrder[n]][d].rev = s.rev
             /\ \A m \in 1 .. Len(IndexOrder) \ {n} :
                    store'[IndexOrder[m]] = store[IndexOrder[m]]
<1> DEFINE n == job[i].next
           s == job[i].stmt
           x == IndexOrder[n]
<1>1. n \in 1 .. Len(IndexOrder) /\ s \in Statements /\ x \in Indices
  BY IndexFacts DEF WriteIndex, TypeInv, JobsOK, JobOK, Working
<1>2. store' = BulkUpsert(x, s, DatesOf(x, s)) /\ store \in [Indices -> [Days -> Docs]]
  BY DEF WriteIndex, TypeInv
<1>3. DatesOf(x, s) \subseteq Days
  BY <1>1, DatesAreDays
<1>4. \A m \in 1 .. Len(IndexOrder) \ {n} : IndexOrder[m] \in Indices \ {x}
  BY <1>1, IndexFacts
<1> HIDE DEF n, s, x
<1>5. /\ \A y \in Indices \ {x} : store'[y] = store[y]
      /\ \A d \in Days \cap DatesOf(x, s) : store'[x][d].rev = s.rev
  BY <1>1, <1>2, BulkFacts
<1> QED BY <1>1, <1>3, <1>4, <1>5 DEF n, s, x

\* The invariant of the writers.
LEMMA CompleteKept ==
  ASSUME TypeInv, CompleteInv, [Next]_vars
  PROVE  CompleteInv'
<1> SUFFICES ASSUME NEW i \in Importers, job'[i].pc \in Working, job'[i].alone,
                    NEW n \in 1 .. Len(IndexOrder),
                    job'[i].pc = "write" => n < job'[i].next
             PROVE  \A d \in DatesOf(IndexOrder[n], job'[i].stmt) :
                        store'[IndexOrder[n]][d].rev = job'[i].stmt.rev
  BY DEF CompleteInv, WrittenBy, Holds
<1>1. ASSUME store' = store, job'[i].stmt = job[i].stmt, job[i].alone, job[i].pc \in Working,
             job[i].pc = "write" => n < job[i].next
      PROVE  \A d \in DatesOf(IndexOrder[n], job'[i].stmt) :
                 store'[IndexOrder[n]][d].rev = job'[i].stmt.rev
  BY <1>1 DEF CompleteInv, WrittenBy, Holds
<1>2. ASSUME NEW j \in Importers, WriteIndex(j) \/ WriteFails(j)
      PROVE  \A d \in DatesOf(IndexOrder[n], job'[i].stmt) :
                 store'[IndexOrder[n]][d].rev = job'[i].stmt.rev
  <2>1. job[j].pc = "write" /\ job[j].next \in 1 .. Len(IndexOrder)
    BY <1>2, IndexFacts DEF TypeInv, JobsOK, JobOK, WriteIndex, WriteFails, Working
  <2>2. job[j].next \in 1 .. Len(IndexOrder) + 1 /\ job[j].next + 1 \in 1 .. Len(IndexOrder) + 1
    BY <2>1, IndexFacts
  <2>3. CASE i # j
    <3>1. job'[i] = [job[i] EXCEPT !.alone = @ /\ job[i].pc = "idle"]
      <4>1. \E next \in 1 .. Len(IndexOrder) + 1 :
               \/ job' = AfterWrite(j, next)
               \/ job' = [AfterWrite(j, next) EXCEPT ![j] = NoJob]
        BY <1>2, <2>2 DEF WriteIndex, WriteFails
      <4>2. PICK next \in 1 .. Len(IndexOrder) + 1 : job'[i] = AfterWrite(j, next)[i]
        BY <4>1, <2>3 DEF AfterWrite
      <4> QED BY <4>2, <2>1, <2>3, AfterWriteFacts
    <3>2. job'[i].pc = job[i].pc /\ (job'[i].alone => job[i].pc = "idle")
      BY <3>1 DEF TypeInv, JobsOK, JobOK, Jobs
    <3> QED BY <3>2 DEF Working
  <2>4. CASE i = j /\ WriteFails(j)
    <3>1. job'[i] = NoJob
      BY <2>4 DEF WriteFails, AfterWrite
    <3> QED BY <3>1 DEF NoJob, Working
  <2>5. CASE i = j /\ WriteIndex(j)
    <3>1. /\ job'[i].stmt = job[i].stmt /\ job'[i].alone = job[i].alone
          /\ job'[i].next = job[i].next + 1
          /\ job'[i].pc = "write" <=> job[i].next + 1 <= Len(IndexOrder)
      BY <2>1, <2>2, <2>5, AfterWriteFacts DEF WriteIndex
    <3>2. n <= job[i].next
      BY <3>1, <2>1, <2>5, IndexFacts
    <3>3. CASE n = job[i].next
      BY <3>1, <3>3, <2>5, WriteFacts
    <3>4. CASE n # job[i].next
      <4>1. n \in WrittenBy(i) /\ store'[IndexOrder[n]] = store[IndexOrder[n]]
        BY <3>2, <3>4, <2>1, <2>5, WriteFacts DEF WrittenBy
      <4> QED BY <4>1, <3>1, <2>1, <2>5 DEF CompleteInv, Holds, Working
    <3> QED BY <3>3, <3>4
  <2> QED BY <1>2, <2>3, <2>4, <2>5
<1>3. ASSUME NEW j \in Importers, GetStatement(j) \/ ImportFile(j)
      PROVE  \A d \in DatesOf(IndexOrder[n], job'[i].stmt) :
                 store'[IndexOrder[n]][d].rev = job'[i].stmt.rev
  <2>1. CASE i = j
    <3>1. JobOK(job[i]) /\ DOMAIN job = Importers
      BY DEF TypeInv, JobsOK
    <3>2. job'[i].pc = "write" /\ job'[i].next = 1
      <4>1. \E stmt, alone : job'[i] = [job[i] EXCEPT !.pc = "write", !.next = 1,
                                              !.stmt = stmt, !.alone = alone]
        <5>1. CASE GetStatement(i)
          BY <3>1, <5>1 DEF GetStatement
        <5>2. CASE ImportFile(i)
          <6>1. PICK s \in Statements : job' = [job EXCEPT ![i].pc = "write", ![i].next = 1,
                    ![i].stmt = s, ![i].alone = \A l \in Importers \ {i} : job[l].pc # "write"]
            BY <5>2 DEF ImportFile
          <6> QED BY <3>1, <6>1
        <5> QED BY <1>3, <2>1, <5>1, <5>2
      <4> QED BY <3>1, <4>1 DEF JobOK, Jobs
    <3> QED BY <3>2
  <2>2. CASE i # j
    BY <1>1, <1>3, <2>2 DEF GetStatement, ImportFile, TypeInv, JobsOK
  <2> QED BY <2>1, <2>2
<1>4. ASSUME NEW j \in Importers,
             \/ SendRequest(j) \/ NotReady(j) \/ PollFails(j) \/ ClearKey(j) \/ ClearDone(j)
             \/ TriggerEmail(j) \/ TriggerReview(j)
      PROVE  \A d \in DatesOf(IndexOrder[n], job'[i].stmt) :
                 store'[IndexOrder[n]][d].rev = job'[i].stmt.rev
  <2>1. CASE i # j
    BY <1>1, <1>4, <2>1 DEF SendRequest, NotReady, PollFails, ClearKey, ClearDone,
       TriggerEmail, TriggerReview, GiveUp, GoTo, TypeInv, JobsOK
  <2>2. CASE i = j
    <3>1. ~(SendRequest(j) \/ NotReady(j) \/ PollFails(j) \/ TriggerReview(j))
      BY <2>2 DEF SendRequest, NotReady, PollFails, TriggerReview, GiveUp, TypeInv, JobsOK,
         JobOK, Jobs, NoJob, Working
    <3>2. CASE ClearKey(j) \/ ClearDone(j) \/ TriggerEmail(j)
      <4>1. JobOK(job[i]) /\ DOMAIN job = Importers
        BY DEF TypeInv, JobsOK
      <4>2. /\ job'[i] # NoJob => job'[i].stmt = job[i].stmt /\ job'[i].alone = job[i].alone
            /\ job[i].pc \in {"clear", "email"} /\ store' = store
        <5>1. CASE ClearKey(i)
          <6>1. PICK k \in job[i].left : job'[i] = [job[i] EXCEPT !.left = @ \ {k}]
            BY <4>1, <5>1 DEF ClearKey
          <6>2. job'[i].stmt = job[i].stmt /\ job'[i].alone = job[i].alone
            BY <4>1, <6>1 DEF JobOK, Jobs
          <6> QED BY <5>1, <6>2 DEF ClearKey
        <5>2. CASE ClearDone(i)
          <6>1. job'[i] = NoJob \/ job'[i] = [job[i] EXCEPT !.pc = "email", !.left = {}]
            BY <4>1, <5>2 DEF ClearDone, GiveUp
          <6> QED BY <4>1, <5>2, <6>1 DEF ClearDone, JobOK, Jobs
        <5>3. CASE TriggerEmail(i)
          BY <4>1, <5>3 DEF TriggerEmail, GoTo, JobOK, Jobs
        <5> QED BY <2>2, <3>2, <5>1, <5>2, <5>3
      <4>3. job'[i] # NoJob
        BY DEF NoJob, Working
      <4> QED BY <1>1, <4>2, <4>3 DEF Working
    <3> QED BY <1>4, <3>1, <3>2
  <2> QED BY <2>1, <2>2
<1>5. ASSUME UNCHANGED <<store, job>>
      PROVE  \A d \in DatesOf(IndexOrder[n], job'[i].stmt) :
                 store'[IndexOrder[n]][d].rev = job'[i].stmt.rev
  BY <1>1, <1>5
<1> QED
  BY <1>2, <1>3, <1>4, <1>5
  DEF Next, ImporterStep, ReaderStep, vars, Booking, GetJson, Expire, Search, MultiSearch,
      SetJson

\* When the e-mail and the review are triggered, all five indices hold the whole
\* statement: a partial bulk request of import_daily_snapshot_file ends the job.
THEOREM TriggersFollowCompleteImports == Spec => []TriggeredComplete
<1>1. CompleteInv => TriggeredComplete
  <2> SUFFICES ASSUME CompleteInv, NEW i \in Importers, job[i].pc \in {"email", "review"},
                      job[i].alone, NEW x \in Indices
               PROVE  \A d \in DatesOf(x, job[i].stmt) : store[x][d].rev = job[i].stmt.rev
    BY DEF TriggeredComplete
  <2>1. PICK n \in 1 .. Len(IndexOrder) : x = IndexOrder[n]
    BY DEF Indices
  <2>2. n \in WrittenBy(i)
    BY DEF WrittenBy
  <2> QED BY <2>1, <2>2 DEF CompleteInv, Holds, Working
<1>2. TypeInv /\ CompleteInv /\ [Next]_vars => TypeInv' /\ CompleteInv'
  BY TypeKept, CompleteKept
<1> QED BY <1>1, <1>2, InitInv, PTL DEF Spec

\* The file import of a range of days leaves the net asset value and cash report of
\* the single days alone: a day of a longer statement is compacted.
THEOREM DetailsStay == Spec => DetailKept
<1>1. ASSUME TypeInv, [Next]_vars, NEW d \in Days, store["account"][d].extra # 0
      PROVE  store'["account"][d].extra # 0
  <2>1. CASE store' = store
    BY <1>1, <2>1
  <2>2. ASSUME NEW i \in Importers, WriteIndex(i) \/ WriteFails(i)
        PROVE  store'["account"][d].extra # 0
    <3> DEFINE x == IndexOrder[job[i].next]
               s == job[i].stmt
    <3>1. x \in Indices /\ s \in Statements
      BY <2>2, <1>1, IndexFacts
      DEF WriteIndex, WriteFails, TypeInv, JobsOK, JobOK, Working
    <3>2. PICK dates : store' = BulkUpsert(x, s, dates)
      BY <2>2 DEF WriteIndex, WriteFails
    <3> HIDE DEF x, s
    <3>3. CASE x # "account"
      BY <1>1, <3>1, <3>2, <3>3, IndexFacts DEF BulkUpsert, TypeInv
    <3>4. CASE x = "account"
      <4>1. s.rev # 0
        BY <3>1, Bounds DEF Statements
      <4>2. \/ store'["account"][d] = store["account"][d]
            \/ store'["account"][d] = Merged("account", s, d, store["account"][d])
        BY <1>1, <3>2, <3>4, IndexFacts DEF BulkUpsert, TypeInv
      <4>3. Merged("account", s, d, store["account"][d]).extra # 0
        BY <1>1, <4>1 DEF Merged
      <4> QED BY <1>1, <4>2, <4>3
    <3> QED BY <3>3, <3>4
  <2> QED BY <1>1, <2>1, <2>2, WritesOnly
<1>2. TypeInv /\ [Next]_vars =>
        \A d \in Days : store["account"][d].extra # 0 => store'["account"][d].extra # 0
  BY <1>1
<1> QED BY <1>2, InitInv, TypeKept, PTL DEF Spec, DetailKept

-----------------------------------------------------------------------------
\* The invariant of the cache.  A fault stays a fault.
LEMMA FaultsStay ==
  ASSUME TypeInv, [Next]_vars, faults' = 0
  PROVE  /\ faults = 0
         /\ \A i \in Importers : ~PollFails(i) /\ ~WriteFails(i)
         /\ \A i \in Importers : ClearDone(i) => job[i].left = {}
<1>1. faults \in Nat
  BY Bounds DEF TypeInv
<1>2. ~Fault
  BY <1>1 DEF Fault
<1>3. faults' = faults
  BY <1>2 DEF Next, vars, Booking, SendRequest, ImportFile, PollFails, WriteFails, WriteIndex,
     ImporterStep, GetStatement, NotReady, ClearKey, ClearDone, TriggerEmail, TriggerReview,
     GetJson, Expire, ReaderStep, Search, MultiSearch, SetJson
<1> QED BY <1>2, <1>3 DEF PollFails, WriteFails, ClearDone

\* Who is about to clear a key goes on to, unless the key is cleared.
LEMMA StillAboutToClear ==
  ASSUME TypeInv, [Next]_vars, faults' = 0, NEW k \in Keys, AboutToClear(k), Cached(k)'
  PROVE  AboutToClear(k)'
<1>1. PICK i \in Importers : \/ job[i].pc = "write"
                             \/ job[i].pc = "clear" /\ k \in job[i].left
  BY DEF AboutToClear
<1>2. JobOK(job[i]) /\ DOMAIN job = Importers /\ \A j \in Importers : JobOK(job[j])
  BY DEF TypeInv, JobsOK
<1>3. ASSUME job'[i].pc = job[i].pc, k \in job[i].left => k \in job'[i].left
      PROVE  AboutToClear(k)'
  BY <1>1, <1>3 DEF AboutToClear
<1>4. CASE UNCHANGED job
  BY <1>3, <1>4
<1>5. ASSUME NEW j \in Importers, WriteIndex(j) PROVE AboutToClear(k)'
  <2>1. job[j].pc = "write" /\ job[j].next \in 1 .. Len(IndexOrder)
    BY <1>2, <1>5, IndexFacts DEF JobOK, WriteIndex
  <2>2. job[j].next + 1 \in 1 .. Len(IndexOrder) + 1 /\ job' = AfterWrite(j, job[j].next + 1)
    BY <2>1, <1>5, IndexFacts DEF WriteIndex
  <2>3. CASE i = j
    <3>1. Cached(k)
      BY <1>5, OutdateFacts DEF WriteIndex, Cached
    <3>2. job'[i].pc \in {"write", "clear"} /\ (job'[i].pc = "clear" => k \in job'[i].left)
      BY <2>1, <2>2, <2>3, <3>1, AfterWriteFacts
    <3> QED BY <3>2 DEF AboutToClear
  <2>4. CASE i # j
    <3>1. job'[i] = [job[i] EXCEPT !.alone = @ /\ job[i].pc = "idle"]
      BY <2>1, <2>2, <2>4, AfterWriteFacts
    <3> QED BY <1>2, <1>3, <3>1 DEF JobOK, Jobs
  <2> QED BY <2>3, <2>4
<1>6. ASSUME NEW j \in Importers, ClearKey(j) PROVE AboutToClear(k)'
  <2>1. PICK l \in job[j].left : /\ job' = [job EXCEPT ![j].left = @ \ {l}]
                                 /\ cache' = [cache EXCEPT ![l] = NoEntry]
    BY <1>6 DEF ClearKey
  <2>2. k # l
    BY <2>1 DEF Cached, NoEntry, TypeInv
  <2> QED BY <1>2, <1>3, <2>1, <2>2 DEF JobOK, Jobs
<1>7. ASSUME NEW j \in Importers, SendRequest(j) \/ ImportFile(j) PROVE AboutToClear(k)'
  BY <1>1, <1>2, <1>3, <1>7 DEF SendRequest, ImportFile
<1>8. ASSUME NEW j \in Importers, GetStatement(j) \/ NotReady(j) PROVE AboutToClear(k)'
  BY <1>1, <1>2, <1>3, <1>8 DEF GetStatement, NotReady, GiveUp
<1>9. ASSUME NEW j \in Importers, TriggerEmail(j) \/ TriggerReview(j) PROVE AboutToClear(k)'
  BY <1>1, <1>2, <1>3, <1>9 DEF TriggerEmail, TriggerReview, GoTo, GiveUp
<1>10. ASSUME NEW j \in Importers, ClearDone(j) PROVE AboutToClear(k)'
  BY <1>1, <1>2, <1>3, <1>10, FaultsStay DEF ClearDone, GiveUp
<1> QED
  BY <1>4, <1>5, <1>6, <1>7, <1>8, <1>9, <1>10, FaultsStay
  DEF Next, ImporterStep, ReaderStep, vars, Booking, GetJson, Expire, Search, MultiSearch,
      SetJson

\* Only a reader that saw a write leaves a stale answer that nobody is to delete.
LEMMA FreshKept ==
  ASSUME TypeInv, FreshInv, [Next]_vars
  PROVE  FreshInv'
<1> SUFFICES ASSUME faults' = 0 PROVE FreshInv'
  BY DEF FreshInv
<1>1. faults = 0
  BY FaultsStay
<1>2. ASSUME NEW i \in Importers, WriteIndex(i)
      PROVE  FreshInv'
  <2>1. job[i].pc = "write" /\ job[i].next \in 1 .. Len(IndexOrder)
    BY <1>2, IndexFacts DEF TypeInv, JobsOK, JobOK, WriteIndex
  <2>2. job[i].next + 1 \in 1 .. Len(IndexOrder) + 1
    BY <2>1, IndexFacts
  <2>3. /\ reader'.pc # "idle" => reader'.dirty
        /\ \A k \in Keys : cache'[k].set = cache[k].set
    BY <1>2, OutdateFacts DEF WriteIndex
  <2>4. \A k \in Keys : Cached(k) => AboutToClear(k)'
    <3>1. /\ job'[i].pc \in {"write", "clear"}
          /\ job'[i].pc = "clear" => job'[i].left = {k \in Keys : Cached(k)}
      BY <1>2, <2>1, <2>2, AfterWriteFacts DEF WriteIndex
    <3> QED BY <3>1 DEF AboutToClear
  <2> QED BY <2>3, <2>4 DEF FreshInv, Cached
<1>3. CASE SetJson
  <2>1. reader'.pc = "idle"
    BY <1>3 DEF SetJson, NoReader
  <2>2. ASSUME NEW k \in Keys, Cached(k)', ~cache'[k].dirty, ~cache'[k].fresh
        PROVE  Cached(k) /\ ~cache[k].dirty /\ ~cache[k].fresh
    <3>1. cache'[k] # [set |-> TRUE, fresh |-> reader.fresh, dirty |-> reader.dirty]
      BY <1>1, <1>3, <2>2 DEF SetJson, FreshInv
    <3>2. cache'[k] = cache[k]
      BY <1>3, <3>1 DEF SetJson, TypeInv
    <3> QED BY <2>2, <3>2 DEF Cached
  <2> QED BY <1>1, <2>1, <2>2, StillAboutToClear DEF FreshInv
<1>4. CASE Search \/ MultiSearch
  <2>1. cache' = cache
    BY <1>4 DEF Search, MultiSearch
  <2>2. reader'.pc # "idle" =>
          reader.pc # "idle" /\ reader'.dirty = reader.dirty /\ reader'.fresh = reader.fresh
    <3>1. \/ reader' = NoReader
          \/ reader' = [reader EXCEPT !.pc = "second"] /\ reader.pc = "first"
          \/ reader' = [reader EXCEPT !.pc = "set"] /\ reader.pc = "second"
      BY <1>4 DEF Search, MultiSearch
    <3>2. reader \in Readers
      BY DEF TypeInv
    <3>3. CASE reader' = NoReader
      BY <3>3 DEF NoReader
    <3>4. CASE reader' = [reader EXCEPT !.pc = "second"] /\ reader.pc = "first"
      BY <3>2, <3>4 DEF Readers
    <3>5. CASE reader' = [reader EXCEPT !.pc = "set"] /\ reader.pc = "second"
      BY <3>2, <3>5 DEF Readers
    <3> QED BY <3>1, <3>3, <3>4, <3>5
  <2> QED BY <1>1, <2>1, <2>2, StillAboutToClear DEF FreshInv, Cached
<1>5. ASSUME NEW k \in Keys, GetJson(k) PROVE FreshInv'
  BY <1>1, <1>5, StillAboutToClear DEF GetJson, FreshInv, Cached, NoReader, TypeInv
<1>6. ASSUME NEW k \in Keys, Expire(k) PROVE FreshInv'
  BY <1>1, <1>6, StillAboutToClear DEF Expire, FreshInv, Cached, NoEntry, TypeInv
<1>7. ASSUME NEW i \in Importers, ClearKey(i) PROVE FreshInv'
  BY <1>1, <1>7, StillAboutToClear DEF ClearKey, FreshInv, Cached, NoEntry, TypeInv
<1>8. ASSUME UNCHANGED <<cache, reader>> PROVE FreshInv'
  BY <1>1, <1>8, StillAboutToClear DEF FreshInv, Cached
<1> QED
  BY <1>2, <1>3, <1>4, <1>5, <1>6, <1>7, <1>8, FaultsStay
  DEF Next, ImporterStep, ReaderStep, vars, Booking, SendRequest, ImportFile, GetStatement,
      NotReady, ClearDone, TriggerEmail, TriggerReview

\* Without an exception, once no import is under way, a cached answer that does not
\* show what is stored was computed by a reader that overlapped an import:
\* clear_all comes after the last write and deletes everything else.
THEOREM StaleNeedsOverlap == Spec => []StaleOnlyIfOverlapped
<1>1. FreshInv => StaleOnlyIfOverlapped
  BY DEF FreshInv, StaleOnlyIfOverlapped, AboutToClear
<1>2. TypeInv /\ FreshInv /\ [Next]_vars => TypeInv' /\ FreshInv'
  BY TypeKept, FreshKept
<1> QED BY <1>1, <1>2, InitInv, PTL DEF Spec
=============================================================================
