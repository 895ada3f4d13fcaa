------------------------ MODULE MarketEvents_proofs ------------------------
(***************************************************************************)
(* The market events, for any sources, calendars, processes, requests,     *)
(* revisions and faults: an administrator's switch stays, a run that says   *)
(* it has stored its events has, and no run is left running.                *)
(***************************************************************************)
EXTENDS MarketEvents, TLAPS

-----------------------------------------------------------------------------
(***************************************************************************)
(* The sources: a rewrite that nobody disturbed writes what it has read,     *)
(* but for the fields it sets.                                               *)
(***************************************************************************)
Checks == {"never", "SUCCESS", "FAILED", "SKIPPED"}
Sets == [enabled : BOOLEAN] \cup [check : Checks]
SourceDoc == [enabled : BOOLEAN, check : Checks]

RequestOK(a) ==
  LET r == admin[a] IN
  /\ r.at \in {"health", "read", "write"} => r.s \in Sources
  /\ r.at \in {"read", "write"} => r.set \in Sets
  /\ r.at = "write" => r.copy \in SourceDoc /\ (~clashed => r.copy = src[r.s])

SwitchInv ==
  /\ src = [s \in Sources |-> src[s]] /\ \A s \in Sources : src[s] \in SourceDoc
  /\ asked = [s \in Sources |-> asked[s]]
  /\ admin = [a \in Admins |-> admin[a]]
  /\ \A a \in Admins : RequestOK(a)
  /\ SwitchKept


\* A request sets one field, and leaves the other as it was read.
LEMMA ApplySets ==
  ASSUME NEW doc \in SourceDoc, NEW set \in Sets
  PROVE  /\ Apply(doc, set) \in SourceDoc
         /\ "enabled" \in DOMAIN set => Apply(doc, set).enabled = set.enabled
         /\ "enabled" \notin DOMAIN set => Apply(doc, set).enabled = doc.enabled
<1>1. CASE set \in [enabled : BOOLEAN]
  <2>1. DOMAIN set = {"enabled"} /\ set.enabled \in BOOLEAN
    BY <1>1
  <2>2. Apply(doc, set) = [enabled |-> set.enabled, check |-> doc.check]
    BY <2>1 DEF Apply, SourceDoc
  <2> QED BY <2>1, <2>2 DEF SourceDoc
<1>2. CASE set \in [check : Checks]
  <2>1. DOMAIN set = {"check"} /\ set.check \in Checks
    BY <1>2
  <2>2. Apply(doc, set) = [enabled |-> doc.enabled, check |-> set.check]
    BY <2>1 DEF Apply, SourceDoc
  <2> QED BY <2>1, <2>2 DEF SourceDoc
<1> QED BY <1>1, <1>2 DEF Sets

\* A request that does not write leaves the documents to the others.
LEMMA RequestMoves ==
  ASSUME SwitchInv, NEW a \in Admins, NEW r, admin' = [admin EXCEPT ![a] = r],
         UNCHANGED <<src, asked, clashed>>, RequestOK(a)'
  PROVE  SwitchInv'
<1>1. \A b \in Admins : admin'[b] = IF b = a THEN r ELSE admin[b]
  BY DEF SwitchInv
<1>2. ASSUME NEW b \in Admins \ {a} PROVE RequestOK(b)'
  <2>1. RequestOK(b) /\ admin'[b] = admin[b]
    BY <1>1 DEF SwitchInv
  <2> QED BY <2>1 DEF RequestOK
<1>3. admin' = [b \in Admins |-> admin'[b]]
  BY DEF SwitchInv
<1> QED BY <1>2, <1>3 DEF SwitchInv, SwitchKept

\* An administrator asks.
LEMMA AskKept ==
  ASSUME SwitchInv, NEW a \in Admins, NEW request, Ask(a, request),
         request.at \in {"health", "read"} => request.s \in Sources,
         request.at = "read" => request.set \in Sets,
         request.at # "write"
  PROVE  SwitchInv'
<1>1. admin'[a] = request
  BY DEF Ask, SwitchInv
<1>2. RequestOK(a)'
  BY <1>1 DEF RequestOK
<1> QED BY <1>2, RequestMoves DEF Ask

\* What administrators and their requests do.
LEMMA SourcesKept ==
  ASSUME SwitchInv, SourcesNext
  PROVE  SwitchInv'
<1>1. PICK a \in Admins :
        \/ \E s \in Managed : Patch(a, s) \/ Test(a, s)
        \/ \E s \in Managed \intersect Keyed : OpenKeys(a, s)
        \/ AdminStep(a)
  BY DEF SourcesNext
<1>2. Managed \subseteq Sources
  BY SourcesAssumption
<1>3. RequestOK(a) /\ (\A b \in Admins : RequestOK(b))
  BY DEF SwitchInv
<1>4. ASSUME NEW s \in Managed, Patch(a, s) PROVE SwitchInv'
  <2>1. PICK on \in BOOLEAN : Ask(a, [at |-> "read", s |-> s, set |-> [enabled |-> on]])
    BY <1>4 DEF Patch
  <2>2. [enabled |-> on] \in Sets
    BY DEF Sets, Checks
  <2> QED BY <1>2, <2>1, <2>2, AskKept
<1>5. ASSUME NEW s \in Managed, Test(a, s) PROVE SwitchInv'
  <2>1. [check |-> "SKIPPED"] \in Sets
    BY DEF Sets, Checks
  <2>2. CASE src[s].enabled
    <3>1. Ask(a, [at |-> "health", s |-> s])
      BY <1>5, <2>2 DEF Test
    <3> QED BY <1>2, <3>1, AskKept
  <2>3. CASE ~src[s].enabled
    <3>1. Ask(a, [at |-> "read", s |-> s, set |-> [check |-> "SKIPPED"]])
      BY <1>5, <2>3 DEF Test
    <3> QED BY <1>2, <2>1, <3>1, AskKept
  <2> QED BY <2>2, <2>3
<1>6. ASSUME NEW s \in Managed \intersect Keyed, OpenKeys(a, s) PROVE SwitchInv'
  <2>1. PICK keep \in BOOLEAN : Ask(a, [at |-> "keys", s |-> s, keep |-> keep, copy |-> keys])
    BY <1>6 DEF OpenKeys
  <2> QED BY <2>1, AskKept
<1>7. CASE HealthCheck(a)
  <2>1. PICK result \in {"SUCCESS", "FAILED", "SKIPPED"} :
          admin' = [admin EXCEPT ![a] = [at |-> "read", s |-> admin[a].s, set |-> [check |-> result]]]
    BY <1>7 DEF HealthCheck
  <2>2. [check |-> result] \in Sets
    BY DEF Sets, Checks
  <2>3. admin'[a] = [at |-> "read", s |-> admin[a].s, set |-> [check |-> result]]
    BY <2>1 DEF SwitchInv
  <2>4. RequestOK(a)'
    BY <1>3, <1>7, <2>2, <2>3 DEF HealthCheck, RequestOK
  <2> QED BY <1>7, <2>1, <2>4, RequestMoves DEF HealthCheck
<1>8. CASE ReadSource(a)
  <2> DEFINE r == [at |-> "write", s |-> admin[a].s, set |-> admin[a].set, copy |-> src[admin[a].s]]
  <2>1. admin' = [admin EXCEPT ![a] = r] /\ admin'[a] = r /\ UNCHANGED <<src, asked, clashed>>
    BY <1>8 DEF ReadSource, SwitchInv
  <2>2. admin[a].s \in Sources /\ admin[a].set \in Sets /\ src[admin[a].s] \in SourceDoc
    BY <1>3, <1>8 DEF ReadSource, RequestOK, SwitchInv
  <2>3. RequestOK(a)'
    BY <2>1, <2>2 DEF RequestOK
  <2> QED BY <2>1, <2>3, RequestMoves
<1>9. CASE WriteSource(a)
  <2> DEFINE r == admin[a]
             doc == Apply(r.copy, r.set)
  <2>1. /\ r.at = "write" /\ src' = [src EXCEPT ![r.s] = doc]
        /\ asked' = IF "enabled" \in DOMAIN r.set THEN [asked EXCEPT ![r.s] = r.set.enabled] ELSE asked
        /\ clashed' = (clashed \/ \E b \in Admins \ {a} : admin[b].at = "write" /\ admin[b].s = r.s)
        /\ admin' = [admin EXCEPT ![a] = Idle]
    BY <1>9 DEF WriteSource
  <2>2. r.s \in Sources /\ r.set \in Sets /\ r.copy \in SourceDoc /\ (~clashed => r.copy = src[r.s])
    BY <1>3, <2>1 DEF RequestOK
  <2>3. /\ doc \in SourceDoc
        /\ "enabled" \in DOMAIN r.set => doc.enabled = r.set.enabled
        /\ "enabled" \notin DOMAIN r.set => doc.enabled = r.copy.enabled
    BY <2>2, ApplySets
  <2>4. \A b \in Admins : admin'[b] = IF b = a THEN Idle ELSE admin[b]
    BY <2>1 DEF SwitchInv
  <2>5. admin' = [b \in Admins |-> admin'[b]]
    BY <2>1 DEF SwitchInv
  <2> HIDE DEF doc
  <2>6. /\ \A s \in Sources : src'[s] = IF s = r.s THEN doc ELSE src[s]
        /\ src' = [s \in Sources |-> src'[s]]
    BY <2>1, <2>2 DEF SwitchInv
  <2>7. asked' = [s \in Sources |-> asked'[s]]
    BY <2>1 DEF SwitchInv
  <2>8. ASSUME NEW b \in Admins PROVE RequestOK(b)'
    <3>1. CASE b = a
      BY <2>4, <3>1 DEF RequestOK, Idle
    <3>2. CASE b # a
      <4>1. admin'[b] = admin[b] /\ RequestOK(b)
        BY <1>3, <2>4, <3>2
      <4>2. ~clashed' /\ admin[b].at = "write" => ~clashed /\ admin[b].s # r.s
        BY <2>1, <3>2
      <4> QED BY <2>6, <4>1, <4>2 DEF RequestOK
    <3> QED BY <3>1, <3>2
  <2>9. SwitchKept'
    <3> SUFFICES ASSUME ~clashed', NEW s \in Sources PROVE src'[s].enabled = asked'[s]
      BY DEF SwitchKept
    <3>1. ~clashed /\ src[s].enabled = asked[s] /\ r.copy = src[r.s]
      BY <2>1, <2>2 DEF SwitchInv, SwitchKept
    <3>2. CASE "enabled" \in DOMAIN r.set
      <4>1. asked'[s] = IF s = r.s THEN r.set.enabled ELSE asked[s]
        BY <2>1, <3>2 DEF SwitchInv
      <4> QED BY <2>3, <2>6, <3>1, <3>2, <4>1
    <3>3. CASE "enabled" \notin DOMAIN r.set
      BY <2>1, <2>3, <2>6, <3>1, <3>3
    <3> QED BY <3>2, <3>3
  <2>10. \A s \in Sources : src'[s] \in SourceDoc
    BY <2>3, <2>6 DEF SwitchInv
  <2> QED BY <2>5, <2>6, <2>7, <2>8, <2>9, <2>10 DEF SwitchInv
<1>10. CASE SaveKeys(a)
  <2>1. admin' = [admin EXCEPT ![a] = Idle] /\ admin'[a] = Idle /\ UNCHANGED <<src, asked, clashed>>
    BY <1>10 DEF SaveKeys, SwitchInv
  <2>2. RequestOK(a)'
    BY <2>1 DEF RequestOK, Idle
  <2> QED BY <2>1, <2>2, RequestMoves
<1> QED BY <1>1, <1>4, <1>5, <1>6, <1>7, <1>8, <1>9, <1>10 DEF AdminStep

\* For any sources, administrators and synchronisations: the switch of a source is the
\* last one that was stored, unless two rewrites of its document overlapped.
THEOREM SwitchesStay == Spec => []SwitchKept
<1>1. Init => SwitchInv
  <2> SUFFICES ASSUME Init PROVE SwitchInv
    OBVIOUS
  <2>1. /\ src = [s \in Sources |-> [enabled |-> TRUE, check |-> "never"]]
        /\ asked = [s \in Sources |-> TRUE] /\ admin = [a \in Admins |-> Idle]
    BY DEF Init, SourcesInit
  <2>2. \A s \in Sources : src[s] \in SourceDoc /\ src[s].enabled = asked[s]
    BY <2>1 DEF SourceDoc, Checks
  <2>3. \A a \in Admins : admin[a].at = "idle"
    BY <2>1 DEF Idle
  <2> QED BY <2>1, <2>2, <2>3 DEF SwitchInv, SwitchKept, RequestOK
<1>2. ASSUME SwitchInv, [Next]_vars PROVE SwitchInv'
  <2>1. ASSUME UNCHANGED <<src, asked, admin, clashed>> PROVE SwitchInv'
    BY <1>2, <2>1 DEF SwitchInv, RequestOK, SwitchKept
  <2>2. CASE UNCHANGED vars
    BY <2>1, <2>2 DEF vars, sourceVars
  <2>3. CASE SourcesNext
    BY <1>2, <2>3, SourcesKept
  <2>4. ASSUME NEW p \in Workers, Begin(p) \/ SyncStep(p) \/ Fault(p) PROVE SwitchInv'
    BY <2>1, <2>4 DEF Begin, SyncStep, Select, Create, Fetch, Search, Index, Value, Finish, Fault, sourceVars
  <2>5. ASSUME NEW k \in Keys, Revise(k) PROVE SwitchInv'
    BY <2>1, <2>5 DEF Revise, sourceVars
  <2> QED BY <1>2, <2>2, <2>3, <2>4, <2>5 DEF Next
<1>3. SwitchInv => SwitchKept
  BY DEF SwitchInv
<1> QED BY <1>1, <1>2, <1>3, PTL DEF Spec

-----------------------------------------------------------------------------
(***************************************************************************)
(* The synchronisation: types.                                             *)
(***************************************************************************)
Statuses  == {"SUCCESS", "FAILED", "SKIPPED"}
EventRec  == [key : Keys, rev : Nat]
ValueSeqs == {<<>>} \cup {Estimates(s) : s \in Sources}
                    \cup {<<[label |-> s, of |-> "series"]>> : s \in Sources}
Got       == [status : Statuses, events : Seq(EventRec), values : ValueSeqs]
TypeNames == Range(Types)
AnyType   == TypeNames \cup {""}
Places    == {"provider", "create", "fetch", "search", "index", "values", "finish", "failed"}
Work      == [types : SUBSET TypeNames, todo : SUBSET Sources, dry : BOOLEAN,
              rest : SUBSET TypeNames, at : Places, run : Nat, type : AnyType,
              got : Got, n : Nat, ids : Seq(Keys), failed : Nat]
RunDoc    == [status : Statuses \cup {"RUNNING"}, source : Sources, failed : Nat,
              events : Seq(EventRec), dry : BOOLEAN, lost : BOOLEAN, alone : BOOLEAN]

TypeInv ==
  /\ rev \in [Keys -> Nat \ {0}]
  /\ occ \in [Keys -> [rev : Nat, hash : Nat]]
  /\ \A k \in Keys : occ[k].hash \in {0, occ[k].rev}
  /\ runs \in Seq(RunDoc)
  /\ faults \in Nat
  /\ sync = [p \in Workers |-> sync[p]]
  /\ \A p \in Workers : sync[p] = Idle \/ sync[p] \in Work

\* A process has a run document in its hands.
Working(p) == sync[p].at \in {"fetch", "search", "index", "values", "finish", "failed"}
Mine(p)    == runs[sync[p].run]

\* What a run says it has stored, undisturbed.
Claims(r) ==
  runs[r].status = "SUCCESS" /\ runs[r].failed = 0 /\ runs[r].alone /\ ~runs[r].dry /\ runs[r].source # "FED"

Kept(e) == occ[e.key].rev >= e.rev

\* A run's document is that of its process; until it is closed it is running, and when it
\* is alone nobody else is busy.
HoldsRun(p) ==
  Working(p) =>
    /\ sync[p].run \in DOMAIN runs
    /\ Mine(p).source = Source(p) /\ Mine(p).dry = sync[p].dry
    /\ sync[p].at # "failed" => Mine(p).status = "RUNNING"
    /\ sync[p].at = "failed" => faults >= 1
    /\ Mine(p).status = "RUNNING" /\ Mine(p).alone => \A q \in Workers \ {p} : ~Busy(q)

\* Whoever is to close a run as a success has gone through its events.
Through(p) == sync[p].at = "values" \/ (sync[p].at = "finish" /\ sync[p].got.status = "SUCCESS" /\ ~sync[p].dry)
Handling(p) == sync[p].at \in {"search", "index"}

\* What was fetched is what the providers had published, and not older than what any run
\* has stored; and an undisturbed run without a failure has stored what it has gone through.
HoldsEvents(p) ==
  LET events == sync[p].got.events IN
  /\ Handling(p) \/ Through(p) =>
       /\ Mine(p).events = events /\ sync[p].got.status = "SUCCESS"
       /\ \A i \in DOMAIN events : events[i].rev <= rev[events[i].key]
       /\ \A i, j \in DOMAIN events : events[i].key = events[j].key => events[i].rev = events[j].rev
  /\ Handling(p) =>
       /\ sync[p].n >= 1
       /\ sync[p].at = "index" => sync[p].n <= Len(events)
       /\ \A r \in DOMAIN runs : Claims(r) =>
            \A e \in Range(runs[r].events) : \A i \in DOMAIN events :
              events[i].key = e.key => e.rev <= events[i].rev
  /\ Handling(p) /\ sync[p].failed = 0 /\ Mine(p).alone /\ Source(p) # "FED" =>
       \A i \in DOMAIN events : i < sync[p].n => Kept(events[i])
  /\ Through(p) /\ sync[p].failed = 0 /\ Mine(p).alone /\ Source(p) # "FED" =>
       \A i \in DOMAIN events : Kept(events[i])

WorkOK(p) ==
  Busy(p) =>
    /\ sync[p].at # "provider" => sync[p].todo # {}
    /\ HoldsRun(p)
    /\ HoldsEvents(p)

\* What a run claims to have stored is stored, and was published.
RunOK(r) ==
  Claims(r) => \A e \in Range(runs[r].events) : e.rev <= rev[e.key] /\ Kept(e)

Distinct ==
  \A p, q \in Workers : p # q /\ Working(p) /\ Working(q) => sync[p].run # sync[q].run

Closed ==
  faults <= 1 =>
    \A r \in DOMAIN runs :
      runs[r].status = "RUNNING" => runs[r].lost \/ \E p \in Workers : Working(p) /\ sync[p].run = r

EventInv ==
  /\ TypeInv
  /\ \A p \in Workers : WorkOK(p)
  /\ Distinct
  /\ \A r \in DOMAIN runs : RunOK(r)
  /\ Closed

-----------------------------------------------------------------------------
(***************************************************************************)
(* What the operators return.                                              *)
(***************************************************************************)

\* Of something that is left, the first in an order of seven is taken.
LEMMA FirstIsLeft ==
  ASSUME NEW order, DOMAIN order = 1..7, NEW left, NEW i \in 1..7, order[i] \in left
  PROVE  First(order, left) \in left
<1>1. \E m \in 1..7 : order[m] \in left /\ \A j \in 1 .. m - 1 : order[j] \notin left
  <2>1. CASE order[1] \in left
    BY <2>1
  <2>2. CASE order[1] \notin left /\ order[2] \in left
    BY <2>2
  <2>3. CASE order[1] \notin left /\ order[2] \notin left /\ order[3] \in left
    BY <2>3
  <2>4. CASE order[1] \notin left /\ order[2] \notin left /\ order[3] \notin left /\ order[4] \in left
    BY <2>4
  <2>5. CASE /\ order[1] \notin left /\ order[2] \notin left /\ order[3] \notin left /\ order[4] \notin left
             /\ order[5] \in left
    BY <2>5
  <2>6. CASE /\ order[1] \notin left /\ order[2] \notin left /\ order[3] \notin left /\ order[4] \notin left
             /\ order[5] \notin left /\ order[6] \in left
    BY <2>6
  <2>7. CASE /\ order[1] \notin left /\ order[2] \notin left /\ order[3] \notin left /\ order[4] \notin left
             /\ order[5] \notin left /\ order[6] \notin left
    <3>1. i = 7
      BY <2>7
    <3> QED BY <2>7, <3>1
  <2> QED BY <2>1, <2>2, <2>3, <2>4, <2>5, <2>6, <2>7
<1> QED BY <1>1 DEF First

\* The next source and the next type are among those that are left.
LEMMA NextOnes ==
  /\ \A left \in SUBSET Sources : left # {} => First(Order, left) \in left
  /\ \A left \in SUBSET TypeNames : left # {} => First(Types, left) \in left
<1>1. DOMAIN Order = 1..7 /\ DOMAIN Types = 1..7
  BY DEF Order, Types
<1>2. Sources \subseteq Range(Order)
  BY EventsAssumption
<1>3. ASSUME NEW left \in SUBSET Sources, left # {} PROVE First(Order, left) \in left
  <2>1. PICK i \in 1..7 : Order[i] \in left
    BY <1>1, <1>2, <1>3 DEF Range
  <2> QED BY <1>1, <2>1, FirstIsLeft
<1>4. ASSUME NEW left \in SUBSET TypeNames, left # {} PROVE First(Types, left) \in left
  <2>1. PICK i \in 1..7 : Types[i] \in left
    BY <1>1, <1>4 DEF TypeNames, Range
  <2> QED BY <1>1, <2>1, FirstIsLeft
<1> QED BY <1>3, <1>4

\* What is listed are the events of the calendar as they are published.
LEMMA ListedFacts ==
  ASSUME TypeInv, NEW s \in Sources, NEW k \in EventKinds
  PROVE  /\ Listed(s, k) \in Seq(EventRec)
         /\ \A i \in DOMAIN Listed(s, k) : Listed(s, k)[i].rev = rev[Listed(s, k)[i].key]
<1> DEFINE cal == Calendar[s][k]
           n == Len(cal)
<1>1. cal \in Seq(Range(cal))
  BY EventsAssumption
<1>2. n \in Nat /\ DOMAIN cal = 1..n
  BY <1>1
<1>3. \A i \in 1..n : cal[i].key \in Keys
  <2> DEFINE keys_k == {e.key : e \in Range(cal)}
             keys_s == UNION {{e.key : e \in Range(Calendar[s][kind])} : kind \in EventKinds}
  <2>1. \A i \in 1..n : cal[i].key \in keys_k
    BY <1>2 DEF Range
  <2>2. keys_k \subseteq keys_s
    OBVIOUS
  <2>3. keys_s \subseteq Keys
    BY DEF Keys
  <2> QED BY <2>1, <2>2, <2>3
<1>4. Listed(s, k) = [i \in 1..n |-> [key |-> cal[i].key, rev |-> rev[cal[i].key]]]
  BY <1>2 DEF Listed
<1> HIDE DEF cal, n
<1>5. \A i \in 1..n : [key |-> cal[i].key, rev |-> rev[cal[i].key]] \in EventRec
  BY <1>3 DEF TypeInv, EventRec
<1> QED BY <1>2, <1>4, <1>5

\* An answer lists events as they are published.
LEMMA AnswerFacts ==
  ASSUME TypeInv, NEW s \in Sources, NEW type, NEW got \in Answers(s, type)
  PROVE  /\ got \in Got
         /\ \A i \in DOMAIN got.events : got.events[i].rev = rev[got.events[i].key]
<1>1. \/ \E status \in Statuses : got = Nothing(status)
      \/ got = Series(s)
      \/ \E kind \in {"release", "holiday"} : got = Schedule(s, kind)
      \/ got = Corporate(s)
  BY DEF Answers, Statuses
<1>2. <<>> \in Seq(EventRec) /\ <<>> \in ValueSeqs /\ DOMAIN <<>> = {}
  BY DEF ValueSeqs
<1>3. ASSUME NEW status \in Statuses, got = Nothing(status)
      PROVE  got \in Got /\ \A i \in DOMAIN got.events : got.events[i].rev = rev[got.events[i].key]
  BY <1>2, <1>3 DEF Nothing, Got
<1>4. CASE got = Series(s)
  <2> DEFINE v == <<[label |-> s, of |-> "series"]>>
  <2>1. v \in ValueSeqs
    BY DEF ValueSeqs
  <2>2. got = [status |-> "SUCCESS", events |-> <<>>, values |-> v]
    BY <1>4 DEF Series
  <2> HIDE DEF v
  <2> QED BY <1>2, <2>1, <2>2 DEF Got, Statuses
<1>5. ASSUME NEW kind \in EventKinds, NEW v \in ValueSeqs,
             got = [status |-> "SUCCESS", events |-> Listed(s, kind), values |-> v]
      PROVE  got \in Got /\ \A i \in DOMAIN got.events : got.events[i].rev = rev[got.events[i].key]
  <2>1. /\ Listed(s, kind) \in Seq(EventRec)
        /\ \A i \in DOMAIN Listed(s, kind) : Listed(s, kind)[i].rev = rev[Listed(s, kind)[i].key]
    BY ListedFacts
  <2> QED BY <1>5, <2>1 DEF Got, Statuses
<1>6. ASSUME NEW kind \in {"release", "holiday"}, got = Schedule(s, kind)
      PROVE  got \in Got /\ \A i \in DOMAIN got.events : got.events[i].rev = rev[got.events[i].key]
  BY <1>2, <1>5, <1>6 DEF Schedule, EventKinds
<1>7. CASE got = Corporate(s)
  <2>1. Estimates(s) \in ValueSeqs /\ "corporate" \in EventKinds
    BY DEF ValueSeqs, EventKinds
  <2> QED BY <1>5, <1>7, <2>1 DEF Corporate
<1> QED BY <1>1, <1>3, <1>4, <1>6, <1>7

\* A process between two runs has nothing in its hands.
LEMMA FreshFacts ==
  ASSUME NEW w, NEW place \in Places,
         w.types \in SUBSET TypeNames, w.todo \in SUBSET Sources, w.dry \in BOOLEAN,
         w.rest \in SUBSET TypeNames
  PROVE  Fresh(w, place) \in Work /\ Fresh(w, place).at = place /\ Fresh(w, place).todo = w.todo
<1> DEFINE none == Nothing("SKIPPED")
<1>1. none \in Got
  BY DEF Nothing, Got, Statuses, ValueSeqs
<1>2. <<>> \in Seq(Keys) /\ "" \in AnyType
  BY DEF AnyType
<1> DEFINE f == Fresh(w, place)
<1>3. f = [types |-> w.types, todo |-> w.todo, dry |-> w.dry, rest |-> w.rest, at |-> place,
           run |-> 0, type |-> "", got |-> none, n |-> 1, ids |-> <<>>, failed |-> 0]
  BY DEF Fresh
<1> HIDE DEF none, f
<1>4. f \in Work /\ f.at = place /\ f.todo = w.todo
  BY <1>1, <1>2, <1>3 DEF Work
<1> QED BY <1>4 DEF f

-----------------------------------------------------------------------------
(***************************************************************************)
(* A step of one process.                                                  *)
(***************************************************************************)
RunPlaces == {"fetch", "search", "index", "values", "finish", "failed"}

\* What is known of a process that is busy.
LEMMA BusyFacts ==
  ASSUME EventInv, NEW p \in Workers, Busy(p)
  PROVE  /\ sync[p] \in Work
         /\ sync[p].at # "provider" => sync[p].todo # {}
         /\ sync[p].todo # {} => Source(p) \in sync[p].todo /\ Source(p) \in Sources
         /\ HoldsRun(p) /\ HoldsEvents(p)
<1>1. sync[p] \in Work
  BY DEF EventInv, TypeInv, Busy, Idle
<1>2. sync[p].todo \in SUBSET Sources
  BY <1>1 DEF Work
<1> QED BY <1>1, <1>2, NextOnes DEF EventInv, WorkOK, Source

\* Its record changes, and no other.
LEMMA SyncSet ==
  ASSUME TypeInv, NEW p \in Workers, NEW w, w = Idle \/ w \in Work, sync' = [sync EXCEPT ![p] = w]
  PROVE  /\ sync' = [q \in Workers |-> sync'[q]] /\ sync'[p] = w
         /\ \A q \in Workers \ {p} : sync'[q] = sync[q]
         /\ \A q \in Workers : sync'[q] = Idle \/ sync'[q] \in Work
BY DEF TypeInv

\* The others: a run of theirs is not alone when this process is busy, and this process
\* closes a run of its own that was alone only when they are not.
LEMMA OthersKept ==
  ASSUME EventInv, NEW p \in Workers, NEW q \in Workers \ {p}, Busy(p), sync'[q] = sync[q],
         rev' = rev, faults' \in {faults, faults + 1},
         \A r \in DOMAIN runs :
           r \in DOMAIN runs' /\ ((Working(p) /\ r = sync[p].run) \/ runs'[r] = runs[r]),
         \A r \in DOMAIN runs' : Claims(r)' =>
           \/ r \in DOMAIN runs /\ Claims(r) /\ runs'[r].events = runs[r].events
           \/ Working(p) /\ r = sync[p].run /\ runs[r].status = "RUNNING" /\ runs[r].alone
  PROVE  WorkOK(q)'
<1> SUFFICES ASSUME Busy(q)
             PROVE  /\ sync[q].at # "provider" => sync[q].todo # {}
                    /\ HoldsRun(q)' /\ HoldsEvents(q)'
  BY DEF WorkOK, Busy
<1>1. HoldsRun(q) /\ HoldsEvents(q) /\ (sync[q].at # "provider" => sync[q].todo # {})
  BY BusyFacts
<1>2. Working(q) =>
        /\ sync[q].run \in DOMAIN runs /\ sync[q].run \in DOMAIN runs'
        /\ runs'[sync[q].run] = runs[sync[q].run]
        /\ ~(Mine(q).status = "RUNNING" /\ Mine(q).alone)
  BY <1>1 DEF HoldsRun, EventInv, Distinct
<1>3. faults \in Nat
  BY DEF EventInv, TypeInv
<1>4. HoldsRun(q)'
  BY <1>1, <1>2, <1>3 DEF HoldsRun, Working, Mine, Source
<1>5. ASSUME NEW r \in DOMAIN runs', Claims(r)'
      PROVE  r \in DOMAIN runs /\ Claims(r) /\ runs'[r].events = runs[r].events
  <2>1. ~(Working(p) /\ r = sync[p].run /\ runs[r].status = "RUNNING" /\ runs[r].alone)
    BY BusyFacts DEF HoldsRun, Mine
  <2> QED BY <1>5, <2>1
<1>6. Handling(q) \/ Through(q) => Working(q) /\ ~Mine(q).alone
  BY <1>1, <1>2 DEF Handling, Through, Working, HoldsRun
<1>7. HoldsEvents(q)'
  <2> DEFINE events == sync[q].got.events
  <2>1. Mine(q)' = Mine(q) \/ ~(Handling(q) \/ Through(q))
    BY <1>2, <1>6 DEF Mine
  <2>2. /\ Handling(q)' <=> Handling(q) 
        /\ Through(q)' <=> Through(q)
        /\ Source(q)' = Source(q)
    BY DEF Handling, Through, Source
  <2>3. Handling(q) \/ Through(q) =>
          /\ Mine(q)'.events = events /\ sync[q].got.status = "SUCCESS"
          /\ \A i \in DOMAIN events : events[i].rev <= rev'[events[i].key]
          /\ \A i, j \in DOMAIN events : events[i].key = events[j].key => events[i].rev = events[j].rev
    BY <1>1, <2>1 DEF HoldsEvents
  <2>4. Handling(q) =>
          /\ sync[q].n >= 1
          /\ sync[q].at = "index" => sync[q].n <= Len(events)
    BY <1>1 DEF HoldsEvents
  <2>5. ASSUME Handling(q), NEW r \in DOMAIN runs', Claims(r)', NEW e \in Range(runs'[r].events),
               NEW i \in DOMAIN events, events[i].key = e.key
        PROVE  e.rev <= events[i].rev
    BY <1>1, <1>5, <2>5 DEF HoldsEvents
  <2>6. ~((Handling(q) \/ Through(q)) /\ Mine(q)'.alone)
    BY <1>6, <2>1
  <2> QED BY <2>2, <2>3, <2>4, <2>5, <2>6 DEF HoldsEvents
<1> QED BY <1>1, <1>4, <1>7

\* A process that has no run in its hands.
LEMMA AwayOK ==
  ASSUME NEW p \in Workers, NEW w, sync'[p] = w,
         w.at \in {"idle", "provider"} \/ (w.at = "create" /\ w.todo # {})
  PROVE  WorkOK(p)' /\ ~Working(p)'
BY DEF WorkOK, Busy, HoldsRun, HoldsEvents, Handling, Through, Working

\* A step that writes nothing to Elasticsearch.
LEMMA QuietKept ==
  ASSUME EventInv, NEW p \in Workers, Busy(p), NEW w, w = Idle \/ w \in Work,
         sync' = [sync EXCEPT ![p] = w],
         runs' = runs, occ' = occ, rev' = rev, faults' \in {faults, faults + 1},
         WorkOK(p)',
         w.at \in RunPlaces => Working(p) /\ w.run = sync[p].run,
         Working(p) => w.at \in RunPlaces \/ faults' > 1
  PROVE  EventInv'
<1>1. TypeInv /\ faults \in Nat
  BY DEF EventInv, TypeInv
<1>2. /\ sync' = [q \in Workers |-> sync'[q]] /\ sync'[p] = w
      /\ \A q \in Workers \ {p} : sync'[q] = sync[q]
      /\ \A q \in Workers : sync'[q] = Idle \/ sync'[q] \in Work
  BY <1>1, SyncSet
<1>3. TypeInv'
  BY <1>1, <1>2 DEF TypeInv
<1>4. ASSUME NEW q \in Workers \ {p} PROVE WorkOK(q)'
  BY <1>2, OthersKept DEF Claims
<1>5. Distinct'
  BY <1>2 DEF EventInv, Distinct, Working, RunPlaces
<1>6. \A r \in DOMAIN runs' : RunOK(r)'
  BY DEF EventInv, RunOK, Claims, Kept
<1>7. Closed'
  <2> SUFFICES ASSUME faults' <= 1, NEW r \in DOMAIN runs, runs[r].status = "RUNNING", ~runs[r].lost
               PROVE  \E q \in Workers : Working(q)' /\ sync'[q].run = r
    BY DEF Closed
  <2>1. faults <= 1
    BY <1>1
  <2>2. PICK q \in Workers : Working(q) /\ sync[q].run = r
    BY <2>1 DEF EventInv, Closed
  <2>3. CASE q = p
    BY <1>1, <1>2, <2>2, <2>3 DEF Working, RunPlaces
  <2>4. CASE q # p
    BY <1>2, <2>2, <2>4 DEF Working
  <2> QED BY <2>3, <2>4
<1> QED BY <1>3, <1>4, <1>5, <1>6, <1>7 DEF EventInv

\* The process keeps its run.
LEMMA StayRun ==
  ASSUME EventInv, NEW p \in Workers, Working(p), NEW w \in Work, sync' = [sync EXCEPT ![p] = w],
         \A r \in DOMAIN runs : r \in DOMAIN runs' /\ runs'[r].status = runs[r].status
           /\ runs'[r].source = runs[r].source /\ runs'[r].dry = runs[r].dry /\ runs'[r].alone = runs[r].alone,
         faults' \in {faults, faults + 1},
         w.at \in RunPlaces, w.run = sync[p].run, w.todo = sync[p].todo, w.dry = sync[p].dry,
         w.at = "failed" => sync[p].at = "failed" \/ faults' = faults + 1,
         w.at # "failed" => sync[p].at # "failed"
  PROVE  HoldsRun(p)' /\ sync'[p].todo # {} /\ Busy(p)
<1>1. Busy(p) /\ TypeInv
  BY DEF Busy, Working, EventInv
<1>2. /\ sync'[p] = w /\ \A q \in Workers \ {p} : sync'[q] = sync[q]
  BY <1>1, SyncSet
<1>3. HoldsRun(p) /\ sync[p].todo # {} /\ faults \in Nat
  BY <1>1, BusyFacts DEF Working, TypeInv
<1>4. Source(p)' = Source(p)
  BY <1>2 DEF Source
<1>5. HoldsRun(p)'
  BY <1>2, <1>3, <1>4 DEF HoldsRun, Mine, Working, Busy, RunPlaces
<1> QED BY <1>1, <1>2, <1>3, <1>5

\* The run fails: the except block comes next.
LEMMA FailKept ==
  ASSUME EventInv, NEW p \in Workers, Working(p), Fail(p), faults' = faults + 1,
         UNCHANGED <<runs, occ, rev>>
  PROVE  EventInv'
<1> DEFINE w == [sync[p] EXCEPT !.at = "failed"]
<1>1. Busy(p) /\ sync[p] \in Work
  BY BusyFacts DEF Busy, Working
<1>2. w \in Work /\ w.at = "failed" /\ w.run = sync[p].run /\ w.todo = sync[p].todo /\ w.dry = sync[p].dry
  BY <1>1 DEF Work, Places
<1>3. sync' = [sync EXCEPT ![p] = w] /\ sync'[p] = w
  BY DEF Fail, Go, EventInv, TypeInv
<1> HIDE DEF w
<1>4. HoldsRun(p)' /\ sync'[p].todo # {}
  BY <1>2, <1>3, StayRun DEF RunPlaces
<1>5. WorkOK(p)'
  BY <1>2, <1>3, <1>4 DEF WorkOK, HoldsEvents, Handling, Through
<1> QED BY <1>1, <1>2, <1>3, <1>5, QuietKept DEF RunPlaces

\* The process has no run in its hands, before and after.
LEMMA AwayKept ==
  ASSUME EventInv, NEW p \in Workers, Busy(p), NEW w, w = Idle \/ w \in Work,
         sync' = [sync EXCEPT ![p] = w], UNCHANGED <<runs, occ, rev>>, faults' \in {faults, faults + 1},
         w.at \in {"idle", "provider"} \/ (w.at = "create" /\ w.todo # {}),
         Working(p) => faults' > 1
  PROVE  EventInv'
<1>1. sync'[p] = w
  BY DEF EventInv, TypeInv
<1>2. WorkOK(p)'
  BY <1>1, AwayOK
<1> QED BY <1>2, QuietKept DEF RunPlaces

\* The source is done or given up.
LEMMA NextSourceFacts ==
  ASSUME EventInv, NEW p \in Workers, Busy(p), NextSource(p)
  PROVE  \E w \in Work : sync' = [sync EXCEPT ![p] = w] /\ w.at = "provider"
<1> DEFINE left == sync[p].todo \ {Source(p)}
           rest == [sync[p] EXCEPT !.todo = left]
<1>1. sync[p] \in Work
  BY BusyFacts
<1>2. left \in SUBSET Sources
  BY <1>1 DEF Work
<1>3. sync' = [sync EXCEPT ![p] = Fresh(rest, "provider")]
  BY DEF NextSource, Go
<1> HIDE DEF left
<1>4. rest \in Work
  BY <1>1, <1>2 DEF Work
<1> HIDE DEF rest
<1>5. Fresh(rest, "provider") \in Work /\ Fresh(rest, "provider").at = "provider"
  BY <1>4, FreshFacts DEF Work, Places
<1> QED BY <1>3, <1>5

\* The next source, or none.
LEMMA SelectKept ==
  ASSUME EventInv, NEW p \in Workers, Select(p)
  PROVE  EventInv'
<1>1. Busy(p) /\ sync[p].at = "provider" /\ ~Working(p) /\ UNCHANGED <<runs, occ, rev, faults>>
  BY DEF Select, Busy, Working
<1>2. sync[p] \in Work
  BY <1>1, BusyFacts
<1>3. CASE sync[p].todo = {}
  <2>1. sync' = [sync EXCEPT ![p] = Idle]
    BY <1>3 DEF Select, Go
  <2> QED BY <1>1, <2>1, AwayKept DEF Idle
<1>4. CASE sync[p].todo # {} /\ NextSource(p)
  <2>1. PICK w \in Work : sync' = [sync EXCEPT ![p] = w] /\ w.at = "provider"
    BY <1>1, <1>4, NextSourceFacts
  <2> QED BY <1>1, <2>1, AwayKept
<1>5. CASE sync[p].todo # {} /\ ~NextSource(p)
  <2> DEFINE types == sync[p].types \intersect Capable(Source(p))
             w == [sync[p] EXCEPT !.at = "create", !.rest = types]
  <2>1. sync' = [sync EXCEPT ![p] = w]
    BY <1>5 DEF Select, Go
  <2>2. types \in SUBSET TypeNames
    BY <1>2 DEF Work
  <2> HIDE DEF types
  <2>3. w \in Work /\ w.at = "create" /\ w.todo = sync[p].todo
    BY <1>2, <2>2 DEF Work, Places
  <2> QED BY <1>1, <1>5, <2>1, <2>3, AwayKept
<1> QED BY <1>3, <1>4, <1>5

-----------------------------------------------------------------------------
(***************************************************************************)
(* A run document is created.                                              *)
(***************************************************************************)
LEMMA NewRunKept ==
  ASSUME EventInv, NEW p \in Workers, sync[p].at = "create", NEW lost \in BOOLEAN,
         runs' = NewRun(p, lost), occ' = occ, rev' = rev, faults' \in {faults, faults + 1},
         NEW w \in Work, sync' = [sync EXCEPT ![p] = w],
         \/ lost /\ w.at = "provider"
         \/ w.at = "fetch" /\ w.run = Len(runs) + 1 /\ w.todo = sync[p].todo /\ w.dry = sync[p].dry
  PROVE  EventInv'
<1> DEFINE alone == \A q \in Workers \ {p} : ~Busy(q)
           doc == [status |-> "RUNNING", source |-> Source(p), failed |-> 0, events |-> <<>>,
                   dry |-> sync[p].dry, lost |-> lost, alone |-> alone]
           n == Len(runs)
<1>1. /\ Busy(p) /\ ~Working(p) /\ sync[p].todo # {}
      /\ sync[p] \in Work /\ Source(p) \in Sources /\ TypeInv /\ faults \in Nat
  BY BusyFacts DEF Busy, Working, EventInv, TypeInv
<1>2. alone \in BOOLEAN /\ (alone => \A q \in Workers \ {p} : ~Busy(q))
  OBVIOUS
<1>3. runs' = Append(runs, doc)
  BY DEF NewRun
<1> HIDE DEF alone
<1>4. doc \in RunDoc /\ doc.status = "RUNNING" /\ doc.source = Source(p) /\ doc.dry = sync[p].dry
      /\ doc.lost = lost /\ doc.alone = alone
  <2>1. sync[p].dry \in BOOLEAN /\ <<>> \in Seq(EventRec) /\ "RUNNING" \in Statuses \cup {"RUNNING"}
    BY <1>1 DEF Work
  <2> QED BY <1>1, <1>2, <2>1 DEF RunDoc
<1> HIDE DEF doc
<1>5. runs \in Seq(RunDoc) /\ n \in Nat
  BY <1>1 DEF TypeInv
<1>6. /\ runs' \in Seq(RunDoc) /\ DOMAIN runs' = 1 .. n + 1 /\ DOMAIN runs = 1..n
      /\ runs'[n + 1] = doc /\ \A r \in 1..n : runs'[r] = runs[r]
  BY <1>3, <1>4, <1>5
<1> HIDE DEF n
<1>7. /\ sync' = [q \in Workers |-> sync'[q]] /\ sync'[p] = w
      /\ \A q \in Workers \ {p} : sync'[q] = sync[q]
      /\ \A q \in Workers : sync'[q] = Idle \/ sync'[q] \in Work
  BY <1>1, SyncSet
<1>8. TypeInv'
  BY <1>1, <1>6, <1>7 DEF TypeInv
<1>9. \A r \in DOMAIN runs' : Claims(r)' => r \in 1..n /\ Claims(r)
  BY <1>4, <1>5, <1>6 DEF Claims
<1>10. ASSUME NEW q \in Workers \ {p} PROVE WorkOK(q)'
  BY <1>1, <1>5, <1>6, <1>7, <1>9, OthersKept
<1>11. WorkOK(p)'
  <2>1. CASE w.at = "provider"
    BY <1>7, <2>1, AwayOK
  <2>2. CASE w.at = "fetch" /\ w.run = n + 1 /\ w.todo = sync[p].todo /\ w.dry = sync[p].dry
    <3>1. Source(p)' = Source(p)
      BY <1>7, <2>2 DEF Source
    <3>2. HoldsRun(p)'
      BY <1>2, <1>4, <1>5, <1>6, <1>7, <2>2, <3>1 DEF HoldsRun, Mine, Working, Busy
    <3> QED BY <1>1, <1>7, <2>2, <3>2 DEF WorkOK, HoldsEvents, Handling, Through
  <2> QED BY <2>1, <2>2 DEF n
<1>12. Distinct'
  <2>1. ASSUME NEW q \in Workers, Working(q) PROVE sync[q].run \in 1..n
    BY <1>6, <2>1, BusyFacts DEF HoldsRun, Busy, Working
  <2>2. ASSUME NEW q \in Workers \ {p}, Working(q)', Working(p)' PROVE sync'[q].run # sync'[p].run
    BY <1>5, <1>7, <2>1, <2>2 DEF Working, n
  <2> QED BY <1>7, <2>2 DEF EventInv, Distinct, Working
<1>13. \A r \in DOMAIN runs' : RunOK(r)'
  BY <1>6, <1>9 DEF EventInv, RunOK, Kept
<1>14. Closed'
  <2> SUFFICES ASSUME faults' <= 1, NEW r \in DOMAIN runs', runs'[r].status = "RUNNING", ~runs'[r].lost
               PROVE  \E q \in Workers : Working(q)' /\ sync'[q].run = r
    BY DEF Closed
  <2>1. CASE r = n + 1
    BY <1>4, <1>6, <1>7, <2>1 DEF Working, n
  <2>2. CASE r \in 1..n
    <3>1. PICK q \in Workers : Working(q) /\ sync[q].run = r
      BY <1>1, <1>6, <2>2 DEF EventInv, Closed
    <3> QED BY <1>1, <1>7, <3>1 DEF Working
  <2> QED BY <1>5, <1>6, <2>1, <2>2
<1> QED BY <1>8, <1>10, <1>11, <1>12, <1>13, <1>14 DEF EventInv

\* The next type, or the source is done.
LEMMA CreateKept ==
  ASSUME EventInv, NEW p \in Workers, Create(p)
  PROVE  EventInv'
<1>1. /\ Busy(p) /\ sync[p].at = "create" /\ ~Working(p) /\ UNCHANGED <<occ, rev, faults>>
      /\ sync[p] \in Work
  BY BusyFacts DEF Create, Busy, Working
<1>2. CASE NextSource(p) /\ UNCHANGED runs
  <2>1. PICK w \in Work : sync' = [sync EXCEPT ![p] = w] /\ w.at = "provider"
    BY <1>1, <1>2, NextSourceFacts
  <2> QED BY <1>1, <1>2, <2>1, AwayKept
<1>3. CASE ~(NextSource(p) /\ UNCHANGED runs)
  <2> DEFINE type == First(Types, sync[p].rest)
             rest == sync[p].rest \ {type}
             n == Len(runs) + 1
             w == [sync[p] EXCEPT !.at = "fetch", !.type = type, !.rest = rest, !.run = n]
  <2>1. sync[p].rest # {} /\ runs' = NewRun(p, FALSE) /\ sync' = [sync EXCEPT ![p] = w]
    BY <1>3 DEF Create, Go
  <2>2. sync[p].rest \in SUBSET TypeNames
    BY <1>1 DEF Work
  <2>3. type \in AnyType /\ rest \in SUBSET TypeNames
    BY <2>1, <2>2, NextOnes DEF AnyType
  <2>4. n \in Nat
    BY DEF EventInv, TypeInv
  <2> HIDE DEF type, rest, n
  <2>5. w \in Work /\ w.at = "fetch" /\ w.run = n /\ w.todo = sync[p].todo /\ w.dry = sync[p].dry
    BY <1>1, <2>3, <2>4 DEF Work, Places
  <2> HIDE DEF w
  <2> QED BY <1>1, <2>1, <2>5, NewRunKept DEF n
<1> QED BY <1>2, <1>3

\* The creation raises, before or after its effect: the source is given up.
LEMMA CreateFaultKept ==
  ASSUME EventInv, NEW p \in Workers, CreateFault(p), UNCHANGED rev, faults' = faults + 1
  PROVE  EventInv'
<1>1. /\ Busy(p) /\ sync[p].at = "create" /\ ~Working(p) /\ occ' = occ
      /\ runs' = runs \/ runs' = NewRun(p, TRUE)
  BY DEF CreateFault, Busy, Working
<1>2. PICK w \in Work : sync' = [sync EXCEPT ![p] = w] /\ w.at = "provider"
  BY <1>1, NextSourceFacts DEF CreateFault
<1>3. CASE runs' = runs
  BY <1>1, <1>2, <1>3, AwayKept
<1>4. CASE runs' = NewRun(p, TRUE)
  BY <1>1, <1>2, <1>4, NewRunKept
<1> QED BY <1>1, <1>3, <1>4

-----------------------------------------------------------------------------
(***************************************************************************)
(* The run document of a process changes.                                  *)
(***************************************************************************)
LEMMA OwnRunKept ==
  ASSUME EventInv, NEW p \in Workers, Working(p), NEW n, n = sync[p].run, NEW doc \in RunDoc,
         runs' = [runs EXCEPT ![n] = doc],
         doc.source = Mine(p).source, doc.dry = Mine(p).dry,
         occ' = occ, rev' = rev, faults' \in {faults, faults + 1},
         NEW w \in Work, sync' = [sync EXCEPT ![p] = w],
         w.at \in RunPlaces => w.run = n,
         doc.status = "RUNNING" => w.at \in RunPlaces,
         Claims(n)' => Mine(p).status = "RUNNING" /\ Mine(p).alone,
         RunOK(n)', WorkOK(p)'
  PROVE  EventInv'
<1>1. /\ Busy(p) /\ n \in DOMAIN runs /\ TypeInv /\ faults \in Nat
  BY BusyFacts DEF Busy, Working, EventInv, TypeInv, HoldsRun
<1>2. runs \in Seq(RunDoc) /\ DOMAIN runs = 1 .. Len(runs)
  BY <1>1 DEF TypeInv
<1>3. /\ runs' \in Seq(RunDoc) /\ DOMAIN runs' = DOMAIN runs /\ runs'[n] = doc
      /\ \A r \in DOMAIN runs \ {n} : runs'[r] = runs[r]
  BY <1>1, <1>2
<1>4. /\ sync' = [q \in Workers |-> sync'[q]] /\ sync'[p] = w
      /\ \A q \in Workers \ {p} : sync'[q] = sync[q]
      /\ \A q \in Workers : sync'[q] = Idle \/ sync'[q] \in Work
  BY <1>1, SyncSet
<1>5. TypeInv'
  BY <1>1, <1>3, <1>4 DEF TypeInv
<1>6. \A r \in DOMAIN runs \ {n} : Claims(r)' => Claims(r)
  BY <1>3 DEF Claims
<1>7. ASSUME NEW q \in Workers \ {p} PROVE WorkOK(q)'
  <2>1. \A r \in DOMAIN runs' : Claims(r)' =>
          \/ r \in DOMAIN runs /\ Claims(r) /\ runs'[r].events = runs[r].events
          \/ Working(p) /\ r = n /\ runs[r].status = "RUNNING" /\ runs[r].alone
    BY <1>3, <1>6 DEF Mine
  <2> QED BY <1>1, <1>3, <1>4, <2>1, OthersKept
<1>8. Distinct'
  BY <1>4 DEF EventInv, Distinct, Working, RunPlaces
<1>9. \A r \in DOMAIN runs' : RunOK(r)'
  BY <1>3, <1>6 DEF EventInv, RunOK, Kept
<1>10. Closed'
  <2> SUFFICES ASSUME faults' <= 1, NEW r \in DOMAIN runs, runs'[r].status = "RUNNING", ~runs'[r].lost
               PROVE  \E q \in Workers : Working(q)' /\ sync'[q].run = r
    BY <1>3 DEF Closed
  <2>1. CASE r = n
    BY <1>3, <1>4, <2>1 DEF Working, RunPlaces
  <2>2. CASE r # n
    <3>1. PICK q \in Workers : Working(q) /\ sync[q].run = r
      BY <1>1, <1>3, <2>2 DEF EventInv, Closed
    <3> QED BY <1>4, <2>2, <3>1 DEF Working
  <2> QED BY <2>1, <2>2
<1> QED BY <1>5, <1>7, <1>8, <1>9, <1>10 DEF EventInv

\* The provider answers.
LEMMA FetchKept ==
  ASSUME EventInv, NEW p \in Workers, Fetch(p)
  PROVE  EventInv'
<1>1. /\ Working(p) /\ Busy(p) /\ sync[p].at = "fetch" /\ UNCHANGED <<occ, rev, faults>>
      /\ sync[p] \in Work /\ HoldsRun(p) /\ Source(p) \in Sources /\ TypeInv
  BY BusyFacts DEF Fetch, Working, Busy, EventInv
<1>2. PICK got \in Answers(Source(p), sync[p].type) :
        /\ Go(p, [sync[p] EXCEPT !.at = IF got.status = "SUCCESS" /\ ~sync[p].dry THEN "search" ELSE "finish",
                                 !.got = got, !.n = 1, !.ids = <<>>, !.failed = 0])
        /\ runs' = [runs EXCEPT ![sync[p].run].events = got.events]
  BY DEF Fetch
<1>0. PICK n : n = sync[p].run
  OBVIOUS
<1> DEFINE at == IF got.status = "SUCCESS" /\ ~sync[p].dry THEN "search" ELSE "finish"
           w == [sync[p] EXCEPT !.at = at, !.got = got, !.n = 1, !.ids = <<>>, !.failed = 0]
           doc == [Mine(p) EXCEPT !.events = got.events]
           events == got.events
<1>3. sync' = [sync EXCEPT ![p] = w] /\ sync'[p] = w
  BY <1>1, <1>2 DEF Go, TypeInv
<1>4. runs' = [runs EXCEPT ![n] = doc]
  BY <1>0, <1>2 DEF Mine
<1>5. got \in Got /\ \A i \in DOMAIN events : events[i].rev = rev[events[i].key]
  BY <1>1, AnswerFacts
<1>6. /\ events \in Seq(EventRec) /\ DOMAIN events = 1 .. Len(events) /\ Len(events) \in Nat
      /\ \A i \in 1 .. Len(events) : events[i] \in EventRec
  <2>1. got.events \in Seq(EventRec)
    BY <1>5 DEF Got
  <2> QED BY <2>1
<1>7. at \in {"search", "finish"} /\ (at = "search" <=> got.status = "SUCCESS" /\ ~sync[p].dry)
  OBVIOUS
<1>8. <<>> \in Seq(Keys)
  OBVIOUS
<1> HIDE DEF at
<1>9. /\ w \in Work /\ w.at = at /\ w.run = n /\ w.todo = sync[p].todo /\ w.dry = sync[p].dry
      /\ w.got = got /\ w.n = 1
  BY <1>0, <1>1, <1>5, <1>7, <1>8 DEF Work, Places
<1> HIDE DEF w
<1>10. n \in DOMAIN runs /\ Mine(p) = runs[n] /\ Mine(p).status = "RUNNING"
  BY <1>0, <1>1 DEF HoldsRun, Mine
<1>11. Mine(p) \in RunDoc
  BY <1>1, <1>10 DEF TypeInv
<1>12. /\ doc \in RunDoc /\ doc.events = events /\ doc.status = Mine(p).status
       /\ doc.source = Mine(p).source /\ doc.dry = Mine(p).dry /\ doc.alone = Mine(p).alone
  BY <1>6, <1>11 DEF RunDoc
<1> HIDE DEF doc
<1>13. /\ DOMAIN runs' = DOMAIN runs /\ runs'[n] = doc
       /\ \A r \in DOMAIN runs \ {n} : runs'[r] = runs[r]
  BY <1>1, <1>4, <1>10 DEF TypeInv
<1>14. HoldsRun(p)' /\ sync'[p].todo # {}
  <2>1. \A r \in DOMAIN runs : r \in DOMAIN runs' /\ runs'[r].status = runs[r].status
           /\ runs'[r].source = runs[r].source /\ runs'[r].dry = runs[r].dry /\ runs'[r].alone = runs[r].alone
    BY <1>10, <1>12, <1>13
  <2> QED BY <1>0, <1>1, <1>3, <1>7, <1>9, <2>1, StayRun DEF RunPlaces
<1>15. ~Claims(n)' /\ \A r \in DOMAIN runs' : Claims(r)' => Claims(r) /\ runs'[r] = runs[r]
  BY <1>10, <1>12, <1>13 DEF Claims
<1>16. HoldsEvents(p)'
  <2>1. Mine(p)' = doc /\ sync'[p].got.events = events /\ sync'[p].n = 1
    BY <1>3, <1>9, <1>13 DEF Mine
  <2>2. ~Through(p)' /\ (Handling(p)' => got.status = "SUCCESS") /\ (Handling(p)' <=> at = "search")
    BY <1>3, <1>7, <1>9 DEF Through, Handling
  <2>3. \A i \in DOMAIN events : i >= 1 /\ i \in Nat /\ events[i].key \in Keys
    BY <1>6 DEF EventRec
  <2>4. ASSUME NEW r \in DOMAIN runs', Claims(r)', NEW e \in Range(runs'[r].events),
               NEW i \in DOMAIN events, events[i].key = e.key
        PROVE  e.rev <= events[i].rev
    BY <1>5, <1>13, <1>15, <2>4 DEF EventInv, RunOK
  <2>5. \A i \in DOMAIN events : events[i].rev <= rev'[events[i].key]
    BY <1>1, <1>5, <2>3 DEF TypeInv
  <2>6. sync'[p].at # "index" /\ sync'[p].got.status = got.status
    BY <1>3, <1>7, <1>9
  <2> QED BY <1>5, <1>12, <2>1, <2>2, <2>3, <2>4, <2>5, <2>6 DEF HoldsEvents
<1>17. WorkOK(p)' /\ RunOK(n)'
  BY <1>14, <1>15, <1>16 DEF WorkOK, RunOK
<1> QED BY <1>0, <1>1, <1>3, <1>4, <1>7, <1>9, <1>12, <1>15, <1>17, OwnRunKept DEF RunPlaces

\* A run is closed: as a success only when its events have been gone through.
LEMMA FinishedKept ==
  ASSUME EventInv, NEW p \in Workers, sync[p].at \in {"finish", "failed"}, runs' = Finished(p),
         occ' = occ, rev' = rev, faults' \in {faults, faults + 1},
         NEW w \in Work, sync' = [sync EXCEPT ![p] = w],
         \/ w.at = "provider"
         \/ w.at = "create" /\ w.todo = sync[p].todo
         \/ /\ w.at = "failed" /\ w.run = sync[p].run /\ w.todo = sync[p].todo /\ w.dry = sync[p].dry
            /\ faults' = faults + 1
  PROVE  EventInv'
<1>0. PICK n : n = sync[p].run
  OBVIOUS
<1>1. /\ Working(p) /\ Busy(p) /\ sync[p].todo # {} /\ sync[p] \in Work /\ HoldsRun(p) /\ HoldsEvents(p)
      /\ TypeInv /\ faults \in Nat
  BY BusyFacts DEF Working, Busy, EventInv, TypeInv
<1> DEFINE status == IF sync[p].at = "failed" THEN "FAILED" ELSE sync[p].got.status
           failed == sync[p].failed
           doc == [Mine(p) EXCEPT !.status = status, !.failed = failed]
<1>2. /\ n \in DOMAIN runs /\ Mine(p) = runs[n] /\ Mine(p) \in RunDoc
      /\ runs \in Seq(RunDoc)
  BY <1>0, <1>1 DEF HoldsRun, Mine, TypeInv
<1>3. sync[p].got \in Got /\ failed \in Nat
  BY <1>1 DEF Work
<1>4. status \in Statuses /\ (status = "SUCCESS" => sync[p].at = "finish" /\ sync[p].got.status = "SUCCESS")
  BY <1>3 DEF Got, Statuses
<1>5. runs' = [runs EXCEPT ![n] = doc]
  BY <1>0, <1>2 DEF Finished
<1> HIDE DEF status, failed
<1>6. /\ doc \in RunDoc /\ doc.status = status /\ doc.failed = failed /\ doc.events = Mine(p).events
      /\ doc.source = Mine(p).source /\ doc.dry = Mine(p).dry /\ doc.alone = Mine(p).alone
  BY <1>2, <1>3, <1>4 DEF RunDoc
<1> HIDE DEF doc
<1>7. runs'[n] = doc /\ DOMAIN runs' = DOMAIN runs
  BY <1>2, <1>5
<1>8. ASSUME Claims(n)'
      PROVE  /\ Mine(p).status = "RUNNING" /\ Mine(p).alone
             /\ Through(p) /\ sync[p].failed = 0 /\ Source(p) # "FED"
  BY <1>1, <1>4, <1>6, <1>7, <1>8 DEF Claims, HoldsRun, Through, failed
<1>9. RunOK(n)'
  <2> SUFFICES ASSUME Claims(n)', NEW e \in Range(runs'[n].events)
               PROVE  e.rev <= rev[e.key] /\ Kept(e)
    BY DEF RunOK, Kept
  <2>1. Mine(p).alone /\ Through(p) /\ sync[p].failed = 0 /\ Source(p) # "FED"
    BY <1>8
  <2>2. PICK i \in DOMAIN sync[p].got.events : e = sync[p].got.events[i]
    BY <1>1, <1>6, <1>7, <2>1 DEF HoldsEvents, Range
  <2> QED BY <1>1, <2>1, <2>2 DEF HoldsEvents
<1>10. sync'[p] = w
  BY <1>1 DEF TypeInv
<1>11. WorkOK(p)'
  <2>1. CASE w.at = "failed"
    <3>1. Mine(p)' = doc /\ Source(p)' = Source(p) /\ doc.status # "RUNNING"
      BY <1>0, <1>4, <1>6, <1>7, <1>10, <2>1 DEF Mine, Source, Statuses
    <3>2. HoldsRun(p)'
      BY <1>0, <1>1, <1>2, <1>6, <1>7, <1>10, <2>1, <3>1 DEF HoldsRun
    <3> QED BY <1>1, <1>10, <2>1, <3>2 DEF WorkOK, HoldsEvents, Handling, Through
  <2>2. CASE w.at # "failed"
    BY <1>1, <1>10, <2>2, AwayOK
  <2> QED BY <2>1, <2>2
<1>12. doc.status # "RUNNING" /\ (w.at \in RunPlaces => w.run = n)
  BY <1>0, <1>4, <1>6 DEF Statuses, RunPlaces
<1> QED BY <1>0, <1>1, <1>5, <1>6, <1>8, <1>9, <1>11, <1>12, OwnRunKept

\* The try block or the except block closes the run.
LEMMA FinishKept ==
  ASSUME EventInv, NEW p \in Workers, Finish(p)
  PROVE  EventInv'
<1>1. /\ Busy(p) /\ sync[p] \in Work /\ sync[p].at \in {"finish", "failed"} /\ runs' = Finished(p)
      /\ UNCHANGED <<occ, rev, faults>> /\ sync' = [sync EXCEPT ![p] = Fresh(sync[p], "create")]
  BY BusyFacts DEF Finish, Go, Busy
<1> DEFINE w == Fresh(sync[p], "create")
<1>2. w \in Work /\ w.at = "create" /\ w.todo = sync[p].todo
  BY <1>1, FreshFacts DEF Work, Places
<1> HIDE DEF w
<1>3. sync' = [sync EXCEPT ![p] = w]
  BY <1>1 DEF w
<1> QED BY <1>1, <1>2, <1>3, FinishedKept

\* The closing raises: in the try block the run fails, in the except block it is given up.
LEMMA FinishFaultKept ==
  ASSUME EventInv, NEW p \in Workers, FinishFault(p), UNCHANGED rev, faults' = faults + 1
  PROVE  EventInv'
<1>1. /\ Busy(p) /\ Working(p) /\ sync[p] \in Work /\ sync[p].at \in {"finish", "failed"}
      /\ runs' = runs \/ runs' = Finished(p)
      /\ occ' = occ /\ faults \in Nat /\ HoldsRun(p)
  BY BusyFacts DEF FinishFault, Busy, Working, EventInv, TypeInv
<1>2. CASE sync[p].at = "finish"
  <2>1. Fail(p)
    BY <1>2 DEF FinishFault
  <2>2. CASE runs' = runs
    BY <1>1, <2>1, <2>2, FailKept
  <2>3. CASE runs' = Finished(p)
    <3> DEFINE w == [sync[p] EXCEPT !.at = "failed"]
    <3>1. sync' = [sync EXCEPT ![p] = w]
      BY <2>1 DEF Fail, Go
    <3>2. w \in Work /\ w.at = "failed" /\ w.run = sync[p].run /\ w.todo = sync[p].todo /\ w.dry = sync[p].dry
      BY <1>1 DEF Work, Places
    <3> HIDE DEF w
    <3> QED BY <1>1, <2>3, <3>1, <3>2, FinishedKept
  <2> QED BY <1>1, <2>2, <2>3
<1>3. CASE sync[p].at = "failed"
  <2>1. PICK w \in Work : sync' = [sync EXCEPT ![p] = w] /\ w.at = "provider"
    BY <1>1, <1>3, NextSourceFacts DEF FinishFault
  <2>2. CASE runs' = runs
    <3>1. faults' > 1
      BY <1>1, <1>3 DEF HoldsRun
    <3> QED BY <1>1, <2>1, <2>2, <3>1, AwayKept
  <2>3. CASE runs' = Finished(p)
    BY <1>1, <2>1, <2>3, FinishedKept
  <2> QED BY <1>1, <2>2, <2>3
<1> QED BY <1>1, <1>2, <1>3

-----------------------------------------------------------------------------
(***************************************************************************)
(* The events of an answer, one after the other.                           *)
(***************************************************************************)

\* The event a process is at, and what its occurrence becomes when it is written.
LEMMA EventFacts ==
  ASSUME EventInv, NEW p \in Workers, Handling(p), sync[p].n <= Len(sync[p].got.events)
  PROVE  /\ sync[p].n \in DOMAIN sync[p].got.events /\ Event(p) \in EventRec
         /\ Stored(p) \in [Keys -> [rev : Nat, hash : Nat]]
         /\ Stored(p)[Event(p).key].rev = Event(p).rev
         /\ \A k \in Keys : Stored(p)[k].hash \in {0, Stored(p)[k].rev}
         /\ \A k \in Keys : k # Event(p).key => Stored(p)[k] = occ[k]
<1>1. Busy(p) /\ TypeInv
  BY DEF Busy, Handling, EventInv
<1>2. sync[p] \in Work /\ HoldsEvents(p)
  BY <1>1, BusyFacts
<1>3. sync[p].n \in Nat /\ sync[p].got \in Got /\ sync[p].n >= 1
  BY <1>2 DEF Work, HoldsEvents
<1>4. sync[p].got.events \in Seq(EventRec)
  BY <1>3 DEF Got
<1>5. sync[p].n \in DOMAIN sync[p].got.events /\ Event(p) \in EventRec
  BY <1>3, <1>4 DEF Event
<1> DEFINE hash == Hash(Source(p), Event(p).rev)
           doc == [rev |-> Event(p).rev, hash |-> hash]
<1>6. Event(p).key \in Keys /\ Event(p).rev \in Nat /\ hash \in {0, Event(p).rev}
  BY <1>5 DEF EventRec, Hash
<1>7. Stored(p) = [occ EXCEPT ![Event(p).key] = doc]
  BY DEF Stored
<1> HIDE DEF hash
<1>8. doc \in [rev : Nat, hash : Nat] /\ doc.rev = Event(p).rev /\ doc.hash \in {0, doc.rev}
  BY <1>6
<1> HIDE DEF doc
<1>9. occ \in [Keys -> [rev : Nat, hash : Nat]] /\ \A k \in Keys : occ[k].hash \in {0, occ[k].rev}
  BY <1>1 DEF TypeInv
<1> QED BY <1>5, <1>6, <1>7, <1>8, <1>9

\* An event is passed over, is to be written, is written, or has failed.
LEMMA HandleKept ==
  ASSUME EventInv, NEW p \in Workers, Handling(p), sync[p].n <= Len(sync[p].got.events),
         NEW e, e = Event(p),
         runs' = runs, rev' = rev, faults' \in {faults, faults + 1},
         occ' = occ \/ occ' = Stored(p),
         NEW w \in Work, sync' = [sync EXCEPT ![p] = w], w.at \in {"search", "index"},
         w.run = sync[p].run, w.todo = sync[p].todo, w.dry = sync[p].dry, w.got = sync[p].got,
         \/ w.n = sync[p].n /\ w.failed = sync[p].failed
         \/ w.n = sync[p].n + 1 /\ w.at = "search" /\ w.failed = sync[p].failed + 1
         \/ /\ w.n = sync[p].n + 1 /\ w.at = "search" /\ w.failed = sync[p].failed
            /\ Source(p) # "FED" => occ'[e.key].rev >= e.rev
  PROVE  EventInv'
<1> DEFINE events == sync[p].got.events
<1>1. /\ Busy(p) /\ Working(p) /\ TypeInv /\ faults \in Nat /\ sync[p] \in Work
      /\ HoldsRun(p) /\ HoldsEvents(p)
  <2>1. Busy(p) /\ Working(p)
    BY DEF Busy, Working, Handling
  <2> QED BY <2>1, BusyFacts DEF EventInv, TypeInv
<1>2. /\ sync[p].n \in DOMAIN events /\ e = events[sync[p].n] /\ e \in EventRec
      /\ Stored(p) \in [Keys -> [rev : Nat, hash : Nat]]
      /\ Stored(p)[e.key].rev = e.rev
      /\ \A k \in Keys : Stored(p)[k].hash \in {0, Stored(p)[k].rev}
      /\ \A k \in Keys : k # e.key => Stored(p)[k] = occ[k]
  BY EventFacts DEF Event
<1>3. /\ sync' = [q \in Workers |-> sync'[q]] /\ sync'[p] = w
      /\ \A q \in Workers \ {p} : sync'[q] = sync[q]
      /\ \A q \in Workers : sync'[q] = Idle \/ sync'[q] \in Work
  BY <1>1, SyncSet
<1>4. TypeInv'
  <2>1. occ' \in [Keys -> [rev : Nat, hash : Nat]] /\ \A k \in Keys : occ'[k].hash \in {0, occ'[k].rev}
    BY <1>1, <1>2 DEF TypeInv
  <2> QED BY <1>1, <1>3, <2>1 DEF TypeInv
<1>5. ASSUME NEW q \in Workers \ {p} PROVE WorkOK(q)'
  BY <1>1, <1>3, OthersKept DEF Claims
<1>6. HoldsRun(p)' /\ sync'[p].todo # {}
  <2>1. sync[p].at # "failed" /\ w.at # "failed" /\ w.at \in RunPlaces
    BY DEF Handling, RunPlaces
  <2> QED BY <1>1, <1>3, <2>1, StayRun
\* An occurrence gets older only under an event that was not fetched as new.
<1>7. ASSUME NEW k \in Keys, NEW m \in Nat, occ[k].rev >= m, k = e.key => e.rev >= m
      PROVE  occ'[k].rev >= m
  BY <1>2, <1>7
<1>8. events \in Seq(EventRec)
  BY <1>1 DEF Work, Got
<1>14. /\ Mine(p).events = events /\ sync[p].got.status = "SUCCESS" /\ sync[p].n >= 1
       /\ \A i \in DOMAIN events : events[i].rev <= rev'[events[i].key]
       /\ \A i, j \in DOMAIN events : events[i].key = events[j].key => events[i].rev = events[j].rev
       /\ \A r \in DOMAIN runs : Claims(r) =>
            \A c \in Range(runs[r].events) : \A i \in DOMAIN events :
              events[i].key = c.key => c.rev <= events[i].rev
  BY <1>1 DEF HoldsEvents
<1>9. HoldsEvents(p)'
  <2>1. /\ Mine(p)' = Mine(p) /\ sync'[p].got.events = events /\ sync'[p].n = w.n /\ sync'[p].failed = w.failed
        /\ sync'[p].got.status = sync[p].got.status /\ Source(p)' = Source(p) /\ sync'[p].at = w.at
    BY <1>3 DEF Mine, Source
  <2>2. ~Through(p)' /\ Handling(p)'
    BY <1>3 DEF Through, Handling
  <2>3. sync[p].n \in Nat /\ sync[p].failed \in Nat
    BY <1>1 DEF Work
  <2>4. ASSUME w.failed = 0, Mine(p).alone, Source(p) # "FED", NEW i \in DOMAIN events, i < w.n
        PROVE  occ'[events[i].key].rev >= events[i].rev
    <3>1. sync[p].failed = 0 /\ w.failed = sync[p].failed
      BY <2>3, <2>4
    <3>2. events[i] \in EventRec /\ i \in Nat
      BY <1>8
    <3>3. CASE i < sync[p].n
      <4>1. Kept(events[i])
        BY <1>1, <2>4, <3>1, <3>3 DEF HoldsEvents
      <4>2. events[i].key = e.key => events[i].rev = e.rev
        <5>1. sync[p].n \in DOMAIN events /\ events[sync[p].n] = e
          BY <1>2
        <5>2. events[i].key = events[sync[p].n].key => events[i].rev = events[sync[p].n].rev
          BY <1>14, <5>1
        <5> QED BY <5>1, <5>2
      <4>3. events[i].key \in Keys /\ events[i].rev \in Nat
        BY <3>2 DEF EventRec
      <4> QED BY <1>7, <4>1, <4>2, <4>3 DEF Kept
    <3>4. CASE ~(i < sync[p].n)
      <4>1. i = sync[p].n /\ w.n # sync[p].n
        BY <2>3, <2>4, <3>2, <3>4
      <4>2. occ'[e.key].rev >= e.rev
        BY <2>3, <2>4, <3>1, <4>1
      <4> QED BY <1>2, <4>1, <4>2
    <3> QED BY <3>3, <3>4
  <2>6. w.n >= 1 /\ (w.at = "index" => w.n <= Len(events))
    BY <1>14, <2>3
  <2>7. ASSUME NEW r \in DOMAIN runs', Claims(r)', NEW c \in Range(runs'[r].events),
               NEW i \in DOMAIN events, events[i].key = c.key
        PROVE  c.rev <= events[i].rev
    BY <1>14, <2>7 DEF Claims
  <2> DEFINE later == sync'[p].got.events
  <2>8. later = events
    BY <2>1
  <2> HIDE DEF later
  <2>9. /\ Mine(p)'.events = later /\ sync'[p].got.status = "SUCCESS"
        /\ \A i \in DOMAIN later : later[i].rev <= rev'[later[i].key]
        /\ \A i, j \in DOMAIN later : later[i].key = later[j].key => later[i].rev = later[j].rev
    BY <1>14, <2>1, <2>8
  <2>10. /\ sync'[p].n >= 1
         /\ sync'[p].at = "index" => sync'[p].n <= Len(later)
    BY <2>1, <2>6, <2>8
  <2>11. \A r \in DOMAIN runs' : Claims(r)' =>
           \A c \in Range(runs'[r].events) : \A i \in DOMAIN later : later[i].key = c.key => c.rev <= later[i].rev
    BY <2>7, <2>8
  <2>12. sync'[p].failed = 0 /\ Mine(p)'.alone /\ Source(p)' # "FED" =>
           \A i \in DOMAIN later : i < sync'[p].n => occ'[later[i].key].rev >= later[i].rev
    BY <2>1, <2>4, <2>8
  <2> QED BY <2>2, <2>9, <2>10, <2>11, <2>12 DEF HoldsEvents, Kept, later
<1>10. WorkOK(p)'
  BY <1>6, <1>9 DEF WorkOK
<1>11. Distinct'
  BY <1>1, <1>3 DEF EventInv, Distinct, Working
<1>12. ASSUME NEW r \in DOMAIN runs' PROVE RunOK(r)'
  <2> SUFFICES ASSUME Claims(r), NEW c \in Range(runs[r].events) PROVE c.rev <= rev[c.key] /\ occ'[c.key].rev >= c.rev
    BY DEF RunOK, Kept, Claims
  <2>1. c.rev <= rev[c.key] /\ occ[c.key].rev >= c.rev
    BY <1>12 DEF EventInv, RunOK, Kept
  <2>2. c \in EventRec
    <3>1. runs[r] \in RunDoc
      BY <1>1, <1>12 DEF TypeInv
    <3>2. runs[r].events \in Seq(EventRec)
      BY <3>1 DEF RunDoc
    <3> QED BY <3>2 DEF Range
  <2>3. c.key = e.key => c.rev <= e.rev
    <3>1. r \in DOMAIN runs /\ sync[p].n \in DOMAIN events
      BY <1>2, <1>12
    <3>2. events[sync[p].n].key = c.key => c.rev <= events[sync[p].n].rev
      BY <1>14, <3>1
    <3> QED BY <1>2, <3>2
  <2>4. c.key \in Keys /\ c.rev \in Nat /\ e.rev \in Nat
    BY <1>2, <2>2 DEF EventRec
  <2> QED BY <1>7, <2>1, <2>3, <2>4
<1>13. Closed'
  <2> SUFFICES ASSUME faults' <= 1, NEW r \in DOMAIN runs, runs[r].status = "RUNNING", ~runs[r].lost
               PROVE  \E q \in Workers : Working(q)' /\ sync'[q].run = r
    BY DEF Closed
  <2>1. PICK q \in Workers : Working(q) /\ sync[q].run = r
    BY <1>1 DEF EventInv, Closed
  <2> QED BY <1>3, <2>1 DEF Working
<1> QED BY <1>4, <1>5, <1>10, <1>11, <1>12, <1>13 DEF EventInv

\* upsert_occurrence: the search, the write, and either raising.
LEMMA UpsertKept ==
  ASSUME EventInv, NEW p \in Workers,
         \/ Search(p) /\ sync[p].n <= Len(sync[p].got.events)
         \/ Index(p)
         \/ EventFault(p) /\ UNCHANGED rev /\ faults' = faults + 1
  PROVE  EventInv'
<1>1. /\ Handling(p) /\ Busy(p) /\ TypeInv /\ runs' = runs /\ rev' = rev /\ faults' \in {faults, faults + 1}
  BY DEF Search, Index, EventFault, Handling, Busy, EventInv
<1>2. sync[p] \in Work /\ HoldsEvents(p)
  BY <1>1, BusyFacts
<1>3. sync[p].n <= Len(sync[p].got.events)
  BY <1>1, <1>2 DEF Index, EventFault, HoldsEvents, Handling
<1>4. /\ Event(p) \in EventRec
      /\ Stored(p)[Event(p).key].rev = Event(p).rev
  BY <1>1, <1>3, EventFacts
<1>5. PICK e : e = Event(p)
  OBVIOUS
<1> DEFINE n == sync[p].n + 1
           ids == Append(sync[p].ids, e.key)
           failed == sync[p].failed + 1
           done == [sync[p] EXCEPT !.at = "search", !.n = n, !.ids = ids]
           fail == [sync[p] EXCEPT !.at = "search", !.n = n, !.failed = failed]
           write == [sync[p] EXCEPT !.at = "index"]
<1>6. Done(p) = done /\ Failed(p) = fail
  BY <1>5 DEF Done, Failed
<1>7. n \in Nat /\ ids \in Seq(Keys) /\ failed \in Nat
  <2>1. sync[p].n \in Nat /\ sync[p].ids \in Seq(Keys) /\ sync[p].failed \in Nat /\ e.key \in Keys
    BY <1>2, <1>4, <1>5 DEF Work, EventRec
  <2> QED BY <2>1
<1> HIDE DEF ids
<1>8. /\ done \in Work /\ done.at = "search" /\ done.run = sync[p].run /\ done.todo = sync[p].todo
      /\ done.dry = sync[p].dry /\ done.got = sync[p].got /\ done.n = sync[p].n + 1
      /\ done.failed = sync[p].failed
  <2> HIDE DEF n
  <2>1. /\ done \in Work /\ done.at = "search" /\ done.run = sync[p].run /\ done.todo = sync[p].todo
        /\ done.dry = sync[p].dry /\ done.got = sync[p].got /\ done.n = n
        /\ done.failed = sync[p].failed
    BY <1>2, <1>7 DEF Work, Places
  <2> QED BY <2>1 DEF n
<1>9. /\ fail \in Work /\ fail.at = "search" /\ fail.run = sync[p].run /\ fail.todo = sync[p].todo
      /\ fail.dry = sync[p].dry /\ fail.got = sync[p].got /\ fail.n = sync[p].n + 1
      /\ fail.failed = sync[p].failed + 1
  <2> HIDE DEF n, failed
  <2>1. /\ fail \in Work /\ fail.at = "search" /\ fail.run = sync[p].run /\ fail.todo = sync[p].todo
        /\ fail.dry = sync[p].dry /\ fail.got = sync[p].got /\ fail.n = n
        /\ fail.failed = failed
    BY <1>2, <1>7 DEF Work, Places
  <2> QED BY <2>1 DEF n, failed
<1>10. /\ write \in Work /\ write.at = "index" /\ write.run = sync[p].run /\ write.todo = sync[p].todo
       /\ write.dry = sync[p].dry /\ write.got = sync[p].got /\ write.n = sync[p].n
       /\ write.failed = sync[p].failed
  BY <1>2 DEF Work, Places
<1> HIDE DEF n, failed, done, fail, write
<1>11. CASE Search(p)
  <2>1. occ' = occ
    BY <1>11 DEF Search
  <2>4. ~(sync[p].n > Len(sync[p].got.events))
    <3>1. sync[p].n \in Nat /\ Len(sync[p].got.events) \in Nat
      BY <1>2 DEF Work, Got
    <3> QED BY <1>3, <3>1
  <2>2. CASE Unchanged(Source(p), occ[Event(p).key], Event(p))
    <3>1. sync' = [sync EXCEPT ![p] = done]
      BY <1>6, <1>11, <2>2, <2>4 DEF Search, Go
    \* What is stored has the hash of what was fetched.
    <3>2. Source(p) # "FED" => occ[e.key].rev >= e.rev
      <4>1. e.key \in Keys /\ e.rev \in Nat /\ occ[e.key] \in [rev : Nat, hash : Nat]
            /\ occ[e.key].hash \in {0, occ[e.key].rev}
        BY <1>1, <1>4, <1>5 DEF EventRec, TypeInv
      <4>2. Source(p) # "FED" => occ[e.key].hash = e.rev
        BY <1>5, <2>2 DEF Unchanged, Hash
      <4> QED BY <4>1, <4>2
    <3> QED BY <1>1, <1>3, <1>5, <1>8, <2>1, <3>1, <3>2, HandleKept
  <2>3. CASE ~Unchanged(Source(p), occ[Event(p).key], Event(p))
    <3>1. sync' = [sync EXCEPT ![p] = write]
      BY <1>11, <2>3, <2>4 DEF Search, Go, write
    <3> QED BY <1>1, <1>3, <1>5, <1>10, <2>1, <3>1, HandleKept
  <2> QED BY <2>2, <2>3
<1>12. CASE Index(p)
  <2>1. occ' = Stored(p) /\ sync' = [sync EXCEPT ![p] = done]
    BY <1>6, <1>12 DEF Index, Go
  <2>2. occ'[e.key].rev >= e.rev
    <3>1. e.rev \in Nat /\ occ'[e.key].rev = e.rev
      BY <1>4, <1>5, <2>1 DEF EventRec
    <3> QED BY <3>1
  <2> QED BY <1>1, <1>3, <1>5, <1>8, <2>1, <2>2, HandleKept
<1>13. CASE EventFault(p)
  <2>1. (occ' = occ \/ occ' = Stored(p)) /\ sync' = [sync EXCEPT ![p] = fail]
    BY <1>6, <1>13 DEF EventFault, Go
  <2> QED BY <1>1, <1>3, <1>5, <1>9, <2>1, HandleKept
<1> QED BY <1>11, <1>12, <1>13

\* The events have been gone through.
LEMMA ThroughKept ==
  ASSUME EventInv, NEW p \in Workers,
         \/ sync[p].at = "search" /\ sync[p].n > Len(sync[p].got.events)
         \/ sync[p].at = "values",
         UNCHANGED <<runs, occ, rev, faults>>,
         NEW w \in Work, sync' = [sync EXCEPT ![p] = w], w.at \in {"values", "finish"},
         w.run = sync[p].run, w.todo = sync[p].todo, w.dry = sync[p].dry, w.got = sync[p].got,
         w.failed = sync[p].failed
  PROVE  EventInv'
<1> DEFINE events == sync[p].got.events
<1>1. /\ Busy(p) /\ Working(p) /\ TypeInv /\ sync[p] \in Work /\ HoldsEvents(p)
      /\ Handling(p) \/ Through(p)
  BY BusyFacts DEF Busy, Working, EventInv, Handling, Through
<1>2. sync'[p] = w
  BY <1>1, SyncSet
<1>3. HoldsRun(p)' /\ sync'[p].todo # {}
  <2>1. w.at \in RunPlaces /\ w.at # "failed" /\ sync[p].at # "failed"
    BY DEF RunPlaces
  <2> QED BY <1>1, <2>1, StayRun
<1>4. /\ Mine(p)' = Mine(p) /\ sync'[p].got = sync[p].got /\ sync'[p].failed = sync[p].failed
      /\ Source(p)' = Source(p) /\ ~Handling(p)'
  BY <1>2 DEF Mine, Source, Handling
<1>5. sync[p].failed = 0 /\ Mine(p).alone /\ Source(p) # "FED" => \A i \in DOMAIN events : Kept(events[i])
  <2>1. CASE sync[p].at = "search" /\ sync[p].n > Len(events)
    <3>1. sync[p].n \in Nat /\ events \in Seq(EventRec)
      BY <1>1 DEF Work, Got
    <3>2. \A i \in DOMAIN events : i < sync[p].n
      BY <2>1, <3>1
    <3> QED BY <1>1, <2>1, <3>2 DEF HoldsEvents, Handling
  <2>2. CASE sync[p].at = "values"
    BY <1>1, <2>2 DEF HoldsEvents, Through
  <2> QED BY <2>1, <2>2
<1>6. /\ Mine(p).events = events /\ sync[p].got.status = "SUCCESS"
      /\ \A i \in DOMAIN events : events[i].rev <= rev[events[i].key]
      /\ \A i, j \in DOMAIN events : events[i].key = events[j].key => events[i].rev = events[j].rev
  BY <1>1 DEF HoldsEvents
<1>7. HoldsEvents(p)'
  BY <1>4, <1>5, <1>6 DEF HoldsEvents, Kept
<1>8. WorkOK(p)'
  BY <1>3, <1>7 DEF WorkOK
<1> QED BY <1>1, <1>8, QuietKept DEF RunPlaces

\* The search under an event's key goes on to its write, or past it if what is stored is
\* the same.
LEMMA SearchKept ==
  ASSUME EventInv, NEW p \in Workers, Search(p)
  PROVE  EventInv'
<1>1. Busy(p) /\ sync[p].at = "search" /\ UNCHANGED <<runs, occ, rev, faults>>
  BY DEF Search, Busy
<1>2. sync[p] \in Work
  BY <1>1, BusyFacts
<1>3. CASE sync[p].n <= Len(sync[p].got.events)
  BY <1>3, UpsertKept
<1>4. CASE ~(sync[p].n <= Len(sync[p].got.events))
  <2> DEFINE w == [sync[p] EXCEPT !.at = "values", !.n = 1]
  <2>1. sync[p].n \in Nat /\ Len(sync[p].got.events) \in Nat
    BY <1>2 DEF Work, Got
  <2>4. sync[p].n > Len(sync[p].got.events)
    BY <1>4, <2>1
  <2>2. sync' = [sync EXCEPT ![p] = w]
    BY <2>4 DEF Search, Go
  <2>3. /\ w \in Work /\ w.at = "values" /\ w.run = sync[p].run /\ w.todo = sync[p].todo
        /\ w.dry = sync[p].dry /\ w.got = sync[p].got /\ w.failed = sync[p].failed
    BY <1>2 DEF Work, Places
  <2> HIDE DEF w
  <2> QED BY <1>1, <2>2, <2>3, <2>4, ThroughKept
<1> QED BY <1>3, <1>4

\* The values of one event change neither its occurrence nor the run.
LEMMA ValueKept ==
  ASSUME EventInv, NEW p \in Workers, Value(p)
  PROVE  EventInv'
<1>1. Busy(p) /\ sync[p].at = "values" /\ UNCHANGED <<runs, occ, rev, faults>>
  BY DEF Value, Busy
<1>2. sync[p] \in Work
  BY <1>1, BusyFacts
<1> DEFINE n == sync[p].n + 1
           next == [sync[p] EXCEPT !.n = n]
           close == [sync[p] EXCEPT !.at = "finish"]
<1>3. sync' = [sync EXCEPT ![p] = next] \/ sync' = [sync EXCEPT ![p] = close]
  BY DEF Value, Go
<1>4. n \in Nat
  BY <1>2 DEF Work
<1> HIDE DEF n
<1>5. /\ next \in Work /\ next.at = "values" /\ next.run = sync[p].run /\ next.todo = sync[p].todo
      /\ next.dry = sync[p].dry /\ next.got = sync[p].got /\ next.failed = sync[p].failed
  BY <1>1, <1>2, <1>4 DEF Work, Places
<1>6. /\ close \in Work /\ close.at = "finish" /\ close.run = sync[p].run /\ close.todo = sync[p].todo
      /\ close.dry = sync[p].dry /\ close.got = sync[p].got /\ close.failed = sync[p].failed
  BY <1>2 DEF Work, Places
<1> HIDE DEF next, close
<1>7. CASE sync' = [sync EXCEPT ![p] = next]
  BY <1>1, <1>5, <1>7, ThroughKept
<1>8. CASE sync' = [sync EXCEPT ![p] = close]
  BY <1>1, <1>6, <1>8, ThroughKept
<1> QED BY <1>3, <1>7, <1>8

-----------------------------------------------------------------------------
(***************************************************************************)
(* The steps of no run, and every step.                                    *)
(***************************************************************************)

\* A request joins: no run that is still running is alone any more.
LEMMA BeginKept ==
  ASSUME EventInv, NEW p \in Workers, Begin(p)
  PROVE  EventInv'
<1>1. ~Busy(p) /\ ~Working(p) /\ UNCHANGED <<occ, rev, faults>> /\ TypeInv
  BY DEF Begin, Busy, Working, EventInv
<1>2. PICK w \in Work : sync' = [sync EXCEPT ![p] = w] /\ w.at = "provider"
  <2>1. PICK q \in Requests :
          sync' = [sync EXCEPT ![p] =
            Fresh([types |-> {t \in Range(Types) : q.types = {} \/ t \in q.types},
                   todo |-> {s \in Sources : IF q.sources = {} THEN src[s].enabled ELSE s \in q.sources},
                   dry |-> q.dry, rest |-> {}], "provider")]
    BY DEF Begin
  <2> DEFINE types == {t \in Range(Types) : q.types = {} \/ t \in q.types}
             todo == {s \in Sources : IF q.sources = {} THEN src[s].enabled ELSE s \in q.sources}
             work == [types |-> types, todo |-> todo, dry |-> q.dry, rest |-> {}]
  <2>2. types \in SUBSET TypeNames /\ todo \in SUBSET Sources /\ q.dry \in BOOLEAN
    BY EventsAssumption DEF TypeNames
  <2>3. sync' = [sync EXCEPT ![p] = Fresh(work, "provider")]
    BY <2>1
  <2> HIDE DEF types, todo
  <2>4. /\ work.types \in SUBSET TypeNames /\ work.todo \in SUBSET Sources /\ work.dry \in BOOLEAN
        /\ work.rest \in SUBSET TypeNames
    BY <2>2
  <2> HIDE DEF work
  <2>5. Fresh(work, "provider") \in Work /\ Fresh(work, "provider").at = "provider"
    BY <2>4, FreshFacts DEF Places
  <2> QED BY <2>3, <2>5
<1>3. /\ sync' = [q \in Workers |-> sync'[q]] /\ sync'[p] = w
      /\ \A q \in Workers \ {p} : sync'[q] = sync[q]
      /\ \A q \in Workers : sync'[q] = Idle \/ sync'[q] \in Work
  BY <1>1, <1>2, SyncSet
<1>4. runs \in Seq(RunDoc) /\ DOMAIN runs = 1 .. Len(runs) /\ \A r \in DOMAIN runs : runs[r] \in RunDoc
  BY <1>1 DEF TypeInv
<1> DEFINE doc(r) == [runs[r] EXCEPT !.alone = runs[r].alone /\ runs[r].status # "RUNNING"]
<1>5. ASSUME NEW r \in DOMAIN runs
      PROVE  /\ doc(r) \in RunDoc /\ doc(r).status = runs[r].status /\ doc(r).source = runs[r].source
             /\ doc(r).failed = runs[r].failed /\ doc(r).events = runs[r].events
             /\ doc(r).dry = runs[r].dry /\ doc(r).lost = runs[r].lost
             /\ doc(r).alone => runs[r].alone /\ runs[r].status # "RUNNING"
  <2> DEFINE alone == runs[r].alone /\ runs[r].status # "RUNNING"
  <2>1. alone \in BOOLEAN /\ (alone => runs[r].alone /\ runs[r].status # "RUNNING")
    OBVIOUS
  <2>2. doc(r) = [runs[r] EXCEPT !.alone = alone]
    OBVIOUS
  <2> HIDE DEF alone, doc
  <2> QED BY <1>4, <2>1, <2>2 DEF RunDoc
<1>6. runs' = [r \in DOMAIN runs |-> doc(r)]
  BY DEF Begin
<1> HIDE DEF doc
<1>7. /\ runs' \in Seq(RunDoc) /\ DOMAIN runs' = DOMAIN runs
      /\ \A r \in DOMAIN runs : runs'[r] = doc(r)
  BY <1>4, <1>5, <1>6
<1>8. TypeInv'
  BY <1>1, <1>3, <1>7 DEF TypeInv
<1>9. \A r \in DOMAIN runs' : r \in DOMAIN runs /\ runs'[r].events = runs[r].events /\ (Claims(r)' => Claims(r))
  BY <1>5, <1>7 DEF Claims
<1>10. ASSUME NEW q \in Workers PROVE WorkOK(q)'
  <2>1. CASE q = p
    BY <1>2, <1>3, <2>1, AwayOK
  <2>2. CASE q # p
    <3> SUFFICES ASSUME Busy(q)
                 PROVE  /\ sync[q].at # "provider" => sync[q].todo # {}
                        /\ HoldsRun(q)' /\ HoldsEvents(q)'
      BY <1>3, <2>2 DEF WorkOK, Busy
    <3>1. /\ HoldsRun(q) /\ HoldsEvents(q) /\ (sync[q].at # "provider" => sync[q].todo # {})
          /\ sync'[q] = sync[q]
      BY <1>3, <2>2, BusyFacts
    <3>2. Working(q) =>
            /\ sync[q].run \in DOMAIN runs' /\ Mine(q)'.source = Mine(q).source /\ Mine(q)'.dry = Mine(q).dry
            /\ Mine(q)'.status = Mine(q).status /\ Mine(q)'.events = Mine(q).events
            /\ ~(Mine(q).status = "RUNNING" /\ Mine(q)'.alone)
      BY <1>5, <1>7, <3>1 DEF HoldsRun, Mine
    <3>3. HoldsRun(q)'
      BY <1>1, <3>1, <3>2 DEF HoldsRun, Working, Source
    <3>4. Handling(q) \/ Through(q) => ~Mine(q)'.alone /\ Mine(q)'.events = Mine(q).events
      BY <3>1, <3>2 DEF Handling, Through, Working, HoldsRun
    <3>5. HoldsEvents(q)'
      <4> DEFINE events == sync[q].got.events
      <4>1. /\ Handling(q)' <=> Handling(q)
            /\ Through(q)' <=> Through(q)
            /\ Source(q)' = Source(q)
        BY <3>1 DEF Handling, Through, Source
      <4>2. Handling(q) \/ Through(q) =>
              /\ Mine(q)'.events = events /\ sync[q].got.status = "SUCCESS"
              /\ \A i \in DOMAIN events : events[i].rev <= rev'[events[i].key]
              /\ \A i, j \in DOMAIN events : events[i].key = events[j].key => events[i].rev = events[j].rev
        BY <1>1, <3>1, <3>4 DEF HoldsEvents
      <4>3. Handling(q) =>
              /\ sync[q].n >= 1
              /\ sync[q].at = "index" => sync[q].n <= Len(events)
        BY <3>1 DEF HoldsEvents
      <4>4. ASSUME Handling(q), NEW r \in DOMAIN runs', Claims(r)', NEW e \in Range(runs'[r].events),
                   NEW i \in DOMAIN events, events[i].key = e.key
            PROVE  e.rev <= events[i].rev
        BY <1>9, <3>1, <4>4 DEF HoldsEvents
      <4> QED BY <3>1, <3>4, <4>1, <4>2, <4>3, <4>4 DEF HoldsEvents
    <3> QED BY <3>1, <3>3, <3>5
  <2> QED BY <2>1, <2>2
<1>11. Distinct'
  BY <1>2, <1>3 DEF EventInv, Distinct, Working
<1>12. \A r \in DOMAIN runs' : RunOK(r)'
  BY <1>1, <1>9 DEF EventInv, RunOK, Kept
<1>13. Closed'
  <2> SUFFICES ASSUME faults' <= 1, NEW r \in DOMAIN runs, runs'[r].status = "RUNNING", ~runs'[r].lost
               PROVE  \E q \in Workers : Working(q)' /\ sync'[q].run = r
    BY <1>7 DEF Closed
  <2>1. PICK q \in Workers : Working(q) /\ sync[q].run = r
    BY <1>1, <1>5, <1>7 DEF EventInv, Closed
  <2>2. q # p
    BY <1>1, <2>1
  <2> QED BY <1>3, <2>1, <2>2 DEF Working
<1> QED BY <1>8, <1>10, <1>11, <1>12, <1>13 DEF EventInv

\* A provider publishes something newer.
LEMMA ReviseKept ==
  ASSUME EventInv, NEW k \in Keys, Revise(k)
  PROVE  EventInv'
<1>1. /\ UNCHANGED <<occ, runs, sync, faults>> /\ rev' = [rev EXCEPT ![k] = rev[k] + 1] /\ TypeInv
  BY DEF Revise, EventInv
<1>2. rev' \in [Keys -> Nat \ {0}] /\ \A m \in Keys : \A x \in Nat : x <= rev[m] => x <= rev'[m]
  BY <1>1 DEF TypeInv
<1>3. TypeInv'
  BY <1>1, <1>2 DEF TypeInv
<1>4. ASSUME NEW p \in Workers PROVE WorkOK(p)'
  <2> SUFFICES ASSUME Busy(p)
               PROVE  (sync[p].at # "provider" => sync[p].todo # {}) /\ HoldsRun(p)' /\ HoldsEvents(p)'
    BY <1>1 DEF WorkOK, Busy
  <2>1. /\ sync[p] \in Work /\ HoldsRun(p) /\ HoldsEvents(p)
        /\ (sync[p].at # "provider" => sync[p].todo # {})
    BY BusyFacts
  <2>2. HoldsRun(p)'
    BY <1>1, <2>1 DEF HoldsRun, Working, Mine, Source, Busy
  <2> DEFINE events == sync[p].got.events
  <2>3. \A i \in DOMAIN events : events[i].key \in Keys /\ events[i].rev \in Nat
    <3>1. events \in Seq(EventRec)
      BY <2>1 DEF Work, Got
    <3> HIDE DEF events
    <3>2. \A i \in DOMAIN events : events[i] \in EventRec
      BY <3>1
    <3> QED BY <3>2 DEF EventRec
  <2>4. Handling(p) \/ Through(p) => \A i \in DOMAIN events : events[i].rev <= rev'[events[i].key]
    BY <1>2, <2>1, <2>3 DEF HoldsEvents
  <2>5. HoldsEvents(p)'
    BY <1>1, <2>1, <2>4 DEF HoldsEvents, Handling, Through, Mine, Source, Claims, Kept
  <2> QED BY <2>1, <2>2, <2>5
<1>5. Distinct' /\ Closed'
  BY <1>1 DEF EventInv, Distinct, Closed, Working
<1>6. ASSUME NEW r \in DOMAIN runs PROVE RunOK(r)'
  <2>1. \A e \in Range(runs[r].events) : e.key \in Keys /\ e.rev \in Nat
    <3>1. runs[r] \in RunDoc
      BY <1>1 DEF TypeInv
    <3>2. runs[r].events \in Seq(EventRec)
      BY <3>1 DEF RunDoc
    <3>3. \A e \in Range(runs[r].events) : e \in EventRec
      BY <3>2 DEF Range
    <3> QED BY <3>3 DEF EventRec
  <2> QED BY <1>1, <1>2, <2>1 DEF EventInv, RunOK, Claims, Kept
<1> QED BY <1>1, <1>3, <1>4, <1>5, <1>6 DEF EventInv

\* Nobody is synchronising and nothing is stored at first.
LEMMA EventInit == Init => EventInv
<1> SUFFICES ASSUME Init PROVE EventInv
  OBVIOUS
<1>1. /\ rev = [k \in Keys |-> 1] /\ occ = [k \in Keys |-> Absent]
      /\ runs = <<>> /\ sync = [p \in Workers |-> Idle] /\ faults = 0
  BY DEF Init
<1>2. DOMAIN runs = {} /\ runs \in Seq(RunDoc)
  BY <1>1
<1>3. \A p \in Workers : sync[p] = Idle /\ ~Busy(p) /\ ~Working(p)
  BY <1>1 DEF Busy, Working, Idle
<1>4. TypeInv
  BY <1>1, <1>2, <1>3 DEF TypeInv, Absent
<1> QED BY <1>2, <1>3, <1>4 DEF EventInv, WorkOK, Distinct, Closed

\* One case per step of a synchronisation, of the source's calendar and of an
\* administrator, who touches none of it.
LEMMA EventKept ==
  ASSUME EventInv, [Next]_vars
  PROVE  EventInv'
<1>1. ASSUME UNCHANGED eventVars PROVE EventInv'
  <2>1. UNCHANGED <<rev, occ, runs, sync, faults>>
    BY <1>1 DEF eventVars
  <2>2. TypeInv' /\ Distinct' /\ Closed'
    BY <2>1 DEF EventInv, TypeInv, Distinct, Closed, Working
  <2>3. \A p \in Workers : WorkOK(p)'
    BY <2>1 DEF EventInv, WorkOK, Busy, HoldsRun, HoldsEvents, Handling, Through, Working, Mine, Source,
                Claims, Kept
  <2>4. \A r \in DOMAIN runs' : RunOK(r)'
    BY <2>1 DEF EventInv, RunOK, Claims, Kept
  <2> QED BY <2>2, <2>3, <2>4 DEF EventInv
<1>2. ASSUME NEW p \in Workers, SyncStep(p) PROVE EventInv'
  BY <1>2, SelectKept, CreateKept, FetchKept, SearchKept, UpsertKept, ValueKept, FinishKept DEF SyncStep
<1>3. ASSUME NEW p \in Workers, Fault(p) PROVE EventInv'
  <2>1. faults' = faults + 1 /\ UNCHANGED rev
    BY <1>3 DEF Fault
  <2>2. CASE FetchFault(p)
    <3>1. Working(p) /\ Fail(p) /\ UNCHANGED <<runs, occ>>
      BY <2>2 DEF FetchFault, Working
    <3> QED BY <2>1, <3>1, FailKept
  <2>3. CASE ValueFault(p)
    <3>1. Working(p) /\ Fail(p) /\ UNCHANGED <<runs, occ>>
      BY <2>3 DEF ValueFault, Working
    <3> QED BY <2>1, <3>1, FailKept
  <2> QED BY <1>3, <2>1, <2>2, <2>3, CreateFaultKept, UpsertKept, FinishFaultKept DEF Fault
<1> QED BY <1>1, <1>2, <1>3, BeginKept, ReviseKept DEF Next, vars

-----------------------------------------------------------------------------
(***************************************************************************)
(* The theorems.                                                           *)
(***************************************************************************)

\* For any sources, calendars, processes, requests, revisions and faults: what an
\* undisturbed run that succeeded says it has stored is stored, or something newer is.
THEOREM SuccessIsStored == Spec => []StoredIsCurrent
<1>1. EventInv => StoredIsCurrent
  <2> SUFFICES ASSUME EventInv, NEW r \in Range(runs),
                      r.status = "SUCCESS" /\ r.failed = 0 /\ r.alone /\ ~r.dry /\ r.source # "FED",
                      NEW e \in Range(r.events)
               PROVE  occ[e.key].rev >= e.rev
    BY DEF StoredIsCurrent
  <2>1. PICK i \in DOMAIN runs : r = runs[i]
    BY DEF Range
  <2> QED BY <2>1 DEF EventInv, RunOK, Claims, Kept
<1> QED BY <1>1, EventInit, EventKept, PTL DEF Spec

\* For any of them: while at most one call has raised, a run document that is RUNNING is in
\* the hands of a process, or its creation was not answered.
THEOREM RunsEnd == Spec => []RunsClosed
<1>1. EventInv => RunsClosed
  BY DEF EventInv, Closed, RunsClosed, Working, Busy
<1> QED BY <1>1, EventInit, EventKept, PTL DEF Spec
=============================================================================
