-------------------------- MODULE MarketEvents --------------------------
(***************************************************************************)
(* The synchronisation of market events: MarketEventSyncService with the    *)
(* providers and the event, value and run documents of                      *)
(* MarketEventRepository.  The admin route runs a whole synchronisation      *)
(* inside of its event loop, so that a process has at most one; two          *)
(* processes interleave between any two calls to Elasticsearch.              *)
(*                                                                            *)
(* An event is its dedupe key, the revision of its content, and the labels    *)
(* of the estimates that come with it.  The route passes no symbols, for      *)
(* which fetch_news_events returns SKIPPED: there are no news.                *)
(***************************************************************************)
EXTENDS MarketSources, SequencesExt

CONSTANTS Workers,      \* processes that synchronise
          Calendar,     \* source -> kind -> its events, [key, labels], in order
          Requests,     \* what may be asked: [sources, types, dry]
          MaxRevisions, MaxFaults     \* bounds


VARIABLES rev,      \* the providers: the revision of an event's content
          occ,      \* occurrence documents by dedupe key: revision, payload hash
          vals,     \* value documents: under an event, the label, whose it was
          runs,     \* sync run documents, with what the run had fetched
          sync,     \* the request a process is serving
          revised, faults           \* revisions, faults so far

eventVars == <<rev, occ, vals, runs, sync, revised, faults>>
vars == <<sourceVars, eventVars>>

EventKinds == {"release", "corporate", "holiday"}
Keys == UNION {UNION {{e.key : e \in Range(Calendar[s][k])} : k \in EventKinds} : s \in Sources}
Absent == [rev |-> 0, hash |-> 0]

(* MarketEventProviderRegistry, and the capabilities sync_provider looks at *)
Order == <<"BLS", "BEA", "FRED", "FED", "ISM", "LONGBRIDGE", "MANUAL">>
Types == <<"CALENDAR", "VALUE", "CORPORATE", "NEWS", "MARKET_HOLIDAY", "MARKET_STATUS",
           "TRADING_SESSION">>

ASSUME EventsAssumption ==
    /\ Sources \subseteq Range(Order)
    /\ \A s \in Sources, k \in EventKinds : Calendar[s][k] \in Seq(Range(Calendar[s][k]))
    /\ \A q \in Requests : q.dry \in BOOLEAN
    /\ MaxRevisions \in Nat /\ MaxFaults \in Nat

\* Of what is left, the next one in order.
First(order, left) ==
    order[CHOOSE i \in DOMAIN order : order[i] \in left /\ \A j \in 1 .. i - 1 : order[j] \notin left]

Capable(s) ==
    CASE s \in {"BLS", "BEA", "ISM"} -> {"CALENDAR", "VALUE"}
      [] s = "FRED"                  -> {"VALUE"}
      [] s \in {"FED", "MANUAL"}     -> {"CALENDAR"}
      [] s = "LONGBRIDGE"            -> Range(Types) \ {"VALUE"}

(* stable_json_hash: an event of the Fed has no raw payload *)
Hash(s, r) == IF s = "FED" THEN 0 ELSE r

(***************************************************************************)
(* What a provider answers: a status, events with their revision, and       *)
(* values, each with the event it was mapped from (none for a series).      *)
(***************************************************************************)
Nothing(status) == [status |-> status, events |-> <<>>, values |-> <<>>]
Listed(s, kind) ==
    [i \in DOMAIN Calendar[s][kind] |->
        LET k == Calendar[s][kind][i].key IN [key |-> k, rev |-> rev[k]]]
Estimates(s) ==
    LET companies == Calendar[s]["corporate"] IN
    FlattenSeq([i \in DOMAIN companies |->
        [j \in DOMAIN companies[i].labels |->
            [label |-> companies[i].labels[j], of |-> companies[i].key]]])
Schedule(s, kind) == [status |-> "SUCCESS", events |-> Listed(s, kind), values |-> <<>>]
Corporate(s) == [status |-> "SUCCESS", events |-> Listed(s, "corporate"), values |-> Estimates(s)]
Series(s) == [status |-> "SUCCESS", events |-> <<>>, values |-> <<[label |-> s, of |-> "series"]>>]

Answers(s, type) ==
    CASE s = "ISM" -> {Nothing("SKIPPED")}
      [] s = "MANUAL" -> {Nothing("SUCCESS")}
      [] s # "LONGBRIDGE" /\ ~Ready(s) -> {Nothing("SKIPPED")}
      [] s # "LONGBRIDGE" /\ type = "VALUE" -> {Nothing("SUCCESS"), Series(s)}
      [] s # "LONGBRIDGE" -> {Nothing("FAILED"), Schedule(s, "release")}
      [] type \in {"CALENDAR", "CORPORATE"} -> {Nothing("SKIPPED"), Nothing("FAILED"), Corporate(s)}
      [] type = "NEWS" -> {Nothing("SKIPPED")}
      [] type = "MARKET_HOLIDAY" -> {Nothing("SKIPPED"), Nothing("FAILED"), Schedule(s, "holiday")}
      [] OTHER -> {Nothing("SKIPPED"), Nothing("FAILED"), Nothing("SUCCESS")}

Init ==
    /\ SourcesInit
    /\ rev = [k \in Keys |-> 1]
    /\ occ = [k \in Keys |-> Absent]
    /\ vals = {} /\ runs = <<>>
    /\ sync = [p \in Workers |-> Idle]
    /\ revised = 0 /\ faults = 0

Busy(p) == sync[p].at # "idle"

(* a process between two runs *)
Fresh(work, at) ==
    [types |-> work.types, todo |-> work.todo, dry |-> work.dry, rest |-> work.rest,
     at |-> at, run |-> 0, type |-> "", got |-> Nothing("SKIPPED"), n |-> 1, ids |-> <<>>, failed |-> 0]

(* sync_all: the sources that were asked for, or those that are enabled.  A  *)
(* run that is joined by another request is no longer alone, which is a       *)
(* history for the properties.                                                *)
Begin(p) ==
    /\ ~Busy(p) /\ spent < MaxRequests
    /\ \E q \in Requests :
         LET work == [types |-> {t \in Range(Types) : q.types = {} \/ t \in q.types},
                      todo |-> {s \in Sources : IF q.sources = {} THEN src[s].enabled
                                                 ELSE s \in q.sources},
                      dry |-> q.dry, rest |-> {}]
         IN  sync' = [sync EXCEPT ![p] = Fresh(work, "provider")]
    /\ spent' = spent + 1
    /\ runs' = [r \in DOMAIN runs |-> [runs[r] EXCEPT !.alone = @ /\ runs[r].status # "RUNNING"]]
    /\ UNCHANGED <<src, keys, admin, asked, clashed, rev, occ, vals, revised, faults>>

Source(p) == First(Order, sync[p].todo)
Go(p, record) == sync' = [sync EXCEPT ![p] = record]
NextSource(p) == Go(p, Fresh([sync[p] EXCEPT !.todo = @ \ {Source(p)}], "provider"))

(* sync_provider: a source that is disabled is passed over *)
Select(p) ==
    /\ sync[p].at = "provider"
    /\ IF sync[p].todo = {} THEN Go(p, Idle)
       ELSE IF ~src[Source(p)].enabled THEN NextSource(p)
       ELSE Go(p, [sync[p] EXCEPT !.at = "create",
                    !.rest = sync[p].types \intersect Capable(Source(p))])
    /\ UNCHANGED <<sourceVars, rev, occ, vals, runs, revised, faults>>

NewRun(p, lost) ==
    Append(runs, [status |-> "RUNNING", source |-> Source(p), failed |-> 0, events |-> <<>>,
                  dry |-> sync[p].dry, lost |-> lost,
                  alone |-> \A q \in Workers \ {p} : ~Busy(q)])

(* _create_sync_run for the next type, or the source is done *)
Create(p) ==
    /\ sync[p].at = "create"
    /\ IF sync[p].rest = {} THEN NextSource(p) /\ UNCHANGED runs
       ELSE /\ runs' = NewRun(p, FALSE)
            /\ LET type == First(Types, sync[p].rest) IN
               Go(p, [sync[p] EXCEPT !.at = "fetch", !.type = type, !.rest = @ \ {type},
                                     !.run = Len(runs) + 1])
    /\ UNCHANGED <<sourceVars, rev, occ, vals, revised, faults>>

(* the provider is asked; a dry run writes nothing of what it answers *)
Fetch(p) ==
    /\ sync[p].at = "fetch"
    /\ \E got \in Answers(Source(p), sync[p].type) :
         /\ Go(p, [sync[p] EXCEPT !.at = IF got.status = "SUCCESS" /\ ~sync[p].dry THEN "search" ELSE "finish",
                                  !.got = got, !.n = 1, !.ids = <<>>, !.failed = 0])
         /\ runs' = [runs EXCEPT ![sync[p].run].events = got.events]
    /\ UNCHANGED <<sourceVars, rev, occ, vals, revised, faults>>

Event(p) == sync[p].got.events[sync[p].n]
Done(p) == [sync[p] EXCEPT !.at = "search", !.n = @ + 1, !.ids = Append(@, Event(p).key)]
Failed(p) == [sync[p] EXCEPT !.at = "search", !.n = @ + 1, !.failed = @ + 1]

\* Mutant: an occurrence that is there is never updated.
UnchangedIfPresent(s, doc, e) == doc # Absent

(* an occurrence whose payload hash is the same is left as it is *)
Unchanged(s, doc, e) == doc # Absent /\ doc.hash = Hash(s, e.rev)

(* upsert_occurrence: the search by dedupe key ... *)
Search(p) ==
    /\ sync[p].at = "search"
    /\ IF sync[p].n > Len(sync[p].got.events)
          THEN Go(p, [sync[p] EXCEPT !.at = "values", !.n = 1])
       ELSE IF Unchanged(Source(p), occ[Event(p).key], Event(p)) THEN Go(p, Done(p))
       ELSE Go(p, [sync[p] EXCEPT !.at = "index"])
    /\ UNCHANGED <<sourceVars, rev, occ, vals, runs, revised, faults>>

Stored(p) == [occ EXCEPT ![Event(p).key] = [rev |-> Event(p).rev, hash |-> Hash(Source(p), Event(p).rev)]]

(* ... and the write under it *)
Index(p) ==
    /\ sync[p].at = "index"
    /\ occ' = Stored(p) /\ Go(p, Done(p))
    /\ UNCHANGED <<sourceVars, rev, vals, runs, revised, faults>>

(* a value goes to the only occurrence there is, or to the one with its index *)
Owner(p) ==
    LET ids == sync[p].ids IN
    IF Len(ids) = 1 THEN {ids[1]} ELSE IF sync[p].n <= Len(ids) THEN {ids[sync[p].n]} ELSE {}

PutValue(p) ==
    LET v == sync[p].got.values[sync[p].n] IN
    {w \in vals : w.under \notin Owner(p) \/ w.label # v.label}
        \union {[under |-> o, label |-> v.label, of |-> v.of] : o \in Owner(p)}

Value(p) ==
    /\ sync[p].at = "values"
    /\ IF sync[p].n > Len(sync[p].got.values)
          THEN Go(p, [sync[p] EXCEPT !.at = "finish"]) /\ UNCHANGED vals
       ELSE vals' = PutValue(p) /\ Go(p, [sync[p] EXCEPT !.n = @ + 1])
    /\ UNCHANGED <<sourceVars, rev, occ, runs, revised, faults>>

Finished(p) ==
    [runs EXCEPT ![sync[p].run].status = IF sync[p].at = "failed" THEN "FAILED" ELSE sync[p].got.status,
                 ![sync[p].run].failed = sync[p].failed]

(* _finish_sync_run, in the try block ("finish") or in the except block *)
Finish(p) ==
    /\ sync[p].at \in {"finish", "failed"}
    /\ runs' = Finished(p)
    /\ Go(p, Fresh(sync[p], "create"))
    /\ UNCHANGED <<sourceVars, rev, occ, vals, revised, faults>>

(***************************************************************************)
(* Elasticsearch raises, before or after a write took effect.  Without its   *)
(* run document, or in the except block, the source is given up; an event    *)
(* is counted as failed and left out of the ids; anything else makes the     *)
(* run fail.                                                                   *)
(***************************************************************************)
Fail(p) == Go(p, [sync[p] EXCEPT !.at = "failed"])

CreateFault(p) == /\ sync[p].at = "create" /\ sync[p].rest # {}
                  /\ runs' \in {runs, NewRun(p, TRUE)} /\ NextSource(p) /\ UNCHANGED <<occ, vals>>
FetchFault(p)  == /\ sync[p].at = "fetch" /\ Source(p) \notin {"LONGBRIDGE", "MANUAL", "ISM"}
                  /\ Fail(p) /\ UNCHANGED <<runs, occ, vals>>
EventFault(p)  == /\ \/ sync[p].at = "search" /\ sync[p].n <= Len(sync[p].got.events) /\ occ' = occ
                     \/ sync[p].at = "index" /\ occ' \in {occ, Stored(p)}
                  /\ Go(p, Failed(p)) /\ UNCHANGED <<runs, vals>>
ValueFault(p)  == /\ sync[p].at = "values" /\ sync[p].n <= Len(sync[p].got.values) /\ Owner(p) # {}
                  /\ vals' \in {vals, PutValue(p)} /\ Fail(p) /\ UNCHANGED <<runs, occ>>

\* Mutant: the except block does not close the run.
FinishFaultUnhandled(p) == /\ sync[p].at \in {"finish", "failed"}
                           /\ runs' \in {runs, Finished(p)} /\ UNCHANGED <<occ, vals>>
                           /\ NextSource(p)

FinishFault(p) == /\ sync[p].at \in {"finish", "failed"}
                  /\ runs' \in {runs, Finished(p)} /\ UNCHANGED <<occ, vals>>
                  /\ IF sync[p].at = "finish" THEN Fail(p) ELSE NextSource(p)

Fault(p) ==
    /\ faults < MaxFaults /\ faults' = faults + 1
    /\ \/ CreateFault(p) \/ FetchFault(p) \/ EventFault(p) \/ ValueFault(p) \/ FinishFault(p)
    /\ UNCHANGED <<sourceVars, rev, revised>>

(* A provider publishes another content of an event (a note, the SEP mark of *)
(* a meeting, an estimate).                                                    *)
Revise(k) ==
    /\ revised < MaxRevisions /\ revised' = revised + 1
    /\ rev' = [rev EXCEPT ![k] = @ + 1]
    /\ UNCHANGED <<sourceVars, occ, vals, runs, sync, faults>>

SyncStep(p) ==
    \/ Select(p) \/ Create(p) \/ Fetch(p)
    \/ Search(p) \/ Index(p) \/ Value(p) \/ Finish(p)

Next ==
    \/ SourcesNext /\ UNCHANGED eventVars
    \/ \E p \in Workers : Begin(p) \/ SyncStep(p) \/ Fault(p)
    \/ \E k \in Keys : Revise(k)

Spec == Init /\ [][Next]_vars

(***************************************************************************)
(* What a run that nobody disturbed says it has stored is stored, until      *)
(* something newer is: the search and the hash of upsert_occurrence pass     *)
(* over an event only when it is stored as it was fetched.  Events without a *)
(* payload are exempt, a change of theirs is never seen.                       *)
(***************************************************************************)
StoredIsCurrent ==
    \A r \in Range(runs) :
        r.status = "SUCCESS" /\ r.failed = 0 /\ r.alone /\ ~r.dry /\ r.source # "FED"
            => \A e \in Range(r.events) : occ[e.key].rev >= e.rev

(***************************************************************************)
(* No run is left RUNNING that nobody works on, although any one call may    *)
(* raise, before or after its effect: the except block of _run_sync_method   *)
(* closes what the try block could not.  A run whose creation was not         *)
(* answered is unknown to its synchronisation, and stays; so does one whose   *)
(* except block raises as well.                                                *)
(***************************************************************************)
RunsClosed ==
    faults <= 1 =>
        \A r \in DOMAIN runs :
            runs[r].status = "RUNNING" =>
                runs[r].lost \/ \E p \in Workers : Busy(p) /\ sync[p].run = r
=============================================================================
