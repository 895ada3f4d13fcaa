----------------------------- MODULE ReportGraph -----------------------------
(***************************************************************************)
(* A background task that makes a report: the daily position review, the   *)
(* trade review or the risk assessment.  Each runs the supersteps of its   *)
(* LangGraph, whose nodes answer a failure with a fallback or an error in  *)
(* the state instead of raising; the runner stores a conservative document *)
(* if the graph saved none, and stores the document again with its traces; *)
(* the route gives the task its verdict.                                   *)
(*                                                                         *)
(* The nodes of a superstep read the same state and their writes are       *)
(* merged at its end: a superstep is one action, except that composing is  *)
(* the loop of AgentLoop.  A call that raises, of Elasticsearch or of a    *)
(* source of a card, is a fault; the language model raises freely.  A      *)
(* write that raises may have taken effect.                                *)
(***************************************************************************)
EXTENDS AgentLoop, RiskCards

CONSTANTS
    Mixes,      \* what the tasks that run at the same time may be: run -> kind
    Accounts,   \* what the account facts of a risk assessment may find
    MaxFaults   \* bound, for each run

ASSUME ReportAssumption ==
    MaxFaults \in Nat /\ Mixes \subseteq [Runs -> {"daily", "trade", "risk", "none"}]

\* Amounts are numbers, and so are the scores that are summed up of them.
ASSUME ScoreAssumption ==
    \A account \in Accounts : LET s == Facts(account) IN
      /\ Concentration(s).score \in Int /\ Correlation(s).score \in Int
      /\ \A companies \in SUBSET CompaniesAsked(s) : Sector(s, companies).score \in Int
      /\ \A calendars \in SUBSET CalendarsAsked(s) : Earnings(s, calendars).score \in Int
      /\ \A themed \in BOOLEAN : Stress(s, themed).score \in Int

VARIABLES
    kind,     \* what a run reports
    pc,       \* the next step of a run
    pack,     \* whether the evidence of a review was assembled
    facts,    \* the account facts of a risk assessment, <<>> if not read
    reached,  \* the symbols LongBridge answered for, [companies, calendars], and
              \* whether the sector card names the symbols of the themes: themed
    cards,    \* the risk cards
    held,     \* the document in the hands of the runner
    docs,     \* the three report indices
    verdict,  \* of the task
    faults    \* of a run, so far

reportVars == <<kind, pack, facts, reached, cards, held, docs, verdict>>
vars == <<loop, pc, faults, reportVars>>

----------------------------------------------------------------------------
Document(r, id, status) == [id |-> id, kind |-> kind[r], by |-> r, status |-> status, level |-> "unknown"]
Nothing == [id |-> <<"none">>, kind |-> "none", by |-> "none", status |-> "none", level |-> "unknown"]

NothingReached == [companies |-> {}, calendars |-> {}, themed |-> FALSE]

Init ==
    /\ LoopInit
    /\ kind \in Mixes
    /\ pc = [r \in Runs |-> IF kind[r] = "none" THEN "done" ELSE "load"]
    /\ pack = [r \in Runs |-> kind[r] = "trade"]
    /\ facts = [r \in Runs |-> <<>>]
    /\ reached = [r \in Runs |-> NothingReached]
    /\ cards = [r \in Runs |-> Guess]
    /\ held = [r \in Runs |-> Nothing]
    /\ docs = {}
    /\ verdict = [r \in Runs |-> "open"]
    /\ faults = [r \in Runs |-> 0]

At(r, step) == pc[r] = step
Go(r, step) == pc' = [pc EXCEPT ![r] = step]
May(r) == faults[r] < MaxFaults /\ faults' = [faults EXCEPT ![r] = @ + 1]
Fine == UNCHANGED faults

----------------------------------------------------------------------------
(* The reviews *)

\* The analyses of behaviour and of opportunity cost run side by side; what the model
\* says in either goes into the prompt of the review, its failure does so as well.
TradeNodes == <<"load", "evidence", "context", "analyses", "compose">>

\* The supersteps that collect what the composing node reads.  Whether a source
\* answers or raises, the graph goes on with what there is, an empty context, fallback
\* cards, evidence with an error, a conservative analysis, and none of it decides how
\* the review ends.
Nodes == [daily |-> <<"load", "select", "symbols", "pack">>, trade |-> TradeNodes]
Gather(r) ==
    /\ kind[r] \in DOMAIN Nodes
    /\ \E i \in 1..Len(Nodes[kind[r]]) - 1 : At(r, Nodes[kind[r]][i]) /\ Go(r, Nodes[kind[r]][i + 1])
    /\ UNCHANGED <<loop, faults, reportVars>>

\* build_card_pack: the pack of the daily review is None if it cannot be assembled.
BuildPack(r) ==
    /\ At(r, "pack") /\ Go(r, "compose")
    /\ \/ pack' = [pack EXCEPT ![r] = TRUE] /\ Fine
       \/ UNCHANGED pack /\ May(r)
    /\ UNCHANGED <<loop, kind, facts, reached, cards, held, docs, verdict>>

\* compose: without a card pack it fails at once; only the daily review has tools, and
\* one of them is called before the first round.
Compose(r) ==
    /\ At(r, "compose") /\ LoopAt(r, "off") /\ pack[r]
    /\ Become(r, IF kind[r] = "daily" THEN Open(TRUE, 4, 3) ELSE Open(FALSE, 6, 1))
    /\ UNCHANGED <<pc, faults, reportVars>>

\* The answer of the model is normalised and validated once more, which may fail;
\* everything else is a fallback built of the deterministic context.
Composed(r) ==
    /\ At(r, "compose") /\ (~pack[r] \/ loop[r].at \in {"done", "raised"})
    /\ \E status \in (IF loop[r].answer = "model" THEN {"success"} ELSE {})
                       \cup {IF pack[r] THEN "completed_with_fallback" ELSE "failed"} :
         held' = [held EXCEPT ![r] =
                    Document(r, IF kind[r] = "daily" THEN <<"date">> ELSE <<"uuid", r>>, status)]
    /\ loop' = [loop EXCEPT ![r] = Off]
    /\ Go(r, "persist") /\ Fine
    /\ UNCHANGED <<kind, pack, facts, reached, cards, docs, verdict>>

----------------------------------------------------------------------------
(* The risk assessment *)

\* build_account_risk_facts: a failure leaves no snapshot.
BuildFacts(r) ==
    /\ At(r, "load") /\ kind[r] = "risk"
    /\ \/ \E account \in Accounts : facts' = [facts EXCEPT ![r] = <<Facts(account)>>] /\ Fine
       \/ UNCHANGED facts /\ May(r)
    /\ Go(r, "cards")
    /\ UNCHANGED <<loop, kind, pack, reached, cards, held, docs, verdict>>

Made(old, s, companies, calendars, failed) ==
    [old EXCEPT !.concentration = Concentration(s),
                !.sector = IF "sector" \in failed THEN old.sector ELSE Sector(s, companies),
                !.correlation = Correlation(s),
                !.earnings = IF "earnings" \in failed THEN old.earnings ELSE Earnings(s, calendars)]

\* The four cards; without a snapshot, or when the source raises, a node gives the card
\* of its fallback.  LongBridge answers for some of the symbols it is asked for.
MakeCards(r) ==
    /\ At(r, "cards")
    /\ IF facts[r] = <<>> THEN Fine /\ UNCHANGED <<reached, cards>>
       ELSE LET s == facts[r][1] IN
            \E companies \in SUBSET CompaniesAsked(s), calendars \in SUBSET CalendarsAsked(s), failed \in SUBSET {"sector", "earnings"} :
              /\ IF failed = {} THEN Fine ELSE Cardinality(failed) = 1 /\ May(r)
              /\ reached' = [reached EXCEPT ![r] =
                   [companies |-> IF "sector" \in failed THEN {} ELSE companies,
                    calendars |-> IF "earnings" \in failed THEN {} ELSE calendars,
                    themed    |-> "sector" \notin failed]]
              /\ cards' = [cards EXCEPT ![r] = Made(@, s, companies, calendars, failed)]
    /\ Go(r, "stress")
    /\ UNCHANGED <<loop, kind, pack, facts, held, docs, verdict>>

\* stress_test reads the themes off the sector card
StressTest(r) ==
    /\ At(r, "stress")
    /\ cards' = IF facts[r] = <<>> THEN cards
                ELSE [cards EXCEPT ![r].stress = Stress(facts[r][1], reached[r].themed)]
    /\ Go(r, "report") /\ Fine
    /\ UNCHANGED <<loop, kind, pack, facts, reached, held, docs, verdict>>

\* risk_report_composer: without a snapshot there is no report, and persist raises.
Report(r) ==
    /\ At(r, "report")
    /\ IF facts[r] = <<>> THEN Go(r, "fallback") /\ UNCHANGED held
       ELSE /\ held' = [held EXCEPT ![r] =
                          [Document(r, <<"uuid", r>>, "success") EXCEPT !.level = ReportLevel(cards[r])]]
            /\ Go(r, "persist")
    /\ Fine /\ UNCHANGED <<loop, kind, pack, facts, reached, cards, docs, verdict>>

----------------------------------------------------------------------------
(* Saving *)

\* save_review, save_assessment
Put(d) == {e \in docs : e.kind # d.kind \/ e.id # d.id} \cup {d}
Saved(d) == docs' = Put(d) /\ Fine
Refused(r, d) == docs' \in {docs, Put(d)} /\ May(r)

AfterSave(r) == CASE kind[r] = "daily" -> "resave" [] kind[r] = "trade" -> "finalize" [] kind[r] = "risk" -> "verdict"

\* The persist node; if the write raises, the graph has saved nothing.
Persist(r) ==
    /\ At(r, "persist")
    /\ \/ Saved(held[r]) /\ Go(r, AfterSave(r))
       \/ Refused(r, held[r]) /\ Go(r, "fallback")
    /\ UNCHANGED <<loop, kind, pack, facts, reached, cards, held, verdict>>

Conservative(r) ==
    [Document(r, CASE kind[r] = "daily" -> <<"date">>
                   [] kind[r] = "trade" -> <<"symbol">>
                   [] kind[r] = "risk"  -> <<"fallback", r>>, "failed")
        EXCEPT !.level = IF kind[r] = "risk" THEN "medium" ELSE "unknown"]

\* _build_fallback of the runner; if the write raises, the document is kept unsaved.
StoreFallback(r) ==
    /\ At(r, "fallback")
    /\ held' = [held EXCEPT ![r] = Conservative(r)]
    /\ Saved(Conservative(r)) \/ Refused(r, Conservative(r))
    /\ Go(r, IF kind[r] = "risk" THEN "verdict" ELSE "finalize")
    /\ UNCHANGED <<loop, kind, pack, facts, reached, cards, verdict>>

\* The daily review is saved again because the trace of the e-mail node is missing; the
\* node itself sends nothing, the routes never ask it to.
Resave(r) ==
    /\ At(r, "resave") /\ Go(r, "finalize")
    /\ Saved(held[r]) \/ Refused(r, held[r])
    /\ UNCHANGED <<loop, kind, pack, facts, reached, cards, held, verdict>>

\* Mutant: the document is not stored with the identity of the run.
FinalizeUnsaved(r) ==
    /\ At(r, "finalize") /\ Go(r, "verdict") /\ Fine
    /\ UNCHANGED <<loop, kind, pack, facts, reached, cards, held, docs, verdict>>

\* _finalize of the review runners
Finalize(r) ==
    /\ At(r, "finalize") /\ Go(r, "verdict")
    /\ Saved(held[r]) \/ Refused(r, held[r])
    /\ UNCHANGED <<loop, kind, pack, facts, reached, cards, held, verdict>>

\* The routes: a trade review always completes, the other two only without a fallback.
\* The mail of a daily review follows a verdict and changes nothing.
Verdict(r) ==
    /\ At(r, "verdict") /\ Go(r, "done")
    /\ verdict' = [verdict EXCEPT ![r] =
                     IF kind[r] = "trade" \/ held[r].status = "success" THEN "completed" ELSE "failed"]
    /\ UNCHANGED <<loop, kind, pack, facts, reached, cards, held, docs, faults>>

----------------------------------------------------------------------------
Ask(r) == At(r, "compose") /\ LoopStep(r) /\ UNCHANGED <<pc, faults, reportVars>>

Step(r) ==
    \/ Gather(r) \/ BuildPack(r) \/ Compose(r) \/ Ask(r) \/ Composed(r)
    \/ BuildFacts(r) \/ MakeCards(r) \/ StressTest(r) \/ Report(r)
    \/ Persist(r) \/ StoreFallback(r) \/ Resave(r) \/ Finalize(r) \/ Verdict(r)

Next == \E r \in Runs : Step(r)

\* A task runs in a thread of its own; every request has a timeout.
Spec == Init /\ [][Next]_vars /\ \A r \in Runs : WF_vars(Step(r))

----------------------------------------------------------------------------
\* The verdict of a task is true of what is stored, although up to two calls of its run
\* raise, before or after their effect: a completed task leads to a document, and
\* unless another run has replaced it the document of a daily review or of an
\* assessment is a success exactly if its task completed.
VerdictMatchesStore ==
    \A r \in Runs : faults[r] <= 2 =>
      /\ verdict[r] = "completed" => \E d \in docs : d.kind = kind[r] /\ d.id = held[r].id
      /\ \A d \in docs :
           d.by = r /\ d.kind \in {"daily", "risk"} /\ d.id = held[r].id /\ verdict[r] # "open"
             => (verdict[r] = "completed" <=> d.status = "success")

\* A stored assessment says that the risk is low only if the account was read and
\* LongBridge has answered both for a company and for a calendar: what nobody could
\* look up never counts as safe.
LowNeedsAnswers ==
    \A d \in docs : d.kind = "risk" /\ d.level = "low" =>
      facts[d.by] # <<>> /\ reached[d.by].companies # {} /\ reached[d.by].calendars # {}

\* Every task gets its verdict, whatever the model answers and however the tools end:
\* the rounds and the repairs are counted, and no failure stops the run.
ReportEnds == \A r \in Runs : <>(pc[r] = "done")
=============================================================================
