-------------------------- MODULE TradeDecisionGraph --------------------------
(***************************************************************************)
(* A run of the trade decision agent: the supersteps of its LangGraph      *)
(* (trade_decision_graph/nodes.py), whose nodes answer a failure with a    *)
(* fallback card or an error instead of raising, and the runner that       *)
(* stores a conservative document when nothing was saved and stores the    *)
(* document once more with the identity of the run (runner.py).            *)
(*                                                                         *)
(* The five evidence nodes, the two theses and the two rebuttals of one    *)
(* superstep write different channels, which LangGraph merges at its end:  *)
(* each superstep is one action.  Everything that departs from a healthy   *)
(* run, in the account, on a card, in an answer of the language model or   *)
(* of Elasticsearch, counts one in odd.                                    *)
(***************************************************************************)
EXTENDS TradeComposer, Sequences, FiniteSets

CONSTANTS
    Runs,       \* agent runs, in threads of their own
    Currents,   \* held shares of the portfolio, in per cent, zero for no position
    Targets,    \* target positions an answer may propose
    Ratios,     \* reward to risk ratios an answer may estimate, in tenths
    MaxOdd,     \* bound: departures from a healthy run
    MaxSeconds  \* bound: seconds of the clock

ASSUME TradeAssumption ==
    /\ Currents \subseteq 0..100 /\ Targets \subseteq 0..100 /\ Ratios \subseteq Nat
    /\ MaxOdd \in Nat /\ MaxSeconds \in Nat

VARIABLES
    pc,       \* the next superstep of a run
    known,    \* whether the account facts were read
    pack,     \* the card pack
    output,   \* the composed decision, <<>> before and when composing failed
    draft,    \* the document the runner holds: [id, action]
    answers,  \* what became of the run's writes
    docs,     \* the decision index
    second,   \* the clock, as the composer reads it
    odd       \* departures from a healthy run

vars == <<pc, known, pack, output, draft, answers, docs, second, odd>>

NoId == <<"none", 0>>
Nothing == [id |-> NoId, action |-> "watchlist"]

\* What the cards say in a healthy run, and what their fallbacks say.
Thesis == [max |-> 5, target |-> 3, risk |-> "unknown", noAddTrend |-> FALSE, noAddCatalyst |-> FALSE,
           sellSevere |-> FALSE, sellRed |-> FALSE]
AMD == [max |-> 28, target |-> 20, risk |-> "high_growth", noAddTrend |-> TRUE, noAddCatalyst |-> TRUE,
        sellSevere |-> TRUE, sellRed |-> TRUE]
MSTR == [max |-> 10, target |-> 5, risk |-> "extreme", noAddTrend |-> TRUE, noAddCatalyst |-> FALSE,
         sellSevere |-> TRUE, sellRed |-> FALSE]

Rising == [trend |-> "none", bearish |-> FALSE, gone |-> FALSE]
NoMarket == [trend |-> "unknown", bearish |-> FALSE, gone |-> TRUE]
Sound == [status |-> "green", broken |-> FALSE, bearish |-> FALSE, gone |-> FALSE]
NoFundamentals == [status |-> "unknown", broken |-> FALSE, bearish |-> FALSE, gone |-> TRUE]
Favourable == [evaluated |-> TRUE, max |-> 10, target |-> 6, stance |-> "underweight", bias |-> "allow_add"]
NotEvaluated == [evaluated |-> FALSE, max |-> Unknown, target |-> Unknown, stance |-> "unknown", bias |-> "unknown"]
Encouraging(a) == [action |-> a, target |-> 6, stance |-> "bullish", ratio |-> 25, steep |-> FALSE, invalidation |-> TRUE]

Blank == [holding |-> FALSE, current |-> 0, cash |-> "ample", alarm |-> FALSE, level |-> "unknown", accMax |-> 0,
          forbidden |-> FALSE, market |-> NoMarket, fund |-> NoFundamentals, event |-> "gone", ai |-> NotEvaluated,
          thesis |-> Thesis,
          plan |-> [skeleton |-> TRUE, action |-> "watchlist", target |-> 0, max |-> 0, ratio |-> Unknown,
                    steep |-> FALSE, invalidation |-> FALSE]]

\* What may depart from the healthy record, field by field.
Markets == [trend |-> {"warning", "broken", "severe", "unknown"}, bearish |-> {TRUE}, gone |-> {TRUE}]
Fundamentals == [status |-> {"yellow", "orange", "red", "unknown"}, broken |-> {TRUE}, bearish |-> {TRUE}, gone |-> {TRUE}]
Events == {"strong", "thin", "weak", "negative", "gone"}
Assessments ==
    [max |-> Targets \cup {Unknown}, target |-> Targets \cup {Unknown},
     stance |-> {"no_position", "near_target", "overweight", "over_limit", "forbidden", "unknown"},
     bias |-> {"prefer_pullback_add", "hold_no_add", "prefer_reduce", "avoid", "unknown"}]
Proposals ==
    [target |-> Targets \cup {Unknown}, stance |-> Stances, ratio |-> Ratios \cup {Unknown},
     steep |-> {TRUE}, invalidation |-> {FALSE}]

\* How many fields of x depart from those of y, and the records up to n away.
Departs(x, y) == Cardinality({f \in DOMAIN x : x[f] # y[f]})
Near(x, values, n) ==
    LET near[k \in 0..n] ==
          IF k = 0 THEN {x}
          ELSE near[k - 1] \cup UNION {{[y EXCEPT ![f] = v] : v \in values[f]} : y \in near[k - 1], f \in DOMAIN values}
    IN near[n]

Left == MaxOdd - odd
Odd(n) == n <= Left /\ odd' = odd + n

----------------------------------------------------------------------------
Init ==
    /\ pc = [r \in Runs |-> "facts"]
    /\ known = [r \in Runs |-> FALSE]
    /\ pack = [r \in Runs |-> Blank]
    /\ output = [r \in Runs |-> <<>>]
    /\ draft = [r \in Runs |-> Nothing]
    /\ answers = [r \in Runs |-> <<>>]
    /\ docs = {} /\ second = 0 /\ odd = 0

At(r, step, next) == pc[r] = step /\ pc' = [pc EXCEPT ![r] = next]

\* build_account_facts: a failure leaves the channel empty.  thesis is the code's
\* own for the symbol, attached by compose.
BuildFacts(r) ==
    /\ At(r, "facts", "policy")
    /\ \/ \E current \in Currents, cash \in {"ample", "scarce", "none"}, alarm \in BOOLEAN, thesis \in {Thesis, AMD, MSTR} :
            /\ Odd(One(current > 5) + One(cash # "ample") + One(alarm) + One(thesis # Thesis))
            /\ known' = [known EXCEPT ![r] = TRUE]
            /\ pack' = [pack EXCEPT ![r] = [@ EXCEPT !.holding = current > 0, !.current = current, !.cash = cash,
                                                     !.alarm = alarm, !.thesis = thesis]]
       \/ Odd(1) /\ UNCHANGED <<known, pack>>
    /\ UNCHANGED <<output, draft, answers, docs, second>>

\* load_user_investment_policy: a failure gives the template, which forbids nothing.
LoadPolicy(r) ==
    /\ At(r, "policy", "evidence")
    /\ \E forbidden \in BOOLEAN : Odd(One(forbidden)) /\ pack' = [pack EXCEPT ![r].forbidden = forbidden]
    /\ UNCHANGED <<known, output, draft, answers, docs, second>>

\* AccountFitSubAgent._build_card
FitLevel(p) ==
    IF p.cash # "ample" THEN "poor" ELSE IF p.current < 5 THEN "excellent" ELSE IF p.current < 10 THEN "good" ELSE "fair"
FitMaximum(p) ==
    IF p.current < 1 THEN 5 ELSE IF p.current < 3 THEN 8 ELSE IF p.current < 6 THEN 10 ELSE IF p.current < 10 THEN 5 ELSE 3

\* The evidence superstep and build_card_pack: cards of the account, the market, the
\* company and its events, each a fallback when its node fails.  Without facts the
\* pack fails as well.
Evidence(r) ==
    /\ At(r, "evidence", "assess")
    /\ IF known[r]
       THEN \E market \in Near(Rising, Markets, Left) \cup {NoMarket},
               fund \in Near(Sound, Fundamentals, Left) \cup {NoFundamentals}, event \in Events :
              LET p == pack[r] IN
              /\ Odd((IF market = NoMarket THEN 1 ELSE Departs(market, Rising))
                     + (IF fund = NoFundamentals THEN 1 ELSE Departs(fund, Sound)) + One(event # "strong"))
              /\ pack' = [pack EXCEPT ![r] = [p EXCEPT !.level = FitLevel(p), !.accMax = FitMaximum(p),
                                                       !.market = market, !.fund = fund, !.event = event]]
       ELSE UNCHANGED <<pack, odd>>
    /\ UNCHANGED <<known, output, draft, answers, docs, second>>

\* A user policy that forbids the symbol turns an add into avoid (_sanitize_payload).
Sanitized(p, x) ==
    IF p.forbidden /\ x.bias \in {"allow_add", "prefer_pullback_add"} THEN [x EXCEPT !.bias = "avoid"] ELSE x

\* ai_policy_assessment: the fallback when there is no pack or no usable answer.
AssessPolicy(r) ==
    /\ At(r, "assess", "plan")
    /\ \/ /\ known[r]
          /\ \E x \in Near(Favourable, Assessments, Left) :
               Odd(Departs(x, Favourable)) /\ pack' = [pack EXCEPT ![r].ai = Sanitized(pack[r], x)]
       \/ Odd(One(known[r])) /\ UNCHANGED pack
    /\ UNCHANGED <<known, output, draft, answers, docs, second>>

\* trade_plan, after a debate that only adds to its prompt: the card made of the
\* answer, or the fallback.
Plan(r) ==
    /\ At(r, "plan", "compose")
    /\ \/ /\ known[r]
          /\ \E a \in Actions : \E w \in Near(Encouraging(a), Proposals, Left) :
               Odd(Departs(w, Encouraging(a))) /\ pack' = [pack EXCEPT ![r].plan = PlanCard(pack[r], w)]
       \/ Odd(One(known[r])) /\ pack' = [pack EXCEPT ![r].plan = FallbackPlan(pack[r])]
    /\ UNCHANGED <<known, output, draft, answers, docs, second>>

\* compose_decision: its id is the second it ran in.  It fails without a pack.
Compose(r) ==
    /\ At(r, "compose", "persist")
    /\ \/ /\ known[r]
          /\ \E band \in IF pack[r].plan.skeleton THEN {"add_batch", "add_small", "watchlist", "avoid"} ELSE {"avoid"},
                gateRaises \in BOOLEAN, now \in second..MaxSeconds :
               LET d == Published(pack[r], Decision(pack[r], band, gateRaises)) IN
               /\ Odd(One(gateRaises))
               /\ second' = now
               /\ output' = [output EXCEPT ![r] =
                     [id |-> <<"tdc", now>>, action |-> d.action, target |-> d.target, max |-> d.max]]
       \/ Odd(One(known[r])) /\ UNCHANGED <<output, second>>
    /\ UNCHANGED <<known, pack, draft, answers, docs>>

----------------------------------------------------------------------------
\* TradeDecisionRepository.save_decision under an id: stored, refused, or stored
\* with the answer lost.  Both of the latter raise in the run.
Write(r, d, answer) ==
    /\ Odd(One(answer # "stored"))
    /\ answers' = [answers EXCEPT ![r] = Append(@, answer)]
    /\ docs' = IF answer = "refused" THEN docs
               ELSE {e \in docs : e.id # d.id} \cup {[id |-> d.id, run |-> r, action |-> d.action]}

\* persist_decision: without an output it fails before it writes.
Persist(r) ==
    /\ pc[r] = "persist"
    /\ \/ /\ output[r] = <<>>
          /\ pc' = [pc EXCEPT ![r] = "fallback"]
          /\ UNCHANGED <<draft, answers, docs, odd>>
       \/ /\ output[r] # <<>>
          /\ \E answer \in {"stored", "refused", "lost"} :
               LET d == [id |-> output[r].id, action |-> output[r].action] IN
               /\ Write(r, d, answer)
               /\ pc' = [pc EXCEPT ![r] = IF answer = "stored" THEN "finalize" ELSE "fallback"]
               /\ draft' = [draft EXCEPT ![r] = IF answer = "stored" THEN d ELSE @]
    /\ pack' = [pack EXCEPT ![r] = Blank]
    /\ output' = [output EXCEPT ![r] = <<>>]
    /\ UNCHANGED <<known, second>>

\* _build_conservative_fallback: a watchlist document under an id of its own,
\* which the runner only learns from an answer.
SaveFallback(r) ==
    /\ At(r, "fallback", "finalize")
    /\ \E answer \in {"stored", "refused", "lost"} :
         LET d == [id |-> <<r, 1>>, action |-> "watchlist"] IN
         /\ Write(r, d, answer)
         /\ draft' = [draft EXCEPT ![r] = IF answer = "stored" THEN d ELSE Nothing]
    /\ UNCHANGED <<known, pack, output, second>>

\* Mutant: the document is handed back without the second save.
ReturnOnly(r) ==
    /\ At(r, "finalize", "done")
    /\ UNCHANGED <<known, pack, output, draft, answers, docs, second, odd>>

\* Mutant: the second save does not look for the id of the first.
SaveAgainAsNew(r) ==
    /\ At(r, "finalize", "done")
    /\ \E answer \in {"stored", "refused", "lost"} : Write(r, [draft[r] EXCEPT !.id = <<r, 2>>], answer)
    /\ UNCHANGED <<known, pack, output, draft, second>>

\* _finalize: the document with the run's identity is stored once more, under its id
\* or, when it has none, under a new one; a failure is only noted in it.
Finalize(r) ==
    /\ At(r, "finalize", "done")
    /\ \E answer \in {"stored", "refused", "lost"} :
         Write(r, [draft[r] EXCEPT !.id = IF @ = NoId THEN <<r, 2>> ELSE @], answer)
    /\ UNCHANGED <<known, pack, output, draft, second>>

Step(r) ==
    \/ BuildFacts(r) \/ LoadPolicy(r) \/ Evidence(r) \/ AssessPolicy(r) \/ Plan(r) \/ Compose(r)
    \/ Persist(r) \/ SaveFallback(r) \/ Finalize(r)

Next == \E r \in Runs : Step(r)

\* Every run has a thread, and each of its calls returns or raises.  A step of a run is
\* a change of its pc, which is the cheaper formula to decide.
Steps == {"facts", "policy", "evidence", "assess", "plan", "compose", "persist", "fallback", "finalize", "done"}
Advance(r) == pc[r] # "done" /\ \E next \in Steps \ {pc[r]} : pc' = [pc EXCEPT ![r] = next]

Spec == Init /\ [][Next]_vars /\ \A r \in Runs : WF_pc(Advance(r))

----------------------------------------------------------------------------
\* The numbers of a decision are percentages somebody gave, and its action is one the
\* composer knows (trade_decision_composer.py:637-922, 1119-1200).
DecisionTypeOK ==
    /\ pc \in [Runs -> Steps]
    /\ \A r \in Runs : output[r] # <<>> =>
         output[r].action \in Actions /\ {output[r].target, output[r].max} \subseteq 0..100
    /\ \A r \in Runs : Len(answers[r]) <= 3
    /\ second \in 0..MaxSeconds /\ odd \in 0..MaxOdd

\* Whatever the models proposed, an add is published only on the evidence it needs:
\* enough public data, an account with room, no broken trend or fundamentals, a
\* ratio of 1.5, no objection of the assessment, no maximum reached
\* (trade_decision_risk_gate.py:1-20, 212-459).
AddOnlyOnEvidence == \A r \in Runs : output[r] # <<>> /\ output[r].action \in AddLike => AddHasEvidence(pack[r])

\* Whoever does not hold the symbol is never told to sell or to reduce it, neither by
\* the plan nor by a gate that turns an action into an exit.
NoExitWithoutPosition ==
    \A r \in Runs : output[r] # <<>> /\ ~pack[r].holding => output[r].action \notin ExitLike

\* A run leaves one document, whichever of its three writes failed: a second one only
\* where Elasticsearch stored a document and its answer was lost (runner.py:83-284).
OneDocumentPerRun ==
    \A r \in Runs :
      Cardinality({d \in docs : d.run = r}) > 1 => \E i \in DOMAIN answers[r] : answers[r][i] = "lost"

\* Every run ends, and with a document unless both of the writes that remain after
\* its last success were refused: one refused write never loses it.
EndsStored ==
    \A r \in Runs :
      <>(/\ pc[r] = "done"
         /\ \/ \E d \in docs : d.run = r
            \/ Len(answers[r]) >= 2 /\ \A i \in DOMAIN answers[r] : answers[r][i] = "refused")

\* "Let repository generate id via uuid4" (nodes.py:1386): the document of a run is its
\* own, whatever other runs store.
DecisionKept ==
    \A r \in Runs : pc[r] = "done" /\ "stored" \in {answers[r][i] : i \in DOMAIN answers[r]}
                     => \E d \in docs : d.run = r
=============================================================================
