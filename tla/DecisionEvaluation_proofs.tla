----------------------- MODULE DecisionEvaluation_proofs -----------------------
(***************************************************************************)
(* What holds of the trade decisions, and of the library that evaluates    *)
(* them and the other agents.                                              *)
(*                                                                         *)
(* Decisions: what passes the risk gate, for every card pack and every     *)
(* advice, and what a run of the decision graph therefore publishes.       *)
(*                                                                         *)
(* The library, for any requests side by side, any faults and any number   *)
(* of documents.  First, where a request stands says what it may hold and  *)
(* do (WhereInv, and one lemma of facts for each action).  On that rest:   *)
(* what a save of a case changes (EditInv); what stored runs and reports   *)
(* say of each other (RunInv: two requests never judge the same run); that *)
(* failures are reported once (FeedInv: a request that is not behind knows *)
(* of every failure reported of its run); that conversions are true        *)
(* (LinkInv); that the gate sees advice to go all in (SeeInv).             *)
(***************************************************************************)
EXTENDS TradeDecisionGraph, EvalLibrary, SequenceTheorems, FiniteSetTheorems, TLAPS

\* A check lets an add through only if it was one before and the check's own
\* condition holds: one lemma per group of checks.
LEMMA AccountKeepsEvidence ==
    ASSUME NEW p, NEW v, NEW a, AfterAccount(p, v, a) \in AddLike
    PROVE  /\ a \in AddLike
           /\ Fallbacks(p) < 2
           /\ p.level \notin {"concentrated", "poor"}
           /\ p.ai.evaluated =>
                /\ p.ai.bias \notin {"hold_no_add", "avoid", "prefer_reduce"}
                /\ ~(p.ai.max > 0 /\ v.current >= p.ai.max)
           /\ WeakCatalyst(p) =>
                \/ AISupportsPullback(p)
                \/ p.plan.ratio >= 20 /\ p.market.trend = "none" /\ p.fund.status \in {"green", "yellow"}
<1> DEFINE limited == AfterLimit(p, v, a)
           founded == AfterInvalidation(p, v, limited)
           supplied == AfterData(p, founded)
           driven == AfterCatalyst(p, supplied)
           fitting == AfterFit(p, v, driven)
<1>1. fitting \in AddLike /\ (p.ai.evaluated =>
                /\ p.ai.bias \notin {"hold_no_add", "avoid", "prefer_reduce"}
                /\ ~(p.ai.max > 0 /\ v.current >= p.ai.max))
  BY DEF AfterAccount, AfterAssessment, NoAdd, AddLike
<1>2. driven \in AddLike /\ p.level \notin {"concentrated", "poor"}
  <2> HIDE DEF driven
  <2> QED BY <1>1 DEF AfterFit, AddLike
<1>3. supplied \in AddLike /\ (WeakCatalyst(p) =>
                \/ AISupportsPullback(p)
                \/ p.plan.ratio >= 20 /\ p.market.trend = "none" /\ p.fund.status \in {"green", "yellow"})
  <2> HIDE DEF supplied
  <2> QED BY <1>2 DEF AfterCatalyst, WeakRightSide, WeakPullback, NoAdd, AddLike
<1>4. founded \in AddLike /\ ~(Fallbacks(p) >= 2)
  <2> HIDE DEF founded
  <2> QED BY <1>3 DEF AfterData, NoAdd, AddLike
<1>5. limited \in AddLike
  <2> HIDE DEF limited
  <2> QED BY <1>4 DEF AfterInvalidation, PullbackUnlessHeld, AddLike, StrongAdd
<1>6. a \in AddLike
  BY <1>5 DEF AfterLimit, NoAdd, AddLike
<1>7. Fallbacks(p) < 2
  BY <1>4 DEF Fallbacks, One
<1> QED BY <1>1, <1>2, <1>3, <1>6, <1>7

\* The gate's steps on the thesis: an add that comes out went in.
LEMMA ThesisKeepsEvidence ==
    ASSUME NEW p, NEW v, NEW a, AfterThesis(p, v, a) \in AddLike
    PROVE  a \in AddLike /\ ~(p.thesis.max > 0 /\ v.current >= p.thesis.max)
<1> DEFINE limited == AfterThesisLimit(p, v, a)
           calm == AfterExtreme(p, limited)
           sold == AfterSellTrigger(p, calm)
<1>1. sold \in AddLike
  BY DEF AfterThesis, AfterNoAddTrigger, NoAdd, AddLike
<1>2. calm \in AddLike
  <2> HIDE DEF calm
  <2> QED BY <1>1 DEF AfterSellTrigger, ThesisExit, AddLike
<1>3. limited \in AddLike
  <2> HIDE DEF limited
  <2> QED BY <1>2 DEF AfterExtreme, PullbackUnlessHeld, AddLike, StrongAdd
<1> QED BY <1>3 DEF AfterThesisLimit, AddLike

\* The same of its steps on the fundamentals.
LEMMA FundamentalsKeepEvidence ==
    ASSUME NEW p, NEW a, AfterFundamentals(p, a) \in AddLike
    PROVE  /\ a \in AddLike /\ RatioAllows(p)
           /\ p.fund.status \notin {"red", "orange"} /\ ~p.fund.broken
<1> DEFINE broken == AfterBreak(p, a)
           graded == AfterStatus(p, broken)
           paid == AfterRatio(p, graded)
<1>1. paid \in AddLike
  BY DEF AfterFundamentals, AfterDownside, PullbackUnlessHeld, AddLike, StrongAdd
<1>2. graded \in AddLike /\ RatioAllows(p)
  <2> HIDE DEF graded
  <2> QED BY <1>1 DEF AfterRatio, RatioAllows, NoAdd, AddLike
<1>3. broken \in AddLike /\ p.fund.status # "orange"
  <2> HIDE DEF broken
  <2> QED BY <1>2 DEF AfterStatus, PullbackUnlessHeld, NoAdd, AddLike, StrongAdd
<1>4. a \in AddLike /\ p.fund.status # "red" /\ ~p.fund.broken
  BY <1>3 DEF AfterBreak, FundamentalBreak, ThesisExit, AddLike, HoldLike
<1> QED BY <1>2, <1>3, <1>4

\* The same of the trend.
LEMMA TrendKeepsEvidence ==
    ASSUME NEW p, NEW a, AfterTrend(p, a) \in AddLike
    PROVE  a \in AddLike /\ p.market.trend \notin {"severe", "broken"}
BY DEF AfterTrend, NoAdd, PullbackUnlessHeld, AddLike, StrongAdd

\* An add leaves the gate only if one entered it, and only on the evidence it needs.
THEOREM GateNeedsEvidence ==
    ASSUME NEW p, NEW v, NEW a, v.current = p.current, Gate(p, v, a) \in AddLike
    PROVE  a \in AddLike /\ AddHasEvidence(p)
<1> DEFINE fitting == AfterAccount(p, v, a)
           trending == AfterTrend(p, fitting)
           believed == AfterThesis(p, v, trending)
           founded == AfterFundamentals(p, believed)
<1>1. founded \in AddLike
  <2> HIDE DEF founded
  <2>1. AfterBreakdown(p, founded) \in AddLike
    BY DEF Gate, AddLike, founded
  <2> QED BY <2>1 DEF AfterBreakdown, AddLike
<1>2. believed \in AddLike /\ RatioAllows(p) /\ p.fund.status \notin {"red", "orange"} /\ ~p.fund.broken
  BY <1>1, FundamentalsKeepEvidence
<1>3. trending \in AddLike /\ ~(p.thesis.max > 0 /\ v.current >= p.thesis.max)
  BY <1>2, ThesisKeepsEvidence
<1>4. fitting \in AddLike /\ p.market.trend \notin {"severe", "broken"}
  BY <1>3, TrendKeepsEvidence
<1>5. /\ a \in AddLike
      /\ Fallbacks(p) < 2
      /\ p.level \notin {"concentrated", "poor"}
      /\ p.ai.evaluated =>
           p.ai.bias \notin {"hold_no_add", "avoid", "prefer_reduce"} /\ ~(p.ai.max > 0 /\ v.current >= p.ai.max)
      /\ WeakCatalyst(p) =>
           \/ AISupportsPullback(p)
           \/ p.plan.ratio >= 20 /\ p.market.trend = "none" /\ p.fund.status \in {"green", "yellow"}
  BY <1>4, AccountKeepsEvidence
<1>6. Fallbacks(p) <= 1
  BY <1>5 DEF Fallbacks, One
<1> QED BY <1>2, <1>3, <1>4, <1>5, <1>6 DEF AddHasEvidence, Reached

----------------------------------------------------------------------------
\* Whoever holds nothing is not sent away by the gate.
LEMMA AccountMakesNoExit ==
    ASSUME NEW p, NEW v, NEW a, ~p.holding, a \notin ExitLike
    PROVE  AfterAccount(p, v, a) \notin ExitLike
<1> DEFINE limited == AfterLimit(p, v, a)
           founded == AfterInvalidation(p, v, limited)
           supplied == AfterData(p, founded)
           driven == AfterCatalyst(p, supplied)
           fitting == AfterFit(p, v, driven)
<1>1. limited \notin ExitLike
  BY DEF AfterLimit, NoAdd, ExitLike
<1>2. founded \notin ExitLike
  BY <1>1 DEF AfterInvalidation, PullbackUnlessHeld, ExitLike
<1>3. supplied \notin ExitLike
  <2> HIDE DEF founded
  <2> QED BY <1>2 DEF AfterData, NoAdd, ExitLike
<1>4. driven \notin ExitLike
  <2> HIDE DEF supplied
  <2> QED BY <1>3 DEF AfterCatalyst, NoAdd, ExitLike
<1>5. fitting \notin ExitLike
  <2> HIDE DEF driven
  <2> QED BY <1>4 DEF AfterFit, ExitLike
<1> HIDE DEF fitting
<1>6. AfterAssessment(p, v, fitting) \notin ExitLike
  BY <1>5 DEF AfterAssessment, NoAdd, ExitLike
<1> QED BY <1>6 DEF AfterAccount, fitting

\* The gate's steps on the thesis make no exit for those who hold nothing.
LEMMA ThesisMakesNoExit ==
    ASSUME NEW p, NEW v, NEW a, ~p.holding, a \notin ExitLike
    PROVE  AfterThesis(p, v, a) \notin ExitLike
<1> DEFINE limited == AfterThesisLimit(p, v, a)
           calm == AfterExtreme(p, limited)
           sold == AfterSellTrigger(p, calm)
<1>1. calm \notin ExitLike
  BY DEF AfterExtreme, AfterThesisLimit, PullbackUnlessHeld, ExitLike
<1>2. sold \notin ExitLike
  <2> HIDE DEF calm
  <2> QED BY <1>1 DEF AfterSellTrigger
<1> HIDE DEF sold
<1>3. AfterNoAddTrigger(p, sold) \notin ExitLike
  BY <1>2 DEF AfterNoAddTrigger, NoAdd, ExitLike
<1> QED BY <1>3 DEF AfterThesis, sold

\* Nor do its steps on the fundamentals.
LEMMA FundamentalsMakeNoExit ==
    ASSUME NEW p, NEW a, ~p.holding, a \notin ExitLike
    PROVE  AfterFundamentals(p, a) \notin ExitLike
<1> DEFINE broken == AfterBreak(p, a)
           graded == AfterStatus(p, broken)
           paid == AfterRatio(p, graded)
<1>1. broken \notin ExitLike
  BY DEF AfterBreak, ExitLike
<1>2. graded \notin ExitLike
  <2> HIDE DEF broken
  <2> QED BY <1>1 DEF AfterStatus, PullbackUnlessHeld, NoAdd, ExitLike
<1>3. paid \notin ExitLike
  <2> HIDE DEF graded
  <2> QED BY <1>2 DEF AfterRatio, NoAdd, ExitLike
<1> HIDE DEF paid
<1>4. AfterDownside(p, paid) \notin ExitLike
  BY <1>3 DEF AfterDownside, PullbackUnlessHeld, ExitLike
<1> QED BY <1>4 DEF AfterFundamentals, paid

\* Without a position the gate makes no exit of anything else.
THEOREM GateMakesNoExit ==
    ASSUME NEW p, NEW v, NEW a, ~p.holding, a \notin ExitLike
    PROVE  Gate(p, v, a) \notin ExitLike
<1> DEFINE fitting == AfterAccount(p, v, a)
           trending == AfterTrend(p, fitting)
           believed == AfterThesis(p, v, trending)
           founded == AfterFundamentals(p, believed)
<1>1. fitting \notin ExitLike
  BY AccountMakesNoExit
<1>2. trending \notin ExitLike
  <2> HIDE DEF fitting
  <2> QED BY <1>1 DEF AfterTrend, NoAdd, PullbackUnlessHeld, ExitLike
<1>3. founded \notin ExitLike
  BY <1>2, ThesisMakesNoExit, FundamentalsMakeNoExit
<1> HIDE DEF founded
<1>4. AfterBreakdown(p, founded) = founded
  BY DEF AfterBreakdown
<1> QED BY <1>3, <1>4 DEF Gate, founded, ExitLike

\* The plan of whoever holds nothing is no exit either, whatever the model proposed.
LEMMA PlanMakesNoExit ==
    ASSUME NEW p, NEW w, ~p.holding
    PROVE  PlanCard(p, w).action \notin ExitLike
<1> DEFINE drafted == Calibrated(p, w.stance, Promoted(p, w.stance, ByAssessment(p, Clipped(p, w))))
           c == Grounded(p, w.stance, drafted)
<1> HIDE DEF drafted
<1>1. c.action \notin Reduce \cup Sell /\ Held(p).action = "watchlist"
  BY DEF Grounded, Held, Reduce, Sell
<1> HIDE DEF c
<1>2. Consistent(p, c).action \notin ExitLike
  BY <1>1 DEF Consistent, Reduce, Sell, ExitLike
<1> QED BY <1>2 DEF PlanCard, drafted, c

----------------------------------------------------------------------------
\* The advice the gate sees is about the position that is held.
LEMMA AdviceIsCurrent ==
    ASSUME NEW p, NEW band
    PROVE  Draft(p, band).advice.current = p.current
<1>1. ASSUME NEW a PROVE PositionAdvice(p, a).current = p.current
  BY DEF PositionAdvice
<1>2. ASSUME NEW a PROVE Override(p, a, PositionAdvice(p, a)).current = p.current
  <2> DEFINE v == PositionAdvice(p, a)
  <2>1. v = [current |-> p.current, target |-> v.target, max |-> v.max]
    BY DEF PositionAdvice
  <2> HIDE DEF v
  <2>2. Override(p, a, v).current = p.current
    BY <2>1 DEF Override
  <2> QED BY <2>2 DEF v
<1>3. ASSUME NEW a PROVE Advice(p, a).current = p.current
  BY <1>2 DEF Advice
<1> QED BY <1>3 DEF Draft

\* A published add has its evidence: it went through the gate, whose fail-safe adds nothing.
LEMMA ComposedAddHasEvidence ==
    ASSUME NEW p, NEW band, NEW raises, Published(p, Decision(p, band, raises)).action \in AddLike
    PROVE  AddHasEvidence(p)
<1> DEFINE d == Decision(p, band, raises)
           draft0 == Draft(p, band)
<1>1. d.action \in AddLike
  <2>1. d = [action |-> d.action, draft |-> d.draft, target |-> d.target, max |-> d.max]
    BY DEF Decision
  <2> HIDE DEF d
  <2>2. Published(p, d).action \in AddLike
    BY DEF d
  <2> QED BY <2>1, <2>2 DEF Published, AddLike
<1>2. d.action = IF raises THEN FailSafe(p) ELSE Gate(p, draft0.advice, draft0.action)
  BY DEF Decision
<1>3. FailSafe(p) \notin AddLike
  BY DEF FailSafe, NoAdd, AddLike
<1>4. Gate(p, draft0.advice, draft0.action) \in AddLike
  <2> HIDE DEF d, draft0
  <2> QED BY <1>1, <1>2, <1>3
<1>5. draft0.advice.current = p.current
  BY AdviceIsCurrent
<1> HIDE DEF draft0
<1> QED BY <1>4, <1>5, GateNeedsEvidence

\* Without a holding no exit is published, unless the plan or the scores ask for one.
LEMMA ComposedIsNoExit ==
    ASSUME NEW p, NEW band, NEW raises,
           ~p.holding, p.plan.action \notin ExitLike, band \notin ExitLike
    PROVE  Published(p, Decision(p, band, raises)).action \notin ExitLike
<1> DEFINE d == Decision(p, band, raises)
           draft0 == Draft(p, band)
<1>1. draft0.action \notin ExitLike
  BY DEF Draft, OwnAction, ExitLike
<1>2. FailSafe(p) \notin ExitLike
  BY DEF FailSafe, NoAdd, ExitLike
<1>3. Gate(p, draft0.advice, draft0.action) \notin ExitLike
  BY <1>1, GateMakesNoExit
<1>4. d.action \notin ExitLike
  BY <1>2, <1>3 DEF Decision
<1>5. d = [action |-> d.action, draft |-> d.draft, target |-> d.target, max |-> d.max]
  BY DEF Decision
<1> HIDE DEF d
<1>6. Published(p, d).action \notin ExitLike
  BY <1>4, <1>5 DEF Published, ExitLike
<1> QED BY <1>6 DEF d

----------------------------------------------------------------------------
\* The inductive invariant: a decision is read where it was composed, over the pack it
\* was composed from, and the plan it was made of is no exit without a position.
Domains ==
    /\ DOMAIN pc = Runs /\ DOMAIN output = Runs /\ DOMAIN pack = Runs
    /\ \A r \in Runs : {"holding", "plan"} \subseteq DOMAIN pack[r]
OutputGated(r) ==
    output[r] # <<>> =>
      /\ pc[r] = "persist"
      /\ output[r].action \in AddLike => AddHasEvidence(pack[r])
      /\ ~pack[r].holding => output[r].action \notin ExitLike
PlanGated(r) == pc[r] = "compose" /\ ~pack[r].holding => pack[r].plan.action \notin ExitLike
Gated == Domains /\ \A r \in Runs : OutputGated(r) /\ PlanGated(r)

\* There is no output at first.
LEMMA GatedInit == Init => Gated
BY DEF Init, Gated, Domains, OutputGated, PlanGated, Blank

\* A step of r leaves the other runs alone.
Elsewhere(r) ==
    \A q \in Runs \ {r} : pc'[q] = pc[q] /\ output'[q] = output[q] /\ pack'[q] = pack[q]

\* What a step owes: the run that takes it keeps its promise and leaves the others alone.
LEMMA GatedStep ==
    ASSUME NEW r \in Runs, Gated, Domains', Elsewhere(r), OutputGated(r)', PlanGated(r)'
    PROVE  Gated'
<1>1. ASSUME NEW q \in Runs, q # r PROVE OutputGated(q)' /\ PlanGated(q)'
  BY <1>1 DEF Gated, Elsewhere, OutputGated, PlanGated
<1> QED BY <1>1 DEF Gated

\* The invariant of what is published is inductive.
LEMMA GatedNext == Gated /\ [Next]_vars => Gated'
<1> SUFFICES ASSUME Gated, [Next]_vars PROVE Gated'
  OBVIOUS
<1>1. CASE UNCHANGED vars
  BY <1>1 DEF Gated, Domains, OutputGated, PlanGated, vars
<1>2. ASSUME NEW r \in Runs, Step(r) PROVE Gated'
  <2> USE DEF Gated, Domains, At
  <2>1. CASE BuildFacts(r)
    <3>1. Domains' /\ Elsewhere(r) BY <2>1 DEF BuildFacts, Elsewhere
    <3>2. OutputGated(r)' /\ PlanGated(r)' BY <2>1 DEF BuildFacts, OutputGated, PlanGated
    <3> QED BY <3>1, <3>2, GatedStep
  <2>2. CASE LoadPolicy(r)
    <3>1. Domains' /\ Elsewhere(r) BY <2>2 DEF LoadPolicy, Elsewhere
    <3>2. OutputGated(r)' /\ PlanGated(r)' BY <2>2 DEF LoadPolicy, OutputGated, PlanGated
    <3> QED BY <3>1, <3>2, GatedStep
  <2>3. CASE Evidence(r)
    <3>1. Domains' /\ Elsewhere(r) BY <2>3 DEF Evidence, Elsewhere
    <3>2. OutputGated(r)' /\ PlanGated(r)' BY <2>3 DEF Evidence, OutputGated, PlanGated
    <3> QED BY <3>1, <3>2, GatedStep
  <2>4. CASE AssessPolicy(r)
    <3>1. Domains' /\ Elsewhere(r) BY <2>4 DEF AssessPolicy, Elsewhere
    <3>2. OutputGated(r)' /\ PlanGated(r)' BY <2>4 DEF AssessPolicy, OutputGated, PlanGated
    <3> QED BY <3>1, <3>2, GatedStep
  <2>5. CASE Plan(r)
    <3>1. Domains' /\ Elsewhere(r) BY <2>5 DEF Plan, Elsewhere
    <3>2. PICK card : /\ pack' = [pack EXCEPT ![r].plan = card]
                      /\ ~pack[r].holding => card.action \notin ExitLike
      BY <2>5, PlanMakesNoExit DEF Plan, FallbackPlan, Held, ExitLike
    <3>3. pack'[r].holding = pack[r].holding /\ pack'[r].plan = card
      BY <3>2
    <3>4. OutputGated(r)' /\ PlanGated(r)'
      BY <2>5, <3>2, <3>3 DEF Plan, OutputGated, PlanGated
    <3> QED BY <3>1, <3>4, GatedStep
  <2>6. CASE Compose(r)
    <3>1. Domains' /\ Elsewhere(r) BY <2>6 DEF Compose, Elsewhere
    <3>2. PlanGated(r)' BY <2>6 DEF Compose, PlanGated
    <3>3. OutputGated(r)'
      <4>1. CASE UNCHANGED output
        BY <2>6, <4>1 DEF Compose, OutputGated
      <4>2. ASSUME NEW band \in {"add_batch", "add_small", "watchlist", "avoid"}, NEW raises \in BOOLEAN, NEW now,
                   output' = [output EXCEPT ![r] =
                     [id |-> <<"tdc", now>>, action |-> Published(pack[r], Decision(pack[r], band, raises)).action,
                      target |-> Published(pack[r], Decision(pack[r], band, raises)).target,
                      max |-> Published(pack[r], Decision(pack[r], band, raises)).max]]
            PROVE  OutputGated(r)'
        <5> DEFINE action == Published(pack[r], Decision(pack[r], band, raises)).action
        <5>1. output'[r].action = action /\ pc'[r] = "persist" /\ pack'[r] = pack[r]
          BY <2>6, <4>2 DEF Compose
        <5>2. action \in AddLike => AddHasEvidence(pack[r])
          BY ComposedAddHasEvidence
        <5>3. band \notin ExitLike
          BY <4>2 DEF ExitLike
        <5>4. ~pack[r].holding => action \notin ExitLike
          BY <2>6, <5>3, ComposedIsNoExit DEF Compose, PlanGated
        <5> HIDE DEF action
        <5> QED BY <5>1, <5>2, <5>4 DEF OutputGated
      <4> QED BY <2>6, <4>1, <4>2 DEF Compose
    <3> QED BY <3>1, <3>2, <3>3, GatedStep
  <2>7. CASE Persist(r)
    <3>1. Domains' /\ Elsewhere(r) BY <2>7 DEF Persist, Elsewhere, Blank
    <3>2. OutputGated(r)' /\ PlanGated(r)' BY <2>7 DEF Persist, OutputGated, PlanGated
    <3> QED BY <3>1, <3>2, GatedStep
  <2>8. CASE SaveFallback(r)
    <3>1. Domains' /\ Elsewhere(r) BY <2>8 DEF SaveFallback, Elsewhere
    <3>2. OutputGated(r)' /\ PlanGated(r)' BY <2>8 DEF SaveFallback, OutputGated, PlanGated
    <3> QED BY <3>1, <3>2, GatedStep
  <2>9. CASE Finalize(r)
    <3>1. Domains' /\ Elsewhere(r) BY <2>9 DEF Finalize, Elsewhere
    <3>2. OutputGated(r)' /\ PlanGated(r)' BY <2>9 DEF Finalize, OutputGated, PlanGated
    <3> QED BY <3>1, <3>2, GatedStep
  <2> QED BY <1>2, <2>1, <2>2, <2>3, <2>4, <2>5, <2>6, <2>7, <2>8, <2>9 DEF Step
<1> QED BY <1>1, <1>2 DEF Next

\* Whatever the language models answered, an add that a run is about to store has the
\* evidence it needs.
THEOREM AddsAreFounded == Spec => []AddOnlyOnEvidence
<1>1. Gated => AddOnlyOnEvidence
  BY DEF Gated, OutputGated, AddOnlyOnEvidence
<1> QED BY GatedInit, GatedNext, <1>1, PTL DEF Spec

\* Nobody without a position is told to leave it.
THEOREM ExitsNeedPosition == Spec => []NoExitWithoutPosition
<1>1. Gated => NoExitWithoutPosition
  BY DEF Gated, OutputGated, NoExitWithoutPosition
<1> QED BY GatedInit, GatedNext, <1>1, PTL DEF Spec

----------------------------------------------------------------------------
\* Documents of a run.  While no answer was lost, they all have the id the runner
\* knows, and there is none before it knows one.
Own(r) == {d \in docs : d.run = r}
Lost(r) == \E i \in DOMAIN answers[r] : answers[r][i] = "lost"
Answers == {"stored", "refused", "lost"}

RecordsOK ==
    /\ DOMAIN pc = Runs /\ DOMAIN output = Runs
    /\ DOMAIN draft = Runs
    /\ answers \in [Runs -> Seq(Answers)]
    /\ \A r \in Runs : draft[r] = [id |-> draft[r].id, action |-> draft[r].action]
    /\ \A r \in Runs : output[r] # <<>> => output[r].id # NoId
    /\ \A d, e \in docs : d.id = e.id => d = e
KnowsItsOwn(r) ==
    \/ Lost(r)
    \/ /\ pc[r] \notin {"finalize", "done"} => Own(r) = {}
       /\ pc[r] = "finalize" => \A d \in Own(r) : draft[r].id # NoId /\ d.id = draft[r].id
       /\ \A d, e \in Own(r) : d.id = e.id
Single == RecordsOK /\ \A r \in Runs : KnowsItsOwn(r)

\* Nothing is stored at first.
LEMMA SingleInit == Init => Single
<1> SUFFICES ASSUME Init PROVE Single
  OBVIOUS
<1>1. answers \in [Runs -> Seq(Answers)]
  BY DEF Init
<1> QED BY <1>1 DEF Init, Single, RecordsOK, KnowsItsOwn, Own, Nothing

\* A lost answer stays lost, and an appended one counts.
LEMMA AnswersGrow ==
    ASSUME NEW s \in Seq(Answers), NEW x \in Answers
    PROVE  /\ Append(s, x) \in Seq(Answers)
           /\ (\E i \in DOMAIN s : s[i] = "lost") => \E i \in DOMAIN Append(s, x) : Append(s, x)[i] = "lost"
           /\ x = "lost" => \E i \in DOMAIN Append(s, x) : Append(s, x)[i] = "lost"
<1>1. /\ Append(s, x) \in Seq(Answers)
      /\ DOMAIN s = 1..Len(s) /\ DOMAIN Append(s, x) = 1..(Len(s) + 1) /\ Len(s) \in Nat
      /\ \A i \in 1..Len(s) : Append(s, x)[i] = s[i]
      /\ Append(s, x)[Len(s) + 1] = x
  OBVIOUS
<1> QED BY <1>1

\* What a write does to the documents of the run that writes and of the others.
LEMMA WriteOwn ==
    ASSUME NEW r \in Runs, NEW d, NEW answer \in Answers, Single, Write(r, d, answer)
    PROVE  /\ answers' \in [Runs -> Seq(Answers)]
           /\ \A x, y \in docs' : x.id = y.id => x = y
           /\ \A q \in Runs \ {r} : answers'[q] = answers[q] /\ Own(q)' \subseteq Own(q)
           /\ Lost(r) \/ answer = "lost" => Lost(r)'
           /\ answer = "refused" => Own(r)' = Own(r)
           /\ answer # "refused" => \A x \in Own(r)' : x \in Own(r) \/ x.id = d.id
<1> USE DEF Single, RecordsOK
<1>1. /\ answers' = [answers EXCEPT ![r] = Append(@, answer)]
      /\ docs' = IF answer = "refused" THEN docs
                ELSE {e \in docs : e.id # d.id} \cup {[id |-> d.id, run |-> r, action |-> d.action]}
  BY DEF Write
<1>2. answers[r] \in Seq(Answers)
  OBVIOUS
<1>3. answers' \in [Runs -> Seq(Answers)] /\ answers'[r] = Append(answers[r], answer)
  BY <1>1, <1>2, AnswersGrow
<1>4. \A x, y \in docs' : x.id = y.id => x = y
  BY <1>1
<1>5. \A q \in Runs \ {r} : answers'[q] = answers[q] /\ Own(q)' \subseteq Own(q)
  BY <1>1 DEF Own
<1>6. Lost(r) \/ answer = "lost" => Lost(r)'
  <2>1. /\ (\E i \in DOMAIN answers[r] : answers[r][i] = "lost") \/ answer = "lost"
           => \E i \in DOMAIN Append(answers[r], answer) : Append(answers[r], answer)[i] = "lost"
    BY <1>2, AnswersGrow
  <2> QED BY <1>3, <2>1 DEF Lost
<1>7. answer = "refused" => Own(r)' = Own(r)
  BY <1>1 DEF Own
<1>8. answer # "refused" => \A x \in Own(r)' : x \in Own(r) \/ x.id = d.id
  BY <1>1 DEF Own
<1> QED BY <1>3, <1>4, <1>5, <1>6, <1>7, <1>8

\* The invariant of what a run has written is inductive.
LEMMA SingleNext == Single /\ [Next]_vars => Single'
<1> SUFFICES ASSUME Single, [Next]_vars PROVE Single'
  OBVIOUS
<1>1. CASE UNCHANGED vars
  BY <1>1 DEF Single, RecordsOK, KnowsItsOwn, Own, Lost, vars
<1>2. ASSUME NEW r \in Runs, Step(r) PROVE Single'
  <2> USE DEF Single, RecordsOK, At
  <2>1. ASSUME BuildFacts(r) \/ LoadPolicy(r) \/ Evidence(r) \/ AssessPolicy(r) \/ Plan(r) PROVE Single'
    <3>1. /\ UNCHANGED <<output, draft, answers, docs>>
          /\ pc[r] \notin {"finalize", "done"} /\ DOMAIN pc' = Runs /\ pc'[r] \notin {"finalize", "done"}
          /\ \A q \in Runs \ {r} : pc'[q] = pc[q]
      BY <2>1 DEF BuildFacts, LoadPolicy, Evidence, AssessPolicy, Plan
    <3> QED BY <3>1 DEF KnowsItsOwn, Own, Lost
  <2>2. CASE Compose(r)
    <3>1. /\ UNCHANGED <<draft, answers, docs>>
          /\ pc[r] \notin {"finalize", "done"} /\ DOMAIN pc' = Runs /\ pc'[r] \notin {"finalize", "done"}
          /\ \A q \in Runs \ {r} : pc'[q] = pc[q]
      BY <2>2 DEF Compose
    <3>2. DOMAIN output' = Runs /\ \A q \in Runs : output'[q] # <<>> => output'[q].id # NoId
      <4>1. CASE UNCHANGED output
        BY <4>1
      <4>2. ASSUME NEW now, NEW x, output' = [output EXCEPT ![r] = x], x.id = <<"tdc", now>>
            PROVE  DOMAIN output' = Runs /\ \A q \in Runs : output'[q] # <<>> => output'[q].id # NoId
        <5>1. <<"tdc", now>> # NoId
          BY DEF NoId
        <5> QED BY <4>2, <5>1
      <4>3. UNCHANGED output \/ \E now, x : output' = [output EXCEPT ![r] = x] /\ x.id = <<"tdc", now>>
        BY <2>2 DEF Compose
      <4> QED BY <4>1, <4>2, <4>3
    <3> QED BY <3>1, <3>2 DEF KnowsItsOwn, Own, Lost
  <2>3. CASE Persist(r)
    <3>1. /\ pc[r] = "persist" /\ DOMAIN pc' = Runs /\ \A q \in Runs \ {r} : pc'[q] = pc[q]
          /\ DOMAIN output' = Runs /\ \A q \in Runs : output'[q] # <<>> => output'[q].id # NoId
      BY <2>3 DEF Persist
    <3>2. CASE output[r] = <<>> /\ pc'[r] = "fallback" /\ UNCHANGED <<draft, answers, docs>>
      BY <3>1, <3>2 DEF KnowsItsOwn, Own, Lost
    <3>3. ASSUME NEW answer \in Answers, NEW d, output[r] # <<>>,
                 d = [id |-> output[r].id, action |-> output[r].action], Write(r, d, answer),
                 pc'[r] = (IF answer = "stored" THEN "finalize" ELSE "fallback"),
                 draft' = [draft EXCEPT ![r] = IF answer = "stored" THEN d ELSE @]
          PROVE  Single'
      <4>1. d.id # NoId /\ d = [id |-> d.id, action |-> d.action]
        BY <3>3
      <4>2. DOMAIN draft' = Runs /\ \A q \in Runs : draft'[q] = [id |-> draft'[q].id, action |-> draft'[q].action]
        BY <3>3, <4>1
      <4>3. RecordsOK'
        BY <3>1, <3>3, <4>2, WriteOwn
      <4>0. /\ Lost(r) \/ answer = "lost" => Lost(r)'
            /\ answer = "refused" => Own(r)' = Own(r)
            /\ answer # "refused" => \A x \in Own(r)' : x \in Own(r) \/ x.id = d.id
        BY <3>3, WriteOwn
      <4>4. KnowsItsOwn(r)'
        <5>1. CASE Lost(r) \/ answer = "lost"
          BY <4>0, <5>1 DEF KnowsItsOwn
        <5>2. CASE ~Lost(r) /\ answer = "refused"
          BY <3>1, <3>3, <4>0, <5>2 DEF KnowsItsOwn
        <5>3. CASE ~Lost(r) /\ answer = "stored"
          <6>1. Own(r) = {}
            BY <3>1, <5>3 DEF KnowsItsOwn
          <6>2. \A x \in Own(r)' : x.id = d.id
            BY <4>0, <5>3, <6>1
          <6>3. draft'[r].id = d.id
            BY <3>3, <5>3
          <6> QED BY <3>3, <4>1, <5>3, <6>2, <6>3 DEF KnowsItsOwn
        <5> QED BY <5>1, <5>2, <5>3, <3>3 DEF Answers
      <4>5. \A q \in Runs \ {r} : KnowsItsOwn(q)'
        <5>1. \A q \in Runs \ {r} : answers'[q] = answers[q] /\ Own(q)' \subseteq Own(q) /\ draft'[q] = draft[q]
          BY <3>3, WriteOwn
        <5> QED BY <3>1, <5>1 DEF KnowsItsOwn, Lost
      <4> QED BY <4>3, <4>4, <4>5
    <3> QED BY <2>3, <3>2, <3>3 DEF Persist, Answers
  <2>4. CASE SaveFallback(r)
    <3>1. /\ pc[r] = "fallback" /\ DOMAIN pc' = Runs /\ pc'[r] = "finalize" /\ \A q \in Runs \ {r} : pc'[q] = pc[q]
          /\ UNCHANGED output
      BY <2>4 DEF SaveFallback
    <3>2. PICK answer \in Answers : \E d : /\ d = [id |-> <<r, 1>>, action |-> "watchlist"]
                                         /\ Write(r, d, answer)
                                         /\ draft' = [draft EXCEPT ![r] = IF answer = "stored" THEN d ELSE Nothing]
      BY <2>4 DEF SaveFallback, Answers
    <3>3. PICK d : /\ d = [id |-> <<r, 1>>, action |-> "watchlist"]
                   /\ Write(r, d, answer)
                   /\ draft' = [draft EXCEPT ![r] = IF answer = "stored" THEN d ELSE Nothing]
      BY <3>2
    <3>4. d.id # NoId /\ d = [id |-> d.id, action |-> d.action]
      BY <3>3 DEF NoId
    <3>5. DOMAIN draft' = Runs /\ \A q \in Runs : draft'[q] = [id |-> draft'[q].id, action |-> draft'[q].action]
      BY <3>3, <3>4 DEF Nothing
    <3>6. RecordsOK'
      BY <3>1, <3>3, <3>5, WriteOwn
    <3>0. /\ Lost(r) \/ answer = "lost" => Lost(r)'
          /\ answer = "refused" => Own(r)' = Own(r)
          /\ answer # "refused" => \A x \in Own(r)' : x \in Own(r) \/ x.id = d.id
      BY <3>3, WriteOwn
    <3>7. KnowsItsOwn(r)'
      <4>1. CASE Lost(r) \/ answer = "lost"
        BY <3>0, <4>1 DEF KnowsItsOwn
      <4>2. CASE ~Lost(r) /\ answer = "refused"
        <5>1. Own(r) = {}
          BY <3>1, <4>2 DEF KnowsItsOwn
        <5>2. Own(r)' = {}
          BY <3>0, <4>2, <5>1
        <5> QED BY <3>1, <5>2 DEF KnowsItsOwn
      <4>3. CASE ~Lost(r) /\ answer = "stored"
        <5>1. \A x \in Own(r)' : x.id = d.id
          BY <3>1, <3>0, <4>3 DEF KnowsItsOwn
        <5>2. draft'[r].id = d.id
          BY <3>3, <4>3
        <5> QED BY <3>1, <3>4, <5>1, <5>2 DEF KnowsItsOwn
      <4> QED BY <4>1, <4>2, <4>3 DEF Answers
    <3>8. \A q \in Runs \ {r} : KnowsItsOwn(q)'
      <4> SUFFICES ASSUME NEW q \in Runs \ {r} PROVE KnowsItsOwn(q)'
        OBVIOUS
      <4>1. answers'[q] = answers[q] /\ Own(q)' \subseteq Own(q)
        BY <3>3, WriteOwn
      <4>2. draft'[q] = draft[q] /\ output'[q] = output[q] /\ pc'[q] = pc[q]
        BY <3>1, <3>3
      <4>3. Lost(q)' = Lost(q) /\ KnowsItsOwn(q)
        BY <4>1 DEF Lost
      <4> QED BY <4>1, <4>2, <4>3 DEF KnowsItsOwn
    <3> QED BY <3>6, <3>7, <3>8
  <2>5. CASE Finalize(r)
    <3>1. /\ pc[r] = "finalize" /\ DOMAIN pc' = Runs /\ pc'[r] = "done" /\ \A q \in Runs \ {r} : pc'[q] = pc[q]
          /\ UNCHANGED <<output, draft>>
      BY <2>5 DEF Finalize
    <3> DEFINE d == [draft[r] EXCEPT !.id = IF @ = NoId THEN <<r, 2>> ELSE @]
    <3>2. PICK answer \in Answers : Write(r, d, answer)
      BY <2>5 DEF Finalize, Answers
    <3>3. draft[r].id # NoId => d.id = draft[r].id
      OBVIOUS
    <3> HIDE DEF d
    <3>4. RecordsOK'
      BY <3>1, <3>2, WriteOwn
    <3>0. /\ Lost(r) \/ answer = "lost" => Lost(r)'
          /\ answer = "refused" => Own(r)' = Own(r)
          /\ answer # "refused" => \A x \in Own(r)' : x \in Own(r) \/ x.id = d.id
      BY <3>2, WriteOwn
    <3>5. KnowsItsOwn(r)'
      <4>1. CASE Lost(r) \/ answer = "lost"
        BY <3>0, <4>1 DEF KnowsItsOwn
      <4>2. CASE ~Lost(r) /\ answer = "refused"
        BY <3>1, <3>0, <4>2 DEF KnowsItsOwn
      <4>3. CASE ~Lost(r) /\ answer = "stored"
        <5>1. \A x \in Own(r) : x.id = d.id
          BY <3>1, <3>3, <4>3 DEF KnowsItsOwn
        <5>2. \A x \in Own(r)' : x.id = d.id
          BY <3>0, <4>3, <5>1
        <5> QED BY <3>1, <5>2 DEF KnowsItsOwn
      <4> QED BY <4>1, <4>2, <4>3 DEF Answers
    <3>6. \A q \in Runs \ {r} : KnowsItsOwn(q)'
      <4>1. \A q \in Runs \ {r} : answers'[q] = answers[q] /\ Own(q)' \subseteq Own(q)
        BY <3>2, WriteOwn
      <4> QED BY <3>1, <4>1 DEF KnowsItsOwn, Lost
    <3> QED BY <3>4, <3>5, <3>6
  <2> QED BY <1>2, <2>1, <2>2, <2>3, <2>4, <2>5 DEF Step
<1> QED BY <1>1, <1>2 DEF Next

\* A run leaves a second document only where the answer to a write was lost.
THEOREM RunsLeaveOneDocument == Spec => []OneDocumentPerRun
<1>1. ASSUME Single PROVE OneDocumentPerRun
  <2> SUFFICES ASSUME NEW r \in Runs, ~Lost(r) PROVE ~(Cardinality(Own(r)) > 1)
    BY DEF OneDocumentPerRun, Own, Lost
  <2>1. \A d, e \in Own(r) : d = e
    BY <1>1 DEF Single, RecordsOK, KnowsItsOwn, Own
  <2>2. Own(r) = {} \/ \E d : Own(r) = {d}
    BY <2>1
  <2> QED BY <2>2, FS_EmptySet, FS_Singleton
<1> QED BY SingleInit, SingleNext, <1>1, PTL DEF Spec

---------------------------------------------------------------------------
(* The library of the evaluation: where its requests stand *)

Fields == {"op", "at", "todo", "key", "doc", "stale", "results", "run", "plan", "done"}
CaseFields == DOMAIN EmptyCase("")

\* Where a request stands says what was asked.
OpFits(at, op) ==
  /\ at = "idle"          => op = "idle"
  /\ at \in {"read_case", "save_case"} => op \in {"update", "archive", "unarchive", "bulk", "clone", "seed"}
  /\ at = "create"        => op \in {"create", "from_replay", "from_trace"}
  /\ at = "list"          => op = "run"
  /\ at = "evaluate"      => op \in {"run", "regression", "gate"}
  /\ at \in {"select", "select_nodes", "patch", "compare"} => op \in {"regression", "gate"}
  /\ at \in {"analyze", "report"} => op = "gate"
  /\ at = "read_feedback" => op \in {"note", "convert"}
  /\ at = "save_feedback" => op \in {"note", "complain"}
  /\ at \in {"convert", "mark"} => op = "convert"
  /\ at \in {"read_run", "save_failure"} => op = "from_failures"
  /\ at \in {"read_profile", "save_profile"} => op \in {"upsert", "disable"}

Where(q) ==
  /\ DOMAIN q = Fields
  /\ q.at # "idle" => q.op \in Menu
  /\ OpFits(q.at, q.op.op)
  /\ q.op.op = "seed" => q.todo \in Seq(DOMAIN BuiltinCase) \ {<<>>}

WhereInv == req = [r \in Requesters |-> req[r]] /\ \A r \in Requesters : Where(req[r])

\* What becomes of a request when another one writes a document.
Follows(new, old, key) ==
  /\ DOMAIN new = Fields
  /\ \A x \in Fields \ {"stale"} : new[x] = old[x]
  /\ ~new.stale => ~old.stale /\ old.key # key

---------------------------------------------------------------------------
LEMMA IdleFacts ==
  /\ DOMAIN Idle = Fields /\ Idle.op.op = "idle" /\ Idle.at = "idle" /\ Idle.doc = NoDocument
  /\ Idle.results = {} /\ Idle.done = {} /\ Idle.stale = FALSE /\ Idle.run = "none" /\ Idle.todo = <<>>
  /\ Where(Idle)
BY DEF Idle, Fields, Where, OpFits

\* A call that raises ends the request, or the run of one agent of a gate.
LEMMA RaisedFacts ==
  ASSUME WhereInv, NEW r \in Requesters
  PROVE  \/ Raised(r) = Idle
         \/ /\ req[r].op.op = "gate"
            /\ DOMAIN Raised(r) = Fields
            /\ Raised(r).op = req[r].op /\ Raised(r).at \in {"report", "select"}
            /\ Raised(r).results = {} /\ Raised(r).run = "none" /\ Raised(r).todo = <<>>
            /\ Raised(r).key = req[r].key /\ Raised(r).doc = req[r].doc
            /\ \E a : Raised(r).done = req[r].done \cup {[agent |-> a, run |-> "none", passed |-> FALSE, error |-> TRUE]}
<1> DEFINE q == req[r]
<1>1. DOMAIN q = Fields
  BY DEF WhereInv, Where
<1>2. CASE ~InGateRun(r)
  BY <1>2 DEF Raised
<1>3. CASE InGateRun(r)
  <2>1. q.op.op = "gate"
    BY <1>3 DEF InGateRun
  <2>2. Raised(r) = [q EXCEPT
              !.done = @ \cup {[agent |-> Head(q.plan).agent, run |-> "none", passed |-> FALSE, error |-> TRUE]},
              !.plan = Tail(q.plan), !.results = {}, !.run = "none", !.todo = <<>>,
              !.at = IF Tail(q.plan) = <<>> THEN "report" ELSE "select"]
    BY <1>3, <2>1 DEF Raised, Answered
  <2> HIDE DEF q
  <2> QED
    BY <1>1, <2>1, <2>2 DEF Fields, q
<1> QED
  BY <1>2, <1>3

LEMMA RaisedWhere ==
  ASSUME WhereInv, NEW r \in Requesters
  PROVE  Where(Raised(r))
<1>1. Where(req[r])
  BY DEF WhereInv
<1>2. CASE Raised(r) = Idle
  BY <1>2, IdleFacts
<1>3. CASE /\ req[r].op.op = "gate" /\ DOMAIN Raised(r) = Fields
           /\ Raised(r).op = req[r].op /\ Raised(r).at \in {"report", "select"}
  <2>1. req[r].op \in Menu
    <3>1. req[r].at # "idle"
      BY <1>1, <1>3 DEF Where, OpFits
    <3> QED
      BY <1>1, <3>1 DEF Where
  <2> QED
    BY <1>1, <1>3, <2>1 DEF Where, OpFits
<1> QED
  BY <1>2, <1>3, RaisedFacts

LEMMA OthersFollow ==
  ASSUME NEW old, DOMAIN old = Fields, NEW key
  PROVE  Follows([old EXCEPT !.stale = @ \/ old.key = key], old, key)
BY DEF Follows, Fields

LEMMA FollowsWhere ==
  ASSUME NEW new, NEW old, NEW key, Follows(new, old, key), Where(old)
  PROVE  Where(new)
BY DEF Follows, Where, OpFits, Fields

\* A step that does not write changes the requester only.
LEMMA GoesFacts ==
  ASSUME WhereInv, NEW r \in Requesters, NEW next, Goes(r, next)
  PROVE  /\ req' = [q \in Requesters |-> req'[q]] /\ req'[r] = next
         /\ \A q \in Requesters \ {r} : req'[q] = req[q]
BY DEF WhereInv, Goes

LEMMA WritesFacts ==
  ASSUME WhereInv, NEW r \in Requesters, NEW next, NEW key, Writes(r, key, next)
  PROVE  /\ req' = [q \in Requesters |-> req'[q]]
         /\ req'[r] = next \/ req'[r] = Raised(r)
         /\ \A q \in Requesters \ {r} : Follows(req'[q], req[q], key)
<1>1. PICK lost : req' = [q \in Requesters |->
                     IF q = r THEN IF lost THEN Raised(r) ELSE next
                     ELSE [req[q] EXCEPT !.stale = @ \/ req[q].key = key]]
  BY DEF Writes
<1>2. ASSUME NEW q \in Requesters \ {r} PROVE Follows(req'[q], req[q], key)
  <2>1. DOMAIN req[q] = Fields
    BY DEF WhereInv, Where
  <2>2. req'[q] = [req[q] EXCEPT !.stale = @ \/ req[q].key = key]
    BY <1>1
  <2> QED
    BY <2>1, <2>2, OthersFollow
<1> QED
  BY <1>1, <1>2

LEMMA OnwardFacts ==
  ASSUME WhereInv, NEW r \in Requesters, req[r].at \in {"read_case", "save_case"}
  PROVE  /\ Where(Onward(r))
         /\ \/ Onward(r) = Idle
            \/ /\ Onward(r).at = "read_case" /\ Onward(r).op = req[r].op
               /\ Onward(r).results = req[r].results /\ Onward(r).done = req[r].done
               /\ Onward(r).doc = NoDocument
<1> DEFINE q == req[r]
<1>1. Where(q)
  BY DEF WhereInv
<1>2. CASE Tail(q.todo) = <<>>
  BY <1>2, IdleFacts DEF Onward
<1>3. CASE Tail(q.todo) # <<>>
  <2>1. Onward(r) = [q EXCEPT !.todo = Tail(q.todo), !.at = "read_case", !.doc = NoDocument,
                             !.key = <<"none", "none">>, !.stale = FALSE]
    BY <1>3 DEF Onward
  <2>2. q.op.op = "seed" => Tail(q.todo) \in Seq(DOMAIN BuiltinCase) \ {<<>>}
    BY <1>1, <1>3, HeadTailProperties DEF Where
  <2>3. q.at \in {"read_case", "save_case"}
    OBVIOUS
  <2> HIDE DEF q
  <2>4. /\ DOMAIN Onward(r) = Fields /\ Onward(r).op = q.op /\ Onward(r).at = "read_case"
        /\ Onward(r).todo = Tail(q.todo) /\ Onward(r).doc = NoDocument
        /\ Onward(r).results = q.results /\ Onward(r).done = q.done
    BY <1>1, <2>1 DEF Where, Fields
  <2>5. Where(Onward(r))
    BY <1>1, <2>2, <2>3, <2>4 DEF Where, OpFits
  <2> QED
    BY <2>4, <2>5 DEF q
<1> QED
  BY <1>2, <1>3

LEMMA AnsweredFacts ==
  ASSUME WhereInv, NEW r \in Requesters, NEW passed, req[r].at # "idle"
  PROVE  \/ Answered(r, passed, FALSE) = Idle
         \/ /\ req[r].op.op = "gate" /\ Where(Answered(r, passed, FALSE))
            /\ Answered(r, passed, FALSE).op = req[r].op
            /\ Answered(r, passed, FALSE).at \in {"report", "select"}
            /\ Answered(r, passed, FALSE).results = {} /\ Answered(r, passed, FALSE).doc = req[r].doc
            /\ \E a : Answered(r, passed, FALSE).done
                        = req[r].done \cup {[agent |-> a, run |-> req[r].run, passed |-> passed, error |-> FALSE]}
<1> DEFINE q == req[r]
           n == Answered(r, passed, FALSE)
<1>1. Where(q)
  BY DEF WhereInv
<1>2. CASE q.op.op # "gate"
  BY <1>2 DEF Answered
<1>3. CASE q.op.op = "gate"
  <2>1. n = [q EXCEPT
              !.done = @ \cup {[agent |-> Head(q.plan).agent, run |-> q.run, passed |-> passed, error |-> FALSE]},
              !.plan = Tail(q.plan), !.results = {}, !.run = "none", !.todo = <<>>,
              !.at = IF Tail(q.plan) = <<>> THEN "report" ELSE "select"]
    BY <1>3 DEF Answered
  <2>2. q.at # "idle"
    OBVIOUS
  <2> HIDE DEF q, n
  <2>3. /\ DOMAIN n = Fields /\ n.op = q.op /\ n.at \in {"report", "select"} /\ n.results = {} /\ n.doc = q.doc
        /\ n.done = q.done \cup {[agent |-> Head(q.plan).agent, run |-> q.run, passed |-> passed, error |-> FALSE]}
    BY <1>1, <2>1 DEF Where, Fields
  <2>4. Where(n)
    BY <1>1, <1>3, <2>2, <2>3 DEF Where, OpFits
  <2> QED
    BY <1>3, <2>3, <2>4 DEF q, n
<1> QED
  BY <1>2, <1>3

\* A request goes where its operation leads.
LEMMA MovesWhere ==
  ASSUME NEW q, Where(q), q.at # "idle", NEW n, DOMAIN n = Fields, n.op = q.op, n.at # "idle",
         OpFits(n.at, q.op.op), q.op.op # "seed" \/ n.todo = q.todo
  PROVE  Where(n)
BY DEF Where, OpFits

LEMMA BeginWhere ==
  ASSUME WhereInv, NEW r \in Requesters, Begin(r)
  PROVE  Where(req'[r])
<1>1. PICK op \in Menu :
        Goes(r, [Idle EXCEPT !.op = op, !.at = FirstStep(op),
                             !.todo = IF "todo" \in DOMAIN op THEN op.todo ELSE <<>>])
  BY DEF Begin
<1> DEFINE n == [Idle EXCEPT !.op = op, !.at = FirstStep(op),
                             !.todo = IF "todo" \in DOMAIN op THEN op.todo ELSE <<>>]
<1>2. req'[r] = n
  BY <1>1, GoesFacts
<1>3. DOMAIN n = Fields /\ n.op = op /\ n.at = FirstStep(op)
  BY DEF Idle, Fields
<1>4. Request(op)
  BY LibraryAssumption
<1>5. FirstStep(op) # "idle" /\ OpFits(FirstStep(op), op.op)
  BY <1>4 DEF Request, FirstStep, OpFits
<1>6. op.op = "seed" => n.todo \in Seq(DOMAIN BuiltinCase) \ {<<>>}
  <2> SUFFICES ASSUME op.op = "seed" PROVE op.todo \in Seq(DOMAIN BuiltinCase) \ {<<>>} /\ n.todo = op.todo
    OBVIOUS
  <2>1. op.todo \in Seq(DOMAIN BuiltinCase) \ {<<>>}
    BY <1>4 DEF Request
  <2>2. "todo" \in DOMAIN op
    BY <1>4 DEF Request
  <2> QED
    BY <2>1, <2>2 DEF Idle
<1> HIDE DEF n
<1> QED
  BY <1>2, <1>3, <1>5, <1>6 DEF Where

\* Only these fields of a request have changed.
Changed(n, q, S) == DOMAIN n = Fields /\ \A x \in Fields \ S : n[x] = q[x]

LEMMA ReadCaseFacts ==
  ASSUME WhereInv, NEW r \in Requesters, ReadCase(r)
  PROVE  /\ UNCHANGED store
         /\ \A q \in Requesters \ {r} : req'[q] = req[q]
         /\ Where(req'[r])
         /\ \/ req'[r] = Onward(r)
            \/ /\ ~Skips(r, Head(req[r].todo))
               /\ Changed(req'[r], req[r], {"key", "stale", "at", "doc"})
               /\ req'[r].at = "save_case" /\ req'[r].stale = FALSE
               /\ req'[r].key = <<"case", Head(req[r].todo)>>
               /\ req'[r].doc = IF req[r].op.op = "seed" THEN BuiltinCase[Head(req[r].todo)]
                                                         ELSE get_case(Head(req[r].todo))
<1> DEFINE q == req[r]
           id == Head(q.todo)
           n == [q EXCEPT !.key = <<"case", id>>, !.stale = FALSE, !.at = "save_case",
                          !.doc = IF q.op.op = "seed" THEN BuiltinCase[id] ELSE get_case(id)]
<1>1. Where(q) /\ q.at = "read_case"
  BY DEF WhereInv, ReadCase, Stands
<1>2. Goes(r, IF Skips(r, id) THEN Onward(r) ELSE n) /\ UNCHANGED store
  BY DEF ReadCase, Reads
<1>3. /\ req'[r] = IF Skips(r, id) THEN Onward(r) ELSE n
      /\ \A p \in Requesters \ {r} : req'[p] = req[p]
  BY <1>2, GoesFacts
<1>4. CASE Skips(r, id)
  BY <1>1, <1>2, <1>3, <1>4, OnwardFacts
<1>5. CASE ~Skips(r, id)
  <2>1. Changed(n, q, {"key", "stale", "at", "doc"}) /\ n.at = "save_case" /\ n.stale = FALSE /\ n.key = <<"case", id>>
        /\ n.doc = IF q.op.op = "seed" THEN BuiltinCase[id] ELSE get_case(id)
    <3> HIDE DEF q, id
    <3> QED
      BY <1>1 DEF Where, Fields, Changed
  <2>2. req'[r] = n
    BY <1>3, <1>5
  <2> HIDE DEF n, q
  <2>3. Where(n)
    <3>1. DOMAIN n = Fields /\ n.op = q.op /\ n.todo = q.todo
      BY <2>1 DEF Changed, Fields
    <3>2. OpFits(n.at, q.op.op)
      BY <1>1, <2>1 DEF Where, OpFits
    <3> QED
      BY <1>1, <2>1, <3>1, <3>2, MovesWhere
  <2> QED
    BY <1>2, <1>3, <1>5, <2>1, <2>2, <2>3 DEF q
<1> QED
  BY <1>4, <1>5

LEMMA ListCasesFacts ==
  ASSUME WhereInv, NEW r \in Requesters, ListCases(r)
  PROVE  /\ UNCHANGED store
         /\ \A q \in Requesters \ {r} : req'[q] = req[q]
         /\ Where(req'[r]) /\ req[r].op.op = "run"
         /\ Changed(req'[r], req[r], {"todo", "at", "doc"})
         /\ req'[r].at = "evaluate"
<1> DEFINE q == req[r]
<1>1. Where(q) /\ q.at = "list"
  BY DEF WhereInv, ListCases, Stands
<1>2. PICK todo, doc : Goes(r, [q EXCEPT !.todo = todo, !.at = "evaluate", !.doc = doc]) /\ UNCHANGED store
  BY DEF ListCases, Reads
<1> DEFINE n == [q EXCEPT !.todo = todo, !.at = "evaluate", !.doc = doc]
<1>3. /\ req'[r] = n
      /\ \A p \in Requesters \ {r} : req'[p] = req[p]
  BY <1>2, GoesFacts
<1>4. Changed(n, q, {"todo", "at", "doc"}) /\ n.at = "evaluate"
  <2> HIDE DEF q
  <2> QED
    BY <1>1 DEF Where, Fields, Changed
<1>5. q.op.op = "run"
  BY <1>1 DEF Where, OpFits
<1> HIDE DEF n, q
<1>6. Where(n)
  <2>1. DOMAIN n = Fields /\ n.op = q.op
    BY <1>4 DEF Changed, Fields
  <2>2. OpFits(n.at, q.op.op)
    BY <1>1, <1>4, <1>5 DEF OpFits
  <2> QED
    BY <1>1, <1>4, <1>5, <2>1, <2>2, MovesWhere
<1> QED
  BY <1>2, <1>3, <1>4, <1>5, <1>6 DEF q

LEMMA EvaluateFacts ==
  ASSUME WhereInv, NEW r \in Requesters, Evaluate(r)
  PROVE  /\ UNCHANGED store
         /\ \A q \in Requesters \ {r} : req'[q] = req[q]
         /\ Where(req'[r])
         /\ Changed(req'[r], req[r], {"todo", "results"})
         /\ req[r].at = "evaluate"
         /\ \E result \in Possible(r, Head(req[r].todo)) :
               req'[r].results = req[r].results \cup {result}
<1> DEFINE q == req[r]
<1>1. Where(q) /\ q.at = "evaluate"
  BY DEF WhereInv, Evaluate, Stands
<1>2. PICK result \in Possible(r, Head(req[r].todo)) :
        Goes(r, [q EXCEPT !.results = @ \cup {result}, !.todo = Tail(@)]) /\ UNCHANGED store
  BY DEF Evaluate, Reads
<1> DEFINE n == [q EXCEPT !.results = @ \cup {result}, !.todo = Tail(@)]
<1>3. /\ req'[r] = n
      /\ \A p \in Requesters \ {r} : req'[p] = req[p]
  BY <1>2, GoesFacts
<1>4. Changed(n, q, {"todo", "results"}) /\ n.results = q.results \cup {result}
  <2> HIDE DEF q
  <2> QED
    BY <1>1 DEF Where, Fields, Changed
<1>5. q.op.op # "seed"
  BY <1>1 DEF Where, OpFits
<1> HIDE DEF n, q
<1>6. Where(n)
  <2>1. DOMAIN n = Fields /\ n.op = q.op /\ n.at = q.at
    BY <1>4 DEF Changed, Fields
  <2>2. OpFits(n.at, q.op.op)
    BY <1>1, <2>1 DEF Where
  <2> QED
    BY <1>1, <1>4, <1>5, <2>1, <2>2, MovesWhere
<1> QED
  BY <1>1, <1>2, <1>3, <1>4, <1>6 DEF q

LEMMA ChosenFacts ==
  ASSUME WhereInv, NEW r \in Requesters, NEW ids, req[r].at \in {"select", "select_nodes"}
  PROVE  /\ Where(Chosen(r, ids))
         /\ \/ Chosen(r, ids) = Raised(r)
            \/ Changed(Chosen(r, ids), req[r], {"todo", "at"}) /\ Chosen(r, ids).at = "evaluate"
<1> DEFINE q == req[r]
           n == [q EXCEPT !.todo = SetToSeq(ids), !.at = "evaluate"]
<1>1. Where(q) /\ q.at \in {"select", "select_nodes"}
  BY DEF WhereInv
<1>2. CASE ids = {}
  BY <1>2, RaisedWhere DEF Chosen
<1>3. CASE ids # {}
  <2>1. Chosen(r, ids) = n
    BY <1>3 DEF Chosen
  <2>2. Changed(n, q, {"todo", "at"}) /\ n.at = "evaluate"
    <3> HIDE DEF q
    <3> QED
      BY <1>1 DEF Where, Fields, Changed
  <2> HIDE DEF n, q
  <2>3. q.op.op \in {"regression", "gate"}
    BY <1>1 DEF Where, OpFits
  <2>4. Where(n)
    <3>1. DOMAIN n = Fields /\ n.op = q.op
      BY <2>2 DEF Changed, Fields
    <3>2. OpFits(n.at, q.op.op)
      BY <2>2, <2>3 DEF OpFits
    <3> QED
      BY <1>1, <2>2, <2>3, <3>1, <3>2, MovesWhere
  <2> QED
    BY <2>1, <2>2, <2>4 DEF q
<1> QED
  BY <1>2, <1>3

LEMMA SelectFacts ==
  ASSUME WhereInv, NEW r \in Requesters, SelectCases(r) \/ SelectNodeCases(r)
  PROVE  /\ UNCHANGED store
         /\ \A q \in Requesters \ {r} : req'[q] = req[q]
         /\ Where(req'[r])
         /\ \/ req'[r] = Raised(r)
            \/ Changed(req'[r], req[r], {"todo", "at"}) /\ req'[r].at \in {"evaluate", "select_nodes"}
<1> DEFINE q == req[r]
<1>1. Where(q)
  BY DEF WhereInv
<1>2. ASSUME NEW ids, Goes(r, Chosen(r, ids)), UNCHANGED store, q.at \in {"select", "select_nodes"}
      PROVE  /\ UNCHANGED store
             /\ \A p \in Requesters \ {r} : req'[p] = req[p]
             /\ Where(req'[r])
             /\ \/ req'[r] = Raised(r)
                \/ Changed(req'[r], req[r], {"todo", "at"}) /\ req'[r].at \in {"evaluate", "select_nodes"}
  BY <1>2, GoesFacts, ChosenFacts
<1>3. ASSUME NEW todo, Goes(r, [q EXCEPT !.todo = todo, !.at = "select_nodes"]), UNCHANGED store, q.at = "select"
      PROVE  /\ UNCHANGED store
             /\ \A p \in Requesters \ {r} : req'[p] = req[p]
             /\ Where(req'[r])
             /\ Changed(req'[r], req[r], {"todo", "at"}) /\ req'[r].at \in {"evaluate", "select_nodes"}
  <2> DEFINE n == [q EXCEPT !.todo = todo, !.at = "select_nodes"]
  <2>1. req'[r] = n /\ \A p \in Requesters \ {r} : req'[p] = req[p]
    BY <1>3, GoesFacts
  <2>2. Changed(n, q, {"todo", "at"}) /\ n.at = "select_nodes"
    <3> HIDE DEF q
    <3> QED
      BY <1>1 DEF Where, Fields, Changed
  <2>3. q.at = "select"
    BY <1>3
  <2> HIDE DEF n, q
  <2>4. q.op.op \in {"regression", "gate"}
    BY <1>1, <2>3 DEF Where, OpFits
  <2>5. Where(n)
    <3>1. DOMAIN n = Fields /\ n.op = q.op
      BY <2>2 DEF Changed, Fields
    <3>2. OpFits(n.at, q.op.op)
      BY <2>2, <2>4 DEF OpFits
    <3> QED
      BY <1>1, <2>2, <2>3, <2>4, <3>1, <3>2, MovesWhere
  <2> QED
    BY <1>3, <2>1, <2>2, <2>5 DEF q
<1>4. CASE SelectCases(r)
  <2>1. \/ \E ids : Goes(r, Chosen(r, ids))
        \/ \E todo : Goes(r, [q EXCEPT !.todo = todo, !.at = "select_nodes"])
    BY <1>4 DEF SelectCases, Reads
  <2>2. UNCHANGED store /\ q.at = "select"
    BY <1>4 DEF SelectCases, Reads, Stands
  <2> QED
    BY <1>2, <1>3, <2>1, <2>2
<1>5. CASE SelectNodeCases(r)
  <2>1. \E ids : Goes(r, Chosen(r, ids))
    BY <1>5 DEF SelectNodeCases, Reads
  <2>2. UNCHANGED store /\ q.at = "select_nodes"
    BY <1>5 DEF SelectNodeCases, Reads, Stands
  <2> QED
    BY <1>2, <2>1, <2>2
<1> QED
  BY <1>4, <1>5

LEMMA AnalyzeFacts ==
  ASSUME WhereInv, NEW r \in Requesters, Analyze(r)
  PROVE  /\ UNCHANGED store
         /\ \A q \in Requesters \ {r} : req'[q] = req[q]
         /\ Where(req'[r])
         /\ \/ req'[r] = Idle
            \/ Changed(req'[r], req[r], {"plan", "at"}) /\ req'[r].at \in {"report", "select"}
<1> DEFINE q == req[r]
<1>1. Where(q) /\ q.at = "analyze"
  BY DEF WhereInv, Analyze, Stands
<1>2. PICK plan, at, b : /\ Goes(r, IF b THEN Idle ELSE [q EXCEPT !.plan = plan, !.at = at])
                         /\ UNCHANGED store /\ at \in {"report", "select"}
  <2> DEFINE op   == req[r].op
             todo == {a \in Impacted(op) \cap DOMAIN profiles : op.run_not_recommended \/ Recommended(a)}
             plan == SetToSeq({build_regression_payload_from_profile(a, op.nodes[a]) : a \in todo})
             at   == IF plan = <<>> \/ op.dry_run THEN "report" ELSE "select"
             b    == Len(plan) > op.max_agents
  <2>1. /\ Goes(r, IF b THEN Idle ELSE [q EXCEPT !.plan = plan, !.at = at]) /\ UNCHANGED store
    BY DEF Analyze, Reads
  <2>2. at \in {"report", "select"}
    OBVIOUS
  <2> HIDE DEF plan, at, b
  <2> QED
    BY <2>1, <2>2
<1> DEFINE n == [q EXCEPT !.plan = plan, !.at = at]
<1>3. /\ req'[r] = IF b THEN Idle ELSE n
      /\ \A p \in Requesters \ {r} : req'[p] = req[p]
  BY <1>2, GoesFacts
<1>4. Changed(n, q, {"plan", "at"}) /\ n.at = at
  <2> HIDE DEF q
  <2> QED
    BY <1>1 DEF Where, Fields, Changed
<1> HIDE DEF n, q
<1>5. q.op.op = "gate"
  BY <1>1 DEF Where, OpFits
<1>6. Where(n)
  <2>1. DOMAIN n = Fields /\ n.op = q.op
    BY <1>4 DEF Changed, Fields
  <2>2. OpFits(n.at, q.op.op)
    BY <1>2, <1>4, <1>5 DEF OpFits
  <2> QED
    BY <1>1, <1>2, <1>4, <1>5, <2>1, <2>2, MovesWhere
<1> QED
  BY <1>2, <1>3, <1>4, <1>6, IdleFacts DEF q

LEMMA ReadFeedbackFacts ==
  ASSUME WhereInv, NEW r \in Requesters, ReadFeedback(r)
  PROVE  /\ UNCHANGED store
         /\ \A q \in Requesters \ {r} : req'[q] = req[q]
         /\ Where(req'[r])
         /\ \/ req'[r] = Idle
            \/ /\ Changed(req'[r], req[r], {"doc", "key", "at"})
               /\ req[r].op.id \in DOMAIN feedback /\ req'[r].doc = feedback[req[r].op.id]
               /\ req'[r].at = IF req[r].op.op = "note" THEN "save_feedback" ELSE "convert"
<1> DEFINE q == req[r]
           id == q.op.id
           n == [q EXCEPT !.doc = feedback[id], !.key = <<"feedback", id>>,
                          !.at = IF q.op.op = "note" THEN "save_feedback" ELSE "convert"]
<1>1. Where(q) /\ q.at = "read_feedback"
  BY DEF WhereInv, ReadFeedback, Stands
<1>2. Goes(r, IF id \notin DOMAIN feedback THEN Idle ELSE n) /\ UNCHANGED store
  BY DEF ReadFeedback, Reads
<1>3. /\ req'[r] = IF id \notin DOMAIN feedback THEN Idle ELSE n
      /\ \A p \in Requesters \ {r} : req'[p] = req[p]
  BY <1>2, GoesFacts
<1>4. /\ Changed(n, q, {"doc", "key", "at"}) /\ n.doc = feedback[id]
      /\ n.at = IF q.op.op = "note" THEN "save_feedback" ELSE "convert"
  <2> HIDE DEF q, id
  <2> QED
    BY <1>1 DEF Where, Fields, Changed
<1> HIDE DEF n, q
<1>5. q.op.op \in {"note", "convert"}
  BY <1>1 DEF Where, OpFits
<1>6. Where(n)
  <2>1. DOMAIN n = Fields /\ n.op = q.op
    BY <1>4 DEF Changed, Fields
  <2>2. OpFits(n.at, q.op.op) /\ n.at # "idle"
    BY <1>4, <1>5 DEF OpFits
  <2> QED
    BY <1>1, <1>4, <1>5, <2>1, <2>2, MovesWhere
<1> QED
  BY <1>2, <1>3, <1>4, <1>6, IdleFacts DEF q

LEMMA ReadFailuresFacts ==
  ASSUME WhereInv, NEW r \in Requesters, ReadFailures(r)
  PROVE  /\ UNCHANGED store
         /\ \A q \in Requesters \ {r} : req'[q] = req[q]
         /\ Where(req'[r])
         /\ LET run == req[r].op.run
                new == CasesOf(WithStatus(runs[run].results, NotPassed)) \ ReportedCases(run)
            IN  \/ req'[r] = Idle
                \/ /\ Changed(req'[r], req[r], {"todo", "at", "key", "stale"})
                   /\ run \in DOMAIN runs /\ new # {}
                   /\ req'[r].todo = SetToSeq(new) /\ req'[r].at = "save_failure"
                   /\ req'[r].key = <<"failures", run>> /\ req'[r].stale = FALSE
<1> DEFINE q == req[r]
           run == q.op.run
           new == CasesOf(WithStatus(runs[run].results, NotPassed)) \ ReportedCases(run)
           n == [q EXCEPT !.todo = SetToSeq(new), !.at = "save_failure",
                          !.key = <<"failures", run>>, !.stale = FALSE]
<1>1. Where(q) /\ q.at = "read_run"
  BY DEF WhereInv, ReadFailures, Stands
<1>2. Goes(r, IF run \notin DOMAIN runs \/ new = {} THEN Idle ELSE n) /\ UNCHANGED store
  BY DEF ReadFailures, Reads
<1>3. /\ req'[r] = IF run \notin DOMAIN runs \/ new = {} THEN Idle ELSE n
      /\ \A p \in Requesters \ {r} : req'[p] = req[p]
  BY <1>2, GoesFacts
<1>4. /\ Changed(n, q, {"todo", "at", "key", "stale"}) /\ n.todo = SetToSeq(new)
      /\ n.at = "save_failure" /\ n.key = <<"failures", run>> /\ n.stale = FALSE
  <2> HIDE DEF q, run, new
  <2> QED
    BY <1>1 DEF Where, Fields, Changed
<1>5. q.op.op = "from_failures"
  BY <1>1 DEF Where, OpFits
<1> HIDE DEF n
<1>6. Where(n)
  <2> HIDE DEF q, run, new
  <2>1. DOMAIN n = Fields /\ n.op = q.op
    BY <1>4 DEF Changed, Fields
  <2>2. OpFits(n.at, q.op.op) /\ n.at # "idle"
    BY <1>4, <1>5 DEF OpFits
  <2> QED
    BY <1>1, <1>4, <1>5, <2>1, <2>2, MovesWhere
<1>7. req'[r] = Idle \/ (run \in DOMAIN runs /\ new # {} /\ req'[r] = n)
  BY <1>3
<1>8. Where(req'[r])
  BY <1>6, <1>7, IdleFacts
<1> HIDE DEF new, run
<1>9. \/ req'[r] = Idle
      \/ /\ Changed(req'[r], q, {"todo", "at", "key", "stale"}) /\ run \in DOMAIN runs /\ new # {}
         /\ req'[r].todo = SetToSeq(new) /\ req'[r].at = "save_failure"
         /\ req'[r].key = <<"failures", run>> /\ req'[r].stale = FALSE
  BY <1>4, <1>7
<1> QED
  BY <1>2, <1>3, <1>8, <1>9 DEF new, run, q

LEMMA ReadProfileFacts ==
  ASSUME WhereInv, NEW r \in Requesters, ReadProfile(r)
  PROVE  /\ UNCHANGED store
         /\ \A q \in Requesters \ {r} : req'[q] = req[q]
         /\ Where(req'[r])
         /\ \/ req'[r] = Idle
            \/ /\ Changed(req'[r], req[r], {"doc", "key", "at"}) /\ req'[r].at = "save_profile"
               /\ req[r].op.op \in {"upsert", "disable"}
               /\ \E a : req'[r].key = <<"profile", a>>
<1> DEFINE q == req[r]
<1>1. Where(q) /\ q.at = "read_profile"
  BY DEF WhereInv, ReadProfile, Stands
<1>2. PICK doc, b, a : /\ Goes(r, IF b THEN Idle ELSE [q EXCEPT !.key = <<"profile", a>>, !.at = "save_profile", !.doc = doc])
                       /\ UNCHANGED store
  <2> DEFINE a == req[r].op.agent
             doc == IF a \in DOMAIN profiles THEN profiles[a] ELSE NoDocument
             b == a \notin DOMAIN profiles /\ req[r].op.op = "disable"
  <2>1. /\ Goes(r, IF b THEN Idle ELSE [q EXCEPT !.key = <<"profile", a>>, !.at = "save_profile", !.doc = doc])
        /\ UNCHANGED store
    BY DEF ReadProfile, Reads
  <2> HIDE DEF a, doc, b
  <2> QED
    BY <2>1
<1> DEFINE n == [q EXCEPT !.key = <<"profile", a>>, !.at = "save_profile", !.doc = doc]
<1>3. /\ req'[r] = IF b THEN Idle ELSE n
      /\ \A p \in Requesters \ {r} : req'[p] = req[p]
  BY <1>2, GoesFacts
<1>4. Changed(n, q, {"doc", "key", "at"}) /\ n.at = "save_profile" /\ n.key = <<"profile", a>>
  <2> HIDE DEF q
  <2> QED
    BY <1>1 DEF Where, Fields, Changed
<1> HIDE DEF n, q
<1>5. q.op.op \in {"upsert", "disable"}
  BY <1>1 DEF Where, OpFits
<1>6. Where(n)
  <2>1. DOMAIN n = Fields /\ n.op = q.op
    BY <1>4 DEF Changed, Fields
  <2>2. OpFits(n.at, q.op.op)
    BY <1>4, <1>5 DEF OpFits
  <2> QED
    BY <1>1, <1>4, <1>5, <2>1, <2>2, MovesWhere
<1> QED
  BY <1>2, <1>3, <1>4, <1>5, <1>6, IdleFacts DEF q

LEMMA SaveRunFacts ==
  ASSUME WhereInv, NEW r \in Requesters, SaveRun(r)
  PROVE  LET id == Fresh(RunIds, runs)
             doc == [results |-> req[r].results, at |-> Cardinality(DOMAIN runs),
                     gate |-> NoGate, config |-> [fail_on_critical |-> FALSE], compared |-> "no"]
         IN  /\ Spare(RunIds, runs) /\ req[r].at = "evaluate"
             /\ \E next : /\ WritesRun(r, id, doc, next) /\ Where(next)
                          /\ \/ next = Idle
                             \/ /\ Changed(next, req[r], {"at", "run"}) /\ next.at = "patch" /\ next.run = id
                                /\ req[r].op.op # "run"
<1> DEFINE q == req[r]
           id == Fresh(RunIds, runs)
           doc == [results |-> req[r].results, at |-> Cardinality(DOMAIN runs),
                   gate |-> NoGate, config |-> [fail_on_critical |-> FALSE], compared |-> "no"]
           n == [q EXCEPT !.at = "patch", !.run = id]
<1>1. Where(q) /\ q.at = "evaluate"
  BY DEF WhereInv, SaveRun, Stands
<1>2. WritesRun(r, id, doc, IF q.op.op = "run" THEN Idle ELSE n) /\ Spare(RunIds, runs)
  BY DEF SaveRun
<1>3. Changed(n, q, {"at", "run"}) /\ n.at = "patch" /\ n.run = id
  <2> HIDE DEF q, id
  <2> QED
    BY <1>1 DEF Where, Fields, Changed
<1> HIDE DEF n, q
<1>4. q.op.op # "run" => Where(n)
  <2>1. DOMAIN n = Fields /\ n.op = q.op
    BY <1>3 DEF Changed, Fields
  <2>2. q.op.op # "run" => q.op.op \in {"regression", "gate"}
    BY <1>1 DEF Where, OpFits
  <2>3. q.op.op # "run" => OpFits(n.at, q.op.op)
    BY <1>3, <2>2 DEF OpFits
  <2> QED
    BY <1>1, <1>3, <2>1, <2>2, <2>3, MovesWhere
<1>5. \E next : /\ WritesRun(r, id, doc, next) /\ Where(next)
                /\ \/ next = Idle
                   \/ /\ Changed(next, q, {"at", "run"}) /\ next.at = "patch" /\ next.run = id
                      /\ q.op.op # "run"
  <2> HIDE DEF doc, id
  <2>1. CASE q.op.op = "run"
    <3>1. WritesRun(r, id, doc, Idle)
      BY <1>2, <2>1
    <3> QED
      BY <3>1, IdleFacts
  <2>2. CASE q.op.op # "run"
    <3>1. WritesRun(r, id, doc, n)
      BY <1>2, <2>2
    <3> QED
      BY <3>1, <1>3, <1>4, <2>2
  <2> QED
    BY <2>1, <2>2
<1> QED
  BY <1>1, <1>2, <1>5 DEF q

LEMMA PatchRunFacts ==
  ASSUME WhereInv, NEW r \in Requesters, PatchRun(r)
  PROVE  LET p    == Payload(r)
             gate == GateOf(p, req[r].results)
             doc  == [runs[req[r].run] EXCEPT !.gate = gate,
                        !.config = [fail_on_critical |-> p.gate.fail_on_critical]]
         IN  /\ req[r].at = "patch" /\ req[r].op.op \in {"regression", "gate"}
             /\ \E next : /\ WritesRun(r, req[r].run, doc, next) /\ Where(next)
                          /\ \/ next = Answered(r, gate.passed, FALSE)
                             \/ Changed(next, req[r], {"at"}) /\ next.at = "compare"
<1> DEFINE q == req[r]
           p == Payload(r)
           gate == GateOf(p, req[r].results)
           doc  == [runs[req[r].run] EXCEPT !.gate = gate,
                      !.config = [fail_on_critical |-> p.gate.fail_on_critical]]
           n == [q EXCEPT !.at = "compare"]
<1>1. Where(q) /\ q.at = "patch"
  BY DEF WhereInv, PatchRun, Stands
<1>2. WritesRun(r, q.run, doc, IF p.baseline = "none" THEN Answered(r, gate.passed, FALSE) ELSE n)
  BY DEF PatchRun
<1>3. Changed(n, q, {"at"}) /\ n.at = "compare"
  <2> HIDE DEF q
  <2> QED
    BY <1>1 DEF Where, Fields, Changed
<1>4. q.op.op \in {"regression", "gate"}
  <2> HIDE DEF q
  <2> QED
    BY <1>1 DEF Where, OpFits
<1>5. Where(Answered(r, gate.passed, FALSE))
  <2>1. q.at # "idle"
    BY <1>1
  <2> HIDE DEF gate
  <2> QED
    BY <2>1, AnsweredFacts, IdleFacts
<1> HIDE DEF n, q, doc, gate, p
<1>6. Where(n)
  <2>1. DOMAIN n = Fields /\ n.op = q.op
    BY <1>3 DEF Changed, Fields
  <2>2. OpFits(n.at, q.op.op)
    BY <1>3, <1>4 DEF OpFits
  <2> QED
    BY <1>1, <1>3, <1>4, <2>1, <2>2, MovesWhere
<1>7. \E next : /\ WritesRun(r, q.run, doc, next) /\ Where(next)
                /\ \/ next = Answered(r, gate.passed, FALSE)
                   \/ Changed(next, q, {"at"}) /\ next.at = "compare"
  <2>1. CASE p.baseline = "none"
    <3>1. WritesRun(r, q.run, doc, Answered(r, gate.passed, FALSE))
      BY <1>2, <2>1
    <3> QED
      BY <3>1, <1>5
  <2>2. CASE p.baseline # "none"
    <3>1. WritesRun(r, q.run, doc, n)
      BY <1>2, <2>2
    <3> QED
      BY <3>1, <1>3, <1>6
  <2> QED
    BY <2>1, <2>2
<1> QED
  BY <1>1, <1>4, <1>7 DEF q, doc, gate, p

LEMMA CompareRunFacts ==
  ASSUME WhereInv, NEW r \in Requesters, CompareRun(r)
  PROVE  /\ req[r].at = "compare" /\ req[r].op.op \in {"regression", "gate"}
         /\ Where(Answered(r, runs[req[r].run].gate.passed, FALSE))
         /\ \E word : WritesRun(r, req[r].run, [runs[req[r].run] EXCEPT !.compared = word],
                                Answered(r, runs[req[r].run].gate.passed, FALSE))
<1>1. Where(req[r]) /\ req[r].at = "compare"
  BY DEF WhereInv, CompareRun, Stands
<1>2. req[r].op.op \in {"regression", "gate"}
  BY <1>1 DEF Where, OpFits
<1>3. Where(Answered(r, runs[req[r].run].gate.passed, FALSE))
  BY <1>1, AnsweredFacts, IdleFacts
<1>4. \E word : WritesRun(r, req[r].run, [runs[req[r].run] EXCEPT !.compared = word],
                          Answered(r, runs[req[r].run].gate.passed, FALSE))
  BY DEF CompareRun
<1> QED
  BY <1>1, <1>2, <1>3, <1>4

LEMMA SaveConvertedFacts ==
  ASSUME WhereInv, NEW r \in Requesters, SaveConverted(r)
  PROVE  LET id  == Fresh(CaseIds, cases)
             doc == [CaseOfFeedback(req[r].doc) EXCEPT !.enabled = req[r].op.enabled,
                       !.tags = @ \cup {"bad_case"}, !.made = req[r].op.id]
         IN  /\ req[r].at = "convert" /\ Spare(CaseIds, cases)
             /\ \E next : /\ WritesCase(r, id, doc, next) /\ Where(next)
                          /\ Changed(next, req[r], {"at", "todo"}) /\ next.at = "mark" /\ next.todo = <<id>>
<1> DEFINE q == req[r]
           id  == Fresh(CaseIds, cases)
           doc == [CaseOfFeedback(req[r].doc) EXCEPT !.enabled = req[r].op.enabled,
                     !.tags = @ \cup {"bad_case"}, !.made = req[r].op.id]
           n == [q EXCEPT !.at = "mark", !.todo = <<id>>]
<1>1. Where(q) /\ q.at = "convert"
  BY DEF WhereInv, SaveConverted, Stands
<1>2. WritesCase(r, id, doc, n) /\ Spare(CaseIds, cases)
  BY DEF SaveConverted
<1>3. Changed(n, q, {"at", "todo"}) /\ n.at = "mark" /\ n.todo = <<id>>
  <2> HIDE DEF q, id
  <2> QED
    BY <1>1 DEF Where, Fields, Changed
<1> HIDE DEF n, q, doc, id
<1>4. Where(n)
  <2>1. DOMAIN n = Fields /\ n.op = q.op
    BY <1>3 DEF Changed, Fields
  <2>2. q.op.op = "convert"
    BY <1>1 DEF Where, OpFits
  <2>3. OpFits(n.at, q.op.op)
    BY <1>3, <2>2 DEF OpFits
  <2> QED
    BY <1>1, <1>3, <2>1, <2>2, <2>3, MovesWhere
<1>5. \E next : /\ WritesCase(r, id, doc, next) /\ Where(next)
                /\ Changed(next, q, {"at", "todo"}) /\ next.at = "mark" /\ next.todo = <<id>>
  BY <1>2, <1>3, <1>4
<1> QED
  BY <1>1, <1>2, <1>5 DEF q, doc, id

LEMMA SaveFailureFacts ==
  ASSUME WhereInv, NEW r \in Requesters, SaveFailure(r)
  PROVE  LET run == req[r].op.run
             id  == Head(req[r].todo)
             doc == Complaint("eval_result", run, id, "none",
                              ResultOf(runs[run].results, id).agent, TRUE, req[r].stale)
         IN  /\ req[r].at = "save_failure" /\ req[r].op.op = "from_failures" /\ Spare(FeedbackIds, feedback)
             /\ \E next : /\ WritesFeedback(r, Fresh(FeedbackIds, feedback), doc, <<"failures", run>>, next)
                          /\ Where(next)
                          /\ \/ next = Idle
                             \/ /\ Changed(next, req[r], {"todo"}) /\ next.todo = Tail(req[r].todo)
                                /\ next.todo # <<>>
<1> DEFINE q == req[r]
           run == q.op.run
           id  == Head(q.todo)
           new == Fresh(FeedbackIds, feedback)
           doc == Complaint("eval_result", run, id, "none", ResultOf(runs[run].results, id).agent, TRUE, q.stale)
           n == [q EXCEPT !.todo = Tail(q.todo)]
<1>1. Where(q) /\ q.at = "save_failure"
  BY DEF WhereInv, SaveFailure, Stands
<1>2. /\ WritesFeedback(r, new, doc, <<"failures", run>>, IF Tail(q.todo) = <<>> THEN Idle ELSE n)
      /\ Spare(FeedbackIds, feedback)
  BY DEF SaveFailure
<1>3. Changed(n, q, {"todo"}) /\ n.todo = Tail(q.todo)
  <2> HIDE DEF q
  <2> QED
    BY <1>1 DEF Where, Fields, Changed
<1> HIDE DEF n, q, doc, id, new, run
<1>4. q.op.op = "from_failures"
  BY <1>1 DEF Where, OpFits
<1>5. Where(n)
  <2>1. DOMAIN n = Fields /\ n.op = q.op /\ n.at = q.at
    BY <1>3 DEF Changed, Fields
  <2>2. OpFits(n.at, q.op.op)
    BY <1>1, <2>1 DEF Where
  <2> QED
    BY <1>1, <1>3, <1>4, <2>1, <2>2, MovesWhere
<1>6. \E next : /\ WritesFeedback(r, new, doc, <<"failures", run>>, next) /\ Where(next)
                /\ \/ next = Idle
                   \/ Changed(next, q, {"todo"}) /\ next.todo = Tail(q.todo) /\ next.todo # <<>>
  <2>1. CASE Tail(q.todo) = <<>>
    BY <1>2, <2>1, IdleFacts
  <2>2. CASE Tail(q.todo) # <<>>
    BY <1>2, <1>3, <1>5, <2>2
  <2> QED
    BY <2>1, <2>2
<1> QED
  BY <1>1, <1>2, <1>4, <1>6 DEF q, doc, id, new, run

---------------------------------------------------------------------------
LEMMA QuietWhere ==
  ASSUME WhereInv, NEW r \in Requesters, NEW next, Goes(r, next), Where(next)
  PROVE  WhereInv'
<1>1. \A q \in Requesters : Where(req'[q])
  BY GoesFacts DEF WhereInv
<1>2. req' = [q \in Requesters |-> req'[q]]
  BY GoesFacts
<1> QED
  BY <1>1, <1>2 DEF WhereInv

LEMMA WritesWhere ==
  ASSUME WhereInv, NEW r \in Requesters, NEW next, NEW key, Writes(r, key, next), Where(next)
  PROVE  WhereInv'
<1>1. ASSUME NEW q \in Requesters PROVE Where(req'[q])
  <2>1. CASE q = r
    BY <2>1, WritesFacts, RaisedWhere
  <2>2. CASE q # r
    <3>1. Follows(req'[q], req[q], key) /\ Where(req[q])
      BY <2>2, WritesFacts DEF WhereInv
    <3> QED
      BY <3>1, FollowsWhere
  <2> QED
    BY <2>1, <2>2
<1>2. req' = [q \in Requesters |-> req'[q]]
  BY WritesFacts
<1> QED
  BY <1>1, <1>2 DEF WhereInv

LEMMA WhereStep ==
  ASSUME WhereInv, LibraryNext
  PROVE  WhereInv'
<1>1. PICK r \in Requesters :
     \/ Begin(r) \/ Raise(r)
     \/ ReadCase(r) \/ SaveCase(r) \/ CreateCase(r)
     \/ ListCases(r) \/ Evaluate(r) \/ SaveRun(r)
     \/ SelectCases(r) \/ SelectNodeCases(r) \/ PatchRun(r) \/ CompareRun(r)
     \/ Analyze(r) \/ SaveReport(r)
     \/ ReadFeedback(r) \/ SaveFeedback(r) \/ SaveConverted(r) \/ MarkConverted(r)
     \/ ReadFailures(r) \/ SaveFailure(r)
     \/ ReadProfile(r) \/ SaveProfile(r)
  BY DEF LibraryNext
<1>2. ASSUME NEW next, Goes(r, next), Where(req'[r]) PROVE WhereInv'
  BY <1>2, GoesFacts, QuietWhere
<1>3. ASSUME NEW next, NEW id, NEW doc, NEW key,
             WritesCase(r, id, doc, next) \/ WritesRun(r, id, doc, next)
               \/ WritesFeedback(r, id, doc, key, next) \/ WritesProfile(r, id, doc, next),
             Where(next)
      PROVE WhereInv'
  BY <1>3, WritesWhere DEF WritesCase, WritesRun, WritesFeedback, WritesProfile
<1>4. CASE Begin(r)
  BY <1>2, <1>4, BeginWhere DEF Begin
<1>5. CASE Raise(r)
  BY <1>5, RaisedWhere, QuietWhere DEF Raise
<1>6. CASE ReadCase(r)
  BY <1>2, <1>6, ReadCaseFacts DEF ReadCase, Reads
<1>7. CASE SaveCase(r)
  <2>1. Where(Onward(r))
    BY <1>7, OnwardFacts DEF SaveCase, Stands
  <2>2. \E id, doc : WritesCase(r, id, doc, Onward(r))
    BY <1>7 DEF SaveCase
  <2> QED
    BY <1>3, <2>1, <2>2
<1>8. CASE CreateCase(r)
  <2>1. \E id, doc : WritesCase(r, id, doc, Idle)
    BY <1>8 DEF CreateCase
  <2> QED
    BY <1>3, <2>1, IdleFacts
<1>9. CASE ListCases(r)
  BY <1>2, <1>9, ListCasesFacts DEF ListCases, Reads
<1>10. CASE Evaluate(r)
  BY <1>2, <1>10, EvaluateFacts DEF Evaluate, Reads
<1>11. CASE SaveRun(r)
  BY <1>3, <1>11, SaveRunFacts
<1>12. CASE SelectCases(r) \/ SelectNodeCases(r)
  BY <1>2, <1>12, SelectFacts DEF SelectCases, SelectNodeCases, Reads
<1>13. CASE PatchRun(r)
  BY <1>3, <1>13, PatchRunFacts
<1>14. CASE CompareRun(r)
  BY <1>3, <1>14, CompareRunFacts
<1>15. CASE Analyze(r)
  BY <1>2, <1>15, AnalyzeFacts DEF Analyze, Reads
<1>16. CASE SaveReport(r)
  BY <1>16, WritesWhere, IdleFacts DEF SaveReport
<1>17. CASE ReadFeedback(r)
  BY <1>2, <1>17, ReadFeedbackFacts DEF ReadFeedback, Reads
<1>18. CASE SaveFeedback(r)
  <2>1. \E id, doc, key : WritesFeedback(r, id, doc, key, Idle)
    BY <1>18 DEF SaveFeedback
  <2> QED
    BY <1>3, <2>1, IdleFacts
<1>19. CASE SaveConverted(r)
  BY <1>3, <1>19, SaveConvertedFacts
<1>20. CASE MarkConverted(r)
  <2>1. \E id, doc, key : WritesFeedback(r, id, doc, key, Idle)
    BY <1>20 DEF MarkConverted
  <2> QED
    BY <1>3, <2>1, IdleFacts
<1>21. CASE ReadFailures(r)
  BY <1>2, <1>21, ReadFailuresFacts DEF ReadFailures, Reads
<1>22. CASE SaveFailure(r)
  BY <1>3, <1>22, SaveFailureFacts
<1>23. CASE ReadProfile(r)
  BY <1>2, <1>23, ReadProfileFacts DEF ReadProfile, Reads
<1>24. CASE SaveProfile(r)
  <2>1. \E id, doc : WritesProfile(r, id, doc, Idle)
    BY <1>24 DEF SaveProfile
  <2> QED
    BY <1>3, <2>1, IdleFacts
<1> QED
  BY <1>1, <1>4, <1>5, <1>6, <1>7, <1>8, <1>9, <1>10, <1>11, <1>12, <1>13, <1>14, <1>15, <1>16,
     <1>17, <1>18, <1>19, <1>20, <1>21, <1>22, <1>23, <1>24

---------------------------------------------------------------------------
(* The documents of the cases *)

CasesShape == \A id \in DOMAIN cases : CaseDocument(cases[id])

\* A request about to save a case holds the stored one, unless it knows better.
EditReq(q, cs) ==
  q.at = "save_case" =>
    /\ CaseDocument(q.doc)
    /\ q.key = <<"case", Head(q.todo)>>
    /\ ~q.stale /\ Head(q.todo) \in DOMAIN cs =>
         IF q.op.op = "seed" THEN q.op.force ELSE q.doc = cs[Head(q.todo)]

EditInv == WhereInv /\ CasesShape /\ \A r \in Requesters : EditReq(req[r], cases)

LEMMA CaseFieldsAre ==
  CaseFields = {"agent", "scope", "node", "severity", "tags", "enabled", "archived", "source", "title",
                "output", "judge", "correctness", "fields", "forbidden", "tools", "limits", "mock",
                "expects", "meta", "made"}
BY DEF CaseFields, EmptyCase, build_node_eval_case

LEMMA BuiltCases ==
  /\ \A a : CaseDocument(EmptyCase(a))
  /\ \A replay : CaseDocument(build_eval_case_from_replay(replay))
  /\ \A a, n, o : CaseDocument(build_node_eval_case(a, n, o))
<1>1. \A a : CaseDocument(EmptyCase(a))
  BY DEF CaseDocument, EmptyCase, build_node_eval_case
<1>2. \A replay : CaseDocument(build_eval_case_from_replay(replay))
  BY CaseFieldsAre DEF CaseDocument, CaseFields, build_eval_case_from_replay
<1>3. \A a, n, o : CaseDocument(build_node_eval_case(a, n, o))
  BY CaseFieldsAre DEF CaseDocument, CaseFields, build_node_eval_case
<1> QED
  BY <1>1, <1>2, <1>3

LEMMA MergedShape ==
  ASSUME NEW op, Request(op), NEW c, CaseDocument(c),
         op.op \in {"update", "archive", "unarchive", "bulk", "clone", "seed"}
  PROVE  CaseDocument(Merged(op, c))
<1>1. CASE op.op \in {"update", "bulk"}
  <2>1. DOMAIN op.change \subseteq CaseFields /\ DOMAIN c = CaseFields
    BY <1>1 DEF Request, CaseDocument, CaseFields
  <2>2. Merged(op, c) = Over(op.change, c)
    BY <1>1 DEF Merged
  <2>3. DOMAIN Over(op.change, c) = CaseFields
    BY <2>1 DEF Over
  <2> QED
    BY <2>2, <2>3 DEF CaseDocument, CaseFields
<1>2. CASE op.op \notin {"update", "bulk"}
  BY <1>2 DEF Merged, CaseDocument
<1> QED
  BY <1>1, <1>2

LEMMA GetCaseShape ==
  ASSUME CasesShape, NEW id, Known(id)
  PROVE  CaseDocument(get_case(id))
BY LibraryAssumption DEF CasesShape, Known, get_case

LEMMA PutFacts ==
  ASSUME NEW f, NEW id, NEW doc
  PROVE  /\ DOMAIN Put(f, id, doc) = DOMAIN f \cup {id}
         /\ Put(f, id, doc)[id] = doc
         /\ \A x \in DOMAIN f \ {id} : Put(f, id, doc)[x] = f[x]
BY DEF Put

LEMMA FreshFacts ==
  ASSUME NEW ids, NEW f, Spare(ids, f)
  PROVE  Fresh(ids, f) \in ids /\ Fresh(ids, f) \notin DOMAIN f
BY DEF Spare, Fresh

\* A whole case posted under an id.
Posts(r, id, doc) ==
  /\ req[r].at = "create" /\ Named(req[r].op)
  /\ id = req[r].op.id /\ doc = req[r].op.case /\ doc.made = "posted"

\* Who writes a case, and what.
LEMMA CaseWriters ==
  ASSUME EditInv, LibraryNext
  PROVE  \/ UNCHANGED cases
         \/ \E r \in Requesters : \E id, doc, next :
              /\ WritesCase(r, id, doc, next) /\ CaseDocument(doc) /\ next.at # "save_case"
              /\ \/ Spare(CaseIds, cases) /\ id = Fresh(CaseIds, cases)
                 \/ Posts(r, id, doc)
                 \/ /\ req[r].at = "save_case" /\ id = Head(req[r].todo)
                    /\ doc = Merged(req[r].op, req[r].doc) /\ req[r].op.op # "clone"
<1> DEFINE Written(r) ==
      \E id, doc, next :
         /\ WritesCase(r, id, doc, next) /\ CaseDocument(doc) /\ next.at # "save_case"
         /\ \/ Spare(CaseIds, cases) /\ id = Fresh(CaseIds, cases)
            \/ Posts(r, id, doc)
            \/ /\ req[r].at = "save_case" /\ id = Head(req[r].todo)
               /\ doc = Merged(req[r].op, req[r].doc) /\ req[r].op.op # "clone"
<1>1. WhereInv /\ CasesShape
  BY DEF EditInv
<1>2. ASSUME NEW r \in Requesters, SaveCase(r) PROVE Written(r)
  <2> DEFINE id == IF req[r].op.op = "clone" THEN Fresh(CaseIds, cases) ELSE Head(req[r].todo)
             doc == Merged(req[r].op, req[r].doc)
  <2>1. /\ req[r].at = "save_case" /\ WritesCase(r, id, doc, Onward(r))
        /\ req[r].op.op = "clone" => Spare(CaseIds, cases)
    BY <1>2 DEF SaveCase, Stands
  <2>2. Where(req[r]) /\ CaseDocument(req[r].doc)
    BY <2>1 DEF EditInv, WhereInv, EditReq
  <2>3. CaseDocument(doc)
    <3>1. req[r].op \in Menu /\ req[r].op.op \in {"update", "archive", "unarchive", "bulk", "clone", "seed"}
      BY <2>1, <2>2 DEF Where, OpFits
    <3> QED
      BY <3>1, <2>2, LibraryAssumption, MergedShape
  <2>4. Onward(r).at # "save_case"
    BY <1>1, <2>1, OnwardFacts, IdleFacts
  <2>5. CASE req[r].op.op = "clone"
    <3>1. id = Fresh(CaseIds, cases)
      BY <2>5
    <3> HIDE DEF id, doc
    <3> QED
      BY <2>1, <2>3, <2>4, <2>5, <3>1
  <2>6. CASE req[r].op.op # "clone"
    <3>1. id = Head(req[r].todo) /\ doc = Merged(req[r].op, req[r].doc)
      BY <2>6
    <3> HIDE DEF id, doc
    <3> QED
      BY <2>1, <2>3, <2>4, <2>6, <3>1
  <2> QED
    BY <2>5, <2>6
<1>3. ASSUME NEW r \in Requesters, CreateCase(r) PROVE Written(r)
  <2> DEFINE op == req[r].op
             id == IF Named(op) THEN op.id ELSE Fresh(CaseIds, cases)
             doc == CASE op.op = "create"      -> op.case
                      [] op.op = "from_replay" -> build_eval_case_from_replay(op.replay)
                      [] op.op = "from_trace"  -> build_node_eval_case(op.agent, op.node, op.output)
  <2>1. req[r].at = "create" /\ WritesCase(r, id, doc, Idle) /\ (~Named(op) => Spare(CaseIds, cases))
    BY <1>3 DEF CreateCase, Stands
  <2>2. op \in Menu /\ op.op \in {"create", "from_replay", "from_trace"}
    BY <1>1, <2>1 DEF WhereInv, Where, OpFits
  <2>3. Request(op)
    BY <2>2, LibraryAssumption
  <2>4. CaseDocument(doc)
    <3>1. CASE op.op = "create"
      BY <2>3, <3>1 DEF Request
    <3>2. CASE op.op = "from_replay"
      BY <3>2, BuiltCases
    <3>3. CASE op.op = "from_trace"
      BY <3>3, BuiltCases
    <3> QED
      BY <2>2, <3>1, <3>2, <3>3
  <2>5. Named(op) => doc = op.case /\ doc.made = "posted"
    BY <2>3 DEF Named, Request
  <2>6. CASE Named(op)
    <3>1. id = op.id
      BY <2>6
    <3> HIDE DEF doc, id
    <3>2. Posts(r, id, doc)
      BY <2>1, <2>5, <2>6, <3>1 DEF Posts
    <3> QED
      BY <2>1, <2>4, <3>2, IdleFacts
  <2>7. CASE ~Named(op)
    <3>1. id = Fresh(CaseIds, cases)
      BY <2>7
    <3> HIDE DEF doc, id, op
    <3> QED
      BY <2>1, <2>4, <2>7, <3>1, IdleFacts
  <2> QED
    BY <2>6, <2>7
<1>4. ASSUME NEW r \in Requesters, SaveConverted(r) PROVE Written(r)
  <2> DEFINE id == Fresh(CaseIds, cases)
             f == req[r].doc
             doc == [CaseOfFeedback(f) EXCEPT !.enabled = req[r].op.enabled,
                       !.tags = @ \cup {"bad_case"}, !.made = req[r].op.id]
  <2>1. PICK next : /\ WritesCase(r, id, doc, next) /\ next.at = "mark" /\ Spare(CaseIds, cases)
    BY <1>1, <1>4, SaveConvertedFacts
  <2>2. CaseDocument(CaseOfFeedback(f))
    <3>1. Known(f.case) => CaseDocument([get_case(f.case) EXCEPT !.source = "feedback"])
      BY <1>1, GetCaseShape DEF CaseDocument
    <3> QED
      BY <3>1, BuiltCases DEF CaseOfFeedback
  <2>3. CaseDocument(doc)
    BY <2>2 DEF CaseDocument
  <2> HIDE DEF doc, id
  <2> QED
    BY <2>1, <2>3 DEF id
<1>5. PICK r \in Requesters :
     \/ Begin(r) \/ Raise(r)
     \/ ReadCase(r) \/ SaveCase(r) \/ CreateCase(r)
     \/ ListCases(r) \/ Evaluate(r) \/ SaveRun(r)
     \/ SelectCases(r) \/ SelectNodeCases(r) \/ PatchRun(r) \/ CompareRun(r)
     \/ Analyze(r) \/ SaveReport(r)
     \/ ReadFeedback(r) \/ SaveFeedback(r) \/ SaveConverted(r) \/ MarkConverted(r)
     \/ ReadFailures(r) \/ SaveFailure(r)
     \/ ReadProfile(r) \/ SaveProfile(r)
  BY DEF LibraryNext
<1>6. ASSUME \/ Begin(r) \/ Raise(r) \/ ReadCase(r) \/ ListCases(r) \/ Evaluate(r) \/ SelectCases(r)
             \/ SelectNodeCases(r) \/ Analyze(r) \/ ReadFeedback(r) \/ ReadFailures(r) \/ ReadProfile(r)
      PROVE  UNCHANGED cases
  BY <1>6 DEF Begin, Raise, ReadCase, ListCases, Evaluate, SelectCases, SelectNodeCases, Analyze,
              ReadFeedback, ReadFailures, ReadProfile, Reads, store
<1>7. ASSUME SaveRun(r) \/ PatchRun(r) \/ CompareRun(r) PROVE UNCHANGED cases
  BY <1>7 DEF SaveRun, PatchRun, CompareRun, WritesRun
<1>8. ASSUME SaveReport(r) \/ SaveFeedback(r) \/ MarkConverted(r) \/ SaveFailure(r) PROVE UNCHANGED cases
  BY <1>8 DEF SaveReport, SaveFeedback, MarkConverted, SaveFailure, WritesFeedback
<1>9. ASSUME SaveProfile(r) PROVE UNCHANGED cases
  BY <1>9 DEF SaveProfile, WritesProfile
<1> HIDE DEF Written
<1>10. UNCHANGED cases \/ \E p \in Requesters : Written(p)
  BY <1>2, <1>3, <1>4, <1>5, <1>6, <1>7, <1>8, <1>9
<1> QED
  BY <1>10 DEF Written

\* Another request that saves a case leaves what a request holds of it.
LEMMA FollowsEdit ==
  ASSUME NEW new, NEW old, NEW cs, NEW id, NEW doc, EditReq(old, cs), Follows(new, old, <<"case", id>>)
  PROVE  EditReq(new, Put(cs, id, doc))
<1>1. /\ new.at = old.at /\ new.doc = old.doc /\ new.key = old.key /\ new.todo = old.todo /\ new.op = old.op
      /\ ~new.stale => ~old.stale /\ old.key # <<"case", id>>
  BY DEF Follows, Fields
<1>2. ASSUME new.at = "save_case", ~new.stale, Head(new.todo) \in DOMAIN Put(cs, id, doc)
      PROVE  IF new.op.op = "seed" THEN new.op.force ELSE new.doc = Put(cs, id, doc)[Head(new.todo)]
  <2>1. old.key = <<"case", Head(old.todo)>> /\ Head(old.todo) # id
    BY <1>1, <1>2 DEF EditReq
  <2>2. Head(old.todo) \in DOMAIN cs /\ Put(cs, id, doc)[Head(old.todo)] = cs[Head(old.todo)]
    <3>1. Head(old.todo) \in DOMAIN Put(cs, id, doc)
      BY <1>1, <1>2
    <3>2. DOMAIN Put(cs, id, doc) = DOMAIN cs \cup {id}
      BY PutFacts
    <3>3. Head(old.todo) \in DOMAIN cs
      BY <2>1, <3>1, <3>2
    <3>4. \A h \in DOMAIN cs \ {id} : Put(cs, id, doc)[h] = cs[h]
      BY DEF Put
    <3> QED
      BY <2>1, <3>3, <3>4
  <2>3. ~old.stale /\ old.at = "save_case"
    BY <1>1, <1>2
  <2>4. IF old.op.op = "seed" THEN old.op.force ELSE old.doc = cs[Head(old.todo)]
    BY <2>2, <2>3 DEF EditReq
  <2> QED
    BY <1>1, <2>2, <2>4
<1> QED
  BY <1>1, <1>2 DEF EditReq

LEMMA FollowsEditSame ==
  ASSUME NEW new, NEW old, NEW cs, NEW key, EditReq(old, cs), Follows(new, old, key)
  PROVE  EditReq(new, cs)
<1>1. /\ new.at = old.at /\ new.doc = old.doc /\ new.key = old.key /\ new.todo = old.todo /\ new.op = old.op
      /\ ~new.stale => ~old.stale
  BY DEF Follows, Fields
<1> QED
  BY <1>1 DEF EditReq

LEMMA RaisedEdit ==
  ASSUME WhereInv, NEW r \in Requesters, NEW cs
  PROVE  Raised(r).at # "save_case"
BY RaisedFacts, IdleFacts

\* What a request holds when it comes to saving a case.
LEMMA ReadCaseEdit ==
  ASSUME EditInv, NEW r \in Requesters, ReadCase(r)
  PROVE  EditReq(req'[r], cases)
<1> DEFINE q == req[r]
           n == req'[r]
           id == Head(q.todo)
<1>1. WhereInv /\ CasesShape /\ Where(q) /\ q.at = "read_case"
  BY DEF EditInv, WhereInv, ReadCase, Stands
<1>2. CASE n = Onward(r)
  BY <1>1, <1>2, OnwardFacts, IdleFacts DEF EditReq
<1>3. CASE /\ ~Skips(r, id) /\ Changed(n, q, {"key", "stale", "at", "doc"})
           /\ n.at = "save_case" /\ n.stale = FALSE /\ n.key = <<"case", id>>
           /\ n.doc = IF q.op.op = "seed" THEN BuiltinCase[id] ELSE get_case(id)
  <2>1. n.todo = q.todo /\ n.op = q.op
    BY <1>3 DEF Changed, Fields
  <2>2. CASE q.op.op = "seed"
    <3>1. q.todo \in Seq(DOMAIN BuiltinCase) \ {<<>>}
      BY <1>1, <2>2 DEF Where
    <3>2. id \in DOMAIN BuiltinCase
      BY <3>1, HeadTailProperties
    <3>3. CaseDocument(n.doc)
      BY <1>3, <2>2, <3>2, LibraryAssumption
    <3>4. id \in DOMAIN cases => q.op.force
      BY <1>3, <2>2 DEF Skips
    <3> QED
      BY <1>3, <2>1, <2>2, <3>3, <3>4 DEF EditReq
  <2>3. CASE q.op.op # "seed"
    <3>1. Known(id)
      BY <1>3, <2>3 DEF Skips
    <3>2. CaseDocument(get_case(id))
      BY <1>1, <3>1, GetCaseShape
    <3>3. n.doc = get_case(id) /\ (id \in DOMAIN cases => get_case(id) = cases[id])
      BY <1>3, <2>3 DEF get_case
    <3> SUFFICES EditReq(n, cases)
      OBVIOUS
    <3>4. Head(n.todo) = id /\ n.op.op # "seed"
      BY <2>1, <2>3
    <3> HIDE DEF id, q, n
    <3> QED
      BY <1>3, <3>2, <3>3, <3>4 DEF EditReq
  <2> QED
    BY <2>2, <2>3
<1> QED
  BY <1>1, <1>2, <1>3, ReadCaseFacts

\* Only reading a case brings a request to saving it.
LEMMA OwnEdit ==
  ASSUME EditInv, NEW r \in Requesters, NEW next, Goes(r, next), UNCHANGED cases, LibraryNext,
         EditReq(next, cases)
  PROVE  \A q \in Requesters : EditReq(req'[q], cases')
<1>1. WhereInv
  BY DEF EditInv
<1>2. req'[r] = next /\ \A q \in Requesters \ {r} : req'[q] = req[q]
  BY <1>1, GoesFacts
<1> QED
  BY <1>2 DEF EditInv

LEMMA QuietEdit ==
  ASSUME EditInv, LibraryNext, UNCHANGED cases
  PROVE  \A q \in Requesters : EditReq(req'[q], cases')
<1>1. WhereInv
  BY DEF EditInv
<1>2. PICK r \in Requesters :
     \/ Begin(r) \/ Raise(r)
     \/ ReadCase(r) \/ SaveCase(r) \/ CreateCase(r)
     \/ ListCases(r) \/ Evaluate(r) \/ SaveRun(r)
     \/ SelectCases(r) \/ SelectNodeCases(r) \/ PatchRun(r) \/ CompareRun(r)
     \/ Analyze(r) \/ SaveReport(r)
     \/ ReadFeedback(r) \/ SaveFeedback(r) \/ SaveConverted(r) \/ MarkConverted(r)
     \/ ReadFailures(r) \/ SaveFailure(r)
     \/ ReadProfile(r) \/ SaveProfile(r)
  BY DEF LibraryNext
<1> DEFINE Fine == \A q \in Requesters : EditReq(req'[q], cases')
<1>3. ASSUME NEW next, Goes(r, next), EditReq(req'[r], cases) PROVE Fine
  <2>1. \A q \in Requesters \ {r} : req'[q] = req[q]
    BY <1>1, <1>3, GoesFacts
  <2> QED
    BY <1>3, <2>1 DEF EditInv
<1>4. ASSUME NEW next, NEW key, Writes(r, key, next), next.at # "save_case" PROVE Fine
  <2>1. EditReq(req'[r], cases)
    <3>1. req'[r].at # "save_case"
      BY <1>1, <1>4, WritesFacts, RaisedEdit
    <3> QED
      BY <3>1 DEF EditReq
  <2>2. ASSUME NEW q \in Requesters \ {r} PROVE EditReq(req'[q], cases)
    BY <1>1, <1>4, WritesFacts, FollowsEditSame DEF EditInv
  <2> QED
    BY <2>1, <2>2
<1> SUFFICES Fine
  OBVIOUS
<1> HIDE DEF Fine
<1>5. CASE Begin(r)
  <2>1. PICK op \in Menu :
         Goes(r, [Idle EXCEPT !.op = op, !.at = FirstStep(op),
                              !.todo = IF "todo" \in DOMAIN op THEN op.todo ELSE <<>>])
    BY <1>5 DEF Begin
  <2> DEFINE n == [Idle EXCEPT !.op = op, !.at = FirstStep(op),
                               !.todo = IF "todo" \in DOMAIN op THEN op.todo ELSE <<>>]
  <2>2. req'[r].at = FirstStep(op)
    <3>1. n.at = FirstStep(op)
      BY DEF Idle
    <3>2. req'[r] = n
      BY <1>1, <2>1, GoesFacts
    <3> HIDE DEF n
    <3> QED
      BY <3>1, <3>2
  <2>3. FirstStep(op) # "save_case"
    BY LibraryAssumption DEF Request, FirstStep
  <2> QED
    BY <1>3, <2>1, <2>2, <2>3 DEF EditReq
<1>6. CASE Raise(r)
  <2>1. Goes(r, Raised(r))
    BY <1>6 DEF Raise
  <2>2. req'[r].at # "save_case"
    BY <1>1, <2>1, GoesFacts, RaisedEdit
  <2> QED
    BY <1>3, <2>1, <2>2 DEF EditReq
<1>7. CASE ReadCase(r)
  BY <1>3, <1>7, ReadCaseEdit DEF ReadCase, Reads
<1>8. CASE SaveCase(r)
  <2>1. \E id : Writes(r, <<"case", id>>, Onward(r))
    BY <1>8 DEF SaveCase, WritesCase
  <2>2. Onward(r).at # "save_case"
    BY <1>1, <1>8, OnwardFacts, IdleFacts DEF SaveCase, Stands
  <2> QED
    BY <1>4, <2>1, <2>2
<1>9. CASE CreateCase(r)
  <2>1. \E id : Writes(r, <<"case", id>>, Idle)
    BY <1>9 DEF CreateCase, WritesCase
  <2> QED
    BY <1>4, <2>1, IdleFacts
<1>10. CASE ListCases(r)
  <2>1. (\E next : Goes(r, next)) /\ req'[r].at # "save_case"
    BY <1>1, <1>10, ListCasesFacts DEF ListCases, Reads
  <2> QED
    BY <1>3, <2>1 DEF EditReq
<1>11. CASE Evaluate(r)
  <2>1. (\E next : Goes(r, next)) /\ req'[r].at # "save_case"
    BY <1>1, <1>11, EvaluateFacts DEF Evaluate, Reads, Changed, Fields
  <2> QED
    BY <1>3, <2>1 DEF EditReq
<1>12. CASE SaveRun(r)
  <2>1. PICK id, doc, next : WritesRun(r, id, doc, next) /\ (next = Idle \/ next.at = "patch")
    BY <1>1, <1>12, SaveRunFacts
  <2> QED
    BY <1>4, <2>1, IdleFacts DEF WritesRun
<1>13. CASE SelectCases(r) \/ SelectNodeCases(r)
  <2>1. (\E next : Goes(r, next)) /\ req'[r].at # "save_case"
    BY <1>1, <1>13, SelectFacts, RaisedEdit DEF SelectCases, SelectNodeCases, Reads
  <2> QED
    BY <1>3, <2>1 DEF EditReq
<1>14. CASE PatchRun(r)
  <2>1. PICK id, doc, next, passed :
           WritesRun(r, id, doc, next) /\ (next = Answered(r, passed, FALSE) \/ next.at = "compare")
    BY <1>1, <1>14, PatchRunFacts
  <2>2. next.at # "save_case"
    BY <1>1, <1>14, <2>1, AnsweredFacts, IdleFacts DEF PatchRun, Stands
  <2> QED
    BY <1>4, <2>1, <2>2 DEF WritesRun
<1>15. CASE CompareRun(r)
  <2>1. PICK id, doc, passed : WritesRun(r, id, doc, Answered(r, passed, FALSE))
    BY <1>1, <1>15, CompareRunFacts
  <2>2. Answered(r, passed, FALSE).at # "save_case"
    BY <1>1, <1>15, AnsweredFacts, IdleFacts DEF CompareRun, Stands
  <2> QED
    BY <1>4, <2>1, <2>2 DEF WritesRun
<1>16. CASE Analyze(r)
  <2>1. (\E next : Goes(r, next)) /\ req'[r].at # "save_case"
    BY <1>1, <1>16, AnalyzeFacts, IdleFacts DEF Analyze, Reads
  <2> QED
    BY <1>3, <2>1 DEF EditReq
<1>17. CASE SaveReport(r)
  BY <1>4, <1>17, IdleFacts DEF SaveReport
<1>18. CASE ReadFeedback(r)
  <2>1. (\E next : Goes(r, next)) /\ req'[r].at # "save_case"
    BY <1>1, <1>18, ReadFeedbackFacts, IdleFacts DEF ReadFeedback, Reads
  <2> QED
    BY <1>3, <2>1 DEF EditReq
<1>19. CASE SaveFeedback(r)
  <2>1. \E key : Writes(r, key, Idle)
    BY <1>19 DEF SaveFeedback, WritesFeedback
  <2> QED
    BY <1>4, <2>1, IdleFacts
<1>20. CASE SaveConverted(r)
  <2>1. PICK id, doc, next : WritesCase(r, id, doc, next) /\ next.at = "mark"
    BY <1>1, <1>20, SaveConvertedFacts
  <2> QED
    BY <1>4, <2>1 DEF WritesCase
<1>21. CASE MarkConverted(r)
  <2>1. \E key : Writes(r, key, Idle)
    BY <1>21 DEF MarkConverted, WritesFeedback
  <2> QED
    BY <1>4, <2>1, IdleFacts
<1>22. CASE ReadFailures(r)
  <2>1. (\E next : Goes(r, next)) /\ req'[r].at # "save_case"
    BY <1>1, <1>22, ReadFailuresFacts, IdleFacts DEF ReadFailures, Reads
  <2> QED
    BY <1>3, <2>1 DEF EditReq
<1>23. CASE SaveFailure(r)
  <2>1. req[r].at = "save_failure"
    BY <1>1, <1>23, SaveFailureFacts
  <2>2. PICK id, doc, key, next : /\ WritesFeedback(r, id, doc, key, next)
                                  /\ next = Idle \/ Changed(next, req[r], {"todo"})
    BY <1>1, <1>23, SaveFailureFacts
  <2>3. next.at # "save_case"
    BY <2>1, <2>2, IdleFacts DEF Changed, Fields
  <2> QED
    BY <1>4, <2>2, <2>3 DEF WritesFeedback
<1>24. CASE ReadProfile(r)
  <2>1. (\E next : Goes(r, next)) /\ req'[r].at # "save_case"
    BY <1>1, <1>24, ReadProfileFacts, IdleFacts DEF ReadProfile, Reads
  <2> QED
    BY <1>3, <2>1 DEF EditReq
<1>25. CASE SaveProfile(r)
  <2>1. \E key : Writes(r, key, Idle)
    BY <1>25 DEF SaveProfile, WritesProfile
  <2> QED
    BY <1>4, <2>1, IdleFacts
<1> QED
  BY <1>2, <1>5, <1>6, <1>7, <1>8, <1>9, <1>10, <1>11, <1>12, <1>13, <1>14, <1>15, <1>16,
     <1>17, <1>18, <1>19, <1>20, <1>21, <1>22, <1>23, <1>24, <1>25

\* What a request saves differs from the stored case in what it asked to change.
LEMMA MergedKeeps ==
  ASSUME NEW op, NEW c, CaseDocument(c),
         op.op \in {"update", "archive", "unarchive", "bulk"}
  PROVE  \A x \in CaseFields \ Asked(op) : Merged(op, c)[x] = c[x]
<1>1. DOMAIN c = CaseFields
  BY DEF CaseDocument, CaseFields
<1>2. CASE op.op \in {"update", "bulk"}
  BY <1>1, <1>2 DEF Merged, Asked, Over
<1>3. CASE op.op = "archive"
  BY <1>1, <1>3 DEF Merged, Asked
<1>4. CASE op.op = "unarchive"
  BY <1>1, <1>4 DEF Merged, Asked
<1> QED
  BY <1>2, <1>3, <1>4

EditAction ==
  \A id \in DOMAIN cases :
    cases'[id] # cases[id] =>
      \E r \in Requesters :
         \/ /\ Stands(r, "create") /\ Named(req[r].op)
            /\ req[r].op.id = id /\ cases'[id] = req[r].op.case
         \/ /\ req[r].key = <<"case", id>>
            /\ \/ req[r].stale
               \/ \A x \in DOMAIN cases[id] \ Asked(req[r].op) : cases'[id][x] = cases[id][x]

LEMMA EditStep ==
  ASSUME EditInv, LibraryNext
  PROVE  CasesShape' /\ (\A q \in Requesters : EditReq(req'[q], cases')) /\ EditAction
<1>1. WhereInv /\ CasesShape
  BY DEF EditInv
<1>2. CASE UNCHANGED cases
  <2>1. CasesShape'
    BY <1>1, <1>2 DEF CasesShape
  <2>2. EditAction
    BY <1>2 DEF EditAction
  <2> QED
    BY <1>2, <2>1, <2>2, QuietEdit
<1>3. ASSUME NEW r \in Requesters, NEW id, NEW doc, NEW next,
             WritesCase(r, id, doc, next), CaseDocument(doc), next.at # "save_case",
             \/ Spare(CaseIds, cases) /\ id = Fresh(CaseIds, cases)
             \/ Posts(r, id, doc)
             \/ /\ req[r].at = "save_case" /\ id = Head(req[r].todo)
                /\ doc = Merged(req[r].op, req[r].doc) /\ req[r].op.op # "clone"
      PROVE  CasesShape' /\ (\A q \in Requesters : EditReq(req'[q], cases')) /\ EditAction
  <2>1. cases' = Put(cases, id, doc) /\ Writes(r, <<"case", id>>, next)
    BY <1>3 DEF WritesCase
  <2>0. \A x \in DOMAIN cases' : cases'[x] = doc \/ (x \in DOMAIN cases /\ cases'[x] = cases[x])
    BY <2>1 DEF Put
  <2>2. CasesShape'
    <3>1. ASSUME NEW x \in DOMAIN cases' PROVE CaseDocument(cases'[x])
      BY <1>1, <1>3, <2>0 DEF CasesShape
    <3> QED
      BY <3>1 DEF CasesShape
  <2>3. ASSUME NEW q \in Requesters PROVE EditReq(req'[q], cases')
    <3>1. CASE q = r
      <4>1. req'[r].at # "save_case"
        BY <1>1, <1>3, <2>1, WritesFacts, RaisedEdit
      <4> QED
        BY <3>1, <4>1 DEF EditReq
    <3>2. CASE q # r
      <4>1. Follows(req'[q], req[q], <<"case", id>>) /\ EditReq(req[q], cases)
        BY <1>1, <2>1, <3>2, WritesFacts DEF EditInv
      <4> QED
        BY <2>1, <4>1, FollowsEdit
    <3> QED
      BY <3>1, <3>2
  <2>4. ASSUME NEW x \in DOMAIN cases, cases'[x] # cases[x]
        PROVE  \E p \in Requesters :
                 \/ /\ Stands(p, "create") /\ Named(req[p].op)
                    /\ req[p].op.id = x /\ cases'[x] = req[p].op.case
                 \/ /\ req[p].key = <<"case", x>>
                    /\ \/ req[p].stale
                       \/ \A y \in DOMAIN cases[x] \ Asked(req[p].op) : cases'[x][y] = cases[x][y]
    <3>1. x = id
      BY <2>1, <2>4 DEF Put
    <3>0. CASE Posts(r, id, doc)
      <4>1. cases'[x] = doc
        BY <2>1, <3>1 DEF Put
      <4> QED
        BY <3>0, <3>1, <4>1 DEF Posts, Stands
    <3> SUFFICES ASSUME ~Posts(r, id, doc)
                 PROVE  /\ req[r].key = <<"case", x>>
                        /\ \/ req[r].stale
                           \/ \A y \in DOMAIN cases[x] \ Asked(req[r].op) : cases'[x][y] = cases[x][y]
      BY <3>0
    <3>2. /\ req[r].at = "save_case" /\ id = Head(req[r].todo)
          /\ doc = Merged(req[r].op, req[r].doc) /\ req[r].op.op # "clone"
      BY <1>3, <2>4, <3>1, FreshFacts
    <3>3. /\ CaseDocument(req[r].doc) /\ req[r].key = <<"case", id>>
          /\ ~req[r].stale => IF req[r].op.op = "seed" THEN req[r].op.force ELSE req[r].doc = cases[id]
      BY <2>4, <3>1, <3>2 DEF EditInv, EditReq
    <3>4. cases'[x] = doc /\ DOMAIN cases[x] = CaseFields
      <4>1. cases'[x] = doc
        BY <2>1, <3>1 DEF Put
      <4>2. CaseDocument(cases[x])
        BY <1>1, <2>4 DEF CasesShape
      <4> QED
        BY <4>1, <4>2 DEF CaseDocument, CaseFields
    <3>5. req[r].op.op \in {"update", "archive", "unarchive", "bulk", "seed"}
      BY <1>1, <3>2 DEF WhereInv, Where, OpFits
    <3>6. ASSUME ~req[r].stale PROVE \A y \in DOMAIN cases[x] \ Asked(req[r].op) : cases'[x][y] = cases[x][y]
      <4>1. CASE req[r].op.op = "seed"
        <5>1. Asked(req[r].op) = CaseFields
          BY <3>3, <3>6, <4>1 DEF Asked, CaseFields
        <5> QED
          BY <3>4, <5>1
      <4>2. CASE req[r].op.op # "seed"
        <5>1. req[r].doc = cases[x]
          BY <3>1, <3>3, <3>6, <4>2
        <5>2. \A y \in CaseFields \ Asked(req[r].op) : Merged(req[r].op, req[r].doc)[y] = req[r].doc[y]
          BY <3>3, <3>5, <4>2, MergedKeeps
        <5> QED
          BY <3>2, <3>4, <5>1, <5>2
      <4> QED
        BY <4>1, <4>2
    <3> QED
      BY <3>1, <3>3, <3>6
  <2> QED
    BY <2>2, <2>3, <2>4 DEF EditAction
<1> QED
  BY <1>2, <1>3, CaseWriters

LEMMA LibraryInit0 ==
  ASSUME LibraryInit
  PROVE  /\ WhereInv /\ \A r \in Requesters : req[r] = Idle
         /\ \E first \in FirstStores :
              /\ cases = first.cases /\ runs = first.runs /\ feedback = first.feedback
              /\ FirstStore(first)
         /\ reports = <<>>
<1>1. WhereInv /\ \A r \in Requesters : req[r] = Idle
  BY IdleFacts DEF LibraryInit, WhereInv
<1> QED
  BY <1>1, LibraryAssumption DEF LibraryInit

\* The inductive invariant of the edits.
THEOREM EditInvariant == LibrarySpec => []EditInv
<1>1. LibraryInit => EditInv
  <2> SUFFICES ASSUME LibraryInit PROVE EditInv
    OBVIOUS
  <2>1. CasesShape
    BY LibraryInit0 DEF CasesShape, FirstStore
  <2>2. \A r \in Requesters : EditReq(req[r], cases)
    BY LibraryInit0, IdleFacts DEF EditReq
  <2> QED
    BY <2>1, <2>2, LibraryInit0 DEF EditInv
<1>2. EditInv /\ [LibraryNext]_libraryVars => EditInv'
  <2>1. ASSUME EditInv, LibraryNext PROVE EditInv'
    <3>1. WhereInv'
      BY <2>1, WhereStep DEF EditInv
    <3>2. CasesShape' /\ \A q \in Requesters : EditReq(req'[q], cases')
      BY <2>1, EditStep
    <3> QED
      BY <3>1, <3>2 DEF EditInv
  <2>2. ASSUME EditInv, UNCHANGED libraryVars PROVE EditInv'
    BY <2>2 DEF libraryVars, EditInv, WhereInv, CasesShape
  <2> QED
    BY <2>1, <2>2
<1> QED
  BY <1>1, <1>2, PTL DEF LibrarySpec

\* A save of a stored case changes only what its request asked to change, unless the
\* case was stored while the request was under way.
THEOREM EditsAreKept == LibrarySpec => EditsKept
<1>1. EditInv /\ [LibraryNext]_libraryVars => [EditAction]_libraryVars
  BY EditStep
<1>2. []EditInv /\ [][LibraryNext]_libraryVars => [][EditAction]_libraryVars
  BY <1>1, PTL
<1>3. [][EditAction]_libraryVars => EditsKept
  BY DEF EditsKept, EditAction
<1> QED
  BY <1>2, <1>3, EditInvariant, PTL DEF LibrarySpec

---------------------------------------------------------------------------
(* Runs and what requests hold of them *)

Same(new, old) == \A x \in Fields \ {"stale"} : new[x] = old[x]

\* What a step leaves a request with that does not write a run: nothing, or, of a gate,
\* what it has found of the agents before.
Starts(n) == n.results = {} /\ n.done = {} /\ n.doc = NoDocument /\ n.at \notin {"patch", "compare"}

GaveUp(n, q) ==
  /\ q.op.op = "gate" /\ n.op = q.op /\ n.results = {} /\ n.doc = q.doc /\ n.at \notin {"patch", "compare"}
  /\ \E a : n.done = q.done \cup {[agent |-> a, run |-> "none", passed |-> FALSE, error |-> TRUE]}

GoesOn(n, q) ==
  /\ n.op = q.op /\ n.done = q.done /\ n.results = q.results /\ n.at \notin {"patch", "compare"}
  /\ n.doc = q.doc \/ q.op.op \notin {"regression", "gate"}

Gathers(r, n, q) ==
  /\ n.op = q.op /\ n.done = q.done /\ n.doc = q.doc /\ n.at = "evaluate" /\ q.at = "evaluate"
  /\ \E result \in Possible(r, Head(q.todo)) : n.results = q.results \cup {result}

Calm(r) == \/ Starts(req'[r]) \/ GaveUp(req'[r], req[r]) \/ GoesOn(req'[r], req[r])
           \/ Gathers(r, req'[r], req[r])

LEMMA IdleStarts == Starts(Idle)
BY IdleFacts DEF Starts

LEMMA RaisedCalm ==
  ASSUME WhereInv, NEW r \in Requesters
  PROVE  Starts(Raised(r)) \/ GaveUp(Raised(r), req[r])
<1>1. CASE Raised(r) = Idle
  BY <1>1, IdleStarts
<1>2. CASE Raised(r) # Idle
  BY <1>2, RaisedFacts DEF GaveUp
<1> QED
  BY <1>1, <1>2

\* What a step does that writes no run.
LEMMA RunMoves ==
  ASSUME WhereInv, LibraryNext
  PROVE  \E r \in Requesters :
           /\ \A p \in Requesters \ {r} : Same(req'[p], req[p])
           /\ \/ SaveRun(r) \/ PatchRun(r) \/ CompareRun(r)
              \/ UNCHANGED runs /\ Calm(r)
<1>1. PICK r \in Requesters :
     \/ Begin(r) \/ Raise(r)
     \/ ReadCase(r) \/ SaveCase(r) \/ CreateCase(r)
     \/ ListCases(r) \/ Evaluate(r) \/ SaveRun(r)
     \/ SelectCases(r) \/ SelectNodeCases(r) \/ PatchRun(r) \/ CompareRun(r)
     \/ Analyze(r) \/ SaveReport(r)
     \/ ReadFeedback(r) \/ SaveFeedback(r) \/ SaveConverted(r) \/ MarkConverted(r)
     \/ ReadFailures(r) \/ SaveFailure(r)
     \/ ReadProfile(r) \/ SaveProfile(r)
  BY DEF LibraryNext
<1> DEFINE Others == \A p \in Requesters \ {r} : Same(req'[p], req[p])
<1> DEFINE Quiet == UNCHANGED runs /\ Calm(r)
<1>2. ASSUME NEW next, Goes(r, next) PROVE Others /\ req'[r] = next
  <2>1. ASSUME NEW p \in Requesters \ {r} PROVE Same(req'[p], req[p])
    BY <1>2, GoesFacts DEF Same
  <2> QED
    BY <1>2, <2>1, GoesFacts
<1>3. ASSUME NEW next, NEW key, Writes(r, key, next)
      PROVE  Others /\ (req'[r] = next \/ Starts(req'[r]) \/ GaveUp(req'[r], req[r]))
  <2>1. ASSUME NEW p \in Requesters \ {r} PROVE Same(req'[p], req[p])
    BY <1>3, WritesFacts DEF Same, Follows
  <2> QED
    BY <1>3, <2>1, WritesFacts, RaisedCalm
<1>4. ASSUME Goes(r, Raised(r)), UNCHANGED runs PROVE Quiet
  BY <1>2, <1>4, RaisedCalm DEF Calm
<1>5. ASSUME NEW next, Goes(r, next), UNCHANGED runs,
             Starts(req'[r]) \/ GaveUp(req'[r], req[r]) \/ GoesOn(req'[r], req[r]) \/ Gathers(r, req'[r], req[r])
      PROVE  Others /\ Quiet
  BY <1>2, <1>5 DEF Calm
<1>6. ASSUME NEW next, NEW key, Writes(r, key, next), UNCHANGED runs,
             Starts(next) \/ GoesOn(next, req[r])
      PROVE  Others /\ Quiet
  <2>1. req'[r] = next \/ Starts(req'[r]) \/ GaveUp(req'[r], req[r])
    BY <1>3, <1>6
  <2>2. Calm(r)
    BY <1>6, <2>1 DEF Calm
  <2> QED
    BY <1>3, <1>6, <2>2
<1>7. Where(req[r])
  BY DEF WhereInv
<1> DEFINE Fine == Others /\ (SaveRun(r) \/ PatchRun(r) \/ CompareRun(r) \/ Quiet)
<1> SUFFICES Fine
  OBVIOUS
<1> HIDE DEF Others, Quiet
<1>8. CASE Begin(r)
  <2>1. PICK op \in Menu :
         Goes(r, [Idle EXCEPT !.op = op, !.at = FirstStep(op),
                              !.todo = IF "todo" \in DOMAIN op THEN op.todo ELSE <<>>])
    BY <1>8 DEF Begin
  <2> DEFINE n == [Idle EXCEPT !.op = op, !.at = FirstStep(op),
                               !.todo = IF "todo" \in DOMAIN op THEN op.todo ELSE <<>>]
  <2>2. n.at = FirstStep(op) /\ n.results = {} /\ n.done = {} /\ n.doc = NoDocument
    BY DEF Idle
  <2>3. FirstStep(op) \notin {"patch", "compare"}
    BY LibraryAssumption DEF Request, FirstStep
  <2>4. Starts(n)
    BY <2>2, <2>3 DEF Starts
  <2>5. UNCHANGED runs
    BY <1>8 DEF Begin, store
  <2> HIDE DEF n
  <2>6. Starts(req'[r])
    BY <1>2, <2>1, <2>4 DEF n
  <2> QED
    BY <1>5, <2>1, <2>5, <2>6
<1>9. CASE Raise(r)
  <2>1. Goes(r, Raised(r)) /\ UNCHANGED runs
    BY <1>9 DEF Raise, store
  <2> QED
    BY <1>2, <1>4, <2>1
<1>10. CASE ReadCase(r)
  <2>1. (\E next : Goes(r, next)) /\ UNCHANGED runs
    BY <1>10 DEF ReadCase, Reads, store
  <2>2. req[r].op.op \notin {"regression", "gate"} /\ req[r].at = "read_case"
    BY <1>7, <1>10 DEF Where, OpFits, ReadCase, Stands
  <2>3. CASE req'[r] = Onward(r)
    <3>1. Starts(Onward(r)) \/ GoesOn(Onward(r), req[r])
      BY <2>2, OnwardFacts, IdleStarts DEF GoesOn
    <3> QED
      BY <1>5, <2>1, <2>3, <3>1
  <2>4. CASE Changed(req'[r], req[r], {"key", "stale", "at", "doc"}) /\ req'[r].at = "save_case"
    <3>1. GoesOn(req'[r], req[r])
      BY <2>2, <2>4 DEF GoesOn, Changed, Fields
    <3> QED
      BY <1>5, <2>1, <3>1
  <2> QED
    BY <1>10, <2>3, <2>4, ReadCaseFacts
<1>11. CASE SaveCase(r)
  <2>1. \E id : Writes(r, <<"case", id>>, Onward(r)) /\ UNCHANGED runs
    BY <1>11 DEF SaveCase, WritesCase
  <2>2. req[r].op.op \notin {"regression", "gate"} /\ req[r].at = "save_case"
    BY <1>7, <1>11 DEF Where, OpFits, SaveCase, Stands
  <2>3. Starts(Onward(r)) \/ GoesOn(Onward(r), req[r])
    BY <2>2, OnwardFacts, IdleStarts DEF GoesOn
  <2> QED
    BY <1>6, <2>1, <2>3
<1>12. CASE CreateCase(r)
  <2>1. \E id : Writes(r, <<"case", id>>, Idle) /\ UNCHANGED runs
    BY <1>12 DEF CreateCase, WritesCase
  <2> QED
    BY <1>6, <2>1, IdleStarts
<1>13. CASE ListCases(r)
  <2>1. (\E next : Goes(r, next)) /\ UNCHANGED runs
    BY <1>13 DEF ListCases, Reads, store
  <2>2. GoesOn(req'[r], req[r])
    BY <1>13, ListCasesFacts DEF GoesOn, Changed, Fields
  <2> QED
    BY <1>5, <2>1, <2>2
<1>14. CASE Evaluate(r)
  <2>1. (\E next : Goes(r, next)) /\ UNCHANGED runs
    BY <1>14 DEF Evaluate, Reads, store
  <2>2. Gathers(r, req'[r], req[r])
    BY <1>14, EvaluateFacts DEF Gathers, Changed, Fields
  <2> QED
    BY <1>5, <2>1, <2>2
<1>15. CASE SaveRun(r) \/ PatchRun(r) \/ CompareRun(r)
  <2>1. \E next, key : Writes(r, key, next)
    BY <1>15 DEF SaveRun, PatchRun, CompareRun, WritesRun
  <2> QED
    BY <1>3, <1>15, <2>1
<1>16. CASE SelectCases(r) \/ SelectNodeCases(r)
  <2>1. (\E next : Goes(r, next)) /\ UNCHANGED runs
    BY <1>16 DEF SelectCases, SelectNodeCases, Reads, store
  <2>2. Starts(req'[r]) \/ GaveUp(req'[r], req[r]) \/ GoesOn(req'[r], req[r])
    <3>1. CASE req'[r] = Raised(r)
      BY <3>1, RaisedCalm
    <3>2. CASE Changed(req'[r], req[r], {"todo", "at"}) /\ req'[r].at \in {"evaluate", "select_nodes"}
      BY <3>2 DEF GoesOn, Changed, Fields
    <3> QED
      BY <1>16, <3>1, <3>2, SelectFacts
  <2> QED
    BY <1>5, <2>1, <2>2
<1>17. CASE Analyze(r)
  <2>1. (\E next : Goes(r, next)) /\ UNCHANGED runs
    BY <1>17 DEF Analyze, Reads, store
  <2>2. Starts(req'[r]) \/ GoesOn(req'[r], req[r])
    <3>1. CASE Changed(req'[r], req[r], {"plan", "at"}) /\ req'[r].at \in {"report", "select"}
      BY <3>1 DEF GoesOn, Changed, Fields
    <3> QED
      BY <1>17, <3>1, AnalyzeFacts, IdleStarts
  <2> QED
    BY <1>5, <2>1, <2>2
<1>18. CASE SaveReport(r)
  BY <1>6, <1>18, IdleStarts DEF SaveReport
<1>19. CASE ReadFeedback(r)
  <2>1. (\E next : Goes(r, next)) /\ UNCHANGED runs
    BY <1>19 DEF ReadFeedback, Reads, store
  <2>2. Starts(req'[r]) \/ GoesOn(req'[r], req[r])
    <3>1. req[r].op.op \notin {"regression", "gate"}
      BY <1>7, <1>19 DEF Where, OpFits, ReadFeedback, Stands
    <3>2. CASE Changed(req'[r], req[r], {"doc", "key", "at"}) /\ req'[r].at \in {"save_feedback", "convert"}
      BY <3>1, <3>2 DEF GoesOn, Changed, Fields
    <3> QED
      BY <1>19, <3>2, ReadFeedbackFacts, IdleStarts
  <2> QED
    BY <1>5, <2>1, <2>2
<1>20. CASE SaveFeedback(r)
  <2>1. \E key : Writes(r, key, Idle) /\ UNCHANGED runs
    BY <1>20 DEF SaveFeedback, WritesFeedback
  <2> QED
    BY <1>6, <2>1, IdleStarts
<1>21. CASE SaveConverted(r)
  <2>1. PICK id, doc, next : WritesCase(r, id, doc, next) /\ next.at = "mark" /\ Changed(next, req[r], {"at", "todo"})
    BY <1>21, SaveConvertedFacts
  <2>2. GoesOn(next, req[r])
    BY <2>1 DEF GoesOn, Changed, Fields
  <2> QED
    BY <1>6, <2>1, <2>2 DEF WritesCase
<1>22. CASE MarkConverted(r)
  <2>1. \E key : Writes(r, key, Idle) /\ UNCHANGED runs
    BY <1>22 DEF MarkConverted, WritesFeedback
  <2> QED
    BY <1>6, <2>1, IdleStarts
<1>23. CASE ReadFailures(r)
  <2>1. (\E next : Goes(r, next)) /\ UNCHANGED runs
    BY <1>23 DEF ReadFailures, Reads, store
  <2>2. Starts(req'[r]) \/ GoesOn(req'[r], req[r])
    <3>1. CASE Changed(req'[r], req[r], {"todo", "at", "key", "stale"}) /\ req'[r].at = "save_failure"
      BY <3>1 DEF GoesOn, Changed, Fields
    <3> QED
      BY <1>23, <3>1, ReadFailuresFacts, IdleStarts
  <2> QED
    BY <1>5, <2>1, <2>2
<1>24. CASE SaveFailure(r)
  <2>1. PICK id, doc, key, next : /\ WritesFeedback(r, id, doc, key, next) /\ req[r].at = "save_failure"
                                  /\ next = Idle \/ Changed(next, req[r], {"todo"})
    BY <1>24, SaveFailureFacts
  <2>2. Starts(next) \/ GoesOn(next, req[r])
    BY <2>1, IdleStarts DEF GoesOn, Changed, Fields
  <2> QED
    BY <1>6, <2>1, <2>2 DEF WritesFeedback
<1>25. CASE ReadProfile(r)
  <2>1. (\E next : Goes(r, next)) /\ UNCHANGED runs
    BY <1>25 DEF ReadProfile, Reads, store
  <2>2. Starts(req'[r]) \/ GoesOn(req'[r], req[r])
    <3>1. CASE Changed(req'[r], req[r], {"doc", "key", "at"}) /\ req'[r].at = "save_profile" /\ req[r].op.op \in {"upsert", "disable"}
      BY <3>1 DEF GoesOn, Changed, Fields
    <3> QED
      BY <1>25, <3>1, ReadProfileFacts, IdleStarts
  <2> QED
    BY <1>5, <2>1, <2>2
<1>26. CASE SaveProfile(r)
  <2>1. \E key : Writes(r, key, Idle) /\ UNCHANGED runs
    BY <1>26 DEF SaveProfile, WritesProfile
  <2> QED
    BY <1>6, <2>1, IdleStarts
<1> QED
  BY <1>1, <1>8, <1>9, <1>10, <1>11, <1>12, <1>13, <1>14, <1>15, <1>16,
     <1>17, <1>18, <1>19, <1>20, <1>21, <1>22, <1>23, <1>24, <1>25, <1>26

RunsShape == \A n \in DOMAIN runs : RunDocument(runs[n])

\* What a request holds of the runs is so: a run it is about to judge is stored with the
\* results it has gathered and has not passed yet, what it says has passed has passed.
RunReq(q, rs) ==
  /\ IsFiniteSet(q.results)
  /\ q.at \in {"patch", "compare"} => q.run \in DOMAIN rs
  /\ q.at = "patch" => rs[q.run].results = q.results /\ ~rs[q.run].gate.passed
  /\ \A d \in q.done : d.passed => d.run \in DOMAIN rs /\ rs[d.run].gate.passed

\* No two requests judge the same run.
RunsApart ==
  \A p, q \in Requesters :
    p # q /\ req[p].at \in {"patch", "compare"} /\ req[q].at \in {"patch", "compare"} => req[p].run # req[q].run

ReportsTrue ==
  \A n \in DOMAIN reports :
    reports[n].status = "passed" =>
      \A d \in reports[n].runs : d.run \in DOMAIN runs /\ runs[d.run].gate.passed

RunInv == WhereInv /\ RunsShape /\ RunsApart /\ ReportsTrue /\ \A r \in Requesters : RunReq(req[r], runs)

LEMMA RunReqStays ==
  ASSUME NEW new, NEW old, NEW rs, NEW id, NEW doc, RunReq(old, rs), Same(new, old),
         old.at \in {"patch", "compare"} => old.run # id,
         id \in DOMAIN rs /\ rs[id].gate.passed => doc.gate.passed
  PROVE  RunReq(new, Put(rs, id, doc))
<1> DEFINE rs2 == Put(rs, id, doc)
<1>1. new.at = old.at /\ new.results = old.results /\ new.run = old.run /\ new.done = old.done
  BY DEF Same, Fields
<1>2. \A n \in DOMAIN rs : n \in DOMAIN rs2 /\ (n # id => rs2[n] = rs[n]) /\ (rs[n].gate.passed => rs2[n].gate.passed)
  <2>1. ASSUME NEW n \in DOMAIN rs PROVE n \in DOMAIN rs2 /\ (n # id => rs2[n] = rs[n]) /\ (n = id => rs2[n] = doc)
    BY DEF Put
  <2> HIDE DEF rs2
  <2> QED
    BY <2>1
<1> HIDE DEF rs2
<1>3. ASSUME new.at \in {"patch", "compare"} PROVE new.run \in DOMAIN rs2
  BY <1>1, <1>2, <1>3 DEF RunReq
<1>4. ASSUME new.at = "patch" PROVE rs2[new.run].results = new.results /\ ~rs2[new.run].gate.passed
  <2>1. old.run \in DOMAIN rs /\ old.run # id /\ rs[old.run].results = old.results /\ ~rs[old.run].gate.passed
    BY <1>1, <1>4 DEF RunReq
  <2>2. rs2[old.run] = rs[old.run]
    BY <1>2, <2>1
  <2> QED
    BY <1>1, <2>1, <2>2
<1>5. ASSUME NEW d \in new.done, d.passed PROVE d.run \in DOMAIN rs2 /\ rs2[d.run].gate.passed
  BY <1>1, <1>2, <1>5 DEF RunReq
<1> QED
  BY <1>1, <1>3, <1>4, <1>5 DEF RunReq, rs2

LEMMA RunReqSame ==
  ASSUME NEW new, NEW old, NEW rs, RunReq(old, rs), Same(new, old)
  PROVE  RunReq(new, rs)
<1>1. new.at = old.at /\ new.results = old.results /\ new.run = old.run /\ new.done = old.done
  BY DEF Same, Fields
<1> QED
  BY <1>1 DEF RunReq

\* A request that begins, gives up or goes on.
LEMMA CalmRunReq ==
  ASSUME NEW n, NEW q, NEW rs, RunReq(q, rs),
         \/ Starts(n) \/ GaveUp(n, q) \/ GoesOn(n, q)
         \/ \E r : Gathers(r, n, q)
  PROVE  RunReq(n, rs) /\ n.at \notin {"patch", "compare"}
<1>1. CASE Starts(n)
  BY <1>1, FS_EmptySet DEF Starts, RunReq
<1>2. CASE GaveUp(n, q)
  BY <1>2, FS_EmptySet DEF GaveUp, RunReq
<1>3. CASE GoesOn(n, q)
  BY <1>3 DEF GoesOn, RunReq
<1>4. CASE \E r : Gathers(r, n, q)
  <2>1. PICK result : n.results = q.results \cup {result} /\ n.done = q.done /\ n.at = "evaluate"
    BY <1>4 DEF Gathers
  <2>2. IsFiniteSet(n.results)
    BY <2>1, FS_AddElement DEF RunReq
  <2> QED
    BY <2>1, <2>2 DEF RunReq
<1> QED
  BY <1>1, <1>2, <1>3, <1>4

\* An agent of a gate whose run is stored with its gate is done.
LEMMA AnsweredRunReq ==
  ASSUME WhereInv, NEW r \in Requesters, req[r].at \in {"patch", "compare"}, RunReq(req[r], runs),
         NEW doc, runs[req[r].run].gate.passed => doc.gate.passed, NEW passed, passed => doc.gate.passed
  PROVE  LET n == Answered(r, passed, FALSE)
         IN  RunReq(n, Put(runs, req[r].run, doc)) /\ n.at \notin {"patch", "compare"}
<1> DEFINE n == Answered(r, passed, FALSE)
           q == req[r]
           rs2 == Put(runs, q.run, doc)
<1>1. CASE n = Idle
  BY <1>1, IdleFacts, FS_EmptySet DEF RunReq
<1>2. CASE n # Idle
  <2>1. /\ n.at \in {"report", "select"} /\ n.results = {}
        /\ \E a : n.done = q.done \cup {[agent |-> a, run |-> q.run, passed |-> passed, error |-> FALSE]}
    <3>1. q.at # "idle"
      OBVIOUS
    <3> QED
      BY <1>2, <3>1, AnsweredFacts
  <2>2. q.run \in DOMAIN runs /\ \A d \in q.done : d.passed => d.run \in DOMAIN runs /\ runs[d.run].gate.passed
    BY DEF RunReq
  <2>3. \A x \in DOMAIN runs : x \in DOMAIN rs2 /\ (x # q.run => rs2[x] = runs[x]) /\ (x = q.run => rs2[x] = doc)
    BY DEF Put
  <2>4. runs[q.run].gate.passed => doc.gate.passed
    OBVIOUS
  <2> HIDE DEF n, q, rs2
  <2>5. \A d \in n.done : d.passed => d.run \in DOMAIN rs2 /\ rs2[d.run].gate.passed
    <3> TAKE d \in n.done
    <3>1. CASE d \in q.done
      <4>1. d.passed => d.run \in DOMAIN runs /\ runs[d.run].gate.passed
        BY <2>2, <3>1
      <4>2. d.passed => d.run \in DOMAIN rs2 /\ (d.run = q.run => rs2[d.run] = doc) /\ (d.run # q.run => rs2[d.run] = runs[d.run])
        BY <2>3, <4>1
      <4> QED
        BY <2>4, <4>1, <4>2
    <3>2. CASE d \notin q.done
      <4>1. d.run = q.run /\ d.passed = passed
        BY <2>1, <3>2
      <4>2. rs2[q.run] = doc /\ q.run \in DOMAIN rs2
        BY <2>2, <2>3
      <4> QED
        BY <4>1, <4>2
    <3> QED
      BY <3>1, <3>2
  <2> QED
    BY <2>1, <2>5, FS_EmptySet DEF RunReq, n, rs2, q
<1> QED
  BY <1>1, <1>2

\* A document of a run is written: whose run it is, and what stays.
LEMMA RunWritten ==
  ASSUME RunInv, NEW r \in Requesters, NEW id, NEW doc, runs' = Put(runs, id, doc),
         RunDocument(doc), \A p \in Requesters \ {r} : Same(req'[p], req[p]),
         \A p \in Requesters \ {r} : req[p].at \in {"patch", "compare"} => req[p].run # id,
         id \in DOMAIN runs /\ runs[id].gate.passed => doc.gate.passed,
         RunReq(req'[r], runs'), req'[r].at \in {"patch", "compare"} => req'[r].run = id,
         UNCHANGED reports
  PROVE  RunsShape' /\ RunsApart' /\ ReportsTrue' /\ \A p \in Requesters : RunReq(req'[p], runs')
<1>1. \A n \in DOMAIN runs' : runs'[n] = doc \/ (n \in DOMAIN runs /\ runs'[n] = runs[n])
  BY DEF Put
<1>2. RunsShape'
  <2>1. ASSUME NEW n \in DOMAIN runs' PROVE RunDocument(runs'[n])
    BY <1>1 DEF RunInv, RunsShape
  <2> QED
    BY <2>1 DEF RunsShape
<1>3. ASSUME NEW p \in Requesters PROVE RunReq(req'[p], runs')
  <2>1. CASE p = r
    BY <2>1
  <2>2. CASE p # r
    <3>1. RunReq(req[p], runs) /\ Same(req'[p], req[p]) /\ (req[p].at \in {"patch", "compare"} => req[p].run # id)
      BY <2>2 DEF RunInv
    <3> QED
      BY <3>1, RunReqStays
  <2> QED
    BY <2>1, <2>2
<1>4. RunsApart'
  <2>1. ASSUME NEW p \in Requesters \ {r} PROVE req'[p].at = req[p].at /\ req'[p].run = req[p].run
    BY DEF Same, Fields
  <2>2. ASSUME NEW p \in Requesters, NEW q \in Requesters, p # q,
               req'[p].at \in {"patch", "compare"}, req'[q].at \in {"patch", "compare"}
        PROVE  req'[p].run # req'[q].run
    <3>1. CASE p = r
      <4>1. q # r /\ req'[p].run = id
        BY <2>2, <3>1
      <4>2. req[q].run # id /\ req'[q].run = req[q].run
        BY <2>1, <2>2, <4>1
      <4> QED
        BY <4>1, <4>2
    <3>2. CASE q = r
      <4>1. p # r /\ req'[q].run = id
        BY <2>2, <3>2
      <4>2. req[p].run # id /\ req'[p].run = req[p].run
        BY <2>1, <2>2, <4>1
      <4> QED
        BY <4>1, <4>2
    <3>3. CASE p # r /\ q # r
      BY <2>1, <2>2, <3>3 DEF RunInv, RunsApart
    <3> QED
      BY <3>1, <3>2, <3>3
  <2> QED
    BY <2>2 DEF RunsApart
<1>5. ReportsTrue'
  <2>1. ASSUME NEW n \in DOMAIN runs PROVE n \in DOMAIN runs' /\ (runs[n].gate.passed => runs'[n].gate.passed)
    <3>1. n \in DOMAIN runs' /\ (n = id => runs'[n] = doc) /\ (n # id => runs'[n] = runs[n])
      BY DEF Put
    <3> QED
      BY <3>1
  <2> QED
    BY <2>1 DEF RunInv, ReportsTrue
<1> QED
  BY <1>2, <1>3, <1>4, <1>5

LEMMA ReportMoves ==
  ASSUME LibraryNext
  PROVE  \/ UNCHANGED reports
         \/ \E r \in Requesters : SaveReport(r)
BY DEF LibraryNext, Begin, Raise, ReadCase, SaveCase, CreateCase, ListCases, Evaluate, SaveRun, SelectCases,
       SelectNodeCases, PatchRun, CompareRun, Analyze, ReadFeedback, SaveFeedback, SaveConverted,
       MarkConverted, ReadFailures, SaveFailure, ReadProfile, SaveProfile,
       WritesCase, WritesRun, WritesFeedback, WritesProfile, Reads, store

LEMMA NoRuns ==
  ASSUME RunInv, UNCHANGED runs, NEW r \in Requesters, \A p \in Requesters \ {r} : Same(req'[p], req[p]), Calm(r),
         LibraryNext
  PROVE  RunsShape' /\ RunsApart' /\ ReportsTrue' /\ \A p \in Requesters : RunReq(req'[p], runs')
<1>1. RunsShape'
  BY DEF RunInv, RunsShape
<1>2. RunReq(req'[r], runs) /\ req'[r].at \notin {"patch", "compare"}
  BY CalmRunReq DEF RunInv, Calm
<1>3. ASSUME NEW p \in Requesters \ {r} PROVE RunReq(req'[p], runs) /\ req'[p].at = req[p].at /\ req'[p].run = req[p].run
  <2>1. RunReq(req[p], runs) /\ Same(req'[p], req[p])
    BY DEF RunInv
  <2>2. RunReq(req'[p], runs)
    BY <2>1, RunReqSame
  <2> QED
    BY <2>1, <2>2 DEF Same, Fields
<1>4. RunsApart'
  BY <1>2, <1>3 DEF RunInv, RunsApart
<1>5. ReportsTrue'
  <2>1. CASE UNCHANGED reports
    BY <2>1 DEF RunInv, ReportsTrue
  <2>2. ASSUME NEW p \in Requesters, SaveReport(p) PROVE ReportsTrue'
    <3> DEFINE id == Fresh(ReportIds, reports)
               rep == _build_report(req[p].op, req[p].done)
    <3>1. reports' = Put(reports, id, rep)
      BY <2>2 DEF SaveReport
    <3>2. rep.runs = req[p].done /\ (rep.status = "passed" => \A d \in req[p].done : d.passed)
      BY DEF _build_report
    <3>3. \A d \in req[p].done : d.passed => d.run \in DOMAIN runs /\ runs[d.run].gate.passed
      BY DEF RunInv, RunReq
    <3> HIDE DEF rep, id
    <3>4. \A n \in DOMAIN reports' : reports'[n] = rep \/ (n \in DOMAIN reports /\ reports'[n] = reports[n])
      BY <3>1 DEF Put
    <3>5. ASSUME NEW n \in DOMAIN reports', reports'[n].status = "passed", NEW d \in reports'[n].runs
          PROVE  d.run \in DOMAIN runs' /\ runs'[d.run].gate.passed
      <4>1. CASE reports'[n] = rep
        BY <3>2, <3>3, <3>5, <4>1
      <4>2. CASE n \in DOMAIN reports /\ reports'[n] = reports[n]
        BY <3>5, <4>2 DEF RunInv, ReportsTrue
      <4> QED
        BY <3>4, <4>1, <4>2
    <3> QED
      BY <3>5 DEF ReportsTrue
  <2> QED
    BY <2>1, <2>2, ReportMoves
<1> QED
  BY <1>1, <1>2, <1>3, <1>4, <1>5

LEMMA RunStep ==
  ASSUME RunInv, LibraryNext
  PROVE  RunInv'
<1>1. WhereInv /\ WhereInv'
  BY WhereStep DEF RunInv
<1>2. PICK r \in Requesters :
           /\ \A p \in Requesters \ {r} : Same(req'[p], req[p])
           /\ \/ SaveRun(r) \/ PatchRun(r) \/ CompareRun(r)
              \/ UNCHANGED runs /\ Calm(r)
  BY <1>1, RunMoves
<1> DEFINE Fine == RunsShape' /\ RunsApart' /\ ReportsTrue' /\ \A p \in Requesters : RunReq(req'[p], runs')
           q == req[r]
<1>3. RunReq(q, runs)
  BY DEF RunInv
<1>4. CASE UNCHANGED runs /\ Calm(r)
  BY <1>1, <1>2, <1>4, NoRuns DEF RunInv
<1>5. ASSUME SaveRun(r) PROVE Fine
  <2> DEFINE id == Fresh(RunIds, runs)
             doc == [results |-> q.results, at |-> Cardinality(DOMAIN runs),
                     gate |-> NoGate, config |-> [fail_on_critical |-> FALSE], compared |-> "no"]
  <2>1. PICK next : /\ Spare(RunIds, runs) /\ WritesRun(r, id, doc, next)
                    /\ \/ next = Idle
                       \/ Changed(next, q, {"at", "run"}) /\ next.at = "patch" /\ next.run = id
    BY <1>1, <1>5, SaveRunFacts
  <2>2. id \notin DOMAIN runs
    BY <2>1, FreshFacts
  <2>3. runs' = Put(runs, id, doc) /\ Writes(r, <<"run", id>>, next) /\ UNCHANGED reports
    BY <2>1 DEF WritesRun
  <2>4. doc.results = q.results /\ ~doc.gate.passed /\ RunDocument(doc)
    BY <1>3 DEF RunDocument, NoGate, RunReq
  <2> HIDE DEF doc, id, q
  <2>5. ASSUME NEW p \in Requesters \ {r}, req[p].at \in {"patch", "compare"} PROVE req[p].run # id
    BY <2>2, <2>5 DEF RunInv, RunReq
  <2>6. RunReq(req'[r], runs') /\ (req'[r].at \in {"patch", "compare"} => req'[r].run = id)
    <3>1. \A n \in DOMAIN runs : n \in DOMAIN runs' /\ runs'[n] = runs[n]
      BY <2>2, <2>3 DEF Put
    <3>2. CASE Starts(req'[r]) \/ GaveUp(req'[r], q)
      <4>1. RunReq(req'[r], runs) /\ req'[r].at \notin {"patch", "compare"}
        BY <1>3, <3>2, CalmRunReq
      <4> QED
        BY <3>1, <4>1 DEF RunReq
    <3>3. CASE req'[r] = next /\ Changed(next, q, {"at", "run"}) /\ next.at = "patch" /\ next.run = id
      <4>1. next.results = q.results /\ next.done = q.done
        BY <3>3 DEF Changed, Fields
      <4>2. id \in DOMAIN runs' /\ runs'[id] = doc
        BY <2>3 DEF Put
      <4>3. IsFiniteSet(q.results) /\ \A d \in q.done : d.passed => d.run \in DOMAIN runs /\ runs[d.run].gate.passed
        BY <1>3 DEF RunReq
      <4> QED
        BY <2>4, <3>1, <3>3, <4>1, <4>2, <4>3 DEF RunReq
    <3>4. req'[r] = next \/ Starts(req'[r]) \/ GaveUp(req'[r], q)
      BY <1>1, <2>3, WritesFacts, RaisedCalm DEF q
    <3> QED
      BY <2>1, <3>2, <3>3, <3>4, IdleStarts
  <2> QED
    BY <1>2, <2>2, <2>3, <2>4, <2>5, <2>6, RunWritten
<1>6. ASSUME NEW doc, NEW next, q.at \in {"patch", "compare"},
             WritesRun(r, q.run, doc, next), RunDocument(doc), runs[q.run].gate.passed => doc.gate.passed,
             RunReq(next, Put(runs, q.run, doc)), next.at \in {"patch", "compare"} => next.run = q.run
      PROVE  Fine
  <2> DEFINE id == q.run
  <2>1. runs' = Put(runs, id, doc) /\ Writes(r, <<"run", id>>, next) /\ UNCHANGED reports
    BY <1>6 DEF WritesRun
  <2>2. ASSUME NEW p \in Requesters \ {r}, req[p].at \in {"patch", "compare"} PROVE req[p].run # id
    BY <1>6, <2>2 DEF RunInv, RunsApart
  <2>3. RunReq(req'[r], runs') /\ (req'[r].at \in {"patch", "compare"} => req'[r].run = id)
    <3>1. CASE req'[r] = next
      BY <1>6, <2>1, <3>1
    <3>2. CASE Starts(req'[r]) \/ GaveUp(req'[r], q)
      <4>1. RunReq(req'[r], runs) /\ req'[r].at \notin {"patch", "compare"}
        BY <1>3, <3>2, CalmRunReq
      <4>2. \A n \in DOMAIN runs : n \in DOMAIN runs' /\ (n = id => runs'[n] = doc) /\ (n # id => runs'[n] = runs[n])
        BY <2>1 DEF Put
      <4>3. ASSUME NEW d \in req'[r].done, d.passed PROVE d.run \in DOMAIN runs' /\ runs'[d.run].gate.passed
        <5>1. d.run \in DOMAIN runs /\ runs[d.run].gate.passed
          BY <4>1, <4>3 DEF RunReq
        <5> QED
          BY <1>6, <4>2, <5>1
      <4> QED
        BY <4>1, <4>3 DEF RunReq
    <3> QED
      BY <1>1, <2>1, <3>1, <3>2, WritesFacts, RaisedCalm
  <2> QED
    BY <1>2, <1>6, <2>1, <2>2, <2>3, RunWritten
<1>7. ASSUME PatchRun(r) PROVE Fine
  <2> DEFINE p    == Payload(r)
             gate == GateOf(p, q.results)
             doc  == [runs[q.run] EXCEPT !.gate = gate, !.config = [fail_on_critical |-> p.gate.fail_on_critical]]
  <2>1. PICK next : /\ q.at = "patch" /\ WritesRun(r, q.run, doc, next)
                    /\ \/ next = Answered(r, gate.passed, FALSE)
                       \/ Changed(next, q, {"at"}) /\ next.at = "compare"
    BY <1>1, <1>7, PatchRunFacts
  <2>2. q.run \in DOMAIN runs /\ ~runs[q.run].gate.passed /\ RunDocument(runs[q.run])
    BY <1>3, <2>1 DEF RunReq, RunInv, RunsShape
  <2>3. doc.gate = gate /\ RunDocument(doc)
    <3> HIDE DEF gate, p, q
    <3> QED
      BY <2>2 DEF RunDocument
  <2>4. CASE next = Answered(r, gate.passed, FALSE)
    <3> HIDE DEF doc, gate
    <3>1. RunReq(next, Put(runs, q.run, doc)) /\ next.at \notin {"patch", "compare"}
      BY <1>1, <1>3, <2>1, <2>2, <2>3, <2>4, AnsweredRunReq
    <3> QED
      BY <1>6, <2>1, <2>2, <2>3, <3>1
  <2>5. CASE Changed(next, q, {"at"}) /\ next.at = "compare"
    <3> HIDE DEF doc, gate
    <3>1. next.run = q.run /\ next.results = q.results /\ next.done = q.done
      BY <2>5 DEF Changed, Fields
    <3>2. \A n \in DOMAIN runs : n \in DOMAIN Put(runs, q.run, doc) /\ (n # q.run => Put(runs, q.run, doc)[n] = runs[n])
      BY DEF Put
    <3>3. ASSUME NEW d \in next.done, d.passed
          PROVE  d.run \in DOMAIN Put(runs, q.run, doc) /\ Put(runs, q.run, doc)[d.run].gate.passed
      <4>1. d.run \in DOMAIN runs /\ runs[d.run].gate.passed
        BY <1>3, <3>1, <3>3 DEF RunReq
      <4> QED
        BY <2>2, <3>2, <4>1
    <3>4. RunReq(next, Put(runs, q.run, doc))
      BY <1>3, <2>2, <2>5, <3>1, <3>2, <3>3 DEF RunReq
    <3> QED
      BY <1>6, <2>1, <2>2, <2>3, <3>1, <3>4
  <2> QED
    BY <2>1, <2>4, <2>5
<1>8. ASSUME CompareRun(r) PROVE Fine
  <2>1. PICK word : /\ q.at = "compare"
                    /\ WritesRun(r, q.run, [runs[q.run] EXCEPT !.compared = word], Answered(r, runs[q.run].gate.passed, FALSE))
    BY <1>1, <1>8, CompareRunFacts
  <2> DEFINE doc == [runs[q.run] EXCEPT !.compared = word]
             passed == runs[q.run].gate.passed
  <2>2. q.run \in DOMAIN runs /\ RunDocument(runs[q.run])
    BY <1>3, <2>1 DEF RunReq, RunInv, RunsShape
  <2>3. doc.gate = runs[q.run].gate /\ RunDocument(doc)
    BY <2>2 DEF RunDocument
  <2> HIDE DEF doc
  <2>4. RunReq(Answered(r, passed, FALSE), Put(runs, q.run, doc)) /\ Answered(r, passed, FALSE).at \notin {"patch", "compare"}
    BY <1>1, <1>3, <2>1, <2>3, AnsweredRunReq
  <2>5. WritesRun(r, q.run, doc, Answered(r, passed, FALSE))
    BY <2>1 DEF doc
  <2>6. (runs[q.run].gate.passed => doc.gate.passed) /\ q.at \in {"patch", "compare"}
    BY <2>1, <2>3
  <2> DEFINE next == Answered(r, passed, FALSE)
  <2>7. /\ WritesRun(r, q.run, doc, next) /\ RunReq(next, Put(runs, q.run, doc))
        /\ next.at \in {"patch", "compare"} => next.run = q.run
    BY <2>4, <2>5
  <2> HIDE DEF next, passed, Fine
  <2> QED
    BY <1>6, <2>3, <2>6, <2>7
<1> QED
  BY <1>1, <1>2, <1>4, <1>5, <1>7, <1>8 DEF RunInv

---------------------------------------------------------------------------
(* Feedback and what requests hold of it *)

\* A request holds what it held, and may hold an old document now.
Holds(new, old) == Same(new, old) /\ (~new.stale => ~old.stale)

\* Where a request holds a feedback, and where it holds neither one nor a case nor knows of
\* failures without one.
WithFeedback(q) == q.at \in {"convert", "mark"} \/ (q.at = "save_feedback" /\ q.op.op = "note")
AwayFromCases(q) == q.at \notin {"save_failure", "save_case"} /\ ~WithFeedback(q)

LEMMA IdleAway == AwayFromCases(Idle)
BY IdleFacts DEF AwayFromCases, WithFeedback

LEMMA RaisedAway ==
  ASSUME WhereInv, NEW r \in Requesters
  PROVE  AwayFromCases(Raised(r))
<1>1. CASE Raised(r) = Idle
  BY <1>1, IdleAway
<1>2. CASE Raised(r) # Idle
  BY <1>2, RaisedFacts DEF AwayFromCases, WithFeedback
<1> QED
  BY <1>1, <1>2

\* What a step does that writes no feedback.
LEMMA FeedMoves ==
  ASSUME WhereInv, LibraryNext
  PROVE  \E r \in Requesters :
           \/ SaveFeedback(r) \/ MarkConverted(r) \/ SaveFailure(r)
           \/ /\ UNCHANGED feedback /\ \A p \in Requesters \ {r} : Holds(req'[p], req[p])
              /\ AwayFromCases(req'[r]) \/ ReadCase(r) \/ ReadFeedback(r) \/ SaveConverted(r) \/ ReadFailures(r)
<1>1. PICK r \in Requesters :
     \/ Begin(r) \/ Raise(r)
     \/ ReadCase(r) \/ SaveCase(r) \/ CreateCase(r)
     \/ ListCases(r) \/ Evaluate(r) \/ SaveRun(r)
     \/ SelectCases(r) \/ SelectNodeCases(r) \/ PatchRun(r) \/ CompareRun(r)
     \/ Analyze(r) \/ SaveReport(r)
     \/ ReadFeedback(r) \/ SaveFeedback(r) \/ SaveConverted(r) \/ MarkConverted(r)
     \/ ReadFailures(r) \/ SaveFailure(r)
     \/ ReadProfile(r) \/ SaveProfile(r)
  BY DEF LibraryNext
<1> DEFINE Others == \A p \in Requesters \ {r} : Holds(req'[p], req[p])
           Quiet  == /\ UNCHANGED feedback /\ Others
                     /\ AwayFromCases(req'[r]) \/ ReadCase(r) \/ ReadFeedback(r) \/ SaveConverted(r) \/ ReadFailures(r)
           Fine   == SaveFeedback(r) \/ MarkConverted(r) \/ SaveFailure(r) \/ Quiet
<1>2. ASSUME NEW next, Goes(r, next) PROVE Others
  <2>1. ASSUME NEW p \in Requesters \ {r} PROVE Holds(req'[p], req[p])
    <3>1. req'[p] = req[p]
      BY <1>2, <2>1, GoesFacts
    <3> QED
      BY <3>1 DEF Holds, Same
  <2> QED
    BY <2>1
<1>3. ASSUME NEW next, NEW key, Writes(r, key, next)
      PROVE  Others /\ (req'[r] = next \/ req'[r] = Raised(r))
  <2>1. ASSUME NEW p \in Requesters \ {r} PROVE Holds(req'[p], req[p])
    BY <1>3, WritesFacts DEF Holds, Same, Follows
  <2> QED
    BY <1>3, <2>1, WritesFacts
<1>4. ASSUME NEW next, Goes(r, next), UNCHANGED store, AwayFromCases(req'[r]) PROVE Fine
  BY <1>2, <1>4 DEF store
<1>5. ASSUME NEW next, NEW key, Writes(r, key, next), UNCHANGED feedback, AwayFromCases(next) PROVE Fine
  <2>1. Others /\ (req'[r] = next \/ req'[r] = Raised(r))
    BY <1>3, <1>5
  <2>2. AwayFromCases(Raised(r))
    BY RaisedAway
  <2>3. AwayFromCases(req'[r])
    BY <1>5, <2>1, <2>2
  <2> QED
    BY <1>5, <2>1, <2>3
<1>6. Where(req[r])
  BY DEF WhereInv
<1> SUFFICES Fine
  OBVIOUS
<1>7. ASSUME ReadCase(r) \/ ReadFeedback(r) \/ ReadFailures(r) PROVE Fine
  <2>1. UNCHANGED feedback /\ \E next : Goes(r, next)
    BY <1>7 DEF ReadCase, ReadFeedback, ReadFailures, Reads, store
  <2> QED
    BY <1>2, <1>7, <2>1
<1>8. ASSUME SaveConverted(r) PROVE Fine
  <2>1. UNCHANGED feedback /\ \E next, key : Writes(r, key, next)
    BY <1>8 DEF SaveConverted, WritesCase
  <2> QED
    BY <1>3, <1>8, <2>1
<1>9. ASSUME SaveFeedback(r) \/ MarkConverted(r) \/ SaveFailure(r) PROVE Fine
  BY <1>9
<1> HIDE DEF Fine
<1>10. CASE Begin(r)
  <2>1. PICK op \in Menu :
         Goes(r, [Idle EXCEPT !.op = op, !.at = FirstStep(op),
                              !.todo = IF "todo" \in DOMAIN op THEN op.todo ELSE <<>>])
    BY <1>10 DEF Begin
  <2> DEFINE n == [Idle EXCEPT !.op = op, !.at = FirstStep(op),
                               !.todo = IF "todo" \in DOMAIN op THEN op.todo ELSE <<>>]
  <2>2. n.at = FirstStep(op) /\ n.op = op
    BY DEF Idle
  <2>3. /\ FirstStep(op) \notin {"save_failure", "save_case", "convert", "mark"}
        /\ FirstStep(op) = "save_feedback" => op.op = "complain"
    BY LibraryAssumption DEF Request, FirstStep
  <2>4. AwayFromCases(n)
    BY <2>2, <2>3 DEF AwayFromCases, WithFeedback
  <2>5. UNCHANGED store
    BY <1>10 DEF Begin, store
  <2> HIDE DEF n
  <2>6. AwayFromCases(req'[r])
    BY <2>1, <2>4, GoesFacts DEF n
  <2> QED
    BY <1>4, <2>1, <2>5, <2>6
<1>11. CASE Raise(r)
  <2>1. Goes(r, Raised(r)) /\ UNCHANGED store
    BY <1>11 DEF Raise, store
  <2> QED
    BY <1>4, <2>1, GoesFacts, RaisedAway
<1>13. CASE SaveCase(r)
  <2>1. \E id : Writes(r, <<"case", id>>, Onward(r)) /\ UNCHANGED feedback
    BY <1>13 DEF SaveCase, WritesCase
  <2>2. Onward(r) = Idle \/ Onward(r).at = "read_case"
    BY <1>13, OnwardFacts DEF SaveCase, Stands
  <2>3. AwayFromCases(Onward(r))
    BY <2>2, IdleAway DEF AwayFromCases, WithFeedback
  <2> QED
    BY <1>5, <2>1, <2>3
<1>14. CASE CreateCase(r)
  <2>1. \E id : Writes(r, <<"case", id>>, Idle) /\ UNCHANGED feedback
    BY <1>14 DEF CreateCase, WritesCase
  <2> QED
    BY <1>5, <2>1, IdleAway
<1>15. CASE ListCases(r)
  <2>1. (\E next : Goes(r, next)) /\ UNCHANGED store
    BY <1>15 DEF ListCases, Reads
  <2>2. AwayFromCases(req'[r])
    BY <1>15, ListCasesFacts DEF AwayFromCases, WithFeedback
  <2> QED
    BY <1>4, <2>1, <2>2
<1>16. CASE Evaluate(r)
  <2>1. (\E next : Goes(r, next)) /\ UNCHANGED store
    BY <1>16 DEF Evaluate, Reads
  <2>2. req'[r].at = "evaluate"
    BY <1>16, EvaluateFacts DEF Changed, Fields
  <2>3. AwayFromCases(req'[r])
    BY <2>2 DEF AwayFromCases, WithFeedback
  <2> QED
    BY <1>4, <2>1, <2>3
<1>17. CASE SaveRun(r)
  <2>1. PICK id, doc, next : WritesRun(r, id, doc, next) /\ (next = Idle \/ next.at = "patch")
    BY <1>17, SaveRunFacts
  <2>2. AwayFromCases(next)
    BY <2>1, IdleAway DEF AwayFromCases, WithFeedback
  <2> QED
    BY <1>5, <2>1, <2>2 DEF WritesRun
<1>18. CASE SelectCases(r) \/ SelectNodeCases(r)
  <2>1. (\E next : Goes(r, next)) /\ UNCHANGED store
    BY <1>18 DEF SelectCases, SelectNodeCases, Reads
  <2>2. req'[r] = Raised(r) \/ req'[r].at \in {"evaluate", "select_nodes"}
    BY <1>18, SelectFacts
  <2>3. AwayFromCases(req'[r])
    BY <2>2, RaisedAway DEF AwayFromCases, WithFeedback
  <2> QED
    BY <1>4, <2>1, <2>3
<1>20. CASE PatchRun(r)
  <2> DEFINE p     == Payload(r)
             gate  == GateOf(p, req[r].results)
             doc   == [runs[req[r].run] EXCEPT !.gate = gate,
                         !.config = [fail_on_critical |-> p.gate.fail_on_critical]]
  <2>1. PICK next : /\ WritesRun(r, req[r].run, doc, next) /\ req[r].at = "patch"
                    /\ \/ next = Answered(r, gate.passed, FALSE)
                       \/ next.at = "compare"
    BY <1>20, PatchRunFacts
  <2>2. Writes(r, <<"run", req[r].run>>, next) /\ UNCHANGED feedback
    BY <2>1 DEF WritesRun
  <2> HIDE DEF gate, doc
  <2>3. AwayFromCases(next)
    <3>1. CASE next = Answered(r, gate.passed, FALSE)
      <4> DEFINE n == Answered(r, gate.passed, FALSE)
      <4>1. req[r].at # "idle"
        BY <2>1
      <4>2. n = Idle \/ n.at \in {"report", "select"}
        BY <4>1, AnsweredFacts
      <4> HIDE DEF n
      <4>3. AwayFromCases(n)
        BY <4>2, IdleAway DEF AwayFromCases, WithFeedback
      <4> QED
        BY <3>1, <4>3 DEF n
    <3>2. CASE next.at = "compare"
      BY <3>2 DEF AwayFromCases, WithFeedback
    <3> QED
      BY <2>1, <3>1, <3>2
  <2> QED
    BY <1>5, <2>2, <2>3
<1>21. CASE CompareRun(r)
  <2> DEFINE passed == runs[req[r].run].gate.passed
  <2>1. /\ req[r].at = "compare"
        /\ \E word : WritesRun(r, req[r].run, [runs[req[r].run] EXCEPT !.compared = word], Answered(r, passed, FALSE))
    BY <1>21, CompareRunFacts
  <2>2. Writes(r, <<"run", req[r].run>>, Answered(r, passed, FALSE)) /\ UNCHANGED feedback
    BY <2>1 DEF WritesRun
  <2> DEFINE n == Answered(r, passed, FALSE)
  <2>3. req[r].at # "idle"
    BY <2>1
  <2>4. n = Idle \/ n.at \in {"report", "select"}
    BY <2>3, AnsweredFacts
  <2>5. Writes(r, <<"run", req[r].run>>, n) /\ UNCHANGED feedback
    BY <2>2
  <2> HIDE DEF n
  <2>6. AwayFromCases(n)
    BY <2>4, IdleAway DEF AwayFromCases, WithFeedback
  <2> QED
    BY <1>5, <2>5, <2>6
<1>22. CASE Analyze(r)
  <2>1. (\E next : Goes(r, next)) /\ UNCHANGED store
    BY <1>22 DEF Analyze, Reads
  <2>2. req'[r] = Idle \/ req'[r].at \in {"report", "select"}
    BY <1>22, AnalyzeFacts
  <2>3. AwayFromCases(req'[r])
    BY <2>2, IdleAway DEF AwayFromCases, WithFeedback
  <2> QED
    BY <1>4, <2>1, <2>3
<1>23. CASE SaveReport(r)
  BY <1>5, <1>23, IdleAway DEF SaveReport
<1>24. CASE ReadProfile(r)
  <2>1. (\E next : Goes(r, next)) /\ UNCHANGED store
    BY <1>24 DEF ReadProfile, Reads
  <2>2. req'[r] = Idle \/ req'[r].at = "save_profile"
    BY <1>24, ReadProfileFacts
  <2>3. AwayFromCases(req'[r])
    BY <2>2, IdleAway DEF AwayFromCases, WithFeedback
  <2> QED
    BY <1>4, <2>1, <2>3
<1>25. CASE SaveProfile(r)
  <2>1. \E key : Writes(r, key, Idle) /\ UNCHANGED feedback
    BY <1>25 DEF SaveProfile, WritesProfile
  <2> QED
    BY <1>5, <2>1, IdleAway
<1> QED
  BY <1>1, <1>7, <1>8, <1>9, <1>10, <1>11, <1>13, <1>14, <1>15, <1>16,
     <1>17, <1>18, <1>20, <1>21, <1>22, <1>23, <1>24, <1>25

\* The inductive invariant of the runs and of what is said of them.
THEOREM RunInvariant == LibrarySpec => []RunInv
<1>1. LibraryInit => RunInv
  <2> SUFFICES ASSUME LibraryInit PROVE RunInv
    OBVIOUS
  <2>1. WhereInv /\ (\A r \in Requesters : req[r] = Idle) /\ reports = <<>>
    BY LibraryInit0
  <2>2. RunsShape
    BY LibraryInit0 DEF RunsShape, FirstStore
  <2>3. RunsApart
    BY <2>1, IdleFacts DEF RunsApart
  <2>4. ReportsTrue
    BY <2>1 DEF ReportsTrue
  <2>5. \A r \in Requesters : RunReq(req[r], runs)
    BY <2>1, IdleFacts, FS_EmptySet DEF RunReq
  <2> QED
    BY <2>1, <2>2, <2>3, <2>4, <2>5 DEF RunInv
<1>2. RunInv /\ [LibraryNext]_libraryVars => RunInv'
  <2>1. ASSUME RunInv, LibraryNext PROVE RunInv'
    BY <2>1, RunStep
  <2>2. ASSUME RunInv, UNCHANGED libraryVars PROVE RunInv'
    <3>1. WhereInv' /\ RunsShape' /\ RunsApart' /\ ReportsTrue'
      BY <2>2 DEF libraryVars, RunInv, WhereInv, RunsShape, RunsApart, ReportsTrue
    <3>2. \A r \in Requesters : RunReq(req'[r], runs')
      BY <2>2 DEF libraryVars, RunInv
    <3> QED
      BY <3>1, <3>2 DEF RunInv
  <2> QED
    BY <2>1, <2>2
<1> QED
  BY <1>1, <1>2, PTL DEF LibrarySpec

---------------------------------------------------------------------------
(* Feedback: a report adds nothing to failures that have a feedback *)

\* What no write to a stored feedback changes.
Told(doc, old) == doc.run = old.run /\ doc.case = old.case

\* A request that holds a feedback holds what it tells.
NoteReq(q, fb) ==
  WithFeedback(q) => /\ q.op.id \in DOMAIN fb
                     /\ FeedbackDocument(q.doc) /\ Told(q.doc, fb[q.op.id])

\* A request that reports failures names each case once, and none that has been reported
\* when it looked, unless another request has reported failures of the run since.
FailReq(q, fb) ==
  q.at = "save_failure" =>
    /\ q.key = <<"failures", q.op.run>>
    /\ q.todo # <<>> /\ (\E S : q.todo \in Seq(S))
    /\ \A i, j \in DOMAIN q.todo : q.todo[i] = q.todo[j] => i = j
    /\ ~q.stale => \A f \in DOMAIN fb, i \in DOMAIN q.todo :
                     fb[f].run = q.op.run => fb[f].case # q.todo[i]

FeedReq(q, fb) == NoteReq(q, fb) /\ FailReq(q, fb)

FeedShape == \A f \in DOMAIN feedback : FeedbackDocument(feedback[f])

FeedInv ==
  /\ RunInv /\ FeedShape
  /\ \A r \in Requesters : FeedReq(req[r], feedback)

LEMMA AwayFeed ==
  ASSUME NEW q, AwayFromCases(q), NEW fb
  PROVE  FeedReq(q, fb)
BY DEF AwayFromCases, FeedReq, NoteReq, FailReq

\* A request that another one's write has passed by.
LEMMA HoldsFeed ==
  ASSUME NEW new, NEW old, NEW fb, Holds(new, old), FeedReq(old, fb)
  PROVE  FeedReq(new, fb)
<1>1. /\ new.at = old.at /\ new.op = old.op /\ new.doc = old.doc /\ new.key = old.key /\ new.todo = old.todo
      /\ ~new.stale => ~old.stale
  BY DEF Holds, Same, Fields
<1>2. NoteReq(new, fb)
  BY <1>1 DEF FeedReq, NoteReq, WithFeedback
<1>3. FailReq(new, fb)
  BY <1>1 DEF FeedReq, FailReq
<1> QED
  BY <1>2, <1>3 DEF FeedReq

\* Writing a stored feedback again.
LEMMA AgainFeed ==
  ASSUME NEW q, NEW fb, FeedReq(q, fb), NEW id \in DOMAIN fb, NEW doc, Told(doc, fb[id])
  PROVE  FeedReq(q, Put(fb, id, doc))
<1> DEFINE fb2 == Put(fb, id, doc)
<1>1. DOMAIN fb2 = DOMAIN fb /\ \A f \in DOMAIN fb : Told(fb2[f], fb[f])
  BY DEF Put, Told
<1> HIDE DEF fb2
<1>2. NoteReq(q, fb2)
  BY <1>1 DEF FeedReq, NoteReq, Told
<1>3. FailReq(q, fb2)
  BY <1>1 DEF FeedReq, FailReq, Told
<1> QED
  BY <1>2, <1>3 DEF FeedReq, fb2

\* A new feedback: who was reporting failures of the same run holds an old listing.
LEMMA AddedFeed ==
  ASSUME NEW new, NEW old, NEW fb, NEW id, id \notin DOMAIN fb, NEW doc,
         Follows(new, old, <<"failures", doc.run>>), FeedReq(old, fb)
  PROVE  FeedReq(new, Put(fb, id, doc))
<1> DEFINE fb2 == Put(fb, id, doc)
<1>1. /\ new.at = old.at /\ new.op = old.op /\ new.doc = old.doc /\ new.key = old.key /\ new.todo = old.todo
      /\ ~new.stale => ~old.stale /\ old.key # <<"failures", doc.run>>
  BY DEF Follows, Fields
<1>2. /\ \A f \in DOMAIN fb : f \in DOMAIN fb2 /\ fb2[f] = fb[f]
      /\ \A f \in DOMAIN fb2 : (f \in DOMAIN fb /\ fb2[f] = fb[f]) \/ fb2[f] = doc
  BY DEF Put
<1> HIDE DEF fb2
<1>3. NoteReq(new, fb2)
  BY <1>1, <1>2 DEF FeedReq, NoteReq, WithFeedback
<1>4. FailReq(new, fb2)
  <2> SUFFICES ASSUME new.at = "save_failure" 
               PROVE  ~new.stale => \A f \in DOMAIN fb2, i \in DOMAIN new.todo :
                        fb2[f].run = new.op.run => fb2[f].case # new.todo[i]
    BY <1>1 DEF FeedReq, FailReq
  <2> SUFFICES ASSUME ~new.stale, NEW f \in DOMAIN fb2, NEW i \in DOMAIN new.todo, fb2[f].run = new.op.run
               PROVE  fb2[f].case # new.todo[i]
    OBVIOUS
  <2>1. old.key = <<"failures", new.op.run>>
    BY <1>1 DEF FeedReq, FailReq
  <2>2. doc.run # new.op.run
    BY <1>1, <2>1
  <2>3. f \in DOMAIN fb /\ fb2[f] = fb[f]
    BY <1>2, <2>2
  <2> QED
    BY <1>1, <2>3 DEF FeedReq, FailReq
<1> QED
  BY <1>3, <1>4 DEF FeedReq, fb2

\* A finite set as a sequence: each element once.
LEMMA SetToSeqFacts ==
  ASSUME NEW S, IsFiniteSet(S)
  PROVE  /\ SetToSeq(S) \in Seq(S)
         /\ \A i, j \in DOMAIN SetToSeq(S) : SetToSeq(S)[i] = SetToSeq(S)[j] => i = j
         /\ S # {} => SetToSeq(S) # <<>>
<1>1. PICK n \in Nat : ExistsBijection(1..n, S)
  BY FS_NatBijection
<1>2. Cardinality(S) = n
  BY <1>1, FS_CountingElements
<1>3. \E f \in [1..Cardinality(S) -> S] : IsInjective(f)
  BY <1>1, <1>2 DEF ExistsBijection, Bijection, Injection
<1>4. SetToSeq(S) \in [1..Cardinality(S) -> S] /\ IsInjective(SetToSeq(S))
  BY <1>3 DEF SetToSeq
<1>5. SetToSeq(S) \in Seq(S)
  BY <1>1, <1>2, <1>4
<1>6. ASSUME S # {} PROVE SetToSeq(S) # <<>>
  <2>1. n # 0
    BY <1>1, <1>6 DEF ExistsBijection, Bijection, Surjection
  <2> QED
    BY <1>2, <1>4, <2>1
<1> QED
  BY <1>4, <1>5, <1>6 DEF IsInjective

LEMMA CasesFinite ==
  ASSUME NEW results, IsFiniteSet(results)
  PROVE  IsFiniteSet(CasesOf(results))
<1> DEFINE f == [x \in results |-> x.case]
<1>1. f \in Surjection(results, CasesOf(results))
  BY DEF Surjection, CasesOf
<1> QED
  BY <1>1, FS_Surjection

LEMMA FailuresFinite ==
  ASSUME NEW results, IsFiniteSet(results), NEW told
  PROVE  IsFiniteSet(CasesOf(WithStatus(results, NotPassed)) \ told)
<1>1. IsFiniteSet(WithStatus(results, NotPassed))
  BY FS_Subset DEF WithStatus
<1>2. IsFiniteSet(CasesOf(WithStatus(results, NotPassed)))
  BY <1>1, CasesFinite
<1> QED
  BY <1>2, FS_Subset

\* The failures a request is about to report.
LEMMA ReadFailuresFeed ==
  ASSUME FeedInv, NEW r \in Requesters, ReadFailures(r)
  PROVE  FeedReq(req'[r], feedback)
<1> DEFINE run == req[r].op.run
           told == ReportedCases(run)
           new == CasesOf(WithStatus(runs[run].results, NotPassed)) \ told
<1>1. WhereInv /\ RunInv
  BY DEF FeedInv, RunInv
<1>2. \/ req'[r] = Idle
      \/ /\ Changed(req'[r], req[r], {"todo", "at", "key", "stale"})
         /\ run \in DOMAIN runs /\ new # {}
         /\ req'[r].todo = SetToSeq(new) /\ req'[r].at = "save_failure"
         /\ req'[r].key = <<"failures", run>> /\ req'[r].stale = FALSE
  BY <1>1, ReadFailuresFacts
<1>3. CASE req'[r] = Idle
  BY <1>3, IdleAway, AwayFeed
<1>4. CASE /\ Changed(req'[r], req[r], {"todo", "at", "key", "stale"})
           /\ run \in DOMAIN runs /\ new # {}
           /\ req'[r].todo = SetToSeq(new) /\ req'[r].at = "save_failure"
           /\ req'[r].key = <<"failures", run>> /\ req'[r].stale = FALSE
  <2>1. IsFiniteSet(runs[run].results)
    BY <1>1, <1>4 DEF RunInv, RunsShape, RunDocument
  <2>2. IsFiniteSet(new)
    BY <2>1, FailuresFinite
  <2>3. req'[r].op = req[r].op /\ req'[r].op.run = run
    BY <1>4 DEF Changed, Fields
  <2>4. \A f \in DOMAIN feedback : feedback[f].run = run => feedback[f].case \notin new
    BY DEF ReportedCases
  <2> DEFINE s == req'[r].todo
  <2> HIDE DEF new
  <2>5. s \in Seq(new) /\ s # <<>> /\ \A i, j \in DOMAIN s : s[i] = s[j] => i = j
    BY <1>4, <2>2, SetToSeqFacts
  <2>6. \A i \in DOMAIN s : s[i] \in new
    BY <2>5
  <2>7. ~WithFeedback(req'[r])
    BY <1>4 DEF WithFeedback
  <2>8. \A f \in DOMAIN feedback, i \in DOMAIN s : feedback[f].run = run => feedback[f].case # s[i]
    BY <2>4, <2>6
  <2> HIDE DEF run
  <2> QED
    BY <1>4, <2>3, <2>5, <2>7, <2>8 DEF FeedReq, NoteReq, FailReq
<1> QED
  BY <1>2, <1>3, <1>4

LEMMA ReadCaseFeed ==
  ASSUME WhereInv, NEW r \in Requesters, ReadCase(r), NEW fb
  PROVE  FeedReq(req'[r], fb)
<1>1. req[r].at = "read_case"
  BY DEF ReadCase, Stands
<1>2. req'[r] = Onward(r) \/ req'[r].at = "save_case"
  BY ReadCaseFacts
<1>3. Onward(r) = Idle \/ Onward(r).at = "read_case"
  BY <1>1, OnwardFacts
<1>4. req'[r].at \in {"idle", "read_case", "save_case"}
  BY <1>2, <1>3, IdleFacts
<1> QED
  BY <1>4 DEF FeedReq, NoteReq, FailReq, WithFeedback

\* The feedback a request is about to write again.
LEMMA ReadFeedbackFeed ==
  ASSUME FeedInv, NEW r \in Requesters, ReadFeedback(r)
  PROVE  FeedReq(req'[r], feedback)
<1>1. WhereInv
  BY DEF FeedInv, RunInv
<1>2. CASE req'[r] = Idle
  BY <1>2, IdleAway, AwayFeed
<1>3. CASE req'[r] # Idle
  <2>1. /\ Changed(req'[r], req[r], {"doc", "key", "at"})
        /\ req[r].op.id \in DOMAIN feedback /\ req'[r].doc = feedback[req[r].op.id]
        /\ req'[r].at \in {"save_feedback", "convert"}
    BY <1>1, <1>3, ReadFeedbackFacts
  <2>2. req'[r].op = req[r].op
    BY <2>1 DEF Changed, Fields
  <2>3. FeedbackDocument(feedback[req[r].op.id])
    BY <2>1 DEF FeedInv, FeedShape
  <2> QED
    BY <2>1, <2>2, <2>3 DEF FeedReq, NoteReq, FailReq, Told
<1> QED
  BY <1>2, <1>3

\* The case that a feedback has been turned into, and what the request holds.
LEMMA SaveConvertedFeed ==
  ASSUME FeedInv, NEW r \in Requesters, SaveConverted(r)
  PROVE  FeedReq(req'[r], feedback)
<1>1. WhereInv /\ FeedReq(req[r], feedback)
  BY DEF FeedInv, RunInv
<1>2. PICK next, key : /\ Writes(r, key, next) /\ req[r].at = "convert"
                       /\ Changed(next, req[r], {"at", "todo"}) /\ next.at = "mark"
  BY <1>1, SaveConvertedFacts DEF WritesCase
<1>3. next.op = req[r].op /\ next.doc = req[r].doc
  BY <1>2 DEF Changed, Fields
<1>4. FeedReq(next, feedback)
  BY <1>1, <1>2, <1>3 DEF FeedReq, NoteReq, FailReq, WithFeedback
<1>5. FeedReq(Raised(r), feedback)
  BY <1>1, RaisedAway, AwayFeed
<1> QED
  BY <1>1, <1>2, <1>4, <1>5, WritesFacts

\* Who writes a feedback, and what: a stored one again, a new one by hand or for a failure.
LEMMA FeedWriters ==
  ASSUME FeedInv, NEW r \in Requesters, SaveFeedback(r) \/ MarkConverted(r) \/ SaveFailure(r)
  PROVE  \E id, doc, key, next :
           /\ WritesFeedback(r, id, doc, key, next) /\ FeedbackDocument(doc)
           /\ \/ /\ id \in DOMAIN feedback /\ Told(doc, feedback[id]) /\ next = Idle /\ WithFeedback(req[r])
              \/ /\ id \notin DOMAIN feedback /\ key = <<"failures", doc.run>>
                 /\ \/ ~doc.automatic /\ next = Idle
                    \/ /\ req[r].at = "save_failure" /\ doc.run = req[r].op.run
                       /\ doc.case = Head(req[r].todo) /\ doc.raced = req[r].stale
                       /\ \/ next = Idle
                          \/ /\ Changed(next, req[r], {"todo"}) /\ next.todo = Tail(req[r].todo)
                             /\ next.todo # <<>>
<1> DEFINE q == req[r]
           Again(id, doc, key, next) ==
             /\ WritesFeedback(r, id, doc, key, next) /\ FeedbackDocument(doc)
             /\ id \in DOMAIN feedback /\ Told(doc, feedback[id]) /\ next = Idle /\ WithFeedback(q)
<1>1. WhereInv /\ Where(q) /\ FeedReq(q, feedback)
  BY DEF FeedInv, RunInv, WhereInv
<1>2. CASE SaveFeedback(r)
  <2>1. q.at = "save_feedback" /\ (q.op.op = "complain" => Spare(FeedbackIds, feedback))
    BY <1>2 DEF SaveFeedback, Stands
  <2>2. q.op \in Menu /\ q.op.op \in {"note", "complain"}
    BY <1>1, <2>1 DEF Where, OpFits
  <2>3. CASE q.op.op = "note"
    <3> DEFINE doc == [q.doc EXCEPT !.status = q.op.status]
    <3>1. WritesFeedback(r, q.op.id, doc, <<"feedback", q.op.id>>, Idle)
      BY <1>2, <2>3 DEF SaveFeedback
    <3>2. WithFeedback(q)
      BY <2>1, <2>3 DEF WithFeedback
    <3>3. q.op.id \in DOMAIN feedback /\ FeedbackDocument(q.doc) /\ Told(q.doc, feedback[q.op.id])
      BY <1>1, <3>2 DEF FeedReq, NoteReq
    <3>4. FeedbackDocument(doc) /\ Told(doc, feedback[q.op.id])
      BY <3>3 DEF FeedbackDocument, Complaint, Told
    <3> HIDE DEF doc, q
    <3>5. \E id, doc0, key, next : Again(id, doc0, key, next)
      BY <3>1, <3>2, <3>3, <3>4
    <3> QED
      BY <3>5 DEF q
  <2>4. CASE q.op.op = "complain"
    <3> DEFINE id == Fresh(FeedbackIds, feedback)
               doc == q.op.feedback
    <3>1. WritesFeedback(r, id, doc, <<"failures", doc.run>>, Idle)
      BY <1>2, <2>4 DEF SaveFeedback
    <3>2. id \notin DOMAIN feedback
      BY <2>1, <2>4, FreshFacts
    <3>3. FeedbackDocument(doc) /\ ~doc.automatic
      BY <2>2, <2>4, LibraryAssumption DEF Request
    <3> HIDE DEF id, doc
    <3> QED
      BY <3>1, <3>2, <3>3
  <2> QED
    BY <2>2, <2>3, <2>4
<1>3. CASE MarkConverted(r)
  <2> DEFINE doc == [q.doc EXCEPT !.status = "converted", !.converted = Head(q.todo)]
  <2>1. q.at = "mark" /\ WritesFeedback(r, q.op.id, doc, <<"feedback", q.op.id>>, Idle)
    BY <1>3 DEF MarkConverted, Stands
  <2>2. WithFeedback(q)
    BY <2>1 DEF WithFeedback
  <2>3. q.op.id \in DOMAIN feedback /\ FeedbackDocument(q.doc) /\ Told(q.doc, feedback[q.op.id])
    BY <1>1, <2>2 DEF FeedReq, NoteReq
  <2>4. FeedbackDocument(doc) /\ Told(doc, feedback[q.op.id])
    BY <2>3 DEF FeedbackDocument, Complaint, Told
  <2> HIDE DEF doc, q
  <2>5. \E id, doc0, key, next : Again(id, doc0, key, next)
    BY <2>1, <2>2, <2>3, <2>4
  <2> QED
    BY <2>5 DEF q
<1>4. CASE SaveFailure(r)
  <2> DEFINE id == Fresh(FeedbackIds, feedback)
             doc == Complaint("eval_result", q.op.run, Head(q.todo), "none",
                              ResultOf(runs[q.op.run].results, Head(q.todo)).agent, TRUE, q.stale)
  <2>1. /\ q.at = "save_failure" /\ Spare(FeedbackIds, feedback)
        /\ \E next : /\ WritesFeedback(r, id, doc, <<"failures", q.op.run>>, next)
                     /\ \/ next = Idle
                        \/ Changed(next, q, {"todo"}) /\ next.todo = Tail(q.todo) /\ next.todo # <<>>
    BY <1>1, <1>4, SaveFailureFacts
  <2>2. id \notin DOMAIN feedback
    BY <2>1, FreshFacts
  <2>3. FeedbackDocument(doc) /\ doc.run = q.op.run /\ doc.case = Head(q.todo) /\ doc.raced = q.stale
    BY DEF FeedbackDocument, Complaint
  <2> HIDE DEF id, doc
  <2>4. PICK next : /\ WritesFeedback(r, id, doc, <<"failures", doc.run>>, next)
                    /\ \/ next = Idle
                       \/ Changed(next, q, {"todo"}) /\ next.todo = Tail(q.todo) /\ next.todo # <<>>
    BY <2>1, <2>3
  <2> QED
    BY <2>1, <2>2, <2>3, <2>4
<1> QED
  BY <1>2, <1>3, <1>4

\* A feedback is stored for a failure: what the request has left to report.
LEMMA LeftToReport ==
  ASSUME WhereInv, NEW r \in Requesters, FeedReq(req[r], feedback), req[r].at = "save_failure",
         NEW next, Changed(next, req[r], {"todo"}), next.todo = Tail(req[r].todo), next.todo # <<>>,
         NEW id, NEW doc, id \notin DOMAIN feedback, doc.case = Head(req[r].todo), doc.run = req[r].op.run
  PROVE  FeedReq(next, Put(feedback, id, doc))
<1> DEFINE q == req[r]
           fb2 == Put(feedback, id, doc)
           t == q.todo
<1>1. /\ q.key = <<"failures", q.op.run>> /\ t # <<>> /\ (\E S : t \in Seq(S))
      /\ \A i, j \in DOMAIN t : t[i] = t[j] => i = j
      /\ ~q.stale => \A f \in DOMAIN feedback, i \in DOMAIN t :
                       feedback[f].run = q.op.run => feedback[f].case # t[i]
  BY DEF FeedReq, FailReq
<1>2. /\ next.at = q.at /\ next.op = q.op /\ next.key = q.key /\ next.stale = q.stale
      /\ next.todo = Tail(t) /\ Tail(t) # <<>>
  BY DEF Changed, Fields
<1>3. \A f \in DOMAIN fb2 : (f \in DOMAIN feedback /\ fb2[f] = feedback[f]) \/ fb2[f] = doc
  BY DEF Put
<1>4. next.at = "save_failure" /\ ~WithFeedback(next)
  BY <1>2 DEF WithFeedback
<1>5. doc.case = Head(t) /\ doc.run = q.op.run
  OBVIOUS
<1> HIDE DEF t, q, fb2
<1>6. PICK S : t \in Seq(S)
  BY <1>1
<1>7. Tail(t) \in Seq(S) /\ Head(t) = t[1] /\ 1 \in DOMAIN t
  BY <1>1, <1>6, HeadTailProperties, LenProperties
<1>8. ASSUME NEW i \in DOMAIN Tail(t)
      PROVE  i + 1 \in DOMAIN t /\ Tail(t)[i] = t[i + 1] /\ i \in Nat /\ i >= 1
  <2>1. Len(Tail(t)) = Len(t) - 1 /\ Len(t) \in Nat
    BY <1>1, <1>6, HeadTailProperties, LenProperties
  <2>2. i \in 1..Len(Tail(t))
    BY <1>7, <1>8, LenProperties
  <2>3. Tail(t)[i] = t[i + 1]
    BY <1>1, <1>6, <2>2, HeadTailProperties
  <2>4. i + 1 \in 1..Len(t) /\ i \in Nat /\ i >= 1
    BY <2>1, <2>2
  <2>5. i + 1 \in DOMAIN t
    BY <1>6, <2>4, LenProperties
  <2> QED
    BY <2>3, <2>4, <2>5
<1>9. ASSUME NEW i \in DOMAIN Tail(t), NEW j \in DOMAIN Tail(t), Tail(t)[i] = Tail(t)[j] PROVE i = j
  <2>1. i + 1 = j + 1
    BY <1>1, <1>8, <1>9
  <2> QED
    BY <1>8, <2>1
<1>10. ASSUME NEW i \in DOMAIN Tail(t) PROVE Tail(t)[i] # Head(t)
  <2>1. i + 1 # 1
    BY <1>8
  <2> QED
    BY <1>1, <1>7, <1>8, <2>1
<1>11. ASSUME ~next.stale, NEW f \in DOMAIN fb2, NEW i \in DOMAIN Tail(t), fb2[f].run = q.op.run
       PROVE  fb2[f].case # Tail(t)[i]
  <2>1. CASE fb2[f] = doc
    BY <1>5, <1>10, <2>1
  <2>2. CASE f \in DOMAIN feedback /\ fb2[f] = feedback[f]
    BY <1>1, <1>2, <1>8, <1>11, <2>2
  <2> QED
    BY <1>3, <2>1, <2>2
<1>12. FailReq(next, fb2)
  <2>1. /\ next.key = <<"failures", next.op.run>>
        /\ next.todo # <<>> /\ \E U : next.todo \in Seq(U)
    BY <1>1, <1>2, <1>7
  <2>2. \A i, j \in DOMAIN next.todo : next.todo[i] = next.todo[j] => i = j
    BY <1>2, <1>9
  <2>3. ~next.stale => \A f \in DOMAIN fb2, i \in DOMAIN next.todo :
                         fb2[f].run = next.op.run => fb2[f].case # next.todo[i]
    BY <1>2, <1>11
  <2> QED
    BY <2>1, <2>2, <2>3 DEF FailReq
<1> QED
  BY <1>4, <1>12 DEF FeedReq, NoteReq, fb2

FeedAction ==
  \A f \in DOMAIN feedback' \ DOMAIN feedback :
    feedback'[f].automatic /\ ~feedback'[f].raced =>
      \A g \in DOMAIN feedback :
         feedback[g].run = feedback'[f].run => feedback[g].case # feedback'[f].case

LEMMA FeedStep ==
  ASSUME FeedInv, LibraryNext
  PROVE  FeedShape' /\ FeedAction /\ \A p \in Requesters : FeedReq(req'[p], feedback')
<1> DEFINE Fine == FeedShape' /\ FeedAction /\ \A p \in Requesters : FeedReq(req'[p], feedback')
<1> SUFFICES Fine
  OBVIOUS
<1>1. WhereInv /\ FeedShape /\ \A p \in Requesters : FeedReq(req[p], feedback)
  BY DEF FeedInv, RunInv
<1>2. PICK r \in Requesters :
        \/ SaveFeedback(r) \/ MarkConverted(r) \/ SaveFailure(r)
        \/ /\ UNCHANGED feedback /\ \A p \in Requesters \ {r} : Holds(req'[p], req[p])
           /\ AwayFromCases(req'[r]) \/ ReadCase(r) \/ ReadFeedback(r) \/ SaveConverted(r) \/ ReadFailures(r)
  BY <1>1, FeedMoves
<1>3. CASE /\ UNCHANGED feedback /\ \A p \in Requesters \ {r} : Holds(req'[p], req[p])
           /\ AwayFromCases(req'[r]) \/ ReadCase(r) \/ ReadFeedback(r) \/ SaveConverted(r) \/ ReadFailures(r)
  <2>1. FeedReq(req'[r], feedback)
    BY <1>1, <1>3, AwayFeed, ReadCaseFeed, ReadFeedbackFeed, SaveConvertedFeed, ReadFailuresFeed
  <2>2. ASSUME NEW p \in Requesters \ {r} PROVE FeedReq(req'[p], feedback)
    BY <1>1, <1>3, HoldsFeed
  <2>3. \A p \in Requesters : FeedReq(req'[p], feedback')
    BY <1>3, <2>1, <2>2
  <2>4. FeedAction
    BY <1>3 DEF FeedAction
  <2> QED
    BY <1>1, <1>3, <2>3, <2>4 DEF FeedShape
<1>4. CASE SaveFeedback(r) \/ MarkConverted(r) \/ SaveFailure(r)
  <2>1. PICK id, doc, key, next :
           /\ WritesFeedback(r, id, doc, key, next) /\ FeedbackDocument(doc)
           /\ \/ id \in DOMAIN feedback /\ Told(doc, feedback[id]) /\ next = Idle
              \/ /\ id \notin DOMAIN feedback /\ key = <<"failures", doc.run>>
                 /\ \/ ~doc.automatic /\ next = Idle
                    \/ /\ req[r].at = "save_failure" /\ doc.run = req[r].op.run
                       /\ doc.case = Head(req[r].todo) /\ doc.raced = req[r].stale
                       /\ \/ next = Idle
                          \/ /\ Changed(next, req[r], {"todo"}) /\ next.todo = Tail(req[r].todo)
                             /\ next.todo # <<>>
    BY <1>4, FeedWriters
  <2>2. feedback' = Put(feedback, id, doc) /\ Writes(r, key, next)
    BY <2>1 DEF WritesFeedback
  <2>3. \A f \in DOMAIN feedback' : (f = id /\ feedback'[f] = doc) \/ (f \in DOMAIN feedback /\ feedback'[f] = feedback[f])
    BY <2>2 DEF Put
  <2>4. FeedShape'
    <3>1. ASSUME NEW f \in DOMAIN feedback' PROVE FeedbackDocument(feedback'[f])
      BY <1>1, <2>1, <2>3 DEF FeedShape
    <3> QED
      BY <3>1 DEF FeedShape
  <2>5. /\ req'[r] = next \/ req'[r] = Raised(r)
        /\ \A p \in Requesters \ {r} : Follows(req'[p], req[p], key)
    BY <1>1, <2>2, WritesFacts
  <2>6. FeedReq(Idle, feedback') /\ FeedReq(Raised(r), feedback')
    BY <1>1, IdleAway, RaisedAway, AwayFeed
  <2>7. CASE id \in DOMAIN feedback /\ Told(doc, feedback[id]) /\ next = Idle
    <3>1. ASSUME NEW p \in Requesters PROVE FeedReq(req'[p], feedback')
      <4>1. CASE p = r
        BY <2>5, <2>6, <2>7, <4>1
      <4>2. CASE p # r
        <5>1. Follows(req'[p], req[p], key) /\ FeedReq(req[p], feedback)
          BY <1>1, <2>5, <4>2
        <5>2. FeedReq(req'[p], feedback)
          BY <5>1, HoldsFeed DEF Follows, Holds, Same
        <5> QED
          BY <2>2, <2>7, <5>2, AgainFeed
      <4> QED
        BY <4>1, <4>2
    <3>2. DOMAIN feedback' \ DOMAIN feedback = {}
      BY <2>3, <2>7
    <3>3. FeedAction
      BY <3>2 DEF FeedAction
    <3> QED
      BY <2>4, <3>1, <3>3
  <2>8. CASE /\ id \notin DOMAIN feedback /\ key = <<"failures", doc.run>>
             /\ \/ ~doc.automatic /\ next = Idle
                \/ /\ req[r].at = "save_failure" /\ doc.run = req[r].op.run
                   /\ doc.case = Head(req[r].todo) /\ doc.raced = req[r].stale
                   /\ \/ next = Idle
                      \/ /\ Changed(next, req[r], {"todo"}) /\ next.todo = Tail(req[r].todo)
                         /\ next.todo # <<>>
    <3>1. FeedReq(next, feedback')
      <4>1. CASE next = Idle
        BY <2>6, <4>1
      <4>2. CASE next # Idle
        BY <1>1, <2>2, <2>8, <4>2, LeftToReport
      <4> QED
        BY <4>1, <4>2
    <3>2. ASSUME NEW p \in Requesters PROVE FeedReq(req'[p], feedback')
      <4>1. CASE p = r
        BY <2>5, <2>6, <3>1, <4>1
      <4>2. CASE p # r
        <5>1. Follows(req'[p], req[p], <<"failures", doc.run>>) /\ FeedReq(req[p], feedback)
          BY <1>1, <2>5, <2>8, <4>2
        <5> QED
          BY <2>2, <2>8, <5>1, AddedFeed
      <4> QED
        BY <4>1, <4>2
    <3>3. ASSUME doc.automatic, ~doc.raced, NEW g \in DOMAIN feedback, feedback[g].run = doc.run
          PROVE  feedback[g].case # doc.case
      <4>1. /\ req[r].at = "save_failure" /\ doc.run = req[r].op.run
            /\ doc.case = Head(req[r].todo) /\ doc.raced = req[r].stale
        BY <2>8, <3>3
      <4>2. /\ req[r].todo # <<>> /\ \E S : req[r].todo \in Seq(S)
            /\ ~req[r].stale => \A i \in DOMAIN req[r].todo :
                 feedback[g].run = req[r].op.run => feedback[g].case # req[r].todo[i]
        BY <1>1, <4>1 DEF FeedReq, FailReq
      <4>3. 1 \in DOMAIN req[r].todo /\ Head(req[r].todo) = req[r].todo[1]
        BY <4>2, LenProperties, EmptySeq
      <4> QED
        BY <3>3, <4>1, <4>2, <4>3
    <3>4. \A f \in DOMAIN feedback' \ DOMAIN feedback : feedback'[f] = doc
      BY <2>3
    <3>5. FeedAction
      BY <3>3, <3>4 DEF FeedAction
    <3> QED
      BY <2>4, <3>2, <3>5
  <2> QED
    BY <2>1, <2>7, <2>8
<1> QED
  BY <1>2, <1>3, <1>4

\* What holds while the failures of runs are reported.
THEOREM FeedInvariant == LibrarySpec => []FeedInv
<1>1. LibraryInit /\ RunInv => FeedInv
  <2> SUFFICES ASSUME LibraryInit, RunInv PROVE FeedInv
    OBVIOUS
  <2>1. \A r \in Requesters : req[r] = Idle
    BY LibraryInit0
  <2>2. FeedShape
    BY LibraryInit0 DEF FeedShape, FirstStore
  <2>3. \A r \in Requesters : FeedReq(req[r], feedback)
    BY <2>1, IdleAway, AwayFeed
  <2> QED
    BY <2>2, <2>3 DEF FeedInv
<1>2. FeedInv /\ RunInv' /\ [LibraryNext]_libraryVars => FeedInv'
  <2>1. ASSUME FeedInv, RunInv', LibraryNext PROVE FeedInv'
    BY <2>1, FeedStep DEF FeedInv
  <2>2. ASSUME FeedInv, RunInv', UNCHANGED libraryVars PROVE FeedInv'
    BY <2>2 DEF libraryVars, FeedInv, FeedShape
  <2> QED
    BY <2>1, <2>2
<1> QED
  BY <1>1, <1>2, RunInvariant, PTL DEF LibrarySpec

\* Reporting the failures of a run adds no feedback to one that has a feedback already, of
\* an earlier report or by hand, unless one was stored while the report was under way.
THEOREM FailuresReportedOnce == LibrarySpec => OneFeedbackPerFailure
<1>1. FeedInv /\ [LibraryNext]_libraryVars => [FeedAction]_libraryVars
  BY FeedStep
<1>2. []FeedInv /\ [][LibraryNext]_libraryVars => [][FeedAction]_libraryVars
  BY <1>1, PTL
<1>3. [][FeedAction]_libraryVars => OneFeedbackPerFailure
  BY DEF OneFeedbackPerFailure, FeedAction
<1> QED
  BY <1>2, <1>3, FeedInvariant, PTL DEF LibrarySpec

---------------------------------------------------------------------------
(* Feedback and the cases made from it *)

\* The hypothesis about updates: none says anew what a case was made from.
NoneRemakes == \A op \in Menu : op.op \in {"update", "bulk"} => "made" \notin DOMAIN op.change

\* The case a request is about to save.
Saving(q, id) == q.at = "save_case" /\ q.op.op # "clone" /\ Head(q.todo) = id

\* A case made from a feedback, or one posted in its place; a request that is about to
\* save it holds such a case. A built-in case is none: it may be seeded again.
MadeFrom(id, f, cs, rq) ==
  /\ id \in DOMAIN cs \ DOMAIN BuiltinCase
  /\ cs[id].made \in {f, "posted"}
  /\ \A p \in Requesters : Saving(rq[p], id) => rq[p].doc.made \in {f, "posted"}

Grows(cs, cs2) == DOMAIN cs \subseteq DOMAIN cs2

Kept(cs, rq, cs2, rq2) == \A id, f : MadeFrom(id, f, cs, rq) => MadeFrom(id, f, cs2, rq2)

SavesKnown(q, cs) ==
  q.at = "save_case" /\ q.op.op # "clone" /\ Head(q.todo) \notin DOMAIN BuiltinCase =>
    Head(q.todo) \in DOMAIN cs

\* A request that holds a feedback holds a true one, and the case it has made from it.
HoldsTrue(q, cs, rq) ==
  WithFeedback(q) =>
    /\ FeedbackDocument(q.doc)
    /\ q.doc.converted # "none" => MadeFrom(q.doc.converted, q.op.id, cs, rq)
    /\ q.at = "mark" => MadeFrom(Head(q.todo), q.op.id, cs, rq)

LinkReq(q, cs, rq) == SavesKnown(q, cs) /\ HoldsTrue(q, cs, rq)

Conversions(fb, cs, rq) ==
  \A f \in DOMAIN fb : fb[f].converted # "none" => MadeFrom(fb[f].converted, f, cs, rq)

LinkInv ==
  /\ EditInv /\ FeedShape /\ Conversions(feedback, cases, req)
  /\ \A r \in Requesters : LinkReq(req[r], cases, req)

LEMMA AwayLink ==
  ASSUME NEW q, AwayFromCases(q), NEW cs, NEW rq
  PROVE  LinkReq(q, cs, rq)
BY DEF AwayFromCases, LinkReq, SavesKnown, HoldsTrue

LEMMA KeptLink ==
  ASSUME NEW new, NEW old, Holds(new, old), NEW cs, NEW cs2, NEW rq, NEW rq2,
         Grows(cs, cs2), Kept(cs, rq, cs2, rq2), LinkReq(old, cs, rq)
  PROVE  LinkReq(new, cs2, rq2)
<1>1. new.at = old.at /\ new.op = old.op /\ new.doc = old.doc /\ new.todo = old.todo
  BY DEF Holds, Same, Fields
<1>2. SavesKnown(new, cs2)
  BY <1>1 DEF LinkReq, SavesKnown, Grows
<1>3. HoldsTrue(new, cs2, rq2)
  BY <1>1 DEF LinkReq, HoldsTrue, WithFeedback, Kept
<1> QED
  BY <1>2, <1>3 DEF LinkReq

LEMMA KeptConversions ==
  ASSUME NEW fb, NEW cs, NEW cs2, NEW rq, NEW rq2, Kept(cs, rq, cs2, rq2), Conversions(fb, cs, rq)
  PROVE  Conversions(fb, cs2, rq2)
BY DEF Conversions, Kept

\* Only reading a case brings a request to saving one.
LEMMA Saver ==
  ASSUME WhereInv, LibraryNext, NEW p \in Requesters, req'[p].at = "save_case"
  PROVE  Same(req'[p], req[p]) \/ ReadCase(p)
<1>1. PICK r \in Requesters :
        \/ SaveFeedback(r) \/ MarkConverted(r) \/ SaveFailure(r)
        \/ /\ UNCHANGED feedback /\ \A q \in Requesters \ {r} : Holds(req'[q], req[q])
           /\ AwayFromCases(req'[r]) \/ ReadCase(r) \/ ReadFeedback(r) \/ SaveConverted(r) \/ ReadFailures(r)
  BY FeedMoves
<1>2. ASSUME p # r PROVE Same(req'[p], req[p])
  <2>1. ASSUME \E key, next : Writes(r, key, next) PROVE Same(req'[p], req[p])
    <3>1. \E key : Follows(req'[p], req[p], key)
      BY <1>2, <2>1, WritesFacts
    <3> QED
      BY <3>1 DEF Follows, Same
  <2>2. ASSUME SaveFeedback(r) \/ MarkConverted(r) \/ SaveFailure(r)
        PROVE \E key, next : Writes(r, key, next)
    BY <2>2 DEF SaveFeedback, MarkConverted, SaveFailure, WritesFeedback
  <2> QED
    BY <1>1, <1>2, <2>1, <2>2 DEF Holds
<1>3. ASSUME p = r PROVE ReadCase(r)
  <2>1. Idle.at # "save_case" /\ Raised(r).at # "save_case"
    BY IdleAway, RaisedAway DEF AwayFromCases
  <2>2. ASSUME NEW key, NEW next, Writes(r, key, next), next.at # "save_case" PROVE FALSE
    BY <1>3, <2>1, <2>2, WritesFacts
  <2>3. ~SaveFeedback(r)
    <3>1. ASSUME SaveFeedback(r) PROVE \E key : Writes(r, key, Idle)
      BY <3>1 DEF SaveFeedback, WritesFeedback
    <3> QED
      BY <2>1, <2>2, <3>1
  <2>4. ~MarkConverted(r)
    <3>1. ASSUME MarkConverted(r) PROVE \E key : Writes(r, key, Idle)
      BY <3>1 DEF MarkConverted, WritesFeedback
    <3> QED
      BY <2>1, <2>2, <3>1
  <2>5. ~SaveFailure(r)
    <3>1. ASSUME SaveFailure(r) PROVE \E key, next : Writes(r, key, next) /\ next.at # "save_case"
      <4>1. PICK id, doc, key, next : /\ WritesFeedback(r, id, doc, key, next) /\ req[r].at = "save_failure"
                                      /\ next = Idle \/ Changed(next, req[r], {"todo"})
        BY <3>1, SaveFailureFacts
      <4>2. next.at # "save_case"
        BY <2>1, <4>1 DEF Changed, Fields
      <4> QED
        BY <4>1, <4>2 DEF WritesFeedback
    <3> QED
      BY <2>2, <3>1
  <2>6. ~SaveConverted(r)
    <3>1. ASSUME SaveConverted(r) PROVE \E key, next : Writes(r, key, next) /\ next.at # "save_case"
      <4>1. PICK id, doc, next : WritesCase(r, id, doc, next) /\ next.at = "mark"
        BY <3>1, SaveConvertedFacts
      <4> QED
        BY <4>1 DEF WritesCase
    <3> QED
      BY <2>2, <3>1
  <2>7. ~AwayFromCases(req'[r]) /\ ~ReadFeedback(r) /\ ~ReadFailures(r)
    BY <1>3, <2>1, ReadFeedbackFacts, ReadFailuresFacts DEF AwayFromCases
  <2> QED
    BY <1>1, <2>3, <2>4, <2>5, <2>6, <2>7
<1> QED
  BY <1>2, <1>3

\* What a request that has just read a case of its own saves.
LEMMA ReadToSave ==
  ASSUME WhereInv, NEW r \in Requesters, ReadCase(r), NEW id, id \notin DOMAIN BuiltinCase, Saving(req'[r], id)
  PROVE  id \in DOMAIN cases /\ req'[r].doc = cases[id]
<1> DEFINE n == req'[r]
           was == Head(req[r].todo)
<1>1. Where(req[r]) /\ req[r].at = "read_case"
  BY DEF WhereInv, ReadCase, Stands
<1>2. Onward(r).at # "save_case"
  BY <1>1, OnwardFacts, IdleFacts
<1>3. /\ ~Skips(r, was) /\ Changed(n, req[r], {"key", "stale", "at", "doc"})
      /\ n.doc = IF req[r].op.op = "seed" THEN BuiltinCase[was] ELSE get_case(was)
  BY <1>2, ReadCaseFacts DEF Saving
<1>4. n.todo = req[r].todo /\ was = id
  BY <1>3 DEF Changed, Fields, Saving
<1>5. req[r].op.op # "seed"
  <2>1. ASSUME req[r].op.op = "seed" PROVE FALSE
    <3>1. req[r].todo \in Seq(DOMAIN BuiltinCase) \ {<<>>}
      BY <1>1, <2>1 DEF Where
    <3>2. was \in DOMAIN BuiltinCase
      BY <3>1, HeadTailProperties
    <3> QED
      BY <1>4, <3>2
  <2> QED
    BY <2>1
<1>6. Known(id)
  BY <1>3, <1>4, <1>5 DEF Skips
<1>7. id \in DOMAIN cases
  BY <1>6 DEF Known
<1> QED
  BY <1>3, <1>4, <1>5, <1>7 DEF get_case

\* No step takes away a case or makes it one of another feedback.
LEMMA CasesKept ==
  ASSUME LinkInv, LibraryNext, NoneRemakes
  PROVE  Grows(cases, cases') /\ Kept(cases, req, cases', req')
<1>1. EditInv /\ WhereInv
  BY DEF LinkInv, EditInv
<1>2. ASSUME NEW r \in Requesters, NEW id, NEW doc, NEW next, WritesCase(r, id, doc, next)
      PROVE  \A x \in DOMAIN cases : x \in DOMAIN cases' /\ (x # id => cases'[x] = cases[x]) /\ (x = id => cases'[x] = doc)
  BY <1>2 DEF WritesCase, Put
<1>3. Grows(cases, cases')
  <2>1. CASE UNCHANGED cases
    BY <2>1 DEF Grows
  <2>2. ASSUME NEW r \in Requesters, NEW id, NEW doc, NEW next, WritesCase(r, id, doc, next) PROVE Grows(cases, cases')
    BY <1>2, <2>2 DEF Grows
  <2> QED
    BY <1>1, <2>1, <2>2, CaseWriters
<1>4. ASSUME NEW id, NEW f, MadeFrom(id, f, cases, req) PROVE cases'[id].made \in {f, "posted"}
  <2>1. CASE UNCHANGED cases
    BY <1>4, <2>1 DEF MadeFrom
  <2>2. ASSUME NEW r \in Requesters, NEW x, NEW doc, NEW next, WritesCase(r, x, doc, next),
               \/ Spare(CaseIds, cases) /\ x = Fresh(CaseIds, cases)
               \/ Posts(r, x, doc)
               \/ /\ req[r].at = "save_case" /\ x = Head(req[r].todo)
                  /\ doc = Merged(req[r].op, req[r].doc) /\ req[r].op.op # "clone"
        PROVE  cases'[id].made \in {f, "posted"}
    <3>1. id \in DOMAIN cases /\ (id # x => cases'[id] = cases[id]) /\ (id = x => cases'[id] = doc)
      BY <1>2, <1>4, <2>2 DEF MadeFrom
    <3>2. CASE id # x
      BY <1>4, <3>1, <3>2 DEF MadeFrom
    <3>3. CASE id = x /\ Posts(r, x, doc)
      BY <3>1, <3>3 DEF Posts
    <3>4. CASE id = x /\ ~Posts(r, x, doc)
      <4>1. Saving(req[r], id) /\ doc = Merged(req[r].op, req[r].doc)
        BY <2>2, <3>1, <3>4, FreshFacts DEF Saving
      <4>2. CaseDocument(req[r].doc) /\ Where(req[r])
        BY <1>1, <4>1 DEF EditInv, EditReq, WhereInv, Saving
      <4>3. req[r].op \in Menu /\ req[r].op.op \in {"update", "archive", "unarchive", "bulk", "seed"}
        BY <4>1, <4>2 DEF Where, OpFits, Saving
      <4>4. req[r].op.op # "seed"
        <5>1. ASSUME req[r].op.op = "seed" PROVE FALSE
          <6>1. req[r].todo \in Seq(DOMAIN BuiltinCase) \ {<<>>}
            BY <4>1, <4>2, <5>1 DEF Where, Saving
          <6>2. Head(req[r].todo) \in DOMAIN BuiltinCase
            BY <6>1, HeadTailProperties
          <6> QED
            BY <1>4, <4>1, <6>2 DEF MadeFrom, Saving
        <5> QED
          BY <5>1
      <4>5. "made" \in CaseFields \ Asked(req[r].op)
        BY <4>3, <4>4, CaseFieldsAre DEF Asked, NoneRemakes
      <4>6. \A y \in CaseFields \ Asked(req[r].op) : Merged(req[r].op, req[r].doc)[y] = req[r].doc[y]
        BY <4>2, <4>3, <4>4, MergedKeeps
      <4>7. doc["made"] = req[r].doc["made"]
        BY <4>1, <4>5, <4>6
      <4>8. req[r].doc.made \in {f, "posted"}
        BY <1>4, <4>1 DEF MadeFrom
      <4> QED
        BY <3>1, <3>4, <4>7, <4>8
    <3> QED
      BY <3>2, <3>3, <3>4
  <2> QED
    BY <1>1, <2>1, <2>2, CaseWriters
<1>5. ASSUME NEW id, NEW f, MadeFrom(id, f, cases, req), NEW p \in Requesters, Saving(req'[p], id)
      PROVE  req'[p].doc.made \in {f, "posted"}
  <2>1. CASE Same(req'[p], req[p])
    <3>1. req'[p].at = req[p].at /\ req'[p].op = req[p].op /\ req'[p].doc = req[p].doc /\ req'[p].todo = req[p].todo
      BY <2>1 DEF Same, Fields
    <3>2. Saving(req[p], id)
      BY <1>5, <3>1 DEF Saving
    <3> QED
      BY <1>5, <3>1, <3>2 DEF MadeFrom
  <2>2. CASE ReadCase(p)
    <3>1. req'[p].doc = cases[id]
      BY <1>1, <1>5, <2>2, ReadToSave DEF MadeFrom
    <3> QED
      BY <1>5, <3>1 DEF MadeFrom
  <2> QED
    BY <1>1, <1>5, <2>1, <2>2, Saver DEF Saving
<1>6. ASSUME NEW id, NEW f, MadeFrom(id, f, cases, req) PROVE MadeFrom(id, f, cases', req')
  <2>1. id \in DOMAIN cases' \ DOMAIN BuiltinCase
    BY <1>3, <1>6 DEF MadeFrom, Grows
  <2> QED
    BY <1>4, <1>5, <1>6, <2>1 DEF MadeFrom
<1> QED
  BY <1>3, <1>6 DEF Kept

\* A request that comes to saving a case.
LEMMA ReadCaseLink ==
  ASSUME LinkInv, NEW r \in Requesters, ReadCase(r)
  PROVE  LinkReq(req'[r], cases, req)
<1>1. WhereInv /\ req[r].at = "read_case"
  BY DEF LinkInv, EditInv, ReadCase, Stands
<1>2. req'[r] = Onward(r) \/ req'[r].at = "save_case"
  BY <1>1, ReadCaseFacts
<1>3. Onward(r).at \in {"idle", "read_case"}
  BY <1>1, OnwardFacts, IdleFacts
<1>4. HoldsTrue(req'[r], cases, req)
  BY <1>2, <1>3 DEF HoldsTrue, WithFeedback
<1>5. SavesKnown(req'[r], cases)
  BY <1>1, ReadToSave DEF SavesKnown, Saving
<1> QED
  BY <1>4, <1>5 DEF LinkReq

\* The feedback a request is about to write again.
LEMMA ReadFeedbackLink ==
  ASSUME LinkInv, NEW r \in Requesters, ReadFeedback(r)
  PROVE  LinkReq(req'[r], cases, req)
<1>1. WhereInv
  BY DEF LinkInv, EditInv
<1>2. CASE req'[r] = Idle
  BY <1>2, IdleAway, AwayLink
<1>3. CASE req'[r] # Idle
  <2>1. /\ Changed(req'[r], req[r], {"doc", "key", "at"})
        /\ req[r].op.id \in DOMAIN feedback /\ req'[r].doc = feedback[req[r].op.id]
        /\ req'[r].at \in {"save_feedback", "convert"}
    BY <1>1, <1>3, ReadFeedbackFacts
  <2>2. req'[r].op = req[r].op
    BY <2>1 DEF Changed, Fields
  <2>3. /\ FeedbackDocument(req'[r].doc)
        /\ req'[r].doc.converted # "none" => MadeFrom(req'[r].doc.converted, req[r].op.id, cases, req)
    BY <2>1 DEF LinkInv, FeedShape, Conversions
  <2> QED
    BY <2>1, <2>2, <2>3 DEF LinkReq, SavesKnown, HoldsTrue
<1> QED
  BY <1>2, <1>3

\* The case a request has made from the feedback it holds.
LEMMA SaveConvertedLink ==
  ASSUME LinkInv, LibraryNext, NEW r \in Requesters, SaveConverted(r), Kept(cases, req, cases', req')
  PROVE  LinkReq(req'[r], cases', req')
<1> DEFINE id  == Fresh(CaseIds, cases)
           c   == CaseOfFeedback(req[r].doc)
           doc == [c EXCEPT !.enabled = req[r].op.enabled, !.tags = @ \cup {"bad_case"}, !.made = req[r].op.id]
<1>1. WhereInv /\ CasesShape /\ LinkReq(req[r], cases, req)
  BY DEF LinkInv, EditInv
<1>2. PICK next : /\ WritesCase(r, id, doc, next) /\ req[r].at = "convert" /\ Spare(CaseIds, cases)
                  /\ Changed(next, req[r], {"at", "todo"}) /\ next.at = "mark" /\ next.todo = <<id>>
  BY <1>1, SaveConvertedFacts
<1>3. id \in CaseIds /\ id \notin DOMAIN cases /\ id \notin DOMAIN BuiltinCase
  BY <1>2, FreshFacts, LibraryAssumption
<1>4. CaseDocument(c)
  <2>1. Known(req[r].doc.case) => CaseDocument([get_case(req[r].doc.case) EXCEPT !.source = "feedback"])
    BY <1>1, GetCaseShape DEF CaseDocument
  <2> QED
    BY <2>1, BuiltCases DEF CaseOfFeedback
<1> HIDE DEF c
<1>5. doc.made = req[r].op.id
  <2>1. "made" \in DOMAIN c
    BY <1>4, CaseFieldsAre DEF CaseDocument, CaseFields
  <2> QED
    BY <2>1
<1> HIDE DEF doc, id
<1>6. cases' = Put(cases, id, doc) /\ Writes(r, <<"case", id>>, next)
  BY <1>2 DEF WritesCase
<1>7. MadeFrom(id, req[r].op.id, cases', req')
  <2>1. id \in DOMAIN cases' /\ cases'[id] = doc
    BY <1>6 DEF Put
  <2>2. ASSUME NEW p \in Requesters, Saving(req'[p], id) PROVE FALSE
    <3>1. CASE Same(req'[p], req[p])
      <4>1. Saving(req[p], id)
        BY <2>2, <3>1 DEF Same, Fields, Saving
      <4> QED
        BY <1>3, <4>1 DEF LinkInv, LinkReq, SavesKnown, Saving
    <3>2. CASE ReadCase(p)
      <4>1. UNCHANGED cases
        BY <3>2 DEF ReadCase, Reads, store
      <4> QED
        BY <1>3, <2>1, <4>1
    <3> QED
      BY <1>1, <2>2, <3>1, <3>2, Saver DEF Saving
  <2> QED
    BY <1>3, <1>5, <2>1, <2>2 DEF MadeFrom
<1>8. next.op = req[r].op /\ next.doc = req[r].doc /\ Head(next.todo) = id
  BY <1>2 DEF Changed, Fields
<1>9. LinkReq(next, cases', req')
  <2>1. /\ FeedbackDocument(next.doc)
        /\ next.doc.converted # "none" => MadeFrom(next.doc.converted, next.op.id, cases, req)
    BY <1>1, <1>2, <1>8 DEF LinkReq, HoldsTrue, WithFeedback
  <2>2. next.doc.converted # "none" => MadeFrom(next.doc.converted, next.op.id, cases', req')
    BY <2>1 DEF Kept
  <2> QED
    BY <1>2, <1>7, <1>8, <2>1, <2>2 DEF LinkReq, SavesKnown, HoldsTrue
<1>10. LinkReq(Raised(r), cases', req')
  BY <1>1, RaisedAway, AwayLink
<1> QED
  BY <1>1, <1>6, <1>9, <1>10, WritesFacts

\* What a request writes of a feedback is true.
LEMMA FeedbackWritten ==
  ASSUME LinkInv, NEW r \in Requesters, SaveFeedback(r) \/ MarkConverted(r) \/ SaveFailure(r)
  PROVE  \E id, doc, key, next :
           /\ WritesFeedback(r, id, doc, key, next) /\ FeedbackDocument(doc)
           /\ doc.converted # "none" => MadeFrom(doc.converted, id, cases, req)
           /\ \/ next = Idle
              \/ Changed(next, req[r], {"todo"}) /\ req[r].at = "save_failure"
<1> DEFINE q == req[r]
           Written(id, doc, key, next) ==
             /\ WritesFeedback(r, id, doc, key, next) /\ FeedbackDocument(doc)
             /\ doc.converted # "none" => MadeFrom(doc.converted, id, cases, req)
             /\ \/ next = Idle
                \/ Changed(next, q, {"todo"}) /\ q.at = "save_failure"
<1> SUFFICES \E id, doc, key, next : Written(id, doc, key, next)
  OBVIOUS
<1>1. WhereInv /\ Where(q) /\ HoldsTrue(q, cases, req)
  BY DEF LinkInv, EditInv, WhereInv, LinkReq
<1>2. CASE SaveFeedback(r)
  <2>1. q.at = "save_feedback"
    BY <1>2 DEF SaveFeedback, Stands
  <2>2. q.op \in Menu /\ q.op.op \in {"note", "complain"}
    BY <1>1, <2>1 DEF Where, OpFits
  <2>3. CASE q.op.op = "note"
    <3> DEFINE doc == [q.doc EXCEPT !.status = q.op.status]
    <3>1. WritesFeedback(r, q.op.id, doc, <<"feedback", q.op.id>>, Idle)
      BY <1>2, <2>3 DEF SaveFeedback
    <3>2. /\ FeedbackDocument(q.doc)
          /\ q.doc.converted # "none" => MadeFrom(q.doc.converted, q.op.id, cases, req)
      BY <1>1, <2>1, <2>3 DEF HoldsTrue, WithFeedback
    <3>3. FeedbackDocument(doc) /\ doc.converted = q.doc.converted
      BY <3>2 DEF FeedbackDocument, Complaint
    <3> HIDE DEF doc, q
    <3>4. Written(q.op.id, doc, <<"feedback", q.op.id>>, Idle)
      BY <3>1, <3>2, <3>3
    <3> HIDE DEF Written
    <3> QED
      BY <3>4
  <2>4. CASE q.op.op = "complain"
    <3> DEFINE id == Fresh(FeedbackIds, feedback)
               doc == q.op.feedback
    <3>1. WritesFeedback(r, id, doc, <<"failures", doc.run>>, Idle)
      BY <1>2, <2>4 DEF SaveFeedback
    <3>2. FeedbackDocument(doc) /\ doc.converted = "none"
      BY <2>2, <2>4, LibraryAssumption DEF Request
    <3> HIDE DEF id, doc, q
    <3>3. Written(id, doc, <<"failures", doc.run>>, Idle)
      BY <3>1, <3>2
    <3> HIDE DEF Written
    <3> QED
      BY <3>3
  <2> QED
    BY <2>2, <2>3, <2>4
<1>3. CASE MarkConverted(r)
  <2> DEFINE doc == [q.doc EXCEPT !.status = "converted", !.converted = Head(q.todo)]
  <2>1. q.at = "mark" /\ WritesFeedback(r, q.op.id, doc, <<"feedback", q.op.id>>, Idle)
    BY <1>3 DEF MarkConverted, Stands
  <2>2. FeedbackDocument(q.doc) /\ MadeFrom(Head(q.todo), q.op.id, cases, req)
    BY <1>1, <2>1 DEF HoldsTrue, WithFeedback
  <2>3. FeedbackDocument(doc) /\ doc.converted = Head(q.todo)
    BY <2>2 DEF FeedbackDocument, Complaint
  <2> HIDE DEF doc, q
  <2>4. Written(q.op.id, doc, <<"feedback", q.op.id>>, Idle)
    BY <2>1, <2>2, <2>3
  <2> HIDE DEF Written
  <2> QED
    BY <2>4
<1>4. CASE SaveFailure(r)
  <2> DEFINE id == Fresh(FeedbackIds, feedback)
             doc == Complaint("eval_result", q.op.run, Head(q.todo), "none",
                              ResultOf(runs[q.op.run].results, Head(q.todo)).agent, TRUE, q.stale)
  <2>1. PICK next : /\ q.at = "save_failure"
                    /\ WritesFeedback(r, id, doc, <<"failures", q.op.run>>, next)
                    /\ next = Idle \/ Changed(next, q, {"todo"})
    BY <1>1, <1>4, SaveFailureFacts
  <2>2. FeedbackDocument(doc) /\ doc.converted = "none"
    BY DEF FeedbackDocument, Complaint
  <2> HIDE DEF id, doc, q
  <2>3. Written(id, doc, <<"failures", q.op.run>>, next)
    BY <2>1, <2>2
  <2> HIDE DEF Written
  <2> QED
    BY <2>3
<1> QED
  BY <1>2, <1>3, <1>4

LEMMA LinkStep ==
  ASSUME LinkInv, LibraryNext, NoneRemakes
  PROVE  /\ FeedShape' /\ Conversions(feedback', cases', req')
         /\ \A p \in Requesters : LinkReq(req'[p], cases', req')
<1> DEFINE Fine == /\ FeedShape' /\ Conversions(feedback', cases', req')
                   /\ \A p \in Requesters : LinkReq(req'[p], cases', req')
<1> SUFFICES Fine
  OBVIOUS
<1>1. /\ WhereInv /\ FeedShape /\ Conversions(feedback, cases, req)
      /\ \A p \in Requesters : LinkReq(req[p], cases, req)
  BY DEF LinkInv, EditInv
<1>2. Grows(cases, cases') /\ Kept(cases, req, cases', req')
  BY CasesKept
<1>3. ASSUME NEW p \in Requesters,
             LinkReq(req'[p], cases, req) \/ Holds(req'[p], req[p])
      PROVE  LinkReq(req'[p], cases', req')
  <2>1. Holds(req'[p], req'[p])
    BY DEF Holds, Same
  <2> QED
    BY <1>1, <1>2, <1>3, <2>1, KeptLink
<1>4. PICK r \in Requesters :
        \/ SaveFeedback(r) \/ MarkConverted(r) \/ SaveFailure(r)
        \/ /\ UNCHANGED feedback /\ \A p \in Requesters \ {r} : Holds(req'[p], req[p])
           /\ AwayFromCases(req'[r]) \/ ReadCase(r) \/ ReadFeedback(r) \/ SaveConverted(r) \/ ReadFailures(r)
  BY <1>1, FeedMoves
<1>5. CASE /\ UNCHANGED feedback /\ \A p \in Requesters \ {r} : Holds(req'[p], req[p])
           /\ AwayFromCases(req'[r]) \/ ReadCase(r) \/ ReadFeedback(r) \/ SaveConverted(r) \/ ReadFailures(r)
  <2>1. ASSUME ReadFailures(r) PROVE LinkReq(req'[r], cases, req)
    <3>1. req'[r] = Idle \/ req'[r].at = "save_failure"
      BY <1>1, <2>1, ReadFailuresFacts
    <3> QED
      BY <3>1, IdleAway, AwayLink DEF LinkReq, SavesKnown, HoldsTrue, WithFeedback
  <2>2. LinkReq(req'[r], cases', req')
    <3>1. CASE SaveConverted(r)
      BY <1>2, <3>1, SaveConvertedLink
    <3>2. CASE ~SaveConverted(r)
      <4>1. LinkReq(req'[r], cases, req)
        BY <1>5, <2>1, <3>2, AwayLink, ReadCaseLink, ReadFeedbackLink
      <4> QED
        BY <1>3, <4>1
    <3> QED
      BY <3>1, <3>2
  <2>3. \A p \in Requesters : LinkReq(req'[p], cases', req')
    BY <1>3, <1>5, <2>2
  <2>4. Conversions(feedback, cases', req')
    BY <1>1, <1>2, KeptConversions
  <2> QED
    BY <1>1, <1>5, <2>3, <2>4 DEF FeedShape
<1>6. CASE SaveFeedback(r) \/ MarkConverted(r) \/ SaveFailure(r)
  <2>1. PICK id, doc, key, next :
           /\ WritesFeedback(r, id, doc, key, next) /\ FeedbackDocument(doc)
           /\ doc.converted # "none" => MadeFrom(doc.converted, id, cases, req)
           /\ \/ next = Idle
              \/ Changed(next, req[r], {"todo"}) /\ req[r].at = "save_failure"
    BY <1>6, FeedbackWritten
  <2>2. feedback' = Put(feedback, id, doc) /\ Writes(r, key, next)
    BY <2>1 DEF WritesFeedback
  <2>3. \A f \in DOMAIN feedback' : (f = id /\ feedback'[f] = doc) \/ (f \in DOMAIN feedback /\ feedback'[f] = feedback[f])
    BY <2>2 DEF Put
  <2>4. FeedShape'
    <3>1. ASSUME NEW f \in DOMAIN feedback' PROVE FeedbackDocument(feedback'[f])
      BY <1>1, <2>1, <2>3 DEF FeedShape
    <3> QED
      BY <3>1 DEF FeedShape
  <2>5. Conversions(feedback', cases', req')
    <3>1. Conversions(feedback', cases, req)
      BY <1>1, <2>1, <2>3 DEF Conversions
    <3> QED
      BY <1>2, <3>1, KeptConversions
  <2>6. /\ req'[r] = next \/ req'[r] = Raised(r)
        /\ \A p \in Requesters \ {r} : Follows(req'[p], req[p], key)
    BY <1>1, <2>2, WritesFacts
  <2>7. LinkReq(req'[r], cases, req)
    <3>1. LinkReq(Idle, cases, req) /\ LinkReq(Raised(r), cases, req)
      BY <1>1, IdleAway, RaisedAway, AwayLink
    <3>2. CASE Changed(next, req[r], {"todo"}) /\ req[r].at = "save_failure"
      <4>1. next.at = "save_failure"
        BY <3>2 DEF Changed, Fields
      <4>2. LinkReq(next, cases, req)
        BY <4>1 DEF LinkReq, SavesKnown, HoldsTrue, WithFeedback
      <4> QED
        BY <2>6, <3>1, <4>2
    <3> QED
      BY <2>1, <2>6, <3>1, <3>2
  <2>8. ASSUME NEW p \in Requesters PROVE LinkReq(req'[p], cases', req')
    <3>1. CASE p = r
      BY <1>3, <2>7, <3>1
    <3>2. CASE p # r
      <4>1. Follows(req'[p], req[p], key)
        BY <2>6, <3>2
      <4>2. Holds(req'[p], req[p])
        BY <4>1 DEF Follows, Holds, Same
      <4> QED
        BY <1>3, <4>2
    <3> QED
      BY <3>1, <3>2
  <2> QED
    BY <2>4, <2>5, <2>8
<1> QED
  BY <1>4, <1>5, <1>6

\* What one document says of another is so: a converted feedback names a stored case made
\* from it, or one posted in its place, a report that says passed names stored runs that passed.
THEOREM ClaimsHold ==
  ASSUME NoneRemakes
  PROVE  LibrarySpec => []ClaimsAreTrue
<1>1. LibraryInit /\ EditInv => LinkInv
  <2> SUFFICES ASSUME LibraryInit, EditInv PROVE LinkInv
    OBVIOUS
  <2>1. \A r \in Requesters : req[r] = Idle
    BY LibraryInit0
  <2>2. PICK first \in FirstStores :
          /\ cases = first.cases /\ feedback = first.feedback /\ FirstStore(first)
    BY LibraryInit0
  <2>3. FeedShape
    BY <2>2 DEF FeedShape, FirstStore
  <2>4. Conversions(feedback, cases, req)
    <3>1. \A r \in Requesters : \A id : ~Saving(req[r], id)
      BY <2>1, IdleFacts DEF Saving
    <3> QED
      BY <2>2, <3>1 DEF Conversions, ConversionsTrue, MadeFrom, FirstStore
  <2>5. \A r \in Requesters : LinkReq(req[r], cases, req)
    BY <2>1, IdleAway, AwayLink
  <2> QED
    BY <2>3, <2>4, <2>5 DEF LinkInv
<1>2. LinkInv /\ EditInv' /\ [LibraryNext]_libraryVars => LinkInv'
  <2>1. ASSUME LinkInv, EditInv', LibraryNext PROVE LinkInv'
    BY <2>1, LinkStep DEF LinkInv
  <2>2. ASSUME LinkInv, EditInv', UNCHANGED libraryVars PROVE LinkInv'
    BY <2>2 DEF libraryVars, LinkInv, FeedShape
  <2> QED
    BY <2>1, <2>2
<1>3. LinkInv /\ RunInv => ClaimsAreTrue
  <2> SUFFICES ASSUME LinkInv, RunInv PROVE ClaimsAreTrue
    OBVIOUS
  <2>1. ConversionsTrue(feedback, cases)
    BY DEF LinkInv, Conversions, ConversionsTrue, MadeFrom
  <2> QED
    BY <2>1 DEF ClaimsAreTrue, RunInv, ReportsTrue
<1> QED
  BY <1>1, <1>2, <1>3, EditInvariant, RunInvariant, PTL DEF LibrarySpec

---------------------------------------------------------------------------
(* The gate and advice to go all in *)

\* A result that the gate sees: one whose output advised to go all in has a failure that
\* counts as critical.
Sees(x) ==
  x.output # "none" /\ "all_in" \in Outputs[x.output].says =>
    x.status \in NotPassed /\ \E f \in x.failed : f.severity \in CriticalSeverities

\* Whatever the agent and the metadata of the case: the check of forbidden phrases is fatal
\* and skips nothing.
LEMMA AllInFails ==
  ASSUME NEW id, NEW c, NEW o, NEW replay, NEW a, "all_in" \in o.says
  PROVE  LET v == _evaluate_case(id, c, o, replay, a, Dimensions)
         IN  v.status \in NotPassed /\ \E f \in v.failed : f.severity \in CriticalSeverities
<1> DEFINE f == [name |-> "forbidden_phrases", severity |-> "fatal"]
           failed == run_eval_checks(o, c, replay) \cup JudgeChecks(c, a, Dimensions)
<1>1. check_forbidden_phrases(o, c) = {f}
  <2>1. "all_in" \in _output_text(o)
    BY DEF _output_text
  <2>2. Mentions(_output_text(o), UnsafeWords \cup {"leak"} \cup c.forbidden)
    BY <2>1 DEF Mentions, UnsafeWords
  <2> QED
    BY <2>2 DEF check_forbidden_phrases, Check
<1>2. f \in failed
  BY <1>1 DEF run_eval_checks
<1>3. f.severity = "fatal"
  OBVIOUS
<1> HIDE DEF f, failed
<1>4. StatusOf(failed) = "failed"
  BY <1>2, <1>3 DEF StatusOf, Severe
<1>5. /\ _evaluate_case(id, c, o, replay, a, Dimensions).status = StatusOf(failed)
      /\ _evaluate_case(id, c, o, replay, a, Dimensions).failed = failed
  BY DEF _evaluate_case, failed
<1> QED
  BY <1>2, <1>3, <1>4, <1>5 DEF NotPassed, CriticalSeverities

LEMMA VerdictSees ==
  ASSUME NEW id, NEW c, NEW told, NEW replay, NEW a
  PROVE  Sees(Verdict(id, c, told, replay, a))
<1> DEFINE o == IF told = "none" THEN EmptyOutput ELSE Outputs[told]
           e == _evaluate_case(id, c, o, replay, a, Dimensions)
           v == Verdict(id, c, told, replay, a)
<1>1. DOMAIN e = {"case", "agent", "status", "severity", "scope", "failed"}
  BY DEF _evaluate_case
<1>2. v = Over([output |-> told], e)
  BY DEF Verdict
<1> HIDE DEF o, e, v
<1>3. v.output = told /\ v.status = e.status /\ v.failed = e.failed
  BY <1>1, <1>2 DEF Over
<1>4. ASSUME told # "none", "all_in" \in Outputs[told].says
      PROVE  e.status \in NotPassed /\ \E f \in e.failed : f.severity \in CriticalSeverities
  <2>1. "all_in" \in o.says
    BY <1>4 DEF o
  <2> QED
    BY <1>4, <2>1, AllInFails DEF e
<1> QED
  BY <1>3, <1>4 DEF Sees, v

LEMMA NoVerdictSees ==
  ASSUME NEW id, NEW agent, NEW status
  PROVE  Sees(NoVerdict(id, agent, status))
<1>1. NoVerdict(id, agent, status).output = "none"
  BY DEF NoVerdict, Over, Unchecked
<1> QED
  BY <1>1 DEF Sees

\* What a case or a recorded run gets in a regression.
LEMMA PossibleSees ==
  ASSUME NEW r \in Requesters, req[r].doc = NoDocument, NEW id, NEW result \in Possible(r, id)
  PROVE  Sees(result)
<1>1. ASSUME result \in _evaluate_case_live_mock(id) PROVE Sees(result)
  <2>1. CASE ~Known(id)
    BY <1>1, <2>1, NoVerdictSees DEF _evaluate_case_live_mock
  <2>2. CASE Known(id)
    <3> DEFINE c == get_case(id)
    <3>2. \/ \E status : result = NoVerdict(id, c.agent, status)
          \/ \E o, a : result = Verdict(id, c, o, MockReplay(c), a)
      BY <1>1, <2>2 DEF _evaluate_case_live_mock
    <3> HIDE DEF c
    <3> QED
      BY <3>2, VerdictSees, NoVerdictSees DEF c
  <2> QED
    BY <2>1, <2>2
<1>2. ASSUME result \in _evaluate_case_id(id) PROVE Sees(result)
  <2>1. CASE ~Known(id)
    BY <1>2, <2>1, NoVerdictSees DEF _evaluate_case_id
  <2>2. CASE Known(id)
    <3> DEFINE c == get_case(id)
    <3>2. \/ \E status : result = NoVerdict(id, c.agent, status)
          \/ \E a : result = Verdict(id, c, c.output, NoReplay, a)
      BY <1>2, <2>2 DEF _evaluate_case_id
    <3> HIDE DEF c
    <3> QED
      BY <3>2, VerdictSees, NoVerdictSees DEF c
  <2> QED
    BY <2>1, <2>2
<1>3. ASSUME result \in _evaluate_replay(id) PROVE Sees(result)
  <2>1. CASE id \notin DOMAIN Snapshots
    BY <1>3, <2>1, NoVerdictSees DEF _evaluate_replay
  <2>2. CASE id \in DOMAIN Snapshots
    <3> DEFINE c == build_eval_case_from_replay(id)
    <3>2. \E o, replay : result = Verdict(id, c, o, replay, NoAnswer)
      BY <1>3, <2>2 DEF _evaluate_replay
    <3> HIDE DEF c
    <3> QED
      BY <3>2, VerdictSees
  <2> QED
    BY <2>1, <2>2
<1> QED
  BY <1>1, <1>2, <1>3 DEF Possible

\* A gate that is to fail on critical failures sees what there is to see.
LEMMA GateFails ==
  ASSUME NEW results, IsFiniteSet(results), \A x \in results : Sees(x), NEW p,
         GateOf(p, results).passed, p.gate.fail_on_critical
  PROVE  \A x \in results : x.output # "none" => "all_in" \notin Outputs[x.output].says
<1> DEFINE severe == {y \in WithStatus(results, NotPassed) : _result_includes_severity(y, CriticalSeverities)}
           s == _summary(results)
           gate == _evaluate_gate_dict(s, p.gate)
<1>1. s.critical = Cardinality(severe)
  BY DEF _summary
<1>2. gate.passed
  <2>1. GateOf(p, results) = WithNodes(gate, _build_scope_breakdown(results), p.include_node)
    BY DEF GateOf
  <2>2. DOMAIN gate = {"passed", "reasons"}
    BY DEF _evaluate_gate_dict
  <2> HIDE DEF gate
  <2>3. WithNodes(gate, _build_scope_breakdown(results), p.include_node).passed = gate.passed
    BY <2>2 DEF WithNodes
  <2> QED
    BY <2>1, <2>3
<1> HIDE DEF s
<1>3. ~(s.critical > 0)
  BY <1>2 DEF _evaluate_gate_dict
<1>4. severe = {}
  <2>1. IsFiniteSet(severe)
    BY FS_Subset DEF WithStatus
  <2> HIDE DEF severe
  <2>2. Cardinality(severe) \in Nat
    BY <2>1, FS_CardinalityType
  <2>3. Cardinality(severe) = 0
    BY <1>1, <1>3, <2>2
  <2> QED
    BY <2>1, <2>3, FS_EmptySet
<1>5. ASSUME NEW x \in results, x.status \in NotPassed, \E f \in x.failed : f.severity \in CriticalSeverities
      PROVE  FALSE
  <2>1. _result_includes_severity(x, CriticalSeverities)
    BY <1>5 DEF _result_includes_severity
  <2>2. x \in severe
    BY <1>5, <2>1 DEF WithStatus
  <2> QED
    BY <1>4, <2>2
<1> HIDE DEF severe
<1> QED
  BY <1>5 DEF Sees

\* What a regression or a gate has gathered.
GatherReq(q) ==
  q.op.op \in {"regression", "gate"} => q.doc = NoDocument /\ \A x \in q.results : Sees(x)

SeeInv == RunInv /\ GateSeesAllIn /\ \A r \in Requesters : GatherReq(req[r])

LEMMA CalmGathers ==
  ASSUME NEW r \in Requesters, NEW n, GatherReq(req[r]),
         Starts(n) \/ GaveUp(n, req[r]) \/ GoesOn(n, req[r]) \/ Gathers(r, n, req[r])
  PROVE  GatherReq(n)
<1>1. CASE Starts(n)
  BY <1>1 DEF Starts, GatherReq
<1>2. CASE GaveUp(n, req[r])
  BY <1>2 DEF GaveUp, GatherReq
<1>3. CASE GoesOn(n, req[r])
  BY <1>3 DEF GoesOn, GatherReq
<1>4. CASE Gathers(r, n, req[r])
  <2>1. PICK result \in Possible(r, Head(req[r].todo)) : n.results = req[r].results \cup {result}
    BY <1>4 DEF Gathers
  <2>2. n.op = req[r].op /\ n.doc = req[r].doc
    BY <1>4 DEF Gathers
  <2>3. ASSUME n.op.op \in {"regression", "gate"} PROVE n.doc = NoDocument /\ \A x \in n.results : Sees(x)
    <3>1. req[r].doc = NoDocument /\ \A x \in req[r].results : Sees(x)
      BY <2>2, <2>3 DEF GatherReq
    <3>2. Sees(result)
      BY <3>1, PossibleSees
    <3> QED
      BY <2>1, <2>2, <3>1, <3>2
  <2> QED
    BY <2>3 DEF GatherReq
<1> QED
  BY <1>1, <1>2, <1>3, <1>4

LEMMA SeeStep ==
  ASSUME SeeInv, LibraryNext
  PROVE  GateSeesAllIn' /\ \A p \in Requesters : GatherReq(req'[p])
<1>1. /\ WhereInv /\ GateSeesAllIn
      /\ \A p \in Requesters : RunReq(req[p], runs) /\ GatherReq(req[p])
  BY DEF SeeInv, RunInv
<1>2. PICK r \in Requesters :
           /\ \A p \in Requesters \ {r} : Same(req'[p], req[p])
           /\ \/ SaveRun(r) \/ PatchRun(r) \/ CompareRun(r)
              \/ UNCHANGED runs /\ Calm(r)
  BY <1>1, RunMoves
<1> DEFINE q == req[r]
           Fine == GateSeesAllIn' /\ \A p \in Requesters : GatherReq(req'[p])
<1> SUFFICES Fine
  OBVIOUS
<1>3. ASSUME GatherReq(req'[r]) PROVE \A p \in Requesters : GatherReq(req'[p])
  <2>1. ASSUME NEW p \in Requesters \ {r} PROVE GatherReq(req'[p])
    <3>1. req'[p].op = req[p].op /\ req'[p].doc = req[p].doc /\ req'[p].results = req[p].results
      BY <1>2 DEF Same, Fields
    <3> QED
      BY <1>1, <3>1 DEF GatherReq
  <2> QED
    BY <1>3, <2>1
<1>4. CASE UNCHANGED runs /\ Calm(r)
  <2>1. GatherReq(req'[r])
    BY <1>1, <1>4, CalmGathers DEF Calm
  <2>2. GateSeesAllIn'
    BY <1>1, <1>4 DEF GateSeesAllIn
  <2> QED
    BY <1>3, <2>1, <2>2
<1>5. ASSUME NEW id, NEW doc, NEW next, WritesRun(r, id, doc, next), SeesAllIn(doc), GatherReq(next) PROVE Fine
  <2>1. runs' = Put(runs, id, doc)
    BY <1>5 DEF WritesRun
  <2>2. ASSUME NEW n \in DOMAIN runs' PROVE SeesAllIn(runs'[n])
    <3>1. runs'[n] = doc \/ (n \in DOMAIN runs /\ runs'[n] = runs[n])
      BY <2>1 DEF Put
    <3> QED
      BY <1>1, <1>5, <3>1 DEF GateSeesAllIn
  <2>3. GateSeesAllIn'
    BY <2>2 DEF GateSeesAllIn
  <2>4. req'[r] = next \/ req'[r] = Raised(r)
    BY <1>1, <1>5, WritesFacts DEF WritesRun
  <2>5. GatherReq(Raised(r))
    BY <1>1, RaisedCalm, CalmGathers
  <2>6. GatherReq(req'[r])
    BY <1>5, <2>4, <2>5
  <2> QED
    BY <1>3, <2>3, <2>6
<1>6. GatherReq(Idle)
  BY IdleFacts DEF GatherReq
<1>7. GatherReq(q) /\ RunReq(q, runs)
  BY <1>1
<1>8. ASSUME NEW n, NEW S, Changed(n, q, S), S \cap {"op", "doc", "results"} = {} PROVE GatherReq(n)
  <2>1. n.op = q.op /\ n.doc = q.doc /\ n.results = q.results
    BY <1>8 DEF Changed, Fields
  <2> QED
    BY <1>7, <2>1 DEF GatherReq
<1>9. ASSUME NEW passed, q.at # "idle" PROVE GatherReq(Answered(r, passed, FALSE))
  <2> DEFINE n == Answered(r, passed, FALSE)
  <2>1. n = Idle \/ (n.op = q.op /\ n.doc = q.doc /\ n.results = {})
    BY <1>1, <1>9, AnsweredFacts
  <2> HIDE DEF n
  <2>2. GatherReq(n)
    BY <1>6, <1>7, <2>1 DEF GatherReq
  <2> QED
    BY <2>2 DEF n
<1> HIDE DEF Fine
<1>10. CASE SaveRun(r)
  <2> DEFINE id == Fresh(RunIds, runs)
             doc == [results |-> q.results, at |-> Cardinality(DOMAIN runs),
                     gate |-> NoGate, config |-> [fail_on_critical |-> FALSE], compared |-> "no"]
  <2>1. PICK next : /\ WritesRun(r, id, doc, next)
                    /\ next = Idle \/ Changed(next, q, {"at", "run"})
    BY <1>1, <1>10, SaveRunFacts
  <2>2. SeesAllIn(doc)
    BY DEF SeesAllIn, NoGate
  <2>3. GatherReq(next)
    BY <1>6, <1>8, <2>1
  <2> HIDE DEF doc, id
  <2> QED
    BY <1>5, <2>1, <2>2, <2>3
<1>11. CASE PatchRun(r)
  <2> DEFINE p    == Payload(r)
             gate == GateOf(p, q.results)
             doc  == [runs[q.run] EXCEPT !.gate = gate, !.config = [fail_on_critical |-> p.gate.fail_on_critical]]
  <2>1. PICK next : /\ q.at = "patch" /\ q.op.op \in {"regression", "gate"} /\ WritesRun(r, q.run, doc, next)
                    /\ next = Answered(r, gate.passed, FALSE) \/ Changed(next, q, {"at"})
    BY <1>1, <1>11, PatchRunFacts
  <2>2. /\ q.run \in DOMAIN runs /\ runs[q.run].results = q.results /\ RunDocument(runs[q.run])
        /\ IsFiniteSet(q.results) /\ \A x \in q.results : Sees(x)
    BY <1>7, <2>1 DEF RunReq, GatherReq, SeeInv, RunInv, RunsShape
  <2>3. doc.gate = gate /\ doc.config = [fail_on_critical |-> p.gate.fail_on_critical] /\ doc.results = q.results
    <3> HIDE DEF gate, p, q
    <3> QED
      BY <2>2 DEF RunDocument
  <2>4. GatherReq(next)
    BY <1>8, <1>9, <2>1
  <2> HIDE DEF doc, p
  <2>5. SeesAllIn(doc)
    <3>1. ASSUME doc.gate.passed, doc.config.fail_on_critical
          PROVE  \A x \in q.results : x.output # "none" => "all_in" \notin Outputs[x.output].says
      <4>1. GateOf(p, q.results).passed /\ p.gate.fail_on_critical
        BY <2>3, <3>1
      <4> QED
        BY <2>2, <4>1, GateFails
    <3> QED
      BY <2>3, <3>1 DEF SeesAllIn
  <2> QED
    BY <1>5, <2>1, <2>4, <2>5
<1>12. CASE CompareRun(r)
  <2>1. PICK word : /\ q.at = "compare"
                    /\ WritesRun(r, q.run, [runs[q.run] EXCEPT !.compared = word], Answered(r, runs[q.run].gate.passed, FALSE))
    BY <1>1, <1>12, CompareRunFacts
  <2> DEFINE doc == [runs[q.run] EXCEPT !.compared = word]
             next == Answered(r, runs[q.run].gate.passed, FALSE)
  <2>2. q.run \in DOMAIN runs /\ RunDocument(runs[q.run])
    BY <1>7, <2>1 DEF RunReq, SeeInv, RunInv, RunsShape
  <2>3. doc.gate = runs[q.run].gate /\ doc.config = runs[q.run].config /\ doc.results = runs[q.run].results
    BY <2>2 DEF RunDocument
  <2>4. GatherReq(next)
    BY <1>9, <2>1
  <2> HIDE DEF doc, next
  <2>5. SeesAllIn(doc)
    <3>1. SeesAllIn(runs[q.run])
      BY <1>1, <2>2 DEF GateSeesAllIn
    <3> QED
      BY <2>3, <3>1 DEF SeesAllIn
  <2>6. WritesRun(r, q.run, doc, next)
    BY <2>1 DEF doc, next
  <2> QED
    BY <1>5, <2>4, <2>5, <2>6
<1> QED
  BY <1>2, <1>4, <1>10, <1>11, <1>12

\* A gate that is to fail on critical failures does not pass a run in which an output
\* advised to go all in, whatever the agent and the metadata of its case, whatever the rate
\* it asks for and whatever the judges said.
THEOREM GateSees == LibrarySpec => []GateSeesAllIn
<1>1. LibraryInit /\ RunInv => SeeInv
  <2> SUFFICES ASSUME LibraryInit, RunInv PROVE SeeInv
    OBVIOUS
  <2>1. \A r \in Requesters : req[r] = Idle
    BY LibraryInit0
  <2>2. PICK first \in FirstStores : runs = first.runs /\ FirstStore(first)
    BY LibraryInit0
  <2>3. GateSeesAllIn
    BY <2>2 DEF GateSeesAllIn, FirstStore
  <2>4. \A r \in Requesters : GatherReq(req[r])
    BY <2>1, IdleFacts DEF GatherReq
  <2> QED
    BY <2>3, <2>4 DEF SeeInv
<1>2. SeeInv /\ RunInv' /\ [LibraryNext]_libraryVars => SeeInv'
  <2>1. ASSUME SeeInv, RunInv', LibraryNext PROVE SeeInv'
    BY <2>1, SeeStep DEF SeeInv
  <2>2. ASSUME SeeInv, RunInv', UNCHANGED libraryVars PROVE SeeInv'
    BY <2>2 DEF libraryVars, SeeInv, GateSeesAllIn
  <2> QED
    BY <2>1, <2>2
<1>3. SeeInv => GateSeesAllIn
  BY DEF SeeInv
<1> QED
  BY <1>1, <1>2, <1>3, RunInvariant, PTL DEF LibrarySpec
================================================================================
