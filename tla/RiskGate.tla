------------------------------ MODULE RiskGate ------------------------------
(***************************************************************************)
(* The deterministic gate a composed trade decision passes before it is    *)
(* published (trade_decision_risk_gate.py): sixteen checks in a fixed      *)
(* order, each of which may replace the action the one before left.        *)
(*                                                                         *)
(* A pack p holds the cards of one decision, an advice v its position      *)
(* numbers.  Percentages are whole percents, a reward to risk ratio is in  *)
(* tenths.  Wording, flags and the confidence cap are left out.            *)
(***************************************************************************)
EXTENDS Integers

Unknown == -1  \* a number nobody gave

AddLike == {"add", "add_small", "add_batch", "add_on_pullback", "add_right_side"}
StrongAdd == {"add", "add_batch", "add_right_side"}
HoldLike == {"hold", "hold_no_add", "wait", "watchlist", "avoid"}
ExitLike == {"sell", "sell_thesis_broken", "reduce", "reduce_batch", "trim_on_rebound", "reduce_now"}
Actions == AddLike \cup HoldLike \cup ExitLike \cup {"panic_blocked"}

NoAdd(p) == IF p.holding THEN "hold_no_add" ELSE "wait"
PullbackUnlessHeld(p) == IF p.holding THEN "hold_no_add" ELSE "add_on_pullback"

One(b) == IF b THEN 1 ELSE 0
\* Public cards without usable evidence.
Fallbacks(p) == One(p.market.gone) + One(p.fund.gone) + One(p.event = "gone")

AISupportsPullback(p) ==
    /\ p.ai.evaluated
    /\ p.ai.stance \in {"underweight", "no_position"}
    /\ p.ai.bias \in {"allow_add", "prefer_pullback_add"}

RatioAllows(p) == p.plan.ratio = Unknown \/ p.plan.ratio >= 15
WeakCatalyst(p) == p.event # "strong"

----------------------------------------------------------------------------
\* 0. A holder asks to dump the position, and nothing on the cards supports a sale.
Panic(p) ==
    /\ p.alarm /\ p.holding
    /\ ~p.fund.bearish /\ ~p.market.bearish
    /\ p.market.trend \notin {"broken", "severe"}
    /\ ~p.fund.broken /\ p.plan.action # "sell_thesis_broken"
    /\ p.current <= 50

\* 1. to 3. No position limit, no invalidation conditions, thin public data.
AfterLimit(p, v, a) == IF a \in AddLike /\ v.max <= 0 THEN NoAdd(p) ELSE a
AfterInvalidation(p, v, a) == IF a \in StrongAdd /\ ~v.invalidation THEN PullbackUnlessHeld(p) ELSE a
AfterData(p, a) == IF a \in AddLike /\ Fallbacks(p) >= 2 THEN NoAdd(p) ELSE a

\* 4. A weak catalyst leaves a right-side add with strong evidence, or a pullback
\* add that the policy assessment supports.
WeakRightSide(p, a) ==
    a = "add_right_side" /\ p.plan.ratio >= 20 /\ p.market.trend = "none" /\ p.fund.status \in {"green", "yellow"}
WeakPullback(p, a) ==
    /\ a = "add_on_pullback" /\ AISupportsPullback(p) /\ RatioAllows(p)
    /\ p.market.trend \in {"none", "warning", "unknown"} /\ p.fund.status \in {"green", "yellow", "unknown"}
AfterCatalyst(p, a) ==
    IF a \notin AddLike \/ ~WeakCatalyst(p) \/ WeakRightSide(p, a) \/ WeakPullback(p, a) THEN a
    ELSE IF a # "add_on_pullback" /\ AISupportsPullback(p) /\ RatioAllows(p) THEN "add_on_pullback"
    ELSE NoAdd(p)

\* 5. At the limit, or an account that does not fit.
AfterFit(p, v, a) ==
    IF a \in AddLike /\ ((v.max > 0 /\ v.current >= v.max) \/ p.level \in {"concentrated", "poor"})
    THEN "hold_no_add" ELSE a

\* 5b. The policy assessment objects, or its maximum is reached or exceeded.
AfterAssessment(p, v, a) ==
    IF a \in AddLike /\ p.ai.evaluated
       /\ \/ p.ai.bias \in {"hold_no_add", "avoid", "prefer_reduce"}
          \/ p.ai.max > 0 /\ (v.current >= p.ai.max \/ v.target > p.ai.max)
    THEN NoAdd(p) ELSE a

\* 6. The technical trend-break level.
AfterTrend(p, a) ==
    IF a \in AddLike /\ p.market.trend \in {"severe", "broken"} THEN NoAdd(p)
    ELSE IF a \in StrongAdd /\ p.market.trend = "warning"
    THEN IF AISupportsPullback(p) /\ p.fund.status \notin {"red", "orange"} /\ RatioAllows(p)
         THEN "add_on_pullback" ELSE PullbackUnlessHeld(p)
    ELSE a

----------------------------------------------------------------------------
\* 6b. The investment thesis of the symbol: its maximum, its risk, its triggers.
SellTriggered(p) ==
    (p.thesis.sellSevere /\ p.market.trend = "severe") \/ (p.thesis.sellRed /\ p.fund.bearish)
NoAddTriggered(p) ==
    \/ p.thesis.noAddTrend /\ p.market.trend \in {"broken", "severe"}
    \/ p.thesis.noAddCatalyst /\ p.event \in {"weak", "negative"}

AfterThesisLimit(p, v, a) ==
    IF a \in AddLike /\ p.thesis.max > 0 /\ v.current >= p.thesis.max THEN "hold_no_add" ELSE a
AfterExtreme(p, a) == IF a \in StrongAdd /\ p.thesis.risk = "extreme" THEN PullbackUnlessHeld(p) ELSE a
ThesisExit(p) == IF p.thesis.risk \in {"extreme", "high_growth"} THEN "sell_thesis_broken" ELSE "reduce_now"
AfterSellTrigger(p, a) ==
    IF SellTriggered(p) /\ p.holding /\ a \in {"hold", "watchlist", "wait", "add_on_pullback", "hold_no_add"}
    THEN ThesisExit(p) ELSE a
AfterNoAddTrigger(p, a) == IF a \in AddLike /\ NoAddTriggered(p) THEN NoAdd(p) ELSE a

\* 6c. The fundamental status: red or broken, orange, yellow.
FundamentalBreak(p) == p.fund.status = "red" \/ p.fund.broken

\* Mutant: whoever does not hold is told to leave as well.
AfterBreakWithoutHolding(p, a) ==
    IF FundamentalBreak(p) /\ a \in AddLike \cup (HoldLike \ {"avoid"})
    THEN IF p.fund.broken THEN "sell_thesis_broken" ELSE ThesisExit(p)
    ELSE a

AfterBreak(p, a) ==
    IF ~FundamentalBreak(p) THEN a
    ELSE IF p.holding /\ a \in AddLike \cup (HoldLike \ {"avoid"})
    THEN IF p.fund.broken THEN "sell_thesis_broken" ELSE ThesisExit(p)
    ELSE IF ~p.holding /\ a \in AddLike THEN "wait" ELSE a

AfterStatus(p, a) ==
    IF a \in AddLike /\ p.fund.status = "orange" THEN NoAdd(p)
    ELSE IF a \in StrongAdd /\ p.fund.status = "yellow"
    THEN IF AISupportsPullback(p) /\ RatioAllows(p) THEN "add_on_pullback" ELSE PullbackUnlessHeld(p)
    ELSE a

\* Mutant: the lower of the two bounds only.
AfterRatioOneBound(p, a) ==
    IF a \notin AddLike \/ p.plan.ratio = Unknown \/ p.plan.ratio >= 10 THEN a
    ELSE IF p.holding THEN "reduce_now" ELSE "wait"

\* 6d. Reward to risk below 1 and below 1.5; a downside above 30 per cent.
AfterRatio(p, a) ==
    IF a \notin AddLike \/ p.plan.ratio = Unknown \/ p.plan.ratio >= 15 THEN a
    ELSE IF p.plan.ratio < 10 /\ p.holding THEN "reduce_now" ELSE NoAdd(p)
AfterDownside(p, a) == IF a \in StrongAdd /\ p.plan.steep THEN PullbackUnlessHeld(p) ELSE a

\* 7. A severe breakdown turns a holder's waiting into a reduction.
SevereBreakdown(p) == p.market.bearish \/ p.fund.bearish \/ p.event = "negative"
AfterBreakdown(p, a) ==
    IF SevereBreakdown(p) /\ p.holding /\ a \in {"hold", "watchlist", "wait", "add_on_pullback"}
    THEN "reduce_now" ELSE a

----------------------------------------------------------------------------
\* The checks in their order.
AfterAccount(p, v, a) ==
    AfterAssessment(p, v, AfterFit(p, v, AfterCatalyst(p, AfterData(p, AfterInvalidation(p, v, AfterLimit(p, v, a))))))
AfterThesis(p, v, a) ==
    AfterNoAddTrigger(p, AfterSellTrigger(p, AfterExtreme(p, AfterThesisLimit(p, v, a))))
AfterFundamentals(p, a) == AfterDownside(p, AfterRatio(p, AfterStatus(p, AfterBreak(p, a))))

\* RiskGate.evaluate
Gate(p, v, a) ==
    IF Panic(p) THEN "panic_blocked"
    ELSE AfterBreakdown(p, AfterFundamentals(p, AfterThesis(p, v, AfterTrend(p, AfterAccount(p, v, a)))))

\* make_fail_safe_result: what is published when the gate itself raises.
FailSafe(p) == NoAdd(p)

----------------------------------------------------------------------------
\* A maximum that is given is reached.
Reached(p, max) == max > 0 /\ p.current >= max

\* The evidence an add needs, whatever the cards said before the gate.
AddHasEvidence(p) ==
    /\ Fallbacks(p) <= 1
    /\ p.level \notin {"concentrated", "poor"}
    /\ p.market.trend \notin {"severe", "broken"}
    /\ p.fund.status \notin {"red", "orange"} /\ ~p.fund.broken
    /\ RatioAllows(p)
    /\ p.ai.evaluated => p.ai.bias \notin {"hold_no_add", "avoid", "prefer_reduce"} /\ ~Reached(p, p.ai.max)
    /\ ~Reached(p, p.thesis.max)
    /\ WeakCatalyst(p) =>
        \/ AISupportsPullback(p)
        \/ p.plan.ratio >= 20 /\ p.market.trend = "none" /\ p.fund.status \in {"green", "yellow"}
=============================================================================
