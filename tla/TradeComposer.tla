---------------------------- MODULE TradeComposer ----------------------------
(***************************************************************************)
(* What the trade plan agent makes of the answer of its language model     *)
(* (_payload_to_card): the answer w proposes an action, a target and a     *)
(* stance, a draft c is the action and target as far as they are settled.  *)
(* Then TradeDecisionComposer.compose: the composer's own action from the  *)
(* scores, the plan over it, the gate over the plan, and the position      *)
(* advice that is derived again when the gate changes the action.          *)
(***************************************************************************)
EXTENDS RiskGate

----------------------------------------------------------------------------
(* The plan *)

Reduce == {"reduce", "reduce_batch", "reduce_now", "trim_on_rebound"}
Sell == {"sell", "sell_thesis_broken"}
Passive == HoldLike \cup {"panic_blocked"}
Stances == {"bullish", "neutral", "bearish", "insufficient_data"}

Lower(x, y) == IF x <= y THEN x ELSE y
Higher(x, y) == IF x >= y THEN x ELSE y

\* The assessment's maximum, else the account's: the thesis is attached later.
PlanMax(p) == IF p.ai.evaluated /\ p.ai.max >= 0 THEN p.ai.max ELSE p.accMax

Held(p) == [action |-> IF p.holding THEN "hold_no_add" ELSE "watchlist", target |-> p.current]

Clipped(p, w) ==
    [action |-> w.action, target |-> Lower(IF w.target = Unknown THEN p.current ELSE w.target, PlanMax(p))]

ByAssessment(p, c) ==
    IF c.action \notin AddLike THEN c
    ELSE IF p.ai.stance \in {"overweight", "over_limit", "forbidden"}
            \/ p.ai.bias \in {"hold_no_add", "avoid", "prefer_reduce"} THEN Held(p)
    ELSE IF c.action \in StrongAdd /\ p.ai.bias = "prefer_pullback_add" THEN [c EXCEPT !.action = "add_on_pullback"]
    ELSE c

\* The assessment asks for more than is held, and the evidence does not object.
SupportsAdd(p, stance) ==
    /\ AISupportsPullback(p) /\ p.ai.target > p.current
    /\ stance \in {"bullish", "neutral"}
    /\ p.fund.status \notin {"red", "orange"} /\ p.market.trend \notin {"severe", "broken"}
    /\ Fallbacks(p) < 2

Promoted(p, stance, c) ==
    IF c.action \in Passive /\ SupportsAdd(p, stance)
    THEN [c EXCEPT !.action = IF p.ai.bias = "prefer_pullback_add" THEN "add_on_pullback" ELSE "add_small"]
    ELSE c

Calibrated(p, stance, c) ==
    IF c.action \in AddLike /\ SupportsAdd(p, stance)
    THEN [c EXCEPT !.target = Higher(@, Lower(p.ai.target, PlanMax(p)))] ELSE c

\* Nothing to leave; nothing known; a bearish view of a holding.
Grounded(p, stance, c) ==
    IF ~p.holding /\ c.action \in Reduce \cup Sell
    THEN [action |-> IF stance = "bearish" THEN "avoid" ELSE "watchlist", target |-> 0]
    ELSE IF c.action \in AddLike /\ (stance = "insufficient_data" \/ (stance = "bearish" /\ p.holding)) THEN Held(p)
    ELSE c

\* An add that adds nothing and a reduction that reduces nothing are dropped.
Consistent(p, c) ==
    IF (c.action \in AddLike /\ c.target <= p.current) \/ (c.action \in Reduce /\ c.target >= p.current) THEN Held(p)
    ELSE IF c.action \in Sell THEN [c EXCEPT !.target = 0] ELSE c

PlanCard(p, w) ==
    LET drafted == Calibrated(p, w.stance, Promoted(p, w.stance, ByAssessment(p, Clipped(p, w))))
        c == Consistent(p, Grounded(p, w.stance, drafted))
    IN [skeleton |-> FALSE, action |-> c.action, target |-> c.target, max |-> PlanMax(p),
        ratio |-> w.ratio, steep |-> w.steep, invalidation |-> w.invalidation]

\* build_fallback_trade_plan_card: the model did not answer.
FallbackPlan(p) ==
    [skeleton |-> TRUE, action |-> Held(p).action, target |-> p.current, max |-> p.current,
     ratio |-> Unknown, steep |-> FALSE, invalidation |-> FALSE]

----------------------------------------------------------------------------
(* The composition *)

\* _determine_action; band is the action the scores stand for.
OwnAction(p, band) ==
    IF p.plan.action \in {"reduce_now", "hold_no_add", "wait", "add_on_pullback", "add_right_side"} THEN p.plan.action
    ELSE IF p.level \in {"poor", "unknown"} THEN IF p.holding THEN "hold" ELSE "watchlist"
    ELSE IF p.cash = "none" /\ ~p.holding THEN "watchlist"
    ELSE IF p.holding /\ band \in AddLike THEN "hold" ELSE band

\* _compute_position_advice: nothing for those who stay out, else the account's maximum.
PositionAdvice(p, a) ==
    IF a \in {"wait", "avoid", "watchlist"} /\ ~p.holding
    THEN [current |-> p.current, target |-> 0, max |-> 0]
    ELSE [current |-> p.current, target |-> p.accMax, max |-> p.accMax]

\* _apply_thesis_to_position: the assessment's numbers, else the thesis'.
Override(p, a, v) ==
    IF a \notin (Actions \ {"wait", "avoid", "watchlist", "panic_blocked"}) THEN v
    ELSE IF p.ai.evaluated /\ p.ai.max > 0
    THEN [v EXCEPT !.max = p.ai.max, !.target = IF p.ai.target > 0 /\ @ > 0 THEN Lower(p.ai.target, p.ai.max) ELSE @]
    ELSE [v EXCEPT !.max = p.thesis.max, !.target = IF p.thesis.target > 0 /\ @ > 0 THEN p.thesis.target ELSE @]

\* Whether _compute_execution_plan names invalid_conditions for the action.
HasInvalidation(a) ==
    a \in {"add_on_pullback", "add_right_side", "hold_no_add", "hold", "wait", "avoid",
           "reduce_now", "sell_thesis_broken", "trim_on_rebound", "panic_blocked"}

Advice(p, a) ==
    LET v == Override(p, a, PositionAdvice(p, a))
    IN [current |-> v.current, target |-> v.target, max |-> v.max, invalidation |-> HasInvalidation(a)]

\* _apply_trade_plan_to_output: the plan replaces the composer's action, unless
\* it is the card of an agent that did not answer.
Draft(p, band) ==
    IF p.plan.skeleton THEN [action |-> OwnAction(p, band), advice |-> Advice(p, OwnAction(p, band))]
    ELSE [action |-> p.plan.action,
          advice |-> [current |-> p.current, target |-> p.plan.target, max |-> p.plan.max,
                      invalidation |-> p.plan.invalidation]]

\* compose: the gate, or the fail-safe when it raises; a changed action gets advice
\* of its own.
Decision(p, band, gateRaises) ==
    LET draft == Draft(p, band)
        action == IF gateRaises THEN FailSafe(p) ELSE Gate(p, draft.advice, draft.action)
        advice == IF gateRaises \/ action # draft.action THEN Advice(p, action) ELSE draft.advice
    IN [action |-> action, draft |-> draft.action, target |-> advice.target, max |-> advice.max]

\* compose_decision_node once more: an add on mostly missing public data.
Published(p, d) ==
    IF Fallbacks(p) >= 2 /\ d.action \in {"add", "add_small", "add_batch"}
    THEN [d EXCEPT !.action = IF p.holding THEN "hold" ELSE "watchlist"] ELSE d
=============================================================================
