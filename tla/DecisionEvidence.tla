--------------------------- MODULE DecisionEvidence ---------------------------
(***************************************************************************)
(* What surrounds a trade decision: the account's facts it starts from     *)
(* (trade_decision_account_facts.py, trade_decision_evidence.py), the      *)
(* public data that is read for it, the judgement of its quality           *)
(* (trade_decision_quality_evaluator.py), what is stored and read of it    *)
(* (trade_decision_repository.py), the statistics over many decisions      *)
(* (trade_decision_quality_analytics.py) and what became of them           *)
(* (trade_decision_outcome_replay.py).                                     *)
(*                                                                         *)
(* Shares and returns are in hundredths of a percent.                      *)
(***************************************************************************)
EXTENDS TradeComposer, Sequences, FiniteSets, SequencesExt

Missing == -999999  \* for a number: None
OrZero(x)   == IF x = Missing THEN 0 ELSE x
Size(x)     == IF x < 0 THEN -x ELSE x
Top(s, n)   == SubSeq(s, 1, Lower(Len(s), n))
Last20(s)   == SubSeq(s, Higher(1, Len(s) - 19), Len(s))
Total(s)    == FoldLeft(LAMBDA x, y : x + y, 0, s)
Where(S)    == {x[1] : x \in {y \in S : y[2]}}  \* the names whose condition holds
Per(x, y)   == IF x = Missing \/ y \in {Missing, 0} THEN Missing ELSE (x * 10000) \div y

----------------------------------------------------------------------------
(* The facts of the account *)

CASH_EQUIVALENT_SYMBOLS == {"SGOV", "STRC", "BIL", "SHV", "USFR", "TFLO", "BOXX"}
_is_cash_equivalent(s) == s \in CASH_EQUIVALENT_SYMBOLS

\* A percentage of one or less is taken for the ratio itself.
_nav_percent_to_ratio(nav) == IF nav # Missing /\ Size(nav) <= 100 THEN 100 * nav ELSE nav
_ratio_from_percent_or_cost(row) ==
  IF row.percent # Missing THEN _nav_percent_to_ratio(row.percent) ELSE Per(row.unrealized, Size(row.cost))

\* accounts: by day; positions: the rows of a day, which may not be there yet.
_latest_account_date(accounts) ==
  IF DOMAIN accounts = {} THEN Missing ELSE CHOOSE d \in DOMAIN accounts : \A e \in DOMAIN accounts : e <= d
NoFacts == [equity |-> Missing, cash |-> Missing]
_latest_account_snapshot(accounts) == IF DOMAIN accounts = {} THEN NoFacts ELSE accounts[_latest_account_date(accounts)]
RowsOf(accounts, positions) ==
  LET day == _latest_account_date(accounts) IN IF day \in DOMAIN positions THEN positions[day] ELSE <<>>
_latest_positions(accounts, positions, limit) ==
  Top(SortSeq(RowsOf(accounts, positions), LAMBDA a, b : a.value > b.value), limit)
_fetch_current_position(accounts, positions, s) ==
  Top(SelectSeq(RowsOf(accounts, positions), LAMBDA r : r.symbol = s), 1)

\* The equivalents of cash and the concentration are those of the twenty greatest positions.
_build_account_context(accounts, positions) ==
  LET account == _latest_account_snapshot(accounts)
      held == _latest_positions(accounts, positions, 20)
      amount(s) == Total([i \in DOMAIN s |-> Size(OrZero(s[i].value))])
      share(s) == Total([i \in DOMAIN Top(s, 3) |-> OrZero(_nav_percent_to_ratio(s[i].nav))])
      deployable == OrZero(account.cash) + amount(SelectSeq(held, LAMBDA r : _is_cash_equivalent(r.symbol)))
  IN  [net_liquidation |-> account.equity, cash |-> account.cash, deployable_liquidity |-> deployable,
       deployable_liquidity_ratio |-> Per(deployable, account.equity), total_position_value |-> amount(held),
       top_positions |-> Top(held, 5), position_concentration |-> share(held),
       risk_concentration |-> share(SelectSeq(held, LAMBDA r : ~_is_cash_equivalent(r.symbol)))]

\* row: none or one.  A gain of nothing is computed from the cost instead.
_build_position_context(row) ==
  IF row = <<>> THEN [is_holding |-> FALSE, quantity |-> 0, position_pct |-> 0, unrealized_pnl_pct |-> Missing]
  ELSE LET r == row[1]
           ratio == _ratio_from_percent_or_cost(r)
       IN  [is_holding |-> OrZero(r.quantity) # 0, quantity |-> r.quantity, position_pct |-> _nav_percent_to_ratio(r.nav),
            unrealized_pnl_pct |-> IF ratio \in {0, Missing} THEN Per(r.unrealized, Size(r.cost)) ELSE ratio]

\* The first trades, oldest first; the recent ones are the last of these.
_fetch_symbol_trades(trades, limit) == Top(SortSeq(trades, LAMBDA a, b : a.date < b.date), limit)
_build_trade_history_context(trades) ==
  LET buys == SelectSeq(trades, LAMBDA t : t.side = "BUY")
  IN  [recent_trades |-> Last20(trades),
       first_buy_date |-> IF buys = <<>> THEN Missing ELSE buys[1].date,
       last_trade_date |-> IF trades = <<>> THEN Missing ELSE trades[Len(trades)].date,
       holding_days |-> IF buys = <<>> THEN Missing ELSE trades[Len(trades)].date - buys[1].date]

TradeLimit(type) == IF type \in {"trade_decision", "holding_decision"} THEN 50 ELSE 20
\* Documents of a symbol, newest first; none where the index is missing.
_latest_symbol_review(reviews) == Top(SortSeq(reviews, LAMBDA a, b : a.created > b.created), 1)
_global_mistake_summary(reviews) ==
  LET tags == UNION {reviews[i].tags : i \in DOMAIN reviews}
      count(t) == Cardinality({i \in DOMAIN reviews : t \in reviews[i].tags})
      ranked == SetToSortSeq(tags, LAMBDA a, b : count(a) > count(b))
  IN  Top([i \in DOMAIN ranked |-> [tag |-> ranked[i], count |-> count(ranked[i])]], 20)
_build_review_context(reviews) == [latest_review |-> _latest_symbol_review(reviews), global |-> _global_mistake_summary(reviews)]

build(type, s, accounts, positions, trades, reviews) ==
  [account |-> _build_account_context(accounts, positions),
   position |-> _build_position_context(_fetch_current_position(accounts, positions, s)),
   history |-> _build_trade_history_context(_fetch_symbol_trades(trades, TradeLimit(type))),
   review |-> _build_review_context(reviews)]

list_current_holdings(accounts, positions) ==
  SelectSeq(_latest_positions(accounts, positions, 500), LAMBDA r : r.symbol # "")

----------------------------------------------------------------------------
(* Public data *)

\* An answer is a value, empty, or one of two kinds of exception: what the client raises
\* itself and anything else.
PublicAnswers == {"value", "empty", "refused", "raises"}
_looks_empty_longbridge_payload(answer) == answer = "empty"
_fetch_longbridge_public_field(answer) ==
  [value |-> IF answer \in {"refused", "raises"} THEN "none" ELSE answer, raises |-> answer = "raises",
   warned |-> answer = "refused" \/ _looks_empty_longbridge_payload(answer)]
\* The news always come with a warning.
_fetch_news(answer) == [_fetch_longbridge_public_field(answer) EXCEPT !.warned = answer # "raises"]
_fetch_candles(answer) == _fetch_longbridge_public_field(answer)

Gathered == {"quote", "static_info", "calc_indexes", "filings", "topics", "news", "candles"}
\* What a pool of threads reads is silently none when it raises; the statements and the
\* snapshot are read outside of it.
_build_public_context(answers) ==
  LET fetch(f) == IF f = "news" THEN _fetch_news(answers[f]) ELSE _fetch_longbridge_public_field(answers[f])
  IN  [raises |-> "raises" \in {answers["financials"], answers["snapshot"]},
       values |-> [f \in Gathered |-> fetch(f).value],
       warned |-> {f \in Gathered : fetch(f).warned} \cup {f \in {"financials", "snapshot"} : answers[f] = "refused"}]
tool_get_valuation_context(answers) ==
  [_build_public_context(answers) EXCEPT !.raises = answers["snapshot"] = "raises",
                                         !.warned = @ \cap {"quote", "static_info", "calc_indexes", "snapshot"}]
tool_get_external_events(answers) ==
  [raises |-> "raises" \in {answers["news"], answers["filings"], answers["topics"]},
   warned |-> _build_public_context(answers).warned \cap {"news", "filings", "topics"}]

\* Prices, oldest first: the change over so many days is that over what there is.
calculate_price_change(closes, days) ==
  IF closes = <<>> THEN Missing
  ELSE LET start == closes[Higher(1, Len(closes) - days + 1)]
       IN  IF start \in {0, Missing} \/ closes[Len(closes)] = Missing THEN Missing
           ELSE Per(closes[Len(closes)] - start, start)
_relative_return(change, benchmark) ==
  IF change = Missing \/ calculate_price_change(benchmark, 90) = Missing THEN Missing
  ELSE change - calculate_price_change(benchmark, 90)
calculate_market_context(closes, benchmarks) ==
  [change |-> [n \in {7, 30, 90, 180} |-> calculate_price_change(closes, n)],
   relative |-> [b \in DOMAIN benchmarks |-> _relative_return(calculate_price_change(closes, 90), benchmarks[b])]]


----------------------------------------------------------------------------
(* The judgement of a document *)

CORE_GRAPH_NODES == {"build_account_facts", "load_user_investment_policy", "build_card_pack", "ai_policy_assessment",
                     "debate_judge", "trade_plan", "compose_decision", "persist_decision"}
EXPECTED_GRAPH_NODES == CORE_GRAPH_NODES \cup
  {"account_fit", "market_trend", "fundamental_valuation", "event_catalyst", "market_event_context",
   "bull_thesis", "bear_thesis", "bull_rebuttal", "bear_rebuttal"}
DebateNodes == {"bull_thesis", "bear_thesis", "bull_rebuttal", "bear_rebuttal", "debate_judge"}
TOOL_FREE_LLM_NODES == DebateNodes \cup {"trade_plan", "ai_policy_assessment"}
CONSERVATIVE_ACTIONS == HoldLike \cup {"panic_blocked"}
CoreCards == {"account_fact_snapshot", "debate_judge_card", "trade_plan_card"}
RequiredCards == CoreCards \cup
  {"account_fit_card", "market_trend_card", "fundamental_valuation_card", "event_catalyst_card",
   "market_event_context_card", "bull_thesis_card", "bear_thesis_card", "bull_rebuttal_card",
   "bear_rebuttal_card", "risk_reward_card"}

\* doc.trace: of each node that left one [status, fallback, tools, structured], the last
\* "none" or [ok, repaired, fallback].
Fallen(doc) == {n \in DOMAIN doc.trace : doc.trace[n].fallback \/ doc.trace[n].status = "fallback"}
Answered(doc) == {n \in DOMAIN doc.trace : doc.trace[n].structured # <<>>}
Repaired(doc) == {n \in Answered(doc) : doc.trace[n].structured[1].repaired}
Refused(doc)  == {n \in Answered(doc) : ~doc.trace[n].structured[1].ok}
Check(hard, warn) == [hard |-> Where(hard), warn |-> Where(warn)]

_check_graph_integrity(doc) ==
  LET missing == EXPECTED_GRAPH_NODES \ DOMAIN doc.trace
      with(statuses) == {n \in DOMAIN doc.trace : doc.trace[n].status \in statuses}
      odd == DOMAIN doc.trace \ with({"", "success", "completed", "fallback", "failed"})
      named(text, nodes) == {<<text \o n, TRUE>> : n \in nodes}
  IN  Check(named("core_graph_node_missing:", missing \cap CORE_GRAPH_NODES)
              \cup {<<"standalone risk_reward", "risk_reward" \in DOMAIN doc.trace>>},
            named("graph_node_missing:", missing \ CORE_GRAPH_NODES)
              \cup named("graph_node_failed:", with({"failed"})) \cup named("graph_node_invalid_status:", odd))

_check_data_source_integrity(doc) ==
  Check({<<k \o "_not_ibkr_only", doc.sources[k] # "IBKR_ONLY">> : k \in {"account", "trade", "position"}}
          \cup {<<"tool_free_node_called_tools:" \o n, n \in TOOL_FREE_LLM_NODES /\ doc.trace[n].tools>> : n \in DOMAIN doc.trace}, {})

_check_structured_output_health(doc) ==
  Check({<<"debate_judge_fallback_without_low_confidence", doc.confidence # "low" /\ "debate_judge" \in Fallen(doc)>>,
         <<"trade_plan_fallback_aggressive_action", "trade_plan" \in Fallen(doc) /\ doc.action \in StrongAdd>>},
        {<<"structured_output_repaired", Repaired(doc) # {}>>, <<"structured_output_failed", Refused(doc) # {}>>,
         <<"debate_fallback", Fallen(doc) \cap DebateNodes # {}>>, <<"trade_plan_fallback", "trade_plan" \in Fallen(doc)>>})

_check_asset_action_consistency(doc) ==
  LET adds == doc.action \in AddLike
  IN  Check({<<"insufficient_data_add_like", doc.stance = "insufficient_data" /\ adds>>,
             <<"bearish_no_position_invalid_action", doc.stance = "bearish" /\ ~doc.holding /\ doc.action \in AddLike \cup Reduce \cup Sell>>,
             <<"bearish_holding_add_like", doc.stance = "bearish" /\ doc.holding /\ adds>>,
             <<"insufficient_data_reason_add_like", doc.plan.reason = "insufficient_data" /\ adds>>},
            {<<"bullish_sell_without_risk_gate_reason", doc.stance = "bullish" /\ doc.action \in Sell /\ doc.gate.reasons = {}>>,
             <<"neutral_aggressive_add", doc.stance = "neutral" /\ doc.action \in {"add_batch", "add_right_side"}>>,
             <<"trade_plan_action_differs", /\ doc.plan.action \notin {"", doc.action}
                                            /\ ~doc.gate.downgraded /\ doc.gate.final # doc.action>>,
             <<"portfolio_risk_constraint", doc.plan.reason = "portfolio_risk_constraint" /\ adds>>})

\* A number that is not given is compared with nothing.
Given(x, y) == x # Missing /\ y # Missing
_check_position_consistency(doc) ==
  LET a == doc.advice
  IN  Check({<<"negative_" \o k, a[k] # Missing /\ a[k] < 0>> : k \in DOMAIN a}
              \cup {<<"no_position_sell_or_reduce", ~doc.holding /\ doc.action \in Reduce \cup Sell>>},
            {<<"target_exceeds_max", Given(a.target, a.max) /\ a.max > 0 /\ a.target > a.max>>,
             <<"add_without_increase", doc.action \in AddLike /\ Given(a.current, a.target) /\ a.target <= a.current>>,
             <<"reduce_without_decrease", doc.action \in Reduce /\ Given(a.current, a.target) /\ a.target >= a.current>>,
             <<"sell_target_not_zero", doc.action \in Sell /\ OrZero(a.target) > 0>>,
             <<"passive_nonzero_target", ~doc.holding /\ doc.action \in {"watchlist", "avoid"} /\ OrZero(a.target) > 0>>})

_check_risk_gate_integrity(doc) ==
  LET g == doc.gate
  IN  IF ~g.present THEN Check({<<"risk_gate_missing", TRUE>>}, {})
      ELSE Check({<<"risk_gate_final_action_mismatch", g.final # doc.action>>},
                 {<<"original_missing", g.original = "">>,
                  <<"downgraded_false", "" \notin {g.original, g.final} /\ g.original # g.final /\ ~g.downgraded>>,
                  <<"blocked_not_conservative", g.blocked /\ doc.action \notin CONSERVATIVE_ACTIONS>>,
                  <<"reasons_not_surfaced", g.reasons # {} /\ g.reasons \cap doc.visible = {}>>,
                  <<"add_without_max", doc.action \in AddLike /\ g.max = Missing>>})

_check_ai_policy_assessment_integrity(doc) ==
  LET ai == doc.assessment
      evaluated == ai.status = "evaluated"
      adds == doc.action \in AddLike
      preferred == <<"preference_without_assessment", adds /\ OrZero(ai.max) = 0 /\ doc.user.max # Missing /\ doc.user.max > 0>>
  IN  IF ai.status = "absent" THEN Check({<<"ai_policy_assessment_missing", TRUE>>}, {})
      ELSE IF evaluated
      THEN Check({<<"ai_policy_field_missing:" \o k, TRUE>> : k \in ai.missing} \cup
                 {<<"ai_policy_position_order_invalid", /\ Missing \notin {ai.min, ai.target, ai.max}
                                                        /\ ~(ai.min <= ai.target /\ ai.target <= ai.max)>>,
                  <<"ai_policy_target_range_invalid", Given(ai.low, ai.high) /\ ai.low > ai.high>>,
                  <<"add_like_target_above_ai_policy_max", adds /\ Given(ai.max, doc.advice.target) /\ doc.advice.target > ai.max>>},
                 {<<"prompt_key_missing", doc.user.given /\ ~ai.prompt>>, preferred})
      ELSE Check({<<"ai_policy_fallback_invalid", ai.status = "fallback" /\ ai.challenge \notin {"not_evaluated", "risk_warning"}>>},
                 {<<"ai_policy_assessment_fallback", ai.status = "fallback">>,
                  <<"ai_policy_unknown_status", ai.status \notin {"fallback", "not_evaluated"}>>, preferred})

HardBlocks == {"insufficient_data", "fundamental_red_action", "fundamental_red_blocked", "trend_break_severe_blocked",
  "trend_break_broken_blocked", "rr_below_one", "missing_position_limit", "position_limit_reached",
  "panic_sell_blocked", "target_above_ai_policy_max", "ai_policy_max_position_downgrade"}
SoftFlags == {"weak_catalyst_downgrade", "weak_catalyst_soft_warning", "weak_catalyst_downgrade_to_pullback"}
_check_action_calibration_integrity(doc) ==
  LET action == IF doc.final = "" THEN doc.action ELSE doc.final
      draft == IF doc.draft = "" THEN doc.plan.action ELSE doc.draft
      ai == doc.assessment
      g == doc.gate
  IN  Check({<<"add_like_with_fundamental_red", action \in AddLike /\ doc.fundamental = "red">>,
             <<"add_like_with_trend_break_severe", action \in AddLike /\ doc.trend = "severe">>},
            {<<"over_conservative", /\ ai.status = "evaluated" /\ ai.stance = "underweight"
                                    /\ ai.bias \in {"allow_add", "prefer_pullback_add"}
                                    /\ ~g.blocked /\ g.flags \cap HardBlocks = {} /\ action \in CONSERVATIVE_ACTIONS>>,
             <<"hold_like_without_reason", action \in {"hold_no_add", "wait"} /\ g.reasons = {} /\ doc.plan.notes = {}>>,
             <<"soft_risk_over_downgraded", /\ draft \in AddLike /\ action \in CONSERVATIVE_ACTIONS
                                            /\ g.flags # {} /\ g.flags \subseteq SoftFlags /\ ai.bias = "prefer_pullback_add">>})

_check_risk_reward_source_integrity(doc) ==
  Check({<<"risk_reward_source_not_trade_plan", doc.ratio.source # "trade_plan">>,
         <<"risk_reward_standalone_node_enabled", doc.ratio.standalone>>,
         <<"standalone risk_reward", "risk_reward" \in DOMAIN doc.trace>>},
        {<<"risk_reward_card_missing", "risk_reward_card" \notin doc.cards>>,
         <<"risk_reward_card_missing_marker", "risk_reward_card" \in doc.cards /\ ~doc.ratio.marked>>})

_check_evidence_card_completeness(doc) ==
  LET missing == {<<"evidence_card_missing:" \o c, c \notin doc.cards>> : c \in RequiredCards}
  IN  Check({m \in missing : \E c \in CoreCards : m[1] = "evidence_card_missing:" \o c},
            {m \in missing : \A c \in CoreCards : m[1] # "evidence_card_missing:" \o c})
_check_output_contract_integrity(doc) == Check({<<"output_field_missing:" \o k, TRUE>> : k \in doc.absent}, {})

Checks(doc) ==
  {_check_graph_integrity(doc), _check_data_source_integrity(doc), _check_structured_output_health(doc),
   _check_asset_action_consistency(doc), _check_position_consistency(doc), _check_risk_gate_integrity(doc),
   _check_ai_policy_assessment_integrity(doc), _check_action_calibration_integrity(doc),
   _check_risk_reward_source_integrity(doc), _check_evidence_card_completeness(doc), _check_output_contract_integrity(doc)}

_score(doc, hard, warn) ==
  LET fallen == Fallen(doc)
      taken == Lower(100, 15 * Cardinality(hard)) + 4 * Cardinality(warn)
               + 2 * Cardinality(fallen) - One("market_event_context" \in fallen)
               + Lower(5, Cardinality(Repaired(doc))) + 5 * Cardinality(fallen \cap DebateNodes)
               + 10 * One("trade_plan" \in fallen)
  IN  Higher(0, 100 - taken)
_level(score) ==
  IF score >= 90 THEN "excellent" ELSE IF score >= 75 THEN "good" ELSE IF score >= 55 THEN "warning" ELSE "poor"

\* What the check of the structured output reports goes into the statistics.
evaluate(doc) ==
  LET hard == UNION {c.hard : c \in Checks(doc)}
      warn == UNION {c.warn : c \in Checks(doc)}
      score == _score(doc, hard, warn)
  IN  [score |-> score, level |-> _level(score), passed |-> hard = {} /\ score >= 55, hard |-> hard, warn |-> warn,
       health |-> [fallbacks |-> Cardinality(Fallen(doc)), repaired |-> Cardinality(Repaired(doc)),
                   refused |-> Cardinality(Refused(doc))]]

----------------------------------------------------------------------------
(* What is stored and what is read of it *)

KeptCards == {"account_fit_card", "market_trend_card", "fundamental_valuation_card", "event_catalyst_card",
              "risk_reward_card", "account_fact_snapshot"}
\* _trim_card_summary: the lists of a card, at most five entries; ten tools.
_trim_card_summary(card) ==
  [k \in DOMAIN card |-> Top(card[k], IF k = "source_tools" THEN 10 ELSE 5)]
\* Of the snapshot's review what has the key symbol_latest_review: the snapshot says latest_review.
_compact_card_pack_for_storage(pack) ==
  [cards |-> pack.cards \cap KeptCards,
   review |-> {k \in pack.review : k \in {"symbol_latest_review", "symbol_mistake_tags", "global_mistake_summary"}},
   traces |-> Top(pack.traces, 10)]
PackLimits == [cash_equivalent_positions |-> 10, top_positions |-> 10, recent_trades |-> 20, symbol_mistake_tags |-> 20,
               global_mistake_summary |-> 20, news |-> 10, filings |-> 10, topics |-> 10, event_warnings |-> 20, warnings |-> 30]
_compact_evidence_pack_for_storage(pack) == [k \in DOMAIN pack \cap DOMAIN PackLimits |-> Top(pack[k], PackLimits[k])]

\* stored: documents by id.  A document that has an id replaces the one of that id.
save_decision(stored, doc, fresh, now) ==
  LET id == IF doc.id = Missing THEN fresh ELSE doc.id
      kept == [doc EXCEPT !.id = id, !.created = IF @ = Missing THEN now ELSE @]
  IN  [i \in DOMAIN stored \cup {id} |-> IF i = id THEN kept ELSE stored[i]]

NewestFirst(S, n) == Top(SetToSortSeq(S, LAMBDA a, b : a.created > b.created), n)
list_recent_decisions(stored, limit, type) ==
  NewestFirst({stored[i] : i \in {j \in DOMAIN stored : type = "" \/ stored[j].type = type}}, limit)
list_symbol_decisions(stored, symbol, limit) ==
  NewestFirst({stored[i] : i \in {j \in DOMAIN stored : stored[j].symbol = symbol}}, limit)

NoAssessment == [status |-> "", stance |-> "", bias |-> "", target |-> Missing, max |-> Missing]
\* The statistics are given neither the drafted and final action nor the assessment.
list_recent_decisions_for_quality(stored, limit, since) ==
  LET found == NewestFirst({stored[i] : i \in {j \in DOMAIN stored : stored[j].created >= since}}, limit)
  IN  [i \in DOMAIN found |-> [found[i] EXCEPT !.draft = "", !.final = "", !.assessment = NoAssessment]]
list_recent_decisions_for_outcome(stored, limit, since, symbol, type) ==
  NewestFirst({stored[i] : i \in {j \in DOMAIN stored : /\ stored[j].created >= since
                                                        /\ symbol \in {"", stored[j].symbol}
                                                        /\ type \in {"", stored[j].type}}}, limit)

----------------------------------------------------------------------------
(* Statistics over the documents *)

CountOf(docs, Holds(_)) == Len(SelectSeq(docs, Holds))
_rate(n, m) == IF m = 0 THEN 0 ELSE (n * 10000) \div m
_top_items(s, limit) ==
  LET count(k) == Len(SelectSeq(s, LAMBDA x : x = k))
      ranked == SetToSortSeq({s[i] : i \in DOMAIN s}, LAMBDA a, b : count(a) > count(b))
  IN  Top([i \in DOMAIN ranked |-> [key |-> ranked[i], count |-> count(ranked[i])]], limit)
_ai_bias_matches_final(bias, action) ==
  \/ bias = "allow_add" /\ action \in AddLike
  \/ bias = "prefer_pullback_add" /\ action = "add_on_pullback"
  \/ bias \in {"hold_no_add", "avoid"} /\ action \in CONSERVATIVE_ACTIONS
  \/ bias = "prefer_reduce" /\ action \in ExitLike \cup {"hold_no_add"}

\* quality: of a document that was judged its judgement, of an older one nothing.
Judged(doc) == doc.quality # <<>>
_structured_output_from_quality(quality) == quality.health
\* Here a node whose answer was replaced counts twice.
_structured_output_from_run_trace(doc) ==
  [fallbacks |-> Cardinality(Fallen(doc)) + Cardinality({n \in Answered(doc) : doc.trace[n].structured[1].fallback}),
   repaired |-> Cardinality(Repaired(doc)), refused |-> Cardinality(Refused(doc))]
Structured(doc) ==
  IF Judged(doc) THEN _structured_output_from_quality(doc.quality[1]) ELSE _structured_output_from_run_trace(doc)

FinalAction(doc) == IF doc.final = "" THEN doc.action ELSE doc.final
DraftAction(doc) == IF doc.draft = "" THEN doc.plan.action ELSE doc.draft
\* by: created; the last twenty of those judged.
_recent_trend(docs) == Last20(SortSeq(SelectSeq(docs, Judged), LAMBDA a, b : a.created < b.created))

_summarize(docs) ==
  LET judged == SelectSeq(docs, Judged)
      sum(field) == Total([i \in DOMAIN docs |-> Structured(docs[i])[field]])
      evaluated == SelectSeq(docs, LAMBDA d : d.assessment.status = "evaluated")
      among(S) == CountOf(docs, LAMBDA d : FinalAction(d) \in S)
      biased == SelectSeq(evaluated, LAMBDA d : d.assessment.bias # "")
      held(s, Holds(_)) == CountOf(s, LAMBDA d : Holds(d) /\ FinalAction(d) \in CONSERVATIVE_ACTIONS)
      comparable == SelectSeq(docs, LAMBDA d : d.plan.action # "" /\ FinalAction(d) # "")
      thin == SelectSeq(docs, LAMBDA d : d.gate.fallbacks >= 2)
  IN  [total |-> Len(docs), evaluated |-> Len(judged), unevaluated |-> Len(docs) - Len(judged),
       pass |-> CountOf(judged, LAMBDA d : d.quality[1].passed), fail |-> CountOf(judged, LAMBDA d : ~d.quality[1].passed),
       levels |-> [l \in {"excellent", "good", "warning", "poor", "unknown"} |->
                     IF l = "unknown" THEN Len(docs) - Len(judged) ELSE CountOf(judged, LAMBDA d : d.quality[1].level = l)],
       average |-> IF judged = <<>> THEN Missing
                   ELSE Total([i \in DOMAIN judged |-> judged[i].quality[1].score]) \div Len(judged),
       downgraded |-> CountOf(docs, LAMBDA d : d.gate.downgraded), blocked |-> CountOf(docs, LAMBDA d : d.gate.blocked),
       fallbacks |-> sum("fallbacks"), repaired |-> sum("repaired"), refused |-> sum("refused"),
       mismatches |-> CountOf(comparable, LAMBDA d : d.plan.action # FinalAction(d)),
       changed |-> CountOf(docs, LAMBDA d : "" \notin {DraftAction(d), FinalAction(d)} /\ DraftAction(d) # FinalAction(d)),
       adds |-> among(AddLike), reductions |-> among(ExitLike), holds |-> among(CONSERVATIVE_ACTIONS),
       actions |-> _top_items([i \in DOMAIN docs |-> FinalAction(docs[i])], 10),
       policies |-> Len(evaluated), policyFallbacks |-> CountOf(docs, LAMBDA d : d.assessment.status = "fallback"),
       consistency |-> _rate(CountOf(biased, LAMBDA d : _ai_bias_matches_final(d.assessment.bias, FinalAction(d))), Len(biased)),
       overMax |-> CountOf(evaluated, LAMBDA d : /\ d.action \in AddLike /\ Given(d.assessment.max, d.advice.target)
                                                 /\ d.advice.target > d.assessment.max),
       underweightHeld |-> held(evaluated, LAMBDA d : d.assessment.stance = "underweight"),
       sanitized |-> CountOf(docs, LAMBDA d : d.plan.notes # {}),
       thinHeld |-> _rate(held(thin, LAMBDA d : TRUE), Len(thin)),
       trend |-> _recent_trend(docs)]

----------------------------------------------------------------------------
(* What became of a decision *)

DEFAULT_HORIZONS == <<1, 5, 20>>
_normalize_horizons(given) ==
  LET values == {n \in {given[i] : i \in DOMAIN given} : n > 0}
  IN  IF values = {} THEN DEFAULT_HORIZONS ELSE SetToSortSeq(values, LAMBDA a, b : a < b)
_return_pct(base, value) == IF base = Missing \/ base <= 0 \/ value = Missing THEN Missing ELSE Per(value - base, base)

NoPrices == [status |-> "missing", price |-> Missing, returns |-> [h \in {} |-> 0], drawdown |-> Missing, runup |-> Missing]
\* prices: bars [date, low, high, close], oldest first.
PriceOutcome(prices, date, horizons) ==
  LET longest == horizons[Len(horizons)]
      inTime == SelectSeq(prices, LAMBDA b : b.date >= date /\ b.date <= date + Higher(45, 4 * longest))
      bars == SelectSeq(Top(inTime, 200), LAMBDA b : b.close # Missing)
      base == bars[1].close
      ahead == SubSeq(bars, 2, Lower(Len(bars), 21))
      or(x, close) == IF x \in {0, Missing} THEN close ELSE x
      lows == {or(ahead[i].low, ahead[i].close) : i \in DOMAIN ahead}
      highs == {or(ahead[i].high, ahead[i].close) : i \in DOMAIN ahead}
  IN  IF date = Missing \/ bars = <<>> THEN NoPrices
      ELSE IF base <= 0 THEN [NoPrices EXCEPT !.price = base]
      ELSE [status |-> IF bars[1].date > date THEN "shifted" ELSE "ok", price |-> base,
            returns |-> [h \in {horizons[i] : i \in DOMAIN horizons} |->
                           IF h + 1 > Len(bars) THEN Missing ELSE _return_pct(base, bars[h + 1].close)],
            drawdown |-> IF ahead = <<>> THEN Missing ELSE _return_pct(base, CHOOSE x \in lows : \A y \in lows : x <= y),
            runup |-> IF ahead = <<>> THEN Missing ELSE _return_pct(base, CHOOSE x \in highs : \A y \in highs : x >= y)]
After(price, h) == IF h \in DOMAIN price.returns THEN price.returns[h] ELSE Missing

action_group_for(action) ==
  IF action \in AddLike THEN "add_like" ELSE IF action \in ExitLike THEN "reduce_like"
  ELSE IF action \in CONSERVATIVE_ACTIONS THEN "hold_like" ELSE "unknown"

label_outcome(group, day5, day20, drawdown) ==
  IF day20 = Missing \/ group = "unknown" THEN "pending"
  ELSE IF group = "add_like"
  THEN IF day20 < -500 \/ (drawdown # Missing /\ drawdown < -800) THEN "bad_add"
       ELSE IF (day5 # Missing /\ day5 > 0) \/ day20 > 0 THEN "good_action" ELSE "neutral_add"
  ELSE IF day20 < -500 THEN "avoided_loss"
  ELSE IF day20 > 800 THEN IF group = "hold_like" THEN "missed_upside" ELSE "sold_too_early"
  ELSE IF group = "hold_like" THEN "neutral_hold" ELSE "neutral_reduce"

evaluate_document(doc, prices, horizons) ==
  LET price == PriceOutcome(prices, doc.created, horizons)
      group == action_group_for(FinalAction(doc))
  IN  [group |-> group, draft |-> DraftAction(doc), final |-> FinalAction(doc), assessment |-> doc.assessment,
       status |-> price.status, day1 |-> After(price, 1), day5 |-> After(price, 5), day20 |-> After(price, 20),
       drawdown |-> price.drawdown,
       label |-> label_outcome(group, After(price, 5), After(price, 20), price.drawdown)]

Rose(x) == x # Missing /\ x > 0
is_missed_ai_add_opportunity(i) ==
  /\ i.assessment.stance = "underweight" /\ i.assessment.bias \in {"allow_add", "prefer_pullback_add"}
  /\ i.group = "hold_like" /\ i.day20 # Missing /\ i.day20 > 800
is_calibrated_action_success(i) ==
  {i.draft, i.final} \cap {"add_small", "add_on_pullback"} # {} /\ i.assessment.stance = "underweight" /\ (Rose(i.day5) \/ Rose(i.day20))
is_risk_gate_avoided_loss(i) == i.draft \in AddLike /\ i.group = "hold_like" /\ i.day20 # Missing /\ i.day20 < 0
is_risk_gate_missed_upside(i) == i.draft \in AddLike /\ i.group = "hold_like" /\ i.day20 # Missing /\ i.day20 > 800

_label_value(label) ==
  IF label \in {"good_action", "avoided_loss"} THEN 1
  ELSE IF label \in {"bad_add", "missed_upside", "sold_too_early"} THEN -1
  ELSE IF label = "pending" THEN Missing ELSE 0
_avg_return(items, field) ==
  LET known == SelectSeq(items, LAMBDA i : i[field] # Missing)
  IN  IF known = <<>> THEN Missing ELSE Total([n \in DOMAIN known |-> known[n][field]]) \div Len(known)
_win_rate(items, field) ==
  LET known == SelectSeq(items, LAMBDA i : i[field] # Missing) IN _rate(CountOf(known, LAMBDA i : i[field] > 0), Len(known))
_top_decisions(items, labels, best) ==
  Top(SortSeq(SelectSeq(items, LAMBDA i : i.label \in labels /\ i.day20 # Missing),
              LAMBDA a, b : IF best THEN a.day20 > b.day20 ELSE a.day20 < b.day20), 5)

summarize_outcomes(items) ==
  LET of(group) == SelectSeq(items, LAMBDA i : i.group = group)
      labelled(label) == CountOf(items, LAMBDA i : i.label = label)
      valued == SelectSeq(items, LAMBDA i : _label_value(i.label) # Missing)
  IN  [total |-> Len(items), pending |-> labelled("pending"),
       evaluated |-> CountOf(items, LAMBDA i : i.label # "pending" /\ i.status # "missing"),
       missing |-> CountOf(items, LAMBDA i : i.status = "missing"),
       average |-> [g \in {"add_like", "hold_like", "reduce_like"} |-> _avg_return(of(g), "day20")],
       wins |-> _win_rate(of("add_like"), "day20"), badAdds |-> labelled("bad_add"),
       missedAdds |-> CountOf(items, is_missed_ai_add_opportunity), calibrated |-> CountOf(items, is_calibrated_action_success),
       avoided |-> CountOf(items, is_risk_gate_avoided_loss), missed |-> CountOf(items, is_risk_gate_missed_upside),
       value |-> IF valued = <<>> THEN Missing
                 ELSE (10000 * Total([n \in DOMAIN valued |-> _label_value(valued[n].label)])) \div Len(valued),
       best |-> _top_decisions(items, {"good_action", "avoided_loss"}, TRUE),
       worst |-> _top_decisions(items, {"bad_add", "sold_too_early"}, FALSE)]

\* The group and the label are looked for among the first documents only.
build_outcomes(stored, limit, since, symbol, type, given, group, label, prices) ==
  LET docs == list_recent_decisions_for_outcome(stored, limit, since, symbol, type)
      items == [i \in DOMAIN docs |-> evaluate_document(docs[i], prices[docs[i].symbol], _normalize_horizons(given))]
  IN  SelectSeq(items, LAMBDA i : group \in {"", i.group} /\ label \in {"", i.label})

----------------------------------------------------------------------------
(* What follows *)

Row(s, v, n) == [symbol |-> s, value |-> v, nav |-> n, quantity |-> 1, cost |-> 10, unrealized |-> 1, percent |-> Missing]
Rows(n) == [i \in 1..n |-> Row(IF i = n THEN "SGOV" ELSE "AMD", 1000 - i, 200)]
Account == [d \in {7} |-> [equity |-> 10000, cash |-> 100]]
\* The equivalents of cash count as long as they are among the twenty greatest positions.
ASSUME CashBeyondTwentyForgotten ==
  \A n \in 1..24 : LET facts == _build_account_context(Account, [d \in {7} |-> Rows(n)])
                   IN  facts.deployable_liquidity = IF n <= 20 THEN 100 + 1000 - n ELSE 100

\* A position that shrinks to a percent or less is suddenly the whole account.
ASSUME SmallSharesReadAsWhole ==
  LET share(n) == _build_position_context(<<Row("AMD", 5, n)>>).position_pct
  IN  /\ \A n \in 101..3000 : share(n) = n
      /\ share(100) = 10000 /\ share(50) = 5000

\* The account is of the latest day; as long as its positions are missing, nothing is held.
ASSUME NothingHeldBeforeTheImportEnds ==
  LET held(days) == build("trade_decision", "AMD", [d \in days |-> Account[7]], [d \in {7} |-> Rows(3)], <<>>, <<>>).position.is_holding
  IN  held({7}) /\ ~held({7, 8})

\* Of more trades than are read, the newest are not seen, whatever the decision.
Trades(n) == [i \in 1..n |-> [date |-> i, side |-> IF i = 1 THEN "BUY" ELSE "SELL"]]
ASSUME NewestTradesUnseen ==
  \A n \in {1, 20, 21, 50, 51, 60}, type \in {"trade_decision", "holding_decision", "entry_decision"} :
    LET h == build(type, "AMD", Account, [d \in {7} |-> Rows(3)], Trades(n), <<>>).history
    IN  (h.last_trade_date = n) <=> n <= TradeLimit(type)

\* What raises in the pool leaves neither a value nor a warning; news always leave one.
ASSUME SilentInThePool ==
  \A f \in Gathered \ {"news"}, x \in PublicAnswers, y \in PublicAnswers :
    LET answers == [g \in Gathered \cup {"financials", "snapshot"} |-> IF g = f THEN x ELSE IF g = "snapshot" THEN y ELSE "value"]
        read == _build_public_context(answers)
    IN  /\ x = "raises" => read.values[f] = "none" /\ f \notin read.warned
        /\ "news" \in read.warned
        /\ read.raises <=> y = "raises"

\* A change over more days than there are is that over all of them.
ASSUME ShortHistoryShortChange ==
  \A n \in {7, 30, 90} : calculate_price_change(<<100, 110, 121>>, n) = 2100
ASSUME RelativeNeedsBoth == _relative_return(500, <<>>) = Missing /\ _relative_return(500, <<100, 103>>) = 200

Quiet == [status |-> "success", fallback |-> FALSE, tools |-> FALSE, structured |-> <<>>]
Spoiled == [Quiet EXCEPT !.status = "fallback", !.fallback = TRUE, !.structured = <<[ok |-> FALSE, repaired |-> TRUE, fallback |-> TRUE]>>]
Policy == [status |-> "evaluated", stance |-> "no_position", bias |-> "allow_add", challenge |-> "aligned",
           min |-> 0, target |-> 8, max |-> 10, low |-> 4, high |-> 8, missing |-> {}, prompt |-> TRUE]
Good == [id |-> 1, type |-> "trade_decision", symbol |-> "AMD", created |-> 1,
         trace |-> [n \in EXPECTED_GRAPH_NODES |-> Quiet], sources |-> [k \in {"account", "trade", "position"} |-> "IBKR_ONLY"],
         action |-> "add_small", final |-> "add_small", draft |-> "add_small", confidence |-> "medium", holding |-> FALSE,
         stance |-> "bullish", plan |-> [action |-> "add_small", reason |-> "asset_view", notes |-> {}],
         gate |-> [present |-> TRUE, original |-> "add_small", final |-> "add_small", downgraded |-> FALSE, blocked |-> FALSE,
                   reasons |-> {}, flags |-> {}, max |-> 10, fallbacks |-> 0],
         visible |-> {}, advice |-> [current |-> 0, target |-> 8, max |-> 10, cash |-> 100], assessment |-> Policy,
         user |-> [given |-> TRUE, max |-> 12], fundamental |-> "green", trend |-> "none",
         ratio |-> [source |-> "trade_plan", standalone |-> FALSE, marked |-> TRUE],
         cards |-> RequiredCards, absent |-> {}, quality |-> <<>>]

ASSUME CleanIsExcellent == evaluate(Good).score = 100 /\ evaluate(Good).passed

\* Whatever more of the nodes falls back lowers the score; all but the plan and one node of
\* the debate may, and the judgement is still a pass.
WithFallen(S) == [Good EXCEPT !.trace = [n \in DOMAIN @ |-> IF n \in S THEN Spoiled ELSE @[n]]]
ASSUME FallbacksLowerTheScore ==
  LET some == {"debate_judge", "trade_plan", "market_event_context", "market_trend", "bull_thesis"}
  IN  \A S \in SUBSET some : \A n \in some \ S :
        evaluate(WithFallen(S \cup {n})).score < evaluate(WithFallen(S)).score
ASSUME MostlyFallbackPasses ==
  LET public == {"account_fit", "market_trend", "fundamental_valuation", "event_catalyst", "market_event_context"}
  IN  /\ evaluate(WithFallen(public)).passed
      /\ evaluate(WithFallen(public \cup {"ai_policy_assessment"})).level = "good"
      /\ ~evaluate(WithFallen(public \cup DebateNodes)).passed

\* One hard failure is never a pass, and the level may be good all the same.
ASSUME GoodButNotPassed ==
  LET q == evaluate([Good EXCEPT !.stance = "insufficient_data"])
  IN  ~q.passed /\ q.level = "good" /\ q.hard = {"insufficient_data_add_like"}

\* What the composer and the gate make of a pack, as the document that is judged.
SomePacks ==
  {[holding |-> x.current > 0, current |-> x.current, alarm |-> FALSE, level |-> "good", cash |-> "enough", accMax |-> 15,
    market |-> [gone |-> x.gone, bearish |-> FALSE, trend |-> x.trend],
    fund |-> [gone |-> x.gone, status |-> x.status, broken |-> FALSE, bearish |-> FALSE], event |-> "strong",
    ai |-> [evaluated |-> TRUE, stance |-> "no_position", bias |-> x.bias, max |-> 10, target |-> x.goal],
    thesis |-> [risk |-> "normal", max |-> 20, target |-> 0, sellSevere |-> FALSE, sellRed |-> FALSE,
                noAddTrend |-> FALSE, noAddCatalyst |-> FALSE]] :
   x \in [current : {0, 4}, gone : {FALSE}, trend : {"none", "severe"}, status : {"yellow", "red"},
          bias : {"allow_add", "prefer_pullback_add"}, goal : {0, 8}]}
SomeAnswers == [action : {"add", "add_on_pullback", "hold", "reduce", "sell"}, target : {0, 8}, stance : {"bullish", "bearish"},
                ratio : {25}, steep : {FALSE}, invalidation : {TRUE}]
DocumentOf(p, w, fails, raises, stance) ==
  LET plan == IF fails THEN FallbackPlan(p) ELSE PlanCard(p, w)
      q == [x \in DOMAIN p \cup {"plan"} |-> IF x = "plan" THEN plan ELSE p[x]]
      d == Published(q, Decision(q, "add", raises))
  IN  [WithFallen(IF fails THEN {"trade_plan"} ELSE {}) EXCEPT
         !.action = d.action, !.final = d.action, !.draft = d.draft, !.holding = p.holding, !.stance = stance,
         !.plan.action = plan.action, !.fundamental = p.fund.status, !.trend = p.market.trend,
         !.gate.original = d.draft, !.gate.final = d.action, !.gate.downgraded = d.action # d.draft,
         !.gate.blocked = d.action # d.draft /\ d.action \in {"panic_blocked", "sell_thesis_broken"},
         !.gate.reasons = IF d.action # d.draft THEN {"reason"} ELSE {}, !.visible = {"reason"}, !.gate.max = p.accMax,
         !.advice = [current |-> p.current, target |-> d.target, max |-> d.max, cash |-> 0],
         !.assessment.bias = p.ai.bias, !.assessment.target = Lower(p.ai.target, 10)]

\* The only hard failures left are of an add: against the judge of the debate, which the plan
\* and the gate do not follow, or beyond the assessment's maximum.
ASSUME OnlyAddsFailHard ==
  \A p \in SomePacks, w \in SomeAnswers, fails \in BOOLEAN, raises \in BOOLEAN :
    LET doc == DocumentOf(p, w, fails, raises, "neutral")
    IN  /\ doc.action \notin AddLike => evaluate(doc).hard = {}
        /\ evaluate(doc).hard \subseteq {"add_like_target_above_ai_policy_max"}
ASSUME AddsAgainstTheJudge ==
  \E p \in SomePacks, w \in SomeAnswers :
    /\ "insufficient_data_add_like" \in evaluate(DocumentOf(p, w, FALSE, FALSE, "insufficient_data")).hard
    /\ "bearish_no_position_invalid_action" \in evaluate(DocumentOf(p, w, FALSE, FALSE, "bearish")).hard
ASSUME TargetAboveAfterAll ==
  \E p \in SomePacks, w \in SomeAnswers :
    "add_like_target_above_ai_policy_max" \in evaluate(DocumentOf(p, w, FALSE, FALSE, "neutral")).hard

\* The review of the symbol is selected by a key the snapshot does not have.
ASSUME LatestReviewLost ==
  LET kept == _compact_card_pack_for_storage(
                [cards |-> RequiredCards, review |-> {"latest_review", "global_mistake_summary"}, traces |-> <<>>])
  IN  kept.review = {"global_mistake_summary"} /\ "trade_plan_card" \notin kept.cards

\* A document that is written again under its id is replaced, one without an id is added.
ASSUME WrittenAgain ==
  \A id \in {1, 2, Missing} :
    LET stored == save_decision([i \in {1} |-> Good], [Good EXCEPT !.id = id, !.created = Missing], 3, 9)
    IN  (DOMAIN stored = {1}) <=> id = 1

\* The statistics have the documents without the assessment and the draft: of the policy they
\* say nothing, and a change of the gate is told from the plan's action only.
Older == [Good EXCEPT !.created = 0, !.action = "wait", !.final = "wait"]
WithQuality(doc) == [doc EXCEPT !.quality = <<evaluate(doc)>>]
ASSUME StatisticsBlindToPolicy ==
  LET stored == [i \in 1..2 |-> WithQuality(IF i = 1 THEN Good ELSE Older)]
      seen == _summarize(list_recent_decisions_for_quality(stored, 200, 0))
      all == _summarize(list_recent_decisions(stored, 200, ""))
  IN  /\ all.policies = 2 /\ seen.policies = 0 /\ all.consistency = 5000 /\ seen.consistency = 0
      /\ seen.evaluated = 2 /\ seen.changed = all.changed

\* A replaced answer counts twice where the document was not judged, once where it was.
ASSUME ReplacedCountsTwice ==
  \A S \in SUBSET {"trade_plan", "market_trend", "bull_thesis"} :
    Structured(WithFallen(S)).fallbacks = 2 * Structured(WithQuality(WithFallen(S))).fallbacks

\* The levels and the verdicts add up.
ASSUME LevelsAddUp ==
  LET some == {Good, WithQuality(Good), WithQuality(WithFallen(DebateNodes)), WithQuality([Good EXCEPT !.absent = {"rating"}])}
  IN  \A a, b, c \in some :
        LET q == _summarize(<<a, b, c>>)
        IN  /\ q.levels.excellent + q.levels.good + q.levels.warning + q.levels.poor + q.levels.unknown = q.total
            /\ q.pass + q.fail = q.evaluated /\ Len(q.trend) = q.evaluated

Bar(d, c) == [date |-> d, low |-> c - 20, high |-> c + 20, close |-> c]
Rising30 == [i \in 1..30 |-> Bar(i, 1000 + 10 * i)]
Falling30 == [i \in 1..30 |-> Bar(i, 1000 - 10 * i)]
SomePrices == {<<>>, Rising30, Falling30, SubSeq(Rising30, 1, 15), SubSeq(Falling30, 5, 30)}
SomeDecisions == {[Good EXCEPT !.action = a, !.final = f, !.draft = d] :
                  a \in {"add_small", "wait"}, f \in {"", "add_small", "hold_no_add", "sell"}, d \in {"add", "hold"}}
\* Without the twentieth day everything is pending for good.
ASSUME NothingLabelledWithoutTheTwentieth ==
  \A doc \in SomeDecisions, prices \in SomePrices :
    /\ evaluate_document(doc, prices, _normalize_horizons(<<5, 1, 0>>)).label = "pending"
    /\ evaluate_document(doc, prices, _normalize_horizons(<<0>>)) = evaluate_document(doc, prices, DEFAULT_HORIZONS)
ASSUME ShiftedWhenLate ==
  \A prices \in SomePrices : PriceOutcome(prices, 1, DEFAULT_HORIZONS).status =
    IF prices = <<>> THEN "missing" ELSE IF prices[1].date > 1 THEN "shifted" ELSE "ok"

\* What is evaluated and what is pending make up all, and the gate did not both avoid a loss
\* and miss a gain.
ASSUME OutcomesAddUp ==
  \A x, y \in SomeDecisions, p, q \in SomePrices :
    LET sum == summarize_outcomes(<<evaluate_document(x, p, DEFAULT_HORIZONS), evaluate_document(y, q, DEFAULT_HORIZONS)>>)
    IN  /\ sum.evaluated + sum.pending = sum.total /\ sum.missing <= sum.pending
        /\ sum.avoided + sum.missed <= sum.total

\* A loss on the way makes an add a bad one, whatever it has gained in the end.
ASSUME DipMakesItBad ==
  LET dipped == [Rising30 EXCEPT ![3].low = 800]
  IN  /\ evaluate_document(Good, Rising30, DEFAULT_HORIZONS).label = "good_action"
      /\ evaluate_document(Good, dipped, DEFAULT_HORIZONS).label = "bad_add"

\* The group is looked for after the limit: older decisions of it are not found.
ASSUME LimitBeforeGroup ==
  LET stored == [i \in 1..2 |-> IF i = 1 THEN Good ELSE Older]
      found(limit, group) == build_outcomes(stored, limit, 0, "", "", <<>>, group, "", [s \in {"AMD"} |-> Rising30])
  IN  Len(found(2, "hold_like")) = 1 /\ found(1, "hold_like") = <<>> /\ Len(found(1, "add_like")) = 1
=============================================================================
