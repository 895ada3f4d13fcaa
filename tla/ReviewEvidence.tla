---------------------------- MODULE ReviewEvidence ----------------------------
(***************************************************************************)
(* What a trade review is made from and how its answer is judged: the      *)
(* trades, positions and candles that are read (trade_review_evidence.py,  *)
(* trade_review_scoring.py), the facts the graph makes of them             *)
(* (trade_review_graph/nodes.py), how they are cut to fit a prompt         *)
(* (context_budget.py, evidence_schema.py), how scores become a rating     *)
(* (invariants.py), and where reviews are read from                        *)
(* (trade_review_repository.py).                                           *)
(*                                                                         *)
(* A store of trades holds those of one symbol, oldest first.  Dates are   *)
(* days, prices and amounts whole numbers, rates per thousand.             *)
(***************************************************************************)
EXTENDS Integers, Sequences, FiniteSets, SequencesExt, Functions

NoValue == -1000000  \* None, where there may be a number

SumOf(s) == FoldLeft(LAMBDA x, y : x + y, 0, s)
Or(x, y) == IF x = NoValue THEN y ELSE x
Magnitude(x) == IF x < 0 THEN -x ELSE x

----------------------------------------------------------------------------
(* Trades, the position, the account *)

normalize_trade_side(raw) ==
  CASE raw \in {"BUY", "BOT", "BOUGHT"} -> "BUY"
    [] raw \in {"SELL", "SLD", "SOLD", "SELL_SHORT", "SSHORT"} -> "SELL"
    [] OTHER -> raw

_normalize_trade(t) ==
  [id |-> t.id, date |-> t.date, side |-> normalize_trade_side(t.buy_sell), quantity |-> Magnitude(t.quantity),
   price |-> t.price, pnl |-> t.pnl,
   amount |-> IF t.proceeds # NoValue THEN Magnitude(t.proceeds) ELSE Magnitude(t.quantity) * t.price]

\* One page of a search that begins with the oldest.
PageSize == 1000
_fetch_symbol_trades(store, from, to) ==
  LET hits == SelectSeq(store, LAMBDA t : from <= t.date /\ t.date <= to)
  IN  SubSeq(hits, 1, IF Len(hits) < PageSize THEN Len(hits) ELSE PageSize)

\* accounts and positions: the days they are stored for, positions with a quantity.
_latest_account_date(accounts) == IF accounts = {} THEN NoValue ELSE CHOOSE d \in accounts : \A e \in accounts : e <= d
_fetch_current_position(accounts, positions) ==
  LET latest == _latest_account_date(accounts)
  IN  IF latest \in DOMAIN positions THEN positions[latest] ELSE NoValue
Holding(position) == position # NoValue /\ position # 0

\* values: the account's value by day; the nearest day on one side.
_account_value_near(values, day, after) ==
  LET days == {d \in DOMAIN values : IF after THEN d >= day ELSE d <= day}
  IN  IF days = {} THEN NoValue ELSE values[CHOOSE d \in days : \A e \in days : IF after THEN d <= e ELSE e <= d]

----------------------------------------------------------------------------
(* Facts *)

Side(trades, side) == SelectSeq(trades, LAMBDA t : t.side = side)

_build_trade_lifecycle_facts(trades, position) ==
  [buy_count |-> Len(Side(trades, "BUY")), sell_count |-> Len(Side(trades, "SELL")),
   has_sell_trades |-> Side(trades, "SELL") # <<>>,
   is_currently_holding |-> Holding(position),
   has_reopened_position_after_sell |->
     \E i, j \in DOMAIN trades : i < j /\ trades[i].side = "SELL" /\ trades[j].side = "BUY",
   latest_trade_date |-> IF trades = <<>> THEN NoValue ELSE Last(trades).date]

_single_trade_lifecycle_stage(side, holding, sells) ==
  CASE side = "BUY" /\ sells # <<>> -> "entry_with_later_exit"
    [] side = "BUY" /\ sells = <<>> -> IF holding THEN "entry_only_open_position" ELSE "entry_without_detected_position"
    [] side = "SELL" -> "exit_trade"
    [] OTHER -> "unknown"

Window == 90
WindowEnd(day, today) == IF day + Window < today THEN day + Window ELSE today
Related(store, t, today) ==
  LET raw == _fetch_symbol_trades(store, t.date - Window, WindowEnd(t.date, today))
  IN  [i \in DOMAIN raw |-> _normalize_trade(raw[i])]

\* The facts for one trade as the evidence builder makes them for a tool.
build_single_trade_review_evidence(store, trade, position, today) ==
  LET t == _normalize_trade(trade)
      related == Related(store, t, today)
      sells == SelectSeq(related, LAMBDA r : r.side = "SELL" /\ r.date >= t.date)
  IN  [trades |-> <<t>>, related |-> related, is_currently_holding |-> Holding(position),
       last_trade_date |-> IF sells = <<>> THEN t.date ELSE Last(sells).date,
       lifecycle_stage |-> _single_trade_lifecycle_stage(t.side, Holding(position), sells)]

\* The facts as the graph loads them, the position coming from a node of its own; a
\* read that fails leaves an error where the position or the trades would be.
load_trade_facts_node(store, kind, trade, readable, today) ==
  IF ~readable THEN [trades |-> <<>>, related |-> <<>>, last_trade_date |-> NoValue]
  ELSE IF kind = "single_trade_review"
  THEN LET t == _normalize_trade(trade)
       IN  [trades |-> <<t>>, related |-> Related(store, t, today), last_trade_date |-> t.date]
  ELSE LET raw == _fetch_symbol_trades(store, -today, today)
       IN  [trades |-> [i \in DOMAIN raw |-> _normalize_trade(raw[i])], related |-> <<>>, last_trade_date |-> NoValue]

position_node(accounts, positions, readable) == IF readable THEN _fetch_current_position(accounts, positions) ELSE NoValue

\* The other four nodes, and what the context keeps of each: of prices and benchmarks
\* only what was found, of account and events the error as well.
evidence_node(found, readable) == IF readable THEN [found |-> found] ELSE [error |-> TRUE]
InContext(kind, evidence) ==
  IF kind \in {"market", "benchmark"} THEN IF "found" \in DOMAIN evidence THEN [found |-> evidence.found] ELSE [found |-> {}]
  ELSE evidence

build_trade_review_context_node(facts, position) == facts @@ _build_trade_lifecycle_facts(facts.trades, position)

----------------------------------------------------------------------------
(* Sums and returns *)

calculate_symbol_trade_summary(trades, unrealized, latest_price) ==
  LET buys == Side(trades, "BUY")  sells == Side(trades, "SELL")
      known == SelectSeq(trades, LAMBDA t : t.pnl # NoValue)
      Quantity(s) == SumOf([i \in DOMAIN s |-> s[i].quantity])
      bought == SumOf([i \in DOMAIN buys |-> buys[i].amount])
      net == Quantity(buys) - Quantity(sells)
      realized == IF known = <<>> THEN NoValue ELSE SumOf([i \in DOMAIN known |-> known[i].pnl])
      open == CASE unrealized # NoValue -> unrealized
                [] unrealized = NoValue /\ net > 0 /\ latest_price # NoValue /\ Quantity(buys) > 0 ->
                     ((latest_price * Quantity(buys) - bought) * net) \div Quantity(buys)
                [] OTHER -> NoValue
      total == Or(realized, 0) + Or(open, 0)
  IN  [net_quantity |-> net, realized_pnl |-> realized, unrealized_pnl |-> open, total_pnl |-> total,
       return_rate |-> IF bought = 0 THEN NoValue ELSE (total * 1000) \div bought]

\* candles: the close by day, of the days that have one.
_nearest_candle(candles, day, after) == _account_value_near(candles, day, after)
Change(from, to) == IF from \in {NoValue, 0} \/ to = NoValue THEN NoValue ELSE ((to - from) * 1000) \div from
calculate_benchmark_return(candles, start, end) ==
  Change(_nearest_candle(candles, start, TRUE), _nearest_candle(candles, end, FALSE))
calculate_post_trade_returns(candles, day) ==
  [n \in {7, 30, 90} |-> Change(_nearest_candle(candles, day, TRUE), _nearest_candle(candles, day + n, TRUE))]
calculate_max_profit_and_drawdown(candles, entry, start, end) ==
  LET scoped == {candles[d] : d \in {d \in DOMAIN candles : start <= d /\ d <= end}}
      best == CHOOSE x \in scoped : \A y \in scoped : y <= x
      worst == CHOOSE x \in scoped : \A y \in scoped : x <= y
  IN  IF scoped = {} \/ entry \in {NoValue, 0} THEN <<NoValue, NoValue>> ELSE <<Change(entry, best), Change(entry, worst)>>

classify_position_size(amount, account) ==
  IF amount = NoValue \/ account \in {NoValue, 0} THEN "none"
  ELSE CASE amount * 100 < account * 2 -> "tiny"
         [] amount * 100 >= account * 2 /\ amount * 100 < account * 5 -> "small"
         [] amount * 100 >= account * 5 /\ amount * 100 < account * 15 -> "medium"
         [] amount * 100 >= account * 15 /\ amount * 100 < account * 30 -> "large"
         [] OTHER -> "concentrated"

----------------------------------------------------------------------------
(* Cutting to fit *)

\* The k greatest by a measure, the earlier first among equals.
Greatest(trades, k, Measure(_)) ==
  LET order == SortSeq([i \in DOMAIN trades |-> i],
                       LAMBDA i, j : Measure(trades[i]) > Measure(trades[j]) \/ (Measure(trades[i]) = Measure(trades[j]) /\ i < j))
  IN  [i \in 1..(IF Len(order) < k THEN Len(order) ELSE k) |-> trades[order[i]]]
Latest(s, n) == SubSeq(s, IF Len(s) > n THEN Len(s) - n + 1 ELSE 1, Len(s))
Selected(trades, k, tail, limit) ==
  LET buys == Side(trades, "BUY")
      known == SelectSeq(trades, LAMBDA t : t.pnl # NoValue)
      wanted == SubSeq(buys, 1, IF buys = <<>> THEN 0 ELSE 1) \o Side(trades, "SELL")
                \o Greatest(trades, k, LAMBDA t : Magnitude(t.amount))
                \o Greatest(known, k, LAMBDA t : Magnitude(t.pnl)) \o Latest(trades, tail)
      distinct == FoldLeft(LAMBDA s, t : IF Contains(s, t) THEN s ELSE Append(s, t), <<>>, wanted)
  IN  SubSeq(distinct, 1, IF Len(distinct) < limit THEN Len(distinct) ELSE limit)
_select_review_trades(trades) == Selected(trades, 5, 8, 20)
_select_priority_review_trades(trades) == Selected(trades, 3, 4, 5)

\* A payload: the lengths of its lists, the size of an item, the lengths of its texts.
SizeOf(p) == SumOf([i \in DOMAIN p.lists |-> p.lists[i].n * p.item]) + SumOf(p.texts)

DefaultBudget(section) ==
  CASE section \in {"daily_position_context"} -> 12000
    [] section \in {"trade_history_context", "market_context", "company_context"} -> 5000
    [] section \in {"valuation_context", "external_events"} -> 4000
    [] section \in {"data_quality"} -> 2000
    [] OTHER -> 3000
ListLimit(section, list) ==
  CASE section = "daily_position_context" /\ list = "positions" -> 0
    [] section = "daily_position_context" /\ list = "news" -> 3
    [] section \in {"trade_history_context", "position_context"} -> 20
    [] section \in {"external_events", "macro_context"} /\ list \in {"filings", "topics"} -> 3
    [] section = "data_quality" \/ (section = "review_context" /\ list = "global_mistake_summary") -> 10
    [] section = "review_context" /\ list = "symbol_candles" -> 2
    [] OTHER -> 5
CutTo(n, limit) == IF n < limit THEN n ELSE limit
_compact_by_section(section, p) ==
  [p EXCEPT !.lists = [i \in DOMAIN p.lists |-> [p.lists[i] EXCEPT !.n = CutTo(@, ListLimit(section, p.lists[i].name))]]]
\* Half of every list, the first item of one at least; an empty list stays empty.
_shrink_lists(p) ==
  [p EXCEPT !.lists = [i \in DOMAIN p.lists |-> [p.lists[i] EXCEPT !.n = IF @ > 1 THEN @ \div 2 ELSE @]]]
_trim_strings(p) == [p EXCEPT !.texts = [i \in DOMAIN p.texts |-> CutTo(p.texts[i], 140)]]
\* Nothing of the structure is kept, what was said of its limitations neither.
_degrade_payload(p) == [lists |-> <<>>, item |-> p.item, texts |-> <<CutTo(SizeOf(p), 1000)>>, limitations |-> {}]

enforce_section_budget(section, p, budget) ==
  LET limit == IF budget = NoValue THEN DefaultBudget(section) ELSE budget
      compact == _compact_by_section(section, p)
      shrunk == IF SizeOf(compact) > limit THEN _shrink_lists(compact) ELSE compact
      trimmed == IF SizeOf(shrunk) > limit THEN _trim_strings(shrunk) ELSE shrunk
      final == IF SizeOf(trimmed) > limit THEN _degrade_payload(trimmed) ELSE trimmed
      kept == IF limit > DefaultBudget(section) /\ SizeOf(p) <= limit THEN p ELSE final
      truncated == kept.lists # p.lists \/ kept.texts # p.texts
  IN  [kept EXCEPT !.limitations = @ \cup IF truncated THEN {"compacted"} ELSE {}]

_apply_section_budgets(pack) == [s \in DOMAIN pack |-> enforce_section_budget(s, pack[s], DefaultBudget(s))]

----------------------------------------------------------------------------
(* The answer *)

MaxScore == [return_result |-> 20, relative_performance |-> 15, entry_quality |-> 15, exit_quality |-> 15,
             position_sizing |-> 15, holding_period |-> 5, risk_control |-> 10, decision_attribution |-> 5]
Dimensions == DOMAIN MaxScore
\* Scores are in tenths of a point.
Floors == [entry_quality |-> 50, position_sizing |-> 30, holding_period |-> 10, risk_control |-> 10]
Neutral == 75

_has_sell_trades(facts) ==
  facts.has_sell_trades \/ facts.sell_count > 0
  \/ Side(facts.trades, "SELL") # <<>> \/ Side(facts.related, "SELL") # <<>>

\* An answer: a score by dimension (NoValue where null or absent), whether the reason
\* for the exit denies that anything was sold, and the kind of review it says it is.
_normalize_score_detail(scores, applicable) == [d \in applicable |-> Or(scores[d], 0)]
InRange(detail) == \A d \in DOMAIN detail : 0 <= detail[d] /\ detail[d] <= MaxScore[d] * 10
_normalize_reviewable_exit_quality(detail, denies) ==
  IF "exit_quality" \in DOMAIN detail /\ denies /\ detail["exit_quality"] = 0
  THEN [detail EXCEPT !["exit_quality"] = Neutral] ELSE detail
TotalOf(detail) == FoldFunction(LAMBDA x, y : x + y, 0, detail)
_is_open_buy_single_trade(answer, facts) ==
  /\ answer.kind = "single_trade_review"
  /\ facts.trades # <<>> /\ facts.trades[1].side = "BUY" /\ facts.is_currently_holding
Floored(detail) == [d \in DOMAIN detail |-> IF d \in DOMAIN Floors /\ detail[d] < Floors[d] THEN Floors[d] ELSE detail[d]]

\* In hundredths of a percent.
review_rating_for_score(overall) ==
  CASE overall >= 8500 -> "excellent" [] overall >= 7000 /\ overall < 8500 -> "good"
    [] overall >= 5000 /\ overall < 7000 -> "average" [] OTHER -> "poor"

_fallback_review_output == [overall |-> 0, rating |-> "poor", detail |-> <<>>]
normalize_trade_review_output(answer, facts) ==
  LET sells == _has_sell_trades(facts)
      detail == _normalize_score_detail(answer.scores, IF sells THEN Dimensions ELSE Dimensions \ {"exit_quality"})
      exit == _normalize_reviewable_exit_quality(detail, answer.denies)
      final == IF _is_open_buy_single_trade(answer, facts) /\ TotalOf(exit) <= 0 THEN Floored(exit) ELSE exit
      max == TotalOf([d \in DOMAIN final |-> MaxScore[d]])
      overall == (2 * TotalOf(final) * 1000 + max) \div (2 * max)
  IN  [overall |-> overall, rating |-> review_rating_for_score(overall), detail |-> final]
\* A score out of range loses the whole answer.
_validate_review_output(answer, facts) ==
  LET applicable == IF _has_sell_trades(facts) THEN Dimensions ELSE Dimensions \ {"exit_quality"}
  IN  IF InRange(_normalize_score_detail(answer.scores, applicable)) THEN normalize_trade_review_output(answer, facts)
      ELSE _fallback_review_output

----------------------------------------------------------------------------
(* Stored reviews *)

\* v2, legacy: sets of [id, created, tags], or absent.  What both hold is taken from v2.
Newest(docs, limit) == {d \in docs : Cardinality({e \in docs : e.created > d.created}) < limit}
_search_reviews_with_legacy_fallback(v2, legacy, limit) ==
  LET first == Newest(v2, limit)
  IN  Newest(first \cup {d \in Newest(legacy, limit) : \A e \in first : e.id # d.id}, limit)
get_review(v2, legacy, id) ==
  LET in(docs) == {d \in docs : d.id = id} IN IF in(v2) # {} THEN in(v2) ELSE in(legacy)
TagsOf(docs) == UNION {d.tags : d \in docs}
summarize_mistakes(v2, legacy) == IF TagsOf(v2) # {} THEN TagsOf(v2) ELSE TagsOf(legacy)

----------------------------------------------------------------------------
(* What follows, over short histories *)

Raw(i, side, day) == [id |-> i, date |-> day, buy_sell |-> side, quantity |-> 10, price |-> 5, proceeds |-> NoValue, pnl |-> NoValue]
Stores == {[i \in 1..n |-> Raw(i, sides[i], days[i])] :
             n \in 1..3, sides \in [1..3 -> {"BOT", "SLD"}], days \in {<<1, 50, 95>>, <<1, 100, 195>>, <<20, 20, 110>>}}
GraphFacts(store, i, position, readable) ==
  build_trade_review_context_node(load_trade_facts_node(store, "single_trade_review", store[i], TRUE, 200),
                                  position_node({1, 2}, [d \in {2} |-> position], readable))

\* The graph and the tool see the same trades and, where the position can be read, the
\* same holding; the exit is judged as soon as something was sold within 90 days, before
\* or after the trade (trade_review_evidence.py:146-190, nodes.py:86-145, invariants.py:533-548).
ASSUME SameTradesSeen ==
  \A store \in Stores : \A i \in DOMAIN store : \A position \in {0, 10} :
    LET graph == GraphFacts(store, i, position, TRUE)
        tool == build_single_trade_review_evidence(store, store[i], position, 200)
    IN  /\ graph.trades = tool.trades /\ graph.related = tool.related
        /\ graph.is_currently_holding = tool.is_currently_holding
        /\ graph.last_trade_date <= tool.last_trade_date
        /\ _has_sell_trades(graph) = \E j \in DOMAIN store :
             store[j].buy_sell = "SLD" /\ Magnitude(store[j].date - store[i].date) <= Window
        /\ ~GraphFacts(store, i, position, FALSE).is_currently_holding

\* Prices that could not be read look like a symbol without prices; the account and the
\* events say that they failed (nodes.py:228-345, 383-391).
ASSUME FailedPricesUnsaid ==
  \A kind \in {"account", "market", "benchmark", "event"} :
    (InContext(kind, evidence_node({}, FALSE)) = InContext(kind, evidence_node({}, TRUE))) = (kind \in {"market", "benchmark"})

\* While an import has written the account of a day but not its positions yet, nothing
\* is held (trade_review_evidence.py:339-366, 462-469).
ASSUME HeldNeedsBothIndices ==
  \A accounts \in SUBSET (1..3) : \A held \in SUBSET (1..3) :
    Holding(_fetch_current_position(accounts, [d \in held |-> 10])) = (accounts # {} /\ _latest_account_date(accounts) \in held)

\* Of more than a thousand trades the newest are not seen (304-325).
ASSUME NewestTradesCut ==
  LET store == [i \in 1..1002 |-> Raw(i, IF i > 1000 THEN "SLD" ELSE "BOT", i)]
      seen == load_trade_facts_node(store, "symbol_level_review", store[1], TRUE, 2000).trades
  IN  Last(seen).date = 1000 /\ Side(seen, "SELL") = <<>>

\* The window of one trade ends with its ninetieth day: the return after 90 days is known
\* only if that day itself has a candle, and the one after 7 days may be that of a later
\* day (trade_review_scoring.py:109-120, trade_review_evidence.py:157-176).
ASSUME NinetyNeedsTheDay ==
  \A days \in SUBSET {1, 2, 7, 8, 9, 30, 31, 32, 90, 91} :
    LET r == calculate_post_trade_returns([d \in days |-> 100 + d], 1) IN
    /\ (r[90] # NoValue) = (91 \in days)
    /\ (r[7] # NoValue) = (\E d \in days : d >= 8)
    /\ \A n \in {7, 30} : \A m \in {30, 90} :
         (n < m /\ r[m] # NoValue /\ \A d \in days : d < 1 + n \/ d >= 1 + m) => r[n] = r[m]

\* Profit and drawdown during the holding bracket the return at its end.
ASSUME MovesBracket ==
  \A close \in [1..4 -> {90, 100, 130}] : \A entry \in {0, 100} :
    LET moves == calculate_max_profit_and_drawdown(close, entry, 2, 4)
    IN  IF entry = 0 THEN moves = <<NoValue, NoValue>>
        ELSE moves[2] <= Change(entry, close[4]) /\ Change(entry, close[4]) <= moves[1]

\* With every trade known and what is left valued at the last price, profit is what was
\* taken out plus what is left minus what was put in (trade_review_scoring.py:30-95).
ASSUME ProfitAddsUp ==
  \A store \in Stores : \A price \in {4, 5, 8} :
    LET trades == [i \in DOMAIN store |-> _normalize_trade(store[i])]
        s == calculate_symbol_trade_summary(trades, NoValue, price)
    IN  /\ s.net_quantity = 10 * (Len(Side(trades, "BUY")) - Len(Side(trades, "SELL")))
        /\ s.total_pnl = IF s.net_quantity > 0 THEN s.net_quantity * (price - 5) ELSE 0

Shown(i, kind) ==
  [id |-> i, side |-> IF kind \in {"buy", "big buy"} THEN "BUY" ELSE "SELL",
   amount |-> IF kind \in {"big buy", "big sell"} THEN 9 ELSE 1, pnl |-> IF kind = "big sell" THEN -5 ELSE NoValue]
\* Five trades stand for all: the first buy and, before anything else, the sells from the
\* oldest on, so that with more of them the latest trade is not shown (context_budget.py:400-430).
ASSUME FirstBuyAndSells ==
  \A kinds \in UNION {[1..n -> {"buy", "big buy", "sell", "big sell"}] : n \in 1..6} :
    LET trades == [i \in DOMAIN kinds |-> Shown(i, kinds[i])]
        shown == _select_priority_review_trades(trades)
        sells == Side(trades, "SELL")
    IN  /\ Len(shown) = CutTo(Len(trades), 5) /\ IsInjective(shown)
        /\ Side(trades, "BUY") # <<>> => Contains(shown, Side(trades, "BUY")[1])
        /\ Len(sells) <= 4 => Range(sells) \subseteq Range(shown)
        /\ Len(sells) = 5 /\ Last(trades) = Last(sells) /\ Len(trades) = 6 => ~Contains(shown, Last(trades))
        /\ _select_review_trades(trades) # <<>> /\ Range(_select_review_trades(trades)) = Range(trades)

Payloads ==
  {[lists |-> <<[name |-> name, n |-> n], [name |-> "news", n |-> m]>>, item |-> item, texts |-> <<t, 100>>, limitations |-> {"given"}] :
     name \in {"positions", "trades"}, n \in {0, 1, 7, 60}, m \in {0, 2}, item \in {90, 1500}, t \in {0, 3000, 20000}}
\* What a section holds fits its budget, and whatever was cut is said; a section that
\* fits only as a preview no longer says what was missing before (context_budget.py:189-213, 639-664).
ASSUME BudgetKept ==
  \A p \in Payloads : \A section \in {"daily_position_context", "trade_history_context", "external_events", "data_quality"} :
  \A budget \in {NoValue, 15000} :
    LET q == enforce_section_budget(section, p, budget)
        preview == q.lists = <<>>
    IN  /\ SizeOf(q) <= IF budget = NoValue THEN DefaultBudget(section) ELSE budget
        /\ (q.lists # p.lists \/ q.texts # p.texts) = ("compacted" \in q.limitations)
        /\ preview = ("given" \notin q.limitations)
        /\ ~preview => \A i \in DOMAIN q.lists :
             q.lists[i].n = 0 => p.lists[i].n = 0 \/ ListLimit(section, p.lists[i].name) = 0

FactsOf(position, side, sold) ==
  build_trade_review_context_node(
    [trades |-> <<[side |-> side, date |-> 5]>>, related |-> IF sold THEN <<[side |-> "SELL", date |-> 1]>> ELSE <<>>], position)
AnswerOf(scores, denies, kind) == [scores |-> scores, denies |-> denies, kind |-> kind]
Uniform(tenths) == [d \in Dimensions |-> MaxScore[d] * tenths]
\* A dimension that does not apply costs nothing: the same share of every dimension is
\* the same rating with or without a sell (invariants.py:260-310).
ASSUME ExcludedIsNeutral ==
  \A tenths \in 1..10 : \A sold \in BOOLEAN : \A side \in {"BUY", "SELL"} :
    normalize_trade_review_output(AnswerOf(Uniform(tenths), FALSE, "single_trade_review"), FactsOf(10, side, sold)).overall = tenths * 1000

\* An open buy is never rated zero, provided that the answer says what it reviews and
\* that the position could be read; but one that was preceded by a sell gets the neutral
\* score of an exit instead of the floors (265-285, 524-531, 551-575).
ASSUME OpenBuyFloor ==
  LET zero(denies, kind, position, sold) ==
        _validate_review_output(AnswerOf(Uniform(0), denies, kind), FactsOf(position, "BUY", sold)).overall
  IN  /\ \A denies \in BOOLEAN : zero(denies, "single_trade_review", 10, FALSE) = 1176
      /\ zero(TRUE, "unsaid", 10, FALSE) = 0 /\ zero(TRUE, "single_trade_review", NoValue, FALSE) = 0
      /\ zero(FALSE, "single_trade_review", 10, TRUE) = 1000 /\ zero(TRUE, "single_trade_review", 10, TRUE) = 750

\* A score one tenth too high turns the best review into the worst; a missing one counts
\* as nothing (352-392, nodes.py:943-952).
ASSUME OneScoreLosesAll ==
  \A d \in Dimensions :
    LET with(x) == _validate_review_output(AnswerOf([Uniform(10) EXCEPT ![d] = x], FALSE, "unsaid"), FactsOf(10, "SELL", FALSE)) IN
    /\ with(MaxScore[d] * 10 + 1) = _fallback_review_output
    /\ with(NoValue) = with(0) /\ with(0).overall = 10000 - MaxScore[d] * 100

\* What was accepted once is accepted again as it is.
ASSUME AcceptedIsStable ==
  \A some \in [{"return_result", "entry_quality", "exit_quality", "position_sizing"} -> {NoValue, 0, 40, 160}] :
  \A denies \in BOOLEAN : \A kind \in {"single_trade_review", "unsaid"} : \A position \in {0, 10} : \A sold \in BOOLEAN :
    LET facts == FactsOf(position, "BUY", sold)
        once == _validate_review_output(AnswerOf(some @@ Uniform(0), denies, kind), facts)
    IN  /\ once.overall \in 0..10000
        /\ once # _fallback_review_output =>
             _validate_review_output(AnswerOf(once.detail @@ Uniform(0), FALSE, kind), facts) = once

Documents == {[id |-> i, created |-> i, tags |-> IF i = 2 THEN {"CHASE_HIGH"} ELSE {}] : i \in 1..4}
\* A list is the newest of both indices, each review once; the mistakes of the legacy
\* index are no longer counted once a review in the new one names any (trade_review_repository.py:121-156).
ASSUME ListsBothIndices ==
  \A v2, legacy \in SUBSET Documents : \A limit \in 1..3 :
    /\ _search_reviews_with_legacy_fallback(v2, legacy, limit) = Newest(v2 \cup legacy, limit)
    /\ \A d \in v2 \cup legacy : get_review(v2, legacy, d.id) = {d}
    /\ \A d \in v2 : d.tags # {} => summarize_mistakes(v2, {[d EXCEPT !.id = 9, !.tags = {"PANIC_SELL"}]}) = d.tags
=============================================================================
