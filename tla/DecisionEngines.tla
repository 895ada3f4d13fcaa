--------------------------- MODULE DecisionEngines ---------------------------
(***************************************************************************)
(* The deterministic engines behind the cards of a trade decision:         *)
(* technical signals from candles (technical_signal_engine.py), the change *)
(* of the fundamentals (fundamental_change_engine.py) and the ratio of     *)
(* reward to risk (risk_reward_engine.py).                                 *)
(*                                                                         *)
(* Prices are whole numbers above zero, returns and distances are basis    *)
(* points rounded down, ratios are in hundredths.  Reasons, evidence and   *)
(* the notes on missing data are left out.                                 *)
(***************************************************************************)
EXTENDS Integers, Sequences, FiniteSets, SequencesExt

None == -999999  \* for a number: None

Or(x, y)        == IF x \in {None, 0} THEN y ELSE x  \* Python's x or y
Recent(s, n)    == SubSeq(s, Len(s) - n + 1, Len(s))
\* By halves: TLC goes only as deep as the halves are nested.
Sum(s) ==
  LET upto[a \in DOMAIN s, b \in 0..Len(s)] ==
        CASE b < a -> 0 [] b = a -> s[a] [] OTHER -> upto[a, (a + b) \div 2] + upto[(a + b) \div 2 + 1, b]
  IN  IF s = <<>> THEN 0 ELSE upto[1, Len(s)]
Least(S, n)     == {x \in S : Cardinality({y \in S : y < x}) < n}
Greatest(S, n)  == {x \in S : Cardinality({y \in S : y > x}) < n}
Largest(S)      == CHOOSE x \in S : \A y \in S : y <= x
Abs(x)          == IF x < 0 THEN -x ELSE x
Of(x, y)        == (10000 * x) \div y  \* x in basis points of y

----------------------------------------------------------------------------
(* Technical signals *)

\* Items without a close are dropped, other gaps are filled from the close.
parse_candles(items) ==
  LET closed == SelectSeq(items, LAMBDA i : i.close # None)
  IN  [k \in DOMAIN closed |->
         LET i == closed[k] IN
         [high |-> Or(i.high, i.close), low |-> Or(i.low, i.close), close |-> i.close,
          volume |-> Or(i.volume, 0)]]

_sma(values, period) == IF Len(values) < period THEN None ELSE Sum(Recent(values, period)) \div period

\* The sign of the slope is all that is asked for: its denominator is left out.
_sma_slope(values, period, lookback) ==
  IF Len(values) < period + lookback THEN None
  ELSE Sum(Recent(values, period)) - Sum(SubSeq(values, Len(values) - period - lookback + 1, Len(values) - lookback))

_atr(candles, period) ==
  IF Len(candles) < period + 1 THEN None
  ELSE LET range(i) == Largest({candles[i].high - candles[i].low, Abs(candles[i].high - candles[i-1].close),
                                Abs(candles[i].low - candles[i-1].close)})
       IN  Sum([k \in 1..period |-> range(Len(candles) - period + k)]) \div period

\* The last volume against the mean of the window before it.
_volume_ratio(candles, window) ==
  LET before == IF Len(candles) < window + 1 THEN 0
                ELSE Sum([k \in 1..window |-> candles[Len(candles) - window - 1 + k].volume])
  IN  IF before <= 0 THEN None ELSE Of(window * Last(candles).volume, before)

_return_pct(candles, lookback) ==
  IF Len(candles) <= lookback THEN None
  ELSE LET base == candles[Len(candles) - lookback].close
       IN  Of(Last(candles).close - base, base)

_relative_strength(candles, benchmark, lookback) ==
  IF Len(candles) <= lookback \/ Len(benchmark) <= lookback THEN None
  ELSE _return_pct(candles, lookback) - _return_pct(benchmark, lookback)

\* The three lowest lows and the three highest highs of the window, which need
\* not be the nearest to the price.
_support_resistance(candles, window) ==
  IF Len(candles) < window THEN [support |-> {}, resistance |-> {}]
  ELSE LET recent == Recent(candles, window) IN
       [support |-> Least({recent[i].low : i \in 1..window}, 3),
        resistance |-> Greatest({recent[i].high : i \in 1..window}, 3)]

Required == {"QQQ", "SMH"}

\* s: the signals, last: the price of the quote, or else the last close.
Lags(s, name)     == s.rs20[name] # None /\ s.rs20[name] < -300 /\ s.rs60[name] # None /\ s.rs60[name] < -500
BothKnown(s)      == \A name \in Required : s.rs20[name] # None /\ s.rs60[name] # None
SevereBreak(s, last) ==
  \/ s.ma200 # None /\ 100 * last < 98 * s.ma200
  \/ BothKnown(s) /\ \A name \in Required : Lags(s, name)
Broken(s, last)   == s.ma50 # None /\ 100 * last < 97 * s.ma50 /\ s.slope50 # None /\ s.slope50 <= 0
Warned(s, last)   ==
  \/ s.ma20 # None /\ 100 * last < 97 * s.ma20
  \/ s.volume # None /\ s.volume > 13000 /\ s.return20 # None /\ s.return20 < -300
  \/ ~BothKnown(s) /\ \E name \in Required : Lags(s, name)

classify_trend_break(s, last) ==
  CASE last = None           -> "unknown"
    [] SevereBreak(s, last)  -> "severe"
    [] Broken(s, last)       -> "broken"
    [] Warned(s, last)       -> "warning"
    [] OTHER                 -> "none"

NoSignals == [ma20 |-> None, ma50 |-> None, ma200 |-> None, slope50 |-> None, atr |-> None, atr_pct |-> None,
              volume |-> None, return20 |-> None, rs20 |-> [n \in Required |-> None],
              rs60 |-> [n \in Required |-> None], support |-> {}, resistance |-> {}, level |-> "unknown"]

\* benchmarks: the candles of each required benchmark, <<>> when they are missing.
compute(candles, benchmarks, quote) ==
  IF candles = <<>> THEN NoSignals
  ELSE LET closes == [i \in DOMAIN candles |-> candles[i].close]
           close  == Last(closes)
           atr    == _atr(candles, 14)
           levels == _support_resistance(candles, 20)
           s == [NoSignals EXCEPT
                   !.ma20 = _sma(closes, 20), !.ma50 = _sma(closes, 50), !.ma200 = _sma(closes, 200),
                   !.slope50 = _sma_slope(closes, 50, 5),
                   !.atr = atr, !.atr_pct = IF atr = None THEN None ELSE Of(atr, close),
                   !.volume = _volume_ratio(candles, 20), !.return20 = _return_pct(candles, 20),
                   !.rs20 = [n \in Required |-> _relative_strength(candles, benchmarks[n], 20)],
                   !.rs60 = [n \in Required |-> _relative_strength(candles, benchmarks[n], 60)],
                   !.support = levels.support, !.resistance = levels.resistance]
       IN  [s EXCEPT !.level = classify_trend_break(s, Or(quote, close))]

----------------------------------------------------------------------------
(* The change of the fundamentals *)

_SIGNAL_WEIGHTS ==
  [revenue_growth_slowdown |-> 2, margin_compression |-> 2, cash_flow_deterioration |-> 2, guidance_cut |-> 3,
   segment_growth_failure |-> 2, rating_downgrade |-> 1, forecast_eps_cut |-> 2,
   revenue_growth_acceleration |-> -2, margin_expansion |-> -2, guidance_raise |-> -3, rating_upgrade |-> -1,
   forecast_eps_raise |-> -2]

\* How the last four values of a series move.
Moves(series) ==
  LET w == Recent(series, IF Len(series) < 4 THEN Len(series) ELSE 4)
  IN  [up   |-> Cardinality({i \in 2..Len(w) : w[i] > w[i-1]}),
       down |-> Cardinality({i \in 2..Len(w) : w[i] < w[i-1]})]
Rises(series)  == Len(series) >= 3 /\ Moves(series).up >= 2 /\ Moves(series).down = 0
Falls(series)  == Len(series) >= 3 /\ Moves(series).down >= 2 /\ Moves(series).up = 0
Either(s, t)   == IF s = <<>> THEN t ELSE s

\* The words of guidance found in the reports and in the notes on ratings and
\* forecasts: a rating that was put up is read as guidance as well.
_extract_guidance_text(f) == f.guidance \cup IF f.rating = "put_up" THEN {"raise"} ELSE {}

\* A growth of zero counts as missing.
_evaluate_segments(growths) == {g \in growths : g \notin {None, 0} /\ g < 500}

\* What speaks against and for the company f.
change_signals(f) ==
  {s \in DOMAIN _SIGNAL_WEIGHTS :
     \/ s = "revenue_growth_slowdown" /\ Falls(f.revenue)
     \/ s = "margin_compression" /\ Falls(Either(f.gross, f.operating))
     \/ /\ s = "cash_flow_deterioration" /\ Len(Either(f.cfo, f.fcf)) >= 3
        /\ Falls(Either(f.cfo, f.fcf)) \/ Last(Either(f.cfo, f.fcf)) < 0
     \/ s = "guidance_cut" /\ "cut" \in _extract_guidance_text(f)
     \/ s = "segment_growth_failure" /\ _evaluate_segments(f.segments) # {}
     \/ s = "rating_downgrade" /\ f.rating = "downgrade"
     \/ s = "forecast_eps_cut" /\ f.eps = "cut"}
positive_signals(f) ==
  {s \in DOMAIN _SIGNAL_WEIGHTS :
     \/ s = "revenue_growth_acceleration" /\ Rises(f.revenue)
     \/ s = "margin_expansion" /\ Rises(Either(f.gross, f.operating))
     \/ s = "guidance_raise" /\ _extract_guidance_text(f) = {"raise"}
     \/ s = "rating_upgrade" /\ f.rating \in {"upgrade", "put_up"}
     \/ s = "forecast_eps_raise" /\ f.eps = "raise"}

_aggregate_status(signals) ==
  LET score == FoldSet(LAMBDA s, n : n + _SIGNAL_WEIGHTS[s], 0, signals)
  IN  CASE signals = {} -> "unknown" [] score <= -3 -> "green" [] score >= 6 -> "red"
        [] score >= 3 -> "orange" [] OTHER -> "yellow"

\* The topics a signal is looked for under in the sell triggers of the thesis;
\* a signal without an entry is looked for under its own name.
Topic(s) == CASE s = "revenue_growth_slowdown" -> "revenue"  [] s = "margin_compression" -> "margin"
              [] s = "cash_flow_deterioration" -> "cash"     [] s = "guidance_cut" -> "guidance"
              [] s = "segment_growth_failure" -> "segment"   [] OTHER -> s
_check_thesis_broken(signals, triggers) == \E s \in signals : Topic(s) \in triggers

evaluate(f, triggers) ==
  LET broken == _check_thesis_broken(change_signals(f), triggers)
  IN  [status |-> IF broken THEN "red" ELSE _aggregate_status(change_signals(f) \cup positive_signals(f)),
       broken |-> broken, change |-> change_signals(f), positive |-> positive_signals(f)]

----------------------------------------------------------------------------
(* Reward and risk *)

Away(from, to) == Of(to - from, from)

\* What may be lost from the price last, in basis points.
DownsideScenarios(last, s, fund, risk_class) ==
  (IF last # None /\ s.ma200 # None /\ s.ma200 < last THEN {Abs(Away(last, s.ma200))} ELSE {})
  \cup (LET below == {x \in s.support : last # None /\ x < last}
        IN  IF below = {} THEN {} ELSE {Of(last - Largest(below), last)})
  \cup (LET pct == IF s.atr_pct = None /\ s.atr # None /\ last # None THEN Of(s.atr, last) ELSE s.atr_pct
        IN  IF pct = None THEN {} ELSE {(5 * pct) \div 2})
  \cup (CASE fund.status = "red" \/ fund.broken -> {3000} [] fund.status = "orange" -> {2000}
          [] fund.status = "yellow" -> {1000} [] OTHER -> {})
  \cup (IF risk_class = "extreme" THEN {1500} ELSE {})

\* What may be won, one value per scenario.  The text of the growth is a number of
\* basis points or None.
UpsideScenarios(last, s, fund) ==
  LET pe      == Or(fund.forward_pe, fund.pe_ttm)
      re_rate == IF fund.status \in {"green", "yellow"} THEN 1000 ELSE 0
      growth  == IF fund.growth > 0 /\ fund.growth < 20000
                 THEN IF fund.growth < 2000 THEN fund.growth ELSE 2000 ELSE 0
  IN  IF last = None THEN <<>>
      ELSE (IF fund.target # None /\ fund.target > last THEN <<Away(last, fund.target)>> ELSE <<>>)
           \o SetToSeq({Away(last, r) : r \in {x \in s.resistance : x > last}})
           \o (IF pe # None /\ pe > 0 /\ re_rate + growth > 0 THEN <<re_rate + growth>> ELSE <<>>)

Median(values) == SortSeq(values, LAMBDA x, y : x < y)[Len(values) \div 2 + 1]

_compute_max_position_pct(thesis) ==
  LET cap == CASE thesis.risk \in {"low", "high_growth"} -> 30 [] thesis.risk = "medium" -> 25
               [] thesis.risk = "medium_high" -> 20 [] OTHER -> 10
      base == Or(thesis.max, 5)
  IN  IF base < cap THEN base ELSE cap

_size_label(max) ==
  CASE max <= 0 -> "none" [] max < 3 -> "very_small" [] max < 8 -> "small" [] max < 15 -> "medium"
    [] max < 25 -> "large" [] OTHER -> "very_large"

_action_guidance(ratio, level, fund, holding) ==
  CASE fund.broken \/ fund.status = "red" \/ level = "severe" -> IF holding THEN "reduce_now" ELSE "avoid"
    [] level = "broken" -> IF holding THEN "hold_no_add" ELSE "wait"
    [] ratio = None -> "wait"
    [] ratio < 150 -> IF holding THEN "hold_no_add" ELSE "wait"
    [] ratio < 200 \/ level = "warning" -> "add_on_pullback"
    [] OTHER -> "add_right_side"

_compute_confidence(up, down, ratio, status, level, last) ==
  LET score == Cardinality({i \in 1..6 : <<up # None, down # None, ratio # None, status # "unknown",
                                            level # "unknown", last # None>>[i]})
  IN  CASE score >= 5 -> "high" [] score >= 3 -> "medium" [] score >= 1 -> "low" [] OTHER -> "unknown"

\* The price is the last close, the snapshot's price or the mean of 20 days.
estimate(last_close, s, fund, thesis, holding) ==
  LET last  == Or(Or(last_close, s.ma20), None)
      downs == DownsideScenarios(last, s, fund, thesis.risk)
      ups   == SelectSeq(UpsideScenarios(last, s, fund), LAMBDA u : u > 0)
      down  == IF downs = {} THEN None ELSE Largest(downs)
      up    == IF ups = <<>> THEN None ELSE Median(ups)
      ratio == IF up = None \/ down \in {None, 0} THEN None ELSE (100 * up) \div down
      pull  == IF down \div 2 < 300 THEN 300 ELSE IF down \div 2 > 1000 THEN 1000 ELSE down \div 2
      level(bp) == IF last = None \/ down = None THEN None ELSE (last * (10000 + bp)) \div 10000
  IN  [up |-> up, down |-> down, ratio |-> ratio,
       max |-> _compute_max_position_pct(thesis), label |-> _size_label(_compute_max_position_pct(thesis)),
       wait_for_pullback |-> s.level \in {"warning", "broken", "severe"},
       guidance |-> _action_guidance(ratio, s.level, fund, holding),
       invalidation |-> level(-down), stop_add |-> level(-(down \div 2)),
       trim |-> level((IF up > 500 THEN up ELSE 500) \div 2), pullback |-> level(-pull),
       confidence |-> _compute_confidence(up, down, ratio, fund.status, s.level, last)]
=============================================================================
