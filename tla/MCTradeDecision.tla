--------------------------- MODULE MCTradeDecision ---------------------------
(***************************************************************************)
(* TradeDecisionGraph for TLC, and what the engines and the cards of a      *)
(* decision do, which TLC decides over bounded inputs before the run.        *)
(***************************************************************************)
EXTENDS TradeDecisionGraph
LOCAL INSTANCE DecisionCards

----------------------------------------------------------------------------
(* Technical signals *)

Rank == [none |-> 0, warning |-> 1, broken |-> 2, severe |-> 3]
Opinions == {None, -600, -100}
SomeSignals ==
  {[NoSignals EXCEPT !.ma20 = m20, !.ma50 = m50, !.ma200 = m200, !.slope50 = slope, !.volume = volume,
                     !.return20 = -400, !.rs20["QQQ"] = a, !.rs20["SMH"] = b, !.rs60["QQQ"] = a, !.rs60["SMH"] = b] :
     m20 \in {None, 100}, m50 \in {None, 100, 120}, m200 \in {None, 80, 110}, slope \in {None, -1, 1},
     volume \in {None, 14000}, a \in Opinions, b \in Opinions}

\* A lower price never makes the trend look better, whatever the signals
\* (technical_signal_engine.py:329-406).
ASSUME LowerIsNeverBetter ==
  \A s \in SomeSignals : \A last \in {70, 90, 97, 110} :
     Rank[classify_trend_break(s, last)] >= Rank[classify_trend_break(s, last + 10)]

\* A history that is level for a while and then moves to another price.
History(n, base, moved, m) ==
  [i \in 1..n |-> LET p == IF i > n - m THEN moved ELSE base
                  IN  [high |-> p + 2, low |-> p - 2, close |-> p, volume |-> 10]]

\* A fall of a fifth is severe where 200 days are known, broken with 50 days and two
\* weeks of it, and only a warning, or nothing at all, with less: what is not known is
\* not held against the company.
ASSUME ShortHistoriesLookBetter ==
  LET level(n, m) == compute(History(n, 100, 80, m), [b \in Required |-> <<>>], None).level
  IN  <<level(200, 10), level(60, 10), level(30, 10), level(19, 1), level(1, 1)>>
      = <<"severe", "broken", "warning", "none", "none">>

\* A gap to the benchmarks counts as severe only when both are known; known alone,
\* one that lags is a warning.
ASSUME BenchmarksConfirm ==
  \A both \in BOOLEAN :
    compute(History(70, 100, 90, 15), [b \in Required |-> IF both \/ b = "QQQ" THEN History(70, 100, 110, 15) ELSE <<>>],
            100).level = IF both THEN "severe" ELSE "warning"

----------------------------------------------------------------------------
(* The change of the fundamentals *)

Grade == [green |-> 0, yellow |-> 1, unknown |-> 1, orange |-> 2, red |-> 3]
Series == {<<>>, <<1, 2, 3>>, <<3, 2, 1>>, <<2, 3, -1>>}
Companies ==
  [revenue : {<<>>, <<1, 2, 3>>}, gross : Series \ {<<2, 3, -1>>}, operating : {<<>>}, cfo : Series, fcf : {<<>>},
   guidance : SUBSET {"cut", "raise"}, segments : {{}, {300, 900}},
   rating : {"none", "downgrade", "upgrade", "put_up"}, eps : {"none", "cut", "raise"}]

\* One more piece of bad news never improves the grade, and with a thesis that names
\* it as a reason to sell the grade is red (fundamental_change_engine.py:155-417).
Worse(f) ==
  {[f EXCEPT !.guidance = @ \cup {"cut"}], [f EXCEPT !.segments = @ \cup {-100}],
   [f EXCEPT !.rating = "downgrade"], [f EXCEPT !.eps = "cut"], [f EXCEPT !.revenue = <<3, 2, 1>>]}
ASSUME BadNewsNeverHelps ==
  \A f \in Companies : \A g \in Worse(f) :
     /\ Grade[evaluate(g, {}).status] >= Grade[evaluate(f, {}).status]
     /\ evaluate(f, {"guidance"}).broken => evaluate(g, {"guidance"}).status = "red"

----------------------------------------------------------------------------
(* Reward and risk *)

SomeFunds ==
  [status : {"green", "yellow", "orange", "red", "unknown"}, broken : BOOLEAN, target : {None, 110, 160},
   forward_pe : {None, 0, 20}, pe_ttm : {None, 40}, growth : {None, 1500}]
SomeTrends ==
  {[NoSignals EXCEPT !.level = l, !.ma200 = m, !.atr_pct = a, !.support = sup, !.resistance = {105, 130}] :
     l \in {"none", "warning", "broken", "severe", "unknown"}, m \in {None, 80}, a \in {None, 80, 400}, sup \in {{}, {90, 98}}}
SomeTheses == {[max |-> 5, risk |-> "unknown"], [max |-> 28, risk |-> "high_growth"], [max |-> 40, risk |-> "extreme"]}
Adds == {"add_on_pullback", "add_right_side"}

\* The engine advises an add only with a ratio of 1.5, on a thesis and a trend that are
\* not broken, and never right away while it says to wait for a pullback; its maximum
\* respects the class of risk (risk_reward_engine.py:117-407).
ASSUME AddsAreEarned ==
  \A s \in SomeTrends, f \in SomeFunds, t \in SomeTheses, holding \in BOOLEAN :
     LET est == estimate(100, s, f, t, holding) IN
     /\ est.guidance \in Adds =>
          /\ est.ratio >= 150 /\ ~f.broken /\ f.status # "red" /\ s.level \notin {"broken", "severe"}
          /\ est.wait_for_pullback => est.guidance = "add_on_pullback"
     /\ t.risk = "extreme" => est.max <= 10
     /\ est.guidance = "reduce_now" => holding

\* The pullback to buy at lies below the level that invalidates the thesis exactly
\* when less than three per cent may be lost (risk_reward_engine.py:319-325).
ASSUME PullbackAboveInvalidation ==
  \A s \in SomeTrends, f \in SomeFunds :
     LET est == estimate(1000, [s EXCEPT !.ma200 = IF @ = None THEN None ELSE 800, !.support = {10 * x : x \in @},
                                         !.resistance = {1050, 1300}], f, [max |-> 5, risk |-> "low"], TRUE)
     IN  est.down # None => (est.pullback < est.invalidation <=> est.down < 300)

----------------------------------------------------------------------------
(* Cards *)

Ok(tool, data) == [event |-> "tool_finish", tool |-> tool, ok |-> TRUE, data |-> data, missing |-> 0]
Failed(tool)   == [event |-> "tool_error", tool |-> tool, ok |-> FALSE, data |-> NoData, missing |-> 0]
Started        == [event |-> "llm_start", tool |-> "none", ok |-> FALSE, data |-> NoData, missing |-> 0]

\* What each of a few tools did in a run, in every combination.
Traces(choices) ==
  {<<Started>>} \cup {SelectSeq(<<Started, x, y, z>>, LAMBDA e : e # <<>>) : x \in choices[1], y \in choices[2], z \in choices[3]}
FundamentalTraces ==
  Traces(<<{Ok("financial_report", [revenue |-> <<3, 2, 1>>, gross |-> <<3, 2, 1>>, cfo |-> <<1, 2, 3>>, guidance |-> <<"cut">>]),
          Failed("financial_report")},
         {Ok("valuation", [pe_ttm |-> 20, forward_pe |-> 15]), Ok("valuation", [pe_ttm |-> -20]), Failed("valuation")},
         {Ok("quote", [price |-> 50]), Failed("quote")}>>)
EventTraces ==
  Traces(<<{Ok("news_search", [items |-> <<[title |-> "a", has |-> {"source"}], [title |-> "b", has |-> {}]>>]), Failed("news_search")},
         {Ok("finance_calendar", [next_earnings_date |-> 7]), Failed("finance_calendar")},
         {Ok("institution_rating", [consensus |-> 1]), Failed("institution_rating")}>>)
Answers == {"none", "unreadable", "read"}
Said == [score |-> 40, trend |-> "bullish", limits |-> {"traceback"}, pe_ttm |-> None, forward_pe |-> None,
         market_cap |-> None, revenue |-> TRUE, sentiment |-> "positive", strength |-> "strong"]
Unpriced == [price |-> None]
FundamentalRuns == {generate("fundamental_valuation", TRUE, a, Said, Unpriced, t, {"guidance"}) : a \in Answers, t \in FundamentalTraces}
EventRuns == {generate("event_catalyst", TRUE, a, Said, Unpriced, t, {}) : a \in Answers, t \in EventTraces}

\* A card says that its evidence is better than low only if a tool answered, however
\* the answer of the model was read, and no card tells of the machinery behind it
\* (trade_decision_sub_agents.py:401-460, 1137-1144, 1420, 1627).
ASSUME EvidenceIsEarned ==
  \A r \in FundamentalRuns \cup EventRuns :
     /\ r.card.quality # "low" => r.card.sources # {}
     /\ r.status = "completed" => r.card.sources # {}
     /\ {"traceback", "max_rounds", "truncated"} \cap r.card.limits = {}

\* The reports that break the thesis of a card whose answer was read are forgotten by
\* the card that is made when it cannot be read: its grade is unknown, never red
\* (trade_decision_sub_agents.py:1452-1525).
ASSUME FallbackForgets ==
  \A t \in FundamentalTraces :
     /\ generate("fundamental_valuation", TRUE, "unreadable", Said, Unpriced, t, {"guidance"}).card.status = "unknown"
     /\ Ok("financial_report", [revenue |-> <<3, 2, 1>>, gross |-> <<3, 2, 1>>, cfo |-> <<1, 2, 3>>, guidance |-> <<"cut">>]) \in
          {t[i] : i \in DOMAIN t}
        => generate("fundamental_valuation", TRUE, "read", Said, Unpriced, t, {"guidance"}).card.broken

\* A company that loses money has a bullish card, because its negative ratio of price
\* to earnings is below 30 (trade_decision_sub_agents.py:1397).
ASSUME LossesLookCheap ==
  FundamentalCard([Said EXCEPT !.pe_ttm = -12], Unpriced, <<Started>>, {}).stance = "bullish"

\* The fit of an account never improves with the share of the position, and what is
\* suggested to be invested fits into the maximum and half of the liquidity
\* (trade_decision_sub_agents.py:743-794).
Fits == [excellent |-> 3, good |-> 2, fair |-> 1, poor |-> 0]
ASSUME FitFollowsRoom ==
  \A liquid \in {0, 60, 160, 310}, share \in {0, 5, 20, 49, 50, 99, 100, 300}, review \in {None, 0, 39, 60} :
     LET a == [liquid |-> liquid, share |-> share, review |-> review, deployable |-> liquid, net |-> 1000]
         fit == AccountFit(a)
     IN  /\ review \notin 1..39 => Fits[fit.level] >= Fits[AccountFit([a EXCEPT !.share = share + 10]).level]
         /\ fit.cash # None => fit.cash <= liquid \div 2 /\ (fit.cash > 0 => share + fit.cash <= fit.max)

\* What the engine lists is kept in front of what the model adds.
ASSUME EngineFirst ==
  \A said \in {<<>>, <<"a">>, <<"x", "y", "z">>} :
     SubSeq(_enhance_with_llm(<<"a", "b">>, said, 4), 1, 2) = <<"a", "b">>

\* Every state of the market and of the fundamentals the engines know is one a card of
\* TradeDecisionGraph may have.
EngineLevels == {classify_trend_break(s, p) : s \in SomeSignals, p \in {None, 70, 110}}
EngineGrades == {evaluate(f, {}).status : f \in Companies}
\* What the engines find is among what the cards of a run may say.
ASSUME EnginesCovered ==
  /\ EngineLevels \subseteq {Rising.trend} \cup Markets.trend
  /\ EngineGrades \subseteq {Sound.status} \cup Fundamentals.status
=============================================================================
