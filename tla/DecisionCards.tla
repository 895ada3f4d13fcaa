---------------------------- MODULE DecisionCards ----------------------------
(***************************************************************************)
(* The cards the sub-agents of a trade decision make of a language model's *)
(* answer and of what their tools returned, and the cards they fall back   *)
(* to (trade_decision_sub_agents.py).                                      *)
(*                                                                         *)
(* A trace is the sequence of a run's events: [event, tool, ok, data,      *)
(* missing], data a function from field names to numbers or, for candles,  *)
(* reports and news, to sequences.  Summaries, names and the texts of      *)
(* limitations are left out: a limitation is the kind it belongs to.       *)
(***************************************************************************)
EXTENDS DecisionEngines, Functions

NoData == <<>>

Finished(e) == e.event = "tool_finish" /\ e.ok
_successful_source_tools(trace) == {e.tool : e \in {x \in Range(trace) : Finished(x)}}

\* The data of the first successful call of a tool that returned any.
_tool_data_from_trace(trace, tool) ==
  LET with == {i \in DOMAIN trace : Finished(trace[i]) /\ trace[i].tool = tool /\ trace[i].data # NoData}
  IN  IF with = {} THEN NoData ELSE trace[CHOOSE i \in with : \A j \in with : i <= j].data
Field(trace, tool, name) ==
  LET d == _tool_data_from_trace(trace, tool) IN IF name \in DOMAIN d THEN d[name] ELSE None
Rows(trace, tool, name) ==
  LET d == _tool_data_from_trace(trace, tool) IN IF name \in DOMAIN d THEN d[name] ELSE <<>>
Word(trace, tool, name) ==
  LET d == _tool_data_from_trace(trace, tool) IN IF name \in DOMAIN d THEN d[name] ELSE "none"

\* News is collected over all searches; an item that was seen before is dropped.
_news_items_from_trace(trace) ==
  UNION {Range(e.data.items) : e \in {x \in Range(trace) : Finished(x) /\ x.tool = "news_search" /\ x.data # NoData}}

_data_quality_from_trace(trace) ==
  LET calls == SelectSeq(trace, LAMBDA e : e.event \in {"tool_finish", "tool_error"})
  IN  [calls |-> Len(calls), successes |-> Len(SelectSeq(calls, LAMBDA e : e.ok)),
       missing |-> Sum([i \in DOMAIN calls |-> calls[i].missing])]

\* Whatever the model says of rounds, tracebacks or truncated tools is told to the
\* user as thin public data.
_sanitize_user_limitation(kind) ==
  IF kind \in {"max_rounds", "traceback", "mcp_field_missing", "truncated"} THEN "public_data" ELSE kind
_friendly_tool_limitation(tool) ==
  CASE tool = "finance_calendar" -> "calendar" [] tool = "news_search" -> "news"
    [] tool = "institution_rating" -> "rating" [] OTHER -> "public_data"
_extract_data_limitations_from_runtime(said, trace) ==
  {_sanitize_user_limitation(k) : k \in said}
  \cup {_friendly_tool_limitation(e.tool) :
          e \in {x \in Range(trace) : x.event = "tool_error" \/ (x.event = "tool_finish" /\ ~x.ok)}}

Positive(x) == IF x > 0 THEN x ELSE None
\* The first of some values that is a positive number.
FirstPositive(values) ==
  LET positive == SelectSeq(values, LAMBDA v : v > 0) IN IF positive = <<>> THEN None ELSE positive[1]
Clamp(x, low, high) == IF x < low THEN low ELSE IF x > high THEN high ELSE x

----------------------------------------------------------------------------
(* AccountFitSubAgent: shares and ratios are per mille of the account *)

AccountFit(a) ==
  LET first == CASE a.liquid > 300 /\ a.share < 50 -> "excellent"
                 [] ~(a.liquid > 300 /\ a.share < 50) /\ a.liquid > 150 /\ a.share < 100 -> "good"
                 [] ~(a.liquid > 150 /\ a.share < 100) /\ a.liquid > 50 -> "fair" [] OTHER -> "poor"
      level == IF first = "excellent" /\ Or(a.review, 50) < 40 THEN "fair" ELSE first
      size  == CASE a.share <= 0 -> "none" [] a.share \in 1..9 -> "tiny" [] a.share \in 10..29 -> "small"
                 [] a.share \in 30..59 -> "medium" [] a.share \in 60..99 -> "large" [] OTHER -> "concentrated"
      max   == CASE size \in {"none", "tiny", "large"} -> 50 [] size = "small" -> 80
                 [] size = "medium" -> 100 [] OTHER -> 30
      half  == a.deployable \div 2
      room  == ((max - a.share) * a.net) \div 1000
  IN  [level |-> level, size |-> size, max |-> max,
       score |-> CASE first = "excellent" -> 20 [] first = "good" -> 16 [] first = "fair" -> 10 [] OTHER -> 4,
       cash |-> IF a.share > 10 \/ a.deployable <= 0 THEN None ELSE Clamp(IF room < half THEN room ELSE half, 0, half)]

----------------------------------------------------------------------------
(* MarketTrendSubAgent *)

NoMarketCard == [score |-> 0, stance |-> "insufficient_data", level |-> "unknown", quality |-> "low", limits |-> {"failed"},
                 sources |-> {}]

\* The level is the engine's, whatever trend the model names; the stance is the model's.
MarketCard(said, trace) ==
  LET candles == parse_candles(Rows(trace, "candlesticks", "symbol"))
      bench(n) == parse_candles(Rows(trace, "candlesticks", n))
      signals == compute(candles, [n \in Required |-> bench(n)], Field(trace, "quote", "last_done"))
      sources == _successful_source_tools(trace)
  IN  [score |-> Clamp(said.score, 0, 15),
       stance |-> IF said.trend \in {"bullish", "neutral", "bearish"} THEN said.trend ELSE "mixed",
       level |-> signals.level,
       quality |-> IF sources = {} \/ candles = <<>> THEN "low" ELSE IF said.score >= 10 THEN "high" ELSE "medium",
       limits |-> _extract_data_limitations_from_runtime(said.limits, trace)
                  \cup IF candles = <<>> THEN {"no_candles"} ELSE {m \in {"ma20", "ma50", "ma200", "atr", "volume"} :
                                                                   signals[m] \in {None, 0}},
       sources |-> sources]

----------------------------------------------------------------------------
(* FundamentalValuationSubAgent *)

ForwardEps(trace) ==
  FirstPositive(<<Field(trace, "forecast_eps", "eps_forward"), Field(trace, "consensus", "eps_forward"),
                  Field(trace, "static_info", "eps_forward")>>)
Price(snapshot, trace) == FirstPositive(<<snapshot.price, Field(trace, "quote", "price")>>)
MarketCap(snapshot, trace, first) ==
  LET cap == FirstPositive(<<first, Field(trace, "company", "market_cap"), Field(trace, "static_info", "market_cap"),
                             Field(trace, "valuation", "market_cap")>>)
      shares == Positive(Field(trace, "static_info", "total_shares"))
  IN  IF cap # None \/ Price(snapshot, trace) = None \/ shares = None THEN cap ELSE shares * Price(snapshot, trace)
PerEps(snapshot, trace) ==
  IF Price(snapshot, trace) = None \/ ForwardEps(trace) = None THEN None
  ELSE Price(snapshot, trace) \div ForwardEps(trace)

\* A price earnings ratio of the answer may be negative, one of a tool may not.
TrailingPe(said, trace) == Or(said.pe_ttm, Positive(Field(trace, "valuation", "pe_ttm")))
ForwardPe(said, snapshot, trace) ==
  IF said.forward_pe # None THEN said.forward_pe
  ELSE IF Field(trace, "valuation", "forward_pe") > 0 THEN Field(trace, "valuation", "forward_pe")
  ELSE PerEps(snapshot, trace)

_extract_financial_reports_from_trace(trace) ==
  [revenue |-> Rows(trace, "financial_report", "revenue"), gross |-> Rows(trace, "financial_report", "gross"),
   operating |-> <<>>, cfo |-> Rows(trace, "financial_report", "cfo"), fcf |-> <<>>]

NoFundamentalCard == [score |-> 0, stance |-> "insufficient_data", status |-> "unknown", broken |-> FALSE,
                      quality |-> "low", limits |-> {"failed"}, sources |-> {}]

Missing(pe, forward, cap, snapshot, trace) ==
  {k \in {"not_applicable", "pe", "forward_pe", "market_cap"} :
     \/ k = "not_applicable" /\ (pe \in -1000..-1 \/ forward \in -1000..-1)
     \/ k = "pe" /\ pe = None /\ forward \notin -1000..-1
     \/ k = "forward_pe" /\ forward = None /\ pe \notin -1000..-1 /\ ForwardEps(trace) = None
     \/ k = "market_cap" /\ cap = None}

FundamentalCard(said, snapshot, trace, triggers) ==
  LET pe      == TrailingPe(said, trace)
      forward == ForwardPe(said, snapshot, trace)
      cap     == MarketCap(snapshot, trace, said.market_cap)
      reports == _extract_financial_reports_from_trace(trace)
      news    == [guidance |-> Range(Rows(trace, "financial_report", "guidance")),
                  segments |-> Range(Rows(trace, "business_segments", "segments")),
                  rating |-> Word(trace, "institution_rating", "recent_change"),
                  eps |-> Word(trace, "forecast_eps", "trend")] @@ reports
      change  == evaluate(news, triggers)
      sources == _successful_source_tools(trace)
  IN  [score |-> Clamp(said.score, 0, 35),
       stance |-> IF pe \in {None, 0} THEN "mixed" ELSE IF pe < 30 THEN "bullish" ELSE "neutral",
       status |-> change.status, broken |-> change.broken,
       quality |-> IF said.score <= 0 \/ sources = {} THEN "low" ELSE IF said.revenue THEN "high" ELSE "medium",
       limits |-> _extract_data_limitations_from_runtime(said.limits, trace)
                  \cup Missing(pe, forward, cap, snapshot, trace) \cup IF said.score <= 0 THEN {"zero_score"} ELSE {},
       sources |-> sources]

\* The card made of the tools when the answer cannot be read: the engine is not asked.
_build_deterministic_fundamental_card(snapshot, trace) ==
  LET pe    == Positive(Field(trace, "valuation", "pe_ttm"))
      score == (IF _tool_data_from_trace(trace, "financial_report") # NoData THEN 10 ELSE 0)
               + (IF pe # None \/ PerEps(snapshot, trace) \notin {None, 0} THEN 8 ELSE 0)
               + (IF Field(trace, "institution_rating", "consensus") # None
                     \/ Rows(trace, "business_segments", "segments") # <<>> THEN 5 ELSE 0)
  IN  [NoFundamentalCard EXCEPT
         !.score = score, !.stance = IF score > 0 THEN "neutral" ELSE "insufficient_data",
         !.quality = IF score > 0 THEN "medium" ELSE "low",
         !.limits = _extract_data_limitations_from_runtime({"unreadable"}, trace)
                    \cup {k \in {"forward_pe", "market_cap"} :
                            \/ k = "forward_pe" /\ PerEps(snapshot, trace) = None
                            \/ k = "market_cap" /\ MarketCap(snapshot, trace, None) = None},
         !.sources = _successful_source_tools(trace)]

----------------------------------------------------------------------------
(* EventCatalystSubAgent *)

NoEventCard == [score |-> 0, stance |-> "insufficient_data", strength |-> "neutral", quality |-> "low",
                limits |-> {"failed"}, sources |-> {}]

EventLimits(said, trace) ==
  LET news == _news_items_from_trace(trace)
  IN  _extract_data_limitations_from_runtime(said, trace)
      \cup (IF Field(trace, "finance_calendar", "next_earnings_date") = None THEN {"calendar"} ELSE {})
      \cup (IF Field(trace, "institution_rating", "consensus") = None THEN {"rating"} ELSE {})
      \cup (IF news = {} THEN {"news"}
            ELSE {k \in {"published_at", "source", "summary"} : \E item \in news : k \notin item.has})

EventCard(said, trace) ==
  LET sources == _successful_source_tools(trace)
  IN  [score |-> Clamp(said.score, 0, 5),
       stance |-> CASE said.sentiment = "positive" -> "bullish" [] said.sentiment = "negative" -> "bearish" [] OTHER -> "neutral",
       strength |-> said.strength,
       quality |-> IF EventLimits(said.limits, trace) # {} /\ sources = {} THEN "low" ELSE "medium",
       limits |-> EventLimits(said.limits, trace), sources |-> sources]

_build_deterministic_event_card(trace) ==
  LET news == _news_items_from_trace(trace)
  IN  [score |-> IF news # {} THEN 2 ELSE 0, stance |-> IF news # {} THEN "neutral" ELSE "insufficient_data",
       strength |-> "weak", quality |-> IF news # {} THEN "medium" ELSE "low",
       limits |-> _extract_data_limitations_from_runtime({"unreadable"}, trace)
                  \cup (EventLimits({}, trace) \cap {"published_at", "calendar"}),
       sources |-> _successful_source_tools(trace)]

----------------------------------------------------------------------------
(* MCPSubAgent.generate *)

\* answer: "none" when the runtime raised and its trace is lost, "unreadable" after
\* every repair, or what the model said.
generate(agent, mcp, answer, said, snapshot, trace, triggers) ==
  LET plain == CASE agent = "market_trend" -> NoMarketCard [] agent = "fundamental_valuation" -> NoFundamentalCard
                 [] OTHER -> NoEventCard
      tools == CASE agent = "fundamental_valuation" -> _build_deterministic_fundamental_card(snapshot, trace)
                 [] agent = "event_catalyst" -> _build_deterministic_event_card(trace) [] OTHER -> NoMarketCard
      card  == CASE agent = "market_trend" -> MarketCard(said, trace)
                 [] agent = "fundamental_valuation" -> FundamentalCard(said, snapshot, trace, triggers)
                 [] OTHER -> EventCard(said, trace)
  IN  CASE ~mcp \/ answer = "none" -> [status |-> "fallback", card |-> plain]
        [] mcp /\ answer = "unreadable" -> [status |-> "fallback", card |-> IF trace = <<>> THEN plain ELSE tools]
        [] OTHER -> [status |-> IF _successful_source_tools(trace) = {} THEN "fallback" ELSE "completed", card |-> card]

----------------------------------------------------------------------------
(* RiskRewardSubAgent: the engine's numbers, to which the model may only add words *)

RiskRewardCard(est) ==
  LET r == est.ratio
  IN  [score  |-> CASE r = None -> 4 [] r >= 200 -> 14 [] r \in 150..199 -> 12 [] r \in 100..149 -> 8 [] OTHER -> 4,
       stance |-> CASE r = None -> "insufficient_data" [] r >= 150 -> "bullish" [] r \in 100..149 -> "neutral" [] OTHER -> "bearish",
       guidance |-> est.guidance, max |-> est.max, pullback |-> est.pullback,
       quality |-> IF est.confidence = "unknown" THEN "low" ELSE est.confidence]

\* Lists of the engine come first and are kept, those of the model are appended.
_enhance_with_llm(engine, said, limit) ==
  LET merged == engine \o SelectSeq(said, LAMBDA x : ~Contains(engine, x))
  IN  IF Len(merged) <= limit THEN merged ELSE SubSeq(merged, 1, limit)
=============================================================================
