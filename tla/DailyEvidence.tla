---------------------------- MODULE DailyEvidence ----------------------------
(***************************************************************************)
(* What a daily review is made from: the account and positions of a day    *)
(* (daily_position_review_service.py), the assets related to a symbol      *)
(* (daily_review_related_asset_service.py), the cards of its subagents     *)
(* (daily_review_evidence_cards.py, daily_review_*_evidence_agent.py, the  *)
(* nodes of daily_position_review_graph/), the review that is published    *)
(* when no model answers (invariants.py), the document that is stored      *)
(* (daily_position_review_repository.py) and the snapshot that is sent     *)
(* (daily_account_snapshot_service.py).                                    *)
(*                                                                         *)
(* A row is one position of a day; symbols are those of the public market, *)
(* weights are per thousand, changes percent, the rest whole numbers.      *)
(***************************************************************************)
EXTENDS ReviewEvidence

\* The items by a measure of each, the greatest first, the earlier first among equals.
Descending(s, measure) ==
  LET order == SortSeq([i \in DOMAIN s |-> i],
                       LAMBDA i, j : measure[i] > measure[j] \/ (measure[i] = measure[j] /\ i < j))
  IN  [k \in DOMAIN s |-> s[order[k]]]
By(s, Measure(_)) == Descending(s, [i \in DOMAIN s |-> Measure(s[i])])
First(s, n) == SubSeq(s, 1, CutTo(Len(s), n))
Distinct(s) == FoldLeft(LAMBDA r, x : IF Contains(r, x) THEN r ELSE Append(r, x), <<>>, s)
Rate(part, whole) == IF part = NoValue \/ whole \in {NoValue, 0} THEN NoValue ELSE (part * 1000) \div whole

----------------------------------------------------------------------------
(* The day *)

_calculate_position_daily_pnl(r) ==
  CASE r.change = NoValue \/ r.change <= -100 -> NoValue
    [] OTHER -> IF r.quantity # NoValue /\ r.price # NoValue
                THEN (r.quantity * r.price * r.change) \div (100 + r.change)
                ELSE IF r.value # NoValue THEN (r.value * r.change) \div (100 + r.change) ELSE NoValue

Pnl(item) == Or(item.pnl, 0)
\* A share of the net value as the importer stores it is always a percentage.
nav_percent_to_ratio(nav) == IF nav = NoValue THEN NoValue ELSE nav * 10

_build_position_contributions(rows, account) ==
  LET named == SelectSeq(rows, LAMBDA r : r.symbol # "")
      plain == [i \in DOMAIN named |->
        LET r == named[i]
            nav == nav_percent_to_ratio(r.nav)
        IN  [symbol |-> r.symbol, theme |-> r.theme, change |-> r.change, value |-> r.value, unrealized |-> r.unrealized,
             pnl |-> _calculate_position_daily_pnl(r), mover |-> FALSE,
             weight |-> IF nav # NoValue THEN nav
                        ELSE Rate(r.value, IF account.equity = NoValue THEN NoValue ELSE Magnitude(account.equity))]]
      moved == By(plain, LAMBDA p : Magnitude(Pnl(p)))
      gains == SelectSeq(First(By(moved, Pnl), 5), LAMBDA p : Pnl(p) > 0)
      losses == SelectSeq(First(By(moved, LAMBDA p : -Pnl(p)), 5), LAMBDA p : Pnl(p) < 0)
      named_in(s) == {s[i].symbol : i \in DOMAIN s}
      flagged == [i \in DOMAIN moved |-> [moved[i] EXCEPT !.mover = moved[i].symbol \in named_in(gains) \cup named_in(losses)]]
  IN  By(flagged, LAMBDA p : Or(p.value, 0))

_build_rankings(items) ==
  LET Weight(p) == Or(p.weight, 0)
      Unrealized(p) == Or(p.unrealized, 0)
  IN  [profit_contributors |-> First(SelectSeq(By(items, Pnl), LAMBDA p : Pnl(p) > 0), 10),
       loss_drags |-> First(SelectSeq(By(items, LAMBDA p : -Pnl(p)), LAMBDA p : Pnl(p) < 0), 10),
       top_gainers |-> First(By(items, LAMBDA p : Or(p.change, -9999)), 10),
       top_losers |-> First(By(items, LAMBDA p : -Or(p.change, 9999)), 10),
       top_weights |-> First(By(items, Weight), 10),
       top_unrealized_gains |-> First(SelectSeq(By(items, Unrealized), LAMBDA p : Unrealized(p) > 0), 10),
       top_unrealized_losses |-> First(SelectSeq(By(items, LAMBDA p : -Unrealized(p)), LAMBDA p : Unrealized(p) < 0), 10)]

\* accounts: what is stored by day.  The one before may be of any earlier day.
list_report_dates(accounts, limit) ==
  LET days == SetToSortSeq(DOMAIN accounts, LAMBDA d, e : d > e)
      n == IF limit < 1 THEN 1 ELSE CutTo(limit, 500)
  IN  First(days, n)
_latest_report_date(accounts) ==
  LET dates == list_report_dates(accounts, 1) IN IF dates = <<>> THEN NoValue ELSE dates[1]
NoAccount == [equity |-> NoValue, cash |-> NoValue, stock |-> NoValue, mtm |-> NoValue, twr |-> NoValue]
_fetch_previous_account_snapshot(accounts, day) ==
  LET earlier == {d \in DOMAIN accounts : d < day}
  IN  IF earlier = {} THEN NoAccount ELSE accounts[CHOOSE d \in earlier : \A e \in earlier : e <= d]

_build_overview(account, previous, items) ==
  LET inferred == account.mtm = NoValue /\ account.equity # NoValue /\ previous.equity # NoValue
      pnl == IF inferred THEN account.equity - previous.equity ELSE account.mtm
      rankings == _build_rankings(items)
  IN  [daily_pnl |-> pnl, source |-> IF inferred THEN "equity_delta" ELSE "cnav_mtm",
       daily_return |-> IF account.twr # NoValue THEN account.twr
                        ELSE Rate(pnl, IF previous.equity = NoValue THEN NoValue ELSE Magnitude(previous.equity)),
       total_position_value |-> Or(account.stock, SumOf([i \in DOMAIN items |-> Magnitude(Or(items[i].value, 0))])),
       cash_ratio |-> Rate(account.cash, account.equity),
       lead |-> First(rankings.profit_contributors, 1), drag |-> First(rankings.loss_drags, 1)]

\* A theme is found by a part of the name; the first that fits is taken.
Themes == <<"semiconductor", "platform", "cash", "ev">>
_classify_theme(fits) == IF \E i \in DOMAIN Themes : Themes[i] \in fits THEN Themes[CHOOSE i \in DOMAIN Themes :
                            Themes[i] \in fits /\ \A j \in 1..i - 1 : Themes[j] \notin fits] ELSE "other"
_classify_theme_buckets(items) ==
  [theme \in {_classify_theme(items[i].theme) : i \in DOMAIN items} |->
     LET of == SelectSeq(items, LAMBDA p : _classify_theme(p.theme) = theme)
     IN  SumOf([i \in DOMAIN of |-> Or(of[i].weight, 0)])]

_build_risk_analysis(account, items) ==
  LET heavy == By(items, LAMBDA p : Or(p.weight, 0))
      Weight(s) == SumOf([i \in DOMAIN s |-> Or(s[i].weight, 0)])
      top3 == Weight(First(heavy, 3))
      largest == Weight(First(heavy, 1))
      buckets == _classify_theme_buckets(items)
      tech == SumOf([i \in 1..2 |-> IF Themes[i] \in DOMAIN buckets THEN buckets[Themes[i]] ELSE 0])
      cash == Rate(account.cash, account.equity)
  IN  [largest |-> largest, top3 |-> top3, tech |-> tech, cash_ratio |-> cash,
       flags |-> {f \in {"single", "top3", "tech", "cash"} :
                    CASE f = "single" -> items # <<>> /\ largest >= 250
                      [] f = "top3" -> top3 >= 550
                      [] f = "tech" -> tech >= 500
                      [] f = "cash" -> cash # NoValue /\ cash < 50},
       posture |-> CASE Or(cash, 0) < 150 \/ top3 > 450 -> "attack"
                     [] Or(cash, 0) < 350 /\ Or(cash, 0) >= 150 /\ top3 <= 450 -> "balanced"
                     [] OTHER -> "defence"]

\* The symbols whose public data is read: the six greatest rows, each symbol once.
\* Symbols are numbered in the order of their names, which decides among equals.
FocusLimit == 6
_select_focus_symbols(items, number) ==
  LET score(p) == 1000 * (Magnitude(Pnl(p)) + 200 * Magnitude(Or(p.change, 0)) + 10 * Or(p.weight, 0)
                          + IF p.mover THEN 5000 ELSE 0) + number[p.symbol]
      best == First(By(items, score), FocusLimit)
  IN  Distinct([i \in DOMAIN best |-> best[i].symbol])

----------------------------------------------------------------------------
(* Public data *)

\* Closing prices, oldest first; some are missing.
Known(closes) == SelectSeq(closes, LAMBDA c : c # NoValue)
Moved(from, to) == IF from \in {NoValue, 0} \/ to = NoValue THEN NoValue ELSE ((to - from) * 1000) \div Magnitude(from)
_period_return_percent(closes) == IF Len(closes) < 2 THEN NoValue ELSE Moved(closes[1], closes[Len(closes)])
_single_day_return_percent(closes) ==
  LET known == Known(closes) IN IF Len(known) < 2 THEN NoValue ELSE Moved(known[Len(known) - 1], known[Len(known)])

\* The benchmark that did best is looked for under a name no item has.
_build_benchmark_context(closes, account_return) ==
  LET item(b) == [single_day |-> _single_day_return_percent(closes[b]), period |-> _period_return_percent(closes[b]),
                  excess |-> IF account_return = NoValue \/ _single_day_return_percent(closes[b]) = NoValue THEN NoValue
                             ELSE account_return - _single_day_return_percent(closes[b])]
      items == [b \in DOMAIN closes |-> item(b)]
      candidates == {b \in DOMAIN items : "return_percent" \in DOMAIN items[b]}
  IN  [items |-> items, best_benchmark |-> IF candidates = {} THEN "none" ELSE CHOOSE b \in candidates : TRUE]

PublicFields == {"candles", "quote", "static", "calc", "news", "filings", "topics"}
\* raw: what each of the seven calls returned, or "failed"; a call that failed leaves nothing and a warning.
_build_symbol_public_context(raw) ==
  [context |-> [f \in PublicFields |-> IF raw[f] = "failed" THEN "empty" ELSE raw[f]],
   warnings |-> {f \in PublicFields : raw[f] = "failed"}]

_calculate_unexplained_pnl(pnl, items) == IF pnl = NoValue THEN NoValue ELSE pnl - SumOf([i \in DOMAIN items |-> Pnl(items[i])])

Failed == [failed |-> TRUE]
\* positions: rows by day.  Without rows the day is reviewed all the same.
build_review_context(accounts, positions, day, number) ==
  LET effective == IF day = NoValue THEN _latest_report_date(accounts) ELSE day
      rows == IF effective \in DOMAIN positions THEN positions[effective] ELSE <<>>
      account == accounts[effective]
      items == _build_position_contributions(rows, account)
      overview == _build_overview(account, _fetch_previous_account_snapshot(accounts, effective), items)
  IN  IF effective = NoValue \/ effective \notin DOMAIN accounts THEN Failed
      ELSE [failed |-> FALSE, report_date |-> effective, overview |-> overview, positions |-> items,
            rankings |-> _build_rankings(items), risk |-> _build_risk_analysis(account, items),
            focus |-> _select_focus_symbols(items, number),
            unexplained |-> _calculate_unexplained_pnl(overview.daily_pnl, items),
            warnings |-> {w \in {"no_positions", "row_skipped", "pnl_inferred"} :
                            CASE w = "no_positions" -> rows = <<>>
                              [] w = "row_skipped" -> \E i \in DOMAIN rows : rows[i].symbol = ""
                              [] w = "pnl_inferred" -> overview.source = "equity_delta"}]

----------------------------------------------------------------------------
(* Related assets *)

Chips == <<"NVDA", "AMD", "AVGO", "INTC", "QCOM">>
STRONG_RULES ==
  [MSTR |-> <<"IBIT", "GBTC", "COIN", "BTC">>, XIACY |-> <<"1810.HK", "XPEV", "LI">>, TSLA |-> <<"RIVN", "XPEV", "LI">>,
   AMD |-> <<"SMH", "NVDA", "AVGO", "INTC", "QCOM">>, INTC |-> <<"SMH", "AMD", "NVDA", "QCOM">>,
   QCOM |-> <<"SMH", "AMD", "NVDA", "AVGO">>, SMCI |-> <<"SMH", "NVDA", "AMD", "AVGO">>,
   MSFT |-> <<"QQQ", "XLK", "META", "GOOGL", "AMZN">>, META |-> <<"QQQ", "XLK", "MSFT", "GOOGL", "AMZN">>,
   IBKR |-> <<"XLF", "HOOD", "SCHW">>]
\* In the order of the rules.
THEME_RULES ==
  <<[theme |-> "semiconductor", assets |-> <<"SMH", "SOXX", "NVDA", "AMD", "AVGO">>],
    [theme |-> "mega_cap_tech", assets |-> <<"QQQ", "XLK", "MSFT", "GOOGL", "META", "AMZN">>],
    [theme |-> "ev", assets |-> <<"TSLA", "XPEV", "LI", "NIO", "DRIV">>],
    [theme |-> "crypto", assets |-> <<"IBIT", "GBTC", "COIN", "MSTR">>],
    [theme |-> "broker", assets |-> <<"XLF", "SCHW", "HOOD", "IBKR">>]>>
_is_industry_etf(s) == s \in {"SMH", "SOXX", "QQQ", "XLK", "XLF", "DRIV", "IBIT", "GBTC", "HOOD", "SCHW"}
_is_core_peer(s) == s \in {"NVDA", "AMD", "AVGO", "INTC", "QCOM", "XPEV", "LI", "NIO", "RIVN",
                           "META", "MSFT", "GOOGL", "AMZN", "COIN", "IBIT", "GBTC", "1810.HK"}
_is_special_proxy(s) == s \in {"BTC", "IBIT", "GBTC", "COIN"}

\* The themes that the letters of a symbol call for.
_extract_theme_keywords(s) ==
  CASE s \in {"AMD", "NVDA", "INTC", "QCOM"} -> {"semiconductor"}
    [] s \in {"COIN", "GBTC", "IBIT"} -> {"crypto"}
    [] s \in {"XPEV", "LI", "NIO"} -> {"ev"}
    [] s \in {"IBKR", "SCHW", "HOOD"} -> {"broker"}
    [] OTHER -> {}

Candidate(s, relation) == [symbol |-> s, relation |-> relation]
_discover_candidates(s) ==
  LET strong == IF s \in DOMAIN STRONG_RULES THEN STRONG_RULES[s] ELSE <<>>
      relation(a) == IF _is_special_proxy(a) THEN "crypto_proxy" ELSE IF _is_industry_etf(a) THEN "industry_etf" ELSE "strong_business"
      themes == SelectSeq(THEME_RULES, LAMBDA t : t.theme \in _extract_theme_keywords(s))
      themed == FlattenSeq([i \in DOMAIN themes |-> themes[i].assets])
      known == {strong[i] : i \in DOMAIN strong} \cup {s}
      more == SelectSeq(Distinct(themed), LAMBDA a : a \notin known)
  IN  [i \in DOMAIN strong |-> Candidate(strong[i], relation(strong[i]))] \o [i \in DOMAIN more |-> Candidate(more[i], "same_theme")]

MAX_RELATED_ASSETS == 5
MAX_CORE_PEERS == 3
\* hit: whether the industry of the symbol itself holds one of the keywords, for whichever candidate.
ScoreOf(c, hit) ==
  (CASE c.relation \in {"crypto_proxy", "strong_business"} -> 50 [] c.relation = "industry_etf" -> 30 [] OTHER -> 20)
  + (IF _is_core_peer(c.symbol) THEN 25 ELSE 0) + (IF hit THEN 10 ELSE 0)
Confidence(score) == IF score >= 60 THEN "high" ELSE IF score >= 30 THEN "medium" ELSE "low"
_score_candidates(candidates, hit) ==
  LET add(kept, c) == IF Confidence(ScoreOf(c, hit)) = "low" /\ Len(kept) >= MAX_RELATED_ASSETS THEN kept ELSE Append(kept, c)
  IN  By(FoldLeft(add, <<>>, candidates), LAMBDA c : ScoreOf(c, hit))

\* A fund is never refused; of the peers three, of the other proxies one, except for MSTR.
_select_assets(s, scored) ==
  LET Peer(a) == _is_core_peer(a) /\ ~_is_industry_etf(a)
      Proxy(a) == _is_special_proxy(a) /\ ~_is_core_peer(a) /\ ~_is_industry_etf(a)
      count(kept, Kind(_)) == Len(SelectSeq(kept, LAMBDA c : Kind(c.symbol) /\ ~(s = "MSTR" /\ _is_special_proxy(c.symbol))))
      admits(kept, a) == \/ s = "MSTR" /\ _is_special_proxy(a)
                         \/ ~(Peer(a) /\ count(kept, Peer) >= MAX_CORE_PEERS) /\ ~(Proxy(a) /\ count(kept, Proxy) >= 1)
      add(kept, c) == IF Len(kept) < MAX_RELATED_ASSETS /\ admits(kept, c.symbol) THEN Append(kept, c) ELSE kept
  IN  FoldLeft(add, <<>>, scored)

\* What is fetched for one; only a quote or news that are missing are told.
_fetch_asset_data(readable) ==
  [data_quality |-> IF "quote" \in readable THEN "high" ELSE "medium", limitations |-> {"quote", "news"} \ readable]
build_related_asset_context(s, hit, readable) ==
  LET selected == _select_assets(s, _score_candidates(_discover_candidates(s), hit))
  IN  [assets |-> [i \in DOMAIN selected |-> selected[i].symbol],
       relation_types |-> {selected[i].relation : i \in DOMAIN selected},
       limitations |-> UNION {_fetch_asset_data(readable).limitations : i \in DOMAIN selected}]

----------------------------------------------------------------------------
(* Cards *)

CardLimit == 6
Linked == {"MSTR", "XIACY", "TSLA", "AMD", "INTC", "QCOM", "SMCI", "MSFT", "META", "GOOGL", "AMZN"}
_is_special_linkage_symbol(s) == s \in Linked
_select_focus_symbols_for_cards(items, limit) ==
  LET change(p) == Magnitude(Or(p.change, 0))
      score(p) == Magnitude(Pnl(p)) + 10 * Or(p.weight, 0)
                  + (IF change(p) > 5 THEN 3000 ELSE IF change(p) > 3 THEN 1500 ELSE 0)
                  + (IF p.mover THEN 5000 ELSE 0) + (IF _is_special_linkage_symbol(p.symbol) THEN 4000 ELSE 0)
      add(kept, p) == IF \E i \in DOMAIN kept : kept[i].symbol = p.symbol THEN kept ELSE Append(kept, p)
  IN  First(FoldLeft(add, <<>>, By(items, score)), limit)

\* A model's answer about a symbol: a profit or none, a quality or something else.
_to_symbol_card(answer, item) ==
  [symbol |-> item.symbol, pnl |-> Or(answer.pnl, item.pnl), drivers |-> answer.drivers, limitations |-> answer.limitations,
   quality |-> IF answer.quality \in {"high", "medium", "low"} THEN answer.quality ELSE "medium", traced |-> TRUE]
build_fallback_symbol_card(item) ==
  [symbol |-> item.symbol, pnl |-> item.pnl, drivers |-> <<>>, limitations |-> 1, quality |-> "low", traced |-> FALSE]

\* answers: what the agent returns for a symbol, or "raises"; the cards are in the order in which the calls end.
_generate_symbol_cards_parallel(order, answers) ==
  [i \in DOMAIN order |-> IF answers[order[i].symbol].ok THEN _to_symbol_card(answers[order[i].symbol], order[i])
                          ELSE build_fallback_symbol_card(order[i])]
symbol_cards_node(focus, configured, order, answers) ==
  CASE focus = <<>> -> [cards |-> <<>>, mode |-> "unavailable"]
    [] focus # <<>> /\ ~configured ->
         [cards |-> [i \in DOMAIN focus |-> build_fallback_symbol_card(focus[i])], mode |-> "unavailable"]
    [] OTHER -> [cards |-> _generate_symbol_cards_parallel(order, answers), mode |-> "subagent"]

\* News by keyword: the items of each, newest twenty, one of each; a keyword that fails is left out.
_fetch_macro_news_context(found) ==
  LET all == UNION {found[k].items : k \in {j \in DOMAIN found : found[j].ok}}
  IN  {n \in all : Cardinality({m \in all : m.time > n.time}) < 20}

MacroCard(regime, limitations) == [regime |-> regime, limitations |-> limitations]
build_fallback_macro_card == MacroCard("none", 1)
macro_card_node(configured, answer) == IF configured /\ answer.ok THEN MacroCard(answer.regime, answer.limitations) ELSE build_fallback_macro_card

\* The pack has its own account of the data's quality and its warnings are always empty.
Low(cards) == Len(SelectSeq(cards, LAMBDA c : c.quality = "low"))
build_card_pack_node(cards, macro) ==
  [cards |-> cards, macro |-> macro, warnings |-> {}, benchmarks |-> {},
   overall |-> CASE Low(cards) > Len(cards) \div 2 -> "low" [] Low(cards) = 0 -> "high" [] OTHER -> "medium"]
compute_card_pack_summary(pack) ==
  [symbol_count |-> Len(pack.cards), fallback_card_count |-> Low(pack.cards), quality |-> pack.overall,
   key_drivers |-> First(FlattenSeq([i \in DOMAIN pack.cards |-> First(pack.cards[i].drivers, 2)]), 6),
   limitations |-> SumOf([i \in DOMAIN pack.cards |-> pack.cards[i].limitations]) + pack.macro.limitations]

\* What the rules watch: the movers of more than five percent, and how much cash there is.
risk_watch_node(context) ==
  [movers |-> {context.positions[i].symbol : i \in {j \in DOMAIN context.positions : Magnitude(Or(context.positions[j].change, 0)) > 5}},
   low_cash |-> context.overview.cash_ratio # NoValue /\ context.overview.cash_ratio < 50,
   flags |-> context.risk.flags]
portfolio_attribution_node(context) ==
  [contributors |-> First(context.rankings.profit_contributors, 5), drags |-> First(context.rankings.loss_drags, 5),
   daily_pnl |-> context.overview.daily_pnl]

----------------------------------------------------------------------------
(* The review *)

\* A text is empty, what the rules would write, or something else.
TextFields == {"summary", "account_conclusion", "attribution_summary", "market_context", "risk_analysis", "operation_observation"}
_build_fallback_review_payload(context) ==
  LET weights == First(context.rankings.top_weights, 5)
      focus == First(context.focus, 5)
  IN  [texts |-> [f \in TextFields |-> IF f \in {"summary", "account_conclusion"} THEN "rules" ELSE "other"],
       watch |-> IF focus # <<>> THEN focus ELSE [i \in DOMAIN weights |-> weights[i].symbol],
       major_contributors |-> First(context.rankings.profit_contributors, 5), limitations |-> {"parse_error", "rules_only"}]

\* The text is filled where it is missing, and said to be filled where it reads as the filling.
normalize_daily_position_review_output(texts, date, expected, forceful) ==
  IF date # expected THEN Failed
  ELSE LET filled == [f \in TextFields |-> IF texts[f] = "" THEN "rules" ELSE texts[f]]
       IN  [failed |-> FALSE, texts |-> filled, notes |-> {f \in TextFields : filled[f] = "rules"}, softened |-> forceful]

_coerce_positive_int(value, default) == IF value = NoValue \/ value <= 0 THEN default ELSE value

\* The document: when it was created is what it says itself, when it was read before is of no use.
save_review(document, existing, now) ==
  [created_at |-> Or(document.created_at, Or(existing, now)), updated_at |-> now]
\* Cards without the trace of a structured answer are not kept.
_compact_subagent_card_pack(pack) == SelectSeq(pack.cards, LAMBDA c : c.traced)
_compact_context_value(items) == First(items, 30)
\* Of the context five of each ranking; where it is too long for its budget it is a text
\* without parts, and then the page gets no context at all.
_compact_context_for_storage(context, fits) ==
  IF fits THEN [k \in {"profit_contributors", "loss_drags", "top_weights"} |-> First(context.rankings[k], 5)] ELSE Failed
_compact_display_context(stored) ==
  IF stored = Failed THEN Failed ELSE [k \in DOMAIN stored |-> _compact_context_value(stored[k])]
_compact_analysis_items(items) == First(items, 20)

----------------------------------------------------------------------------
(* The snapshot *)

SnapshotLimit == 50
_fetch_trades_today(trades, day) ==
  LET hits == SelectSeq(trades, LAMBDA t : t.day = day)
  IN  [items |-> First(hits, SnapshotLimit), truncated |-> Len(hits) > SnapshotLimit, total_count |-> Len(hits),
       included_count |-> CutTo(Len(hits), SnapshotLimit)]
_fetch_trade_summary(trades, day) ==
  LET hits == SelectSeq(trades, LAMBDA t : t.day = day)
  IN  [trade_count |-> Len(hits), buy_count |-> Len(SelectSeq(hits, LAMBDA t : t.side = "BUY")),
       sell_count |-> Len(SelectSeq(hits, LAMBDA t : t.side = "SELL"))]

\* A flow belongs to a day by either of its dates.
_fetch_cash_flows_today(flows, day) == SelectSeq(flows, LAMBDA f : f.report_date = day \/ f.day = day)
CategoryOf(type) ==
  CASE type \in {"dividend", "payment_in_lieu"} -> "dividend" [] type = "withholding_tax" -> "withholding_tax"
    [] type = "interest" -> "interest" [] type \in {"fee", "commission"} -> "fee" [] OTHER -> "other"
Categories == {"dividend", "withholding_tax", "interest", "fee", "other"}
AmountOf(flows, Is(_)) == LET some == SelectSeq(flows, Is) IN SumOf([i \in DOMAIN some |-> some[i].amount])
_fetch_cash_flow_summary(flows, day) ==
  LET of == _fetch_cash_flows_today(flows, day)
      currencies == {of[i].currency : i \in DOMAIN of}
      by(c) == [x \in Categories \cup {"deposit", "withdrawal"} |->
        IF x \in Categories THEN AmountOf(of, LAMBDA f : f.currency = c /\ CategoryOf(f.type) = x)
        ELSE AmountOf(of, LAMBDA f : f.currency = c /\ f.direction = x)]
  IN  [record_count |-> Len(of), by_currency |-> [c \in currencies |-> by(c)], mixed_currency |-> Cardinality(currencies) > 1,
       total |-> [x \in Categories \cup {"deposit", "withdrawal"} |-> SumOf([i \in DOMAIN SetToSeq(currencies) |-> by(SetToSeq(currencies)[i])[x]])]]
----------------------------------------------------------------------------
(* What follows, over small accounts *)

Row(s, value, change) == [symbol |-> s, quantity |-> NoValue, price |-> NoValue, value |-> value, nav |-> NoValue,
                          change |-> change, unrealized |-> NoValue, theme |-> {}]
Account(equity, cash, mtm) == [equity |-> equity, cash |-> cash, stock |-> NoValue, mtm |-> mtm, twr |-> NoValue]
Codes == <<"AMD", "GOOGL", "IBM", "KO", "MSTR", "PFE", "T", "XOM">>
Number == [s \in {Codes[i] : i \in DOMAIN Codes} |-> CHOOSE i \in DOMAIN Codes : Codes[i] = s]
RowSets == {[i \in 1..n |-> Row(Codes[i], values[i], changes[i])] :
              n \in 0..3, values \in [1..3 -> {NoValue, 100, 4000}], changes \in [1..3 -> {NoValue, -100, -20, 25}]}
ContextOf(rows, account) == build_review_context([d \in {1} |-> account], [d \in {1} |-> rows], 1, Number)

\* Every gain and loss of the day is listed on its side and the rest is what the account
\* made beyond them; a position that lost everything counts as unexplained, whatever it
\* was worth (daily_position_review_service.py:268-316, 586-590).
ASSUME DayAddsUp ==
  \A rows \in RowSets :
    LET c == ContextOf(rows, Account(10000, 500, 300))
        gain == SumOf([i \in DOMAIN c.rankings.profit_contributors |-> c.rankings.profit_contributors[i].pnl])
        loss == SumOf([i \in DOMAIN c.rankings.loss_drags |-> c.rankings.loss_drags[i].pnl])
    IN  /\ c.unexplained = 300 - gain - loss
        /\ \A i \in DOMAIN rows : rows[i].change = -100 => \A p \in {c.positions[j] : j \in DOMAIN c.positions} :
             p.symbol = rows[i].symbol => p.pnl = NoValue /\ ~p.mover
        /\ c.risk.top3 >= c.risk.largest /\ c.risk.largest * Len(c.positions) >= c.risk.top3

\* The daily result that an account without one is given is the change since whichever
\* day was stored before, a week ago as well as yesterday (:218-231, 325-329).
ASSUME InferredSpansTheGap ==
  \A gap \in 1..8 : \A then \in {800, 1000} :
    LET accounts == [d \in {10 - gap, 10} |-> IF d = 10 THEN Account(1000, 0, NoValue) ELSE Account(then, 0, 5)]
        c == build_review_context(accounts, [d \in {10} |-> <<>>], NoValue, Number)
    IN  c.report_date = 10 /\ c.overview.daily_pnl = 1000 - then /\ c.warnings = {"no_positions", "pnl_inferred"}

\* An account whose cash is not known is never warned of having little, and is always
\* said to attack (:402-413).
ASSUME UnknownCashAttacks ==
  \A rows \in {r \in RowSets : Len(r) < 3} : \A cash \in {NoValue, 100, 2000, 8000} :
    LET r == ContextOf(rows, Account(10000, cash, 0)).risk
    IN  /\ cash = NoValue => "cash" \notin r.flags /\ r.posture = "attack"
        /\ r.posture = "defence" => "cash" \notin r.flags /\ r.top3 <= 450

\* No benchmark is ever the best one; the return of a day is that of the last two prices
\* there are, whatever the days (:494-508, 596-607).
ASSUME NoBenchmarkIsBest ==
  \A a, b, c \in {NoValue, 0, 100, 150} :
    LET r == _build_benchmark_context([SPY |-> <<a, b, c>>, QQQ |-> <<b, c>>], 10)
    IN  /\ r.best_benchmark = "none"
        /\ c = NoValue => r.items["SPY"].single_day = _single_day_return_percent(<<a, b>>)

\* Public data is read for six rows, cards are made for six symbols chosen otherwise: with
\* a symbol in two rows or a linked symbol a card is asked for without any data
\* (daily_position_review_service.py:464-475, daily_review_evidence_card_builder.py:80-140, nodes.py:296-297).
Eight(change) == [i \in 1..8 |-> Row(Codes[i], 1000 - 100 * i, IF Codes[i] \in {"MSTR"} THEN 0 ELSE change)]
Chosen(c) == LET cards == _select_focus_symbols_for_cards(c.positions, CardLimit) IN {cards[i].symbol : i \in DOMAIN cards}
Read(c) == {c.focus[i] : i \in DOMAIN c.focus}
ASSUME CardsOutrunTheData ==
  LET eight == ContextOf(Eight(10), Account(100000, 500, 0))
      twice == ContextOf(<<Row("IBM", 900, 5), Row("IBM", 800, 5)>> \o Eight(4), Account(100000, 500, 0))
  IN  /\ Cardinality(Read(eight)) = 6 /\ Cardinality(Chosen(eight)) = 6 /\ ~Chosen(eight) \subseteq Read(eight)
      /\ Cardinality(Read(twice)) < 6 /\ Cardinality(Chosen(twice)) = 6

Universe == DOMAIN STRONG_RULES \cup UNION {{THEME_RULES[i].assets[j] : j \in DOMAIN THEME_RULES[i].assets} : i \in DOMAIN THEME_RULES}
\* The related assets are others, at most five, the best known first, at most three of
\* them peers; what a technology platform has no rule for has none, since no symbol
\* calls for that theme (daily_review_related_asset_service.py:191-335).
ASSUME RelatedAreOthers ==
  \A s \in Universe : \A hit \in BOOLEAN :
    LET r == build_related_asset_context(s, hit, {"quote", "news"})
        scored == _score_candidates(_discover_candidates(s), hit)
        peers == SelectSeq(r.assets, LAMBDA a : _is_core_peer(a) /\ ~_is_industry_etf(a))
    IN  /\ ~Contains(r.assets, s) /\ IsInjective(r.assets) /\ Len(r.assets) <= MAX_RELATED_ASSETS
        /\ Len(peers) <= MAX_CORE_PEERS /\ r.limitations = {}
        /\ \A i, j \in DOMAIN scored : i < j => ScoreOf(scored[i], hit) >= ScoreOf(scored[j], hit)
        /\ (r.assets = <<>>) = (s \notin DOMAIN STRONG_RULES /\ _extract_theme_keywords(s) = {})
        /\ s \in {"GOOGL", "AMZN"} => r.assets = <<>>
\* Every proxy of MSTR is kept (:297-308).
ASSUME ProxiesKept == \A hit \in BOOLEAN :
  {"IBIT", "GBTC", "COIN", "BTC"} = {build_related_asset_context("MSTR", hit, {}).assets[i] : i \in 1..4}

Answers == [ok |-> BOOLEAN, pnl |-> {NoValue, 7}, quality |-> {"high", "low", "unsure"}]
AnswerSet == {[ok |-> ok, pnl |-> pnl, quality |-> q, drivers |-> <<"d", "e", "f">>, limitations |-> 0] :
                ok \in Answers.ok, pnl \in Answers.pnl, q \in Answers.quality}
Items == <<[symbol |-> "AMD", pnl |-> 5], [symbol |-> "IBM", pnl |-> -3], [symbol |-> "KO", pnl |-> NoValue]>>
\* Each symbol gets one card however the calls end; what a failed one says of the account
\* is the broker's, what an answered one says may be the model's; the stored pack keeps
\* the answered ones only (nodes.py:270-340, daily_review_symbol_evidence_agent.py:268-281,
\* daily_position_review_repository.py:178-194).
ASSUME OneCardEach ==
  \A answers \in [{"AMD", "IBM", "KO"} -> AnswerSet] : \A order \in {Items, Reverse(Items)} :
    LET cards == symbol_cards_node(Items, TRUE, order, answers).cards
        pack == build_card_pack_node(cards, macro_card_node(TRUE, [ok |-> TRUE, regime |-> "mixed", limitations |-> 2]))
        kept == _compact_subagent_card_pack(pack)
    IN  /\ \A i \in DOMAIN Items : \E j \in DOMAIN cards :
             /\ cards[j].symbol = Items[i].symbol
             /\ cards[j].pnl = IF answers[Items[i].symbol].ok THEN Or(answers[Items[i].symbol].pnl, Items[i].pnl) ELSE Items[i].pnl
        /\ Len(cards) = 3 /\ {kept[i].symbol : i \in DOMAIN kept} = {s \in DOMAIN answers : answers[s].ok}
        /\ compute_card_pack_summary(pack).fallback_card_count >= 3 - Len(kept)
        /\ (pack.overall = "low") = (Low(cards) >= 2)
\* A day without cards has evidence of high quality (nodes.py:566-572).
ASSUME NoCardsAreHigh ==
  LET pack(n) == build_card_pack_node([i \in 1..n |-> build_fallback_symbol_card(Items[i])], build_fallback_macro_card)
  IN  pack(0).overall = "high" /\ \A n \in 1..3 : pack(n).overall = "low"

\* What was filled once is said to be filled again; the review of the rules is never
\* refused for its day (invariants.py:326-356).
ASSUME FillingIsTold ==
  \A texts \in [TextFields -> {"", "rules", "other"}] : \A date \in 1..2 :
    LET n == normalize_daily_position_review_output(texts, date, 1, FALSE)
    IN  /\ (n = Failed) = (date # 1)
        /\ date = 1 => /\ \A f \in TextFields : n.texts[f] # ""
                       /\ normalize_daily_position_review_output(n.texts, 1, 1, FALSE) = n

Flow(report, day, type, direction, currency) ==
  [report_date |-> report, day |-> day, type |-> type, direction |-> direction, currency |-> currency, amount |-> 10]
FlowTypes == {<<"dividend", "none">>, <<"withholding_tax", "none">>, <<"deposits", "deposit">>, <<"fee", "none">>}
Flows == {<<Flow(1, d1, t1[1], t1[2], "USD"), Flow(2, d2, t2[1], t2[2], c)>> :
            d1 \in 1..2, d2 \in 1..2, t1 \in FlowTypes, t2 \in FlowTypes, c \in {"USD", "HKD"}}
\* The categories of a day add up to its flows and deposits are counted once more; a flow
\* with two dates is in the snapshots of both (daily_account_snapshot_service.py:216-352).
ASSUME FlowsByCategory ==
  \A flows \in Flows : \A day \in 1..2 :
    LET r == _fetch_cash_flow_summary(flows, day)
        known == SumOf([i \in 1..5 |-> r.total[<<"dividend", "withholding_tax", "interest", "fee", "other">>[i]]])
    IN  /\ known = 10 * r.record_count /\ r.total["deposit"] <= r.total["other"]
        /\ \A i \in 1..2 : flows[i].report_date # flows[i].day => Contains(_fetch_cash_flows_today(flows, day), flows[i])

\* A list of a snapshot that is cut says so, its summary counts everything (:142-208).
ASSUME CutIsTold ==
  \A n \in {0, 1, 49, 50, 51} :
    LET trades == [i \in 1..n |-> [day |-> 1, side |-> IF i % 2 = 0 THEN "BUY" ELSE "SELL"]]
        t == _fetch_trades_today(trades, 1)
        sum == _fetch_trade_summary(trades, 1)
    IN  /\ Len(t.items) = t.included_count /\ t.truncated = (Len(t.items) < t.total_count)
        /\ sum.trade_count = t.total_count /\ sum.buy_count + sum.sell_count = sum.trade_count
==============================================================================
