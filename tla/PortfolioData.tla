---------------------------- MODULE PortfolioData ----------------------------
(***************************************************************************)
(* What the pages of the portfolio are shown: positions, a symbol's bars   *)
(* (position_service.py), the curve and the calendars of performance       *)
(* (chart_service.py), the overview (account_service.py), trades, flows of *)
(* cash and dividends (trade_service.py, cash_flow_service.py,             *)
(* dividend_service.py).  The index is a sequence of rows: what a query    *)
(* cannot order it leaves in that order.                                   *)
(*                                                                         *)
(* Amounts and prices are whole cents, percentages hundredths of one, a    *)
(* date is the number yyyymmdd.                                            *)
(***************************************************************************)
EXTENDS Integers, Sequences, FiniteSets, SequencesExt

Absent == -999999999  \* for a number or a date: None
Filled(x) == IF x = Absent THEN 0 ELSE x
Abs(x) == IF x < 0 THEN -x ELSE x
Highest(S) == CHOOSE x \in S : \A y \in S : y <= x
Lowest(S)  == CHOOSE x \in S : \A y \in S : x <= y
Elements(s) == {s[i] : i \in DOMAIN s}
Column(s, field) == [i \in DOMAIN s |-> s[i][field]]
SumOf(s, field) == FoldLeft(LAMBDA n, r : n + Filled(r[field]), 0, s)
FirstOf(s, n) == SubSeq(s, 1, Lowest({n, Len(s)}))

----------------------------------------------------------------------------
(* Queries *)

build_pagination(page, size, most) ==
  LET n == Lowest({Highest({size, 1}), most}) IN [from |-> (Highest({page, 1}) - 1) * n, size |-> n]
build_pagination_info(page, size, total) ==
  [page |-> page, page_size |-> size, total |-> total,
   total_pages |-> IF total = 0 THEN 0 ELSE (total + size - 1) \div size]

\* A row without the field comes last in either order.
build_sort_clause(rows, field, order) ==
  LET before(i, j) ==
        LET x == rows[i][field]
            y == rows[j][field]
        IN  IF Absent \in {x, y} THEN x # Absent /\ y = Absent ELSE IF order = "asc" THEN x < y ELSE x > y
      rank == SortSeq([i \in DOMAIN rows |-> i], LAMBDA i, j : before(i, j) \/ (~before(j, i) /\ i < j))
  IN  [k \in DOMAIN rows |-> rows[rank[k]]]

build_date_range_filter(x, start, end) ==
  /\ {start, end} # {Absent} => x # Absent
  /\ start # Absent => x >= start
  /\ end # Absent => x <= end
build_term_filter(x, value) == value = "" \/ x = value

build_search_body(rows, page, size, most) ==
  LET p == build_pagination(page, size, most) IN SubSeq(rows, p.from + 1, Lowest({p.from + p.size, Len(rows)}))

_get_latest_report_date(rows) == IF rows = <<>> THEN Absent ELSE Highest(Elements(Column(rows, "date")))
_get_earliest_report_date(rows) == IF rows = <<>> THEN Absent ELSE Lowest(Elements(Column(rows, "date")))

----------------------------------------------------------------------------
(* Positions *)

Key(row) == <<row.account, row.class, row.symbol>>
KeysOf(rows) == {k \in {Key(rows[i]) : i \in DOMAIN rows} : "" \notin {k[1], k[2], k[3]}}
TradesOf(k, trades, date) == SelectSeq(trades, LAMBDA t : Key(t) = k /\ t.date # Absent /\ t.date <= date)

_calculate_percentage(part, whole) ==
  IF part = Absent \/ whole \in {Absent, 0} THEN Absent ELSE (part * 10000) \div Abs(whole)

_fetch_trade_realized_pnl_lookup(rows, trades, date) ==
  [k \in {j \in KeysOf(rows) : TradesOf(j, trades, date) # <<>>} |-> SumOf(TradesOf(k, trades, date), "realized")]

\* A gain that is stored is kept; one that is missing is that of the trades, or nothing.
_apply_trade_realized_pnl(rows, trades, date) ==
  LET lookup == _fetch_trade_realized_pnl_lookup(SelectSeq(rows, LAMBDA r : r.realized = Absent), trades, date)
      found(r) == IF Key(r) \in DOMAIN lookup THEN lookup[Key(r)] ELSE 0
  IN  [i \in DOMAIN rows |->
        LET r == rows[i] IN
        IF r.realized = Absent
        THEN [r EXCEPT !.realized = found(r), !.percent = _calculate_percentage(found(r), r.cost)]
        ELSE [r EXCEPT !.percent = IF @ = Absent THEN _calculate_percentage(r.realized, r.cost) ELSE @]]

\* The holding that is running began after the last trade that brought it to nothing.
_calculate_current_period_trade_cost(trades) ==
  LET sold == {i \in DOMAIN trades : trades[i].quantity # Absent /\ SumOf(SubSeq(trades, 1, i), "quantity") = 0}
      current == SubSeq(trades, Highest(sold \cup {0}) + 1, Len(trades))
  IN  [cash |-> SumOf(current, "net_cash"), quantity |-> SumOf(current, "quantity"),
       count |-> Cardinality({i \in DOMAIN current : current[i].net_cash # Absent})]

_fetch_trade_cost_lookup(rows, trades, date) ==
  [k \in {j \in KeysOf(rows) : TradesOf(j, trades, date) # <<>>} |->
     _calculate_current_period_trade_cost(build_sort_clause(TradesOf(k, trades, date), "date", "asc"))]

DilutedCost(row, lookup) ==
  LET without(status) == [amount |-> Absent, price |-> Absent, status |-> status] IN
  CASE Filled(row.quantity) = 0 -> without("INVALID_QUANTITY")
    [] Filled(row.quantity) # 0 /\ Key(row) \notin DOMAIN lookup -> without("NO_TRADE_HISTORY")
    [] OTHER -> LET cost == lookup[Key(row)] IN
         IF cost.count = 0 THEN without("NO_TRADE_HISTORY")
         ELSE IF 20 * Abs(cost.quantity - row.quantity) > Abs(row.quantity) THEN without("QUANTITY_MISMATCH")
         ELSE [amount |-> -cost.cash, price |-> (-cost.cash) \div row.quantity, status |-> "OK"]
_apply_diluted_cost(rows, trades, date) ==
  LET lookup == _fetch_trade_cost_lookup(rows, trades, date)
  IN  [i \in DOMAIN rows |-> rows[i] @@ [diluted |-> DilutedCost(rows[i], lookup)]]

_build_position_summary_aggs(rows) ==
  [value |-> SumOf(rows, "value"), cost |-> SumOf(rows, "cost"), realized |-> SumOf(rows, "realized"),
   unrealized |-> SumOf(rows, "unrealized"),
   distribution |-> [c \in Elements(Column(rows, "class")) |-> SumOf(SelectSeq(rows, LAMBDA r : r.class = c), "value")]]
\* shown: the rows of the answer; all: those the query counts.
_build_positions_summary(date, shown, all) ==
  _build_position_summary_aggs(all) @@ [date |-> date, total |-> Len(all), top |-> Column(FirstOf(shown, 5), "symbol")]

Matching(rows, q) ==
  SelectSeq(rows, LAMBDA r : build_term_filter(r.symbol, q.symbol) /\ build_term_filter(r.class, q.class))
OnDate(rows, q) ==
  LET date == IF q.date # Absent THEN q.date ELSE _get_latest_report_date(rows)
  IN  [date |-> date, rows |-> SelectSeq(Matching(rows, q), LAMBDA r : r.date = date)]

list_positions(rows, trades, q) ==
  IF q.date = Absent /\ rows = <<>>
  THEN [items |-> <<>>, pagination |-> build_pagination_info(q.page, q.size, 0), summary |-> <<>>]
  ELSE LET found == OnDate(rows, q)
           shown == build_search_body(build_sort_clause(found.rows, q.by, q.order), q.page, q.size, 200)
           priced == _apply_diluted_cost(_apply_trade_realized_pnl(shown, trades, found.date), trades, found.date)
       IN  [items |-> priced,
            pagination |-> build_pagination_info(q.page, Lowest({q.size, 200}), Len(found.rows)),
            summary |-> IF q.summary THEN <<_build_positions_summary(found.date, priced, found.rows)>> ELSE <<>>]

get_positions_summary(rows, q) ==
  LET found == OnDate(rows, q)
  IN  _build_positions_summary(found.date, FirstOf(build_sort_clause(found.rows, "value", "desc"), 5), found.rows)

----------------------------------------------------------------------------
(* The bars of one symbol *)

Prices(S) == S \ {Absent}
HighOf(S) == IF Prices(S) = {} THEN Absent ELSE Highest(Prices(S))
LowOf(S)  == IF Prices(S) = {} THEN Absent ELSE Lowest(Prices(S))
TradedAt(trades, date) ==
  Column(SelectSeq(trades, LAMBDA t : t.date = date /\ t.date # Absent /\ t.price # Absent), "price")

\* A day's range is stretched over its trades; without trades it is what was stored.
PriceBar(row, points) ==
  LET all == {row.open, row.close, row.high, row.low} \cup Elements(points)
  IN  IF points = <<>> THEN row ELSE [row EXCEPT !.high = HighOf(all), !.low = LowOf(all)]
\* A position knows the day's open and mark only.
PositionBar(row, points) ==
  LET all == {row.open, row.close} \cup Elements(points) IN [row EXCEPT !.high = HighOf(all), !.low = LowOf(all)]
TradeBar(date, points) ==
  [date |-> date, open |-> points[1], high |-> HighOf(Elements(points)), low |-> LowOf(Elements(points)),
   close |-> points[Len(points)]]

\* A thousand rows of each kind, the oldest.
DetailLimit == 1000
get_position_detail(prices, positions, trades) ==
  LET oldest(rows) == FirstOf(build_sort_clause(rows, "date", "asc"), DetailLimit)
      traded == oldest(trades)
      days == IF prices # <<>> THEN oldest(prices) ELSE oldest(positions)
      bar(r) == IF prices # <<>> THEN PriceBar(r, TradedAt(traded, r.date)) ELSE PositionBar(r, TradedAt(traded, r.date))
      more == {t.date : t \in {x \in Elements(traded) : x.date # Absent /\ x.price # Absent}} \ Elements(Column(days, "date"))
      bars == [i \in DOMAIN days |-> bar(days[i])]
              \o [i \in 1 .. Cardinality(more) |-> TradeBar(SetToSeq(more)[i], TradedAt(traded, SetToSeq(more)[i]))]
  IN  [bars |-> build_sort_clause(bars, "date", "asc"), trades |-> traded,
       named_by |-> IF prices # <<>> THEN "prices" ELSE IF positions # <<>> THEN "positions" ELSE "trades"]

----------------------------------------------------------------------------
(* The curve of the account *)

YearOf(d)  == d \div 10000
MonthOf(d) == d \div 100  \* yyyymm
Leap(y)    == y % 4 = 0 /\ (y % 100 # 0 \/ y % 400 = 0)
DaysIn(m)  == CASE m % 100 \in {4, 6, 9, 11} -> 30
                [] m % 100 = 2 -> IF Leap(m \div 100) THEN 29 ELSE 28
                [] OTHER -> 31
_month_end(m) == 100 * m + DaysIn(m)
Previous(m) == IF m % 100 = 1 THEN m - 89 ELSE m - 1
Following(m) == IF m % 100 = 12 THEN m + 89 ELSE m + 1

InRange(rows, field, start, end) == SelectSeq(rows, LAMBDA r : build_date_range_filter(r[field], start, end))
EffectiveDate(f) == IF f.settle # Absent THEN f.settle ELSE IF f.report # Absent THEN f.report ELSE f.when

DEPOSIT_WITHDRAWAL_FLOW_TYPE == "Deposits/Withdrawals"
\* Chosen and ordered by the time of the flow, though it counts on the day it settles.
_get_cash_flow_response(flows, account, start, end) ==
  build_sort_clause(SelectSeq(InRange(flows, "when", start, end),
                              LAMBDA f : f.account = account /\ f.type = DEPOSIT_WITHDRAWAL_FLOW_TYPE), "when", "asc")

\* The running sums of dated amounts, one point for the neighbours of the same date.
Running(s) ==
  LET ends == {i \in DOMAIN s : i = Len(s) \/ s[i + 1].date # s[i].date}
      last == SetToSortSeq(ends, LAMBDA i, j : i < j)
  IN  [k \in DOMAIN last |-> [date |-> s[last[k]].date, amount |-> SumOf(SubSeq(s, 1, last[k]), "amount")]]
\* In the base currency.
_build_net_cost_curve(flows) == Running([i \in DOMAIN flows |-> [date |-> EffectiveDate(flows[i]), amount |-> flows[i].base]])
_build_realized_pnl_curve(trades, account, end) ==
  LET own == SelectSeq(InRange(trades, "date", Absent, end), LAMBDA t : t.account = account)
      dated == build_sort_clause(own, "date", "asc")
  IN  Running([i \in DOMAIN dated |-> [date |-> dated[i].date, amount |-> dated[i].realized]])

\* The curve is read by an index that stops at the first point of a later day.
At(curve, date) ==
  LET later == {i \in DOMAIN curve : curve[i].date > date}
      n == IF later = {} THEN Len(curve) ELSE Lowest(later) - 1
  IN  IF n = 0 THEN 0 ELSE curve[n].amount
_build_daily_net_flows(flows) ==
  [d \in {EffectiveDate(f) : f \in Elements(flows)} |-> SumOf(SelectSeq(flows, LAMBDA f : EffectiveDate(f) = d), "base")]

\* The equity of the snapshot before, or of the one before that which had any.
EquityBefore(snapshots, i, initial) ==
  LET known == {j \in 1 .. i - 1 : snapshots[j].equity # Absent}
  IN  IF known = {} THEN initial ELSE snapshots[Highest(known)].equity
DailyPerformance(s, previous, net) ==
  LET inferred == s.mtm = Absent /\ s.equity # Absent /\ previous # Absent
      flow == IF s.date \in DOMAIN net THEN net[s.date] ELSE 0
      mtm == IF inferred THEN s.equity - previous - flow ELSE s.mtm
  IN  [date |-> s.date, mtm |-> mtm,
       twr |-> IF inferred /\ mtm = 0 THEN 0
               ELSE IF s.twr = Absent /\ mtm # Absent /\ previous \notin {Absent, 0} THEN _calculate_percentage(mtm, previous)
               ELSE s.twr]

SnapshotLimit == 2000
get_equity_curve(snapshots, flows, trades, start, end) ==
  LET last == IF end # Absent THEN end ELSE _get_latest_report_date(snapshots)
      own == FirstOf(build_sort_clause(InRange(snapshots, "date", start, last), "date", "asc"), SnapshotLimit)
      account == own[Len(own)].account
      cash == _get_cash_flow_response(flows, account, Absent, last)
      cost == _build_net_cost_curve(cash)
      gains == _build_realized_pnl_curve(trades, account, last)
      point(i) ==
        LET s == own[i]
            p == DailyPerformance(s, EquityBefore(own, i, Absent), _build_daily_net_flows(cash))
            shown == MonthOf(s.date) = MonthOf(last)
        IN  [date |-> s.date, equity |-> s.equity, net_cost |-> At(cost, s.date), realized |-> At(gains, s.date),
             pnl |-> IF s.equity = Absent THEN Absent ELSE s.equity - At(cost, s.date),
             mtm |-> IF shown THEN p.mtm ELSE Absent, twr |-> IF shown THEN p.twr ELSE Absent]
  IN  IF snapshots = <<>> \/ own = <<>> THEN <<>> ELSE [i \in DOMAIN own |-> point(i)]

----------------------------------------------------------------------------
(* The calendars *)

_get_previous_snapshot_before(snapshots, date) ==
  LET before == build_sort_clause(SelectSeq(snapshots, LAMBDA s : s.date < date), "date", "desc") IN FirstOf(before, 1)
_fetch_snapshot_sources(snapshots, start, end) ==
  FirstOf(build_sort_clause(InRange(snapshots, "date", start, end), "date", "asc"), 4000)

_build_daily_performance_entries(snapshots, flows, start, end) ==
  LET own == _fetch_snapshot_sources(snapshots, start, end)
      before == IF start = Absent THEN <<>> ELSE _get_previous_snapshot_before(snapshots, start)
      initial == IF before = <<>> THEN Absent ELSE before[1].equity
      net == _build_daily_net_flows(_get_cash_flow_response(flows, own[1].account, start, end))
  IN  IF own = <<>> THEN <<>> ELSE [i \in DOMAIN own |-> DailyPerformance(own[i], EquityBefore(own, i, initial), net)]

\* From hundredths of a percent, and back.
_compound_twr(values) ==
  IF values = <<>> THEN Absent
  ELSE FoldLeft(LAMBDA r, v : (r * (10000 + v)) \div 10000, 10000, values) - 10000

_build_grouped_calendar_item(key, entries) ==
  LET rated == SelectSeq(entries, LAMBDA e : e.twr # Absent)
  IN  [key |-> key, has_data |-> entries # <<>>,
       pnl |-> IF entries = <<>> THEN Absent ELSE SumOf(entries, "mtm"), twr |-> _compound_twr(Column(rated, "twr"))]
_build_calendar_summary(items) ==
  LET known == SelectSeq(items, LAMBDA i : i.pnl # Absent)
      count(S) == Cardinality({i \in DOMAIN known : known[i].pnl \in S})
  IN  [positive |-> Cardinality({i \in DOMAIN known : known[i].pnl > 0}), negative |-> Cardinality({i \in DOMAIN known : known[i].pnl < 0}),
       periods |-> Len(known), total |-> IF known = <<>> THEN Absent ELSE SumOf(known, "pnl")]
Calendar(anchor, previous, next, items) ==
  [anchor |-> anchor, previous |-> previous, next |-> next, items |-> items, summary |-> _build_calendar_summary(items)]

Clamp(x, low, high) == Highest({Lowest({x, high}), low})
_build_month_calendar_response(snapshots, flows, anchor) ==
  LET earliest == MonthOf(_get_earliest_report_date(snapshots))
      latest == MonthOf(_get_latest_report_date(snapshots))
      m == Clamp(anchor, earliest, latest)
      entries == _build_daily_performance_entries(snapshots, flows, 100 * m + 1,
                                                  Lowest({_month_end(m), _get_latest_report_date(snapshots)}))
      \* Of two entries of a day the later one.
      item(d) == LET on == SelectSeq(entries, LAMBDA e : e.date = 100 * m + d)
                     e == on[Len(on)]
                 IN  IF on = <<>> THEN [key |-> 100 * m + d, has_data |-> FALSE, pnl |-> Absent, twr |-> Absent]
                     ELSE [key |-> 100 * m + d, has_data |-> TRUE, pnl |-> e.mtm, twr |-> e.twr]
  IN  Calendar(m, IF m > earliest THEN Previous(m) ELSE Absent, IF m < latest THEN Following(m) ELSE Absent,
               [d \in 1 .. DaysIn(m) |-> item(d)])

_build_year_calendar_response(snapshots, flows, anchor) ==
  LET earliest == YearOf(_get_earliest_report_date(snapshots))
      latest == YearOf(_get_latest_report_date(snapshots))
      y == Clamp(anchor, earliest, latest)
      entries == _build_daily_performance_entries(snapshots, flows, 10000 * y + 101,
                                                  Lowest({10000 * y + 1231, _get_latest_report_date(snapshots)}))
  IN  Calendar(y, IF y > earliest THEN y - 1 ELSE Absent, IF y < latest THEN y + 1 ELSE Absent,
               [m \in 1 .. 12 |-> _build_grouped_calendar_item(100 * y + m,
                                                               SelectSeq(entries, LAMBDA e : MonthOf(e.date) = 100 * y + m))])

_build_all_years_calendar_response(snapshots, flows) ==
  LET earliest == YearOf(_get_earliest_report_date(snapshots))
      latest == YearOf(_get_latest_report_date(snapshots))
      entries == _build_daily_performance_entries(snapshots, flows, Absent, _get_latest_report_date(snapshots))
      item(y) == _build_grouped_calendar_item(y, SelectSeq(entries, LAMBDA e : YearOf(e.date) = y))
  IN  Calendar(Absent, Absent, Absent, [i \in 1 .. latest - earliest + 1 |-> item(earliest + i - 1)])

\* The anchor that is asked for, or the latest of its kind.
get_performance_calendar(snapshots, flows, view, anchor) ==
  LET latest == _get_latest_report_date(snapshots) IN
  CASE snapshots = <<>> -> Calendar(anchor, Absent, Absent, <<>>)
    [] snapshots # <<>> /\ view = "month" ->
         _build_month_calendar_response(snapshots, flows, IF anchor = Absent THEN MonthOf(latest) ELSE anchor)
    [] snapshots # <<>> /\ view = "year" ->
         _build_year_calendar_response(snapshots, flows, IF anchor = Absent THEN YearOf(latest) ELSE anchor)
    [] OTHER -> _build_all_years_calendar_response(snapshots, flows)

----------------------------------------------------------------------------
(* The overview *)

_build_delta_metric(current, previous) ==
  IF Absent \in {current, previous} THEN [amount |-> Absent, percent |-> Absent]
  ELSE [amount |-> current - previous, percent |-> _calculate_percentage(current - previous, previous)]

_extract_ytd_twr(snapshots, account, date) ==
  LET year == InRange(snapshots, "date", 10000 * YearOf(date) + 101, date)
      own == FirstOf(build_sort_clause(SelectSeq(year, LAMBDA s : s.account = account), "date", "asc"), SnapshotLimit)
  IN  _compound_twr(Column(SelectSeq(own, LAMBDA s : s.twr # Absent), "twr"))

RealizedUpTo(trades, account, date) ==
  SumOf(SelectSeq(InRange(trades, "date", Absent, date), LAMBDA t : t.account = account), "realized")
UnrealizedOn(positions, account, date) ==
  SumOf(SelectSeq(positions, LAMBDA p : p.account = account /\ p.date = date), "unrealized")

\* The snapshot before is the second newest one of all accounts.
get_overview(snapshots, trades, positions) ==
  LET newest == build_sort_clause(snapshots, "date", "desc")
      now == newest[1]
      before == newest[2]
      realized(d) == RealizedUpTo(trades, now.account, d)
      unrealized(d) == UnrealizedOn(positions, now.account, d)
      total(d) == realized(d) + unrealized(d)
  IN  IF snapshots = <<>> THEN <<>>
      ELSE <<[date |-> now.date, equity |-> now.equity, realized |-> realized(now.date), unrealized |-> unrealized(now.date),
              pnl |-> total(now.date), ytd_twr |-> _extract_ytd_twr(snapshots, now.account, now.date),
              deltas |-> IF Len(newest) = 1 THEN <<>>
                         ELSE <<[equity |-> _build_delta_metric(now.equity, before.equity),
                                 realized |-> _build_delta_metric(realized(now.date), realized(before.date)),
                                 unrealized |-> _build_delta_metric(unrealized(now.date), unrealized(before.date)),
                                 pnl |-> _build_delta_metric(total(now.date), total(before.date))]>>]>>

----------------------------------------------------------------------------
(* Trades, flows of cash, dividends *)

\* A page of what matches, and how many pages there are.
Listing(rows, q) ==
  [items |-> build_search_body(build_sort_clause(rows, q.by, q.order), q.page, q.size, 200),
   pagination |-> build_pagination_info(q.page, Lowest({q.size, 200}), Len(rows))]

\* With a start only, the window ends at the latest trade.
_resolve_date_window(trades, start, end) ==
  [start |-> start, end |-> IF end = Absent /\ start # Absent THEN _get_latest_report_date(trades) ELSE end]
TradesFor(trades, q) ==
  LET w == _resolve_date_window(trades, q.start, q.end)
  IN  SelectSeq(Matching(InRange(trades, "date", w.start, w.end), q), LAMBDA t : build_term_filter(t.side, q.side))
list_trades(trades, q) == Listing(TradesFor(trades, q), q)
summarize_trades(trades, q) ==
  LET found == TradesFor(trades, q)
      sided(s) == Len(SelectSeq(found, LAMBDA t : t.side = s))
  IN  [count |-> Len(found), buys |-> sided("BUY"), sells |-> sided("SELL"), realized |-> SumOf(found, "realized"),
       symbols |-> Cardinality(Elements(Column(found, "symbol")))]

FlowsFor(flows, q) ==
  SelectSeq(InRange(flows, "when", q.start, q.end),
            LAMBDA f : /\ f.type = DEPOSIT_WITHDRAWAL_FLOW_TYPE
                       /\ build_term_filter(f.currency, q.currency)
                       /\ build_term_filter(f.direction, q.direction))
list_cash_flows(flows, q) == Listing(FlowsFor(flows, q), q)
FlowTotals(found) ==
  LET directed(d) == SelectSeq(found, LAMBDA f : f.direction = d)
      amount(d) == SumOf(directed(d), "amount")
  IN  [count |-> Len(found), deposits |-> Len(directed("deposit")), withdrawals |-> Len(directed("withdrawal")),
       deposited |-> amount("deposit"), withdrawn |-> amount("withdrawal"), net |-> amount("deposit") + amount("withdrawal")]
_build_currency_summaries(found) ==
  [c \in Elements(Column(found, "currency")) |-> FlowTotals(SelectSeq(found, LAMBDA f : f.currency = c))]
\* Amounts of several currencies are not added up.
summarize_cash_flows(flows, q) ==
  LET found == FlowsFor(flows, q)
      each == _build_currency_summaries(found)
      mixed == Cardinality(DOMAIN each) > 1 /\ q.currency = ""
  IN  [total |-> IF mixed THEN [FlowTotals(found) EXCEPT !.deposited = Absent, !.withdrawn = Absent, !.net = Absent]
                 ELSE FlowTotals(found), by_currency |-> each]

GROSS_DIVIDEND_FLOW_TYPES == {"Dividends", "Ordinary Dividend", "Payment In Lieu Of Dividends", "Payment In Lieu Of Dividend"}
WITHHOLDING_TAX_FLOW_TYPE == "Withholding Tax"
DividendsFor(flows, q) ==
  SelectSeq(InRange(flows, "when", q.start, q.end),
            LAMBDA f : /\ f.type \in GROSS_DIVIDEND_FLOW_TYPES \cup {WITHHOLDING_TAX_FLOW_TYPE}
                       /\ build_term_filter(f.currency, q.currency)
                       /\ build_term_filter(f.symbol, q.symbol))
list_dividends(flows, q) == Listing(DividendsFor(flows, q), q)
DividendTotals(found) ==
  LET gross == SelectSeq(found, LAMBDA f : f.type \in GROSS_DIVIDEND_FLOW_TYPES)
      tax == SelectSeq(found, LAMBDA f : f.type = WITHHOLDING_TAX_FLOW_TYPE)
  IN  [count |-> Len(found), paid |-> Len(gross), taxed |-> Len(tax), gross |-> SumOf(gross, "amount"),
       tax |-> SumOf(tax, "amount"), net |-> SumOf(gross, "amount") + SumOf(tax, "amount")]
DividendCurrencies(found) ==
  [c \in Elements(Column(found, "currency")) |-> DividendTotals(SelectSeq(found, LAMBDA f : f.currency = c))]
summarize_dividends(flows, q) ==
  LET found == DividendsFor(flows, q)
      each == DividendCurrencies(found)
      mixed == Cardinality(DOMAIN each) > 1 /\ q.currency = ""
  IN  [total |-> IF mixed THEN [DividendTotals(found) EXCEPT !.gross = Absent, !.tax = Absent, !.net = Absent]
                 ELSE DividendTotals(found), by_currency |-> each]

=============================================================================
