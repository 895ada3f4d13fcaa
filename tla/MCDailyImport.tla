---------------------------- MODULE MCDailyImport ----------------------------
(***************************************************************************)
(* DailyImport for TLC, beside what is read of the imported account: by    *)
(* the trade decisions (DecisionEvidence) and by the pages of the          *)
(* portfolio (PortfolioData).  Those checks are on tables of values and    *)
(* belong to no state.                                                     *)
(***************************************************************************)
EXTENDS DailyImport, DecisionEvidence

P == INSTANCE PortfolioData

----------------------------------------------------------------------------
(* Tables of the account: two accounts, one symbol or two, a few days.     *)

LOCAL Lot(account, symbol, date, quantity, cost, realized) ==
  [account |-> account, class |-> "STK", symbol |-> symbol, date |-> date, quantity |-> quantity, value |-> 100,
   cost |-> cost, realized |-> realized, unrealized |-> 7, percent |-> P!Absent]
LOCAL Trade(symbol, date, quantity, cash, realized) ==
  [account |-> "U1", class |-> "STK", symbol |-> symbol, date |-> date, quantity |-> quantity, net_cash |-> cash,
   price |-> 10, side |-> IF quantity > 0 THEN "BUY" ELSE "SELL", realized |-> realized]
LOCAL Flow(when, settle, amount, currency) ==
  [account |-> "U1", type |-> "Deposits/Withdrawals", when |-> when, settle |-> settle, report |-> P!Absent,
   amount |-> amount, base |-> amount, currency |-> currency, direction |-> IF amount > 0 THEN "deposit" ELSE "withdrawal"]
LOCAL Snapshot(account, date, equity, mtm) ==
  [account |-> account, date |-> date, equity |-> equity, mtm |-> mtm, twr |-> P!Absent]
LOCAL Asked(by, page, size) ==
  [date |-> P!Absent, start |-> P!Absent, end |-> P!Absent, symbol |-> "", class |-> "", side |-> "", currency |-> "",
   direction |-> "", by |-> by, order |-> "desc", page |-> page, size |-> size, summary |-> TRUE]

----------------------------------------------------------------------------
\* The pages of a listing, put one after another, are what it lists, and there
\* are as many of them as the listing says (build_search_body, build_pagination_info).
ASSUME PagesCover ==
  \A n \in 0 .. 7, size \in 1 .. 4 :
    LET rows == [i \in 1 .. n |-> i]
        pages == P!build_pagination_info(1, size, n).total_pages
    IN  FlattenSeq([k \in 1 .. pages |-> P!build_search_body(rows, k, size, 200)]) = rows

\* More than 200 to a page is 200, and so is the number of pages that is told.
ASSUME PagesAreCut ==
  \A size \in {199, 200, 201, 1000} :
    LET shown == P!Listing([i \in 1 .. 401 |-> [value |-> i]], Asked("value", 1, size))
    IN  Len(shown.items) = (IF size < 200 THEN size ELSE 200) /\ shown.pagination.total_pages = 3

\* A holding that was sold out and bought again costs what was paid since; a split
\* of more than one in twenty makes the trades unusable (_calculate_current_period_trade_cost).
ASSUME DilutedSinceSoldOut ==
  LET trades == <<Trade("A", 20240102, 10, -1000, 0), Trade("A", 20240103, -10, 1500, 500), Trade("A", 20240104, 5, -400, 0)>>
      diluted(held) == P!_apply_diluted_cost(<<Lot("U1", "A", 20240105, held, 400, 0)>>, trades, 20240105)[1].diluted
  IN  /\ diluted(5) = [amount |-> 400, price |-> 80, status |-> "OK"]
      /\ diluted(10).status = "QUANTITY_MISMATCH"
      /\ diluted(0).status = "INVALID_QUANTITY"

\* A stored gain wins over that of the trades, which fills a missing one up to
\* the day that is shown (_apply_trade_realized_pnl).
ASSUME StoredGainWins ==
  LET trades == <<Trade("A", 20240102, 10, -1000, P!Absent), Trade("A", 20240103, -4, 600, 200), Trade("A", 20240109, -4, 900, 500)>>
      shown(stored) == P!_apply_trade_realized_pnl(<<Lot("U1", "A", 20240105, 6, 800, stored)>>, trades, 20240105)[1]
  IN  /\ shown(P!Absent).realized = 200 /\ shown(P!Absent).percent = 2500
      /\ shown(90).realized = 90

\* The summary is of everything that matches, not of the page (list_positions).
ASSUME SummaryIsOfAll ==
  LET rows == [i \in 1 .. 7 |-> Lot("U1", ToString(i), 20240105, 1, 10 * i, 0)]
      answer == P!list_positions(rows, <<>>, Asked("cost", 1, 2))
  IN  /\ P!Column(answer.items, "cost") = <<70, 60>> /\ answer.pagination.total_pages = 4
      /\ answer.summary[1].total = 7 /\ answer.summary[1].value = 700 /\ answer.summary[1].top = <<"7", "6">>

\* Flows are in the order of their time, the curve is read by the day they settle:
\* one that settles late hides those after it until then (get_equity_curve).
ASSUME LateSettlementHides ==
  LET flows == <<Flow(20240102, 20240108, 500, "USD"), Flow(20240103, 20240103, 300, "USD")>>
      snapshots == [i \in 1 .. 3 |-> Snapshot("U1", 20240102 + 3 * (i - 1), 1000, P!Absent)]
      curve == P!get_equity_curve(snapshots, flows, <<>>, P!Absent, P!Absent)
  IN  /\ P!Column(curve, "date") = <<20240102, 20240105, 20240108>>
      /\ P!Column(curve, "net_cost") = <<0, 0, 800>>

\* The result of a day that was imported without one is the change of equity less
\* the money that came in: a deposit is no gain (_build_daily_performance_entries).
ASSUME DepositIsNoGain ==
  \A gain \in {-40, 0, 40}, deposit \in {0, 500} :
    LET snapshots == <<Snapshot("U1", 20240102, 1000, 0), Snapshot("U1", 20240103, 1000 + gain + deposit, P!Absent)>>
        flows == IF deposit = 0 THEN <<>> ELSE <<Flow(20240103, P!Absent, deposit, "USD")>>
        days == P!_build_daily_performance_entries(snapshots, flows, P!Absent, 20240103)
    IN  days[2].mtm = gain /\ days[2].twr = 10 * gain

\* The twelve months of a year add up to the year, and its days to a month
\* (_build_month_calendar_response, _build_year_calendar_response).
ASSUME CalendarsAddUp ==
  LET dates == <<20231229, 20240102, 20240131, 20240201, 20240229, 20240301, 20241231>>
      snapshots == [i \in 1 .. 7 |-> Snapshot("U1", dates[i], 1000, 3 * i - 5)]
      total(view, anchor) == P!get_performance_calendar(snapshots, <<>>, view, anchor).summary.total
      month(m) == total("month", m)
  IN  /\ month(202401) = 5 /\ month(202402) = 17 /\ month(202403) = 13 /\ month(202404) = P!Absent
      /\ total("year", 2024) = month(202401) + month(202402) + month(202403) + month(202412)
      /\ total("all", P!Absent) = total("year", 2023) + total("year", 2024)
      /\ Len(P!get_performance_calendar(snapshots, <<>>, "month", 202402).items) = 29
      /\ P!get_performance_calendar(snapshots, <<>>, "month", 202601).anchor = 202412

\* The overview's change is against the second newest snapshot of any account: with
\* two accounts it is the difference between them (get_overview).
ASSUME DeltaAcrossAccounts ==
  LET newest == <<Snapshot("U1", 20240103, 1000, 0), Snapshot("U2", 20240103, 400, 0)>>
      before == <<Snapshot("U1", 20240102, 990, 0), Snapshot("U2", 20240102, 390, 0)>>
      delta(s) == P!get_overview(s, <<>>, <<>>)[1].deltas[1].equity.amount
  IN  /\ delta(<<newest[1], before[1]>>) = 10
      /\ delta(newest \o before) = 600

\* Of more than a thousand days of a symbol the oldest thousand are shown (get_position_detail).
ASSUME NewestBarsUnseen ==
  LET n == P!DetailLimit + 2
      bars == P!get_position_detail(<<>>, [i \in 1 .. n |-> [date |-> i, open |-> 5, close |-> 6, high |-> P!Absent,
                                                             low |-> P!Absent]], <<>>).bars
  IN  bars[Len(bars)].date = n - 2

\* Amounts of two currencies are told apart and not added up (summarize_cash_flows).
ASSUME CurrenciesApart ==
  LET flows == <<Flow(20240102, P!Absent, 500, "USD"), Flow(20240103, P!Absent, -200, "USD"), Flow(20240103, P!Absent, 70, "HKD")>>
      sums == P!summarize_cash_flows(flows, Asked("when", 1, 10))
  IN  /\ sums.total.count = 3 /\ sums.total.net = P!Absent
      /\ sums.by_currency["USD"].net = 300 /\ sums.by_currency["HKD"].deposited = 70
=============================================================================
