------------------------------ MODULE RiskCards ------------------------------
(***************************************************************************)
(* The arithmetic of a risk assessment: the account facts                  *)
(* (risk_assessment_account_facts.py), the five risk cards and the report  *)
(* composed of them (risk_assessment_graph/nodes.py).                      *)
(*                                                                         *)
(* Shares are in tenths of a per cent; the value of a position, cash and   *)
(* liquidity are in tenths of a per cent of the net liquidation.  An       *)
(* account is [read, net, cash, positions]; a position                     *)
(* [symbol, value, nav, themes, earnings], where nav is percent_of_nav as  *)
(* the worker stored it, themes are those of classify_symbol_theme, and    *)
(* earnings says when the calendar expects a report.                       *)
(***************************************************************************)
EXTENDS Integers, FiniteSets, SequencesExt, TLC

Sum(f(_), s) == FoldSeq(LAMBDA p, total : f(p) + total, 0, s)
Top(n, s) == SubSeq(s, 1, IF n < Len(s) THEN n ELSE Len(s))
AtMost(cap, n) == IF n > cap THEN cap ELSE n

\* The points of the first threshold that x exceeds, thresholds falling.
Points(x, table) ==
    LET hit == {i \in DOMAIN table : x > table[i][1]}
    IN IF hit = {} THEN 0 ELSE table[CHOOSE i \in hit : \A j \in hit : i <= j][2]

----------------------------------------------------------------------------
\* _nav_percent_to_ratio: what exceeds one is a per cent, the rest a ratio already.
Ratio(nav) == IF nav > 10 THEN nav ELSE 100 * nav

CashEquivalent(p) == "cash" \in p.themes
Share(p) == Ratio(p.nav)
Value(p) == p.value

\* RiskAssessmentAccountFactsBuilder.build: without an account document there is no
\* date to read positions for.
Facts(account) ==
    LET positions == IF account.read THEN SortSeq(account.positions, LAMBDA p, q : p.value > q.value) ELSE <<>>
        atRisk == SelectSeq(positions, LAMBDA p : ~CashEquivalent(p))
    IN [positions |-> positions,
        total     |-> Sum(Value, positions),
        net       |-> account.read /\ account.net,
        largest   |-> Sum(Share, Top(1, atRisk)),
        top3      |-> Sum(Share, Top(3, atRisk)),
        cash      |-> IF account.read /\ account.net THEN account.cash ELSE 0]

----------------------------------------------------------------------------
Card(score, quality) == [score |-> score, quality |-> quality]

\* _assess_concentration
Concentration(s) ==
    Card(AtMost(25, Points(s.largest, <<<<400, 20>>, <<250, 14>>, <<150, 7>>>>) + Points(s.top3, <<<<700, 5>>>>)
                    + (IF Len(s.positions) <= 2 /\ s.largest > 300 THEN 5 ELSE 0) + (IF s.cash < 50 THEN 3 ELSE 0)),
         "high")

Of(theme, s) == SelectSeq(s.positions, LAMBDA p : p.value > 0 /\ theme \in p.themes)
Exposure(theme, s) == Sum(Share, Of(theme, s))
Unclassified(s) == SelectSeq(s.positions, LAMBDA p : p.value > 0 /\ p.themes = {})

\* sector_theme_exposure_node.  LongBridge is asked for the company of the first five
\* that no rule classifies among the ten largest; its answer only lifts the quality.
CompaniesAsked(s) == {p.symbol : p \in Range(Top(5, SelectSeq(Top(10, s.positions), LAMBDA p : p.themes = {})))}
Sector(s, companies) ==
    Card(AtMost(20, Points(Exposure("ai", s), <<<<400, 8>>, <<250, 4>>>>)
                    + Points(Exposure("semiconductor", s), <<<<350, 6>>, <<200, 3>>>>)
                    + Points(Exposure("china", s), <<<<300, 5>>, <<150, 2>>>>)
                    + Points(Exposure("mega_cap_tech", s), <<<<600, 4>>>>)
                    + (IF 2 * Sum(Value, Unclassified(s)) > s.total THEN 3 ELSE 0)),
         IF companies # {} THEN "medium" ELSE "low")

\* correlation_node: two symbols of a theme are a correlated group; prices are never asked for.
Correlation(s) ==
    LET points(theme) == IF Len(Of(theme, s)) >= 2 THEN Points(Exposure(theme, s), <<<<300, 6>>, <<150, 3>>>>) ELSE 0
    IN Card(AtMost(20, points("semiconductor") + points("ai") + points("china") + points("mega_cap_tech")), "low")

\* earnings_calendar_risk_node, for the ten largest positions
CalendarsAsked(s) == {p.symbol : p \in {q \in Range(Top(10, s.positions)) : q.value > 0}}
Earnings(s, calendars) ==
    LET known == SelectSeq(Top(10, s.positions), LAMBDA p : p.symbol \in calendars)
        upcoming == SelectSeq(known, LAMBDA p : p.earnings \in {"week", "month"})
        heavy == SelectSeq(upcoming, LAMBDA p : p.earnings = "week" /\ Share(p) > 100)
    IN Card(AtMost(15, AtMost(10, 3 * Len(heavy)) + (IF Sum(Share, heavy) > 300 THEN 5 ELSE 0)
                       + (IF Len(upcoming) > 3 THEN 3 ELSE 0)),
            IF calendars # {} THEN "medium" ELSE "low")

\* _run_stress_test: the drawdown of the worst scenario in per cent is the score, here in
\* units of 1/200 (shocks are twentieths).  A sector card that is a fallback names no
\* symbol of any theme.
Loss(s, hit, shock, rest) == Sum(LAMBDA p : p.value * (IF p.symbol \in hit THEN shock ELSE rest), s.positions)
Losses(s, themed) ==
    LET symbols(theme) == IF themed THEN {p.symbol : p \in Range(Of(theme, s))} ELSE {}
        largest == {p.symbol : p \in Range(Top(1, s.positions))}
    IN {Loss(s, {}, 0, 2), Loss(s, {}, 0, 4), Loss(s, symbols("semiconductor"), 6, 2),
        Loss(s, largest, 6, 0), Loss(s, symbols("china"), 5, 1), Loss(s, symbols("ai"), 6, 2)}
Stress(s, themed) ==
    LET losses == Losses(s, themed)
    IN Card(AtMost(4000, IF s.net THEN CHOOSE l \in losses : \A m \in losses : m <= l ELSE 0), "high")

\* The cards of a node that failed, of medium risk.
Guess == [concentration |-> Card(12, "low"), sector |-> Card(10, "low"), correlation |-> Card(10, "low"),
          earnings |-> Card(7, "low"), stress |-> Card(2000, "low")]

----------------------------------------------------------------------------
\* risk_report_composer_node.  Each score is divided by its maximum and weighted; the
\* overall score is thus between 0 and 1, here in units of 1/60000, and the thresholds
\* of _overall_risk_level are between 0 and 100.
Overall(cards) ==
    720 * AtMost(25, cards.concentration.score) + 600 * AtMost(20, cards.sector.score)
      + 600 * AtMost(20, cards.correlation.score) + 400 * AtMost(15, cards.earnings.score)
      + 3 * AtMost(4000, cards.stress.score)
Level(overall) ==
    CASE overall >= 76 * 60000 -> "extreme"
      [] overall >= 51 * 60000 /\ overall < 76 * 60000 -> "high"
      [] overall >= 26 * 60000 /\ overall < 51 * 60000 -> "medium"
      [] OTHER -> "low"
Guessed(cards) == Cardinality({c \in DOMAIN cards : cards[c].quality = "low"})

\* Mutant: what was guessed has no influence.
LevelOfScore(cards) == Level(Overall(cards))

\* Insufficient data biases the level upwards.
ReportLevel(cards) ==
    IF Guessed(cards) >= 2 /\ Level(Overall(cards)) = "low" THEN "medium" ELSE Level(Overall(cards))
=============================================================================
