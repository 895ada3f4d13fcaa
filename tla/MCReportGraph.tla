--------------------------- MODULE MCReportGraph ---------------------------
(***************************************************************************)
(* Two reviews of the same date or of the same symbol, a review of each    *)
(* kind, or a risk assessment beside a review.                             *)
(***************************************************************************)
EXTENDS ReportGraph, LlmAccess, DailyEvidence

MCMixes == {[r \in Runs |-> "daily"], [r \in Runs |-> "trade"],
            [r \in Runs |-> IF r = "first" THEN "risk" ELSE "none"]}

Position(symbol, value, nav, themes, earnings) ==
    [symbol |-> symbol, value |-> value, nav |-> nav, themes |-> themes, earnings |-> earnings]

\* NVDA leads, IBM is in no theme, BILI is small enough to be read as a ratio
MCAccounts ==
    {[read |-> FALSE, net |-> FALSE, cash |-> 0, positions |-> <<>>],
     [read |-> TRUE, net |-> TRUE, cash |-> 0, positions |->
        <<Position("NVDA", 600, 600, {"semiconductor", "ai", "mega_cap_tech"}, "week"),
          Position("AMD", 400, 400, {"semiconductor"}, "week")>>],
     [read |-> TRUE, net |-> TRUE, cash |-> 300, positions |->
        <<Position("IBM", 200, 200, {}, "month"), Position("SGOV", 491, 491, {"cash"}, "none"),
          Position("BILI", 9, 9, {"china"}, "none")>>],
     [read |-> TRUE, net |-> FALSE, cash |-> 0, positions |-> <<Position("IBM", 900, 900, {}, "week")>>]}
=============================================================================
