------------------------- MODULE MCMarketEvents -------------------------
(* A source that needs a key, with a calendar and a series, and Longbridge *)
EXTENDS MarketEvents

MCSources == {"BLS", "LONGBRIDGE"}
MCKeyed == {"BLS"}
MCCalendar == [s \in MCSources |-> [k \in EventKinds |->
    CASE s = "BLS" /\ k = "release" -> <<[key |-> "cpi", labels |-> <<>>]>>
      [] s = "LONGBRIDGE" /\ k = "corporate" -> <<[key |-> "aapl", labels |-> <<"eps">>]>>
      [] OTHER -> <<>>]]
MCRequests == {[sources |-> {"LONGBRIDGE"}, types |-> {"CALENDAR"}, dry |-> FALSE],
               [sources |-> {}, types |-> {"VALUE"}, dry |-> TRUE],
               [sources |-> {"BLS"}, types |-> {}, dry |-> FALSE]}
Interchangeable == Permutations(Workers) \union Permutations(Admins)
=============================================================================
