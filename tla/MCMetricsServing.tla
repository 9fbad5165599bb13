--------------------------- MODULE MCMetricsServing ---------------------------
(***************************************************************************)
(* The instance of MetricsServing that TLC checks.  Scrapes under way are  *)
(* interchangeable, and no property is temporal.  Only rates depend on how *)
(* scrapes overlap, so gauges are scraped one at a time.                   *)
(***************************************************************************)
EXTENDS MetricsServing, TLC

Scrapes == Permutations(Scrape)

UnderWay(k) == {s \in Scrape : scrape[s] # None /\ kind[scrape[s].pod] = k}

MCSpec == Init /\ [][Next /\ Cardinality(UnderWay("gauge")') <= 1]_vars
=============================================================================
