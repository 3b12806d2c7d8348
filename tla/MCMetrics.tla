----------------------------- MODULE MCMetrics -----------------------------
(* Instances of Metrics for TLC. *)
EXTENDS Metrics, TLC

Did(op, us, error) == [op |-> op, us |-> us, error |-> error, authorized |-> FALSE]
Scraping(authorized) ==
  [op |-> "scrape", us |-> 4000, error |-> FALSE, authorized |-> authorized]

(* On either side of the bounds APDEX and histogram divide at (the last 999 us of a
   millisecond are dropped), the failure too slow to tolerate, and a scrape let in or not. *)
Watch == {"total", "satisfied", "tolerating", "frustrated", "le_500", "le_inf", "hold"}
Mixed == {Did("hold", 500999, FALSE), Did("other", 2000999, FALSE), Did("other", 2001000, TRUE),
          Scraping(TRUE), Scraping(FALSE)}

Symmetry == Permutations(Requests \ Scrapers)
=============================================================================
