------------------------------- MODULE Metrics -------------------------------
(***************************************************************************)
(* Counters and histograms of core/metrics.py.  A histogram has the        *)
(* boundaries 1..Buckets, the last of which is +Inf; a latency is the      *)
(* number of the smallest boundary it does not exceed.  Counts are         *)
(* cumulative: counts[i] says how many latencies were <= boundary i.       *)
(***************************************************************************)
EXTENDS Integers, FiniteSets, FiniteSetsExt

CONSTANT Buckets

ASSUME MetricsAssumption == Buckets \in Nat \ {0, 1}

Boundaries == 1..Buckets

_init_label == [counts |-> [i \in Boundaries |-> 0], count |-> 0]

ObserveSmallestOnly(d, value) ==
    [counts |-> [d.counts EXCEPT ![value] = @ + 1], count |-> d.count + 1]

\* Every boundary that is not below the value is incremented.
observe(d, value) ==
    [counts |-> [i \in Boundaries |-> d.counts[i] + (IF value <= i THEN 1 ELSE 0)],
     count  |-> d.count + 1]

\* The first boundary whose cumulative count reaches pct % of the total; the
\* last finite one if there is none.
percentile(d, pct) ==
    LET reached == {i \in Boundaries : d.counts[i] * 100 >= pct * d.count}
    IN IF reached = {} THEN Buckets - 1 ELSE Min(reached)

snapshot(d) == [count |-> d.count, p50 |-> percentile(d, 50), p95 |-> percentile(d, 95)]
==============================================================================
