------------------------------ MODULE Statistics ------------------------------
(***************************************************************************)
(* What bench/src/bin/latency.rs prints of a list of latencies: the        *)
(* percentiles of print_stats() and print_comparison(), and the buckets of *)
(* histogram().  A percentile is given in tenths of a percent, and its     *)
(* value is scaled by Whole: a number stands for the f64 of the code.      *)
(***************************************************************************)
EXTENDS Integers, Sequences, FiniteSets

Whole == 1000
Printed == {500, 950, 990, 999, 1000}

\* A wrong variant: the list is left in the order of arrival.
Unsorted(d) == d

\* sort_unstable() on a copy: an element's place is how many are not behind it, where
\* of equal ones the later is behind, which does not show in the result.
Rank(d, i) == Cardinality({j \in DOMAIN d : d[j] < d[i] \/ (d[j] = d[i] /\ j <= i)})
Sorted(d) == [k \in DOMAIN d |-> d[CHOOSE i \in DOMAIN d : Rank(d, i) = k]]

\* percentile(): linear interpolation between the two ranks around the share p.
Percentile(s, p) ==
  LET k  == (Len(s) - 1) * p
      lo == 1 + k \div Whole
      hi == IF lo < Len(s) THEN lo + 1 ELSE Len(s)
  IN  IF s = <<>> THEN 0 ELSE s[lo] * Whole + (s[hi] - s[lo]) * (k % Whole)

Boundaries == <<250, 500, 1000, 2000, 4000, 8000, 16000, 32000, 64000, 128000,
                256000, 512000, 1000000, 2000000>>

\* partition_point(): how many boundaries the value has reached.
Bucket(v) == Cardinality({i \in DOMAIN Boundaries : v >= Boundaries[i]})

Counts(d) ==
  [b \in 0 .. Len(Boundaries) |-> Cardinality({i \in DOMAIN d : Bucket(d[i]) = b})]

-----------------------------------------------------------------------------
\* The share p of the list is at or below its percentile, and the rest is at or
\* above it, which is what makes it one; and "max" is the largest element.
Divides(d, p) ==
  LET v     == Percentile(Sorted(d), p)
      Below == {i \in DOMAIN d : d[i] * Whole <= v}
      Above == {i \in DOMAIN d : d[i] * Whole >= v}
  IN  /\ Cardinality(Below) * Whole >= (Len(d) - 1) * p
      /\ Cardinality(Above) * Whole >= (Len(d) - 1) * (Whole - p)
      /\ p = Whole => Cardinality(Below) = Len(d)

\* The row of bucket b counts the elements from its lower bound to below its
\* upper bound, as its label says.
CountsBucket(d, b) ==
  Counts(d)[b] = Cardinality({i \in DOMAIN d :
                    /\ b > 0 => Boundaries[b] <= d[i]
                    /\ b < Len(Boundaries) => d[i] < Boundaries[b + 1]})
=============================================================================
