------------------------------ MODULE Latency -------------------------------
(***************************************************************************)
(* internal/runner/result.go: the summary of a set of durations.           *)
(*                                                                         *)
(* Durations are signed integers of a bounded width and their sum wraps.   *)
(* A percentile is computed in floating point and truncated: where the     *)
(* exact value is a whole number the product may come out just below it,   *)
(* so a percentile is a set of one or two values.  That the floating point *)
(* moves it no further is an assumption of the model: the error, about the *)
(* number of durations times the gap between two of them by 2^53, must be  *)
(* below a thousandth of a unit (it is for a thousand durations and a gap  *)
(* of a second: 2^40 by 2^53).                                             *)
(***************************************************************************)
EXTENDS Integers, Sequences, FiniteSets

CONSTANT Half   \* a time.Duration is in -Half..Half - 1: 2^63 in the code

ASSUME HalfAssumption == Half \in Nat \ {0}

Wrap(x) == ((x + Half) % (2 * Half)) - Half

(* sort.Slice: the elements of S by their rank in the linear order R. *)
Ordered(S, R) ==
  [k \in 1..Cardinality(S) |-> CHOOSE x \in S : Cardinality({y \in S : <<y, x>> \in R}) = k - 1]

Unsorted(d) == d   \* mutant: the copy is not sorted

(* Equal durations are told apart by their places, which nobody sees. *)
Below(d) == {p \in (DOMAIN d) \X (DOMAIN d) :
               d[p[1]] < d[p[2]] \/ (d[p[1]] = d[p[2]] /\ p[1] < p[2])}

InOrder(d) == LET at == Ordered(DOMAIN d, Below(d)) IN [k \in 1..Len(d) |-> d[at[k]]]

Total(d) ==
  LET upTo[n \in 0..Len(d)] == IF n = 0 THEN 0 ELSE upTo[n - 1] + d[n]
  IN  upTo[Len(d)]

(* The sum as the code keeps it. *)
WrappedTotal(d) ==
  LET upTo[n \in 0..Len(d)] == IF n = 0 THEN 0 ELSE Wrap(upTo[n - 1] + d[n])
  IN  upTo[Len(d)]

(* Go's division of integers truncates toward zero. *)
Quotient(a, b) == IF a >= 0 THEN a \div b ELSE -((-a) \div b)

MeanOf(sorted) == Quotient(WrappedTotal(sorted), Len(sorted))

(* The integer part of the root of the mean squared distance to the mean. *)
StdDevOf(sorted, mean) ==
  LET sumSq == Total([i \in DOMAIN sorted |-> (sorted[i] - mean) * (sorted[i] - mean)])
  IN  CHOOSE s \in 0..(2 * Half) :
        s * s * Len(sorted) <= sumSq /\ (s + 1) * (s + 1) * Len(sorted) > sumSq

(* The p-th percentile, p in thousandths, of a sorted sequence. *)
percentileTruncated(sorted, p) ==   \* mutant: the index truncated, as it once was
  IF sorted = <<>> THEN {0} ELSE {sorted[((p * (Len(sorted) - 1)) \div 1000) + 1]}

(* time.Duration of a float given in thousandths, its error less than one. *)
Truncated(x) ==
  IF x > 0 /\ x % 1000 = 0 THEN {x \div 1000, x \div 1000 - 1} ELSE {x \div 1000}

percentile(sorted, p) ==
  LET n == Len(sorted)
      pos == p * (n - 1)
      lo == pos \div 1000 + 1
  IN  IF n = 0 THEN {0}
      ELSE IF n = 1 \/ p <= 0 THEN {sorted[1]}
      ELSE IF p >= 1000 \/ lo >= n THEN {sorted[n]}
      ELSE {sorted[lo] + k : k \in Truncated((pos % 1000) * (sorted[lo + 1] - sorted[lo]))}

NoStats == [Count |-> 0, Min |-> 0, Max |-> 0, Mean |-> 0, StdDev |-> 0,
            P50 |-> 0, P90 |-> 0, P95 |-> 0, P99 |-> 0, P999 |-> 0]

(* The summaries computeStats may return for the durations d. *)
computeStats(d) ==
  LET sorted == InOrder(d)
      mean == MeanOf(sorted)
  IN  IF Len(d) = 0 THEN {NoStats}
      ELSE [Count: {Len(d)}, Min: {sorted[1]}, Max: {sorted[Len(d)]}, Mean: {mean},
            StdDev: {StdDevOf(sorted, mean)},
            P50: percentile(sorted, 500), P90: percentile(sorted, 900),
            P95: percentile(sorted, 950), P99: percentile(sorted, 990),
            P999: percentile(sorted, 999)]

=============================================================================
