----------------------------- MODULE Aggregation -----------------------------
(***************************************************************************)
(* How the samples of a metric become one number:                          *)
(* src/src/webhook/metrics/aggregation.rs.                                 *)
(*                                                                         *)
(* Values are integers.  A quotient is a pair <<numerator, denominator>>,  *)
(* so that nothing is rounded before the code rounds it.                   *)
(***************************************************************************)
EXTENDS Integers, SequencesExt

AggregationType == {"avg", "max", "min", "median", "last"}

Total(s)         == FoldLeft(LAMBDA a, b : a + b, 0, s)
Whole(n)         == <<n, 1>>

Larger(a, b)  == IF a >= b THEN a ELSE b
Smaller(a, b) == IF a <= b THEN a ELSE b
Greatest(s)   == FoldLeft(Larger, s[1], s)
Least(s)      == FoldLeft(Smaller, s[1], s)

\* The values in ascending order.
Ascending(p, s) ==
    IsInjective(p) /\ \A i, j \in DOMAIN s : i <= j => s[p[i]] <= s[p[j]]
Sorted(s) ==
    LET order == CHOOSE p \in [DOMAIN s -> DOMAIN s] : Ascending(p, s)
    IN  [i \in DOMAIN s |-> s[order[i]]]

(* Mutants: plausible bugs the runs are tested with; nothing else uses them. *)
UpperMedian(s)               == Whole(Sorted(s)[Len(s) \div 2 + 1])
RestartGain(earlier, later)  == IF later >= earlier THEN later - earlier ELSE earlier

\* Two values in the middle are averaged.
Median(s) ==
    LET v   == Sorted(s)
        mid == Len(v) \div 2
    IN  IF Len(v) % 2 = 0 THEN <<v[mid] + v[mid + 1], 2>> ELSE Whole(v[mid + 1])

\* aggregate_samples, of a gauge's values, the oldest first.
AggregateSamples(s, type) ==
    IF s = <<>> THEN Whole(0) ELSE
    CASE type = "avg"    -> <<Total(s), Len(s)>>
      [] type = "max"    -> Whole(Greatest(s))
      [] type = "min"    -> Whole(Least(s))
      [] type = "median" -> Median(s)
      [] type = "last"   -> Whole(Last(s))

\* What a pair of samples adds: a drop is a restart of the counter.
Gain(earlier, later) == IF later >= earlier THEN later - earlier ELSE later

Increase(s) == Total([i \in 1 .. Len(s) - 1 |-> Gain(s[i], s[i + 1])])

MaxRate == 1000000000

HasRate(s) == Len(s) >= 2

\* calculate_rate, of samples that HasRate and `elapsed` seconds from first to last.
Rate(s, elapsed) ==
    IF elapsed = 0 THEN Whole(0)
    ELSE IF Increase(s) > MaxRate * elapsed THEN Whole(MaxRate)
    ELSE <<Increase(s), elapsed>>

-----------------------------------------------------------------------------
(* What the types promise, said without the code's way of computing it.    *)

Below(q, v)   == q[1] <= v * q[2]
Above(q, v)   == q[1] >= v * q[2]
Under(s, v)   == {i \in 1 .. Len(s) : s[i] < v}
Over(s, v)    == {i \in 1 .. Len(s) : s[i] > v}

\* At most half of the values are on either side of v.
Halves(s, v) ==
    2 * Cardinality(Under(s, v)) <= Len(s) /\ 2 * Cardinality(Over(s, v)) <= Len(s)

IsAggregate(q, s, type) ==
    CASE type = "avg"    -> q[1] * Len(s) = Total(s) * q[2]
      [] type = "max"    -> /\ \A i \in 1 .. Len(s) : Above(q, s[i])
                            /\ \E i \in 1 .. Len(s) : q = Whole(s[i])
      [] type = "min"    -> /\ \A i \in 1 .. Len(s) : Below(q, s[i])
                            /\ \E i \in 1 .. Len(s) : q = Whole(s[i])
      \* The middle between the least and the greatest value that halves s.
      [] type = "median" ->
            LET middle == {s[i] : i \in {j \in 1 .. Len(s) : Halves(s, s[j])}}
            IN  \E least, greatest \in middle :
                   /\ middle \subseteq least .. greatest
                   /\ 2 * q[1] = (least + greatest) * q[2]
      [] type = "last"   -> q = Whole(s[Len(s)])
=============================================================================
