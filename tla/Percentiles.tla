---------------------------- MODULE Percentiles ----------------------------
(***************************************************************************)
(* The nearest-rank percentiles of src/src/samples.cpp, computed from the  *)
(* retained samples.  Probabilities are in thousandths; p * n in double    *)
(* precision has the exact ceiling for the buffer sizes used here.         *)
(***************************************************************************)
EXTENDS Samples, SequencesExt, FiniteSets

\* ceil(p * n), clamped to the samples there are.
Rank(p, n) ==
    LET idx == (p * n + 999) \div 1000
    IN  IF idx = 0 THEN 1 ELSE IF idx > n THEN n ELSE idx

\* nearest_rank over the sorted values; 0 if there are none.
NearestRank(p) ==
    LET sorted == SortSeq([k \in DOMAIN values |-> values[k].v], <)
    IN  IF sorted = <<>> THEN 0 ELSE sorted[Rank(p, Len(sorted))]

----------------------------------------------------------------------------
(* Properties                                                              *)

\* The percentile is the smallest retained value that at least the fraction p
\* of the retained samples does not exceed.
PercentileIsNearestRank ==
    values # <<>> =>
        \A p \in {500, 900, 990, 999} :
            LET AtMost(x) == Cardinality({k \in DOMAIN values : values[k].v <= x})
                enough == {x \in Values : 1000 * AtMost(x) >= p * Len(values)}
            IN  /\ NearestRank(p) \in enough
                /\ \A x \in enough : NearestRank(p) <= x

\* Percentiles are those of the whole run: nearest ranks, over samples that are
\* spread evenly over it; and taking a sample never costs an allocation.
PercentilesFair == EvenlySpread /\ NeverAllocates /\ PercentileIsNearestRank

=============================================================================
