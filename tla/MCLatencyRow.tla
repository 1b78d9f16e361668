---------------------------- MODULE MCLatencyRow ----------------------------
(* Instances of LatencyRow for TLC. *)
EXTENDS LatencyRow

CONSTANTS c1, c2

TwoCPUs == {c1, c2}
\* One sample, some, and so many that the two percentiles have two ranks.
OtherRows == {<<1>>, <<3, 9>>, [k \in 1 .. 19 |-> IF k < 19 THEN 1 ELSE 5]}

\* The halving finds the highest bit of any 31-bit number; TLC's integers
\* end there.
ASSUME Log2Checked ==
    /\ \A v \in 1 .. 1000 : 2^Log2(v) <= v /\ v < 2^(Log2(v) + 1)
    /\ \A k \in 1 .. 30 : Log2(2^k) = k /\ Log2(2^k - 1) = k - 1

\* The estimate lies in the bucket of the sample of its rank, whatever the
\* per cent, for every list of up to four samples.
ASSUME PercentileChecked ==
    \A s \in UNION {[1 .. n -> {1, 2, 3, 5, 9}] : n \in 1 .. 4}, pct \in {1, 50, 95, 99, 100} :
        BucketOf(Percentile(Summary(s).hist, Len(s), pct)) = BucketOf(Ranked(s, pct))

CPUSymmetry == Permutations(TwoCPUs)
=============================================================================
