----------------------------- MODULE MCProbeMap -----------------------------
(* Instances of ProbeMap for TLC. *)
EXTENDS ProbeMap, Sequences, TLC

CONSTANTS c1, c2, k1, k2

TwoCPUs == {c1, c2}
TwoKeys == {k1, k2}
OneKey == {k1}
CPUSymmetry == Permutations(TwoCPUs)

-----------------------------------------------------------------------------
(* Lists of rows for Ranking: two addresses have one name, and a counter   *)
(* may be one a difference wrapped to.                                     *)
Rank == INSTANCE Ranking

Name == [ip \in 1 .. 3 |-> IF ip = 3 THEN 2 ELSE ip]
Rows == {[src |-> s, dst |-> d, tx |-> n, rx |-> 2 * n - 1] :
            s \in 1 .. 2, d \in 2 .. 3, n \in {1, Wrap \div 2}}
Lists == UNION {[1 .. n -> Rows] : n \in 0 .. 3}

\* In whatever order the rows come, a line is the sum of the rows of its
\* names, and no row is left out.
ASSUME LinesChecked ==
    \A rows \in Lists :
        /\ Rank!TalkersRight(rows, Name)
        /\ Rank!EndpointsRight(rows, Name)
        /\ Rank!GetTop(<<rows, rows>>) = Rank!TopTalkers(rows \o rows, [ip \in 1 .. 3 |-> ip])
        /\ LET counts == [i \in DOMAIN rows |->
                            [src |-> rows[i].src, dst |-> rows[i].dst, count |-> rows[i].tx]]
               top == Rank!GetTop(<<rows>>)
           IN Rank!GetRetrans(<<<<>>, counts>>)
                = [k \in DOMAIN top |-> [tx |-> top[k].tx, rx |-> 0]]

\* Rankings of the same lines differ only in lines of equal totals.
ASSUME RankingsChecked ==
    \A rows \in Lists :
        LET sums == Rank!TopTalkers(rows, Name)
            rankings == {list \in [1 .. Cardinality(DOMAIN sums) -> DOMAIN sums] :
                            Rank!IsRanking(list, sums)}
        IN /\ rankings # {}
           /\ \A a, b \in rankings : \A i \in DOMAIN a :
               Rank!TotalBytes(sums[a[i]]) = Rank!TotalBytes(sums[b[i]])
=============================================================================
