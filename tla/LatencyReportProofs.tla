------------------------ MODULE LatencyReportProofs ------------------------
(***************************************************************************)
(* Proofs about the report of LatencyRow: what is made of a row that was   *)
(* copied while probes wrote to it, and of rows no probe is at; and where  *)
(* the samples of all rows are.                                            *)
(***************************************************************************)
EXTENDS LatencyRowProofs, NumberTheorems

-----------------------------------------------------------------------------
(* The halving finds the highest bit. *)

LEMMA Times ==
    ASSUME NEW a \in Nat, NEW x \in Nat, NEW y \in Nat, x <= y
    PROVE  a * x <= a * y
OBVIOUS

LEMMA Shift ==
    ASSUME NEW q \in {1, 2, 4, 16, 256, 65536}, NEW u \in Nat
    PROVE  /\ u \div q \in Nat
           /\ q * (u \div q) <= u
           /\ u + 1 <= q * (u \div q + 1)
OBVIOUS

LEMMA Pow2Values ==
    /\ Pow2[0] = 1 /\ Pow2[1] = 2 /\ Pow2[2] = 4
    /\ Pow2[4] = 16 /\ Pow2[8] = 256 /\ Pow2[16] = 65536
<1>1. PICK z \in Nat : z = 0
  OBVIOUS
<1>2. /\ Pow2[z] = 1 /\ Pow2[z + 1] = 2 /\ Pow2[z + 2] = 4
      /\ Pow2[z + 4] = 16 /\ Pow2[z + 8] = 256 /\ Pow2[z + 16] = 65536
  <2>1. Pow2[z] = 1
    <3>1. Pow2[0] = 1
      BY Pow2Is
    <3> QED
      BY <1>1, <3>1
  <2>2. /\ Pow2[z + 1] = 2 * Pow2[z] /\ Pow2[z + 2] = 4 * Pow2[z]
        /\ Pow2[z + 4] = 16 * Pow2[z] /\ Pow2[z + 8] = 256 * Pow2[z]
        /\ Pow2[z + 16] = 65536 * Pow2[z]
    BY Pow2Steps
  <2> QED
    BY <2>1, <2>2
<1>3. z + 1 = 1 /\ z + 2 = 2 /\ z + 4 = 4 /\ z + 8 = 8 /\ z + 16 = 16
  BY <1>1
<1> QED
  BY <1>1, <1>2, <1>3

\* v, shifted right by r, is u.
ShiftedBy(v, r, u) == Pow2[r] * u <= v /\ v + 1 <= Pow2[r] * (u + 1)

\* u, already shifted by n, is shifted by r more.
ShiftStep(n, u, r, m, w) == m = n + r /\ w = u \div Pow2[r]

LEMMA ShiftOn ==
    ASSUME NEW v \in Nat, NEW n \in Nat, NEW u \in Nat, ShiftedBy(v, n, u),
           NEW r \in {0, 1, 2, 4, 8, 16}, NEW m, NEW w, ShiftStep(n, u, r, m, w)
    PROVE  w \in Nat /\ m \in Nat /\ ShiftedBy(v, m, w)
<1>0. m = n + r /\ w = u \div Pow2[r]
  BY DEF ShiftStep
<1>1. PICK a \in Nat : a = Pow2[n]
  BY Pow2Is
<1>2. PICK q \in {1, 2, 4, 16, 256, 65536} : q = Pow2[r] /\ Pow2[m] = a * q
  <2>1. /\ Pow2[n + 1] = 2 * a /\ Pow2[n + 2] = 4 * a /\ Pow2[n + 4] = 16 * a
        /\ Pow2[n + 8] = 256 * a /\ Pow2[n + 16] = 65536 * a
    BY <1>1, Pow2Steps
  <2>2. Pow2[n + 0] = a
    <3>1. n + 0 = n
      OBVIOUS
    <3> QED
      BY <1>1, <3>1
  <2> QED
    BY <1>0, <2>1, <2>2, Pow2Values
<1>3. w \in Nat /\ q * w <= u /\ u + 1 <= q * (w + 1)
  BY <1>0, <1>2, Shift
<1>4. PICK x, y \in Nat : x = q * w /\ y = q * (w + 1)
  BY <1>3
<1>5. a * x <= a * u /\ a * (u + 1) <= a * y
  BY <1>3, <1>4, Times
<1>6. PICK low, high \in Nat : /\ low = (a * q) * w /\ high = (a * q) * (w + 1)
                              /\ low = a * x /\ high = a * y
  BY <1>2, <1>3, <1>4
<1>7. PICK c, d \in Nat : c = a * u /\ d = a * (u + 1) /\ c <= v /\ v + 1 <= d
  BY <1>1 DEF ShiftedBy
<1>8. low <= v /\ v + 1 <= high
  BY <1>5, <1>6, <1>7
<1> QED
  BY <1>0, <1>2, <1>3, <1>6, <1>8 DEF ShiftedBy

\* What is left of u when it is shifted down by p if it has a bit there.
LEMMA Halve ==
    ASSUME NEW u \in Nat, u # 0,
           NEW p \in {1, 2, 4, 8, 16}, NEW q, q = Pow2[p], u \div q < q,
           NEW r, r = IF u >= q THEN p ELSE 0,
           NEW w, w = u \div Pow2[r]
    PROVE  /\ r \in {0, 1, 2, 4, 8, 16}
           /\ w \in Nat /\ w # 0 /\ w < q
<1>1. q \in {2, 4, 16, 256, 65536} /\ r \in {0, 1, 2, 4, 8, 16}
  BY Pow2Values
<1>2. CASE u >= q
  <2>1. w = u \div q
    BY <1>2
  <2>2. u \div q # 0 /\ u \div q \in Nat
    BY <1>1, <1>2
  <2> QED
    BY <1>1, <2>1, <2>2
<1>3. CASE ~(u >= q)
  <2>1. w = u \div 1
    BY <1>3, Pow2Values
  <2>2. u \div 1 = u /\ u < q
    BY <1>1, <1>3
  <2> QED
    BY <1>1, <2>1, <2>2
<1> QED
  BY <1>2, <1>3

LEMMA QuotientMono ==
    ASSUME NEW x \in Nat, NEW y \in Nat, y <= x
    PROVE  y \div 65536 <= x \div 65536
OBVIOUS

LEMMA HighestFits ==
    ASSUME NEW v \in 1 .. W32 - 1
    PROVE  v \in Nat /\ v # 0 /\ v \div 65536 < 65536
<1>1. PICK x \in Nat : x = W32 - 1 /\ x \div 65536 < 65536
  BY W32Is, W32Fits
<1>2. v \in Nat /\ v # 0 /\ v <= x
  BY <1>1
<1>3. v \div 65536 <= x \div 65536
  BY <1>2, QuotientMono
<1>4. v \div 65536 \in Nat /\ x \div 65536 \in Nat
  BY <1>1, <1>2
<1> QED
  BY <1>1, <1>2, <1>3, <1>4

LEMMA Log2Highest ==
    ASSUME NEW v \in 1 .. W32 - 1
    PROVE  /\ Log2(v) \in Nat
           /\ Pow2[Log2(v)] <= v
           /\ v < Pow2[Log2(v) + 1]
<1>0. v \in Nat /\ v # 0 /\ v \div 65536 < 65536
  BY HighestFits
<1>1. PICK n0 \in Nat : n0 = 0 /\ ShiftedBy(v, n0, v)
  <2>1. Pow2[0] * v <= v /\ v + 1 <= Pow2[0] * (v + 1)
    <3>1. 1 * v <= v /\ v + 1 <= 1 * (v + 1)
      BY <1>0
    <3> QED
      BY <3>1, Pow2Values
  <2>2. ShiftedBy(v, 0, v)
    BY <2>1 DEF ShiftedBy
  <2>3. 0 \in Nat
    OBVIOUS
  <2> QED
    BY <2>2, <2>3, Zenon
<1>2. PICK r1 : r1 = IF v >= 65536 THEN 16 ELSE 0
  OBVIOUS
<1>2b. PICK v1 : v1 = v \div Pow2[r1]
  OBVIOUS
<1>2c. PICK n1 : n1 = n0 + r1
  OBVIOUS
<1>3. /\ v1 \in Nat /\ v1 # 0 /\ v1 < 65536 /\ r1 \in Nat
      /\ n1 \in Nat /\ ShiftedBy(v, n1, v1)
  <2>0. PICK p, q : /\ p \in {1, 2, 4, 8, 16} /\ p = 16 /\ q = 65536 /\ q = Pow2[p]
                                          /\ v \div q < q
    BY <1>0, Pow2Values
  <2>1. r1 \in {0, 1, 2, 4, 8, 16} /\ v1 \in Nat /\ v1 # 0 /\ v1 < 65536
    BY <1>0, <1>1, <1>2, <1>2b, <2>0, Halve
  <2>2. ShiftStep(n0, v, r1, n1, v1)
    BY <1>2b, <1>2c DEF ShiftStep
  <2>3. n1 \in Nat /\ ShiftedBy(v, n1, v1)
    BY <1>0, <1>1, <2>1, <2>2, ShiftOn
  <2> QED
    BY <2>1, <2>3
<1>4. PICK r2 : r2 = IF v1 >= 256 THEN 8 ELSE 0
  OBVIOUS
<1>4b. PICK v2 : v2 = v1 \div Pow2[r2]
  OBVIOUS
<1>4c. PICK n2 : n2 = n1 + r2
  OBVIOUS
<1>5. /\ v2 \in Nat /\ v2 # 0 /\ v2 < 256 /\ r2 \in Nat
      /\ n2 \in Nat /\ ShiftedBy(v, n2, v2)
  <2>0. PICK p, q : /\ p \in {1, 2, 4, 8, 16} /\ p = 8 /\ q = 256 /\ q = Pow2[p]
                                          /\ v1 \div q < q
    BY <1>3, Pow2Values
  <2>1. r2 \in {0, 1, 2, 4, 8, 16} /\ v2 \in Nat /\ v2 # 0 /\ v2 < 256
    BY <1>0, <1>3, <1>4, <1>4b, <2>0, Halve
  <2>2. ShiftStep(n1, v1, r2, n2, v2)
    BY <1>4b, <1>4c DEF ShiftStep
  <2>3. n2 \in Nat /\ ShiftedBy(v, n2, v2)
    BY <1>0, <1>3, <2>1, <2>2, ShiftOn
  <2> QED
    BY <2>1, <2>3
<1>6. PICK r3 : r3 = IF v2 >= 16 THEN 4 ELSE 0
  OBVIOUS
<1>6b. PICK v3 : v3 = v2 \div Pow2[r3]
  OBVIOUS
<1>6c. PICK n3 : n3 = n2 + r3
  OBVIOUS
<1>7. /\ v3 \in Nat /\ v3 # 0 /\ v3 < 16 /\ r3 \in Nat
      /\ n3 \in Nat /\ ShiftedBy(v, n3, v3)
  <2>0. PICK p, q : /\ p \in {1, 2, 4, 8, 16} /\ p = 4 /\ q = 16 /\ q = Pow2[p]
                                          /\ v2 \div q < q
    BY <1>5, Pow2Values
  <2>1. r3 \in {0, 1, 2, 4, 8, 16} /\ v3 \in Nat /\ v3 # 0 /\ v3 < 16
    BY <1>0, <1>5, <1>6, <1>6b, <2>0, Halve
  <2>2. ShiftStep(n2, v2, r3, n3, v3)
    BY <1>6b, <1>6c DEF ShiftStep
  <2>3. n3 \in Nat /\ ShiftedBy(v, n3, v3)
    BY <1>0, <1>5, <2>1, <2>2, ShiftOn
  <2> QED
    BY <2>1, <2>3
<1>8. PICK r4 : r4 = IF v3 >= 4 THEN 2 ELSE 0
  OBVIOUS
<1>8b. PICK v4 : v4 = v3 \div Pow2[r4]
  OBVIOUS
<1>8c. PICK n4 : n4 = n3 + r4
  OBVIOUS
<1>9. /\ v4 \in Nat /\ v4 # 0 /\ v4 < 4 /\ r4 \in Nat
      /\ n4 \in Nat /\ ShiftedBy(v, n4, v4)
  <2>0. PICK p, q : /\ p \in {1, 2, 4, 8, 16} /\ p = 2 /\ q = 4 /\ q = Pow2[p]
                                          /\ v3 \div q < q
    BY <1>7, Pow2Values
  <2>1. r4 \in {0, 1, 2, 4, 8, 16} /\ v4 \in Nat /\ v4 # 0 /\ v4 < 4
    BY <1>0, <1>7, <1>8, <1>8b, <2>0, Halve
  <2>2. ShiftStep(n3, v3, r4, n4, v4)
    BY <1>8b, <1>8c DEF ShiftStep
  <2>3. n4 \in Nat /\ ShiftedBy(v, n4, v4)
    BY <1>0, <1>7, <2>1, <2>2, ShiftOn
  <2> QED
    BY <2>1, <2>3
<1>10. PICK r5 : r5 = IF v4 >= 2 THEN 1 ELSE 0
  OBVIOUS
<1>10b. PICK v5 : v5 = v4 \div Pow2[r5]
  OBVIOUS
<1>10c. PICK n : n = n4 + r5
  OBVIOUS
<1>11. /\ v5 \in Nat /\ v5 # 0 /\ v5 < 2 /\ r5 \in Nat
      /\ n \in Nat /\ ShiftedBy(v, n, v5)
  <2>0. PICK p, q : /\ p \in {1, 2, 4, 8, 16} /\ p = 1 /\ q = 2 /\ q = Pow2[p]
                                          /\ v4 \div q < q
    BY <1>9, Pow2Values
  <2>1. r5 \in {0, 1, 2, 4, 8, 16} /\ v5 \in Nat /\ v5 # 0 /\ v5 < 2
    BY <1>0, <1>9, <1>10, <1>10b, <2>0, Halve
  <2>2. ShiftStep(n4, v4, r5, n, v5)
    BY <1>10b, <1>10c DEF ShiftStep
  <2>3. n \in Nat /\ ShiftedBy(v, n, v5)
    BY <1>0, <1>9, <2>1, <2>2, ShiftOn
  <2> QED
    BY <2>1, <2>3
<1>12. Log2(v) = n
  <2> DEFINE R1 == IF v >= 65536 THEN 16 ELSE 0
             V1 == v \div Pow2[R1]
             R2 == IF V1 >= 256 THEN 8 ELSE 0
             V2 == V1 \div Pow2[R2]
             R3 == IF V2 >= 16 THEN 4 ELSE 0
             V3 == V2 \div Pow2[R3]
             R4 == IF V3 >= 4 THEN 2 ELSE 0
             V4 == V3 \div Pow2[R4]
             R5 == IF V4 >= 2 THEN 1 ELSE 0
  <2>1. Log2(v) = R1 + R2 + R3 + R4 + R5
    BY DEF Log2
  <2>2. R1 = r1
    BY <1>2
  <2> HIDE DEF R1
  <2>3. V1 = v1
    BY <1>2b, <2>2
  <2> HIDE DEF V1
  <2>4. R2 = r2
    BY <1>4, <2>3
  <2> HIDE DEF R2
  <2>5. V2 = v2
    BY <1>4b, <2>3, <2>4
  <2> HIDE DEF V2
  <2>6. R3 = r3
    BY <1>6, <2>5
  <2> HIDE DEF R3
  <2>7. V3 = v3
    BY <1>6b, <2>5, <2>6
  <2> HIDE DEF V3
  <2>8. R4 = r4
    BY <1>8, <2>7
  <2> HIDE DEF R4
  <2>9. V4 = v4
    BY <1>8b, <2>7, <2>8
  <2> HIDE DEF V4
  <2>10. R5 = r5
    BY <1>10, <2>9
  <2> HIDE DEF R5
  <2>11. Log2(v) = r1 + r2 + r3 + r4 + r5
    BY <2>1, <2>2, <2>4, <2>6, <2>8, <2>10
  <2>12. n = ((((n0 + r1) + r2) + r3) + r4) + r5
    BY <1>2c, <1>4c, <1>6c, <1>8c, <1>10c, Zenon
  <2> QED
    BY <1>1, <1>3, <1>5, <1>7, <1>9, <1>11, <2>11, <2>12
<1>13. Pow2[n + 1] = 2 * Pow2[n] /\ Pow2[n] \in Nat
  BY <1>11, Pow2Is
<1>14. v5 = 1
  BY <1>11
<1> QED
  BY <1>0, <1>11, <1>12, <1>13, <1>14 DEF ShiftedBy

-----------------------------------------------------------------------------
(* A latency is in one bucket, and a higher one in none below it. *)

LEMMA BucketsAre ==
    /\ Buckets \in SUBSET Nat /\ IsFiniteSet(Buckets) /\ 0 \in Buckets /\ Top \in Buckets
    /\ \A b \in Nat : b \in Buckets <=> b <= Top
    /\ Top \in Nat
BY TopIs, FS_Interval DEF Buckets

LEMMA CoversOrder ==
    ASSUME NEW i \in Buckets, NEW j \in Buckets, NEW u \in Nat, NEW v \in Nat, u <= v,
           Covers(i, u), Covers(j, v)
    PROVE  i <= j
<1>1. i \in Nat /\ j \in Nat /\ i <= Top /\ j <= Top /\ Top \in Nat
  BY BucketsAre
<1>2. SUFFICES ASSUME j < i PROVE FALSE
  BY <1>1
<1>3. Pow2[i] <= u /\ v < Pow2[j + 1]
  BY <1>1, <1>2 DEF Covers
<1>4. Pow2[j + 1] <= Pow2[i]
  BY <1>1, <1>2, Pow2Mono
<1>5. Pow2[i] \in Nat /\ Pow2[j + 1] \in Nat
  BY <1>1, Pow2Is
<1> QED
  BY <1>3, <1>4, <1>5

LEMMA BucketOfIs ==
    ASSUME NEW i \in Buckets, NEW v \in Nat, Covers(i, v)
    PROVE  BucketOf(v) = i
<1>1. \A j \in Buckets : Covers(j, v) => j = i
  <2>1. ASSUME NEW j \in Buckets, Covers(j, v) PROVE j = i
    <3>1. j <= i /\ i <= j
      BY <2>1, CoversOrder
    <3> QED
      BY <3>1, BucketsAre
  <2> QED
    BY <2>1
<1> QED
  BY <1>1, Zenon DEF BucketOf

LEMMA BucketCovers ==
    ASSUME NEW v \in 1 .. W32 - 1
    PROVE  Bucket(v) \in Buckets /\ Covers(Bucket(v), v)
<1>1. v \in Nat /\ v # 0 /\ U32(v) = v
  BY W32Is, U32Type
<1>2. PICK n \in Nat : n = Log2(v) /\ Pow2[n] <= v /\ v < Pow2[n + 1]
  BY Log2Highest
<1>3. Bucket(v) = IF n > Top THEN Top ELSE n
  BY <1>1, <1>2 DEF Bucket
<1>4. CASE n > Top
  <2>1. Pow2[Top] <= Pow2[n] /\ Pow2[Top] \in Nat /\ Pow2[n] \in Nat
    BY <1>4, BucketsAre, Pow2Mono, Pow2Is
  <2> QED
    BY <1>1, <1>2, <1>3, <1>4, <2>1, BucketsAre DEF Covers
<1>5. CASE ~(n > Top)
  BY <1>2, <1>3, <1>5, BucketsAre DEF Covers
<1> QED
  BY <1>4, <1>5

\* The bucket the probe enters a latency in is the one its bounds say.
LEMMA BucketRight ==
    ASSUME NEW v \in 1 .. W32 - 1
    PROVE  /\ BucketOf(v) = Bucket(v)
           /\ BucketOf(v) \in Buckets
           /\ Covers(BucketOf(v), v)
<1>1. v \in Nat
  OBVIOUS
<1> QED
  BY <1>1, BucketCovers, BucketOfIs

LEMMA BucketOrder ==
    ASSUME NEW u \in 1 .. W32 - 1, NEW v \in 1 .. W32 - 1, u <= v
    PROVE  BucketOf(u) <= BucketOf(v)
<1>1. u \in Nat /\ v \in Nat
  OBVIOUS
<1> QED
  BY <1>1, BucketRight, CoversOrder

LEMMA BucketFloor ==
    ASSUME NEW v \in 1 .. W32 - 1
    PROVE  Pow2[BucketOf(v)] <= v
<1>1. BucketOf(v) \in Nat /\ Covers(BucketOf(v), v)
  BY BucketRight, BucketsAre
<1> QED
  BY <1>1, Pow2Values DEF Covers

-----------------------------------------------------------------------------
(* Percentiles of a histogram. *)

Rank(count, pct) == IF (count * pct) \div 100 = 0 THEN 1 ELSE (count * pct) \div 100

LEMMA RankBounds ==
    ASSUME NEW n \in Nat, NEW pct \in {95, 99}
    PROVE  /\ Rank(n, pct) \in Nat \ {0}
           /\ n > 0 => Rank(n, pct) <= n
<1>1. CASE pct = 95
  BY <1>1 DEF Rank
<1>2. CASE pct = 99
  BY <1>2 DEF Rank
<1> QED
  BY <1>1, <1>2

\* The running total of a histogram.
LEMMA Running ==
    ASSUME NEW h \in [Buckets -> Nat]
    PROVE  /\ \A b \in Buckets : SumOn(h, 0 .. b) \in Nat
           /\ SumOn(h, 0 .. 0) = h[0]
           /\ \A b \in Buckets : b > 0 =>
                  /\ b - 1 \in Buckets
                  /\ SumOn(h, 0 .. b) = h[b] + SumOn(h, 0 .. b - 1)
<1>1. \A b \in Buckets : /\ IsFiniteSet(0 .. b)
                         /\ 0 .. b \in SUBSET Buckets
                         /\ b \in 0 .. b
  <2> SUFFICES ASSUME NEW b \in Buckets
               PROVE  IsFiniteSet(0 .. b) /\ 0 .. b \in SUBSET Buckets /\ b \in 0 .. b
    OBVIOUS
  <2>1. b \in Nat /\ b <= Top
    BY BucketsAre
  <2>2. IsFiniteSet(0 .. b)
    BY <2>1, FS_Interval
  <2> QED
    BY <2>1, <2>2, TopIs DEF Buckets
<1>2. \A b \in Buckets : \A x \in 0 .. b : h[x] \in Nat
  BY <1>1
<1>3. \A b \in Buckets : /\ SumOn(h, 0 .. b) \in Nat
                         /\ SumOn(h, 0 .. b) = h[b] + SumOn(h, (0 .. b) \ {b})
  BY <1>1, <1>2, SumNat, SumSplit
<1>4. SumOn(h, 0 .. 0) = h[0]
  <2>1. (0 .. 0) \ {0} = {} /\ 0 \in Buckets /\ h[0] \in Nat
    BY BucketsAre
  <2>2. SumOn(h, 0 .. 0) = h[0] + SumOn(h, (0 .. 0) \ {0})
    BY <1>3, <2>1
  <2>3. SumOn(h, (0 .. 0) \ {0}) = 0
    BY <2>1, SumEmpty
  <2> QED
    BY <2>1, <2>2, <2>3
<1>5. \A b \in Buckets : b > 0 => b - 1 \in Buckets /\ (0 .. b) \ {b} = 0 .. b - 1
  BY BucketsAre
<1> QED
  BY <1>3, <1>4, <1>5

\* Either the histogram holds fewer samples than the rank, or the estimate is
\* in the first bucket that brings the total to it, which is not empty.
LEMMA PercentileIn ==
    ASSUME NEW h \in [Buckets -> Nat], NEW n \in Nat, NEW pct \in {95, 99}
    PROVE  \/ /\ \A b \in Buckets : SumOn(h, 0 .. b) < Rank(n, pct)
              /\ Percentile(h, n, pct) = Pow2[Top]
           \/ \E m \in Buckets :
                 /\ h[m] > 0
                 /\ SumOn(h, 0 .. m) >= Rank(n, pct)
                 /\ \A b \in Buckets : SumOn(h, 0 .. b) >= Rank(n, pct) => m <= b
                 /\ Percentile(h, n, pct) \in Nat
                 /\ Pow2[m] <= Percentile(h, n, pct)
                 /\ Covers(m, Percentile(h, n, pct))
<1>1. PICK t \in Nat \ {0} : t = Rank(n, pct)
  BY RankBounds
<1>2. PICK reached : reached = {b \in Buckets : SumOn(h, 0 .. b) >= t}
  OBVIOUS
<1>3. Percentile(h, n, pct) =
          IF reached = {} THEN Pow2[Top]
          ELSE IF Min(reached) = 0 THEN 1
          ELSE (Pow2[Min(reached)] + Pow2[Min(reached) + 1]) \div 2
  BY <1>1, <1>2 DEF Percentile, Rank
<1>4. \A b \in Buckets : SumOn(h, 0 .. b) \in Nat
  BY Running
<1>5. CASE reached = {}
  <2>1. \A b \in Buckets : SumOn(h, 0 .. b) < t
    BY <1>2, <1>4, <1>5
  <2> QED
    BY <1>1, <1>3, <1>5, <2>1
<1>6. CASE reached # {}
  <2>1. reached \in SUBSET Nat
    BY <1>2, BucketsAre
  <2>2. PICK m \in reached : \A b \in reached : m <= b
    BY <1>6, <2>1, LeastExists
  <2>3. Min(reached) = m
    BY <2>1, <2>2, MinIs
  <2>4. m \in Buckets /\ m \in Nat /\ SumOn(h, 0 .. m) >= t
    BY <1>2, <2>1
  <2>5. h[m] > 0
    <3>1. CASE m = 0
      <4>1. SumOn(h, 0 .. m) = h[m] /\ h[m] \in Nat
        BY <2>4, <3>1, Running
      <4> QED
        BY <2>4, <4>1
    <3>2. CASE m # 0
      <4>1. PICK k \in Buckets : /\ k = m - 1
                                 /\ SumOn(h, 0 .. m) = h[m] + SumOn(h, 0 .. k)
        BY <2>4, <3>2, Running
      <4>2. k \notin reached
        BY <2>1, <2>2, <2>4, <4>1
      <4>3. SumOn(h, 0 .. k) < t /\ SumOn(h, 0 .. k) \in Nat /\ h[m] \in Nat
        BY <1>2, <1>4, <2>4, <4>2
      <4> QED
        BY <2>4, <4>1, <4>3
    <3> QED
      BY <3>1, <3>2
  <2>6. PICK a \in Nat : a = Pow2[m] /\ a # 0 /\ Pow2[m + 1] = 2 * a
    <3>1. Pow2[m] \in Nat /\ Pow2[m] # 0 /\ Pow2[m + 1] = 2 * Pow2[m]
      BY <2>4, Pow2Is
    <3> QED
      BY <3>1
  <2>7. PICK p \in Nat : p = Percentile(h, n, pct) /\ a <= p /\ p < 2 * a
    <3>1. CASE m = 0
      <4>1. Percentile(h, n, pct) = 1 /\ a = 1
        BY <1>3, <1>6, <2>3, <2>6, <3>1, Pow2Values
      <4> QED
        BY <4>1
    <3>2. CASE m # 0
      <4>1. Percentile(h, n, pct) = (a + 2 * a) \div 2
        BY <1>3, <1>6, <2>3, <2>6, <3>2
      <4>2. (a + 2 * a) \div 2 \in Nat /\ a <= (a + 2 * a) \div 2 /\ (a + 2 * a) \div 2 < 2 * a
        BY <2>6
      <4> QED
        BY <4>1, <4>2
    <3> QED
      BY <3>1, <3>2
  <2>8. Covers(m, p)
    BY <2>6, <2>7 DEF Covers
  <2>9. \A b \in Buckets : SumOn(h, 0 .. b) >= t => m <= b
    BY <1>2, <2>2
  <2> QED
    BY <1>1, <2>4, <2>5, <2>6, <2>7, <2>8, <2>9
<1> QED
  BY <1>5, <1>6

-----------------------------------------------------------------------------
(* What two rows merge to. *)

\* What Merge finds for the rows up to the k-th.
Merging(g, rs) ==
    LET Started(a, r) ==
            IF a.count = 0 THEN [Cleared EXCEPT !.min = r.min, !.max = r.max] ELSE a
    IN g = [k \in 0 .. Len(rs) |->
               IF k = 0 THEN Cleared
               ELSE IF rs[k].count = 0 THEN g[k - 1]
               ELSE Join(Started(g[k - 1], rs[k]), rs[k])]

LEMMA MergeIs ==
    ASSUME NEW rs, \E g : Merging(g, rs)
    PROVE  \E g : Merging(g, rs) /\ Merge(rs) = g[Len(rs)]
BY Zenon DEF Merge, Merging

Both(x, y) ==
    [sum |-> x.sum + y.sum,
     count |-> x.count + y.count,
     min |-> IF y.min > 0 /\ (x.min = 0 \/ y.min < x.min) THEN y.min ELSE x.min,
     max |-> IF y.max > x.max THEN y.max ELSE x.max,
     hist |-> [b \in Buckets |-> x.hist[b] + y.hist[b]]]

\* The first row starts the aggregate: it is as if it were taken over.
LEMMA FirstJoin ==
    ASSUME NEW x \in RowType
    PROVE  Join([Cleared EXCEPT !.min = x.min, !.max = x.max], x) = x
<1>1. /\ x.sum \in Nat /\ x.count \in Nat /\ x.min \in Nat /\ x.max \in Nat
      /\ x.hist \in [Buckets -> Nat]
  BY W32Is DEF RowType
<1>2. x = [sum |-> x.sum, count |-> x.count, min |-> x.min, max |-> x.max, hist |-> x.hist]
  BY DEF RowType
<1>3. x.hist = [b \in Buckets |-> 0 + x.hist[b]]
  BY <1>1
<1>4. PICK z : z = [Cleared EXCEPT !.min = x.min, !.max = x.max]
  OBVIOUS
<1>5. /\ z.sum = 0 /\ z.count = 0 /\ z.min = x.min /\ z.max = x.max
      /\ z.hist = [b \in Buckets |-> 0]
  BY <1>4 DEF Cleared
<1>6. Join(z, x) = [sum |-> x.sum, count |-> x.count, min |-> x.min, max |-> x.max,
                    hist |-> [b \in Buckets |-> 0 + x.hist[b]]]
  BY <1>1, <1>5 DEF Join
<1> QED
  BY <1>2, <1>3, <1>4, <1>6

LEMMA MergeTwo ==
    ASSUME NEW x \in RowType, NEW y \in RowType, x.count > 0, y.count > 0
    PROVE  Merge(<<x, y>>) = Both(x, y)
<1>1. PICK rs : rs = <<x, y>>
  OBVIOUS
<1>2. Len(rs) = 2 /\ rs[1] = x /\ rs[2] = y
  BY <1>1
<1>3. Join(x, y) = Both(x, y)
  BY DEF Join, Both
<1>4. x.count \in Nat /\ y.count \in Nat
  BY DEF RowType
<1>5. PICK c0, c1 : /\ c0 = [Cleared EXCEPT !.min = x.min, !.max = x.max] /\ Join(c0, x) = x
                    /\ c1 = Cleared /\ c1.count = 0
  <2>1. Cleared.count = 0
    BY DEF Cleared
  <2> QED
    BY <2>1, FirstJoin, Zenon
<1> DEFINE Started(a, r) ==
               IF a.count = 0 THEN [Cleared EXCEPT !.min = r.min, !.max = r.max] ELSE a
           Step(g, k) == IF k = 0 THEN c1
                         ELSE IF rs[k].count = 0 THEN g[k - 1]
                         ELSE Join(Started(g[k - 1], rs[k]), rs[k])
<1>6. ASSUME NEW g PROVE Merging(g, rs) <=> g = [k \in 0 .. 2 |-> Step(g, k)]
  BY <1>2, <1>5, Zenon DEF Merging
<1>7. ASSUME NEW g
      PROVE  /\ Step(g, 0) = c1
             /\ g[0] = c1 => Step(g, 1) = x
             /\ g[1] = x => Step(g, 2) = Join(x, y)
  <2>1. rs[1].count # 0 /\ rs[2].count # 0 /\ x.count # 0
    BY <1>2, <1>4
  <2>2. 1 - 1 = 0 /\ 2 - 1 = 1
    OBVIOUS
  <2>3. Step(g, 0) = c1
    OBVIOUS
  <2>4. ASSUME g[0] = c1 PROVE Step(g, 1) = x
    <3>1. Started(c1, x) = c0
      BY <1>5
    <3>2. Step(g, 1) = Join(Started(g[1 - 1], rs[1]), rs[1])
      BY <2>1
    <3> HIDE DEF Started, Step
    <3> QED
      BY <1>2, <1>5, <2>2, <2>4, <3>1, <3>2
  <2>5. ASSUME g[1] = x PROVE Step(g, 2) = Join(x, y)
    <3>1. Started(x, y) = x
      BY <2>1
    <3>2. Step(g, 2) = Join(Started(g[2 - 1], rs[2]), rs[2])
      BY <2>1
    <3> HIDE DEF Started, Step
    <3> QED
      BY <1>2, <2>2, <2>5, <3>1, <3>2
  <2> HIDE DEF Step
  <2> QED
    BY <2>3, <2>4, <2>5
<1> HIDE DEF Step
<1>8. \E g : Merging(g, rs)
  <2>1. PICK g : g = [k \in 0 .. 2 |-> IF k = 0 THEN c1 ELSE IF k = 1 THEN x ELSE Join(x, y)]
    OBVIOUS
  <2>2. g[0] = c1 /\ g[1] = x /\ g[2] = Join(x, y)
    BY <2>1
  <2>3. \A k \in 0 .. 2 : g[k] = Step(g, k)
    <3>1. \A k \in 0 .. 2 : k = 0 \/ k = 1 \/ k = 2
      OBVIOUS
    <3> QED
      BY <1>7, <2>2, <3>1
  <2>4. g = [k \in 0 .. 2 |-> Step(g, k)]
    BY <2>1, <2>3
  <2> QED
    BY <1>6, <2>4
<1>9. ASSUME NEW g, Merging(g, rs) PROVE g[2] = Join(x, y)
  <2>1. \A k \in 0 .. 2 : g[k] = Step(g, k)
    BY <1>6, <1>9
  <2>2. g[0] = Step(g, 0) /\ g[1] = Step(g, 1) /\ g[2] = Step(g, 2)
    BY <2>1
  <2> QED
    BY <1>7, <2>2
<1> QED
  BY <1>1, <1>2, <1>3, <1>8, <1>9, MergeIs
LEMMA BothType ==
    ASSUME NEW x \in RowType, NEW y \in RowType
    PROVE  /\ Both(x, y) \in RowType
           /\ Both(x, y).sum = x.sum + y.sum
           /\ Both(x, y).count = x.count + y.count
           /\ Both(x, y).min \in {x.min, y.min}
           /\ Both(x, y).max \in {x.max, y.max}
           /\ \A b \in Buckets : Both(x, y).hist[b] = x.hist[b] + y.hist[b]
<1>1. /\ x.sum \in Nat /\ x.count \in Nat /\ x.min \in 0 .. W32 - 1 /\ x.max \in 0 .. W32 - 1
      /\ x.hist \in [Buckets -> Nat]
  BY DEF RowType
<1>2. /\ y.sum \in Nat /\ y.count \in Nat /\ y.min \in 0 .. W32 - 1 /\ y.max \in 0 .. W32 - 1
      /\ y.hist \in [Buckets -> Nat]
  BY DEF RowType
<1>3. [b \in Buckets |-> x.hist[b] + y.hist[b]] \in [Buckets -> Nat]
  BY <1>1, <1>2
<1> QED
  BY <1>1, <1>2, <1>3 DEF Both, RowType

-----------------------------------------------------------------------------
(* Rows whose extremes and buckets are those of latencies in a set: all that *)
(* is known of a copy made while probes write to the row.                    *)

\* The latencies of a list.
Latencies == (SUBSET (1 .. W32 - 1)) \ {{}}

\* The row's maximum is one of the latencies, and every bucket it counts in
\* holds one.
Drawn(x, A) ==
    /\ x \in RowType
    /\ x.count > 0
    /\ x.max \in A
    /\ \A b \in Buckets : x.hist[b] > 0 => \E v \in A : BucketOf(v) = b

LEMMA BothDrawn ==
    ASSUME NEW A \in Latencies, NEW x, NEW y, Drawn(x, A), Drawn(y, A)
    PROVE  Drawn(Both(x, y), A)
<1>1. x \in RowType /\ y \in RowType
  BY DEF Drawn
<1>2. /\ x.count \in Nat /\ y.count \in Nat
      /\ \A b \in Buckets : x.hist[b] \in Nat /\ y.hist[b] \in Nat
  BY <1>1 DEF RowType
<1>3. ASSUME NEW b \in Buckets, Both(x, y).hist[b] > 0 PROVE \E v \in A : BucketOf(v) = b
  <2>1. x.hist[b] + y.hist[b] > 0
    BY <1>1, <1>3, BothType
  <2>2. x.hist[b] > 0 \/ y.hist[b] > 0
    BY <1>2, <2>1
  <2> QED
    BY <2>2 DEF Drawn
<1>4. Both(x, y) \in RowType /\ Both(x, y).count > 0 /\ Both(x, y).max \in A
  BY <1>1, <1>2, BothType DEF Drawn
<1> QED
  BY <1>3, <1>4 DEF Drawn

Estimate(x, pct) == Clamp(Percentile(x.hist, x.count, pct), x.max)

\* An estimate is not below the bucket of the least latency nor above the
\* greatest.
LEMMA EstimateWithin ==
    ASSUME NEW A \in Latencies, NEW x, Drawn(x, A), NEW pct \in {95, 99},
           NEW least \in A, \A v \in A : least <= v,
           NEW greatest \in A, \A v \in A : v <= greatest
    PROVE  Pow2[BucketOf(least)] <= Estimate(x, pct) /\ Estimate(x, pct) <= greatest
<1>1. /\ x.hist \in [Buckets -> Nat] /\ x.count \in Nat /\ x.max \in A
  BY DEF Drawn, RowType
<1>2. /\ x.max \in Nat /\ x.max > 0 /\ least <= x.max /\ x.max <= greatest
      /\ least \in 1 .. W32 - 1 /\ greatest \in Nat /\ least \in Nat
      /\ \A v \in A : v \in 1 .. W32 - 1
  <2>1. \A v \in A : v \in 1 .. W32 - 1
    BY DEF Latencies
  <2>2. \A v \in A : v \in Nat /\ v > 0
    BY <2>1, W32Is
  <2> QED
    BY <1>1, <2>1, <2>2
<1>3. PICK b \in Buckets : b = BucketOf(least) /\ Pow2[b] <= least /\ Pow2[b] \in Nat /\ b \in Nat
  <2>1. BucketOf(least) \in Buckets /\ Pow2[BucketOf(least)] <= least
    BY <1>2, BucketRight, BucketFloor
  <2>2. BucketOf(least) \in Nat /\ Pow2[BucketOf(least)] \in Nat
    BY <2>1, BucketsAre, Pow2Is
  <2> QED
    BY <2>1, <2>2
<1>4. PICK p : p = Percentile(x.hist, x.count, pct)
  OBVIOUS
<1>5. p \in Nat /\ Pow2[b] <= p
  <2>1. CASE p = Pow2[Top]
    <3>1. Pow2[b] <= Pow2[Top] /\ Pow2[Top] \in Nat
      BY <1>3, BucketsAre, Pow2Mono, Pow2Is
    <3> QED
      BY <2>1, <3>1
  <2>2. CASE p # Pow2[Top]
    <3>1. PICK m \in Buckets : x.hist[m] > 0 /\ p \in Nat /\ Pow2[m] <= p
      BY <1>1, <1>4, <2>2, PercentileIn
    <3>2. PICK v \in A : BucketOf(v) = m
      BY <3>1 DEF Drawn
    <3>3. b <= m
      <4>1. v \in 1 .. W32 - 1 /\ least <= v
        BY <1>2, <3>2
      <4>2. BucketOf(least) <= BucketOf(v)
        BY <1>2, <4>1, BucketOrder
      <4> QED
        BY <1>3, <3>2, <4>2
    <3>4. Pow2[b] <= Pow2[m] /\ Pow2[m] \in Nat
      BY <1>3, <3>3, BucketsAre, Pow2Mono, Pow2Is
    <3> QED
      BY <1>3, <3>1, <3>4
  <2> QED
    BY <2>1, <2>2
<1>6. Estimate(x, pct) = IF p > x.max THEN x.max ELSE p
  BY <1>2, <1>4 DEF Estimate, Clamp
<1> QED
  BY <1>2, <1>3, <1>5, <1>6

-----------------------------------------------------------------------------
(* Lists of latencies and their summaries. *)

Lists == Seq(1 .. W32 - 1) \ {<<>>}

LEMMA ListIs ==
    ASSUME NEW s \in Lists
    PROVE  /\ Len(s) \in Nat /\ Len(s) > 0
           /\ DOMAIN s = 1 .. Len(s)
           /\ \A k \in 1 .. Len(s) : s[k] \in 1 .. W32 - 1
           /\ ToSet(s) \in Latencies
<1>1. s \in Seq(1 .. W32 - 1) /\ s # <<>>
  BY DEF Lists
<1>2. Len(s) \in Nat /\ DOMAIN s = 1 .. Len(s)
  BY <1>1, LenProperties
<1>3. Len(s) > 0
  BY <1>1, <1>2, EmptySeq
<1>4. \A k \in 1 .. Len(s) : s[k] \in 1 .. W32 - 1
  BY <1>1, ElementOfSeq
<1>5. ToSet(s) \in SUBSET (1 .. W32 - 1)
  BY <1>2, <1>4, Zenon DEF ToSet
<1>6. ToSet(s) # {}
  <2>1. 1 \in DOMAIN s
    BY <1>2, <1>3
  <2>2. s[1] \in ToSet(s)
    BY <2>1, Zenon DEF ToSet
  <2> QED
    BY <2>2
<1> QED
  BY <1>2, <1>3, <1>4, <1>5, <1>6 DEF Latencies

LEMMA LatenciesAre ==
    ASSUME NEW A \in Latencies
    PROVE  /\ A \in SUBSET Nat /\ A # {}
           /\ \A v \in A : v \in 1 .. W32 - 1 /\ v \in Nat /\ v > 0
           /\ Min(A) \in A /\ \A v \in A : Min(A) <= v
           /\ Max(A) \in A /\ \A v \in A : v <= Max(A)
<1>1. A # {} /\ \A v \in A : v \in 1 .. W32 - 1
  BY DEF Latencies
<1>2. PICK n \in Nat : n = W32 - 1
  BY W32Is
<1>3. \A v \in A : v \in Nat /\ v > 0 /\ v <= n
  BY <1>1, <1>2
<1>4. A \in SUBSET Nat
  BY <1>3
<1>5. PICK least \in A : \A v \in A : least <= v
  BY <1>1, <1>4, LeastExists
<1>6. PICK greatest \in A : \A v \in A : v <= greatest
  BY <1>1, <1>3, <1>4, GreatestExists
<1>7. Min(A) = least /\ Max(A) = greatest
  BY <1>4, <1>5, <1>6, MinIs, MaxIs
<1> QED
  BY <1>1, <1>3, <1>4, <1>5, <1>6, <1>7

LEMMA Joined ==
    ASSUME NEW s \in Lists, NEW t \in Lists
    PROVE  /\ s \o t \in Lists
           /\ Len(s \o t) = Len(s) + Len(t)
           /\ \A k \in 1 .. Len(s) : (s \o t)[k] = s[k]
           /\ \A k \in 1 .. Len(t) : (s \o t)[Len(s) + k] = t[k]
           /\ ToSet(s \o t) = ToSet(s) \cup ToSet(t)
<1>1. s \in Seq(1 .. W32 - 1) /\ t \in Seq(1 .. W32 - 1)
  BY DEF Lists
<1>2. PICK u : u = s \o t
  OBVIOUS
<1>3. /\ u \in Seq(1 .. W32 - 1)
      /\ Len(u) = Len(s) + Len(t)
      /\ \A k \in 1 .. Len(s) + Len(t) : u[k] = IF k <= Len(s) THEN s[k] ELSE t[k - Len(s)]
  BY <1>1, <1>2, ConcatProperties
<1>4. PICK m, n \in Nat : m = Len(s) /\ n = Len(t) /\ m > 0 /\ n > 0
  BY ListIs
<1>5. u # <<>>
  <2>1. Len(u) # 0
    BY <1>3, <1>4
  <2> QED
    BY <1>3, <2>1, EmptySeq
<1>6. \A k \in 1 .. m : u[k] = s[k]
  BY <1>3, <1>4
<1>7. \A k \in 1 .. n : u[m + k] = t[k]
  <2>1. \A k \in 1 .. n : m + k \in 1 .. m + n /\ ~(m + k <= m) /\ (m + k) - m = k
    BY <1>4
  <2> QED
    BY <1>3, <1>4, <2>1
<1>8. DOMAIN u = 1 .. m + n /\ DOMAIN s = 1 .. m /\ DOMAIN t = 1 .. n
  BY <1>1, <1>3, <1>4, LenProperties
<1>9. ToSet(u) = ToSet(s) \cup ToSet(t)
  <2>1. \A k \in 1 .. m + n : \/ k \in 1 .. m
                              \/ \E j \in 1 .. n : k = m + j
    <3> SUFFICES ASSUME NEW k \in 1 .. m + n, k \notin 1 .. m
                 PROVE  \E j \in 1 .. n : k = m + j
      OBVIOUS
    <3>1. k - m \in 1 .. n /\ k = m + (k - m)
      OBVIOUS
    <3> QED
      BY <3>1
  <2>2. \A k \in 1 .. m : k \in 1 .. m + n
    OBVIOUS
  <2>3. \A k \in 1 .. n : m + k \in 1 .. m + n
    OBVIOUS
  <2>4. ToSet(u) \subseteq ToSet(s) \cup ToSet(t)
    <3> SUFFICES ASSUME NEW v \in ToSet(u) PROVE v \in ToSet(s) \cup ToSet(t)
      OBVIOUS
    <3>1. PICK k \in 1 .. m + n : v = u[k]
      BY <1>8, Zenon DEF ToSet
    <3>2. CASE k \in 1 .. m
      BY <1>6, <1>8, <3>1, <3>2, Zenon DEF ToSet
    <3>3. CASE k \notin 1 .. m
      <4>1. PICK j \in 1 .. n : k = m + j
        BY <2>1, <3>3
      <4>2. v = t[j]
        BY <1>7, <3>1, <4>1
      <4>3. v \in ToSet(t)
        BY <1>8, <4>2, Zenon DEF ToSet
      <4> QED
        BY <4>3
    <3> QED
      BY <3>2, <3>3
  <2>5. ToSet(s) \subseteq ToSet(u)
    BY <1>6, <1>8, <2>2, Zenon DEF ToSet
  <2>6. ToSet(t) \subseteq ToSet(u)
    BY <1>7, <1>8, <2>3, Zenon DEF ToSet
  <2> QED
    BY <2>4, <2>5, <2>6
<1>10. u \in Lists
  BY <1>3, <1>5 DEF Lists
<1> QED
  BY <1>2, <1>3, <1>4, <1>6, <1>7, <1>9, <1>10

-----------------------------------------------------------------------------
(* The sum of a row, however runs interleave on it, misses exactly the     *)
(* samples of the runs that have not come to that step; a row counts from  *)
(* the start.                                                              *)

SampleOf == [d \in CPUs |-> IF cpu[d] = Idle THEN 0 ELSE cpu[d].sample]

Owed(i) == SumOn(SampleOf, Before(i, "sum"))

SumTallies(i) == rows[i].sum + Owed(i) = SumOf(took[i])

RInv ==
    \A i \in DOMAIN rows :
        /\ rows[i].count > 0
        /\ SumTallies(i)

LEMMA SumAdd ==
    ASSUME NEW f, NEW S, IsFiniteSet(S), NEW y, y \notin S, \A x \in S : f[x] \in Nat,
           f[y] \in Nat
    PROVE  SumOn(f, S \cup {y}) = f[y] + SumOn(f, S)
<1>1. IsFiniteSet(S \cup {y}) /\ (S \cup {y}) \ {y} = S
  BY FS_AddElement
<1>2. \A x \in S \cup {y} : f[x] \in Nat
  OBVIOUS
<1>3. SumOn(f, S \cup {y}) = f[y] + SumOn(f, (S \cup {y}) \ {y})
  BY <1>1, <1>2, SumSplit
<1> QED
  BY <1>1, <1>3

LEMMA SamplesNat ==
    ASSUME TInv
    PROVE  /\ \A d \in CPUs : SampleOf[d] \in Nat
           /\ \A i : /\ Before(i, "sum") \subseteq CPUs
                    /\ IsFiniteSet(Before(i, "sum"))
                    /\ Owed(i) \in Nat
<1>1. \A d \in CPUs : SampleOf[d] \in Nat
  BY RunFields DEF SampleOf
<1>2. ASSUME NEW i
      PROVE  Before(i, "sum") \subseteq CPUs /\ IsFiniteSet(Before(i, "sum"))
  <2>1. Before(i, "sum") \subseteq CPUs
    BY DEF Before, Holders
  <2> QED
    BY <2>1, CPUsFinite, FS_Subset
<1>3. ASSUME NEW i PROVE Owed(i) \in Nat
  <2>1. \A d \in Before(i, "sum") : SampleOf[d] \in Nat
    BY <1>1, <1>2
  <2> QED
    BY <1>2, <2>1, SumNat DEF Owed
<1> QED
  BY <1>1, <1>2, <1>3

LEMMA RowSums ==
    ASSUME TInv, NEW i \in DOMAIN rows
    PROVE  /\ rows[i].sum \in Nat
           /\ SumOf(took[i]) \in Nat
           /\ IsFiniteSet(DOMAIN took[i])
<1>1. rows[i].sum \in Nat
  BY RowFields DEF RowType
<1>2. DOMAIN took[i] = 1 .. Len(took[i]) /\ Len(took[i]) \in Nat
      /\ \A k \in 1 .. Len(took[i]) : took[i][k] \in Nat
  BY RowSamples
<1>3. IsFiniteSet(1 .. Len(took[i]))
  BY <1>2, FS_Interval
<1> QED
  BY <1>1, <1>2, <1>3, SumNat DEF SumOf

\* A step that leaves the runs before the sum, and their samples, as they are.
LEMMA OwedKept ==
    ASSUME TInv, NEW i, Before(i, "sum")' = Before(i, "sum"),
           \A d \in Before(i, "sum") : cpu'[d] # Idle /\ cpu'[d].sample = cpu[d].sample
    PROVE  Owed(i)' = Owed(i)
<1>1. Before(i, "sum") \subseteq CPUs /\ IsFiniteSet(Before(i, "sum"))
  BY SamplesNat
<1>2. \A d \in Before(i, "sum") : SampleOf'[d] = SampleOf[d]
  BY <1>1 DEF SampleOf, Before, Holders
<1>3. PICK S, f, g : S = Before(i, "sum") /\ f = SampleOf /\ g = SampleOf'
  OBVIOUS
<1>4. SumOn(f, S) = SumOn(g, S)
  BY <1>1, <1>2, <1>3, SumAgree
<1>5. Owed(i)' = SumOn(SampleOf', Before(i, "sum")')
  BY DEF Owed
<1> QED
  BY <1>3, <1>4, <1>5 DEF Owed

\* A step of a run on a row.
RowStep(c, s) ==
    /\ At(c, s)
    /\ Advance(c)
    /\ UNCHANGED <<table, copy, took>>
    /\ DOMAIN rows' = DOMAIN rows
    /\ \A i \in DOMAIN rows :
           /\ rows'[i].count \in {rows[i].count, rows[i].count + 1}
           /\ rows'[i].sum = IF i = cpu[c].row /\ s = "sum"
                             THEN rows[i].sum + cpu[c].sample ELSE rows[i].sum

LEMMA WriteIsStep ==
    ASSUME TInv, NEW c \in CPUs,
           AddSum(c) \/ AddCount(c) \/ AddHist(c) \/ StoreMin(c) \/ StoreMax(c)
    PROVE  \E s \in StepNames : RowStep(c, s)
<1>1. cpu[c] # Idle /\ cpu[c].row # 0
  BY DEF AddSum, AddCount, AddHist, StoreMin, StoreMax, At
<1>2. /\ Found(c) \in RowType
      /\ cpu[c].sample \in Nat
      /\ Bucket(cpu[c].sample) \in Buckets
  BY <1>1, FoundType, RunFields, BucketType
<1>3. PICK s \in StepNames, new \in RowType :
          /\ At(c, s) /\ Write(c, new)
          /\ new.count \in {Found(c).count, Found(c).count + 1}
          /\ new.sum = IF s = "sum" THEN Found(c).sum + cpu[c].sample ELSE Found(c).sum
  <2>1. CASE AddSum(c)
    <3> DEFINE new == [Found(c) EXCEPT !.sum = Found(c).sum + cpu[c].sample]
    <3>1. /\ At(c, "sum") /\ Write(c, new) /\ new \in RowType
          /\ new.count = Found(c).count /\ new.sum = Found(c).sum + cpu[c].sample
      BY <1>2, <2>1, NewFields DEF AddSum, RowType
    <3> HIDE DEF new
    <3> QED
      BY <3>1 DEF StepNames
  <2>2. CASE AddCount(c)
    <3> DEFINE new == [Found(c) EXCEPT !.count = Found(c).count + 1]
    <3>1. /\ At(c, "count") /\ Write(c, new) /\ new \in RowType
          /\ new.count = Found(c).count + 1 /\ new.sum = Found(c).sum
      BY <1>2, <2>2, NewFields DEF AddCount, RowType
    <3> HIDE DEF new
    <3> QED
      BY <3>1 DEF StepNames
  <2>3. CASE AddHist(c)
    <3> DEFINE b0 == Bucket(cpu[c].sample)
               h == [Found(c).hist EXCEPT ![b0] = Found(c).hist[b0] + 1]
               new == [Found(c) EXCEPT !.hist = h]
    <3>1. /\ At(c, "hist") /\ Write(c, new) /\ new \in RowType
          /\ new.count = Found(c).count /\ new.sum = Found(c).sum
      BY <1>2, <2>3, NewFields DEF AddHist, RowType
    <3> HIDE DEF new, h
    <3> QED
      BY <3>1 DEF StepNames
  <2>4. CASE StoreMin(c)
    <3> DEFINE new == [Found(c) EXCEPT !.min = U32(cpu[c].sample)]
    <3>1. /\ At(c, "min") /\ Write(c, new) /\ new \in RowType
          /\ new.count = Found(c).count /\ new.sum = Found(c).sum
      BY <1>2, <2>4, NewFields DEF StoreMin, RowType
    <3> HIDE DEF new
    <3> QED
      BY <3>1 DEF StepNames
  <2>5. CASE StoreMax(c)
    <3> DEFINE new == [Found(c) EXCEPT !.max = U32(cpu[c].sample)]
    <3>1. /\ At(c, "max") /\ Write(c, new) /\ new \in RowType
          /\ new.count = Found(c).count /\ new.sum = Found(c).sum
      BY <1>2, <2>5, NewFields DEF StoreMax, RowType
    <3> HIDE DEF new
    <3> QED
      BY <3>1 DEF StepNames
  <2> QED
    BY <2>1, <2>2, <2>3, <2>4, <2>5
<1>4. /\ rows' \in Seq(RowType) /\ Len(rows') = Len(rows)
      /\ rows'[cpu[c].row] = new
      /\ \A i \in 1 .. Len(rows) : i # cpu[c].row => rows'[i] = rows[i]
      /\ UNCHANGED <<table, copy, took>> /\ Advance(c)
  BY <1>1, <1>3, RowWritten DEF Write
<1>5. DOMAIN rows = 1 .. Len(rows) /\ DOMAIN rows' = DOMAIN rows
  BY <1>4, LenProperties DEF TInv, TypeOK
<1>6. Found(c) = rows[cpu[c].row]
  BY DEF Found
<1>7. ASSUME NEW i \in DOMAIN rows
      PROVE  /\ rows'[i].count \in {rows[i].count, rows[i].count + 1}
             /\ rows'[i].sum = IF i = cpu[c].row /\ s = "sum"
                               THEN rows[i].sum + cpu[c].sample ELSE rows[i].sum
  BY <1>3, <1>4, <1>5, <1>6
<1> QED
  BY <1>3, <1>4, <1>5, <1>7 DEF RowStep
LEMMA StepSums ==
    ASSUME TInv, RInv, NEW c \in CPUs, NEW s \in StepNames, RowStep(c, s)
    PROVE  RInv'
<1>1. /\ At(c, s) /\ Advance(c) /\ UNCHANGED <<table, took>>
      /\ cpu[c] # Idle /\ cpu[c].step = Order[s] /\ cpu[c].sample \in Nat
      /\ DOMAIN rows' = DOMAIN rows
  BY AtRun DEF RowStep, At
<1>2. "sum" \in StepNames
  BY DEF StepNames
<1>3. ASSUME NEW i \in DOMAIN rows PROVE rows'[i].count > 0
  BY <1>3, RowFields DEF RInv, RowStep
<1>4. ASSUME NEW i \in DOMAIN rows PROVE SumTallies(i)'
  <2>1. PICK S, T : S = Before(i, "sum") /\ T = Before(i, "sum")'
    OBVIOUS
  <2>2. /\ T = IF s = "sum" THEN S \ {c} ELSE S
        /\ S \subseteq CPUs /\ IsFiniteSet(S) /\ IsFiniteSet(T)
    BY <1>1, <1>2, <2>1, AdvanceLeaves, SamplesNat, FS_Subset
  <2>3. \A d \in T : cpu'[d] # Idle /\ cpu'[d].sample = cpu[d].sample /\ d \in CPUs
    <3>1. \A d \in CPUs : cpu'[d] # Idle => cpu'[d].sample = cpu[d].sample
      BY <1>1, AdvanceRun
    <3> QED
      BY <2>1, <3>1 DEF Before, Holders
  <2>4. /\ rows[i].sum + Owed(i) = SumOf(took[i])
        /\ rows[i].sum \in Nat /\ Owed(i) \in Nat
    BY RowSums, SamplesNat DEF RInv, SumTallies
  <2>5. CASE i = cpu[c].row /\ s = "sum"
    <3>1. c \in S
      <4>1. Order[s] \in 1 .. 5
        BY OrderFacts
      <4> QED
        BY <1>1, <2>1, <2>5, <4>1 DEF Before, Holders
    <3>2. PICK f, g : f = SampleOf /\ g = SampleOf'
      OBVIOUS
    <3>3. /\ \A d \in S : f[d] \in Nat
          /\ f[c] = cpu[c].sample
          /\ \A d \in T : f[d] = g[d]
      <4>1. \A d \in T : d \in S
        BY <2>2
      <4>2. \A d \in S : cpu[d] # Idle
        BY <2>1 DEF Before, Holders
      <4> QED
        BY <1>1, <2>2, <2>3, <3>2, <4>1, <4>2, SamplesNat DEF SampleOf
    <3>4. SumOn(f, S) = f[c] + SumOn(f, S \ {c})
      BY <2>2, <3>1, <3>3, SumSplit
    <3>5. SumOn(f, T) = SumOn(g, T)
      BY <2>2, <3>3, SumAgree
    <3>6. Owed(i)' = SumOn(g, T) /\ Owed(i) = SumOn(f, S)
      BY <2>1, <3>2 DEF Owed
    <3>7. S \ {c} = T /\ IsFiniteSet(T)
      BY <2>2, <2>5
    <3>8. Owed(i) = cpu[c].sample + Owed(i)' /\ SumOn(f, T) \in Nat
      <4>1. \A d \in T : f[d] \in Nat
        BY <2>2, <3>3
      <4> QED
        BY <3>3, <3>4, <3>5, <3>6, <3>7, <4>1, SumNat
    <3>9. Owed(i)' \in Nat
      BY <3>5, <3>6, <3>8
    <3>10. rows'[i].sum = rows[i].sum + cpu[c].sample
      BY <2>5 DEF RowStep
    <3>11. SumOf(took[i])' = SumOf(took[i])
      BY <1>1 DEF SumOf
    <3> QED
      BY <1>1, <2>4, <3>8, <3>9, <3>10, <3>11 DEF SumTallies
  <2>6. CASE ~(i = cpu[c].row /\ s = "sum")
    <3>1. T = S
      <4>1. i # cpu[c].row => c \notin S
        BY <2>1 DEF Before, Holders
      <4> QED
        BY <2>2, <2>6, <4>1
    <3>2. Owed(i)' = Owed(i)
      BY <2>1, <2>3, <3>1, OwedKept
    <3>3. rows'[i].sum = rows[i].sum
      BY <2>6 DEF RowStep
    <3>4. SumOf(took[i])' = SumOf(took[i])
      BY <1>1 DEF SumOf
    <3> QED
      BY <2>4, <3>2, <3>3, <3>4 DEF SumTallies
  <2> QED
    BY <2>5, <2>6
<1> QED
  BY <1>1, <1>3, <1>4 DEF RInv

\* A comparison that tells the run to store.
LEMMA TestSums ==
    ASSUME TInv, RInv, NEW c \in CPUs, NEW f \in {"min", "max"}, NEW smaller,
           Test(c, f, smaller)
    PROVE  RInv'
<1>1. /\ cpu[c] # Idle /\ At(c, f) /\ f \in StepNames
      /\ UNCHANGED <<table, rows, copy, took>>
  BY DEF Test, At, StepNames
<1>2. CASE ~smaller
  <2>1. \A i \in DOMAIN rows : rows'[i].sum = rows[i].sum /\ rows'[i].count = rows[i].count
    BY <1>1
  <2>2. f # "sum" /\ Advance(c)
    BY <1>2 DEF Test
  <2>3. RowStep(c, f)
    BY <1>1, <2>1, <2>2 DEF RowStep
  <2> QED
    BY <1>1, <2>3, StepSums
<1>3. CASE smaller
  <2> DEFINE on == RunAt(cpu[c].sample, cpu[c].row, cpu[c].step, TRUE)
  <2>1. cpu' = [cpu EXCEPT ![c] = on] /\ cpu \in [CPUs -> {Idle} \cup Run]
    BY <1>3 DEF Test, TInv, TypeOK
  <2>2. /\ on.row = cpu[c].row /\ on.sample = cpu[c].sample
        /\ on.step = cpu[c].step /\ on # Idle
    <3>1. Idle.pc = "idle" /\ on.pc = "run"
      BY DEF Idle, RunAt
    <3> QED
      BY <3>1 DEF RunAt
  <2> HIDE DEF on
  <2>3. \A d \in CPUs : /\ cpu'[d] # Idle <=> cpu[d] # Idle
                        /\ cpu[d] # Idle => /\ cpu'[d].row = cpu[d].row
                                            /\ cpu'[d].sample = cpu[d].sample
                                            /\ cpu'[d].step = cpu[d].step
    BY <1>1, <2>1, <2>2
  <2>4. Order' = Order
    BY <1>1 DEF Order
  <2>5. ASSUME NEW i \in DOMAIN rows PROVE Owed(i)' = Owed(i)
    <3>1. Before(i, "sum")' = Before(i, "sum")
      BY <2>3, <2>4 DEF Before, Holders
    <3>2. \A d \in Before(i, "sum") : cpu'[d] # Idle /\ cpu'[d].sample = cpu[d].sample
      BY <2>3 DEF Before, Holders
    <3> QED
      BY <3>1, <3>2, OwedKept
  <2>6. ASSUME NEW i \in DOMAIN rows PROVE SumTallies(i)'
    BY <1>1, <2>5 DEF RInv, SumTallies, SumOf
  <2> QED
    BY <1>1, <2>6 DEF RInv
<1> QED
  BY <1>2, <1>3

\* What user space does with copies.
LEMMA FrameSums ==
    ASSUME TInv, RInv, UNCHANGED <<table, rows, cpu, took>>
    PROVE  RInv'
<1>1. ASSUME NEW i \in DOMAIN rows PROVE Owed(i)' = Owed(i)
  BY DEF Owed, SampleOf, Before, Holders, Order
<1> QED
  BY <1>1 DEF RInv, SumTallies, SumOf

\* A lookup enters its sample in the history of the newest row.
LEMMA LookupTook ==
    ASSUME TInv, NEW c \in CPUs, NEW v \in Samples, Lookup(c, v), NEW i \in DOMAIN rows
    PROVE  /\ Begins(c, v, Len(rows))
           /\ Grows(i)
           /\ i # Len(rows) => took'[i] = took[i]
           /\ i = Len(rows) =>
                  /\ DOMAIN took'[i] = 1 .. Len(took[i]) + 1
                  /\ \A k \in 1 .. Len(took[i]) : took'[i][k] = took[i][k]
                  /\ took'[i][Len(took[i]) + 1] = v
<1>1. PICK n \in Nat : n = Len(rows) /\ DOMAIN rows = 1 .. n /\ rows # <<>>
  <2>1. Len(rows) \in Nat /\ DOMAIN rows = 1 .. Len(rows)
    BY LenProperties DEF TInv, TypeOK
  <2>2. rows # <<>>
    BY <2>1, EmptySeq
  <2> QED
    BY <2>1, <2>2
<1>2. n \in 1 .. n /\ took \in Seq(Seq(Samples)) /\ Len(took) = n
  BY <1>1 DEF TInv, TypeOK, PointersHold
<1>3. took[i] \in Seq(Samples) /\ took[n] \in Seq(Samples)
  BY <1>1, <1>2, ElementOfSeq
<1>4. Append(took[n], v) \in Seq(Samples)
  BY <1>3, AppendProperties
<1>5. took' = [took EXCEPT ![n] = Append(took[n], v)]
  BY <1>1 DEF Lookup
<1>6. took'[n] = Append(took[n], v) /\ (i # n => took'[i] = took[i])
  BY <1>1, <1>2, <1>4, <1>5, ExceptSeq
<1>7. Begins(c, v, Len(rows))
  BY <1>1 DEF Begins, Lookup
<1>8. CASE i # n
  BY <1>1, <1>6, <1>7, <1>8 DEF Grows
<1>9. CASE i = n
  <2>1. took'[i] = Append(took[i], v)
    BY <1>6, <1>9
  <2>2. /\ DOMAIN took[i] = 1 .. Len(took[i]) /\ Len(took[i]) \in Nat
        /\ DOMAIN took'[i] = 1 .. Len(took[i]) + 1
        /\ \A k \in 1 .. Len(took[i]) : took'[i][k] = took[i][k]
        /\ took'[i][Len(took[i]) + 1] = v
    BY <1>3, <2>1, AppendProperties, LenProperties
  <2> QED
    BY <1>1, <1>7, <1>9, <2>2 DEF Grows
<1> QED
  BY <1>8, <1>9

LEMMA BeginSum ==
    ASSUME TInv, NEW c \in CPUs, NEW v, NEW n, Begins(c, v, n), NEW i
    PROVE  /\ c \notin Before(i, "sum")
           /\ Before(i, "sum")' = IF i = n THEN Before(i, "sum") \cup {c}
                                  ELSE Before(i, "sum")
           /\ cpu'[c] # Idle /\ cpu'[c].sample = v
           /\ \A d \in CPUs \ {c} : cpu'[d] = cpu[d]
<1> DEFINE on == RunAt(v, n, 1, FALSE)
<1>1. on.row = n /\ on.sample = v /\ on.step = 1 /\ on # Idle
  <2>1. Idle.pc = "idle" /\ on.pc = "run"
    BY DEF Idle, RunAt
  <2> QED
    BY <2>1 DEF RunAt
<1>2. /\ cpu' = [cpu EXCEPT ![c] = on] /\ cpu \in [CPUs -> {Idle} \cup Run]
      /\ cpu[c] = Idle /\ table' = table
  BY DEF Begins, TInv, TypeOK
<1> HIDE DEF on
<1>3. cpu'[c] = on /\ \A d \in CPUs \ {c} : cpu'[d] = cpu[d]
  BY <1>2
<1>4. Order' = Order /\ 1 <= Order["sum"]
  BY <1>2, OrderFacts DEF Order, StepNames
<1>5. c \notin Before(i, "sum")
  BY <1>2 DEF Before, Holders
<1>6. c \in Before(i, "sum")' <=> i = n
  BY <1>1, <1>3, <1>4 DEF Before, Holders
<1>7. \A d \in CPUs \ {c} : d \in Before(i, "sum")' <=> d \in Before(i, "sum")
  BY <1>3, <1>4 DEF Before, Holders
<1>8. Before(i, "sum") \subseteq CPUs /\ Before(i, "sum")' \subseteq CPUs
  BY DEF Before, Holders
<1> QED
  BY <1>1, <1>3, <1>5, <1>6, <1>7, <1>8

\* A list that is longer by one.
LEMMA SumLonger ==
    ASSUME NEW s, NEW t, NEW n \in Nat, DOMAIN s = 1 .. n, DOMAIN t = 1 .. n + 1,
           \A k \in 1 .. n : s[k] \in Nat /\ t[k] = s[k], t[n + 1] \in Nat
    PROVE  SumOf(t) = t[n + 1] + SumOf(s)
<1>1. PICK S : S = 1 .. n /\ IsFiniteSet(S)
  BY FS_Interval
<1>2. PICK y \in Nat : y = n + 1 /\ y \notin S /\ S \cup {y} = 1 .. n + 1
  BY <1>1
<1>3. \A x \in S : t[x] \in Nat
  BY <1>1
<1>4. SumOn(t, S \cup {y}) = t[y] + SumOn(t, S)
  BY <1>1, <1>2, <1>3, SumAdd
<1>5. SumOn(t, S) = SumOn(s, S)
  BY <1>1, SumAgree
<1> QED
  BY <1>1, <1>2, <1>4, <1>5 DEF SumOf

LEMMA LookupSums ==
    ASSUME TInv, RInv, NEW c \in CPUs, NEW v \in Samples, Lookup(c, v)
    PROVE  RInv'
<1>1. rows' = rows /\ v \in Nat
  BY SamplesAre DEF Lookup
<1>2. ASSUME NEW i \in DOMAIN rows PROVE SumTallies(i)'
  <2>1. /\ rows[i].sum + Owed(i) = SumOf(took[i])
        /\ rows[i].sum \in Nat /\ Owed(i) \in Nat
    BY RowSums, SamplesNat DEF RInv, SumTallies
  <2>2. Begins(c, v, Len(rows))
    BY <1>2, LookupTook
  <2>3. CASE i # Len(rows)
    <3>1. Before(i, "sum")' = Before(i, "sum")
      BY <2>2, <2>3, BeginSum
    <3>2. \A d \in Before(i, "sum") : d # c /\ d \in CPUs /\ cpu[d] # Idle
      BY <2>2, BeginSum DEF Before, Holders
    <3>3. \A d \in Before(i, "sum") : cpu'[d] # Idle /\ cpu'[d].sample = cpu[d].sample
      BY <2>2, <3>2, BeginSum
    <3>4. Owed(i)' = Owed(i)
      BY <3>1, <3>3, OwedKept
    <3>5. SumOf(took[i])' = SumOf(took[i])
      <4>1. took'[i] = took[i]
        BY <2>3, LookupTook
      <4> QED
        BY <4>1 DEF SumOf
    <3> QED
      BY <1>1, <2>1, <3>4, <3>5 DEF SumTallies
  <2>4. CASE i = Len(rows)
    <3>1. PICK S, f, g : S = Before(i, "sum") /\ f = SampleOf /\ g = SampleOf'
      OBVIOUS
    <3>2. /\ IsFiniteSet(S) /\ c \notin S /\ S \cup {c} = Before(i, "sum")'
          /\ \A d \in S : f[d] \in Nat /\ f[d] = g[d]
          /\ g[c] = v
      <4>1. \A d \in S : d # c /\ d \in CPUs /\ cpu[d] # Idle
        BY <2>2, <3>1, BeginSum DEF Before, Holders
      <4>2. \A d \in S : cpu'[d] = cpu[d]
        BY <2>2, <4>1, BeginSum
      <4>3. g[c] = v
        BY <2>2, <3>1, BeginSum DEF SampleOf
      <4>4. \A d \in S : f[d] \in Nat /\ f[d] = g[d]
        BY <3>1, <4>1, <4>2, SamplesNat DEF SampleOf
      <4>5. IsFiniteSet(S) /\ c \notin S /\ S \cup {c} = Before(i, "sum")'
        BY <2>2, <2>4, <3>1, BeginSum, SamplesNat
      <4> QED
        BY <4>3, <4>4, <4>5
    <3>3. SumOn(g, S \cup {c}) = g[c] + SumOn(g, S)
      <4>1. g[c] \in Nat /\ \A d \in S : g[d] \in Nat
        BY <1>1, <3>2
      <4> QED
        BY <3>2, <4>1, SumAdd
    <3>4. SumOn(f, S) = SumOn(g, S)
      BY <3>2, SumAgree
    <3>5. Owed(i)' = SumOn(g, S \cup {c}) /\ Owed(i) = SumOn(f, S)
      BY <3>1, <3>2 DEF Owed
    <3>6. Owed(i)' = v + Owed(i)
      BY <3>2, <3>3, <3>4, <3>5
    <3>7. SumOf(took'[i]) = v + SumOf(took[i])
      <4>1. /\ Len(took[i]) \in Nat /\ DOMAIN took[i] = 1 .. Len(took[i])
            /\ \A k \in 1 .. Len(took[i]) : took[i][k] \in Nat
        BY RowSamples
      <4>2. PICK n \in Nat : n = Len(took[i])
        BY <4>1
      <4>3. /\ DOMAIN took'[i] = 1 .. n + 1 /\ took'[i][n + 1] = v
            /\ \A k \in 1 .. n : took'[i][k] = took[i][k]
        BY <2>4, <4>2, LookupTook
      <4>4. SumOf(took'[i]) = took'[i][n + 1] + SumOf(took[i])
        BY <1>1, <4>1, <4>2, <4>3, SumLonger
      <4> QED
        BY <4>3, <4>4
    <3>8. SumOf(took[i])' = SumOf(took'[i])
      BY DEF SumOf
    <3>9. rows[i].sum + (v + Owed(i)) = v + SumOf(took[i])
      BY <1>1, <2>1
    <3> QED
      BY <1>1, <3>6, <3>7, <3>8, <3>9 DEF SumTallies
  <2> QED
    BY <2>3, <2>4
<1> QED
  BY <1>1, <1>2 DEF RInv

\* An insertion: the older rows, their histories and the runs on them stay.
LEMMA InsertRows ==
    ASSUME TInv, NEW c \in CPUs, Insert(c)
    PROVE  \E n \in Nat, v \in Samples :
               /\ n = Len(rows) /\ DOMAIN rows = 1 .. n
               /\ DOMAIN rows' = 1 .. n + 1
               /\ rows'[n + 1] = NewRow(v) /\ took'[n + 1] = <<v>>
               /\ \A i \in 1 .. n : rows'[i] = rows[i] /\ took'[i] = took[i]
               /\ Holders(n + 1) = {}
               /\ \A i \in 1 .. n + 1 : /\ Holders(i)' = Holders(i)
                                        /\ \A d \in Holders(i) : cpu'[d] = cpu[d]
<1>n. PICK n \in Nat : n = Len(rows)
  BY LenProperties DEF TInv, TypeOK
<1>v. PICK v \in Samples : v = cpu[c].sample
  BY RunFields DEF Insert
<1>1. /\ rows \in Seq(RowType) /\ took \in Seq(Seq(Samples))
      /\ Len(rows) = n /\ Len(took) = n
      /\ DOMAIN rows = 1 .. n
      /\ NewRow(v) \in RowType /\ <<v>> \in Seq(Samples)
  BY <1>n, NewRowType, SamplesAre, LenProperties DEF TInv, TypeOK, PointersHold
<1>2. /\ rows' = Append(rows, NewRow(v)) /\ took' = Append(took, <<v>>)
      /\ cpu' = [cpu EXCEPT ![c] = Idle]
  BY <1>v DEF Insert
<1>3. /\ DOMAIN rows' = 1 .. n + 1
      /\ rows'[n + 1] = NewRow(v) /\ took'[n + 1] = <<v>>
      /\ \A i \in 1 .. n : rows'[i] = rows[i] /\ took'[i] = took[i]
  BY <1>1, <1>2, AppendProperties, LenProperties
<1>4. /\ cpu \in [CPUs -> {Idle} \cup Run] /\ cpu[c] # Idle /\ cpu[c].row = 0
      /\ \A d \in CPUs : cpu[d] # Idle => cpu[d].row \in 0 .. n
  BY <1>n, RunFields DEF Insert, TInv, TypeOK
<1>5. ASSUME NEW i \in 1 .. n + 1
      PROVE  /\ Holders(i)' = Holders(i)
             /\ \A d \in Holders(i) : cpu'[d] = cpu[d]
             /\ i = n + 1 => Holders(i) = {}
  BY <1>2, <1>4 DEF Holders
<1>6. Holders(n + 1) = {}
  BY <1>5
<1> QED
  BY <1>1, <1>3, <1>5, <1>6

LEMMA InsertSums ==
    ASSUME TInv, RInv, NEW c \in CPUs, Insert(c)
    PROVE  RInv'
<1>1. PICK n \in Nat, v \in Samples :
          /\ n = Len(rows) /\ DOMAIN rows = 1 .. n
          /\ DOMAIN rows' = 1 .. n + 1
          /\ rows'[n + 1] = NewRow(v) /\ took'[n + 1] = <<v>>
          /\ \A i \in 1 .. n : rows'[i] = rows[i] /\ took'[i] = took[i]
          /\ Holders(n + 1) = {}
          /\ \A i \in 1 .. n + 1 : /\ Holders(i)' = Holders(i)
                                   /\ \A d \in Holders(i) : cpu'[d] = cpu[d]
  BY InsertRows
<1>2. v \in Nat /\ Order' = Order
  BY SamplesAre DEF Insert, Order
<1>3. \A i \in 1 .. n + 1 : Before(i, "sum")' = Before(i, "sum")
  BY <1>1, <1>2 DEF Before
<1>4. ASSUME NEW i \in 1 .. n PROVE SumTallies(i)' /\ rows'[i].count > 0
  <2>1. i \in 1 .. n + 1 /\ i \in DOMAIN rows
    BY <1>1
  <2>2. \A d \in Before(i, "sum") : cpu'[d] # Idle /\ cpu'[d].sample = cpu[d].sample
    BY <1>1, <2>1 DEF Before, Holders
  <2>3. Owed(i)' = Owed(i)
    BY <1>3, <2>1, <2>2, OwedKept
  <2>4. SumTallies(i) /\ rows[i].count > 0
    BY <2>1 DEF RInv
  <2>5. SumOf(took[i])' = SumOf(took[i])
    BY <1>1 DEF SumOf
  <2> QED
    BY <1>1, <2>3, <2>4, <2>5 DEF SumTallies
<1>5. ASSUME NEW i, i = n + 1 PROVE SumTallies(i)' /\ rows'[i].count > 0
  <2>1. rows'[i].sum = v /\ rows'[i].count = 1
    BY <1>1, <1>5 DEF NewRow
  <2>2. Before(i, "sum")' = {}
    <3>1. i \in 1 .. n + 1
      BY <1>5
    <3>2. Before(i, "sum") = {}
      BY <1>1, <1>5 DEF Before
    <3> QED
      BY <1>3, <3>1, <3>2
  <2>3. Owed(i)' = 0
    <3>1. Owed(i)' = SumOn(SampleOf', {})
      BY <2>2 DEF Owed
    <3> QED
      BY <3>1, SumEmpty
  <2>4. SumOf(took[i])' = v
    <3>1. PICK t : t = took'[i] /\ t = <<v>>
      BY <1>1, <1>5
    <3>a. DOMAIN t = {1} /\ t[1] = v
      BY <3>1
    <3>b. IsFiniteSet({1}) /\ {1} \ {1} = {}
      BY FS_Singleton
    <3>2. DOMAIN t = {1} /\ t[1] = v /\ IsFiniteSet({1}) /\ {1} \ {1} = {}
      BY <3>a, <3>b
    <3>3. SumOn(t, {1}) = t[1] + SumOn(t, {1} \ {1})
      BY <1>2, <3>2, SumSplit
    <3>4. SumOn(t, {}) = 0
      BY SumEmpty
    <3>5. SumOn(t, {1}) = v
      BY <1>2, <3>2, <3>3, <3>4
    <3> QED
      BY <3>1, <3>2, <3>5 DEF SumOf
  <2> QED
    BY <1>2, <2>1, <2>3, <2>4 DEF SumTallies
<1>6. ASSUME NEW i \in DOMAIN rows' PROVE SumTallies(i)' /\ rows'[i].count > 0
  <2>1. i \in 1 .. n \/ i = n + 1
    BY <1>1
  <2> QED
    BY <1>4, <1>5, <2>1
<1> QED
  BY <1>6 DEF RInv

LEMMA NextSums == TInv /\ RInv /\ [Next]_vars => RInv'
<1> SUFFICES ASSUME TInv, RInv, [Next]_vars PROVE RInv'
  OBVIOUS
<1>1. ASSUME NEW c \in CPUs, NEW v \in Samples, Lookup(c, v) PROVE RInv'
  BY <1>1, LookupSums
<1>2. ASSUME NEW c \in CPUs, Insert(c) PROVE RInv'
  BY <1>2, InsertSums
<1>3. ASSUME NEW c \in CPUs, TestMin(c) \/ TestMax(c) PROVE RInv'
  BY <1>3, TestSums DEF TestMin, TestMax
<1>4. ASSUME NEW c \in CPUs,
             AddSum(c) \/ AddCount(c) \/ AddHist(c) \/ StoreMin(c) \/ StoreMax(c)
      PROVE  RInv'
  <2>1. PICK s \in StepNames : RowStep(c, s)
    BY <1>4, WriteIsStep
  <2> QED
    BY <2>1, StepSums
<1>5. CASE \/ CopyBegins \/ CopyEnds \/ UNCHANGED vars
           \/ \E f \in Fields : CopyField(f)
           \/ \E w \in Pairs : CopyPair(w)
  <2>1. UNCHANGED <<table, rows, cpu, took>>
    BY <1>5 DEF CopyBegins, CopyEnds, CopyField, CopyPair, Copying, vars
  <2> QED
    BY <2>1, FrameSums
<1> QED
  BY <1>1, <1>2, <1>3, <1>4, <1>5 DEF Next

LEMMA Summed == Spec => []RInv
<1>1. Init => RInv
  BY EmptySeq DEF Init, RInv
<1>2. TInv /\ RInv /\ [Next]_vars => RInv'
  BY NextSums
<1> QED
  BY <1>1, <1>2, Typed, PTL DEF Spec

-----------------------------------------------------------------------------
(* A copy, however torn, holds nothing the row's samples do not back.      *)

\* What is known of the words copied so far from row i.
Backed(i, x, left) ==
    /\ "count" \notin left => x.count > 0
    /\ "extremes" \notin left /\ Plain(i) => In(i, x.max)
    /\ \A b \in Buckets : x.hist[b] > 0 => InBucket(i, b) # {}

CInv == copy # NoCopy => Backed(copy.of, copy.val, copy.left)

\* A history never loses or changes a sample.
LEMMA NextGrows ==
    ASSUME TInv, [Next]_vars, NEW i \in DOMAIN rows
    PROVE  Grows(i)
<1>1. ASSUME NEW c \in CPUs, NEW v \in Samples, Lookup(c, v) PROVE Grows(i)
  BY <1>1, LookupTook
<1>2. ASSUME NEW c \in CPUs, Insert(c) PROVE Grows(i)
  <2>1. took'[i] = took[i]
    BY <1>2, InsertRows
  <2> QED
    BY <2>1 DEF Grows
<1>3. ASSUME UNCHANGED took PROVE Grows(i)
  BY <1>3 DEF Grows
<1>4. ASSUME NEW c \in CPUs,
             \/ AddSum(c) \/ AddCount(c) \/ AddHist(c) \/ StoreMin(c) \/ StoreMax(c)
             \/ TestMin(c) \/ TestMax(c)
      PROVE  UNCHANGED took
  BY <1>4 DEF AddSum, AddCount, AddHist, StoreMin, StoreMax, TestMin, TestMax, Test, Write
<1>5. ASSUME \/ CopyBegins \/ CopyEnds \/ UNCHANGED vars
             \/ \E f \in Fields : CopyField(f)
             \/ \E w \in Pairs : CopyPair(w)
      PROVE  UNCHANGED took
  BY <1>5 DEF CopyBegins, CopyEnds, CopyField, CopyPair, Copying, vars
<1> QED
  BY <1>1, <1>2, <1>3, <1>4, <1>5 DEF Next

LEMMA BackedKept ==
    ASSUME NEW i, NEW x, NEW left, Grows(i), Backed(i, x, left)
    PROVE  Backed(i, x, left)'
<1>1. \A b : InBucket(i, b) # {} => InBucket(i, b)' # {}
  BY DEF Grows, InBucket
<1>2. (Plain(i)' => Plain(i)) /\ \A v : In(i, v) => In(i, v)'
  BY GrowingKeeps
<1>3. In(i, x.max) => In(i, x.max)'
  BY <1>2 DEF In
<1> QED
  BY <1>1, <1>2, <1>3 DEF Backed

LEMMA NextBacked ==
    TInv /\ CountsTally /\ BInv /\ RInv /\ CInv /\ [Next]_vars => CInv'
<1> SUFFICES ASSUME TInv, CountsTally, BInv, RInv, CInv, [Next]_vars PROVE CInv'
  OBVIOUS
<1>1. CASE UNCHANGED copy
  <2> SUFFICES ASSUME copy # NoCopy PROVE Backed(copy.of, copy.val, copy.left)'
    BY <1>1 DEF CInv
  <2>1. copy.of \in DOMAIN rows
    BY CopyFields, LenProperties DEF TInv, TypeOK
  <2>2. PICK i, x, left : i = copy.of /\ x = copy.val /\ left = copy.left
    OBVIOUS
  <2>3. Backed(i, x, left)'
    <3>1. Grows(i) /\ Backed(i, x, left)
      BY <2>1, <2>2, NextGrows DEF CInv
    <3> QED
      BY <3>1, BackedKept
  <2> QED
    BY <1>1, <2>2, <2>3 DEF Backed
<1>2. CASE CopyEnds
  BY <1>2 DEF CopyEnds, CInv
<1>3. CASE CopyBegins
  <2>1. copy' = [of |-> Len(rows), val |-> Cleared, left |-> Fields, pairs |-> Pairs]
    BY <1>3 DEF CopyBegins, Copying
  <2>a. PICK i, x, left : i = Len(rows) /\ x = Cleared /\ left = Fields
    OBVIOUS
  <2>2. \A b \in Buckets : ~(Cleared.hist[b] > 0)
    BY DEF Cleared
  <2>3. Backed(i, x, left)'
    BY <2>2, <2>a DEF Backed, Fields
  <2>b. copy'.of = i /\ copy'.val = x /\ copy'.left = left
    BY <2>1, <2>a
  <2> QED
    BY <2>3, <2>b DEF CInv, Backed
<1>4. ASSUME copy # NoCopy
      PROVE  /\ copy.of \in DOMAIN rows
             /\ rows[copy.of].count > 0
             /\ Plain(copy.of) => In(copy.of, rows[copy.of].max)
             /\ \A b \in Buckets : rows[copy.of].hist[b] > 0 => InBucket(copy.of, b) # {}
  <2>1. copy.of \in DOMAIN rows
    BY <1>4, CopyFields, LenProperties DEF TInv, TypeOK
  <2>2. ASSUME NEW b \in Buckets, rows[copy.of].hist[b] > 0 PROVE InBucket(copy.of, b) # {}
    <3>1. rows[copy.of].hist[b] + Cardinality(Waiting(copy.of, b))
              = Cardinality(InBucket(copy.of, b))
      BY <2>1, TallyRestated DEF RowTallies
    <3>2. rows[copy.of].hist[b] \in Nat /\ Cardinality(Waiting(copy.of, b)) \in Nat
      BY <2>1, RowFields, BeforeFinite
    <3>3. Cardinality(InBucket(copy.of, b)) # 0
      BY <2>2, <3>1, <3>2
    <3> QED
      BY <3>3, FS_EmptySet
  <2> QED
    BY <2>1, <2>2 DEF RInv, BInv, RowBrackets
<1>5. ASSUME NEW f \in Fields, CopyField(f) PROVE CInv'
  <2> DEFINE r == rows[copy.of]
             val == [sum |-> IF f = "sum" THEN r.sum ELSE copy.val.sum,
                     count |-> IF f = "count" THEN r.count ELSE copy.val.count,
                     min |-> IF f = "extremes" THEN r.min ELSE copy.val.min,
                     max |-> IF f = "extremes" THEN r.max ELSE copy.val.max,
                     hist |-> copy.val.hist]
  <2>1. copy # NoCopy /\ Copying(copy.of, val, copy.left \ {f}, copy.pairs)
    BY <1>5 DEF CopyField
  <2>2. copy' = [of |-> copy.of, val |-> val, left |-> copy.left \ {f}, pairs |-> copy.pairs]
        /\ took' = took
    BY <2>1 DEF Copying
  <2>3. Backed(copy.of, copy.val, copy.left)
    BY <2>1 DEF CInv
  <2>4. /\ val.count = IF f = "count" THEN r.count ELSE copy.val.count
        /\ val.max = IF f = "extremes" THEN r.max ELSE copy.val.max
        /\ val.hist = copy.val.hist
    OBVIOUS
  <2> HIDE DEF val
  <2>5. Backed(copy.of, val, copy.left \ {f})
    BY <1>4, <2>1, <2>3, <2>4 DEF Backed
  <2>6. copy'.of = copy.of /\ copy'.val = val /\ copy'.left = copy.left \ {f}
    BY <2>2
  <2> QED
    BY <2>2, <2>5, <2>6 DEF CInv, Backed, Plain, In, InBucket
<1>6. ASSUME NEW w \in Pairs, CopyPair(w) PROVE CInv'
  <2> DEFINE h == [b \in Buckets |-> IF b \div 2 = w THEN rows[copy.of].hist[b]
                                     ELSE copy.val.hist[b]]
             val == [copy.val EXCEPT !.hist = h]
  <2>1. copy # NoCopy /\ Copying(copy.of, val, copy.left, copy.pairs \ {w})
    BY <1>6 DEF CopyPair
  <2>2. copy' = [of |-> copy.of, val |-> val, left |-> copy.left, pairs |-> copy.pairs \ {w}]
        /\ took' = took
    BY <2>1 DEF Copying
  <2>3. Backed(copy.of, copy.val, copy.left) /\ copy.val \in RowType
    BY <2>1, CopyFields DEF CInv
  <2>4. /\ val.count = copy.val.count
        /\ val.max = copy.val.max
        /\ \A b \in Buckets : val.hist[b] \in {rows[copy.of].hist[b], copy.val.hist[b]}
    BY <2>3 DEF RowType
  <2> HIDE DEF val, h
  <2>5. Backed(copy.of, val, copy.left)
    BY <1>4, <2>1, <2>3, <2>4 DEF Backed
  <2>6. copy'.of = copy.of /\ copy'.val = val /\ copy'.left = copy.left
    BY <2>2
  <2> QED
    BY <2>2, <2>5, <2>6 DEF CInv, Backed, Plain, In, InBucket
<1>7. ASSUME NEW c \in CPUs,
             \/ Insert(c) \/ (\E v \in Samples : Lookup(c, v))
             \/ AddSum(c) \/ AddCount(c) \/ AddHist(c) \/ StoreMin(c) \/ StoreMax(c)
             \/ TestMin(c) \/ TestMax(c)
      PROVE  UNCHANGED copy
  BY <1>7 DEF Lookup, Insert, AddSum, AddCount, AddHist, StoreMin, StoreMax,
              TestMin, TestMax, Test, Write
<1>8. UNCHANGED vars => UNCHANGED copy
  BY DEF vars
<1> QED
  BY <1>1, <1>2, <1>3, <1>5, <1>6, <1>7, <1>8 DEF Next

-----------------------------------------------------------------------------
(* The summary of a list, and the report that a copy went into.            *)

InList(s, b) == {k \in DOMAIN s : BucketOf(s[k]) = b}

LEMMA PlacesFinite ==
    ASSUME NEW s \in Lists, NEW T, T \subseteq DOMAIN s
    PROVE  IsFiniteSet(T) /\ Cardinality(T) \in Nat /\ (Cardinality(T) > 0 <=> T # {})
<1>1. PICK n \in Nat : DOMAIN s = 1 .. n
  BY ListIs
<1>2. IsFiniteSet(T)
  BY <1>1, FS_Interval, FS_Subset
<1> QED
  BY <1>2, FS_CardinalityType, FS_EmptySet

LEMMA SummaryIs ==
    ASSUME NEW s \in Lists
    PROVE  /\ Summary(s) \in RowType
           /\ Summary(s).sum = SumOf(s) /\ Summary(s).count = Len(s)
           /\ Summary(s).min = Least(s) /\ Summary(s).max = Greatest(s)
           /\ \A b \in Buckets : Summary(s).hist[b] = Cardinality(InList(s, b))
<1>1. /\ Len(s) \in Nat /\ DOMAIN s = 1 .. Len(s) /\ ToSet(s) \in Latencies
      /\ \A k \in 1 .. Len(s) : s[k] \in 1 .. W32 - 1
  BY ListIs
<1>2. Least(s) \in 0 .. W32 - 1 /\ Greatest(s) \in 0 .. W32 - 1
  <2>1. Min(ToSet(s)) \in ToSet(s) /\ Max(ToSet(s)) \in ToSet(s)
    BY <1>1, LatenciesAre
  <2>2. \A v \in ToSet(s) : v \in 0 .. W32 - 1
    BY <1>1, LatenciesAre
  <2> QED
    BY <2>1, <2>2 DEF Least, Greatest
<1>3. SumOf(s) \in Nat
  <2>1. IsFiniteSet(DOMAIN s)
    BY <1>1, FS_Interval
  <2>2. \A k \in DOMAIN s : s[k] \in Nat
    BY <1>1
  <2> QED
    BY <2>1, <2>2, SumNat DEF SumOf
<1>4. PICK h : h = [b \in Buckets |-> Cardinality(InList(s, b))]
  OBVIOUS
<1>5. h \in [Buckets -> Nat]
  <2>1. \A b \in Buckets : Cardinality(InList(s, b)) \in Nat
    BY PlacesFinite DEF InList
  <2> QED
    BY <1>4, <2>1
<1>6. Summary(s) = [sum |-> SumOf(s), count |-> Len(s), min |-> Least(s),
                    max |-> Greatest(s), hist |-> h]
  BY <1>4 DEF Summary, InList
<1>7. PICK x, n, l, g : x = SumOf(s) /\ n = Len(s) /\ l = Least(s) /\ g = Greatest(s)
  OBVIOUS
<1>8. [sum |-> x, count |-> n, min |-> l, max |-> g, hist |-> h] \in RowType
  BY <1>1, <1>2, <1>3, <1>5, <1>7 DEF RowType
<1> QED
  BY <1>4, <1>6, <1>7, <1>8

LEMMA SummaryDrawn ==
    ASSUME NEW s \in Lists, NEW A, ToSet(s) \subseteq A
    PROVE  Drawn(Summary(s), A)
<1>1. /\ Summary(s) \in RowType /\ Summary(s).count = Len(s) /\ Summary(s).max = Greatest(s)
      /\ \A b \in Buckets : Summary(s).hist[b] = Cardinality(InList(s, b))
  BY SummaryIs
<1>2. Len(s) > 0 /\ ToSet(s) \in Latencies
  BY ListIs
<1>3. Greatest(s) \in A
  BY <1>2, LatenciesAre DEF Greatest
<1>4. ASSUME NEW b \in Buckets, Summary(s).hist[b] > 0 PROVE \E v \in A : BucketOf(v) = b
  <2>1. InList(s, b) # {}
    BY <1>1, <1>4, PlacesFinite DEF InList
  <2>2. PICK k \in DOMAIN s : BucketOf(s[k]) = b
    BY <2>1 DEF InList
  <2>3. s[k] \in ToSet(s)
    BY Zenon DEF ToSet
  <2> QED
    BY <2>2, <2>3
<1> QED
  BY <1>1, <1>2, <1>3, <1>4 DEF Drawn

\* The history of a row whose samples are all latencies.
LEMMA TookList ==
    ASSUME TInv, BInv, NEW i \in DOMAIN rows, Plain(i)
    PROVE  took[i] \in Lists
<1>1. /\ took[i] \in Seq(Samples) /\ Len(took[i]) \in Nat
      /\ DOMAIN took[i] = 1 .. Len(took[i]) /\ 1 \in DOMAIN took[i]
  BY RowFields DEF BInv, RowBrackets
<1>2. PICK n \in Nat, s \in Seq(Samples) : n = Len(s) /\ s = took[i]
  BY <1>1
<1>3. \A k \in 1 .. n : s[k] \in 1 .. W32 - 1
  BY <1>1, <1>2 DEF Plain
<1>4. s = [k \in 1 .. n |-> s[k]]
  BY <1>2
<1>5. [k \in 1 .. n |-> s[k]] \in Seq(1 .. W32 - 1)
  BY <1>3, IsASeq
<1>6. s # <<>>
  BY <1>1, <1>2, EmptySeq
<1> QED
  BY <1>2, <1>4, <1>5, <1>6, Zenon DEF Lists

LEMMA CopyDrawn ==
    ASSUME TInv, BInv, CInv, Copied, Plain(copy.of), NEW A, ToSet(took[copy.of]) \subseteq A
    PROVE  Drawn(copy.val, A)
<1>1. PICK i \in DOMAIN rows : i = copy.of
  BY CopyFields, LenProperties DEF Copied, TInv, TypeOK
<1>2. PICK x \in RowType : x = copy.val
  BY CopyFields DEF Copied
<1>3. /\ x.count > 0 /\ In(i, x.max)
      /\ \A b \in Buckets : x.hist[b] > 0 => InBucket(i, b) # {}
  BY <1>1, <1>2 DEF CInv, Copied, Backed
<1>4. /\ DOMAIN took[i] = 1 .. Len(took[i])
      /\ \A k \in 1 .. Len(took[i]) : took[i][k] \in 1 .. W32 - 1
  BY <1>1, RowFields DEF Plain
<1>5. x.max \in A
  BY <1>1, <1>3, Zenon DEF In, ToSet
<1>6. ASSUME NEW b \in Buckets, x.hist[b] > 0 PROVE \E v \in A : BucketOf(v) = b
  <2>1. PICK k \in DOMAIN took[i] : Bucket(took[i][k]) = b
    BY <1>3, <1>6 DEF InBucket
  <2>2. took[i][k] \in A
    BY <1>1, <2>1, Zenon DEF ToSet
  <2>3. BucketOf(took[i][k]) = b
    BY <1>4, <2>1, BucketRight
  <2> QED
    BY <2>2, <2>3
<1> QED
  BY <1>2, <1>3, <1>5, <1>6 DEF Drawn

\* The report's line for an aggregate.
Reported(a) ==
    [sum |-> a.sum, samples |-> a.count, min |-> a.min, max |-> a.max,
     p95 |-> Estimate(a, 95), p99 |-> Estimate(a, 99)]

\* The report of two rows that count.
LEMMA ReportIs ==
    ASSUME NEW x \in RowType, NEW y \in RowType, x.count > 0, y.count > 0
    PROVE  \E r : /\ r = Report(<<x, y>>)
                  /\ r = Reported(Both(x, y))
                  /\ r.sum = Both(x, y).sum /\ r.samples = Both(x, y).count
                  /\ r.min = Both(x, y).min /\ r.max = Both(x, y).max
                  /\ r.p95 = Estimate(Both(x, y), 95)
                  /\ r.p99 = Estimate(Both(x, y), 99)
<1>1. PICK z : z = Both(x, y) /\ Merge(<<x, y>>) = z
  BY MergeTwo
<1>2. Report(<<x, y>>) = Reported(z)
  BY <1>1, Zenon DEF Report, Reported, Estimate
<1>3. PICK r : r = Reported(z)
  OBVIOUS
<1>4. /\ r.sum = z.sum /\ r.samples = z.count /\ r.min = z.min /\ r.max = z.max
      /\ r.p95 = Estimate(z, 95) /\ r.p99 = Estimate(z, 99)
  BY <1>3 DEF Reported
<1> QED
  BY <1>1, <1>2, <1>3, <1>4

\* The percentiles of a report made from a copy of a row that probes wrote to
\* meanwhile are not below the bucket of the least latency nor above the
\* greatest, though the copy's count and histogram disagree.
THEOREM TornReport == Spec => []TornCopyPercentiles
<1>1. Init => CInv
  BY DEF Init, CInv
<1>2. TInv /\ CountsTally /\ BInv /\ RInv /\ CInv /\ [Next]_vars => CInv'
  BY NextBacked
<1>3. TInv /\ BInv /\ CInv => TornCopyPercentiles
  <2> SUFFICES ASSUME TInv, BInv, CInv, Copied, Plain(copy.of), NEW s \in Others
               PROVE  LET all == took[copy.of] \o s
                          r == Report(<<copy.val, Summary(s)>>)
                      IN \A p \in {r.p95, r.p99} :
                             Pow2[BucketOf(Least(all))] <= p /\ p <= Greatest(all)
    BY Zenon DEF TornCopyPercentiles
  <2>1. PICK t : t = took[copy.of] /\ t \in Lists
    BY CopyFields, LenProperties, TookList DEF Copied, TInv, TypeOK
  <2>2. s \in Lists
    BY OthersAre DEF Lists
  <2>3. PICK all : /\ all = t \o s /\ all \in Lists
                   /\ ToSet(t) \subseteq ToSet(all) /\ ToSet(s) \subseteq ToSet(all)
    <3>1. PICK u : u = t \o s
      OBVIOUS
    <3>2. t \o s \in Lists /\ ToSet(t \o s) = ToSet(t) \cup ToSet(s)
      BY <2>1, <2>2, Joined, Zenon
    <3>3. u \in Lists /\ ToSet(u) = ToSet(t) \cup ToSet(s)
      BY <3>1, <3>2, Zenon
    <3> QED
      BY <3>1, <3>3
  <2>4. PICK A \in Latencies : A = ToSet(all)
    BY <2>3, ListIs
  <2>5. PICK x, y : x = copy.val /\ y = Summary(s) /\ Drawn(x, A) /\ Drawn(y, A)
    BY <2>1, <2>2, <2>3, <2>4, CopyDrawn, SummaryDrawn, Zenon
  <2>6. PICK r : /\ r = Report(<<x, y>>)
                 /\ r.p95 = Estimate(Both(x, y), 95) /\ r.p99 = Estimate(Both(x, y), 99)
    <3>1. x \in RowType /\ y \in RowType /\ x.count > 0 /\ y.count > 0
      BY <2>5 DEF Drawn
    <3> QED
      BY <3>1, ReportIs
  <2>7. Drawn(Both(x, y), A)
    BY <2>5, BothDrawn
  <2>8. PICK least \in A : least = Min(A) /\ \A v \in A : least <= v
    BY LatenciesAre
  <2>9. PICK greatest \in A : greatest = Max(A) /\ \A v \in A : v <= greatest
    BY LatenciesAre
  <2>10. ASSUME NEW pct \in {95, 99}
         PROVE  /\ Pow2[BucketOf(least)] <= Estimate(Both(x, y), pct)
                /\ Estimate(Both(x, y), pct) <= greatest
    BY <2>7, <2>8, <2>9, EstimateWithin
  <2>11. \A p \in {r.p95, r.p99} : Pow2[BucketOf(least)] <= p /\ p <= greatest
    BY <2>6, <2>10
  <2>12. least = Least(all) /\ greatest = Greatest(all)
    BY <2>4, <2>8, <2>9, Zenon DEF Least, Greatest
  <2> QED
    BY <2>1, <2>3, <2>5, <2>6, <2>11, <2>12, Zenon
<1>4. Init => BInv
  BY EmptySeq DEF Init, BInv
<1>5. TInv /\ BInv /\ [Next]_vars => BInv'
  BY NextBracket
<1>6. Init => CountsTally
  BY EmptySeq DEF Init, CountsTally
<1>7. TInv /\ CountsTally /\ [Next]_vars => CountsTally'
  BY NextTally
<1> QED
  BY <1>1, <1>2, <1>3, <1>4, <1>5, <1>6, <1>7, Typed, Summed, PTL DEF Spec

-----------------------------------------------------------------------------
(* A row no run is at, on which runs did not overlap, is the summary of    *)
(* what it took; and the summaries of two lists merge to that of both.     *)

LEMMA RowSummary ==
    ASSUME TInv, CountsTally, BInv, RInv, EInv,
           NEW i \in DOMAIN rows \ raced, Holders(i) = {}, Plain(i)
    PROVE  took[i] \in Lists /\ rows[i] = Summary(took[i])
<1>1. PICK s \in Lists : s = took[i]
  BY TookList
<1>2. /\ Len(s) \in Nat /\ DOMAIN s = 1 .. Len(s) /\ ToSet(s) \in Latencies
      /\ \A k \in 1 .. Len(s) : s[k] \in 1 .. W32 - 1
  BY ListIs
<1>3. \A t : Before(i, t) = {}
  BY DEF Before
<1>4. PICK r \in RowType : r = rows[i]
  BY RowFields
<1>5. r.sum = SumOf(s)
  <2>1. Owed(i) = 0
    BY <1>3, SumEmpty DEF Owed
  <2>2. r.sum + Owed(i) = SumOf(s) /\ r.sum \in Nat
    BY <1>1, <1>4, RowSums DEF RInv, SumTallies
  <2> QED
    BY <2>1, <2>2
<1>6. r.count = Len(s)
  <2>1. Cardinality(Before(i, "count")) = 0
    BY <1>3, FS_EmptySet
  <2>2. r.count + Cardinality(Before(i, "count")) = Len(s) /\ r.count \in Nat
    BY <1>1, <1>4, TallyRestated DEF RowTallies, RowType
  <2> QED
    BY <2>1, <2>2
<1>7. ASSUME NEW b \in Buckets PROVE r.hist[b] = Cardinality(InList(s, b))
  <2>1. Cardinality(Waiting(i, b)) = 0
    BY <1>3, FS_EmptySet DEF Waiting
  <2>2. r.hist[b] + Cardinality(Waiting(i, b)) = Cardinality(InBucket(i, b))
    BY <1>4, TallyRestated DEF RowTallies
  <2>3. r.hist[b] \in Nat
    BY <1>4 DEF RowType
  <2>4. InBucket(i, b) = InList(s, b)
    BY <1>1, <1>2, BucketRight DEF InBucket, InList
  <2> QED
    BY <2>1, <2>2, <2>3, <2>4
<1>8. r.min = Least(s) /\ r.max = Greatest(s)
  <2>1. PICK n \in Nat : n = Len(s)
    BY <1>2
  <2>2. \A k \in 1 .. n : s[k] \in Nat /\ s[k] # 0 /\ s[k] < W32
    BY <1>2, <2>1, W32Is
  <2>3. Fits(i)
    BY <1>1, <1>2, <2>1, <2>2 DEF Fits
  <2>4. Done(i, "min") = n /\ Done(i, "max") = n
    BY <1>1, <1>3, <2>1 DEF Done
  <2>5. GreatestTo(s, n, r.max) /\ LeastTo(s, n, r.min)
    BY <1>1, <1>4, <2>3, <2>4 DEF EInv, RowExact
  <2>6. ToSet(s) \in SUBSET Nat
    BY <1>2, LatenciesAre
  <2>7. \A v : v \in ToSet(s) <=> \E k \in 1 .. n : s[k] = v
    BY <1>2, <2>1, Zenon DEF ToSet
  <2>8. r.max = Max(ToSet(s))
    <3>1. PICK x : x = r.max
      OBVIOUS
    <3>2. x \in ToSet(s) /\ \A v \in ToSet(s) : v <= x
      BY <2>5, <2>7, <3>1 DEF GreatestTo
    <3> QED
      BY <2>6, <3>1, <3>2, MaxIs
  <2>9. r.min = Min(ToSet(s))
    <3>1. PICK x : x = r.min
      OBVIOUS
    <3>2. PICK z \in 0 .. n :
              /\ z > 0 => s[z] = 0
              /\ \A k \in z + 1 .. n : s[k] # 0 /\ x <= s[k]
              /\ IF z = n THEN x = 0 ELSE \E k \in z + 1 .. n : s[k] = x
      BY <2>5, <3>1 DEF LeastTo
    <3>3. z = 0
      BY <2>2, <3>2
    <3>4. n # 0
      BY <2>1, ListIs
    <3>5. (\A k \in 1 .. n : x <= s[k]) /\ \E k \in 1 .. n : s[k] = x
      BY <3>2, <3>3, <3>4
    <3>6. x \in ToSet(s) /\ \A v \in ToSet(s) : x <= v
      BY <2>7, <3>5
    <3> QED
      BY <2>6, <3>1, <3>6, MinIs
  <2> QED
    BY <2>8, <2>9 DEF Least, Greatest
<1>9. r = Summary(s)
  <2>1. PICK y \in RowType :
            /\ y = Summary(s)
            /\ y.sum = SumOf(s) /\ y.count = Len(s)
            /\ y.min = Least(s) /\ y.max = Greatest(s)
            /\ \A b \in Buckets : y.hist[b] = Cardinality(InList(s, b))
    BY SummaryIs
  <2>2. r.hist = y.hist
    BY <1>7, <2>1 DEF RowType
  <2>3. r.sum = y.sum /\ r.count = y.count /\ r.min = y.min /\ r.max = y.max
    BY <1>5, <1>6, <1>8, <2>1
  <2>4. r = y
    BY <2>2, <2>3 DEF RowType
  <2> QED
    BY <2>1, <2>4
<1> QED
  BY <1>1, <1>4, <1>9

\* Two lists, one after the other.
Follows(u, s, m, t, n) ==
    /\ DOMAIN u = 1 .. m + n /\ DOMAIN s = 1 .. m /\ DOMAIN t = 1 .. n
    /\ \A k \in 1 .. m : u[k] = s[k]
    /\ \A k \in 1 .. n : u[m + k] = t[k]

LEMMA SumFollows ==
    ASSUME NEW m \in Nat, NEW n \in Nat, NEW u, NEW s, NEW t, Follows(u, s, m, t, n),
           \A k \in 1 .. m : s[k] \in Nat, \A k \in 1 .. n : t[k] \in Nat
    PROVE  SumOf(u) = SumOf(s) + SumOf(t)
<1>1. /\ DOMAIN u = 1 .. m + n /\ DOMAIN s = 1 .. m /\ DOMAIN t = 1 .. n
      /\ \A k \in 1 .. m : u[k] = s[k]
      /\ \A k \in 1 .. n : u[m + k] = t[k]
  BY DEF Follows
<1>2. \A k \in 1 .. m + n : u[k] \in Nat
  <2> SUFFICES ASSUME NEW k \in 1 .. m + n PROVE u[k] \in Nat
    OBVIOUS
  <2>1. CASE k \in 1 .. m
    BY <1>1, <2>1
  <2>2. CASE k \notin 1 .. m
    <3>1. k - m \in 1 .. n /\ m + (k - m) = k
      BY <2>2
    <3> QED
      BY <1>1, <3>1
  <2> QED
    BY <2>1, <2>2
<1> DEFINE T == {j \in Nat : j <= n =>
                    SumOn(u, 1 .. m + j) = SumOn(s, 1 .. m) + SumOn(t, 1 .. j)}
<1>3. IsFiniteSet(1 .. m) /\ SumOn(s, 1 .. m) \in Nat
  <2>1. IsFiniteSet(1 .. m)
    BY FS_Interval
  <2> QED
    BY <2>1, SumNat
<1>4. 0 \in T
  <2>1. m + 0 = m /\ 1 .. 0 = {}
    OBVIOUS
  <2>2. SumOn(t, 1 .. 0) = 0
    BY <2>1, SumEmpty
  <2>3. SumOn(u, 1 .. m) = SumOn(s, 1 .. m)
    BY <1>1, <1>3, SumAgree
  <2> QED
    BY <1>3, <2>1, <2>2, <2>3
<1>5. ASSUME NEW j \in T PROVE j + 1 \in T
  <2> SUFFICES ASSUME j + 1 <= n
               PROVE  SumOn(u, 1 .. m + (j + 1)) = SumOn(s, 1 .. m) + SumOn(t, 1 .. j + 1)
    OBVIOUS
  <2>1. j \in Nat /\ j <= n /\ j + 1 \in 1 .. n
    OBVIOUS
  <2>2. SumOn(u, 1 .. m + j) = SumOn(s, 1 .. m) + SumOn(t, 1 .. j)
    BY <2>1
  <2>3. PICK A : A = 1 .. m + j /\ IsFiniteSet(A)
    BY <2>1, FS_Interval
  <2>4. PICK a \in Nat : a = m + (j + 1) /\ a \notin A /\ A \cup {a} = 1 .. m + (j + 1)
    BY <2>1, <2>3
  <2>5. PICK B : B = 1 .. j /\ IsFiniteSet(B)
    BY <2>1, FS_Interval
  <2>6. PICK b \in Nat : b = j + 1 /\ b \notin B /\ B \cup {b} = 1 .. j + 1
    BY <2>1, <2>5
  <2>7. (\A x \in A : u[x] \in Nat) /\ u[a] \in Nat
    BY <1>2, <2>1, <2>3, <2>4
  <2>8. (\A x \in B : t[x] \in Nat) /\ t[b] \in Nat /\ u[a] = t[b]
    BY <1>1, <2>1, <2>4, <2>5, <2>6
  <2>9. SumOn(u, A \cup {a}) = u[a] + SumOn(u, A)
    BY <2>3, <2>4, <2>7, SumAdd
  <2>10. SumOn(t, B \cup {b}) = t[b] + SumOn(t, B) /\ SumOn(t, B) \in Nat
    BY <2>5, <2>6, <2>8, SumAdd, SumNat
  <2> HIDE DEF T
  <2>11. PICK x, y, q \in Nat : x = SumOn(s, 1 .. m) /\ y = SumOn(t, B) /\ q = t[b]
    BY <1>3, <2>8, <2>10
  <2>12. SumOn(u, A) = x + y
    BY <2>2, <2>3, <2>5, <2>11, Zenon
  <2>13. SumOn(u, A \cup {a}) = q + (x + y) /\ SumOn(t, B \cup {b}) = q + y
    BY <2>8, <2>9, <2>10, <2>11, <2>12, Zenon
  <2>14. q + (x + y) = x + (q + y)
    OBVIOUS
  <2> QED
    BY <2>4, <2>6, <2>11, <2>13, <2>14, Zenon
<1>6. T = Nat
  <2>1. T \in SUBSET Nat
    OBVIOUS
  <2> HIDE DEF T
  <2> QED
    BY <1>4, <1>5, <2>1, NumberInduction
<1>7. SumOn(u, 1 .. m + n) = SumOn(s, 1 .. m) + SumOn(t, 1 .. n)
  BY <1>6
<1> QED
  BY <1>1, <1>7 DEF SumOf

\* Places of the first list, and of the second behind it.
PlacesOf(U, S, m, T, n) ==
    /\ S \subseteq 1 .. m /\ T \subseteq 1 .. n
    /\ \A k : k \in U <=> k \in S \/ \E j \in T : k = m + j

LEMMA CountFollows ==
    ASSUME NEW m \in Nat, NEW n \in Nat, NEW S, NEW T, NEW U, PlacesOf(U, S, m, T, n)
    PROVE  Cardinality(U) = Cardinality(S) + Cardinality(T)
<1>1. IsFiniteSet(S) /\ IsFiniteSet(T)
  <2>1. IsFiniteSet(1 .. m) /\ IsFiniteSet(1 .. n)
    BY FS_Interval
  <2> QED
    BY <2>1, FS_Subset DEF PlacesOf
<1>2. PICK V : V = {m + j : j \in T}
  OBVIOUS
<1>3. IsFiniteSet(V) /\ Cardinality(V) = Cardinality(T)
  <2>1. PICK f : f = [j \in T |-> m + j]
    OBVIOUS
  <2>2. f \in Bijection(T, V)
    <3>1. f \in [T -> V]
      BY <1>2, <2>1
    <3>2. \A x, y \in T : f[x] = f[y] => x = y
      BY <2>1 DEF PlacesOf
    <3>3. \A z \in V : \E x \in T : f[x] = z
      BY <1>2, <2>1
    <3> QED
      BY <3>1, <3>2, <3>3 DEF Bijection, Injection, Surjection, IsInjective
  <2> QED
    BY <1>1, <2>2, FS_Bijection DEF ExistsBijection
<1>4. S \cap V = {}
  BY <1>2 DEF PlacesOf
<1>5. U = S \cup V
  BY <1>2 DEF PlacesOf
<1>6. Cardinality(S \cup V) = Cardinality(S) + Cardinality(V) - Cardinality(S \cap V)
  BY <1>1, <1>3, FS_Union
<1>7. Cardinality(S) \in Nat /\ Cardinality(T) \in Nat /\ Cardinality(S \cap V) = 0
  BY <1>1, <1>4, FS_CardinalityType, FS_EmptySet
<1> QED
  BY <1>3, <1>5, <1>6, <1>7

LEMMA RowsEqual ==
    ASSUME NEW x \in RowType, NEW y \in RowType,
           x.sum = y.sum, x.count = y.count, x.min = y.min, x.max = y.max,
           \A b \in Buckets : x.hist[b] = y.hist[b]
    PROVE  x = y
<1>1. x.hist = y.hist
  BY DEF RowType
<1> QED
  BY <1>1 DEF RowType

LEMMA SummariesJoin ==
    ASSUME NEW s \in Lists, NEW t \in Lists, NEW u, u = s \o t
    PROVE  Both(Summary(s), Summary(t)) = Summary(u)
<1>1. /\ u \in Lists
      /\ Len(u) = Len(s) + Len(t)
      /\ \A k \in 1 .. Len(s) : u[k] = s[k]
      /\ \A k \in 1 .. Len(t) : u[Len(s) + k] = t[k]
      /\ ToSet(u) = ToSet(s) \cup ToSet(t)
  BY Joined, Zenon
<1>2. PICK m, n \in Nat : /\ m = Len(s) /\ n = Len(t)
                          /\ DOMAIN s = 1 .. m /\ DOMAIN t = 1 .. n
                          /\ \A k \in 1 .. m : s[k] \in 1 .. W32 - 1
                          /\ \A k \in 1 .. n : t[k] \in 1 .. W32 - 1
  BY ListIs
<1>3. DOMAIN u = 1 .. m + n
  BY <1>1, <1>2, ListIs
<1>4. Follows(u, s, m, t, n)
  BY <1>1, <1>2, <1>3 DEF Follows
<1>5a. PICK x \in RowType :
           /\ x = Summary(s) /\ x.sum = SumOf(s) /\ x.count = m
           /\ x.min = Least(s) /\ x.max = Greatest(s)
           /\ \A b \in Buckets : x.hist[b] = Cardinality(InList(s, b))
  BY <1>1, <1>2, SummaryIs
<1>5b. PICK y \in RowType :
           /\ y = Summary(t) /\ y.sum = SumOf(t) /\ y.count = n
           /\ y.min = Least(t) /\ y.max = Greatest(t)
           /\ \A b \in Buckets : y.hist[b] = Cardinality(InList(t, b))
  BY <1>1, <1>2, SummaryIs
<1>5c. PICK z \in RowType :
           /\ z = Summary(u) /\ z.sum = SumOf(u) /\ z.count = m + n
           /\ z.min = Least(u) /\ z.max = Greatest(u)
           /\ \A b \in Buckets : z.hist[b] = Cardinality(InList(u, b))
  BY <1>1, <1>2, SummaryIs
<1>6. PICK w \in RowType :
          /\ w = Both(x, y)
          /\ w.sum = x.sum + y.sum /\ w.count = x.count + y.count
          /\ w.min = IF y.min > 0 /\ (x.min = 0 \/ y.min < x.min) THEN y.min ELSE x.min
          /\ w.max = IF y.max > x.max THEN y.max ELSE x.max
          /\ \A b \in Buckets : w.hist[b] = x.hist[b] + y.hist[b]
  <2>1. Both(x, y) \in RowType
    BY <1>5a, <1>5b, <1>5c, BothType
  <2> QED
    BY <2>1 DEF Both
<1>7. w.sum = z.sum
  <2>1. (\A k \in 1 .. m : s[k] \in Nat) /\ \A k \in 1 .. n : t[k] \in Nat
    BY <1>2
  <2>2. SumOf(u) = SumOf(s) + SumOf(t)
    BY <1>2, <1>4, <2>1, SumFollows
  <2> QED
    BY <1>5a, <1>5b, <1>5c, <1>6, <2>2
<1>8. w.min = z.min /\ w.max = z.max
  <2>1. PICK S, T, U \in Latencies :
            S = ToSet(s) /\ T = ToSet(t) /\ U = ToSet(u) /\ U = S \cup T
    BY <1>1, ListIs
  <2>2. /\ x.min = Min(S) /\ y.min = Min(T) /\ z.min = Min(U)
        /\ x.max = Max(S) /\ y.max = Max(T) /\ z.max = Max(U)
    BY <1>5a, <1>5b, <1>5c, <2>1 DEF Least, Greatest
  <2>3. /\ x.min \in S /\ x.max \in S /\ \A v \in S : x.min <= v /\ v <= x.max
        /\ y.min \in T /\ y.max \in T /\ \A v \in T : y.min <= v /\ v <= y.max
        /\ \A v \in S \cup T : v \in Nat /\ v > 0
        /\ S \cup T \in SUBSET Nat
    BY <2>1, <2>2, LatenciesAre
  <2>4. w.min \in S \cup T /\ \A v \in S \cup T : w.min <= v
    BY <1>6, <2>3
  <2>5. w.max \in S \cup T /\ \A v \in S \cup T : v <= w.max
    BY <1>6, <2>3
  <2> QED
    BY <2>1, <2>2, <2>3, <2>4, <2>5, MinIs, MaxIs
<1>9. ASSUME NEW b \in Buckets PROVE w.hist[b] = z.hist[b]
  <2>1. PICK S, T, U : S = InList(s, b) /\ T = InList(t, b) /\ U = InList(u, b)
    OBVIOUS
  <2>2. S \subseteq 1 .. m /\ T \subseteq 1 .. n
    BY <1>2, <2>1 DEF InList
  <2>3. ASSUME NEW k PROVE k \in U <=> k \in S \/ \E j \in T : k = m + j
    <3>1. k \in U => k \in S \/ \E j \in T : k = m + j
      <4> SUFFICES ASSUME k \in U, k \notin S PROVE \E j \in T : k = m + j
        OBVIOUS
      <4>1. k \in 1 .. m + n /\ BucketOf(u[k]) = b
        BY <1>3, <2>1 DEF InList
      <4>2. k \notin 1 .. m
        BY <1>2, <1>4, <2>1, <4>1 DEF InList, Follows
      <4>3. PICK j \in 1 .. n : k = m + j
        <5>1. k - m \in 1 .. n /\ k = m + (k - m)
          BY <4>1, <4>2
        <5> QED
          BY <5>1
      <4>4. j \in T
        BY <1>2, <1>4, <2>1, <4>1, <4>3 DEF InList, Follows
      <4> QED
        BY <4>3, <4>4
    <3>2. k \in S => k \in U
      <4> SUFFICES ASSUME k \in S PROVE k \in U
        OBVIOUS
      <4>1. k \in 1 .. m /\ BucketOf(s[k]) = b
        BY <1>2, <2>1 DEF InList
      <4>2. k \in 1 .. m + n /\ u[k] = s[k]
        BY <1>4, <4>1 DEF Follows
      <4> QED
        BY <1>3, <2>1, <4>1, <4>2 DEF InList
    <3>3. ASSUME NEW j \in T, k = m + j PROVE k \in U
      <4>1. j \in 1 .. n /\ BucketOf(t[j]) = b
        BY <1>2, <2>1 DEF InList
      <4>2. k \in 1 .. m + n /\ u[k] = t[j]
        BY <1>4, <3>3, <4>1 DEF Follows
      <4> QED
        BY <1>3, <2>1, <4>1, <4>2 DEF InList
    <3> QED
      BY <3>1, <3>2, <3>3
  <2>4. Cardinality(U) = Cardinality(S) + Cardinality(T)
    <3>1. \A k : k \in U <=> k \in S \/ \E j \in T : k = m + j
      BY <2>3
    <3>2. PlacesOf(U, S, m, T, n)
      BY <2>2, <3>1 DEF PlacesOf
    <3> QED
      BY <3>2, CountFollows
  <2> QED
    BY <1>5a, <1>5b, <1>5c, <1>6, <2>1, <2>4
<1>10. w.count = z.count
  BY <1>5a, <1>5b, <1>5c, <1>6
<1>11. w = z
  BY <1>7, <1>8, <1>9, <1>10, RowsEqual
<1> QED
  BY <1>5a, <1>5b, <1>5c, <1>6, <1>11

\* The order of the rows does not matter.
LEMMA BothCommutes ==
    ASSUME NEW x \in RowType, NEW y \in RowType, x.min > 0, y.min > 0
    PROVE  Both(x, y) = Both(y, x)
<1>1. PICK w \in RowType :
          /\ w = Both(x, y)
          /\ w.sum = x.sum + y.sum /\ w.count = x.count + y.count
          /\ w.min = IF y.min > 0 /\ (x.min = 0 \/ y.min < x.min) THEN y.min ELSE x.min
          /\ w.max = IF y.max > x.max THEN y.max ELSE x.max
          /\ \A b \in Buckets : w.hist[b] = x.hist[b] + y.hist[b]
  <2>1. Both(x, y) \in RowType
    BY BothType
  <2> QED
    BY <2>1 DEF Both
<1>2. PICK z \in RowType :
          /\ z = Both(y, x)
          /\ z.sum = y.sum + x.sum /\ z.count = y.count + x.count
          /\ z.min = IF x.min > 0 /\ (y.min = 0 \/ x.min < y.min) THEN x.min ELSE y.min
          /\ z.max = IF x.max > y.max THEN x.max ELSE y.max
          /\ \A b \in Buckets : z.hist[b] = y.hist[b] + x.hist[b]
  <2>1. Both(y, x) \in RowType
    BY BothType
  <2> QED
    BY <2>1 DEF Both
<1>3. /\ x.sum \in Nat /\ x.count \in Nat /\ x.min \in Nat /\ x.max \in Nat
      /\ y.sum \in Nat /\ y.count \in Nat /\ y.min \in Nat /\ y.max \in Nat
      /\ \A b \in Buckets : x.hist[b] \in Nat /\ y.hist[b] \in Nat
  BY W32Is DEF RowType
<1>4. w.sum = z.sum /\ w.count = z.count /\ w.max = z.max /\ w.min = z.min
  BY <1>1, <1>2, <1>3
<1>5. \A b \in Buckets : w.hist[b] = z.hist[b]
  BY <1>1, <1>2, <1>3
<1>6. w = z
  BY <1>4, <1>5, RowsEqual
<1> QED
  BY <1>1, <1>2, <1>6

UpTo(s, b) == {k \in DOMAIN s : BucketOf(s[k]) <= b}
NotAbove(s, v) == {k \in DOMAIN s : s[k] <= v}

\* The running total of a list's histogram counts the latencies up to a bucket.
LEMMA Cumulative ==
    ASSUME NEW s \in Lists, NEW h, \A b \in Buckets : h[b] = Cardinality(InList(s, b)),
           h \in [Buckets -> Nat]
    PROVE  \A b \in Buckets : SumOn(h, 0 .. b) = Cardinality(UpTo(s, b))
<1>1. /\ DOMAIN s = 1 .. Len(s)
      /\ \A k \in DOMAIN s : BucketOf(s[k]) \in Buckets /\ BucketOf(s[k]) \in Nat
  BY ListIs, BucketRight, BucketsAre
<1>2. Buckets \in SUBSET Nat
  BY BucketsAre
<1> DEFINE T == {b \in Nat : b \in Buckets => SumOn(h, 0 .. b) = Cardinality(UpTo(s, b))}
<1>3. 0 \in T
  <2>1. SumOn(h, 0 .. 0) = h[0] /\ 0 \in Buckets
    BY Running, BucketsAre
  <2>2. UpTo(s, 0) = InList(s, 0)
    BY <1>1 DEF UpTo, InList
  <2> QED
    BY <2>1, <2>2
<1>4. ASSUME NEW b \in T PROVE b + 1 \in T
  <2> SUFFICES ASSUME b + 1 \in Buckets
               PROVE  SumOn(h, 0 .. b + 1) = Cardinality(UpTo(s, b + 1))
    OBVIOUS
  <2>1. PICK c \in Buckets : c = b + 1 /\ c > 0 /\ c \in Nat /\ c - 1 = b
    BY <1>2
  <2>2. b \in Buckets /\ SumOn(h, 0 .. c) = h[c] + SumOn(h, 0 .. b)
    BY <2>1, Running
  <2>3. SumOn(h, 0 .. b) = Cardinality(UpTo(s, b))
    BY <2>2
  <2>4. PICK S, R, U : S = UpTo(s, b) /\ R = InList(s, c) /\ U = UpTo(s, c)
    OBVIOUS
  <2>5. U = S \cup R /\ S \cap R = {}
    BY <1>1, <2>1, <2>4 DEF UpTo, InList
  <2>6. /\ IsFiniteSet(S) /\ IsFiniteSet(R)
        /\ Cardinality(S) \in Nat /\ Cardinality(R) \in Nat
    BY <2>4, PlacesFinite DEF UpTo, InList
  <2>7. Cardinality(S \cup R) = Cardinality(S) + Cardinality(R) - Cardinality(S \cap R)
    BY <2>6, FS_Union
  <2>8. Cardinality(U) = Cardinality(R) + Cardinality(S)
    <3>1. Cardinality(S \cap R) = 0
      BY <2>5, FS_EmptySet
    <3> QED
      BY <2>5, <2>6, <2>7, <3>1
  <2> HIDE DEF T
  <2> QED
    BY <2>1, <2>2, <2>3, <2>4, <2>8
<1>5. T = Nat
  <2>1. T \in SUBSET Nat
    OBVIOUS
  <2> HIDE DEF T
  <2> QED
    BY <1>3, <1>4, <2>1, NumberInduction
<1> QED
  BY <1>2, <1>5

LEMMA PlacesWithin ==
    ASSUME NEW s \in Lists, NEW U, U \subseteq DOMAIN s, NEW T, T \subseteq U
    PROVE  Cardinality(T) <= Cardinality(U)
<1>1. IsFiniteSet(U)
  BY PlacesFinite
<1> QED
  BY <1>1, FS_Subset

LEMMA RankedIs ==
    ASSUME NEW s \in Lists, NEW pct \in {95, 99}
    PROVE  Ranked(s, pct) =
               Min({v \in ToSet(s) : Cardinality(NotAbove(s, v)) >= Rank(Len(s), pct)})
BY DEF Ranked, Rank, NotAbove

LEMMA CoversBetween ==
    ASSUME NEW m \in Buckets, NEW u \in Nat, NEW v \in Nat, NEW w \in Nat, u <= v, v <= w,
           Covers(m, u), Covers(m, w)
    PROVE  Covers(m, v)
<1>1. Pow2[m] \in Nat /\ Pow2[m + 1] \in Nat /\ m \in Nat
  BY BucketsAre, Pow2Is
<1> QED
  BY <1>1 DEF Covers

\* The estimate is not above the greatest latency, and in the bucket of the
\* one of its rank.
LEMMA EstimateBucket ==
    ASSUME NEW s \in Lists, NEW x, x = Summary(s), NEW pct \in {95, 99}
    PROVE  /\ Estimate(x, pct) <= x.max
           /\ BucketOf(Estimate(x, pct)) = BucketOf(Ranked(s, pct))
<1>1. PICK n \in Nat : /\ n = Len(s) /\ n > 0 /\ DOMAIN s = 1 .. n
                       /\ \A k \in 1 .. n : s[k] \in 1 .. W32 - 1
  BY ListIs
<1>2. PICK A \in Latencies : A = ToSet(s)
  BY ListIs
<1>3. /\ \A k \in DOMAIN s : s[k] \in A
      /\ \A v \in A : \E k \in DOMAIN s : s[k] = v
  <2>1. \A k \in DOMAIN s : s[k] \in ToSet(s)
    <3> SUFFICES ASSUME NEW k \in DOMAIN s PROVE s[k] \in ToSet(s)
      OBVIOUS
    <3> QED
      BY Zenon DEF ToSet
  <2>2. \A v \in ToSet(s) : \E k \in DOMAIN s : s[k] = v
    <3> SUFFICES ASSUME NEW v \in ToSet(s) PROVE \E k \in DOMAIN s : s[k] = v
      OBVIOUS
    <3>1. \E k \in DOMAIN s : v = s[k]
      <4>1. v \in {s[k] : k \in DOMAIN s}
        BY Zenon DEF ToSet
      <4> QED
        BY <4>1, ZenonT(60)
    <3> QED
      BY <3>1
  <2> QED
    BY <1>2, <2>1, <2>2, Zenon
<1>4. PICK h \in [Buckets -> Nat] :
          h = x.hist /\ \A b \in Buckets : h[b] = Cardinality(InList(s, b))
  BY SummaryIs DEF RowType
<1>5. x.count = n /\ x.max = Max(A)
  BY <1>1, <1>2, SummaryIs DEF Greatest
<1>6. PICK top \in A : top = x.max /\ \A v \in A : v <= top
  BY <1>5, LatenciesAre
<1>7. \A v \in A : v \in Nat /\ v > 0 /\ v \in 1 .. W32 - 1
  BY LatenciesAre
<1>8. \A v \in A : BucketOf(v) \in Buckets /\ BucketOf(v) \in Nat /\ Covers(BucketOf(v), v)
  <2> SUFFICES ASSUME NEW v \in A
               PROVE  BucketOf(v) \in Buckets /\ BucketOf(v) \in Nat /\ Covers(BucketOf(v), v)
    OBVIOUS
  <2>1. v \in Nat /\ v > 0 /\ v \in 1 .. W32 - 1
    BY <1>7
  <2>2. BucketOf(v) \in Buckets /\ Covers(BucketOf(v), v)
    BY <2>1, BucketRight
  <2> QED
    BY <2>2, BucketsAre
<1>9. PICK R \in Nat : R = Rank(n, pct) /\ R <= n
  BY <1>1, RankBounds
<1>10. \A b \in Buckets : SumOn(h, 0 .. b) = Cardinality(UpTo(s, b))
  BY <1>4, Cumulative
<1>11. Cardinality(DOMAIN s) = n
  <2>1. PICK a, b \in Int : a = 1 /\ b = n
    BY <1>1
  <2>2. Cardinality(a .. b) = IF a > b THEN 0 ELSE b - a + 1
    BY FS_Interval
  <2>3. Cardinality(1 .. n) = n
    BY <1>1, <2>1, <2>2
  <2> QED
    BY <1>1, <2>3
<1>12. SumOn(h, 0 .. Top) >= R /\ Top \in Buckets
  <2>1. UpTo(s, Top) = DOMAIN s
    BY <1>3, <1>8, BucketsAre DEF UpTo
  <2> QED
    BY <1>9, <1>10, <1>11, <2>1, BucketsAre
<1>13. PICK m \in Buckets :
          /\ h[m] > 0
          /\ SumOn(h, 0 .. m) >= R
          /\ \A b \in Buckets : SumOn(h, 0 .. b) >= R => m <= b
          /\ Percentile(h, n, pct) \in Nat
          /\ Covers(m, Percentile(h, n, pct))
  <2>1. SumOn(h, 0 .. Top) \in Nat
    BY <1>12, Running
  <2>2. ~(\A b \in Buckets : SumOn(h, 0 .. b) < Rank(n, pct))
    BY <1>9, <1>12, <2>1
  <2> QED
    BY <1>9, <2>2, PercentileIn
<1>14. m \in Nat
  BY BucketsAre
<1>15. PICK p \in Nat : p = Percentile(h, n, pct) /\ Covers(m, p)
  BY <1>13
<1>16. PICK v0 \in A : BucketOf(v0) = m
  <2>1. InList(s, m) # {}
    BY <1>4, <1>13, PlacesFinite DEF InList
  <2> QED
    BY <1>3, <2>1 DEF InList
<1>17. Estimate(x, pct) = IF p > top THEN top ELSE p
  BY <1>4, <1>5, <1>6, <1>7, <1>15 DEF Estimate, Clamp
<1>18. BucketOf(Estimate(x, pct)) = m
  <2>1. CASE p > top
    <3>1. Covers(m, v0) /\ v0 <= top /\ top <= p /\ v0 \in Nat /\ top \in Nat
      BY <1>6, <1>7, <1>8, <1>16, <2>1
    <3>2. Covers(m, top)
      BY <1>15, <3>1, CoversBetween
    <3> QED
      BY <1>17, <2>1, <3>1, <3>2, BucketOfIs
  <2>2. CASE ~(p > top)
    BY <1>15, <1>17, <2>2, BucketOfIs
  <2> QED
    BY <2>1, <2>2
<1>19. PICK V : V = {v \in A : Cardinality(NotAbove(s, v)) >= R}
  OBVIOUS
<1>20. V \in SUBSET Nat /\ top \in V
  <2>1. NotAbove(s, top) = DOMAIN s
    BY <1>3, <1>6 DEF NotAbove
  <2>2. Cardinality(NotAbove(s, top)) >= R
    BY <1>9, <1>11, <2>1
  <2> QED
    BY <1>7, <1>19, <2>2
<1>21. PICK r \in V : \A v \in V : r <= v
  BY <1>20, LeastExists
<1>22. Ranked(s, pct) = r
  <2>1. Min(V) = r
    BY <1>20, <1>21, MinIs
  <2>2. V = {v \in ToSet(s) : Cardinality(NotAbove(s, v)) >= Rank(Len(s), pct)}
    BY <1>1, <1>2, <1>9, <1>19
  <2> QED
    BY <2>1, <2>2, RankedIs
<1>23. r \in A /\ Cardinality(NotAbove(s, r)) >= R
  BY <1>19, <1>21
<1>24. m <= BucketOf(r)
  <2>1. PICK b \in Buckets : b = BucketOf(r)
    BY <1>8, <1>23
  <2>2. ASSUME NEW k \in NotAbove(s, r) PROVE k \in UpTo(s, b)
    <3>1. k \in DOMAIN s /\ s[k] \in A /\ s[k] <= r
      BY <1>3 DEF NotAbove
    <3>2. BucketOf(s[k]) <= BucketOf(r)
      BY <1>7, <1>23, <3>1, BucketOrder
    <3> QED
      BY <2>1, <3>1, <3>2 DEF UpTo
  <2>3. PICK S, U : S = NotAbove(s, r) /\ U = UpTo(s, b)
    OBVIOUS
  <2>4. S \subseteq U /\ U \subseteq DOMAIN s /\ S \subseteq DOMAIN s
    BY <2>2, <2>3 DEF UpTo, NotAbove
  <2>5. Cardinality(S) <= Cardinality(U)
    BY <2>4, PlacesWithin
  <2>6. Cardinality(S) \in Nat /\ Cardinality(U) \in Nat
    BY <2>4, PlacesFinite
  <2>7. SumOn(h, 0 .. b) >= R
    BY <1>9, <1>10, <1>23, <2>3, <2>5, <2>6
  <2> QED
    BY <1>13, <2>1, <2>7
<1>25. BucketOf(r) <= m
  <2>1. PICK W : W = {v \in A : BucketOf(v) <= m}
    OBVIOUS
  <2>2. W \in SUBSET Nat /\ v0 \in W /\ \A v \in W : v <= top
    BY <1>6, <1>7, <1>14, <1>16, <2>1
  <2>3. PICK w \in W : \A v \in W : v <= w
    <3>1. top \in Nat
      BY <1>7
    <3> QED
      BY <2>2, <3>1, GreatestExists
  <2>4. w \in A /\ BucketOf(w) <= m
    BY <2>1, <2>3
  <2>5. ASSUME NEW k \in UpTo(s, m) PROVE k \in NotAbove(s, w)
    <3>1. k \in DOMAIN s /\ s[k] \in W
      BY <1>3, <2>1 DEF UpTo
    <3> QED
      BY <2>3, <3>1 DEF NotAbove
  <2>6. PICK S, U : S = UpTo(s, m) /\ U = NotAbove(s, w)
    OBVIOUS
  <2>7. S \subseteq U /\ U \subseteq DOMAIN s /\ S \subseteq DOMAIN s
    BY <2>5, <2>6 DEF UpTo, NotAbove
  <2>8. Cardinality(S) <= Cardinality(U)
    BY <2>7, PlacesWithin
  <2>9. Cardinality(S) \in Nat /\ Cardinality(U) \in Nat
    BY <2>7, PlacesFinite
  <2>10. Cardinality(NotAbove(s, w)) >= R
    BY <1>9, <1>10, <1>13, <2>6, <2>8, <2>9
  <2>11. r <= w
    BY <1>19, <1>21, <2>4, <2>10
  <2>12. BucketOf(r) <= BucketOf(w)
    BY <1>7, <1>23, <2>4, <2>11, BucketOrder
  <2> QED
    BY <1>8, <1>14, <1>23, <2>4, <2>12
<1>26. BucketOf(r) = m
  BY <1>8, <1>14, <1>23, <1>24, <1>25
<1>27. Estimate(x, pct) <= x.max
  BY <1>6, <1>7, <1>17
<1> QED
  BY <1>18, <1>22, <1>26, <1>27

\* The report of rows no run is at is that of all their samples.
THEOREM ExactReport == Spec => []ReportExact
<1>1. ASSUME TInv, CountsTally, BInv, RInv, EInv,
             NEW i \in DOMAIN rows \ raced, NEW t \in Others, Holders(i) = {}, Plain(i)
      PROVE  LET all == took[i] \o t
                 r == Report(<<rows[i], Summary(t)>>)
             IN /\ r = Report(<<Summary(t), rows[i]>>)
                /\ r.sum = SumOf(all) /\ r.samples = Len(all)
                /\ r.min = Least(all) /\ r.max = Greatest(all)
                /\ r.p95 <= r.max /\ BucketOf(r.p95) = BucketOf(Ranked(all, 95))
                /\ r.p99 <= r.max /\ BucketOf(r.p99) = BucketOf(Ranked(all, 99))
  <2>1. t \in Lists
    BY OthersAre DEF Lists
  <2>2. PICK s \in Lists : s = took[i] /\ rows[i] = Summary(s)
    BY <1>1, RowSummary
  <2>3. PICK all : all = s \o t
    OBVIOUS
  <2>4. all \in Lists
    <3>1. s \o t \in Lists
      BY <2>1, Joined, Zenon
    <3> QED
      BY <2>3, <3>1, Zenon
  <2>5. PICK x, y, z \in RowType :
            /\ x = Summary(s) /\ y = Summary(t) /\ z = Summary(all)
            /\ x.count = Len(s) /\ x.min = Least(s) /\ y.count = Len(t) /\ y.min = Least(t)
            /\ z.sum = SumOf(all) /\ z.count = Len(all)
            /\ z.min = Least(all) /\ z.max = Greatest(all)
    BY <2>1, <2>4, SummaryIs
  <2>6. x.count > 0 /\ y.count > 0 /\ x.min > 0 /\ y.min > 0
    <3>1. Len(s) > 0 /\ Len(t) > 0 /\ ToSet(s) \in Latencies /\ ToSet(t) \in Latencies
      BY <2>1, ListIs
    <3> QED
      BY <2>5, <3>1, LatenciesAre DEF Least
  <2>7. Both(x, y) = z
    BY <2>1, <2>3, <2>5, SummariesJoin
  <2>8. Both(y, x) = z
    BY <2>6, <2>7, BothCommutes
  <2>9. PICK r : /\ r = Report(<<x, y>>) /\ r = Reported(z)
                 /\ r.sum = z.sum /\ r.samples = z.count
                 /\ r.min = z.min /\ r.max = z.max
                 /\ r.p95 = Estimate(z, 95) /\ r.p99 = Estimate(z, 99)
    BY <2>6, <2>7, ReportIs
  <2>10. Report(<<y, x>>) = Reported(z)
    BY <2>6, <2>8, ReportIs
  <2>11. ASSUME NEW pct \in {95, 99}
         PROVE  Estimate(z, pct) <= z.max /\ BucketOf(Estimate(z, pct)) = BucketOf(Ranked(all, pct))
    BY <2>4, <2>5, EstimateBucket
  <2>12. /\ r = Report(<<y, x>>)
         /\ r.sum = SumOf(all) /\ r.samples = Len(all)
         /\ r.min = Least(all) /\ r.max = Greatest(all)
         /\ r.p95 <= r.max /\ BucketOf(r.p95) = BucketOf(Ranked(all, 95))
         /\ r.p99 <= r.max /\ BucketOf(r.p99) = BucketOf(Ranked(all, 99))
    BY <2>5, <2>9, <2>10, <2>11
  <2>13. /\ took[i] \o t = all
         /\ Report(<<rows[i], Summary(t)>>) = r
         /\ Report(<<Summary(t), rows[i]>>) = Report(<<y, x>>)
    BY <2>2, <2>3, <2>5, <2>9, Zenon
  <2> QED
    BY <2>12, <2>13, Zenon
<1>2. TInv /\ CountsTally /\ BInv /\ RInv /\ EInv => ReportExact
  BY <1>1, Zenon DEF ReportExact
<1>3. Init => BInv /\ CountsTally /\ EInv
  BY EmptySeq DEF Init, BInv, CountsTally, EInv
<1>4. TInv /\ BInv /\ [Next]_vars => BInv'
  BY NextBracket
<1>5. TInv /\ CountsTally /\ [Next]_vars => CountsTally'
  BY NextTally
<1>6. TInv /\ EInv /\ [Next]_vars => EInv'
  BY NextExact
<1> QED
  BY <1>2, <1>3, <1>4, <1>5, <1>6, Typed, Summed, PTL DEF Spec

-----------------------------------------------------------------------------
(* Where the samples are. *)

\* How many samples went to each row.
Shares == [i \in 1 .. Len(rows) |-> Len(took[i])]

SamplesKept ==
    /\ Len(rows) + Cardinality(Holders(0)) <= Cardinality(CPUs)
    /\ runs = Cardinality(Holders(0)) + SumOn(Shares, 1 .. Len(rows))

LEMMA HoldersFinite ==
    /\ IsFiniteSet(Holders(0)) /\ Cardinality(Holders(0)) \in Nat
    /\ Cardinality(CPUs) \in Nat
<1>1. Holders(0) \in SUBSET CPUs
  BY DEF Holders
<1> QED
  BY <1>1, CPUsFinite, FS_Subset, FS_CardinalityType

LEMMA SharesNat ==
    ASSUME TInv
    PROVE  /\ Len(rows) \in Nat /\ DOMAIN rows = 1 .. Len(rows)
           /\ IsFiniteSet(1 .. Len(rows))
           /\ \A i \in 1 .. Len(rows) : Shares[i] \in Nat
           /\ SumOn(Shares, 1 .. Len(rows)) \in Nat
<1>1. Len(rows) \in Nat /\ DOMAIN rows = 1 .. Len(rows)
  BY LenProperties DEF TInv, TypeOK
<1>2. IsFiniteSet(1 .. Len(rows))
  BY <1>1, FS_Interval
<1>3. \A i \in 1 .. Len(rows) : Shares[i] \in Nat
  BY <1>1, RowFields DEF Shares
<1> QED
  BY <1>1, <1>2, <1>3, SumNat

\* A run that found no row begins.
LEMMA LookupKept ==
    ASSUME TInv, TInv', SamplesKept, NEW c \in CPUs, NEW v \in Samples, Lookup(c, v)
    PROVE  SamplesKept'
<1>n. PICK n \in Nat : n = Len(rows)
  BY SharesNat
<1>1. /\ cpu[c] = Idle /\ rows' = rows /\ runs' = runs + 1
      /\ cpu' = [cpu EXCEPT ![c] = RunAt(v, n, 1, FALSE)]
      /\ cpu \in [CPUs -> {Idle} \cup Run]
  BY <1>n DEF Lookup, TInv, TypeOK
<1>2. /\ cpu'[c] # Idle /\ cpu'[c].row = n
      /\ \A d \in CPUs \ {c} : cpu'[d] = cpu[d]
  BY <1>1 DEF RunAt, Idle
<1>3. runs \in Nat /\ DOMAIN rows = 1 .. n
  BY <1>n, SharesNat, RunBound DEF TInv, TypeOK
<1>4. CASE rows = <<>>
  <2>1. n = 0
    BY <1>n, <1>4
  <2>2. c \notin Holders(0) /\ Holders(0)' = Holders(0) \cup {c}
    BY <1>1, <1>2, <2>1 DEF Holders
  <2>3. Cardinality(Holders(0)') = Cardinality(Holders(0)) + 1
    BY <2>2, HoldersFinite, FS_AddElement
  <2>4. Cardinality(Holders(0)') <= Cardinality(CPUs)
    <3>1. Holders(0)' \in SUBSET CPUs
      BY DEF Holders
    <3> QED
      BY <3>1, CPUsFinite, FS_Subset
  <2>5. SumOn(Shares, 1 .. n) = 0 /\ SumOn(Shares', 1 .. Len(rows')) = 0
    <3>1. 1 .. n = {} /\ 1 .. Len(rows') = {}
      BY <1>n, <1>1, <2>1
    <3> QED
      BY <3>1, SumEmpty
  <2>6. Len(rows') = 0
    BY <1>n, <1>1, <2>1
  <2>7. Len(rows') + Cardinality(Holders(0)') <= Cardinality(CPUs)
    BY <2>3, <2>4, <2>6, HoldersFinite
  <2>8. runs' = Cardinality(Holders(0)') + SumOn(Shares', 1 .. Len(rows'))
    BY <1>n, <1>1, <1>3, <2>3, <2>5, HoldersFinite DEF SamplesKept
  <2> QED
    BY <2>7, <2>8 DEF SamplesKept
<1>5. CASE rows # <<>>
  <2>1. n \in 1 .. n /\ n # 0
    BY <1>n, <1>3, <1>5, EmptySeq DEF TInv, TypeOK
  <2>2. Holders(0)' = Holders(0)
    <3>1. c \notin Holders(0) /\ c \notin Holders(0)'
      BY <1>1, <1>2, <2>1 DEF Holders
    <3> QED
      BY <1>2, <3>1 DEF Holders
  <2>3. /\ took \in Seq(Seq(Samples)) /\ Len(took) = n
        /\ took' = [took EXCEPT ![n] = Append(took[n], v)]
    BY <1>n, <1>5 DEF Lookup, TInv, TypeOK, PointersHold
  <2>4. took[n] \in Seq(Samples) /\ Append(took[n], v) \in Seq(Samples)
        /\ Len(Append(took[n], v)) = Len(took[n]) + 1
    BY <2>1, <2>3, ElementOfSeq, AppendProperties
  <2>5. /\ took'[n] = Append(took[n], v)
        /\ \A i \in 1 .. n : i # n => took'[i] = took[i]
    BY <2>1, <2>3, <2>4, ExceptSeq
  <2>6. /\ Shares'[n] = Shares[n] + 1
        /\ \A i \in (1 .. n) \ {n} : Shares'[i] = Shares[i]
    BY <1>n, <1>1, <2>1, <2>4, <2>5 DEF Shares
  <2>7. \A i \in 1 .. n : Shares[i] \in Nat /\ Shares'[i] \in Nat
    BY <1>n, <2>6, SharesNat
  <2>8. SumOn(Shares', 1 .. n) - Shares'[n] = SumOn(Shares, 1 .. n) - Shares[n]
    BY <1>n, <2>1, <2>6, <2>7, SharesNat, SumChange
  <2>9. SumOn(Shares', 1 .. n) \in Nat
    BY <1>n, <2>7, SharesNat, SumNat
  <2>10. SumOn(Shares', 1 .. n) = SumOn(Shares, 1 .. n) + 1
    BY <1>n, <2>1, <2>6, <2>7, <2>8, <2>9, SharesNat
  <2> QED
    BY <1>n, <1>1, <1>3, <2>2, <2>10, SharesNat, HoldersFinite DEF SamplesKept
<1> QED
  BY <1>4, <1>5

\* A run that found no row inserts one.
LEMMA InsertKept ==
    ASSUME TInv, TInv', SamplesKept, NEW c \in CPUs, Insert(c)
    PROVE  SamplesKept'
<1>n. PICK n \in Nat : n = Len(rows)
  BY SharesNat
<1>r. runs \in Nat
  BY RunBound DEF TInv, TypeOK
<1>v. PICK v \in Samples : v = cpu[c].sample
  BY RunFields DEF Insert
<1>1. /\ rows \in Seq(RowType) /\ took \in Seq(Seq(Samples)) /\ Len(took) = n
      /\ NewRow(v) \in RowType /\ <<v>> \in Seq(Samples)
  BY <1>n, NewRowType, SamplesAre DEF TInv, TypeOK, PointersHold
<1>2. /\ rows' = Append(rows, NewRow(v)) /\ took' = Append(took, <<v>>)
      /\ cpu' = [cpu EXCEPT ![c] = Idle] /\ runs' = runs
      /\ cpu[c] # Idle /\ cpu[c].row = 0 /\ cpu \in [CPUs -> {Idle} \cup Run]
  BY <1>v DEF Insert, TInv, TypeOK
<1>3. /\ Len(rows') = n + 1 /\ took'[n + 1] = <<v>>
      /\ \A i \in 1 .. n : took'[i] = took[i]
  BY <1>n, <1>1, <1>2, AppendProperties, LenProperties
<1>4. c \in Holders(0) /\ Holders(0)' = Holders(0) \ {c}
  BY <1>2 DEF Holders
<1>5. Cardinality(Holders(0)') = Cardinality(Holders(0)) - 1
  BY <1>4, HoldersFinite, FS_RemoveElement
<1>6. /\ Shares'[n + 1] = 1
      /\ \A i \in 1 .. n : Shares'[i] = Shares[i]
  <2>1. /\ \A i \in 1 .. n : i \in 1 .. n + 1 /\ i \in 1 .. Len(rows)
        /\ n + 1 \in 1 .. n + 1
    BY <1>n
  <2>2. Len(<<v>>) = 1
    OBVIOUS
  <2> QED
    BY <1>3, <2>1, <2>2 DEF Shares
<1>7. /\ IsFiniteSet(1 .. n + 1) /\ n + 1 \in 1 .. n + 1
      /\ (1 .. n + 1) \ {n + 1} = 1 .. n
  <2>1. n + 1 \in Nat /\ 1 \in Int
    OBVIOUS
  <2>2. IsFiniteSet(1 .. n + 1)
    BY <2>1, FS_Interval
  <2> QED
    BY <2>2
<1>8. \A i \in 1 .. n + 1 : Shares'[i] \in Nat
  <2>1. \A i \in 1 .. n + 1 : i = n + 1 \/ i \in 1 .. n
    OBVIOUS
  <2> QED
    BY <1>n, <1>6, <2>1, SharesNat
<1>9. SumOn(Shares', 1 .. n + 1) = Shares'[n + 1] + SumOn(Shares', (1 .. n + 1) \ {n + 1})
  BY <1>7, <1>8, SumSplit
<1>10. SumOn(Shares', 1 .. n) = SumOn(Shares, 1 .. n)
  BY <1>n, <1>6, SharesNat, SumAgree
<1>11. SumOn(Shares', 1 .. Len(rows')) = 1 + SumOn(Shares, 1 .. n)
  BY <1>3, <1>6, <1>7, <1>9, <1>10
<1> QED
  BY <1>n, <1>r, <1>2, <1>3, <1>5, <1>11, SharesNat, HoldersFinite DEF SamplesKept

\* The other steps leave the runs that found no row, and the shares.
LEMMA OthersKept ==
    ASSUME SamplesKept, UNCHANGED <<runs, took>>, Len(rows') = Len(rows),
           \A d \in CPUs : d \in Holders(0)' <=> d \in Holders(0)
    PROVE  SamplesKept'
<1>1. Holders(0)' = Holders(0)
  BY DEF Holders
<1>2. Shares' = Shares
  BY DEF Shares
<1> QED
  BY <1>1, <1>2 DEF SamplesKept

\* A run at a row goes on.
LEMMA StepKept ==
    ASSUME TInv, SamplesKept, NEW c \in CPUs, cpu[c] # Idle, cpu[c].row # 0,
           UNCHANGED <<runs, took>>, Len(rows') = Len(rows),
           \/ Advance(c)
           \/ cpu' = [cpu EXCEPT ![c] = RunAt(cpu[c].sample, cpu[c].row, cpu[c].step, TRUE)]
    PROVE  SamplesKept'
<1>1. /\ \A d \in CPUs \ {c} : cpu'[d] = cpu[d]
      /\ cpu'[c] = Idle \/ cpu'[c].row = cpu[c].row
  <2>1. CASE Advance(c)
    BY <2>1, AdvanceRun
  <2>2. CASE cpu' = [cpu EXCEPT ![c] = RunAt(cpu[c].sample, cpu[c].row, cpu[c].step, TRUE)]
    BY <2>2 DEF TInv, TypeOK, RunAt
  <2> QED
    BY <2>1, <2>2
<1>2. ASSUME NEW d \in CPUs PROVE d \in Holders(0)' <=> d \in Holders(0)
  BY <1>1 DEF Holders
<1> QED
  BY <1>2, OthersKept

LEMMA NextKept == TInv /\ TInv' /\ SamplesKept /\ [Next]_vars => SamplesKept'
<1> SUFFICES ASSUME TInv, TInv', SamplesKept, [Next]_vars PROVE SamplesKept'
  OBVIOUS
<1>1. ASSUME NEW c \in CPUs,
             \/ AddSum(c) \/ AddCount(c) \/ AddHist(c)
             \/ TestMin(c) \/ TestMax(c) \/ StoreMin(c) \/ StoreMax(c)
      PROVE  SamplesKept'
  <2>1. cpu[c] # Idle /\ cpu[c].row # 0
    BY <1>1 DEF AddSum, AddCount, AddHist, TestMin, TestMax, Test, StoreMin, StoreMax, At
  <2>2. UNCHANGED <<runs, took>>
    BY <1>1 DEF AddSum, AddCount, AddHist, TestMin, TestMax, Test, StoreMin, StoreMax, Write
  <2>3. \/ Advance(c)
        \/ cpu' = [cpu EXCEPT ![c] = RunAt(cpu[c].sample, cpu[c].row, cpu[c].step, TRUE)]
    BY <1>1 DEF AddSum, AddCount, AddHist, TestMin, TestMax, Test, StoreMin, StoreMax, Write
  <2>4. rows' = rows \/ \E i, new : rows' = [rows EXCEPT ![i] = new]
    BY <1>1 DEF AddSum, AddCount, AddHist, TestMin, TestMax, Test, StoreMin, StoreMax, Write
  <2>5. Len(rows') = Len(rows)
    <3>1. rows \in Seq(RowType) /\ rows' \in Seq(RowType) /\ DOMAIN rows' = DOMAIN rows
      BY <2>4 DEF TInv, TypeOK
    <3> QED
      BY <3>1, LenProperties
  <2> QED
    BY <2>1, <2>2, <2>3, <2>5, StepKept
<1>2. CASE \/ CopyBegins \/ CopyEnds \/ UNCHANGED vars
           \/ \E f \in Fields : CopyField(f)
           \/ \E w \in Pairs : CopyPair(w)
  <2>1. UNCHANGED <<rows, cpu, runs, took>>
    BY <1>2 DEF CopyBegins, CopyEnds, CopyField, CopyPair, Copying, vars
  <2> QED
    BY <2>1, OthersKept DEF Holders
<1> QED
  BY <1>1, <1>2, LookupKept, InsertKept DEF Next

\* Whatever runs overlap on whatever CPUs, every sample is counted in one of
\* the rows ever inserted, or its run is under way; and no more rows are
\* inserted than there are CPUs.
THEOREM SamplesAccounted == Spec => []SamplesLostOnlyToRaces
<1>1. Init => SamplesKept
  <2> SUFFICES ASSUME Init PROVE SamplesKept
    OBVIOUS
  <2>1. Len(rows) = 0 /\ runs = 0 /\ 1 .. Len(rows) = {}
    BY DEF Init
  <2>2. Holders(0) = {}
    BY DEF Init, Holders
  <2> QED
    BY <2>1, <2>2, SumEmpty, FS_EmptySet, HoldersFinite DEF SamplesKept
<1>2. TInv /\ CountsTally /\ SamplesKept => SamplesLostOnlyToRaces
  <2> SUFFICES ASSUME TInv, CountsTally, SamplesKept PROVE SamplesLostOnlyToRaces
    OBVIOUS
  <2> DEFINE F == [i \in DOMAIN rows |-> rows[i].count + Cardinality(Before(i, "count"))]
  <2>1. DOMAIN rows = 1 .. Len(rows) /\ IsFiniteSet(DOMAIN rows)
    BY SharesNat
  <2>2. \A i \in DOMAIN rows : F[i] = Shares[i]
    BY <2>1 DEF CountsTally, Shares
  <2>3. SumOn(F, DOMAIN rows) = SumOn(Shares, DOMAIN rows)
    BY <2>1, <2>2, SumAgree
  <2> QED
    BY <2>1, <2>3 DEF SamplesKept, SamplesLostOnlyToRaces
<1>3. Init => CountsTally
  BY EmptySeq DEF Init, CountsTally
<1>4. TInv /\ CountsTally /\ [Next]_vars => CountsTally'
  BY NextTally
<1> QED
  BY <1>1, <1>2, <1>3, <1>4, NextKept, Typed, PTL DEF Spec
=============================================================================
