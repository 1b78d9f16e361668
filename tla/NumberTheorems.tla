--------------------------- MODULE NumberTheorems ---------------------------
(***************************************************************************)
(* Facts about the numbers of module Numbers.  A recursive function is     *)
(* shown to satisfy its equation, and facts are carried along it, by       *)
(* induction on a number: a set of numbers that holds 0 and with each      *)
(* number the next holds them all (NumberInduction).                       *)
(***************************************************************************)
EXTENDS Numbers, FiniteSetTheorems, WellFoundedInduction, TLAPS

LEMMA NumberInduction ==
    ASSUME NEW T \in SUBSET Nat, 0 \in T, \A n \in T : n + 1 \in T
    PROVE  T = Nat
<1> DEFINE rest == Nat \ T
<1>1. SUFFICES ASSUME rest # {} PROVE FALSE
  OBVIOUS
<1>2. PICK least \in rest : \A y \in rest : ~ (<<y, least>> \in OpToRel(<, Nat))
  BY <1>1, NatLessThanWellFounded, WFMin, Zenon
<1>3. \A y \in rest : ~ (y < least)
  BY <1>2 DEF OpToRel
<1>4. least # 0 /\ least - 1 \in Nat /\ least - 1 < least
  OBVIOUS
<1>5. least - 1 \in T
  BY <1>3, <1>4
<1> QED
  BY <1>4, <1>5

LEMMA LeastExists ==
    ASSUME NEW T \in SUBSET Nat, T # {}
    PROVE  \E x \in T : \A y \in T : x <= y
<1>1. PICK x \in T : \A y \in T : ~ (<<y, x>> \in OpToRel(<, Nat))
  BY NatLessThanWellFounded, WFMin, Zenon
<1>2. \A y \in T : ~ (y < x)
  BY <1>1 DEF OpToRel
<1>3. \A y \in T : x <= y
  BY <1>2
<1> QED
  BY <1>3

LEMMA GreatestExists ==
    ASSUME NEW T \in SUBSET Nat, T # {}, NEW n \in Nat, \A y \in T : y <= n
    PROVE  \E x \in T : \A y \in T : y <= x
<1> DEFINE U == {n - y : y \in T}
<1>1. U \in SUBSET Nat /\ U # {}
  <2>1. \A y \in T : n - y \in Nat
    OBVIOUS
  <2>2. PICK y \in T : TRUE
    OBVIOUS
  <2>3. n - y \in U
    OBVIOUS
  <2> QED
    BY <2>1, <2>3
<1>2. PICK u \in U : \A w \in U : u <= w
  <2> HIDE DEF U
  <2> QED
    BY <1>1, LeastExists
<1>3. PICK x \in T : u = n - x
  <2>1. u \in U
    OBVIOUS
  <2> QED
    BY <2>1, Zenon
<1>4. \A y \in T : n - x <= n - y
  <2>1. \A y \in T : n - y \in U
    OBVIOUS
  <2> HIDE DEF U
  <2> QED
    BY <1>2, <1>3, <2>1
<1>5. \A y \in T : y <= x
  BY <1>4
<1> QED
  BY <1>5

-----------------------------------------------------------------------------
(* Sums over finite sets. *)

Pick(s) == CHOOSE x \in s : TRUE

\* The function by which SumOn(f, S) adds up.
AddsUp(g, f, S) ==
    g = [s \in SUBSET S |-> IF s = {} THEN 0 ELSE f[Pick(s)] + g[s \ {Pick(s)}]]

Partial(f, S) == CHOOSE g : AddsUp(g, f, S)

LEMMA SumIsPartial ==
    ASSUME NEW f, NEW S
    PROVE  SumOn(f, S) = Partial(f, S)[S]
BY DEF SumOn, MapThenSumSet, MapThenFoldSet, Partial, AddsUp, Pick

LEMMA PickIn == ASSUME NEW s, s # {} PROVE Pick(s) \in s
BY DEF Pick

\* The equation has a solution on the subsets of at most n elements, for all n.
LEMMA PartialDefined ==
    ASSUME NEW f, NEW S, IsFiniteSet(S)
    PROVE  AddsUp(Partial(f, S), f, S)
<1> DEFINE Sub(n) == {s \in SUBSET S : Cardinality(s) <= n}
           Solves(g, n) == g = [s \in Sub(n) |-> IF s = {} THEN 0
                                                 ELSE f[Pick(s)] + g[s \ {Pick(s)}]]
           T == {n \in Nat : \E g : Solves(g, n)}
<1>1. \A s \in SUBSET S : /\ IsFiniteSet(s) /\ Cardinality(s) \in Nat
                          /\ Cardinality(s) <= Cardinality(S)
                          /\ Cardinality(s) = 0 <=> s = {}
  BY FS_Subset, FS_CardinalityType, FS_EmptySet
<1>2. \A s \in SUBSET S : s # {} => /\ s \ {Pick(s)} \in SUBSET S
                                    /\ Cardinality(s \ {Pick(s)}) = Cardinality(s) - 1
  BY <1>1, PickIn, FS_RemoveElement
<1>3. 0 \in T
  <2>1. Sub(0) = {{}}
    BY <1>1
  <2>2. Solves([s \in Sub(0) |-> 0], 0)
    BY <2>1
  <2> QED
    BY <2>2
<1>4. ASSUME NEW n \in T PROVE n + 1 \in T
  <2>0. n \in Nat /\ \E g : Solves(g, n)
    OBVIOUS
  <2>1. PICK g : Solves(g, n)
    BY <2>0
  <2>2. PICK h : h = [s \in Sub(n + 1) |-> IF s = {} THEN 0 ELSE f[Pick(s)] + g[s \ {Pick(s)}]]
    OBVIOUS
  <2>3. ASSUME NEW s \in Sub(n) PROVE s \in Sub(n + 1) /\ h[s] = g[s]
    <3>1. s \in Sub(n + 1)
      BY <1>1, <2>0
    <3>2. g[s] = IF s = {} THEN 0 ELSE f[Pick(s)] + g[s \ {Pick(s)}]
      BY <2>1
    <3> QED
      BY <2>2, <3>1, <3>2
  <2>4. \A s \in Sub(n + 1) : s # {} => h[s \ {Pick(s)}] = g[s \ {Pick(s)}]
    BY <1>1, <1>2, <2>0, <2>3
  <2>5. Solves(h, n + 1)
    BY <2>2, <2>4
  <2>6. \E y : Solves(y, n + 1)
    BY <2>5
  <2> HIDE DEF Solves
  <2> QED
    BY <2>0, <2>6
<1>5. T = Nat
  <2> HIDE DEF T
  <2>1. T \in SUBSET Nat
    BY DEF T
  <2> QED
    BY <1>3, <1>4, <2>1, NumberInduction
<1>6. Cardinality(S) \in Nat /\ Sub(Cardinality(S)) = SUBSET S
  BY <1>1
<1>7. PICK g : Solves(g, Cardinality(S))
  BY <1>5, <1>6
<1>8. AddsUp(g, f, S)
  BY <1>6, <1>7 DEF AddsUp
<1> QED
  BY <1>8 DEF Partial

LEMMA PartialAt ==
    ASSUME NEW f, NEW S, IsFiniteSet(S)
    PROVE  \A s \in SUBSET S :
               Partial(f, S)[s] = IF s = {} THEN 0
                                  ELSE f[Pick(s)] + Partial(f, S)[s \ {Pick(s)}]
<1>1. PICK g : g = Partial(f, S)
  OBVIOUS
<1>2. AddsUp(g, f, S)
  BY <1>1, PartialDefined
<1>3. \A s \in SUBSET S : g[s] = IF s = {} THEN 0 ELSE f[Pick(s)] + g[s \ {Pick(s)}]
  BY <1>2 DEF AddsUp
<1> QED
  BY <1>1, <1>3

LEMMA SumEmpty == ASSUME NEW f PROVE SumOn(f, {}) = 0
<1>1. IsFiniteSet({}) /\ {} \in SUBSET {}
  BY FS_EmptySet
<1>2. Partial(f, {})[{}] = 0
  BY <1>1, PartialAt
<1> QED
  BY <1>2, SumIsPartial

\* Sums on a set and on its subsets are taken alike, so that a partial sum is
\* the sum on its set.
LEMMA PartialIsSum ==
    ASSUME NEW f, NEW S, IsFiniteSet(S), NEW r \in SUBSET S
    PROVE  Partial(f, S)[r] = SumOn(f, r)
<1> DEFINE Same(t, n) == Cardinality(t) = n => Partial(f, S)[t] = Partial(f, r)[t]
           T == {n \in Nat : \A t \in SUBSET r : Same(t, n)}
<1>1. IsFiniteSet(r)
  BY FS_Subset
<1>2. \A t \in SUBSET r : /\ t \in SUBSET S
                          /\ IsFiniteSet(t) /\ Cardinality(t) \in Nat
                          /\ Cardinality(t) = 0 <=> t = {}
  BY <1>1, FS_Subset, FS_CardinalityType, FS_EmptySet
<1>3. \A t \in SUBSET r : t # {} => /\ t \ {Pick(t)} \in SUBSET r
                                    /\ Cardinality(t \ {Pick(t)}) = Cardinality(t) - 1
  BY <1>2, PickIn, FS_RemoveElement
<1>a. \A t \in SUBSET S :
          Partial(f, S)[t] = IF t = {} THEN 0 ELSE f[Pick(t)] + Partial(f, S)[t \ {Pick(t)}]
  BY PartialAt
<1>b. \A t \in SUBSET r :
          Partial(f, r)[t] = IF t = {} THEN 0 ELSE f[Pick(t)] + Partial(f, r)[t \ {Pick(t)}]
  BY <1>1, PartialAt
<1>4. ASSUME NEW t \in SUBSET r
      PROVE
        /\ Partial(f, S)[t] = IF t = {} THEN 0 ELSE f[Pick(t)] + Partial(f, S)[t \ {Pick(t)}]
        /\ Partial(f, r)[t] = IF t = {} THEN 0 ELSE f[Pick(t)] + Partial(f, r)[t \ {Pick(t)}]
  <2>1. t \in SUBSET S
    BY <1>2
  <2> QED
    BY <1>a, <1>b, <2>1
<1>5. 0 \in T
  BY <1>2, <1>4
<1>6. ASSUME NEW n \in T PROVE n + 1 \in T
  <2>1. n \in Nat /\ \A t \in SUBSET r : Same(t, n)
    OBVIOUS
  <2>2. ASSUME NEW t \in SUBSET r PROVE Same(t, n + 1)
    <3>1. SUFFICES ASSUME Cardinality(t) = n + 1
                   PROVE  Partial(f, S)[t] = Partial(f, r)[t]
      OBVIOUS
    <3>2. t # {} /\ t \ {Pick(t)} \in SUBSET r /\ Cardinality(t \ {Pick(t)}) = n
      BY <1>2, <1>3, <2>1, <3>1
    <3>3. Partial(f, S)[t \ {Pick(t)}] = Partial(f, r)[t \ {Pick(t)}]
      BY <2>1, <3>2
    <3> QED
      BY <1>4, <3>2, <3>3
  <2> HIDE DEF Same
  <2> QED
    BY <2>1, <2>2
<1>7. T = Nat
  <2> HIDE DEF T
  <2>1. T \in SUBSET Nat
    BY DEF T
  <2> QED
    BY <1>5, <1>6, <2>1, NumberInduction
<1>8. Same(r, Cardinality(r))
  BY <1>2, <1>7
<1> QED
  BY <1>8, SumIsPartial

LEMMA SumStep ==
    ASSUME NEW f, NEW S, IsFiniteSet(S), S # {}
    PROVE  SumOn(f, S) = f[Pick(S)] + SumOn(f, S \ {Pick(S)})
<1>1. SumOn(f, S) = f[Pick(S)] + Partial(f, S)[S \ {Pick(S)}]
  BY PartialAt, SumIsPartial
<1>2. Partial(f, S)[S \ {Pick(S)}] = SumOn(f, S \ {Pick(S)})
  BY PartialIsSum
<1> QED
  BY <1>1, <1>2

\* A finite set is reached from the empty one by adding the elements Pick
\* takes away.
LEMMA PickInduction ==
    ASSUME NEW S, IsFiniteSet(S), NEW F \in SUBSET SUBSET S, {} \in F,
           \A s \in SUBSET S : s # {} /\ s \ {Pick(s)} \in F => s \in F
    PROVE  S \in F
<1> DEFINE T == {n \in Nat : \A s \in SUBSET S : Cardinality(s) = n => s \in F}
<1>1. \A s \in SUBSET S : /\ IsFiniteSet(s) /\ Cardinality(s) \in Nat
                          /\ Cardinality(s) = 0 <=> s = {}
  BY FS_Subset, FS_CardinalityType, FS_EmptySet
<1>2. \A s \in SUBSET S : s # {} => /\ s \ {Pick(s)} \in SUBSET S
                                    /\ Cardinality(s \ {Pick(s)}) = Cardinality(s) - 1
  BY <1>1, PickIn, FS_RemoveElement
<1>3. 0 \in T
  BY <1>1
<1>4. ASSUME NEW n \in T PROVE n + 1 \in T
  <2>1. n \in Nat /\ \A s \in SUBSET S : Cardinality(s) = n => s \in F
    OBVIOUS
  <2>2. ASSUME NEW s \in SUBSET S, Cardinality(s) = n + 1 PROVE s \in F
    <3>1. s # {} /\ s \ {Pick(s)} \in SUBSET S /\ Cardinality(s \ {Pick(s)}) = n
      BY <1>1, <1>2, <2>1, <2>2
    <3> QED
      BY <2>1, <3>1
  <2> QED
    BY <2>1, <2>2
<1>5. T = Nat
  <2> HIDE DEF T
  <2>1. T \in SUBSET Nat
    BY DEF T
  <2> QED
    BY <1>3, <1>4, <2>1, NumberInduction
<1> QED
  BY <1>1, <1>5

\* The same for functions that agree on a set.
LEMMA SumAgree ==
    ASSUME NEW f, NEW g, NEW S, IsFiniteSet(S), \A x \in S : f[x] = g[x]
    PROVE  SumOn(f, S) = SumOn(g, S)
<1> DEFINE F == {s \in SUBSET S : SumOn(f, s) = SumOn(g, s)}
<1>1. {} \in F
  BY SumEmpty
<1>2. ASSUME NEW s \in SUBSET S, s # {}, s \ {Pick(s)} \in F PROVE s \in F
  BY <1>2, SumStep, PickIn, FS_Subset
<1>3. S \in F
  <2> HIDE DEF F
  <2>1. F \in SUBSET SUBSET S
    BY DEF F
  <2> QED
    BY <1>1, <1>2, <2>1, PickInduction
<1> QED
  BY <1>3

LEMMA SumNat ==
    ASSUME NEW f, NEW S, IsFiniteSet(S), \A x \in S : f[x] \in Nat
    PROVE  SumOn(f, S) \in Nat
<1> DEFINE F == {s \in SUBSET S : SumOn(f, s) \in Nat}
<1>1. {} \in F
  BY SumEmpty
<1>2. ASSUME NEW s \in SUBSET S, s # {}, s \ {Pick(s)} \in F PROVE s \in F
  <2>1. SumOn(f, s) = f[Pick(s)] + SumOn(f, s \ {Pick(s)})
    BY <1>2, SumStep, FS_Subset
  <2> QED
    BY <1>2, <2>1, PickIn
<1>3. S \in F
  <2> HIDE DEF F
  <2>1. F \in SUBSET SUBSET S
    BY DEF F
  <2> QED
    BY <1>1, <1>2, <2>1, PickInduction
<1> QED
  BY <1>3

LEMMA SumLeq ==
    ASSUME NEW f, NEW g, NEW S, IsFiniteSet(S),
           \A x \in S : f[x] \in Nat /\ g[x] \in Nat /\ f[x] <= g[x]
    PROVE  SumOn(f, S) <= SumOn(g, S)
<1> DEFINE F == {s \in SUBSET S : SumOn(f, s) <= SumOn(g, s)}
<1>1. {} \in F
  BY SumEmpty
<1>2. ASSUME NEW s \in SUBSET S, s # {}, s \ {Pick(s)} \in F PROVE s \in F
  <2>1. IsFiniteSet(s) /\ IsFiniteSet(s \ {Pick(s)}) /\ Pick(s) \in S
    BY <1>2, FS_Subset, PickIn
  <2>2. /\ SumOn(f, s) = f[Pick(s)] + SumOn(f, s \ {Pick(s)})
        /\ SumOn(g, s) = g[Pick(s)] + SumOn(g, s \ {Pick(s)})
    BY <1>2, <2>1, SumStep
  <2>3. SumOn(f, s \ {Pick(s)}) \in Nat /\ SumOn(g, s \ {Pick(s)}) \in Nat
    BY <2>1, SumNat
  <2>4. SumOn(f, s \ {Pick(s)}) <= SumOn(g, s \ {Pick(s)})
    BY <1>2
  <2> QED
    BY <2>1, <2>2, <2>3, <2>4
<1>3. S \in F
  <2> HIDE DEF F
  <2>1. F \in SUBSET SUBSET S
    BY DEF F
  <2> QED
    BY <1>1, <1>2, <2>1, PickInduction
<1> QED
  BY <1>3

\* Any element may be taken out, not only the one Pick takes.
LEMMA SumSplit ==
    ASSUME NEW f, NEW S, IsFiniteSet(S), \A x \in S : f[x] \in Nat, NEW y \in S
    PROVE  SumOn(f, S) = f[y] + SumOn(f, S \ {y})
<1> DEFINE Splits(s) == \A x \in s : SumOn(f, s) = f[x] + SumOn(f, s \ {x})
           T == {n \in Nat : \A s \in SUBSET S : Cardinality(s) = n => Splits(s)}
<1>1. \A s \in SUBSET S : /\ IsFiniteSet(s) /\ Cardinality(s) \in Nat
                          /\ Cardinality(s) = 0 <=> s = {}
                          /\ SumOn(f, s) \in Nat
  BY FS_Subset, FS_CardinalityType, FS_EmptySet, SumNat
<1>2. \A s \in SUBSET S : \A x \in s : /\ s \ {x} \in SUBSET S
                                       /\ Cardinality(s \ {x}) = Cardinality(s) - 1
  BY <1>1, FS_RemoveElement
<1>3. 0 \in T
  BY <1>1
<1>4. ASSUME NEW n \in T PROVE n + 1 \in T
  <2>1. n \in Nat /\ \A s \in SUBSET S : Cardinality(s) = n => Splits(s)
    OBVIOUS
  <2>2. ASSUME NEW s \in SUBSET S, Cardinality(s) = n + 1, NEW x \in s
        PROVE  SumOn(f, s) = f[x] + SumOn(f, s \ {x})
    <3>1. PICK p : p = Pick(s)
      OBVIOUS
    <3>2. p \in s /\ SumOn(f, s) = f[p] + SumOn(f, s \ {p})
      BY <1>1, <3>1, PickIn, SumStep
    <3>3. CASE x # p
      <4>1. /\ Cardinality(s \ {p}) = n /\ x \in s \ {p}
            /\ Cardinality(s \ {x}) = n /\ p \in s \ {x}
        BY <1>1, <1>2, <2>1, <2>2, <3>2, <3>3
      <4>2. /\ SumOn(f, s \ {p}) = f[x] + SumOn(f, (s \ {p}) \ {x})
            /\ SumOn(f, s \ {x}) = f[p] + SumOn(f, (s \ {x}) \ {p})
        BY <2>1, <4>1
      <4>3. (s \ {p}) \ {x} = (s \ {x}) \ {p}
        OBVIOUS
      <4>4. f[x] \in Nat /\ f[p] \in Nat /\ SumOn(f, (s \ {x}) \ {p}) \in Nat
        BY <1>1, <3>2
      <4>5. PICK r \in Nat : r = SumOn(f, (s \ {x}) \ {p})
        BY <4>4
      <4>6. SumOn(f, s \ {p}) = f[x] + r /\ SumOn(f, s \ {x}) = f[p] + r
        BY <4>2, <4>3, <4>5
      <4> QED
        BY <3>2, <4>4, <4>6
    <3> QED
      BY <3>2, <3>3
  <2>3. \A s \in SUBSET S : Cardinality(s) = n + 1 => Splits(s)
    BY <2>2
  <2> HIDE DEF Splits
  <2> QED
    BY <2>1, <2>3
<1>5. T = Nat
  <2> HIDE DEF T
  <2>1. T \in SUBSET Nat
    BY DEF T
  <2> QED
    BY <1>3, <1>4, <2>1, NumberInduction
<1>6. Splits(S)
  <2> HIDE DEF Splits
  <2> QED
    BY <1>1, <1>5
<1> QED
  BY <1>6

\* Functions that differ in one place have sums that differ by as much.
LEMMA SumChange ==
    ASSUME NEW f, NEW g, NEW S, IsFiniteSet(S), NEW y \in S,
           \A x \in S : f[x] \in Nat /\ g[x] \in Nat,
           \A x \in S \ {y} : f[x] = g[x]
    PROVE  SumOn(g, S) - g[y] = SumOn(f, S) - f[y]
<1>1. SumOn(f, S) = f[y] + SumOn(f, S \ {y}) /\ SumOn(g, S) = g[y] + SumOn(g, S \ {y})
  BY SumSplit
<1>2. IsFiniteSet(S \ {y})
  BY FS_Subset
<1>3. SumOn(f, S \ {y}) = SumOn(g, S \ {y}) /\ SumOn(f, S \ {y}) \in Nat
  BY <1>2, SumAgree, SumNat
<1> QED
  BY <1>1, <1>3

\* Where all but one value may only fall, the sum grows by at most what the
\* one grows by.
LEMMA SumGrows ==
    ASSUME NEW f, NEW g, NEW S, IsFiniteSet(S), NEW y \in S, NEW n \in Nat,
           \A x \in S : f[x] \in Nat /\ g[x] \in Nat,
           \A x \in S \ {y} : g[x] <= f[x],
           g[y] <= f[y] + n
    PROVE  SumOn(g, S) <= SumOn(f, S) + n
<1>1. SumOn(f, S) = f[y] + SumOn(f, S \ {y}) /\ SumOn(g, S) = g[y] + SumOn(g, S \ {y})
  BY SumSplit
<1>2. IsFiniteSet(S \ {y})
  BY FS_Subset
<1>3. SumOn(g, S \ {y}) <= SumOn(f, S \ {y})
  BY <1>2, SumLeq
<1>4. SumOn(f, S \ {y}) \in Nat /\ SumOn(g, S \ {y}) \in Nat
  BY <1>2, SumNat
<1> QED
  BY <1>1, <1>3, <1>4

LEMMA SumAtLeast ==
    ASSUME NEW f, NEW S, IsFiniteSet(S), \A x \in S : f[x] \in Nat, NEW y \in S
    PROVE  f[y] <= SumOn(f, S)
<1>1. SumOn(f, S) = f[y] + SumOn(f, S \ {y})
  BY SumSplit
<1>2. SumOn(f, S \ {y}) \in Nat
  BY SumNat, FS_Subset
<1> QED
  BY <1>1, <1>2

LEMMA SumZero ==
    ASSUME NEW f, NEW S, IsFiniteSet(S), \A x \in S : f[x] = 0
    PROVE  SumOn(f, S) = 0
<1> DEFINE F == {s \in SUBSET S : SumOn(f, s) = 0}
<1>1. {} \in F
  BY SumEmpty
<1>2. ASSUME NEW s \in SUBSET S, s # {}, s \ {Pick(s)} \in F PROVE s \in F
  <2>1. SumOn(f, s) = f[Pick(s)] + SumOn(f, s \ {Pick(s)})
    BY <1>2, SumStep, FS_Subset
  <2> QED
    BY <1>2, <2>1, PickIn
<1>3. S \in F
  <2> HIDE DEF F
  <2>1. F \in SUBSET SUBSET S
    BY DEF F
  <2> QED
    BY <1>1, <1>2, <2>1, PickInduction
<1> QED
  BY <1>3
-----------------------------------------------------------------------------
(* Powers of two. *)

\* g holds the first powers of two, up to the n-th.
Powers(g, n) ==
    /\ g[0] = 1
    /\ \A k \in 1 .. n : g[k] = 2 * g[k - 1]

\* The equation of Pow2 has a solution.
LEMMA PowersExist ==
    \E f : f = [n \in Nat |-> IF n = 0 THEN 1 ELSE 2 * f[n - 1]]
<1> DEFINE T == {n \in Nat : \E g : Powers(g, n)}
           Chosen(n) == CHOOSE g : Powers(g, n)
<1>1. 0 \in T
  <2>1. Powers([k \in {0} |-> 1], 0)
    BY DEF Powers
  <2> QED
    BY <2>1
<1>2. ASSUME NEW n \in T PROVE n + 1 \in T
  <2>1. PICK g : Powers(g, n)
    OBVIOUS
  <2>2. PICK h : h = [k \in 0 .. n + 1 |-> IF k = n + 1 THEN 2 * g[n] ELSE g[k]]
    OBVIOUS
  <2>3. h[0] = 1 /\ h[n + 1] = 2 * g[n] /\ \A k \in 0 .. n : h[k] = g[k]
    BY <2>1, <2>2 DEF Powers
  <2>4. \A k \in 1 .. n + 1 : h[k] = 2 * h[k - 1]
    <3>1. ASSUME NEW k \in 1 .. n PROVE h[k] = 2 * h[k - 1]
      <4>1. k \in 0 .. n /\ k - 1 \in 0 .. n
        OBVIOUS
      <4> QED
        BY <2>1, <2>3, <4>1 DEF Powers
    <3>2. h[n + 1] = 2 * h[(n + 1) - 1]
      BY <2>3
    <3> QED
      BY <3>1, <3>2
  <2>5. Powers(h, n + 1)
    BY <2>3, <2>4 DEF Powers
  <2> QED
    BY <2>5
<1>3. T = Nat
  <2>1. T \in SUBSET Nat
    OBVIOUS
  <2> HIDE DEF T
  <2> QED
    BY <1>1, <1>2, <2>1, NumberInduction
<1>4. \A n \in Nat : Powers(Chosen(n), n)
  <2>1. ASSUME NEW n \in Nat PROVE Powers(Chosen(n), n)
    <3>1. \E g : Powers(g, n)
      BY <1>3
    <3> QED
      BY <3>1
  <2> QED
    BY <2>1
<1>5. ASSUME NEW g, NEW h, NEW n \in Nat, Powers(g, n + 1), Powers(h, n)
      PROVE  g[n] = h[n]
  <2> DEFINE U == {m \in Nat : m <= n => g[m] = h[m]}
  <2>1. 0 \in U
    BY <1>5 DEF Powers
  <2>2. ASSUME NEW m \in U PROVE m + 1 \in U
    <3>1. SUFFICES ASSUME m + 1 <= n PROVE g[m + 1] = h[m + 1]
      OBVIOUS
    <3>2. m + 1 \in 1 .. n + 1 /\ m + 1 \in 1 .. n /\ (m + 1) - 1 = m /\ m <= n
      BY <3>1
    <3>3. g[m] = h[m]
      BY <3>2
    <3>4. g[m + 1] = 2 * g[m] /\ h[m + 1] = 2 * h[m]
      BY <1>5, <3>2 DEF Powers
    <3> QED
      BY <3>3, <3>4
  <2>3. U \in SUBSET Nat
    OBVIOUS
  <2>4. U = Nat
    <3> HIDE DEF U
    <3> QED
      BY <2>1, <2>2, <2>3, NumberInduction
  <2>5. n \in U
    BY <2>4
  <2> QED
    BY <2>5
<1> HIDE DEF Chosen, T
<1>6. PICK f : f = [n \in Nat |-> Chosen(n)[n]]
  OBVIOUS
<1>7. f[0] = 1
  BY <1>4, <1>6 DEF Powers
<1>8. ASSUME NEW n \in Nat, n # 0 PROVE f[n] = 2 * f[n - 1]
  <2>1. PICK m \in Nat : m = n - 1 /\ n = m + 1
    BY <1>8
  <2>2. Powers(Chosen(m + 1), m + 1) /\ Powers(Chosen(m), m)
    BY <1>4
  <2>3. Chosen(m + 1)[m] = Chosen(m)[m]
    BY <1>5, <2>2
  <2>4. Chosen(m + 1)[m + 1] = 2 * Chosen(m + 1)[m]
    <3>1. m + 1 \in 1 .. m + 1 /\ (m + 1) - 1 = m
      OBVIOUS
    <3> QED
      BY <2>2, <3>1 DEF Powers
  <2>5. f[m + 1] = Chosen(m + 1)[m + 1] /\ f[m] = Chosen(m)[m]
    BY <1>6
  <2> QED
    BY <2>1, <2>3, <2>4, <2>5
<1>9. f = [n \in Nat |-> IF n = 0 THEN 1 ELSE 2 * f[n - 1]]
  <2>1. \A n \in Nat : f[n] = IF n = 0 THEN 1 ELSE 2 * f[n - 1]
    BY <1>7, <1>8
  <2> QED
    BY <1>6, <2>1
<1> QED
  BY <1>9

\* The equations of Pow2: each power is twice the one before.
LEMMA Pow2Is ==
    /\ Pow2[0] = 1
    /\ \A n \in Nat : Pow2[n] \in Nat \ {0} /\ Pow2[n + 1] = 2 * Pow2[n]
<1>1. Pow2 = [n \in Nat |-> IF n = 0 THEN 1 ELSE 2 * Pow2[n - 1]]
  BY PowersExist DEF Pow2
<1>2. PICK p : p = Pow2
  OBVIOUS
<1>3. \A n \in Nat : p[n] = IF n = 0 THEN 1 ELSE 2 * p[n - 1]
  BY <1>1, <1>2
<1>4. ASSUME NEW n \in Nat PROVE p[n + 1] = 2 * p[n]
  <2>1. n + 1 \in Nat /\ n + 1 # 0 /\ (n + 1) - 1 = n
    OBVIOUS
  <2> QED
    BY <1>3, <2>1
<1> DEFINE T == {n \in Nat : p[n] \in Nat \ {0}}
<1>5. 0 \in T
  BY <1>3
<1>6. \A n \in T : n + 1 \in T
  BY <1>4
<1>7. T = Nat
  <2>1. T \in SUBSET Nat
    OBVIOUS
  <2> HIDE DEF T
  <2> QED
    BY <1>5, <1>6, <2>1, NumberInduction
<1>8. \A n \in Nat : p[n] \in Nat \ {0}
  BY <1>7
<1> QED
  BY <1>2, <1>3, <1>4, <1>8

LEMMA Pow2Mono ==
    ASSUME NEW m \in Nat, NEW n \in Nat, m <= n
    PROVE  Pow2[m] <= Pow2[n]
<1> DEFINE T == {k \in Nat : Pow2[m] <= Pow2[m + k]}
<1>1. 0 \in T
  BY Pow2Is
<1>2. ASSUME NEW k \in T PROVE k + 1 \in T
  <2>1. m + k \in Nat /\ m + (k + 1) = (m + k) + 1
    OBVIOUS
  <2>2. Pow2[m + (k + 1)] = 2 * Pow2[m + k] /\ Pow2[m + k] \in Nat /\ Pow2[m] \in Nat
    BY <2>1, Pow2Is
  <2> QED
    BY <2>2
<1>3. T = Nat
  <2>1. T \in SUBSET Nat
    OBVIOUS
  <2> HIDE DEF T
  <2> QED
    BY <1>1, <1>2, <2>1, NumberInduction
<1>4. PICK j \in Nat : m + j = n
  <2>1. n - m \in Nat /\ m + (n - m) = n
    OBVIOUS
  <2> QED
    BY <2>1
<1>5. j \in T
  <2> HIDE DEF T
  <2> QED
    BY <1>3
<1> QED
  BY <1>4, <1>5

LEMMA Pow2Steps ==
    ASSUME NEW n \in Nat
    PROVE  /\ Pow2[n + 1] = 2 * Pow2[n]
           /\ Pow2[n + 2] = 4 * Pow2[n]
           /\ Pow2[n + 4] = 16 * Pow2[n]
           /\ Pow2[n + 8] = 256 * Pow2[n]
           /\ Pow2[n + 16] = 65536 * Pow2[n]
<1>1. ASSUME NEW m \in Nat PROVE Pow2[m + 2] = 4 * Pow2[m]
  <2>1. PICK k \in Nat : k = m + 1 /\ k + 1 = m + 2
    OBVIOUS
  <2>2. Pow2[k + 1] = 2 * Pow2[k] /\ Pow2[m + 1] = 2 * Pow2[m] /\ Pow2[m] \in Nat
    BY Pow2Is
  <2> QED
    BY <2>1, <2>2
<1>2. ASSUME NEW m \in Nat PROVE Pow2[m + 4] = 16 * Pow2[m]
  <2>1. (m + 2) + 2 = m + 4 /\ m + 2 \in Nat
    OBVIOUS
  <2>2. Pow2[m + 4] = 4 * Pow2[m + 2] /\ Pow2[m + 2] = 4 * Pow2[m] /\ Pow2[m] \in Nat
    BY <1>1, <2>1, Pow2Is
  <2> QED
    BY <2>2
<1>3. ASSUME NEW m \in Nat PROVE Pow2[m + 8] = 256 * Pow2[m]
  <2>1. (m + 4) + 4 = m + 8 /\ m + 4 \in Nat
    OBVIOUS
  <2>2. Pow2[m + 8] = 16 * Pow2[m + 4] /\ Pow2[m + 4] = 16 * Pow2[m] /\ Pow2[m] \in Nat
    BY <1>2, <2>1, Pow2Is
  <2> QED
    BY <2>2
<1>4. (n + 8) + 8 = n + 16 /\ n + 8 \in Nat
  OBVIOUS
<1>5. Pow2[n + 16] = 256 * Pow2[n + 8] /\ Pow2[n + 8] = 256 * Pow2[n] /\ Pow2[n] \in Nat
  BY <1>3, <1>4, Pow2Is
<1> QED
  BY <1>1, <1>2, <1>3, <1>5, Pow2Is
=============================================================================
