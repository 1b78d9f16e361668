-------------------------- MODULE LatencyRowProofs --------------------------
(***************************************************************************)
(* Proofs about LatencyRow for any number of CPUs, any samples, any width  *)
(* of a field, any number of buckets.                                      *)
(***************************************************************************)
EXTENDS LatencyRow, SequenceTheorems, FiniteSetTheorems, TLAPS

-----------------------------------------------------------------------------
(* Numbers. *)

\* What a u32 field holds of a sample: nothing changes if it fits.
LEMMA U32Type ==
    ASSUME NEW v \in Nat
    PROVE  /\ U32(v) \in 0 .. W32 - 1
           /\ v < W32 => U32(v) = v
BY W32Is DEF U32

LEMMA Log2Type ==
    ASSUME NEW v
    PROVE  Log2(v) \in Nat
<1> DEFINE r1 == IF v >= 65536 THEN 16 ELSE 0
           v1 == v \div Pow2[r1]
           r2 == IF v1 >= 256 THEN 8 ELSE 0
           v2 == v1 \div Pow2[r2]
           r3 == IF v2 >= 16 THEN 4 ELSE 0
           v3 == v2 \div Pow2[r3]
           r4 == IF v3 >= 4 THEN 2 ELSE 0
           v4 == v3 \div Pow2[r4]
           r5 == IF v4 >= 2 THEN 1 ELSE 0
<1>1. r1 \in Nat
  OBVIOUS
<1>2. r2 \in Nat
  OBVIOUS
<1>3. r3 \in Nat
  OBVIOUS
<1>4. r4 \in Nat
  OBVIOUS
<1>5. r5 \in Nat
  OBVIOUS
<1>6. Log2(v) = r1 + r2 + r3 + r4 + r5
  BY DEF Log2
<1> HIDE DEF r1, r2, r3, r4, r5
<1> QED
  BY <1>1, <1>2, <1>3, <1>4, <1>5, <1>6

LEMMA BucketType ==
    ASSUME NEW v
    PROVE  Bucket(v) \in Buckets
BY Log2Type, TopIs DEF Bucket, Buckets

LEMMA NewRowType ==
    ASSUME NEW v \in Samples
    PROVE  NewRow(v) \in RowType
<1>1. v \in Nat /\ U32(v) \in 0 .. W32 - 1
  BY SamplesAre, U32Type
<1> QED
  BY <1>1 DEF NewRow, RowType

-----------------------------------------------------------------------------
(* The type invariant, with what the pointers point to. *)

PointersHold ==
    /\ Len(took) = Len(rows)
    /\ \A c \in CPUs : cpu[c] # Idle => cpu[c].row \in 0 .. Len(rows)
    /\ copy # NoCopy => copy.of \in 1 .. Len(rows)

TInv == TypeOK /\ PointersHold

LEMMA RunFields ==
    ASSUME TInv, NEW c \in CPUs, cpu[c] # Idle
    PROVE  /\ cpu[c] \in Run
           /\ cpu[c].sample \in Samples
           /\ cpu[c].sample \in Nat
           /\ cpu[c].row \in 0 .. Len(rows)
           /\ cpu[c].step \in 1 .. 5
           /\ cpu[c].store \in BOOLEAN
<1>1. cpu[c] \in Run
  BY DEF TInv, TypeOK
<1> QED
  BY <1>1, SamplesAre DEF Run, TInv, PointersHold

\* A run that goes on or ends.
LEMMA AdvanceRun ==
    ASSUME TInv, NEW c \in CPUs, cpu[c] # Idle, Advance(c)
    PROVE  /\ cpu' \in [CPUs -> {Idle} \cup Run]
           /\ \A d \in CPUs \ {c} : cpu'[d] = cpu[d]
           /\ \/ cpu[c].step = 5 /\ cpu'[c] = Idle
              \/ /\ cpu[c].step < 5
                 /\ cpu'[c] # Idle
                 /\ cpu'[c].row = cpu[c].row
                 /\ cpu'[c].sample = cpu[c].sample
                 /\ cpu'[c].step = cpu[c].step + 1
                 /\ cpu'[c].store = FALSE
<1>1. cpu[c] \in Run /\ cpu[c].step \in 1 .. 5
  BY RunFields
<1>2. cpu \in [CPUs -> {Idle} \cup Run]
  BY DEF TInv, TypeOK
<1> DEFINE on == RunAt(cpu[c].sample, cpu[c].row, cpu[c].step + 1, FALSE)
<1>3. cpu' = [cpu EXCEPT ![c] = IF cpu[c].step = 5 THEN Idle ELSE on]
  BY DEF Advance
<1>4. CASE cpu[c].step = 5
  BY <1>2, <1>3, <1>4
<1>5. CASE cpu[c].step # 5
  <2>1. /\ on.row = cpu[c].row
        /\ on.sample = cpu[c].sample
        /\ on.step = cpu[c].step + 1
        /\ on.store = FALSE
        /\ on.pc = "run"
    BY DEF RunAt
  <2>2. on \in Run
    BY <1>1, <1>5, RunFields DEF Run, RunAt
  <2>3. on # Idle
    <3>1. Idle.pc = "idle"
      BY DEF Idle
    <3> QED
      BY <2>1, <3>1
  <2> HIDE DEF on
  <2> QED
    BY <1>1, <1>2, <1>3, <1>5, <2>1, <2>2, <2>3
<1> QED
  BY <1>4, <1>5

\* A step that writes to a row: only that row changes, and it stays a row.
LEMMA RowWritten ==
    ASSUME TInv, NEW c \in CPUs, cpu[c] # Idle, cpu[c].row # 0,
           NEW new \in RowType, Write(c, new)
    PROVE  /\ cpu[c].row \in 1 .. Len(rows)
           /\ Found(c) \in RowType
           /\ rows' \in Seq(RowType)
           /\ Len(rows') = Len(rows)
           /\ rows'[cpu[c].row] = new
           /\ \A i \in 1 .. Len(rows) : i # cpu[c].row => rows'[i] = rows[i]
           /\ UNCHANGED <<table, copy, runs, took, raced>>
<1>1. cpu[c].row \in 1 .. Len(rows) /\ rows \in Seq(RowType)
  BY RunFields DEF TInv, TypeOK
<1>2. Found(c) \in RowType
  BY <1>1, ElementOfSeq DEF Found
<1>3. rows' = [rows EXCEPT ![cpu[c].row] = new]
  BY DEF Write
<1> QED
  BY <1>1, <1>2, <1>3, ExceptSeq DEF Write

LEMMA FoundType ==
    ASSUME TInv, NEW c \in CPUs, cpu[c] # Idle, cpu[c].row # 0
    PROVE  Found(c) \in RowType
<1>1. cpu[c].row \in 1 .. Len(rows) /\ rows \in Seq(RowType)
  BY RunFields DEF TInv, TypeOK
<1> QED
  BY <1>1, ElementOfSeq DEF Found

\* The five rows a step may write.
LEMMA NewFields ==
    ASSUME NEW r \in RowType, NEW v \in Nat, NEW b \in Buckets
    PROVE  /\ [r EXCEPT !.sum = r.sum + v] \in RowType
           /\ [r EXCEPT !.count = r.count + 1] \in RowType
           /\ [r EXCEPT !.hist = [r.hist EXCEPT ![b] = r.hist[b] + 1]] \in RowType
           /\ [r EXCEPT !.min = U32(v)] \in RowType
           /\ [r EXCEPT !.max = U32(v)] \in RowType
<1>1. U32(v) \in 0 .. W32 - 1
  BY U32Type
<1>2. [r.hist EXCEPT ![b] = r.hist[b] + 1] \in [Buckets -> Nat]
  BY DEF RowType
<1>3. r.hist \in [Buckets -> Nat]
  BY DEF RowType
<1> QED
  BY <1>1, <1>2, <1>3 DEF RowType

LEMMA WriteType ==
    ASSUME TInv, NEW c \in CPUs, cpu[c] # Idle, cpu[c].row # 0,
           NEW new \in RowType, Write(c, new)
    PROVE  TInv'
<1>1. rows' \in Seq(RowType) /\ Len(rows') = Len(rows)
  BY RowWritten
<1>2. DOMAIN rows' = DOMAIN rows
  BY <1>1, LenProperties DEF TInv, TypeOK
<1>3. /\ cpu' \in [CPUs -> {Idle} \cup Run]
      /\ \A d \in CPUs : cpu'[d] # Idle => cpu[d] # Idle /\ cpu'[d].row = cpu[d].row
  BY AdvanceRun DEF Write
<1>4. UNCHANGED <<table, copy, runs, took, raced>>
  BY DEF Write
<1> QED
  BY <1>1, <1>2, <1>3, <1>4 DEF TInv, TypeOK, PointersHold

LEMMA TestType ==
    ASSUME TInv, NEW c \in CPUs, NEW f, NEW smaller, Test(c, f, smaller)
    PROVE  TInv'
<1>1. cpu[c] # Idle /\ UNCHANGED <<table, rows, copy, runs, took, raced>>
  BY DEF Test, At
<1>2. /\ cpu' \in [CPUs -> {Idle} \cup Run]
      /\ \A d \in CPUs : cpu'[d] # Idle => cpu[d] # Idle /\ cpu'[d].row = cpu[d].row
  <2>1. CASE smaller
    <3> DEFINE on == RunAt(cpu[c].sample, cpu[c].row, cpu[c].step, TRUE)
    <3>1. cpu' = [cpu EXCEPT ![c] = on]
      BY <2>1 DEF Test
    <3>2. on \in Run /\ on.row = cpu[c].row
      BY <1>1, RunFields DEF Run, RunAt
    <3> HIDE DEF on
    <3> QED
      BY <1>1, <3>1, <3>2 DEF TInv, TypeOK
  <2>2. CASE ~smaller
    BY <1>1, <2>2, AdvanceRun DEF Test
  <2> QED
    BY <2>1, <2>2
<1> QED
  BY <1>1, <1>2 DEF TInv, TypeOK, PointersHold

LEMMA LookupType ==
    ASSUME TInv, NEW c \in CPUs, NEW v \in Samples, Lookup(c, v)
    PROVE  TInv'
<1> DEFINE on == RunAt(v, Len(rows), 1, FALSE)
<1>1. /\ rows \in Seq(RowType)
      /\ took \in Seq(Seq(Samples))
      /\ Len(took) = Len(rows)
      /\ Len(rows) \in Nat
      /\ DOMAIN rows = 1 .. Len(rows)
  BY LenProperties DEF TInv, TypeOK, PointersHold
<1>2. UNCHANGED <<table, rows, copy>> /\ runs' \in 0 .. MaxRuns
  BY RunBound DEF Lookup, TInv, TypeOK
<1>3. /\ cpu' \in [CPUs -> {Idle} \cup Run]
      /\ \A d \in CPUs : cpu'[d] # Idle => cpu'[d].row \in 0 .. Len(rows)
  <2>1. on \in Run /\ on.row = Len(rows)
    BY <1>1 DEF Run, RunAt
  <2>2. cpu' = [cpu EXCEPT ![c] = on]
    BY DEF Lookup
  <2> HIDE DEF on
  <2> QED
    BY <1>1, <2>1, <2>2 DEF TInv, TypeOK, PointersHold
<1>4. /\ took' \in Seq(Seq(Samples))
      /\ Len(took') = Len(took)
      /\ raced' \subseteq DOMAIN rows
  <2>1. CASE rows = <<>>
    BY <1>1, <2>1 DEF Lookup, TInv, TypeOK
  <2>2. CASE rows # <<>>
    <3>1. Len(rows) \in 1 .. Len(took)
      BY <1>1, <2>2, EmptySeq
    <3>2. Append(took[Len(rows)], v) \in Seq(Samples)
      BY <1>1, <3>1, ElementOfSeq, AppendProperties
    <3>3. took' = [took EXCEPT ![Len(rows)] = Append(took[Len(rows)], v)]
      BY <2>2 DEF Lookup
    <3>4. raced' \subseteq raced \cup {Len(rows)}
      BY <2>2 DEF Lookup
    <3> QED
      BY <1>1, <3>1, <3>2, <3>3, <3>4, ExceptSeq DEF TInv, TypeOK
  <2> QED
    BY <2>1, <2>2
<1> QED
  BY <1>1, <1>2, <1>3, <1>4 DEF TInv, TypeOK, PointersHold

LEMMA InsertType ==
    ASSUME TInv, NEW c \in CPUs, Insert(c)
    PROVE  TInv'
<1>1. /\ rows \in Seq(RowType)
      /\ took \in Seq(Seq(Samples))
      /\ Len(took) = Len(rows)
      /\ Len(rows) \in Nat
      /\ DOMAIN rows = 1 .. Len(rows)
  BY LenProperties DEF TInv, TypeOK, PointersHold
<1>2. cpu[c] # Idle /\ cpu[c].sample \in Samples
  BY RunFields DEF Insert
<1>3. /\ rows' \in Seq(RowType)
      /\ Len(rows') = Len(rows) + 1
  BY <1>1, <1>2, NewRowType, AppendProperties DEF Insert
<1>4. /\ took' \in Seq(Seq(Samples))
      /\ Len(took') = Len(took) + 1
  <2>1. <<cpu[c].sample>> \in Seq(Samples)
    BY <1>2
  <2> QED
    BY <1>1, <2>1, AppendProperties DEF Insert
<1>5. DOMAIN rows' = 1 .. Len(rows')
  BY <1>3, LenProperties
<1>6. /\ cpu' \in [CPUs -> {Idle} \cup Run]
      /\ \A d \in CPUs : cpu'[d] # Idle => cpu[d] # Idle /\ cpu'[d] = cpu[d]
  BY DEF Insert, TInv, TypeOK
<1>7. UNCHANGED <<table, copy, runs, raced>>
  BY DEF Insert
<1> QED
  BY <1>1, <1>3, <1>4, <1>5, <1>6, <1>7 DEF TInv, TypeOK, PointersHold

LEMMA CopyingType ==
    ASSUME TInv, NEW i \in 1 .. Len(rows), NEW val \in RowType,
           NEW left \in SUBSET Fields, NEW pairs \in SUBSET Pairs,
           Copying(i, val, left, pairs)
    PROVE  TInv'
<1> DEFINE new == [of |-> i, val |-> val, left |-> left, pairs |-> pairs]
<1>1. new \in Copy /\ new.of = i
  BY LenProperties DEF Copy, TInv, TypeOK
<1>2. copy' = new /\ UNCHANGED <<table, rows, cpu, runs, took, raced>>
  BY DEF Copying
<1> HIDE DEF new
<1> QED
  BY <1>1, <1>2 DEF TInv, TypeOK, PointersHold

LEMMA CopyFields ==
    ASSUME TInv, copy # NoCopy
    PROVE  /\ copy.of \in 1 .. Len(rows)
           /\ rows[copy.of] \in RowType
           /\ copy.val \in RowType
           /\ copy.left \in SUBSET Fields
           /\ copy.pairs \in SUBSET Pairs
<1>1. copy \in Copy /\ copy.of \in 1 .. Len(rows) /\ rows \in Seq(RowType)
  BY DEF TInv, TypeOK, PointersHold
<1> QED
  BY <1>1, ElementOfSeq DEF Copy

LEMMA CopyType ==
    ASSUME TInv,
           \/ CopyBegins
           \/ \E f \in Fields : CopyField(f)
           \/ \E w \in Pairs : CopyPair(w)
           \/ CopyEnds
    PROVE  TInv'
<1>1. CASE CopyBegins
  <2>1. Len(rows) \in 1 .. Len(rows)
    BY <1>1, EmptySeq, LenProperties DEF CopyBegins, TInv, TypeOK
  <2>2. Cleared \in RowType
    BY W32Is DEF Cleared, RowType
  <2> QED
    BY <1>1, <2>1, <2>2, CopyingType DEF CopyBegins
<1>2. ASSUME NEW f \in Fields, CopyField(f) PROVE TInv'
  <2> DEFINE r == rows[copy.of]
             val == [sum |-> IF f = "sum" THEN r.sum ELSE copy.val.sum,
                     count |-> IF f = "count" THEN r.count ELSE copy.val.count,
                     min |-> IF f = "extremes" THEN r.min ELSE copy.val.min,
                     max |-> IF f = "extremes" THEN r.max ELSE copy.val.max,
                     hist |-> copy.val.hist]
  <2>1. copy # NoCopy
    BY <1>2 DEF CopyField
  <2>2. val \in RowType
    BY <2>1, CopyFields DEF RowType
  <2>3. Copying(copy.of, val, copy.left \ {f}, copy.pairs)
    BY <1>2 DEF CopyField
  <2>4. copy.left \ {f} \in SUBSET Fields
    BY <2>1, CopyFields
  <2> HIDE DEF val
  <2> QED
    BY <2>1, <2>2, <2>3, <2>4, CopyFields, CopyingType
<1>3. ASSUME NEW w \in Pairs, CopyPair(w) PROVE TInv'
  <2> DEFINE h == [b \in Buckets |-> IF b \div 2 = w THEN rows[copy.of].hist[b]
                                     ELSE copy.val.hist[b]]
             val == [copy.val EXCEPT !.hist = h]
  <2>1. copy # NoCopy
    BY <1>3 DEF CopyPair
  <2>2. h \in [Buckets -> Nat]
    BY <2>1, CopyFields DEF RowType
  <2>3. val \in RowType
    <3> HIDE DEF h
    <3> QED
      BY <2>1, <2>2, CopyFields DEF RowType
  <2>4. Copying(copy.of, val, copy.left, copy.pairs \ {w})
    BY <1>3 DEF CopyPair
  <2>5. copy.pairs \ {w} \in SUBSET Pairs
    BY <2>1, CopyFields
  <2> HIDE DEF val
  <2> QED
    BY <2>1, <2>3, <2>4, <2>5, CopyFields, CopyingType
<1>4. CASE CopyEnds
  BY <1>4 DEF CopyEnds, TInv, TypeOK, PointersHold
<1> QED
  BY <1>1, <1>2, <1>3, <1>4

\* What each step of a run on a row writes.
LEMMA StepType ==
    ASSUME TInv, NEW c \in CPUs,
           AddSum(c) \/ AddCount(c) \/ AddHist(c) \/ StoreMin(c) \/ StoreMax(c)
    PROVE  TInv'
<1>1. cpu[c] # Idle /\ cpu[c].row # 0
  BY DEF AddSum, AddCount, AddHist, StoreMin, StoreMax, At
<1>2. /\ Found(c) \in RowType
      /\ cpu[c].sample \in Nat
      /\ Bucket(cpu[c].sample) \in Buckets
  BY <1>1, FoundType, RunFields, BucketType
<1>3. \E new \in RowType : Write(c, new)
  <2>1. CASE AddSum(c)
    BY <1>2, <2>1, NewFields DEF AddSum
  <2>2. CASE AddCount(c)
    BY <1>2, <2>2, NewFields DEF AddCount
  <2>3. CASE AddHist(c)
    BY <1>2, <2>3, NewFields DEF AddHist
  <2>4. CASE StoreMin(c)
    BY <1>2, <2>4, NewFields DEF StoreMin
  <2>5. CASE StoreMax(c)
    BY <1>2, <2>5, NewFields DEF StoreMax
  <2> QED
    BY <2>1, <2>2, <2>3, <2>4, <2>5
<1> QED
  BY <1>1, <1>3, WriteType

LEMMA InitType == Init => TInv
BY EmptySeq, RunBound DEF Init, TInv, TypeOK, PointersHold

LEMMA NextType == TInv /\ [Next]_vars => TInv'
<1> SUFFICES ASSUME TInv, [Next]_vars PROVE TInv'
  OBVIOUS
<1>1. ASSUME NEW c \in CPUs, NEW v \in Samples, Lookup(c, v) PROVE TInv'
  BY <1>1, LookupType
<1>2. ASSUME NEW c \in CPUs, Insert(c) PROVE TInv'
  BY <1>2, InsertType
<1>3. ASSUME NEW c \in CPUs, TestMin(c) \/ TestMax(c) PROVE TInv'
  <2>1. CASE TestMin(c)
    <3>1. Test(c, "min", cpu[c].sample < Found(c).min \/ Found(c).min = 0)
      BY <2>1 DEF TestMin
    <3> QED
      BY <3>1, TestType
  <2>2. CASE TestMax(c)
    <3>1. Test(c, "max", cpu[c].sample > Found(c).max)
      BY <2>2 DEF TestMax
    <3> QED
      BY <3>1, TestType
  <2> QED
    BY <1>3, <2>1, <2>2
<1>4. CASE UNCHANGED vars
  BY <1>4 DEF vars, TInv, TypeOK, PointersHold
<1> QED
  BY <1>1, <1>2, <1>3, <1>4, StepType, CopyType DEF Next

LEMMA Typed == Spec => []TInv
BY InitType, NextType, PTL DEF Spec

\* For any number of CPUs, samples and buckets the state has its type; in
\* particular a sample of any size is stored as a u32.
THEOREM TypeCorrect == Spec => []TypeOK
<1>1. TInv => TypeOK
  BY DEF TInv
<1> QED
  BY <1>1, Typed, PTL

-----------------------------------------------------------------------------
(* The count and the histogram.  Each of a run's steps takes it out of one *)
(* of the sets of runs that have yet to do a step, and a lookup puts it in *)
(* all of them when it enters its sample in the row's history.             *)

StepNames == {"sum", "count", "hist", "min", "max"}

LEMMA OrderFacts ==
    ASSUME NEW s \in StepNames, NEW t \in StepNames
    PROVE  /\ Order[s] \in 1 .. 5
           /\ s # t => Order[s] # Order[t]
BY DEF StepNames, Order, RttOrder, DnsOrder

Waiting(i, b) == {c \in Before(i, "hist") : Bucket(cpu[c].sample) = b}
InBucket(i, b) == {k \in DOMAIN took[i] : Bucket(took[i][k]) = b}

RowTallies(i) ==
    /\ rows[i].count + Cardinality(Before(i, "count")) = Len(took[i])
    /\ \A b \in Buckets :
        rows[i].hist[b] + Cardinality(Waiting(i, b)) = Cardinality(InBucket(i, b))

LEMMA TallyRestated ==
    /\ CountsTally <=> \A i \in DOMAIN rows : RowTallies(i)
    /\ CountsTally' <=> \A i \in DOMAIN rows' : RowTallies(i)'
<1>1. CountsTally <=> \A i \in DOMAIN rows : RowTallies(i)
  BY DEF CountsTally, RowTallies, Waiting, InBucket
<1>2. CountsTally' <=> \A i \in DOMAIN rows' : RowTallies(i)'
  BY DEF CountsTally, RowTallies, Waiting, InBucket
<1> QED
  BY <1>1, <1>2

LEMMA BeforeFinite ==
    ASSUME NEW i, NEW b
    PROVE  /\ IsFiniteSet(Before(i, "count"))
           /\ Cardinality(Before(i, "count")) \in Nat
           /\ IsFiniteSet(Waiting(i, b))
           /\ Cardinality(Waiting(i, b)) \in Nat
<1>1. Before(i, "count") \in SUBSET CPUs /\ Waiting(i, b) \in SUBSET CPUs
  BY DEF Before, Waiting, Holders
<1>2. IsFiniteSet(Before(i, "count")) /\ IsFiniteSet(Waiting(i, b))
  BY <1>1, CPUsFinite, FS_Subset
<1> QED
  BY <1>2, FS_CardinalityType

\* The row of a run, and its fields.
LEMMA RowFields ==
    ASSUME TInv, NEW i \in DOMAIN rows
    PROVE  /\ i \in 1 .. Len(rows)
           /\ rows[i] \in RowType
           /\ rows[i].count \in Nat
           /\ \A b \in Buckets : rows[i].hist[b] \in Nat
           /\ took[i] \in Seq(Samples)
           /\ DOMAIN took[i] = 1 .. Len(took[i])
           /\ Len(took[i]) \in Nat
<1>1. /\ rows \in Seq(RowType)
      /\ took \in Seq(Seq(Samples))
      /\ Len(took) = Len(rows)
  BY DEF TInv, TypeOK, PointersHold
<1>2. i \in 1 .. Len(rows)
  BY <1>1, LenProperties
<1>3. rows[i] \in RowType /\ took[i] \in Seq(Samples)
  BY <1>1, <1>2, ElementOfSeq
<1> QED
  BY <1>2, <1>3, LenProperties DEF RowType

\* A run that leaves step s leaves the runs before s, and no others.
LEMMA AdvanceLeaves ==
    ASSUME TInv, NEW c \in CPUs, NEW s \in StepNames, At(c, s), Advance(c),
           table' = table, NEW i
    PROVE  \A t \in StepNames :
               Before(i, t)' = IF s = t THEN Before(i, t) \ {c} ELSE Before(i, t)
<1>1. cpu[c] # Idle /\ cpu[c].step = Order[s] /\ Order' = Order
  BY DEF At, Order
<1>2. /\ \A d \in CPUs \ {c} : cpu'[d] = cpu[d]
      /\ \/ cpu[c].step = 5 /\ cpu'[c] = Idle
         \/ /\ cpu[c].step < 5
            /\ cpu'[c] # Idle
            /\ cpu'[c].row = cpu[c].row
            /\ cpu'[c].step = cpu[c].step + 1
  BY <1>1, AdvanceRun
<1>3. ASSUME NEW t \in StepNames, NEW d \in CPUs
      PROVE  d \in Before(i, t)' <=> d \in Before(i, t) /\ ~(t = s /\ d = c)
  <2>1. /\ Order[s] \in 1 .. 5 /\ Order[t] \in 1 .. 5
        /\ s # t => Order[s] # Order[t]
    BY OrderFacts
  <2>2. CASE d # c
    BY <1>1, <1>2, <2>2 DEF Before, Holders
  <2>3. CASE d = c
    <3>1. CASE cpu'[c] = Idle
      BY <1>1, <1>2, <2>1, <2>3, <3>1 DEF Before, Holders
    <3>2. CASE cpu'[c] # Idle
      BY <1>1, <1>2, <2>1, <2>3, <3>2 DEF Before, Holders
    <3> QED
      BY <3>1, <3>2
  <2> QED
    BY <2>2, <2>3
<1>4. ASSUME NEW t \in StepNames
      PROVE  Before(i, t)' = IF s = t THEN Before(i, t) \ {c} ELSE Before(i, t)
  <2>1. Before(i, t) \subseteq CPUs /\ Before(i, t)' \subseteq CPUs
    BY DEF Before, Holders
  <2> QED
    BY <1>3, <2>1
<1> QED
  BY <1>4

LEMMA AdvanceBefore ==
    ASSUME TInv, NEW c \in CPUs, NEW s \in StepNames, At(c, s), Advance(c),
           table' = table, NEW i
    PROVE  /\ Before(i, "count")' = IF s = "count" THEN Before(i, "count") \ {c}
                                    ELSE Before(i, "count")
           /\ \A b : Waiting(i, b)' = IF s = "hist" THEN Waiting(i, b) \ {c}
                                      ELSE Waiting(i, b)
<1>1. cpu[c] # Idle
  BY DEF At
<1>2. \A d \in CPUs : cpu'[d] # Idle => cpu'[d].sample = cpu[d].sample
  BY <1>1, AdvanceRun
<1>3. \A d \in Before(i, "hist")' : cpu'[d].sample = cpu[d].sample
  BY <1>2 DEF Before, Holders
<1>4. "count" \in StepNames /\ "hist" \in StepNames
  BY DEF StepNames
<1> QED
  BY <1>3, <1>4, AdvanceLeaves DEF Waiting

\* A step that adds to the count or to a bucket just what its run was still
\* to add there keeps the tally.
LEMMA StepTally ==
    ASSUME TInv, CountsTally, NEW c \in CPUs, NEW s \in StepNames,
           At(c, s), Advance(c), UNCHANGED <<table, took>>,
           DOMAIN rows' = DOMAIN rows,
           \A i \in DOMAIN rows :
               LET mine == i = cpu[c].row
               IN /\ rows'[i].count = IF mine /\ s = "count" THEN rows[i].count + 1
                                      ELSE rows[i].count
                  /\ \A b \in Buckets :
                      rows'[i].hist[b] =
                          IF mine /\ s = "hist" /\ Bucket(cpu[c].sample) = b
                          THEN rows[i].hist[b] + 1 ELSE rows[i].hist[b]
    PROVE  CountsTally'
<1>1. /\ cpu[c] # Idle /\ cpu[c].step = Order[s]
      /\ Order[s] \in 1 .. 5
  BY OrderFacts DEF At
<1>2. ASSUME NEW i \in DOMAIN rows
       PROVE  rows'[i].count = IF i = cpu[c].row /\ s = "count" THEN rows[i].count + 1
                               ELSE rows[i].count
  OBVIOUS
<1>3. ASSUME NEW i \in DOMAIN rows, NEW b \in Buckets
       PROVE  rows'[i].hist[b] =
                  IF i = cpu[c].row /\ s = "hist" /\ Bucket(cpu[c].sample) = b
                  THEN rows[i].hist[b] + 1 ELSE rows[i].hist[b]
  OBVIOUS
<1>4. ASSUME NEW i \in DOMAIN rows
      PROVE  rows'[i].count + Cardinality(Before(i, "count")') = Len(took[i])
  <2>1. rows[i].count + Cardinality(Before(i, "count")) = Len(took[i])
    BY DEF CountsTally
  <2>2. /\ rows[i].count \in Nat /\ Len(took[i]) \in Nat
        /\ IsFiniteSet(Before(i, "count"))
        /\ Cardinality(Before(i, "count")) \in Nat
    BY RowFields, BeforeFinite
  <2>3. CASE s = "count"
    <3>1. Before(i, "count")' = Before(i, "count") \ {c}
      BY <2>3, AdvanceBefore
    <3>2. c \in Before(i, "count") <=> i = cpu[c].row
      BY <1>1, <2>3 DEF Before, Holders
    <3>3. Cardinality(Before(i, "count") \ {c}) =
              IF i = cpu[c].row THEN Cardinality(Before(i, "count")) - 1
              ELSE Cardinality(Before(i, "count"))
      BY <2>2, <3>2, FS_RemoveElement
    <3>4. CASE i = cpu[c].row
      <4>1. rows'[i].count = rows[i].count + 1
        BY <1>2, <2>3, <3>4
      <4>2. Cardinality(Before(i, "count")') = Cardinality(Before(i, "count")) - 1
        BY <3>1, <3>3, <3>4
      <4> QED
        BY <2>1, <2>2, <4>1, <4>2
    <3>5. CASE i # cpu[c].row
      BY <1>2, <2>1, <3>1, <3>3, <3>5
    <3> QED
      BY <3>4, <3>5
  <2>4. CASE s # "count"
    <3>1. Before(i, "count")' = Before(i, "count")
      BY <2>4, AdvanceBefore
    <3> QED
      BY <1>2, <2>1, <2>4, <3>1
  <2> QED
    BY <2>3, <2>4
<1>5. ASSUME NEW i \in DOMAIN rows, NEW b \in Buckets
      PROVE  rows'[i].hist[b] + Cardinality(Waiting(i, b)') = Cardinality(InBucket(i, b))
  <2>1. rows[i].hist[b] + Cardinality(Waiting(i, b)) = Cardinality(InBucket(i, b))
    BY TallyRestated DEF RowTallies
  <2>2. /\ rows[i].hist[b] \in Nat
        /\ IsFiniteSet(Waiting(i, b))
        /\ Cardinality(Waiting(i, b)) \in Nat
    BY RowFields, BeforeFinite
  <2>3. CASE s = "hist"
    <3>1. Waiting(i, b)' = Waiting(i, b) \ {c}
      BY <2>3, AdvanceBefore
    <3>2. c \in Waiting(i, b) <=> i = cpu[c].row /\ Bucket(cpu[c].sample) = b
      BY <1>1, <2>3 DEF Waiting, Before, Holders
    <3>3. Cardinality(Waiting(i, b) \ {c}) =
              IF i = cpu[c].row /\ Bucket(cpu[c].sample) = b
              THEN Cardinality(Waiting(i, b)) - 1 ELSE Cardinality(Waiting(i, b))
      BY <2>2, <3>2, FS_RemoveElement
    <3> QED
      BY <1>3, <2>1, <2>2, <2>3, <3>1, <3>3
  <2>4. CASE s # "hist"
    <3>1. Waiting(i, b)' = Waiting(i, b)
      BY <2>4, AdvanceBefore
    <3> QED
      BY <1>3, <2>1, <2>4, <3>1
  <2> QED
    BY <2>3, <2>4
<1>6. \A i, b : InBucket(i, b)' = InBucket(i, b)
  BY DEF InBucket
<1>7. ASSUME NEW i \in DOMAIN rows' PROVE RowTallies(i)'
  BY <1>4, <1>5, <1>6 DEF RowTallies
<1> QED
  BY <1>7, TallyRestated

LEMMA WriteTally ==
    ASSUME TInv, CountsTally, NEW c \in CPUs, NEW s \in StepNames, At(c, s),
           NEW new \in RowType, Write(c, new),
           new.count = IF s = "count" THEN Found(c).count + 1 ELSE Found(c).count,
           \A b \in Buckets :
               new.hist[b] = IF s = "hist" /\ Bucket(cpu[c].sample) = b
                             THEN Found(c).hist[b] + 1 ELSE Found(c).hist[b]
    PROVE  CountsTally'
<1>1. cpu[c] # Idle /\ cpu[c].row # 0
  BY DEF At
<1>2. /\ rows' \in Seq(RowType)
      /\ Len(rows') = Len(rows)
      /\ rows'[cpu[c].row] = new
      /\ \A i \in 1 .. Len(rows) : i # cpu[c].row => rows'[i] = rows[i]
      /\ UNCHANGED <<table, took>>
  BY <1>1, RowWritten
<1>3. DOMAIN rows = 1 .. Len(rows) /\ DOMAIN rows' = DOMAIN rows
  BY <1>2, LenProperties DEF TInv, TypeOK
<1> QED
  BY <1>2, <1>3, StepTally DEF Write, Found

\* A comparison adds nothing, whether it tells the run to store or to go on.
LEMMA TestTally ==
    ASSUME TInv, CountsTally, NEW c \in CPUs, NEW f \in {"min", "max"}, NEW smaller,
           Test(c, f, smaller)
    PROVE  CountsTally'
<1>1. /\ cpu[c] # Idle /\ At(c, f) /\ f \in StepNames
      /\ UNCHANGED <<table, rows, took>>
  BY DEF Test, At, StepNames
<1>2. CASE ~smaller
  BY <1>1, <1>2, StepTally DEF Test
<1>3. CASE smaller
  <2> DEFINE on == RunAt(cpu[c].sample, cpu[c].row, cpu[c].step, TRUE)
  <2>1. cpu' = [cpu EXCEPT ![c] = on] /\ cpu \in [CPUs -> {Idle} \cup Run]
    BY <1>3 DEF Test, TInv, TypeOK
  <2>2. /\ on.row = cpu[c].row /\ on.sample = cpu[c].sample
        /\ on.step = cpu[c].step /\ on # Idle
    <3>1. Idle.pc = "idle" /\ on.pc = "run"
      BY DEF Idle, RunAt
    <3> QED
      BY <3>1 DEF RunAt
  <2> HIDE DEF on
  <2>3. ASSUME NEW i
        PROVE  /\ Before(i, "count")' = Before(i, "count")
               /\ \A b : Waiting(i, b)' = Waiting(i, b)
    <3>1. \A d \in CPUs : /\ cpu'[d] # Idle <=> cpu[d] # Idle
                          /\ cpu[d] # Idle => /\ cpu'[d].row = cpu[d].row
                                              /\ cpu'[d].sample = cpu[d].sample
                                              /\ cpu'[d].step = cpu[d].step
      BY <1>1, <2>1, <2>2
    <3>2. Order' = Order
      BY <1>1 DEF Order
    <3>3. Before(i, "count")' = Before(i, "count") /\ Before(i, "hist")' = Before(i, "hist")
      BY <3>1, <3>2 DEF Before, Holders
    <3>4. \A d \in Before(i, "hist") : cpu'[d].sample = cpu[d].sample
      BY <3>1 DEF Before, Holders
    <3> QED
      BY <3>3, <3>4 DEF Waiting
  <2>4. \A i, b : InBucket(i, b)' = InBucket(i, b)
    BY <1>1 DEF InBucket
  <2>5. ASSUME NEW i \in DOMAIN rows' PROVE RowTallies(i)'
    <3>1. RowTallies(i)
      BY <1>1, TallyRestated
    <3> QED
      BY <1>1, <2>3, <2>4, <3>1 DEF RowTallies
  <2> QED
    BY <2>5, TallyRestated
<1> QED
  BY <1>2, <1>3

\* A run that begins on row n is before all its steps.
Begins(c, v, n) ==
    /\ cpu[c] = Idle
    /\ cpu' = [cpu EXCEPT ![c] = RunAt(v, n, 1, FALSE)]
    /\ table' = table

LEMMA BeginBefore ==
    ASSUME TInv, NEW c \in CPUs, NEW v, NEW n, Begins(c, v, n), NEW i
    PROVE  /\ c \notin Before(i, "count")
           /\ Before(i, "count")' = IF i = n THEN Before(i, "count") \cup {c}
                                    ELSE Before(i, "count")
           /\ \A b : /\ c \notin Waiting(i, b)
                     /\ Waiting(i, b)' = IF i = n /\ Bucket(v) = b
                                         THEN Waiting(i, b) \cup {c} ELSE Waiting(i, b)
<1> DEFINE on == RunAt(v, n, 1, FALSE)
<1>1. on.row = n /\ on.sample = v /\ on.step = 1 /\ on # Idle
  <2>1. Idle.pc = "idle" /\ on.pc = "run"
    BY DEF Idle, RunAt
  <2> QED
    BY <2>1 DEF RunAt
<1>2. /\ cpu' = [cpu EXCEPT ![c] = on] /\ cpu \in [CPUs -> {Idle} \cup Run]
      /\ cpu[c] = Idle /\ table' = table
  BY DEF Begins, TInv, TypeOK
<1> HIDE DEF on
<1>3. cpu'[c] = on /\ \A d \in CPUs \ {c} : cpu'[d] = cpu[d]
  BY <1>2
<1>4. /\ Order' = Order
      /\ 1 <= Order["count"] /\ 1 <= Order["hist"]
  BY <1>2, OrderFacts DEF Order, StepNames
<1>5. ASSUME NEW t \in {"count", "hist"}
      PROVE  /\ c \notin Before(i, t)
             /\ Before(i, t)' = IF i = n THEN Before(i, t) \cup {c} ELSE Before(i, t)
  <2>1. c \notin Before(i, t)
    BY <1>2 DEF Before, Holders
  <2>2. c \in Before(i, t)' <=> i = n
    BY <1>1, <1>3, <1>4 DEF Before, Holders
  <2>3. \A d \in CPUs \ {c} : d \in Before(i, t)' <=> d \in Before(i, t)
    BY <1>3, <1>4 DEF Before, Holders
  <2>4. Before(i, t) \subseteq CPUs /\ Before(i, t)' \subseteq CPUs
    BY DEF Before, Holders
  <2> QED
    BY <2>1, <2>2, <2>3, <2>4
<1>6. \A d \in Before(i, "hist") : d # c /\ d \in CPUs
  BY <1>5 DEF Before, Holders
<1>7. ASSUME NEW b
      PROVE  /\ c \notin Waiting(i, b)
             /\ Waiting(i, b)' = IF i = n /\ Bucket(v) = b
                                 THEN Waiting(i, b) \cup {c} ELSE Waiting(i, b)
  <2>1. c \notin Waiting(i, b)
    BY <1>5 DEF Waiting
  <2>2. Waiting(i, b)' = {d \in Before(i, "hist")' : Bucket(cpu'[d].sample) = b}
    BY DEF Waiting
  <2>3. \A d : d \in Waiting(i, b)' <=> d \in Waiting(i, b) \/ (d = c /\ i = n /\ Bucket(v) = b)
    BY <1>1, <1>3, <1>5, <1>6, <2>2 DEF Waiting
  <2> QED
    BY <2>1, <2>3
<1> QED
  BY <1>5, <1>7

LEMMA LookupTally ==
    ASSUME TInv, CountsTally, NEW c \in CPUs, NEW v \in Samples, Lookup(c, v)
    PROVE  CountsTally'
<1>n. PICK n \in Nat : n = Len(rows)
  BY LenProperties DEF TInv, TypeOK
<1>1. cpu[c] = Idle /\ rows' = rows /\ table' = table
  BY DEF Lookup
<1>2. CASE rows = <<>>
  BY <1>1, <1>2 DEF CountsTally
<1>3. CASE rows # <<>>
  <2>1. /\ rows \in Seq(RowType)
        /\ took \in Seq(Seq(Samples))
        /\ Len(took) = n
        /\ n \in Nat \ {0}
        /\ DOMAIN rows = 1 .. n
    BY <1>n, <1>3, EmptySeq, LenProperties DEF TInv, TypeOK, PointersHold
  <2>2. took[n] \in Seq(Samples) /\ Append(took[n], v) \in Seq(Samples)
    BY <2>1, ElementOfSeq, AppendProperties
  <2>3. /\ took'[n] = Append(took[n], v)
        /\ \A i \in 1 .. n : i # n => took'[i] = took[i]
    <3>1. took' = [took EXCEPT ![n] = Append(took[n], v)]
      BY <1>n, <1>3 DEF Lookup
    <3> QED
      BY <2>1, <2>2, <3>1, ExceptSeq
  <2>4. Begins(c, v, n)
    BY <1>n, <1>1 DEF Lookup, Begins
  <2>5. ASSUME NEW i \in DOMAIN rows, i # n PROVE RowTallies(i)'
    <3>1. took'[i] = took[i]
      BY <2>1, <2>3, <2>5
    <3>2. \A b : InBucket(i, b)' = InBucket(i, b)
      BY <3>1 DEF InBucket
    <3>3. Before(i, "count")' = Before(i, "count") /\ \A b : Waiting(i, b)' = Waiting(i, b)
      BY <2>4, <2>5, BeginBefore
    <3> QED
      BY <1>1, <3>1, <3>2, <3>3, TallyRestated DEF RowTallies
  <2>6. RowTallies(n)'
    <3>1. /\ RowTallies(n)
          /\ rows[n].count \in Nat
          /\ \A b \in Buckets : rows[n].hist[b] \in Nat
          /\ DOMAIN took[n] = 1 .. Len(took[n])
          /\ Len(took[n]) \in Nat
      BY <2>1, RowFields, TallyRestated
    <3>2. rows[n].count + Cardinality(Before(n, "count")') = Len(took'[n])
      <4>1. Before(n, "count")' = Before(n, "count") \cup {c} /\ c \notin Before(n, "count")
        BY <2>4, BeginBefore
      <4>2. Cardinality(Before(n, "count")') = Cardinality(Before(n, "count")) + 1
        BY <4>1, BeforeFinite, FS_AddElement
      <4>3. Len(took'[n]) = Len(took[n]) + 1
        BY <2>2, <2>3, AppendProperties
      <4>4. rows[n].count + Cardinality(Before(n, "count")) = Len(took[n])
        BY <3>1 DEF RowTallies
      <4>5. Cardinality(Before(n, "count")) \in Nat
        BY BeforeFinite
      <4> QED
        BY <3>1, <4>2, <4>3, <4>4, <4>5
    <3>3. ASSUME NEW b \in Buckets
          PROVE  rows[n].hist[b] + Cardinality(Waiting(n, b)') = Cardinality(InBucket(n, b)')
      <4> DEFINE m == Len(took[n])
      <4>1. /\ c \notin Waiting(n, b)
            /\ Waiting(n, b)' = IF Bucket(v) = b THEN Waiting(n, b) \cup {c} ELSE Waiting(n, b)
        BY <2>4, BeginBefore
      <4>2. /\ m + 1 \notin InBucket(n, b)
            /\ InBucket(n, b)' = IF Bucket(v) = b THEN InBucket(n, b) \cup {m + 1}
                                 ELSE InBucket(n, b)
        <5>1. /\ DOMAIN took'[n] = 1 .. m + 1
              /\ \A k \in 1 .. m : took'[n][k] = took[n][k]
              /\ took'[n][m + 1] = v
          BY <2>2, <2>3, AppendProperties, LenProperties
        <5>2. InBucket(n, b)' = {k \in 1 .. m + 1 : Bucket(took'[n][k]) = b}
          BY <5>1 DEF InBucket
        <5>3. InBucket(n, b) = {k \in 1 .. m : Bucket(took[n][k]) = b}
          BY <3>1 DEF InBucket
        <5>4. \A k : k \in 1 .. m + 1 <=> k \in 1 .. m \/ k = m + 1
          BY <3>1
        <5>5. m + 1 \notin 1 .. m
          BY <3>1
        <5> QED
          BY <5>1, <5>2, <5>3, <5>4, <5>5
      <4>3. IsFiniteSet(InBucket(n, b)) /\ Cardinality(InBucket(n, b)) \in Nat
        <5>1. InBucket(n, b) \in SUBSET (1 .. m)
          BY <3>1 DEF InBucket
        <5>2. IsFiniteSet(1 .. m)
          BY <3>1, FS_Interval
        <5> QED
          BY <5>1, <5>2, FS_Subset, FS_CardinalityType
      <4>4. rows[n].hist[b] + Cardinality(Waiting(n, b)) = Cardinality(InBucket(n, b))
        BY <3>1 DEF RowTallies
      <4>5. CASE Bucket(v) = b
        <5>1. Cardinality(Waiting(n, b)') = Cardinality(Waiting(n, b)) + 1
          BY <4>1, <4>5, BeforeFinite, FS_AddElement
        <5>2. Cardinality(InBucket(n, b)') = Cardinality(InBucket(n, b)) + 1
          BY <4>2, <4>3, <4>5, FS_AddElement
        <5> QED
          BY <3>1, <4>3, <4>4, <5>1, <5>2, BeforeFinite
      <4>6. CASE Bucket(v) # b
        BY <4>1, <4>2, <4>4, <4>6
      <4> QED
        BY <4>5, <4>6
    <3> QED
      BY <1>1, <3>2, <3>3 DEF RowTallies
  <2>7. \A i \in DOMAIN rows' : RowTallies(i)'
    BY <1>1, <2>5, <2>6
  <2> QED
    BY <2>7, TallyRestated
<1> QED
  BY <1>2, <1>3

\* A new row is tallied from the start: no run holds it, and it counts the
\* sample of the run that inserted it.
LEMMA InsertTally ==
    ASSUME TInv, CountsTally, NEW c \in CPUs, Insert(c)
    PROVE  CountsTally'
<1>n. PICK n \in Nat : n = Len(rows)
  BY LenProperties DEF TInv, TypeOK
<1>v. PICK v \in Samples : v = cpu[c].sample
  BY RunFields DEF Insert
<1>1. /\ rows \in Seq(RowType) /\ took \in Seq(Seq(Samples))
      /\ Len(rows) = n /\ Len(took) = n
      /\ DOMAIN rows = 1 .. n
      /\ NewRow(v) \in RowType /\ <<v>> \in Seq(Samples)
  BY <1>n, NewRowType, SamplesAre, LenProperties DEF TInv, TypeOK, PointersHold
<1>2. /\ rows' = Append(rows, NewRow(v)) /\ took' = Append(took, <<v>>)
      /\ cpu' = [cpu EXCEPT ![c] = Idle] /\ table' = table
  BY <1>v DEF Insert
<1>3. /\ DOMAIN rows' = 1 .. n + 1
      /\ rows'[n + 1] = NewRow(v) /\ took'[n + 1] = <<v>>
      /\ \A i \in 1 .. n : rows'[i] = rows[i] /\ took'[i] = took[i]
  BY <1>1, <1>2, AppendProperties, LenProperties
<1>4. ASSUME NEW i \in 1 .. n + 1
      PROVE  Holders(i)' = Holders(i) /\ (i = n + 1 => Holders(i) = {})
  <2>1. cpu \in [CPUs -> {Idle} \cup Run] /\ cpu[c] # Idle /\ cpu[c].row = 0
    BY DEF Insert, TInv, TypeOK
  <2>2. \A d \in CPUs : cpu[d] # Idle => cpu[d].row \in 0 .. n
    BY <1>n, RunFields
  <2> QED
    BY <1>2, <2>1, <2>2 DEF Holders
<1>5. ASSUME NEW i \in 1 .. n + 1
      PROVE  /\ Before(i, "count")' = Before(i, "count")
             /\ \A b : Waiting(i, b)' = Waiting(i, b)
             /\ i = n + 1 => Before(i, "count") = {} /\ \A b : Waiting(i, b) = {}
  <2>1. /\ Order' = Order
        /\ \A d \in Holders(i) : cpu'[d] = cpu[d]
    <3>1. cpu \in [CPUs -> {Idle} \cup Run] /\ cpu[c].row = 0
      BY DEF Insert, TInv, TypeOK
    <3> QED
      BY <1>2, <3>1 DEF Order, Holders
  <2>2. Before(i, "count")' = Before(i, "count") /\ Before(i, "hist")' = Before(i, "hist")
    BY <1>4, <2>1 DEF Before
  <2> QED
    BY <1>4, <2>1, <2>2 DEF Waiting, Before
<1>6. ASSUME NEW i \in 1 .. n PROVE RowTallies(i)'
  <2>1. RowTallies(i) /\ i \in 1 .. n + 1
    BY <1>1, TallyRestated
  <2>2. \A b : InBucket(i, b)' = InBucket(i, b)
    BY <1>3 DEF InBucket
  <2> QED
    BY <1>3, <1>5, <2>1, <2>2 DEF RowTallies
<1>7. ASSUME NEW i, i = n + 1 PROVE RowTallies(i)'
  <2>1. Before(i, "count")' = {} /\ \A b : Waiting(i, b)' = {}
    <3>1. i \in 1 .. n + 1
      BY <1>7
    <3>2. Before(i, "count") = {} /\ \A b : Waiting(i, b) = {}
      BY <1>5, <1>7, <3>1
    <3>3. Before(i, "count")' = Before(i, "count") /\ \A b : Waiting(i, b)' = Waiting(i, b)
      BY <1>5, <3>1
    <3> QED
      BY <3>2, <3>3
  <2>2. Len(took'[i]) = 1 /\ DOMAIN took'[i] = {1} /\ took'[i][1] = v
    <3>1. took'[i] = <<v>>
      BY <1>3, <1>7
    <3> QED
      BY <3>1
  <2>3. ASSUME NEW b \in Buckets
        PROVE  InBucket(i, b)' = IF Bucket(v) = b THEN {1} ELSE {}
    BY <2>2 DEF InBucket
  <2>4. /\ rows'[i].count = 1
        /\ \A b \in Buckets : rows'[i].hist[b] = IF b = Bucket(v) THEN 1 ELSE 0
    BY <1>3, <1>7 DEF NewRow
  <2>5. Cardinality({}) = 0 /\ Cardinality({1}) = 1
    BY FS_EmptySet, FS_Singleton
  <2>6. rows'[i].count + Cardinality(Before(i, "count")') = Len(took'[i])
    BY <2>1, <2>2, <2>4, <2>5
  <2>7. ASSUME NEW b \in Buckets
        PROVE  rows'[i].hist[b] + Cardinality(Waiting(i, b)')
                   = Cardinality(InBucket(i, b)')
    <3>1. CASE Bucket(v) = b
      BY <2>1, <2>3, <2>4, <2>5, <3>1
    <3>2. CASE Bucket(v) # b
      BY <2>1, <2>3, <2>4, <2>5, <3>2
    <3> QED
      BY <3>1, <3>2
  <2> QED
    BY <2>6, <2>7 DEF RowTallies
<1>8. ASSUME NEW i \in DOMAIN rows' PROVE RowTallies(i)'
  <2>1. i \in 1 .. n \/ i = n + 1
    BY <1>3
  <2> QED
    BY <1>6, <1>7, <2>1
<1> QED
  BY <1>8, TallyRestated

\* What user space copies does not matter to the tally.
LEMMA FrameTally ==
    ASSUME CountsTally, UNCHANGED <<table, rows, cpu, took>>
    PROVE  CountsTally'
<1>1. ASSUME NEW i
      PROVE  /\ Before(i, "count")' = Before(i, "count")
             /\ \A b : /\ Waiting(i, b)' = Waiting(i, b)
                       /\ InBucket(i, b)' = InBucket(i, b)
  <2>1. Before(i, "count")' = Before(i, "count") /\ Before(i, "hist")' = Before(i, "hist")
    BY DEF Before, Holders, Order
  <2> QED
    BY <2>1 DEF Waiting, InBucket
<1>2. ASSUME NEW i \in DOMAIN rows' PROVE RowTallies(i)'
  <2>1. RowTallies(i)
    BY TallyRestated
  <2> QED
    BY <1>1, <2>1 DEF RowTallies
<1> QED
  BY <1>2, TallyRestated

LEMMA StepNext ==
    ASSUME TInv, CountsTally, NEW c \in CPUs,
           AddSum(c) \/ AddCount(c) \/ AddHist(c) \/ StoreMin(c) \/ StoreMax(c)
    PROVE  CountsTally'
<1>1. cpu[c] # Idle /\ cpu[c].row # 0
  BY DEF AddSum, AddCount, AddHist, StoreMin, StoreMax, At
<1>2. /\ Found(c) \in RowType
      /\ cpu[c].sample \in Nat
      /\ Bucket(cpu[c].sample) \in Buckets
  BY <1>1, FoundType, RunFields, BucketType
<1>3. \E s \in StepNames, new \in RowType :
        /\ At(c, s) /\ Write(c, new)
        /\ new.count = IF s = "count" THEN Found(c).count + 1 ELSE Found(c).count
        /\ \A b \in Buckets :
            new.hist[b] = IF s = "hist" /\ Bucket(cpu[c].sample) = b
                          THEN Found(c).hist[b] + 1 ELSE Found(c).hist[b]
  <2>1. CASE AddSum(c)
    <3> DEFINE new == [Found(c) EXCEPT !.sum = Found(c).sum + cpu[c].sample]
    <3>1. /\ At(c, "sum") /\ Write(c, new) /\ new \in RowType
          /\ new.count = Found(c).count /\ new.hist = Found(c).hist
      BY <1>2, <2>1, NewFields DEF AddSum, RowType
    <3> HIDE DEF new
    <3> QED
      BY <3>1 DEF StepNames
  <2>2. CASE AddCount(c)
    <3> DEFINE new == [Found(c) EXCEPT !.count = Found(c).count + 1]
    <3>1. /\ At(c, "count") /\ Write(c, new) /\ new \in RowType
          /\ new.count = Found(c).count + 1 /\ new.hist = Found(c).hist
      BY <1>2, <2>2, NewFields DEF AddCount, RowType
    <3> HIDE DEF new
    <3> QED
      BY <3>1 DEF StepNames
  <2>3. CASE AddHist(c)
    <3> DEFINE b0 == Bucket(cpu[c].sample)
               h == [Found(c).hist EXCEPT ![b0] = Found(c).hist[b0] + 1]
               new == [Found(c) EXCEPT !.hist = h]
    <3>1. /\ At(c, "hist") /\ Write(c, new) /\ new \in RowType
          /\ new.count = Found(c).count /\ new.hist = h
      BY <1>2, <2>3, NewFields DEF AddHist, RowType
    <3>2. \A b \in Buckets : h[b] = IF b0 = b THEN Found(c).hist[b] + 1 ELSE Found(c).hist[b]
      BY <1>2 DEF RowType
    <3> HIDE DEF new, h
    <3> QED
      BY <3>1, <3>2 DEF StepNames
  <2>4. CASE StoreMin(c)
    <3> DEFINE new == [Found(c) EXCEPT !.min = U32(cpu[c].sample)]
    <3>1. /\ At(c, "min") /\ Write(c, new) /\ new \in RowType
          /\ new.count = Found(c).count /\ new.hist = Found(c).hist
      BY <1>2, <2>4, NewFields DEF StoreMin, RowType
    <3> HIDE DEF new
    <3> QED
      BY <3>1 DEF StepNames
  <2>5. CASE StoreMax(c)
    <3> DEFINE new == [Found(c) EXCEPT !.max = U32(cpu[c].sample)]
    <3>1. /\ At(c, "max") /\ Write(c, new) /\ new \in RowType
          /\ new.count = Found(c).count /\ new.hist = Found(c).hist
      BY <1>2, <2>5, NewFields DEF StoreMax, RowType
    <3> HIDE DEF new
    <3> QED
      BY <3>1 DEF StepNames
  <2> QED
    BY <2>1, <2>2, <2>3, <2>4, <2>5
<1> QED
  BY <1>3, WriteTally

LEMMA NextTally == TInv /\ CountsTally /\ [Next]_vars => CountsTally'
<1> SUFFICES ASSUME TInv, CountsTally, [Next]_vars PROVE CountsTally'
  OBVIOUS
<1>1. ASSUME NEW c \in CPUs, NEW v \in Samples, Lookup(c, v) PROVE CountsTally'
  BY <1>1, LookupTally
<1>2. ASSUME NEW c \in CPUs, Insert(c) PROVE CountsTally'
  BY <1>2, InsertTally
<1>3. ASSUME NEW c \in CPUs, TestMin(c) PROVE CountsTally'
  <2>1. Test(c, "min", cpu[c].sample < Found(c).min \/ Found(c).min = 0)
    BY <1>3 DEF TestMin
  <2> QED
    BY <2>1, TestTally
<1>4. ASSUME NEW c \in CPUs, TestMax(c) PROVE CountsTally'
  <2>1. Test(c, "max", cpu[c].sample > Found(c).max)
    BY <1>4 DEF TestMax
  <2> QED
    BY <2>1, TestTally
<1>5. CASE \/ CopyBegins \/ CopyEnds \/ UNCHANGED vars
           \/ \E f \in Fields : CopyField(f)
           \/ \E w \in Pairs : CopyPair(w)
  <2>1. UNCHANGED <<table, rows, cpu, took>>
    BY <1>5 DEF CopyBegins, CopyEnds, CopyField, CopyPair, Copying, vars
  <2> QED
    BY <2>1, FrameTally
<1> QED
  BY <1>1, <1>2, <1>3, <1>4, <1>5, StepNext DEF Next

\* However runs interleave on a row, no sample is lost from the count or
\* counted twice, and the same for each bucket.
THEOREM Tally == Spec => []CountsTally
<1>1. Init => CountsTally
  BY EmptySeq DEF Init, CountsTally
<1>2. TInv /\ CountsTally /\ [Next]_vars => CountsTally'
  BY NextTally
<1> QED
  BY <1>1, <1>2, Typed, PTL DEF Spec

-----------------------------------------------------------------------------
(* The extremes.  Comparing and storing are two steps, so neither extreme  *)
(* need be the right one; but the sample that inserted the row stays       *)
(* between them: a run stores a minimum only if it found a greater one,    *)
(* and a greater one than what it found is not below the first sample.     *)

In(i, v) == \E k \in DOMAIN took[i] : took[i][k] = v

RowBrackets(i) ==
    /\ 1 \in DOMAIN took[i]
    /\ Plain(i) => /\ rows[i].min <= took[i][1]
                   /\ took[i][1] <= rows[i].max
                   /\ In(i, rows[i].min)
                   /\ In(i, rows[i].max)

\* For a run c on row i.
RunBrackets(c, i) ==
    /\ In(i, cpu[c].sample)
    /\ Plain(i) /\ cpu[c].store =>
        /\ cpu[c].step = Order["min"] => cpu[c].sample <= took[i][1]
        /\ cpu[c].step = Order["max"] => cpu[c].sample >= took[i][1]

BInv ==
    \A i \in DOMAIN rows :
        /\ RowBrackets(i)
        /\ \A c \in Holders(i) : RunBrackets(c, i)

\* The history of a row only grows, so what was a sample of it stays one,
\* and a row that is plain was plain.
Grows(i) ==
    \A k \in DOMAIN took[i] : k \in DOMAIN took'[i] /\ took'[i][k] = took[i][k]

LEMMA GrowingKeeps ==
    ASSUME NEW i, Grows(i)
    PROVE  /\ Plain(i)' => Plain(i)
           /\ \A v : In(i, v) => In(i, v)'
           /\ 1 \in DOMAIN took[i] => 1 \in DOMAIN took'[i] /\ took'[i][1] = took[i][1]
BY DEF Grows, Plain, In

LEMMA RowKept ==
    ASSUME NEW i, RowBrackets(i), Grows(i),
           rows'[i].min = rows[i].min, rows'[i].max = rows[i].max
    PROVE  RowBrackets(i)'
BY GrowingKeeps DEF RowBrackets

\* A run is kept if it stays where it is, or goes on with nothing to store.
LEMMA RunKept ==
    ASSUME NEW c, NEW i, RunBrackets(c, i), RowBrackets(i), Grows(i), table' = table,
           cpu'[c].sample = cpu[c].sample,
           \/ cpu'[c].store = FALSE
           \/ cpu'[c].store = cpu[c].store /\ cpu'[c].step = cpu[c].step
    PROVE  RunBrackets(c, i)'
<1>1. Order' = Order
  BY DEF Order
<1>2. /\ In(i, cpu[c].sample)
      /\ 1 \in DOMAIN took[i]
  BY DEF RunBrackets, RowBrackets
<1>3. /\ \A v : In(i, v) => In(i, v)'
      /\ Plain(i)' => Plain(i)
      /\ took'[i][1] = took[i][1]
  BY <1>2, GrowingKeeps
<1>4. In(i, cpu[c].sample)'
  BY <1>2, <1>3 DEF In
<1>5. ASSUME Plain(i)', cpu'[c].store
      PROVE  /\ cpu'[c].step = Order["min"] => cpu[c].sample <= took[i][1]
             /\ cpu'[c].step = Order["max"] => cpu[c].sample >= took[i][1]
  BY <1>3, <1>5 DEF RunBrackets
<1> QED
  BY <1>1, <1>3, <1>4, <1>5 DEF RunBrackets

LEMMA LookupBracket ==
    ASSUME TInv, BInv, NEW c \in CPUs, NEW v \in Samples, Lookup(c, v)
    PROVE  BInv'
<1>n. PICK n \in Nat : n = Len(rows)
  BY LenProperties DEF TInv, TypeOK
<1>1. /\ rows \in Seq(RowType) /\ took \in Seq(Seq(Samples))
      /\ Len(took) = n /\ DOMAIN rows = 1 .. n
      /\ cpu \in [CPUs -> {Idle} \cup Run]
  BY <1>n, LenProperties DEF TInv, TypeOK, PointersHold
<1>2. cpu[c] = Idle /\ rows' = rows /\ table' = table
  BY DEF Lookup
<1> DEFINE on == RunAt(v, n, 1, FALSE)
<1>3. on.row = n /\ on.sample = v /\ on.store = FALSE
  BY DEF RunAt
<1>4. cpu' = [cpu EXCEPT ![c] = on]
  BY <1>n DEF Lookup
<1> HIDE DEF on
<1>5. cpu'[c] = on /\ \A d \in CPUs \ {c} : cpu'[d] = cpu[d]
  BY <1>1, <1>4
<1>6. ASSUME NEW i \in DOMAIN rows
      PROVE  Grows(i) /\ (i = n => In(i, v)')
  <2>1. i \in 1 .. n /\ n \in 1 .. n /\ rows # <<>>
    BY <1>1
  <2>2. took[i] \in Seq(Samples) /\ took[n] \in Seq(Samples)
    BY <1>1, <2>1, ElementOfSeq
  <2>3. Append(took[n], v) \in Seq(Samples)
    BY <2>2, AppendProperties
  <2>4. took' = [took EXCEPT ![n] = Append(took[n], v)]
    BY <1>n, <2>1 DEF Lookup
  <2>5. /\ took'[n] = Append(took[n], v)
        /\ i # n => took'[i] = took[i]
    BY <1>1, <2>1, <2>3, <2>4, ExceptSeq
  <2>6. CASE i # n
    BY <2>5, <2>6 DEF Grows
  <2>7. CASE i = n
    <3>1. took'[i] = Append(took[i], v)
      BY <2>5, <2>7
    <3>2. /\ DOMAIN took[i] = 1 .. Len(took[i]) /\ Len(took[i]) \in Nat
          /\ DOMAIN took'[i] = 1 .. Len(took[i]) + 1
          /\ \A k \in 1 .. Len(took[i]) : took'[i][k] = took[i][k]
          /\ took'[i][Len(took[i]) + 1] = v
      BY <2>2, <3>1, AppendProperties, LenProperties
    <3>3. Len(took[i]) + 1 \in DOMAIN took'[i]
      BY <3>2
    <3> QED
      BY <3>2, <3>3 DEF Grows, In
  <2> QED
    BY <2>6, <2>7
<1>7. ASSUME NEW i \in DOMAIN rows PROVE RowBrackets(i)'
  BY <1>2, <1>6, RowKept DEF BInv
<1>8. ASSUME NEW i \in DOMAIN rows, NEW d \in CPUs, d \in Holders(i)' PROVE RunBrackets(d, i)'
  <2>1. CASE d = c
    <3>1. i = n /\ cpu'[d].sample = v /\ cpu'[d].store = FALSE
      BY <1>3, <1>5, <1>8, <2>1 DEF Holders
    <3> QED
      BY <1>6, <3>1 DEF RunBrackets, In
  <2>2. CASE d # c
    <3>1. cpu'[d] = cpu[d] /\ d \in Holders(i)
      BY <1>5, <1>8, <2>2 DEF Holders
    <3> QED
      BY <1>2, <1>6, <3>1, RunKept DEF BInv
  <2> QED
    BY <2>1, <2>2
<1>9. \A i : Holders(i)' \subseteq CPUs
  BY DEF Holders
<1> QED
  BY <1>2, <1>7, <1>8, <1>9 DEF BInv

LEMMA InsertBracket ==
    ASSUME TInv, BInv, NEW c \in CPUs, Insert(c)
    PROVE  BInv'
<1>n. PICK n \in Nat : n = Len(rows)
  BY LenProperties DEF TInv, TypeOK
<1>v. PICK v \in Samples : v = cpu[c].sample
  BY RunFields DEF Insert
<1>1. /\ rows \in Seq(RowType) /\ took \in Seq(Seq(Samples))
      /\ Len(rows) = n /\ Len(took) = n
      /\ DOMAIN rows = 1 .. n
      /\ NewRow(v) \in RowType /\ <<v>> \in Seq(Samples)
      /\ cpu \in [CPUs -> {Idle} \cup Run]
  BY <1>n, NewRowType, SamplesAre, LenProperties DEF TInv, TypeOK, PointersHold
<1>2. /\ rows' = Append(rows, NewRow(v)) /\ took' = Append(took, <<v>>)
      /\ cpu' = [cpu EXCEPT ![c] = Idle] /\ table' = table
  BY <1>v DEF Insert
<1>3. /\ DOMAIN rows' = 1 .. n + 1
      /\ rows'[n + 1] = NewRow(v) /\ took'[n + 1] = <<v>>
      /\ \A i \in 1 .. n : rows'[i] = rows[i] /\ took'[i] = took[i]
  BY <1>1, <1>2, AppendProperties, LenProperties
<1>4. ASSUME NEW i \in 1 .. n PROVE RowBrackets(i)'
  <2>1. Grows(i) /\ rows'[i] = rows[i]
    BY <1>3 DEF Grows
  <2> QED
    BY <1>1, <2>1, RowKept DEF BInv
<1>5. ASSUME NEW i, i = n + 1 PROVE RowBrackets(i)'
  <2>1. rows'[i] = NewRow(v) /\ took'[i] = <<v>>
    BY <1>3, <1>5
  <2>2. 1 \in DOMAIN took'[i] /\ took'[i][1] = v
    BY <2>1
  <2>3. In(i, v)'
    BY <2>2 DEF In
  <2>4. rows'[i].min = U32(v) /\ rows'[i].max = U32(v)
    BY <2>1 DEF NewRow
  <2>5. Plain(i)' => v \in 1 .. W32 - 1
    BY <2>2 DEF Plain
  <2>6. v \in 1 .. W32 - 1 => U32(v) = v /\ v <= v
    BY U32Type, W32Is
  <2> QED
    BY <2>2, <2>3, <2>4, <2>5, <2>6 DEF RowBrackets, In
<1>6. ASSUME NEW i \in 1 .. n + 1, NEW d \in CPUs, d \in Holders(i)'
      PROVE  RunBrackets(d, i)'
  <2>1. d # c /\ cpu'[d] = cpu[d] /\ d \in Holders(i)
    BY <1>1, <1>2, <1>6 DEF Holders
  <2>2. i \in 1 .. n
    <3>1. cpu[d] # Idle /\ cpu[d].row = i
      BY <2>1 DEF Holders
    <3> QED
      BY <1>n, <3>1, RunFields
  <2>3. Grows(i)
    BY <1>3, <2>2 DEF Grows
  <2> QED
    BY <1>1, <1>2, <2>1, <2>2, <2>3, RunKept DEF BInv
<1>7. \A i : Holders(i)' \subseteq CPUs
  BY DEF Holders
<1>8. ASSUME NEW i \in DOMAIN rows'
      PROVE  i \in 1 .. n + 1 /\ RowBrackets(i)'
  <2>1. i \in 1 .. n \/ i = n + 1
    BY <1>3
  <2> QED
    BY <1>4, <1>5, <2>1
<1> QED
  BY <1>6, <1>7, <1>8 DEF BInv

\* A run that goes on has nothing to store.
LEMMA AdvanceBracket ==
    ASSUME TInv, BInv, NEW c \in CPUs, cpu[c] # Idle, Advance(c),
           UNCHANGED <<table, took>>, NEW i \in DOMAIN rows
    PROVE  Grows(i) /\ \A d \in Holders(i)' : RunBrackets(d, i)'
<1>1. Grows(i)
  BY DEF Grows
<1>2. ASSUME NEW d \in CPUs, d \in Holders(i)' PROVE RunBrackets(d, i)'
  <2>1. /\ d \in Holders(i) /\ cpu'[d].sample = cpu[d].sample
        /\ cpu'[d] = cpu[d] \/ cpu'[d].store = FALSE
    BY <1>2, AdvanceRun DEF Holders
  <2> QED
    BY <1>1, <2>1, RunKept DEF BInv
<1>3. Holders(i)' \subseteq CPUs
  BY DEF Holders
<1> QED
  BY <1>1, <1>2, <1>3

\* A step that writes extremes the first sample is between.
LEMMA WriteBracket ==
    ASSUME TInv, BInv, NEW c \in CPUs, cpu[c] # Idle,
           NEW n \in DOMAIN rows, cpu[c].row = n,
           NEW new \in RowType, Write(c, new),
           Plain(n) => /\ new.min <= took[n][1]
                       /\ took[n][1] <= new.max
                       /\ In(n, new.min)
                       /\ In(n, new.max)
    PROVE  BInv'
<1>1. n \in 1 .. Len(rows) /\ cpu[c].row # 0
  BY RowFields
<1>2. /\ rows'[n] = new
      /\ \A i \in 1 .. Len(rows) : i # n => rows'[i] = rows[i]
      /\ rows' \in Seq(RowType) /\ Len(rows') = Len(rows)
      /\ UNCHANGED <<table, took>> /\ Advance(c)
  BY <1>1, RowWritten DEF Write
<1>3. DOMAIN rows = 1 .. Len(rows) /\ DOMAIN rows' = DOMAIN rows
  BY <1>2, LenProperties DEF TInv, TypeOK
<1>4. ASSUME NEW i \in DOMAIN rows PROVE RowBrackets(i)'
  <2>1. CASE i = n
    <3>1. Plain(i)' <=> Plain(i)
      BY <1>2 DEF Plain
    <3>2. \A v : In(i, v)' <=> In(i, v)
      BY <1>2 DEF In
    <3>3. 1 \in DOMAIN took'[i] /\ took'[i] = took[i] /\ rows'[i] = new
      BY <1>2, <2>1 DEF BInv, RowBrackets
    <3> QED
      BY <2>1, <3>1, <3>2, <3>3 DEF RowBrackets, In
  <2>2. CASE i # n
    BY <1>2, <1>3, <2>2, AdvanceBracket, RowKept DEF BInv
  <2> QED
    BY <2>1, <2>2
<1> QED
  BY <1>2, <1>3, <1>4, AdvanceBracket DEF BInv

\* The row a run is at, and what is known of them both.
LEMMA AtRow ==
    ASSUME TInv, BInv, NEW c \in CPUs, NEW s \in StepNames, At(c, s)
    PROVE  /\ cpu[c] # Idle
           /\ cpu[c].row \in DOMAIN rows
           /\ cpu[c].step = Order[s]
           /\ c \in Holders(cpu[c].row)
           /\ Found(c) \in RowType
           /\ cpu[c].sample \in Nat
           /\ Bucket(cpu[c].sample) \in Buckets
<1>1. cpu[c] # Idle /\ cpu[c].row # 0 /\ cpu[c].step = Order[s]
  BY DEF At
<1>2. cpu[c].row \in 1 .. Len(rows) /\ DOMAIN rows = 1 .. Len(rows)
  BY <1>1, RunFields, LenProperties DEF TInv, TypeOK
<1> QED
  BY <1>1, <1>2, FoundType, RunFields, BucketType DEF Holders

\* A comparison that tells the run to store: its sample is beyond what the
\* row held, which was not unset and had the first sample on its other side.
LEMMA TestBracket ==
    ASSUME TInv, BInv, NEW c \in CPUs, NEW f \in {"min", "max"}, NEW smaller \in BOOLEAN,
           Test(c, f, smaller),
           smaller => IF f = "min"
                      THEN cpu[c].sample < Found(c).min \/ Found(c).min = 0
                      ELSE cpu[c].sample > Found(c).max
    PROVE  BInv'
<1>1. /\ f \in StepNames /\ At(c, f)
      /\ UNCHANGED <<table, rows, took>>
  BY DEF Test, StepNames
<1>2. /\ cpu[c] # Idle /\ cpu[c].row \in DOMAIN rows
      /\ cpu[c].step = Order[f] /\ c \in Holders(cpu[c].row)
      /\ Found(c) \in RowType /\ cpu[c].sample \in Nat
  BY <1>1, AtRow
<1>3. \A i \in DOMAIN rows : Grows(i) /\ RowBrackets(i)'
  BY <1>1, RowKept DEF BInv, Grows
<1>4. CASE ~smaller
  BY <1>1, <1>2, <1>3, <1>4, AdvanceBracket DEF Test, BInv
<1>5. CASE smaller
  <2> DEFINE on == RunAt(cpu[c].sample, cpu[c].row, cpu[c].step, TRUE)
  <2>1. cpu' = [cpu EXCEPT ![c] = on] /\ cpu \in [CPUs -> {Idle} \cup Run]
    BY <1>5 DEF Test, TInv, TypeOK
  <2>2. on.row = cpu[c].row /\ on.sample = cpu[c].sample /\ on.step = cpu[c].step
    BY DEF RunAt
  <2> HIDE DEF on
  <2>3. cpu'[c] = on /\ \A d \in CPUs \ {c} : cpu'[d] = cpu[d]
    BY <2>1
  <2>4. ASSUME NEW i \in DOMAIN rows, NEW d \in CPUs, d \in Holders(i)'
        PROVE  RunBrackets(d, i)'
    <3>1. CASE d # c
      <4>1. d \in Holders(i) /\ cpu'[d] = cpu[d]
        BY <2>3, <2>4, <3>1 DEF Holders
      <4> QED
        BY <1>1, <1>3, <4>1, RunKept DEF BInv
    <3>2. CASE d = c
      <4>1. i = cpu[c].row /\ Found(c) = rows[i] /\ RunBrackets(c, i) /\ RowBrackets(i)
        BY <1>2, <2>2, <2>3, <2>4, <3>2 DEF Holders, Found, BInv
      <4>2. In(i, cpu[c].sample)'
        BY <1>1, <2>2, <2>3, <4>1 DEF RunBrackets, In
      <4>3. Order' = Order /\ (Plain(i)' => Plain(i)) /\ took'[i] = took[i]
        BY <1>1 DEF Order, Plain
      <4>4. ASSUME Plain(i)
            PROVE  IF f = "min" THEN cpu[c].sample <= took[i][1]
                   ELSE cpu[c].sample >= took[i][1]
        <5>1. /\ rows[i].min <= took[i][1] /\ took[i][1] <= rows[i].max
              /\ rows[i].min # 0
              /\ took[i][1] \in Nat /\ rows[i].min \in Nat /\ rows[i].max \in Nat
          <6>1. /\ rows[i].min <= took[i][1] /\ took[i][1] <= rows[i].max
                /\ 1 \in DOMAIN took[i] /\ In(i, rows[i].min) /\ In(i, rows[i].max)
            BY <4>1, <4>4 DEF RowBrackets
          <6>2. \A v : In(i, v) => v \in 1 .. W32 - 1
            BY <4>4 DEF Plain, In
          <6>3. took[i][1] \in 1 .. W32 - 1
            BY <4>4, <6>1 DEF Plain
          <6> QED
            BY <6>1, <6>2, <6>3, W32Is
        <5>2. CASE f = "min"
          BY <1>2, <1>5, <4>1, <5>1, <5>2
        <5>3. CASE f = "max"
          BY <1>2, <1>5, <4>1, <5>1, <5>3
        <5> QED
          BY <5>2, <5>3
      <4>5. f # "min" => Order["min"] # Order[f]
        BY <1>1, OrderFacts DEF StepNames
      <4>6. f # "max" => Order["max"] # Order[f]
        BY <1>1, OrderFacts DEF StepNames
      <4>7. cpu'[c].step = Order[f] /\ cpu'[c].sample = cpu[c].sample
        BY <1>2, <2>2, <2>3
      <4> QED
        BY <3>2, <4>2, <4>3, <4>4, <4>5, <4>6, <4>7 DEF RunBrackets
    <3> QED
      BY <3>1, <3>2
  <2>5. \A i : Holders(i)' \subseteq CPUs
    BY DEF Holders
  <2> QED
    BY <1>1, <1>3, <2>4, <2>5 DEF BInv
<1> QED
  BY <1>4, <1>5

LEMMA StepBracket ==
    ASSUME TInv, BInv, NEW c \in CPUs,
           AddSum(c) \/ AddCount(c) \/ AddHist(c) \/ StoreMin(c) \/ StoreMax(c)
    PROVE  BInv'
<1> DEFINE n == cpu[c].row
<1>1. \E s \in StepNames : At(c, s)
  BY DEF AddSum, AddCount, AddHist, StoreMin, StoreMax, StepNames
<1>2. /\ cpu[c] # Idle /\ n \in DOMAIN rows /\ c \in Holders(n)
      /\ Found(c) \in RowType /\ Found(c) = rows[n]
      /\ cpu[c].sample \in Nat /\ Bucket(cpu[c].sample) \in Buckets
  BY <1>1, AtRow DEF Found
<1>3. RowBrackets(n) /\ RunBrackets(c, n)
  BY <1>2 DEF BInv
<1>4. /\ \A new \in RowType : new.min \in Nat /\ new.max \in Nat
      /\ U32(cpu[c].sample) \in 0 .. W32 - 1
  BY <1>2, U32Type DEF RowType
<1>5. ASSUME Plain(n)
      PROVE  /\ U32(cpu[c].sample) = cpu[c].sample
             /\ In(n, cpu[c].sample)
  <2>1. In(n, cpu[c].sample)
    BY <1>3 DEF RunBrackets
  <2>2. cpu[c].sample \in 1 .. W32 - 1
    BY <1>5, <2>1 DEF Plain, In
  <2> QED
    BY <2>1, <2>2, U32Type, W32Is
<1>6. CASE AddSum(c) \/ AddCount(c) \/ AddHist(c)
  <2>1. \E new \in RowType : /\ Write(c, new)
                             /\ new.min = Found(c).min /\ new.max = Found(c).max
    <3>1. CASE AddSum(c)
      BY <1>2, <3>1, NewFields DEF AddSum, RowType
    <3>2. CASE AddCount(c)
      BY <1>2, <3>2, NewFields DEF AddCount, RowType
    <3>3. CASE AddHist(c)
      BY <1>2, <3>3, NewFields DEF AddHist, RowType
    <3> QED
      BY <1>6, <3>1, <3>2, <3>3
  <2>2. PICK new \in RowType : /\ Write(c, new)
                              /\ new.min = rows[n].min /\ new.max = rows[n].max
    BY <1>2, <2>1
  <2> HIDE DEF n
  <2> QED
    BY <1>2, <1>3, <2>2, WriteBracket DEF RowBrackets, n
<1>7. CASE StoreMin(c)
  <2> DEFINE new == [Found(c) EXCEPT !.min = U32(cpu[c].sample)]
  <2>1. /\ Write(c, new) /\ new \in RowType
        /\ new.min = U32(cpu[c].sample) /\ new.max = rows[n].max
    BY <1>2, <1>7, NewFields DEF StoreMin, RowType
  <2>2. Plain(n) => cpu[c].sample <= took[n][1]
    BY <1>3, <1>7 DEF RunBrackets, StoreMin, At
  <2> HIDE DEF new
  <2> QED
    BY <1>2, <1>3, <1>5, <2>1, <2>2, WriteBracket DEF RowBrackets
<1>8. CASE StoreMax(c)
  <2> DEFINE new == [Found(c) EXCEPT !.max = U32(cpu[c].sample)]
  <2>1. /\ Write(c, new) /\ new \in RowType
        /\ new.max = U32(cpu[c].sample) /\ new.min = rows[n].min
    BY <1>2, <1>8, NewFields DEF StoreMax, RowType
  <2>2. Plain(n) => cpu[c].sample >= took[n][1]
    BY <1>3, <1>8 DEF RunBrackets, StoreMax, At
  <2>3. Plain(n) => took[n][1] <= cpu[c].sample
    <3>1. 1 \in DOMAIN took[n]
      BY <1>3 DEF RowBrackets
    <3>2. Plain(n) => took[n][1] \in Nat
      BY <3>1, W32Is DEF Plain
    <3> QED
      BY <1>2, <2>2, <3>2
  <2> HIDE DEF new
  <2> QED
    BY <1>2, <1>3, <1>5, <2>1, <2>3, WriteBracket DEF RowBrackets
<1> QED
  BY <1>6, <1>7, <1>8

LEMMA NextBracket == TInv /\ BInv /\ [Next]_vars => BInv'
<1> SUFFICES ASSUME TInv, BInv, [Next]_vars PROVE BInv'
  OBVIOUS
<1>1. ASSUME NEW c \in CPUs, NEW v \in Samples, Lookup(c, v) PROVE BInv'
  BY <1>1, LookupBracket
<1>2. ASSUME NEW c \in CPUs, Insert(c) PROVE BInv'
  BY <1>2, InsertBracket
<1>3. ASSUME NEW c \in CPUs, TestMin(c) PROVE BInv'
  <2> DEFINE smaller == cpu[c].sample < Found(c).min \/ Found(c).min = 0
  <2>1. Test(c, "min", smaller) /\ smaller \in BOOLEAN
    BY <1>3 DEF TestMin
  <2> QED
    BY <2>1, TestBracket
<1>4. ASSUME NEW c \in CPUs, TestMax(c) PROVE BInv'
  <2> DEFINE smaller == cpu[c].sample > Found(c).max
  <2>1. Test(c, "max", smaller) /\ smaller \in BOOLEAN
    BY <1>4 DEF TestMax
  <2> QED
    BY <2>1, TestBracket
<1>5. CASE \/ CopyBegins \/ CopyEnds \/ UNCHANGED vars
           \/ \E f \in Fields : CopyField(f)
           \/ \E w \in Pairs : CopyPair(w)
  <2>1. UNCHANGED <<table, rows, cpu, took>>
    BY <1>5 DEF CopyBegins, CopyEnds, CopyField, CopyPair, Copying, vars
  <2>2. \A i \in DOMAIN rows : Grows(i) /\ RowBrackets(i)'
    BY <2>1, RowKept DEF BInv, Grows
  <2>3. \A i : Holders(i)' = Holders(i)
    BY <2>1 DEF Holders
  <2>4. \A i \in DOMAIN rows : \A d \in Holders(i) : RunBrackets(d, i)'
    BY <2>1, <2>2, RunKept DEF BInv
  <2> QED
    BY <2>1, <2>2, <2>3, <2>4 DEF BInv
<1> QED
  BY <1>1, <1>2, <1>3, <1>4, <1>5, StepBracket DEF Next

\* Whatever the races between comparing and storing, the minimum is not
\* above the maximum and both are samples the row took.
THEOREM Bracket == Spec => []ExtremesBracket
<1>1. Init => BInv
  BY EmptySeq DEF Init, BInv
<1>2. TInv /\ BInv /\ [Next]_vars => BInv'
  BY NextBracket
<1>3. TInv /\ BInv => ExtremesBracket
  <2> SUFFICES ASSUME TInv, BInv, NEW i \in DOMAIN rows, Plain(i)
               PROVE  /\ rows[i].min <= rows[i].max
                      /\ {rows[i].min, rows[i].max} \subseteq ToSet(took[i])
    BY DEF ExtremesBracket
  <2>1. /\ rows[i].min <= took[i][1] /\ took[i][1] <= rows[i].max
        /\ 1 \in DOMAIN took[i] /\ In(i, rows[i].min) /\ In(i, rows[i].max)
    BY DEF BInv, RowBrackets
  <2>2. took[i][1] \in Nat /\ rows[i].min \in Nat /\ rows[i].max \in Nat
    BY <2>1, RowFields, W32Is DEF RowType, Plain
  <2> QED
    BY <2>1, <2>2 DEF In, ToSet
<1> QED
  BY <1>1, <1>2, <1>3, Typed, PTL DEF Spec

-----------------------------------------------------------------------------
(* The extremes of a row on which no runs overlapped.  The samples come to *)
(* it one after the other, so each extreme is that of the samples up to    *)
(* the run in progress, or with it once that has passed its comparison.    *)

Fits(i) == \A k \in DOMAIN took[i] : took[i][k] < W32

\* x is the greatest of the first n samples of s.
GreatestTo(s, n, x) ==
    /\ \E k \in 1 .. n : s[k] = x
    /\ \A k \in 1 .. n : s[k] <= x

\* x is the least of the samples of s after the last 0 and up to n, or 0 if
\* there is none.
LeastTo(s, n, x) ==
    \E z \in 0 .. n :
        /\ z > 0 => s[z] = 0
        /\ \A k \in z + 1 .. n : s[k] # 0 /\ x <= s[k]
        /\ IF z = n THEN x = 0 ELSE \E k \in z + 1 .. n : s[k] = x

\* How many samples of row i have passed a step.
Done(i, step) == IF Before(i, step) = {} THEN Len(took[i]) ELSE Len(took[i]) - 1

\* The run in progress on row i brought its last sample.
RunIsLast(c, i) ==
    /\ Holders(i) = {c}
    /\ Len(took[i]) > 1
    /\ took[i][Len(took[i])] = cpu[c].sample

StoresRightly(c, i) ==
    cpu[c].store =>
        /\ cpu[c].step = Order["min"] => cpu[c].sample < rows[i].min \/ rows[i].min = 0
        /\ cpu[c].step = Order["max"] => cpu[c].sample > rows[i].max

RowExact(i) ==
    /\ Len(took[i]) > 0
    /\ \A c \in Holders(i) : RunIsLast(c, i)
    /\ Fits(i) => /\ GreatestTo(took[i], Done(i, "max"), rows[i].max)
                  /\ LeastTo(took[i], Done(i, "min"), rows[i].min)
                  /\ \A c \in Holders(i) : StoresRightly(c, i)

EInv == \A i \in DOMAIN rows \ raced : RowExact(i)

LEMMA GreatestNext ==
    ASSUME NEW s, NEW n \in Nat, NEW x, NEW v \in Nat,
           \A k \in 1 .. n : s[k] \in Nat,
           GreatestTo(s, n, x), s[n + 1] = v
    PROVE  GreatestTo(s, n + 1, IF v > x THEN v ELSE x)
<1>1. PICK k \in 1 .. n : s[k] = x
  BY DEF GreatestTo
<1>2. x \in Nat /\ k \in 1 .. n + 1 /\ n + 1 \in 1 .. n + 1
  BY <1>1
<1>3. \A j \in 1 .. n + 1 : j \in 1 .. n \/ j = n + 1
  OBVIOUS
<1>4. CASE v > x
  BY <1>2, <1>3, <1>4 DEF GreatestTo
<1>5. CASE ~(v > x)
  BY <1>1, <1>2, <1>3, <1>5 DEF GreatestTo
<1> QED
  BY <1>4, <1>5

LEMMA LeastNext ==
    ASSUME NEW s, NEW n \in Nat, NEW x \in Nat, NEW v \in Nat,
           \A k \in 1 .. n : s[k] \in Nat,
           LeastTo(s, n, x), s[n + 1] = v
    PROVE  LeastTo(s, n + 1, IF v < x \/ x = 0 THEN v ELSE x)
<1>1. PICK z \in 0 .. n :
          /\ z > 0 => s[z] = 0
          /\ \A k \in z + 1 .. n : s[k] # 0 /\ x <= s[k]
          /\ IF z = n THEN x = 0 ELSE \E k \in z + 1 .. n : s[k] = x
  BY DEF LeastTo
<1>2. \A k \in z + 1 .. n + 1 : (k \in z + 1 .. n /\ k \in 1 .. n) \/ k = n + 1
  BY <1>1
<1>3. z \in 0 .. n + 1 /\ n + 1 \in z + 1 .. n + 1 /\ z # n + 1
  BY <1>1
<1>4. CASE v = 0
  <2>1. LeastTo(s, n + 1, 0)
    <3>1. n + 1 \in 0 .. n + 1 /\ \A k \in (n + 1) + 1 .. n + 1 : FALSE
      OBVIOUS
    <3> QED
      BY <1>4, <3>1 DEF LeastTo
  <2>2. (IF v < x \/ x = 0 THEN v ELSE x) = 0
    BY <1>4
  <2> QED
    BY <2>1, <2>2
<1>5. CASE v # 0 /\ x = 0
  <2>1. z = n
    BY <1>1, <1>5
  <2>2. \A k \in z + 1 .. n + 1 : s[k] = v
    BY <1>2, <2>1
  <2>3. LeastTo(s, n + 1, v)
    BY <1>1, <1>3, <1>5, <2>2 DEF LeastTo
  <2> QED
    BY <1>5, <2>3
<1>6. CASE v # 0 /\ x # 0
  <2>1. PICK y \in Nat : y = IF v < x THEN v ELSE x
    OBVIOUS
  <2>2. y <= v /\ y <= x
    BY <2>1
  <2>3. \A k \in z + 1 .. n + 1 : s[k] # 0 /\ y <= s[k]
    BY <1>1, <1>2, <1>6, <2>2
  <2>4. PICK j \in z + 1 .. n : s[j] = x
    BY <1>1, <1>6
  <2>5. j \in z + 1 .. n + 1
    BY <1>1
  <2>6. \E k \in z + 1 .. n + 1 : s[k] = y
    BY <1>3, <2>1, <2>4, <2>5
  <2>7. LeastTo(s, n + 1, y)
    BY <1>1, <1>3, <2>3, <2>6 DEF LeastTo
  <2> QED
    BY <1>6, <2>1, <2>7
<1> QED
  BY <1>4, <1>5, <1>6

LEMMA PrefixAlike ==
    ASSUME NEW s, NEW t, NEW n \in Nat, NEW x, \A k \in 1 .. n : t[k] = s[k]
    PROVE  /\ GreatestTo(s, n, x) => GreatestTo(t, n, x)
           /\ LeastTo(s, n, x) => LeastTo(t, n, x)
<1>1. GreatestTo(s, n, x) => GreatestTo(t, n, x)
  BY DEF GreatestTo
<1>2. ASSUME LeastTo(s, n, x) PROVE LeastTo(t, n, x)
  <2>1. PICK z \in 0 .. n :
            /\ z > 0 => s[z] = 0
            /\ \A k \in z + 1 .. n : s[k] # 0 /\ x <= s[k]
            /\ IF z = n THEN x = 0 ELSE \E k \in z + 1 .. n : s[k] = x
    BY <1>2 DEF LeastTo
  <2>2. /\ z > 0 => t[z] = 0
        /\ \A k \in z + 1 .. n : t[k] = s[k]
    BY <2>1
  <2> QED
    BY <2>1, <2>2 DEF LeastTo
<1> QED
  BY <1>1, <1>2

LEMMA RowSamples ==
    ASSUME TInv, NEW i \in DOMAIN rows
    PROVE  /\ Len(took[i]) \in Nat
           /\ DOMAIN took[i] = 1 .. Len(took[i])
           /\ \A k \in 1 .. Len(took[i]) : took[i][k] \in Nat
           /\ rows[i].min \in Nat /\ rows[i].max \in Nat
<1>1. took[i] \in Seq(Samples) /\ rows[i] \in RowType /\ DOMAIN took[i] = 1 .. Len(took[i])
  BY RowFields
<1>2. \A k \in 1 .. Len(took[i]) : took[i][k] \in Samples
  BY <1>1, ElementOfSeq
<1>3. rows[i].min \in Nat /\ rows[i].max \in Nat
  BY <1>1, W32Is DEF RowType
<1>4. Len(took[i]) \in Nat
  BY <1>1, LenProperties
<1> QED
  BY <1>1, <1>2, <1>3, <1>4, SamplesAre

\* A row nobody touches, whose run, if there is one, stays where it is.
LEMMA RowUntouched ==
    ASSUME NEW i, RowExact(i), took'[i] = took[i],
           rows'[i].min = rows[i].min, rows'[i].max = rows[i].max,
           Holders(i)' = Holders(i), \A c \in Holders(i) : cpu'[c] = cpu[c],
           table' = table
    PROVE  RowExact(i)'
<1>1. Order' = Order /\ (Fits(i)' <=> Fits(i))
  BY DEF Order, Fits
<1>2. \A t : Before(i, t)' = Before(i, t)
  BY <1>1 DEF Before
<1>3. \A t : Done(i, t)' = Done(i, t)
  BY <1>2 DEF Done
<1>4. \A c \in Holders(i) : RunIsLast(c, i) => RunIsLast(c, i)'
  BY DEF RunIsLast
<1>5. \A c \in Holders(i) : StoresRightly(c, i) => StoresRightly(c, i)'
  BY <1>1 DEF StoresRightly
<1>6. GreatestTo(took[i], Done(i, "max"), rows[i].max)
        => GreatestTo(took[i], Done(i, "max"), rows[i].max)'
  BY <1>3 DEF GreatestTo
<1>7. LeastTo(took[i], Done(i, "min"), rows[i].min)
        => LeastTo(took[i], Done(i, "min"), rows[i].min)'
  BY <1>3 DEF LeastTo
<1> QED
  BY <1>1, <1>4, <1>5, <1>6, <1>7 DEF RowExact

\* The one run on a row does step s, and the extreme it is about becomes that
\* of all samples.
LEMMA AdvanceExact ==
    ASSUME TInv, NEW n \in DOMAIN rows, RowExact(n), NEW c \in CPUs, cpu[c].row = n,
           NEW s \in StepNames, At(c, s), Advance(c), UNCHANGED <<table, took>>,
           Fits(n) => rows'[n].max = IF s = "max" /\ cpu[c].sample > rows[n].max
                                     THEN cpu[c].sample ELSE rows[n].max,
           Fits(n) => rows'[n].min =
               IF s = "min" /\ (cpu[c].sample < rows[n].min \/ rows[n].min = 0)
               THEN cpu[c].sample ELSE rows[n].min
    PROVE  RowExact(n)'
<1>1. c \in Holders(n) /\ cpu[c].step = Order[s]
  BY DEF At, Holders
<1>2. RunIsLast(c, n) /\ Holders(n) = {c}
  BY <1>1 DEF RowExact, RunIsLast
<1>3. PICK m \in Nat : m + 1 = Len(took[n])
  <2>1. Len(took[n]) \in Nat /\ Len(took[n]) > 1
    BY <1>2, RowSamples DEF RunIsLast
  <2>2. Len(took[n]) - 1 \in Nat /\ (Len(took[n]) - 1) + 1 = Len(took[n])
    BY <2>1
  <2> QED
    BY <2>2
<1>4. /\ \A k \in 1 .. m + 1 : took[n][k] \in Nat
      /\ took[n][m + 1] = cpu[c].sample /\ cpu[c].sample \in Nat
      /\ rows[n].min \in Nat /\ rows[n].max \in Nat
  BY <1>2, <1>3, RowSamples DEF RunIsLast
<1>5. /\ \A d \in CPUs \ {c} : cpu'[d] = cpu[d]
      /\ cpu'[c] # Idle => /\ cpu'[c].row = cpu[c].row
                           /\ cpu'[c].sample = cpu[c].sample
                           /\ cpu'[c].store = FALSE
  BY AdvanceRun DEF At
<1>6. ASSUME NEW d \in Holders(n)' PROVE d = c /\ RunIsLast(d, n)' /\ StoresRightly(d, n)'
  <2>1. d \in CPUs /\ cpu'[d] # Idle /\ cpu'[d].row = n
    BY <1>6 DEF Holders
  <2>2. d = c
    <3>1. SUFFICES ASSUME d # c PROVE FALSE
      OBVIOUS
    <3>2. d \in Holders(n)
      BY <1>5, <2>1, <3>1 DEF Holders
    <3> QED
      BY <1>2, <3>1, <3>2
  <2>3. Holders(n)' = {c}
    <3>1. \A e \in Holders(n)' : e \in CPUs /\ (e # c => e \in Holders(n))
      BY <1>5 DEF Holders
    <3> QED
      BY <1>2, <1>6, <2>2, <3>1
  <2> QED
    BY <1>2, <1>5, <2>1, <2>2, <2>3 DEF RunIsLast, StoresRightly
<1>7. \A t \in StepNames :
          /\ Before(n, t)' = IF s = t THEN Before(n, t) \ {c} ELSE Before(n, t)
          /\ Before(n, t) \subseteq {c}
  <2>1. \A t \in StepNames :
            Before(n, t)' = IF s = t THEN Before(n, t) \ {c} ELSE Before(n, t)
    BY AdvanceLeaves
  <2>2. \A t : Before(n, t) \subseteq {c}
    BY <1>2 DEF Before
  <2> QED
    BY <2>1, <2>2
<1>8. /\ Done(n, s) = m /\ Done(n, s)' = m + 1
      /\ \A t \in StepNames : t # s => Done(n, t)' = Done(n, t)
      /\ \A t \in StepNames : Done(n, t) \in Nat /\ Done(n, t) <= m + 1
  <2>1. c \in Before(n, s)
    <3>1. Order[s] \in 1 .. 5
      BY OrderFacts
    <3> QED
      BY <1>1, <3>1 DEF Before
  <2>2. Before(n, s) # {} /\ Before(n, s)' = {}
    BY <1>7, <2>1
  <2> QED
    BY <1>3, <1>7, <2>2 DEF Done
<1>9. Fits(n)' <=> Fits(n)
  BY DEF Fits
<1>10. ASSUME Fits(n)
       PROVE  /\ GreatestTo(took[n], Done(n, "max")', rows'[n].max)
              /\ LeastTo(took[n], Done(n, "min")', rows'[n].min)
  <2>1. /\ GreatestTo(took[n], Done(n, "max"), rows[n].max)
        /\ LeastTo(took[n], Done(n, "min"), rows[n].min)
    BY <1>10 DEF RowExact
  <2>2. "max" \in StepNames /\ "min" \in StepNames
    BY DEF StepNames
  <2>3. CASE s = "max"
    <3>1. GreatestTo(took[n], m + 1, IF cpu[c].sample > rows[n].max
                                     THEN cpu[c].sample ELSE rows[n].max)
      BY <1>4, <1>8, <2>1, <2>3, GreatestNext
    <3> QED
      BY <1>8, <1>10, <2>1, <2>2, <2>3, <3>1
  <2>4. CASE s = "min"
    <3>0. PICK x, v, t : x = rows[n].min /\ v = cpu[c].sample /\ t = took[n]
      OBVIOUS
    <3>1. LeastTo(t, m + 1, IF v < x \/ x = 0 THEN v ELSE x)
      <4>1. /\ LeastTo(t, m, x) /\ x \in Nat /\ v \in Nat /\ t[m + 1] = v
            /\ \A k \in 1 .. m : t[k] \in Nat
        BY <1>4, <1>8, <2>1, <2>4, <3>0
      <4> QED
        BY <4>1, LeastNext
    <3> QED
      BY <1>8, <1>10, <2>1, <2>2, <2>4, <3>0, <3>1
  <2>5. CASE s \notin {"min", "max"}
    BY <1>8, <1>10, <2>1, <2>2, <2>5
  <2> QED
    BY <2>3, <2>4, <2>5
<1>11. /\ took'[n] = took[n]
       /\ GreatestTo(took[n], Done(n, "max")', rows'[n].max)
            => GreatestTo(took[n], Done(n, "max"), rows[n].max)'
       /\ LeastTo(took[n], Done(n, "min")', rows'[n].min)
            => LeastTo(took[n], Done(n, "min"), rows[n].min)'
  BY DEF GreatestTo, LeastTo
<1>12. Len(took[n])' > 0
  BY <1>11 DEF RowExact
<1> QED
  BY <1>6, <1>9, <1>10, <1>11, <1>12 DEF RowExact

\* The rows a run is not at.
LEMMA OthersUntouched ==
    ASSUME EInv, NEW c \in CPUs, \A d \in CPUs \ {c} : cpu'[d] = cpu[d],
           cpu'[c] # Idle => cpu[c] # Idle /\ cpu'[c].row = cpu[c].row,
           UNCHANGED <<table, took>>,
           NEW i \in DOMAIN rows \ raced, c \notin Holders(i), rows'[i] = rows[i]
    PROVE  RowExact(i)'
<1>1. \A d \in CPUs : d \in Holders(i)' <=> d \in Holders(i)
  BY DEF Holders
<1>2. Holders(i)' = Holders(i)
  BY <1>1 DEF Holders
<1>3. \A d \in Holders(i) : cpu'[d] = cpu[d]
  BY DEF Holders
<1> QED
  BY <1>2, <1>3, RowUntouched DEF EInv

LEMMA LookupExact ==
    ASSUME TInv, EInv, NEW c \in CPUs, NEW v \in Samples, Lookup(c, v)
    PROVE  EInv'
<1>n. PICK n \in Nat : n = Len(rows)
  BY LenProperties DEF TInv, TypeOK
<1>1. /\ rows \in Seq(RowType) /\ took \in Seq(Seq(Samples))
      /\ Len(took) = n /\ DOMAIN rows = 1 .. n
      /\ cpu \in [CPUs -> {Idle} \cup Run]
  BY <1>n, LenProperties DEF TInv, TypeOK, PointersHold
<1>2. cpu[c] = Idle /\ rows' = rows /\ table' = table
  BY DEF Lookup
<1> DEFINE on == RunAt(v, n, 1, FALSE)
<1>3. /\ on.row = n /\ on.sample = v /\ on.store = FALSE /\ on.step = 1
      /\ on # Idle
  <2>1. on.pc = "run" /\ Idle.pc = "idle"
    BY DEF RunAt, Idle
  <2> QED
    BY <2>1 DEF RunAt
<1>4. cpu' = [cpu EXCEPT ![c] = on]
  BY <1>n DEF Lookup
<1> HIDE DEF on
<1>5. cpu'[c] = on /\ \A d \in CPUs \ {c} : cpu'[d] = cpu[d]
  BY <1>1, <1>4
<1>6. raced \subseteq raced'
  BY DEF Lookup
<1>7. ASSUME NEW i \in DOMAIN rows \ raced, i # n PROVE RowExact(i)'
  <2>1. i \in 1 .. n /\ n \in 1 .. n /\ rows # <<>>
    BY <1>1
  <2>2. took'[i] = took[i]
    <3>1. took[n] \in Seq(Samples)
      BY <1>1, <2>1, ElementOfSeq
    <3>2. Append(took[n], v) \in Seq(Samples)
      BY <3>1, AppendProperties
    <3>3. took' = [took EXCEPT ![n] = Append(took[n], v)]
      BY <1>n, <2>1 DEF Lookup
    <3> QED
      BY <1>1, <1>7, <2>1, <3>2, <3>3, ExceptSeq
  <2>3. \A d \in CPUs : d \in Holders(i)' <=> d \in Holders(i)
    BY <1>2, <1>3, <1>5, <1>7 DEF Holders
  <2>4. Holders(i)' = Holders(i)
    BY <2>3 DEF Holders
  <2>5. \A d \in Holders(i) : cpu'[d] = cpu[d]
    BY <1>2, <1>5 DEF Holders
  <2> QED
    BY <1>2, <2>2, <2>4, <2>5, RowUntouched DEF EInv
<1>8. ASSUME n \in DOMAIN rows \ raced' PROVE RowExact(n)'
  <2>1. n \in 1 .. n /\ rows # <<>> /\ n \notin raced
    BY <1>1, <1>6, <1>8
  <2>2. Holders(n) = {}
    BY <1>n, <1>8, <2>1 DEF Lookup
  <2>3. RowExact(n)
    BY <1>8, <2>1 DEF EInv
  <2>4. took[n] \in Seq(Samples) /\ v \in Nat
    BY <1>1, <2>1, ElementOfSeq, SamplesAre
  <2>5. PICK m \in Nat : m = Len(took[n])
    BY <2>4, LenProperties
  <2>6. took'[n] = Append(took[n], v)
    <3>1. Append(took[n], v) \in Seq(Samples)
      BY <2>4, AppendProperties
    <3>2. took' = [took EXCEPT ![n] = Append(took[n], v)]
      BY <1>n, <2>1 DEF Lookup
    <3> QED
      BY <1>1, <2>1, <3>1, <3>2, ExceptSeq
  <2>7. /\ DOMAIN took[n] = 1 .. m
        /\ Len(took'[n]) = m + 1 /\ DOMAIN took'[n] = 1 .. m + 1
        /\ \A k \in 1 .. m : took'[n][k] = took[n][k]
        /\ took'[n][m + 1] = v
    BY <2>4, <2>5, <2>6, AppendProperties, LenProperties
  <2>8. Holders(n)' = {c}
    <3>1. \A d \in CPUs : d \in Holders(n)' <=> d = c
      BY <1>3, <1>5, <2>2 DEF Holders
    <3> QED
      BY <3>1 DEF Holders
  <2>9. m > 0
    BY <2>3, <2>5 DEF RowExact
  <2>10. RunIsLast(c, n)'
    BY <1>3, <1>5, <2>7, <2>8, <2>9 DEF RunIsLast
  <2>11. StoresRightly(c, n)'
    BY <1>3, <1>5 DEF StoresRightly
  <2>12. Fits(n)' => Fits(n)
    BY <2>7 DEF Fits
  <2>13. ASSUME NEW t \in StepNames PROVE Done(n, t) = m /\ Done(n, t)' = m
    <3>1. Before(n, t) = {}
      BY <2>2 DEF Before
    <3>2. Order[t]' = Order[t] /\ 1 <= Order[t]
      BY <1>2, OrderFacts DEF Order
    <3>3. c \in Before(n, t)'
      BY <1>3, <1>5, <2>8, <3>2 DEF Before, Order
    <3> QED
      BY <2>5, <2>7, <3>1, <3>3 DEF Done
  <2>14. "max" \in StepNames /\ "min" \in StepNames
    BY DEF StepNames
  <2>15. ASSUME Fits(n)
         PROVE  /\ GreatestTo(took'[n], m, rows[n].max)
                /\ LeastTo(took'[n], m, rows[n].min)
    <3>1. GreatestTo(took[n], m, rows[n].max) /\ LeastTo(took[n], m, rows[n].min)
      BY <2>3, <2>13, <2>14, <2>15 DEF RowExact
    <3> QED
      BY <2>7, <3>1, PrefixAlike
  <2>16. Fits(n) => /\ GreatestTo(took[n], Done(n, "max"), rows[n].max)'
                    /\ LeastTo(took[n], Done(n, "min"), rows[n].min)'
    BY <1>2, <2>13, <2>14, <2>15 DEF GreatestTo, LeastTo
  <2> QED
    BY <2>7, <2>8, <2>9, <2>10, <2>11, <2>12, <2>16 DEF RowExact
<1> QED
  BY <1>2, <1>6, <1>7, <1>8 DEF EInv

LEMMA InsertExact ==
    ASSUME TInv, EInv, NEW c \in CPUs, Insert(c)
    PROVE  EInv'
<1>n. PICK n \in Nat : n = Len(rows)
  BY LenProperties DEF TInv, TypeOK
<1>v. PICK v \in Samples : v = cpu[c].sample
  BY RunFields DEF Insert
<1>1. /\ rows \in Seq(RowType) /\ took \in Seq(Seq(Samples))
      /\ Len(rows) = n /\ Len(took) = n
      /\ DOMAIN rows = 1 .. n
      /\ NewRow(v) \in RowType /\ <<v>> \in Seq(Samples)
      /\ cpu \in [CPUs -> {Idle} \cup Run]
      /\ v \in Nat
  BY <1>n, NewRowType, SamplesAre, LenProperties DEF TInv, TypeOK, PointersHold
<1>2. /\ rows' = Append(rows, NewRow(v)) /\ took' = Append(took, <<v>>)
      /\ cpu' = [cpu EXCEPT ![c] = Idle] /\ table' = table /\ raced' = raced
      /\ cpu[c] # Idle /\ cpu[c].row = 0
  BY <1>v DEF Insert
<1>3. /\ DOMAIN rows' = 1 .. n + 1
      /\ rows'[n + 1] = NewRow(v) /\ took'[n + 1] = <<v>>
      /\ \A i \in 1 .. n : rows'[i] = rows[i] /\ took'[i] = took[i]
  BY <1>1, <1>2, AppendProperties, LenProperties
<1>4. cpu'[c] = Idle /\ \A d \in CPUs \ {c} : cpu'[d] = cpu[d]
  BY <1>1, <1>2
<1>5. ASSUME NEW i \in 1 .. n, i \notin raced PROVE RowExact(i)'
  <2>1. \A d \in CPUs : d \in Holders(i)' <=> d \in Holders(i)
    BY <1>2, <1>4 DEF Holders
  <2>2. Holders(i)' = Holders(i)
    BY <2>1 DEF Holders
  <2>3. \A d \in Holders(i) : cpu'[d] = cpu[d]
    BY <1>2, <1>4 DEF Holders
  <2>4. RowExact(i)
    BY <1>1, <1>5 DEF EInv
  <2> QED
    BY <1>2, <1>3, <2>2, <2>3, <2>4, RowUntouched
<1>6. ASSUME NEW i, i = n + 1 PROVE RowExact(i)'
  <2>1. rows'[i] = NewRow(v) /\ took'[i] = <<v>>
    BY <1>3, <1>6
  <2>2. Len(took'[i]) = 1 /\ took'[i][1] = v /\ DOMAIN took'[i] = 1 .. 1
    BY <2>1
  <2>3. Holders(i)' = {}
    <3>1. ASSUME NEW d \in CPUs, cpu'[d] # Idle PROVE cpu'[d].row # i
      <4>1. cpu[d] # Idle /\ cpu'[d] = cpu[d]
        BY <1>4, <3>1
      <4> QED
        BY <1>n, <1>6, <4>1, RunFields
    <3> QED
      BY <3>1 DEF Holders
  <2>4. \A t : Done(i, t)' = 1
    BY <2>2, <2>3 DEF Done, Before
  <2>5. Fits(i)' => rows'[i].min = v /\ rows'[i].max = v
    <3>1. rows'[i].min = U32(v) /\ rows'[i].max = U32(v)
      BY <2>1 DEF NewRow
    <3>2. Fits(i)' => v < W32
      BY <2>2 DEF Fits
    <3> QED
      BY <1>1, <3>1, <3>2, U32Type
  <2>6. GreatestTo(took'[i], 1, v)
    <3>1. \A k \in 1 .. 1 : took'[i][k] = v /\ v <= v
      BY <1>1, <2>2
    <3> QED
      BY <3>1 DEF GreatestTo
  <2>7. LeastTo(took'[i], 1, v)
    <3>1. CASE v = 0
      <4>1. 1 \in 0 .. 1 /\ \A k \in 1 + 1 .. 1 : FALSE
        OBVIOUS
      <4> QED
        BY <2>2, <3>1, <4>1 DEF LeastTo
    <3>2. CASE v # 0
      <4>1. 0 \in 0 .. 1 /\ 1 \in 0 + 1 .. 1 /\ \A k \in 0 + 1 .. 1 : k = 1
        OBVIOUS
      <4>2. ~(0 > 0) /\ v <= v /\ 0 # 1
        BY <1>1
      <4> QED
        BY <2>2, <3>2, <4>1, <4>2 DEF LeastTo
    <3> QED
      BY <3>1, <3>2
  <2>8. Fits(i)' => /\ GreatestTo(took[i], Done(i, "max"), rows[i].max)'
                    /\ LeastTo(took[i], Done(i, "min"), rows[i].min)'
    BY <2>4, <2>5, <2>6, <2>7 DEF GreatestTo, LeastTo
  <2> QED
    BY <2>2, <2>3, <2>8 DEF RowExact
<1> QED
  <2>1. ASSUME NEW i \in DOMAIN rows' \ raced' PROVE RowExact(i)'
    <3>1. i \in 1 .. n \/ i = n + 1
      BY <1>3
    <3> QED
      BY <1>2, <1>5, <1>6, <3>1
  <2> QED
    BY <2>1 DEF EInv

\* What a run is at, by name.
LEMMA AtRun ==
    ASSUME TInv, NEW c \in CPUs, NEW s \in StepNames, At(c, s)
    PROVE  /\ cpu[c] # Idle
           /\ cpu[c].row \in DOMAIN rows
           /\ \A i : c \in Holders(i) <=> i = cpu[c].row
           /\ Found(c) \in RowType
           /\ Found(c) = rows[cpu[c].row]
           /\ cpu[c].sample \in Nat
           /\ Bucket(cpu[c].sample) \in Buckets
<1>1. cpu[c] # Idle /\ cpu[c].row # 0
  BY DEF At
<1>2. cpu[c].row \in 1 .. Len(rows) /\ DOMAIN rows = 1 .. Len(rows)
  BY <1>1, RunFields, LenProperties DEF TInv, TypeOK
<1> QED
  BY <1>1, <1>2, FoundType, RunFields, BucketType DEF Holders, Found

\* A step that goes on and leaves the right extremes in its row.
LEMMA StepExact ==
    ASSUME TInv, EInv, NEW c \in CPUs, NEW n, n = cpu[c].row,
           NEW s \in StepNames, At(c, s), Advance(c), UNCHANGED <<table, took, raced>>,
           DOMAIN rows' = DOMAIN rows,
           \A i \in DOMAIN rows : i # n => rows'[i] = rows[i],
           n \notin raced /\ Fits(n) =>
               rows'[n].max = IF s = "max" /\ cpu[c].sample > rows[n].max
                              THEN cpu[c].sample ELSE rows[n].max,
           n \notin raced /\ Fits(n) =>
               rows'[n].min =
                   IF s = "min" /\ (cpu[c].sample < rows[n].min \/ rows[n].min = 0)
                   THEN cpu[c].sample ELSE rows[n].min
    PROVE  EInv'
<1>1. /\ cpu[c] # Idle /\ n \in DOMAIN rows
      /\ \A i : c \in Holders(i) <=> i = n
  BY AtRun
<1>2. /\ \A d \in CPUs \ {c} : cpu'[d] = cpu[d]
      /\ cpu'[c] # Idle => cpu'[c].row = cpu[c].row
  BY <1>1, AdvanceRun
<1>3. ASSUME NEW i \in DOMAIN rows \ raced, i # n PROVE RowExact(i)'
  BY <1>1, <1>2, <1>3, OthersUntouched
<1>4. ASSUME n \notin raced PROVE RowExact(n)'
  <2>1. RowExact(n)
    BY <1>1, <1>4 DEF EInv
  <2> QED
    BY <1>1, <1>4, <2>1, AdvanceExact
<1> QED
  BY <1>1, <1>3, <1>4 DEF EInv

LEMMA TestExact ==
    ASSUME TInv, EInv, NEW c \in CPUs, NEW f \in {"min", "max"}, NEW smaller \in BOOLEAN,
           Test(c, f, smaller),
           smaller = IF f = "min"
                     THEN cpu[c].sample < Found(c).min \/ Found(c).min = 0
                     ELSE cpu[c].sample > Found(c).max
    PROVE  EInv'
<1>0. PICK n : n = cpu[c].row
  OBVIOUS
<1>1. /\ f \in StepNames /\ At(c, f)
      /\ UNCHANGED <<table, rows, took, raced>>
  BY DEF Test, StepNames
<1>2. /\ cpu[c] # Idle /\ n \in DOMAIN rows
      /\ \A i : c \in Holders(i) <=> i = n
      /\ Found(c) = rows[n]
      /\ cpu[c].step = Order[f]
  BY <1>0, <1>1, AtRun DEF At
<1>3. CASE ~smaller
  <2>1. Advance(c)
    BY <1>3 DEF Test
  <2>2. f = "max" => ~(cpu[c].sample > rows[n].max)
    BY <1>2, <1>3
  <2>3. f = "min" => ~(cpu[c].sample < rows[n].min \/ rows[n].min = 0)
    BY <1>2, <1>3
  <2> QED
    <3>1. Fits(n) => rows'[n].max = IF f = "max" /\ cpu[c].sample > rows[n].max
                                    THEN cpu[c].sample ELSE rows[n].max
      BY <1>1, <2>2
    <3>2. Fits(n) => rows'[n].min =
              IF f = "min" /\ (cpu[c].sample < rows[n].min \/ rows[n].min = 0)
              THEN cpu[c].sample ELSE rows[n].min
      BY <1>1, <2>3
    <3> QED
      BY <1>0, <1>1, <2>1, <3>1, <3>2, StepExact
<1>4. CASE smaller
  <2> DEFINE on == RunAt(cpu[c].sample, cpu[c].row, cpu[c].step, TRUE)
  <2>1. cpu' = [cpu EXCEPT ![c] = on] /\ cpu \in [CPUs -> {Idle} \cup Run]
    BY <1>4 DEF Test, TInv, TypeOK
  <2>2. /\ on.row = n /\ on.sample = cpu[c].sample /\ on.step = cpu[c].step
        /\ on # Idle
    <3>1. on.pc = "run" /\ Idle.pc = "idle"
      BY DEF RunAt, Idle
    <3> QED
      BY <1>0, <3>1 DEF RunAt
  <2> HIDE DEF on
  <2>3. cpu'[c] = on /\ \A d \in CPUs \ {c} : cpu'[d] = cpu[d]
    BY <2>1
  <2>4. ASSUME NEW i \in DOMAIN rows \ raced, i # n PROVE RowExact(i)'
    <3>1. /\ cpu'[c] # Idle => cpu[c] # Idle /\ cpu'[c].row = cpu[c].row
          /\ c \notin Holders(i) /\ rows'[i] = rows[i]
      BY <1>0, <1>1, <1>2, <2>2, <2>3, <2>4
    <3> QED
      BY <1>1, <2>3, <3>1, OthersUntouched
  <2>5. ASSUME n \notin raced PROVE RowExact(n)'
    <3>1. RowExact(n)
      BY <1>2, <2>5 DEF EInv
    <3>2. \A d \in CPUs : d \in Holders(n)' <=> d \in Holders(n)
      BY <1>2, <2>2, <2>3 DEF Holders
    <3>3. Holders(n)' = Holders(n)
      BY <3>2 DEF Holders
    <3>4. /\ \A d \in CPUs : cpu'[d].step = cpu[d].step /\ cpu'[d].sample = cpu[d].sample
          /\ Order' = Order
      BY <1>1, <2>2, <2>3 DEF Order
    <3>5. \A t : Before(n, t)' = Before(n, t)
      <4>1. Holders(n) \subseteq CPUs
        BY DEF Holders
      <4> QED
        BY <3>3, <3>4, <4>1 DEF Before
    <3>6. \A t : Done(n, t)' = Done(n, t)
      BY <1>1, <3>5 DEF Done
    <3>7. RunIsLast(c, n) /\ Holders(n) = {c}
      BY <1>2, <3>1 DEF RowExact, RunIsLast
    <3>8. RunIsLast(c, n)'
      BY <1>1, <3>3, <3>4, <3>7 DEF RunIsLast
    <3>9. StoresRightly(c, n)'
      <4>1. f # "min" => Order["min"] # Order[f]
        BY <1>1, OrderFacts DEF StepNames
      <4>2. f # "max" => Order["max"] # Order[f]
        BY <1>1, OrderFacts DEF StepNames
      <4>3. f = "min" => cpu[c].sample < rows[n].min \/ rows[n].min = 0
        BY <1>2, <1>4
      <4>4. f = "max" => cpu[c].sample > rows[n].max
        BY <1>2, <1>4
      <4> QED
        BY <1>1, <1>2, <3>4, <4>1, <4>2, <4>3, <4>4 DEF StoresRightly
    <3>10. Fits(n)' <=> Fits(n)
      BY <1>1 DEF Fits
    <3>11. Fits(n) => /\ GreatestTo(took[n], Done(n, "max"), rows[n].max)'
                      /\ LeastTo(took[n], Done(n, "min"), rows[n].min)'
      BY <1>1, <3>1, <3>6 DEF RowExact, GreatestTo, LeastTo
    <3>12. Len(took[n])' > 0
      BY <1>1, <3>1 DEF RowExact
    <3>13. \A d \in Holders(n)' : d = c
      BY <3>3, <3>7
    <3> QED
      BY <3>8, <3>9, <3>10, <3>11, <3>12, <3>13 DEF RowExact
  <2> QED
    BY <1>1, <1>2, <2>4, <2>5 DEF EInv
<1> QED
  BY <1>3, <1>4

LEMMA WriteExact ==
    ASSUME TInv, EInv, NEW c \in CPUs,
           AddSum(c) \/ AddCount(c) \/ AddHist(c) \/ StoreMin(c) \/ StoreMax(c)
    PROVE  EInv'
<1>0. PICK n, v : n = cpu[c].row /\ v = cpu[c].sample
  OBVIOUS
<1>1. PICK s \in StepNames :
          /\ At(c, s)
          /\ s = "min" => StoreMin(c)
          /\ s = "max" => StoreMax(c)
          /\ s = "sum" => AddSum(c)
          /\ s = "count" => AddCount(c)
          /\ s = "hist" => AddHist(c)
  <2>1. AddSum(c) => At(c, "sum")
    BY DEF AddSum
  <2>2. AddCount(c) => At(c, "count")
    BY DEF AddCount
  <2>3. AddHist(c) => At(c, "hist")
    BY DEF AddHist
  <2>4. StoreMin(c) => At(c, "min")
    BY DEF StoreMin
  <2>5. StoreMax(c) => At(c, "max")
    BY DEF StoreMax
  <2> QED
    BY <2>1, <2>2, <2>3, <2>4, <2>5 DEF StepNames
<1>2. /\ cpu[c] # Idle /\ n \in DOMAIN rows /\ c \in Holders(n)
      /\ Found(c) \in RowType /\ Found(c) = rows[n]
      /\ v \in Nat /\ Bucket(v) \in Buckets
      /\ cpu[c].row # 0 /\ cpu[c].step = Order[s]
  BY <1>0, <1>1, AtRun DEF At
<1>3. n \notin raced /\ Fits(n) => U32(v) = v /\ StoresRightly(c, n)
  <2> SUFFICES ASSUME n \notin raced, Fits(n) PROVE U32(v) = v /\ StoresRightly(c, n)
    OBVIOUS
  <2>1. RowExact(n)
    BY <1>2 DEF EInv
  <2>2. StoresRightly(c, n) /\ RunIsLast(c, n)
    BY <1>2, <2>1 DEF RowExact
  <2>3. v < W32
    BY <1>0, <1>2, <2>2, RowSamples DEF RunIsLast, Fits
  <2> QED
    BY <1>2, <2>2, <2>3, U32Type
<1>4. ASSUME NEW new \in RowType, Write(c, new),
             n \notin raced /\ Fits(n) =>
                 new.max = IF s = "max" /\ v > rows[n].max THEN v ELSE rows[n].max,
             n \notin raced /\ Fits(n) =>
                 new.min = IF s = "min" /\ (v < rows[n].min \/ rows[n].min = 0)
                           THEN v ELSE rows[n].min
      PROVE  EInv'
  <2>1. /\ rows'[n] = new
        /\ \A i \in 1 .. Len(rows) : i # n => rows'[i] = rows[i]
        /\ rows' \in Seq(RowType) /\ Len(rows') = Len(rows)
        /\ UNCHANGED <<table, took, raced>> /\ Advance(c)
    BY <1>0, <1>2, <1>4, RowWritten DEF Write
  <2>2. DOMAIN rows = 1 .. Len(rows) /\ DOMAIN rows' = DOMAIN rows
    BY <2>1, LenProperties DEF TInv, TypeOK
  <2> QED
    BY <1>0, <1>1, <1>4, <2>1, <2>2, StepExact
<1>5. CASE s \in {"sum", "count", "hist"}
  <2>1. \E new \in RowType : /\ Write(c, new)
                             /\ new.min = rows[n].min /\ new.max = rows[n].max
    <3>1. CASE s = "sum"
      BY <1>0, <1>1, <1>2, <3>1, NewFields DEF AddSum, RowType
    <3>2. CASE s = "count"
      BY <1>0, <1>1, <1>2, <3>2, NewFields DEF AddCount, RowType
    <3>3. CASE s = "hist"
      BY <1>0, <1>1, <1>2, <3>3, NewFields DEF AddHist, RowType
    <3> QED
      BY <1>5, <3>1, <3>2, <3>3
  <2> QED
    BY <1>4, <1>5, <2>1
<1>6. CASE s = "min"
  <2> DEFINE new == [Found(c) EXCEPT !.min = U32(cpu[c].sample)]
  <2>1. /\ Write(c, new) /\ new \in RowType
        /\ new.min = U32(v) /\ new.max = rows[n].max
    BY <1>0, <1>1, <1>2, <1>6, NewFields DEF StoreMin, RowType
  <2>2. StoresRightly(c, n) => v < rows[n].min \/ rows[n].min = 0
    BY <1>0, <1>1, <1>2, <1>6 DEF StoresRightly, StoreMin
  <2> HIDE DEF new
  <2> QED
    BY <1>3, <1>4, <1>6, <2>1, <2>2
<1>7. CASE s = "max"
  <2> DEFINE new == [Found(c) EXCEPT !.max = U32(cpu[c].sample)]
  <2>1. /\ Write(c, new) /\ new \in RowType
        /\ new.max = U32(v) /\ new.min = rows[n].min
    BY <1>0, <1>1, <1>2, <1>7, NewFields DEF StoreMax, RowType
  <2>2. StoresRightly(c, n) => v > rows[n].max
    BY <1>0, <1>1, <1>2, <1>7 DEF StoresRightly, StoreMax
  <2> HIDE DEF new
  <2> QED
    BY <1>3, <1>4, <1>7, <2>1, <2>2
<1> QED
  BY <1>5, <1>6, <1>7 DEF StepNames

LEMMA NextExact == TInv /\ EInv /\ [Next]_vars => EInv'
<1> SUFFICES ASSUME TInv, EInv, [Next]_vars PROVE EInv'
  OBVIOUS
<1>1. ASSUME NEW c \in CPUs, NEW v \in Samples, Lookup(c, v) PROVE EInv'
  BY <1>1, LookupExact
<1>2. ASSUME NEW c \in CPUs, Insert(c) PROVE EInv'
  BY <1>2, InsertExact
<1>3. ASSUME NEW c \in CPUs, TestMin(c) PROVE EInv'
  <2> DEFINE smaller == cpu[c].sample < Found(c).min \/ Found(c).min = 0
  <2>1. Test(c, "min", smaller) /\ smaller \in BOOLEAN
    BY <1>3 DEF TestMin
  <2> QED
    BY <2>1, TestExact
<1>4. ASSUME NEW c \in CPUs, TestMax(c) PROVE EInv'
  <2> DEFINE smaller == cpu[c].sample > Found(c).max
  <2>1. Test(c, "max", smaller) /\ smaller \in BOOLEAN
    BY <1>4 DEF TestMax
  <2> QED
    BY <2>1, TestExact
<1>5. CASE \/ CopyBegins \/ CopyEnds \/ UNCHANGED vars
           \/ \E f \in Fields : CopyField(f)
           \/ \E w \in Pairs : CopyPair(w)
  <2>1. UNCHANGED <<table, rows, cpu, took, raced>>
    BY <1>5 DEF CopyBegins, CopyEnds, CopyField, CopyPair, Copying, vars
  <2>2. \A i : Holders(i)' = Holders(i)
    BY <2>1 DEF Holders
  <2> QED
    BY <2>1, <2>2, RowUntouched DEF EInv
<1> QED
  BY <1>1, <1>2, <1>3, <1>4, <1>5, WriteExact DEF Next

LEMMA MaxIs ==
    ASSUME NEW S \in SUBSET Nat, NEW x \in S, \A y \in S : y <= x
    PROVE  Max(S) = x
<1>1. \A z \in S : (\A y \in S : z >= y) => z = x
  OBVIOUS
<1>2. \A y \in S : x >= y
  OBVIOUS
<1> QED
  BY <1>1, <1>2 DEF Max

LEMMA MinIs ==
    ASSUME NEW S \in SUBSET Nat, NEW x \in S, \A y \in S : x <= y
    PROVE  Min(S) = x
<1>1. \A z \in S : (\A y \in S : z <= y) => z = x
  OBVIOUS
<1> QED
  BY <1>1 DEF Min

LEMMA TailOf ==
    ASSUME NEW s \in Seq(Nat), NEW n \in Nat, n = Len(s), NEW z \in 0 .. n
    PROVE  /\ SubSeq(s, z + 1, n) \in Seq(Nat)
           /\ Len(SubSeq(s, z + 1, n)) = n - z
           /\ DOMAIN SubSeq(s, z + 1, n) = 1 .. n - z
           /\ \A k \in 1 .. n - z : SubSeq(s, z + 1, n)[k] = s[z + k]
<1>0. PICK m \in Int : m = z + 1
  OBVIOUS
<1>1. PICK t : m = z + 1 /\ t = SubSeq(s, m, n)
  BY <1>0, Zenon
<1>2. \A k \in m .. n : s[k] \in Nat
  BY <1>1, ElementOfSeq
<1>3. /\ t \in Seq(Nat)
      /\ Len(t) = IF m <= n THEN n - m + 1 ELSE 0
      /\ \A k \in 1 .. n - m + 1 : t[k] = s[m + k - 1]
  BY <1>1, <1>2, SubSeqProperties
<1>4. n - m + 1 = n - z /\ (m <= n \/ n - z = 0)
  BY <1>1
<1>5. Len(t) = n - z
  BY <1>3, <1>4
<1>6. \A k \in 1 .. n - z : m + k - 1 = z + k
  BY <1>1
<1>7. \A k \in 1 .. n - z : t[k] = s[z + k]
  BY <1>3, <1>4, <1>6
<1>8. DOMAIN t = 1 .. n - z
  BY <1>3, <1>5, LenProperties
<1> QED
  BY <1>1, <1>3, <1>5, <1>7, <1>8

LastZero(s) == Max({0} \cup {k \in DOMAIN s : s[k] = 0})

\* x is the least of the samples of s after the z-th, or 0 if there is none.
LeastAfter(s, z, n, x) ==
    /\ z \in 0 .. n
    /\ \A k \in z + 1 .. n : s[k] # 0 /\ x <= s[k]
    /\ IF z = n THEN x = 0 ELSE \E k \in z + 1 .. n : s[k] = x

\* LeastTo in terms of the last 0, and then of the samples after it.
LEMMA LastZeroIs ==
    ASSUME NEW s \in Seq(Nat), NEW n \in Nat, n = Len(s), NEW x, LeastTo(s, n, x),
           NEW z, z = LastZero(s)
    PROVE  LeastAfter(s, z, n, x)
<1>1. DOMAIN s = 1 .. n
  BY LenProperties
<1>2. PICK y \in 0 .. n :
          /\ y > 0 => s[y] = 0
          /\ \A k \in y + 1 .. n : s[k] # 0 /\ x <= s[k]
          /\ IF y = n THEN x = 0 ELSE \E k \in y + 1 .. n : s[k] = x
  BY DEF LeastTo
<1> DEFINE S == {0} \cup {k \in DOMAIN s : s[k] = 0}
<1>3. S \in SUBSET Nat /\ y \in S
  BY <1>1, <1>2
<1>4. \A k \in S : k <= y
  BY <1>1, <1>2
<1> HIDE DEF S
<1>5. Max(S) = y
  BY <1>3, <1>4, MaxIs
<1>6. y = z
  BY <1>5 DEF S, LastZero
<1> QED
  BY <1>2, <1>6 DEF LeastAfter

LEMMA Shifted ==
    ASSUME NEW n \in Nat, NEW z \in 0 .. n
    PROVE  /\ \A j \in 1 .. n - z : z + j \in z + 1 .. n
           /\ \A k \in z + 1 .. n : k - z \in 1 .. n - z /\ z + (k - z) = k
OBVIOUS

LEMMA LeastSince ==
    ASSUME NEW s \in Seq(Nat), NEW n \in Nat, n = Len(s), NEW x, LeastTo(s, n, x),
           NEW z, z = LastZero(s),
           NEW since \in Seq(Nat), Len(since) = n - z, DOMAIN since = 1 .. n - z,
           \A k \in 1 .. n - z : since[k] = s[z + k]
    PROVE  x = IF since = <<>> THEN 0 ELSE Least(since)
<1>1. /\ z \in 0 .. n
      /\ \A k \in z + 1 .. n : s[k] # 0 /\ x <= s[k]
      /\ IF z = n THEN x = 0 ELSE \E k \in z + 1 .. n : s[k] = x
  <2>1. LeastAfter(s, z, n, x)
    BY LastZeroIs
  <2> QED
    BY <2>1 DEF LeastAfter
<1>2. CASE z = n
  <2>1. since = <<>>
    BY <1>2, EmptySeq
  <2> QED
    BY <1>1, <1>2, <2>1
<1>3. CASE z # n
  <2>1. since # <<>>
    BY <1>1, <1>3, EmptySeq
  <2>2. ToSet(since) \in SUBSET Nat
    <3>1. \A j \in DOMAIN since : since[j] \in Nat
      BY ElementOfSeq
    <3> QED
      BY <3>1 DEF ToSet
  <2>3. PICK k \in z + 1 .. n : s[k] = x
    BY <1>1, <1>3
  <2>4. k - z \in 1 .. n - z /\ since[k - z] = x
    <3>1. k - z \in 1 .. n - z /\ z + (k - z) = k
      BY <1>1, Shifted
    <3> QED
      BY <2>3, <3>1
  <2>5. x \in ToSet(since)
    BY <2>4 DEF ToSet
  <2>6. \A y \in ToSet(since) : x <= y
    <3>0. z \in 0 .. n
      BY <1>1
    <3>1. \A j \in 1 .. n - z : z + j \in z + 1 .. n
      BY <3>0, Shifted
    <3>2. \A j \in DOMAIN since : x <= since[j]
      BY <1>1, <3>1
    <3> QED
      BY <3>2 DEF ToSet
  <2>7. Least(since) = x
    BY <2>2, <2>5, <2>6, MinIs DEF Least
  <2> QED
    BY <2>1, <2>7
<1> QED
  BY <1>2, <1>3

\* On a row where runs did not overlap the maximum is the greatest sample and
\* the minimum the least since the last sample of 0.
THEOREM Exact == Spec => []ExtremesExact
<1>1. Init => EInv
  BY EmptySeq DEF Init, EInv
<1>2. TInv /\ EInv /\ [Next]_vars => EInv'
  BY NextExact
<1>3. ASSUME TInv, EInv, NEW i \in DOMAIN rows \ raced,
             Holders(i) = {}, ToSet(took[i]) \subseteq 0 .. W32 - 1
      PROVE  LET zero == Max({0} \cup {k \in DOMAIN took[i] : took[i][k] = 0})
                 since == SubSeq(took[i], zero + 1, Len(took[i]))
             IN /\ rows[i].max = Greatest(took[i])
                /\ rows[i].min = IF since = <<>> THEN 0 ELSE Least(since)
  <2>1. PICK n \in Nat : /\ n = Len(took[i]) /\ DOMAIN took[i] = 1 .. n
                         /\ \A k \in 1 .. n : took[i][k] \in Nat
    BY <1>3, RowSamples
  <2>2. took[i] \in Seq(Nat)
    <3>1. took[i] \in Seq(Samples)
      BY <1>3, RowFields
    <3> QED
      BY <3>1, SamplesAre, SeqMonotonic
  <2>3. RowExact(i) /\ Fits(i)
    BY <1>3, <2>1, W32Is DEF EInv, Fits, ToSet
  <2>4. GreatestTo(took[i], n, rows[i].max) /\ LeastTo(took[i], n, rows[i].min)
    BY <1>3, <2>1, <2>3 DEF RowExact, Done, Before
  <2>5. rows[i].max = Greatest(took[i])
    <3>1. ToSet(took[i]) \in SUBSET Nat
      BY <2>1 DEF ToSet
    <3>2. rows[i].max \in ToSet(took[i]) /\ \A y \in ToSet(took[i]) : y <= rows[i].max
      BY <2>1, <2>4 DEF GreatestTo, ToSet
    <3> QED
      BY <3>1, <3>2, MaxIs DEF Greatest
  <2>6. PICK zero : zero = LastZero(took[i])
    OBVIOUS
  <2>7. zero \in 0 .. n
    BY <2>1, <2>2, <2>4, <2>6, LastZeroIs DEF LeastAfter
  <2>8. LET since == SubSeq(took[i], zero + 1, n)
        IN rows[i].min = IF since = <<>> THEN 0 ELSE Least(since)
    <3> DEFINE since == SubSeq(took[i], zero + 1, n)
    <3>1. /\ since \in Seq(Nat)
          /\ Len(since) = n - zero
          /\ DOMAIN since = 1 .. n - zero
          /\ \A k \in 1 .. n - zero : since[k] = took[i][zero + k]
      BY <2>1, <2>2, <2>7, TailOf, Zenon
    <3> HIDE DEF since
    <3>2. rows[i].min = IF since = <<>> THEN 0 ELSE Least(since)
      BY <2>1, <2>2, <2>4, <2>6, <3>1, LeastSince
    <3> QED
      BY <3>2, Zenon DEF since
  <2> QED
    BY <2>1, <2>5, <2>6, <2>8, Zenon DEF LastZero
<1>4. TInv /\ EInv => ExtremesExact
  BY <1>3, Zenon DEF ExtremesExact
<1> QED
  BY <1>1, <1>2, <1>4, Typed, PTL DEF Spec
=============================================================================
