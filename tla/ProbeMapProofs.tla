--------------------------- MODULE ProbeMapProofs ---------------------------
(***************************************************************************)
(* Proofs about ProbeMap for every number of CPUs and connections, every   *)
(* capacity and every counter width.                                       *)
(***************************************************************************)
EXTENDS ProbeMap, NumberTheorems, FiniteSetTheorems, TLAPS

-----------------------------------------------------------------------------
(* Lemmas about the operators. *)

\* Unsigned arithmetic stays in range; subtracting and adding again gives
\* the minuend back; a sum is never more than the exact one.
LEMMA CounterArithmetic ==
    ASSUME NEW a \in Counter, NEW b \in Counter
    PROVE  /\ Plus(a, b) \in Counter
           /\ Minus(a, b) \in Counter
           /\ Plus(b, Minus(a, b)) = a
           /\ Plus(a, b) <= a + b
           /\ Plus(0, a) = a
BY WrapNat DEF Plus, Minus, Counter

\* Put keeps a reading a reading.
LEMMA PutReading ==
    ASSUME NEW f, IsReading(f), NEW k \in Keys, NEW v \in Counters
    PROVE  IsReading(Put(f, k, v))
<1>1. DOMAIN Put(f, k, v) \subseteq Keys
  BY DEF IsReading, Put
<1>2. ASSUME NEW x \in DOMAIN Put(f, k, v) PROVE Put(f, k, v)[x] \in Counters
  <2>1. CASE x = k
    BY <2>1 DEF Put
  <2>2. CASE x # k
    BY <2>2 DEF Put, IsReading
  <2> QED
    BY <2>1, <2>2
<1> QED
  BY <1>1, <1>2 DEF IsReading

LEMMA EmptyReading == IsReading(Empty) /\ DOMAIN Empty = {}
BY DEF IsReading, Empty

LEMMA ZeroCounters == Zero \in Counters /\ \A d \in Dirs : Zero[d] = 0
BY WrapNat DEF Zero, Counters, Counter

\* A run in progress.
LEMMA BusyFields ==
    ASSUME TypeOK, NEW c \in CPUs, cpu[c].pc \in {"hit", "miss"}
    PROVE  /\ cpu[c] \in Busy
           /\ cpu[c].key \in Keys
           /\ cpu[c].dir \in Dirs
           /\ cpu[c].size \in Counter
           /\ cpu[c].size \in Sizes
           /\ cpu[c].gen \in Nat
<1>1. cpu[c] \in Busy
  <2>1. Idle.pc = "idle"
    BY DEF Idle
  <2> QED
    BY <2>1 DEF TypeOK
<1> QED
  BY <1>1, SizesFit DEF Busy, Counter

\* What Watch reports is in range.
LEMMA DeltaType ==
    ASSUME TypeOK, NEW k \in DOMAIN cur
    PROVE  Delta(k) \in Counters
<1>1. cur[k] \in Counters
  BY DEF TypeOK, IsReading
<1>2. CASE k \in DOMAIN prev
  <2>1. prev[k] \in Counters
    BY <1>2 DEF TypeOK, IsReading
  <2>2. \A d \in Dirs : Minus(cur[k][d], prev[k][d]) \in Counter
    BY <1>1, <2>1, CounterArithmetic DEF Counters
  <2> QED
    BY <1>2, <2>2 DEF Delta, Counters
<1>3. CASE k \notin DOMAIN prev
  BY <1>1, <1>3 DEF Delta
<1> QED
  BY <1>2, <1>3

-----------------------------------------------------------------------------
(* Type correctness. *)

LEMMA InitType == Init => TypeOK
<1> SUFFICES ASSUME Init PROVE TypeOK
  OBVIOUS
<1>1. IsReading(cur) /\ IsReading(prev) /\ IsReading(flows) /\ IsReading(peak)
  BY EmptyReading DEF Init
<1>2. seen \in [Keys -> [Dirs -> Nat]] /\ shown \in [Keys -> Counters]
  BY ZeroCounters DEF Init, Zero
<1>3. DOMAIN map = {} /\ cpu \in [CPUs -> {Idle} \cup Busy]
  BY DEF Init
<1>4. watching \in BOOLEAN /\ DOMAIN due \subseteq Keys /\ inserts \in [Keys -> Nat]
  BY DEF Init, NoneDue
<1>5. runs \in 0 .. MaxRuns /\ watches \in 0 .. MaxWatches
  BY RunBounds DEF Init
<1> QED
  BY <1>1, <1>2, <1>3, <1>4, <1>5 DEF TypeOK

\* The end of a run.
LEMMA FinishType ==
    ASSUME TypeOK, NEW c \in CPUs, cpu[c].pc \in {"hit", "miss"}, Finish(c)
    PROVE  /\ cpu' \in [CPUs -> {Idle} \cup Busy]
           /\ seen' \in [Keys -> [Dirs -> Nat]]
           /\ \A k \in Keys, d \in Dirs :
                /\ seen[k][d] \in Nat
                /\ seen'[k][d] = IF k = cpu[c].key /\ d = cpu[c].dir
                                 THEN seen[k][d] + cpu[c].size ELSE seen[k][d]
           /\ UNCHANGED <<runs, watching, due, cur, prev, flows, shown, watches, peak>>
<1>1. cpu[c].key \in Keys /\ cpu[c].dir \in Dirs /\ cpu[c].size \in Nat
  BY BusyFields, WrapNat DEF Counter
<1>2. seen' = [seen EXCEPT ![cpu[c].key][cpu[c].dir] = @ + cpu[c].size]
  BY DEF Finish
<1>3. seen' \in [Keys -> [Dirs -> Nat]]
  BY <1>1, <1>2 DEF TypeOK
<1>4. \A k \in Keys, d \in Dirs :
          /\ seen[k][d] \in Nat
          /\ seen'[k][d] = IF k = cpu[c].key /\ d = cpu[c].dir
                           THEN seen[k][d] + cpu[c].size ELSE seen[k][d]
  BY <1>1, <1>2 DEF TypeOK
<1>5. cpu' \in [CPUs -> {Idle} \cup Busy]
  BY DEF Finish, TypeOK
<1> QED
  BY <1>3, <1>4, <1>5 DEF Finish, watchVars

\* A run that found a row still has one: rows may be replaced, never
\* deleted.
HitsHaveRows ==
    \A c \in CPUs : cpu[c].pc = "hit" => cpu[c].key \in DOMAIN map

\* The effect of a finished run on the rows.
LEMMA FetchAndAddRow ==
    ASSUME TypeOK, HitsHaveRows, NEW c \in CPUs, FetchAndAdd(c)
    PROVE  /\ cpu[c].key \in DOMAIN map
           /\ DOMAIN map' = DOMAIN map
           /\ \A k \in DOMAIN map \ {cpu[c].key} : map'[k] = map[k]
           /\ map'[cpu[c].key].gen = map[cpu[c].key].gen
           /\ map'[cpu[c].key].n \in Counters
           /\ \A d \in Dirs : map'[cpu[c].key].n[d] =
                IF d = cpu[c].dir /\ map[cpu[c].key].gen = cpu[c].gen
                THEN Plus(map[cpu[c].key].n[d], cpu[c].size)
                ELSE map[cpu[c].key].n[d]
<1> DEFINE key == cpu[c].key
           gen == cpu[c].gen
           sum == [map[key].n EXCEPT ![cpu[c].dir] = Plus(@, cpu[c].size)]
<1>1. cpu[c].pc = "hit"
  BY DEF FetchAndAdd
<1>2. /\ key \in DOMAIN map
      /\ cpu[c].dir \in Dirs
      /\ cpu[c].size \in Counter
  BY <1>1, BusyFields DEF HitsHaveRows
<1>3. map[key].n \in [Dirs -> Counter]
  BY <1>2 DEF TypeOK, Counters
<1>4. map' = IF map[key].gen = gen THEN Put(map, key, Row(sum, gen)) ELSE map
  BY DEF FetchAndAdd
<1>5. \A d \in Dirs : sum[d] = IF d = cpu[c].dir THEN Plus(map[key].n[d], cpu[c].size)
                                               ELSE map[key].n[d]
  BY <1>2, <1>3
<1>6. Plus(map[key].n[cpu[c].dir], cpu[c].size) \in Counter
  BY <1>2, <1>3, CounterArithmetic
<1>7. sum \in Counters
  BY <1>2, <1>3, <1>6 DEF Counters
<1> HIDE DEF sum, key, gen
<1>8. Row(sum, gen).n = sum /\ Row(sum, gen).gen = gen
  BY DEF Row
<1>9. CASE map[key].gen = gen
  <2>1. /\ DOMAIN map' = DOMAIN map
        /\ map'[key] = Row(sum, gen)
        /\ \A k \in DOMAIN map \ {key} : map'[k] = map[k]
    BY <1>2, <1>4, <1>9 DEF Put
  <2> QED
    BY <1>2, <1>5, <1>7, <1>8, <1>9, <2>1 DEF key, gen
<1>10. CASE map[key].gen # gen
  BY <1>2, <1>3, <1>4, <1>10 DEF key, gen, Counters
<1> QED
  BY <1>9, <1>10

LEMMA MapUpdateRow ==
    ASSUME TypeOK, NEW c \in CPUs, MapUpdate(c)
    PROVE  /\ DOMAIN map' = DOMAIN map \cup {cpu[c].key}
           /\ \A k \in DOMAIN map \ {cpu[c].key} : map'[k] = map[k]
           /\ map'[cpu[c].key].gen = inserts[cpu[c].key] + 1
           /\ map'[cpu[c].key].n \in Counters
           /\ \A d \in Dirs : map'[cpu[c].key].n[d] =
                IF d = cpu[c].dir THEN cpu[c].size ELSE 0
<1> DEFINE key == cpu[c].key
           new == [Zero EXCEPT ![cpu[c].dir] = cpu[c].size]
<1>1. cpu[c].pc = "miss"
  BY DEF MapUpdate
<1>2. key \in Keys /\ cpu[c].dir \in Dirs /\ cpu[c].size \in Counter
  BY <1>1, BusyFields
<1>3. map' = Put(map, key, Row(new, inserts[key] + 1))
  BY DEF MapUpdate
<1>4. /\ new \in Counters
      /\ \A d \in Dirs : new[d] = IF d = cpu[c].dir THEN cpu[c].size ELSE 0
  BY <1>2, ZeroCounters DEF Counters
<1> HIDE DEF new, key
<1>5. Row(new, inserts[key] + 1).n = new
  BY DEF Row
<1>6. Row(new, inserts[key] + 1).gen = inserts[key] + 1
  BY DEF Row
<1> QED
  BY <1>3, <1>4, <1>5, <1>6 DEF key, Put

LEMMA NextType ==
    TypeOK /\ HitsHaveRows /\ [Next]_vars => TypeOK' /\ HitsHaveRows'
<1> SUFFICES ASSUME TypeOK, HitsHaveRows, [Next]_vars PROVE TypeOK' /\ HitsHaveRows'
  OBVIOUS
<1>0. Idle.pc = "idle"
  BY DEF Idle
<1>1. ASSUME NEW c \in CPUs, NEW k \in Keys, NEW d \in Dirs, NEW size \in Sizes,
             Lookup(c, k, d, size)
      PROVE  TypeOK' /\ HitsHaveRows'
  <2>1. runs' \in 0 .. MaxRuns
    BY <1>1, RunBounds DEF Lookup, TypeOK
  <2>2. PICK r : r = [pc |-> IF k \in DOMAIN map THEN "hit" ELSE "miss",
                      key |-> k, dir |-> d, size |-> size, gen |-> inserts[k]]
    OBVIOUS
  <2>3. r \in Busy /\ r.key = k /\ (r.pc = "hit" => k \in DOMAIN map)
    BY <2>2 DEF Busy, TypeOK
  <2>4. cpu' = [cpu EXCEPT ![c] = r] /\ map' = map
    BY <1>1, <2>2 DEF Lookup
  <2>5. cpu' \in [CPUs -> {Idle} \cup Busy]
    BY <2>3, <2>4 DEF TypeOK
  <2>6. HitsHaveRows'
    BY <2>3, <2>4 DEF HitsHaveRows, TypeOK
  <2> QED
    BY <1>1, <2>1, <2>5, <2>6 DEF Lookup, TypeOK, watchVars
<1>2. ASSUME NEW c \in CPUs, FetchAndAdd(c) PROVE TypeOK' /\ HitsHaveRows'
  <2>1. cpu[c].pc = "hit" /\ Finish(c) /\ inserts' = inserts
    BY <1>2 DEF FetchAndAdd
  <2>2. \A k \in DOMAIN map' : map'[k].n \in Counters /\ map'[k].gen \in Nat
    BY <1>2, FetchAndAddRow DEF TypeOK
  <2>3. DOMAIN map' \subseteq Keys
    BY <1>2, FetchAndAddRow DEF TypeOK
  <2>4. HitsHaveRows'
    BY <1>0, <1>2, <2>1, FetchAndAddRow DEF HitsHaveRows, Finish, TypeOK
  <2> QED
    BY <2>1, <2>2, <2>3, <2>4, FinishType DEF TypeOK
<1>3. ASSUME NEW c \in CPUs, MapUpdate(c) PROVE TypeOK' /\ HitsHaveRows'
  <2>1. /\ cpu[c].pc = "miss" /\ Finish(c)
        /\ inserts' = [inserts EXCEPT ![cpu[c].key] = @ + 1]
    BY <1>3 DEF MapUpdate
  <2>2. cpu[c].key \in Keys
    BY <2>1, BusyFields
  <2>3. inserts' \in [Keys -> Nat] /\ inserts[cpu[c].key] + 1 \in Nat
    BY <2>1, <2>2 DEF TypeOK
  <2>a. /\ DOMAIN map' = DOMAIN map \cup {cpu[c].key}
        /\ \A k \in DOMAIN map \ {cpu[c].key} : map'[k] = map[k]
        /\ map'[cpu[c].key].gen = inserts[cpu[c].key] + 1
        /\ map'[cpu[c].key].n \in Counters
    BY <1>3, MapUpdateRow
  <2>4. ASSUME NEW k \in DOMAIN map' PROVE map'[k].n \in Counters /\ map'[k].gen \in Nat
    <3>1. CASE k = cpu[c].key
      BY <2>3, <2>a, <3>1
    <3>2. CASE k # cpu[c].key
      BY <2>a, <3>2 DEF TypeOK
    <3> QED
      BY <3>1, <3>2
  <2>5. DOMAIN map' \subseteq Keys
    BY <2>2, <2>a DEF TypeOK
  <2>6. HitsHaveRows'
    BY <1>0, <1>3, <2>1, MapUpdateRow DEF HitsHaveRows, Finish, TypeOK
  <2> QED
    BY <2>1, <2>3, <2>4, <2>5, <2>6, FinishType DEF TypeOK
<1>4. ASSUME NEW c \in CPUs, MapFull(c) PROVE TypeOK' /\ HitsHaveRows'
  <2>1. cpu[c].pc = "miss" /\ Finish(c) /\ UNCHANGED <<map, inserts>>
    BY <1>4 DEF MapFull
  <2>2. HitsHaveRows'
    BY <1>0, <2>1 DEF HitsHaveRows, Finish, TypeOK
  <2> QED
    BY <2>1, <2>2, FinishType DEF TypeOK
<1>5. ASSUME UNCHANGED probeVars,
             watching' \in BOOLEAN, DOMAIN due' \subseteq Keys, watches' \in 0 .. MaxWatches,
             IsReading(cur'), IsReading(prev'), IsReading(flows'), IsReading(peak'),
             shown' \in [Keys -> Counters]
      PROVE  TypeOK' /\ HitsHaveRows'
  BY <1>5 DEF TypeOK, HitsHaveRows, probeVars, IsReading
<1>6. CASE WatchBegins
  <2>1. watches' \in 0 .. MaxWatches
    BY <1>6, RunBounds DEF WatchBegins, TypeOK
  <2>2. watching' \in BOOLEAN /\ DOMAIN due' \subseteq Keys
    BY <1>6 DEF WatchBegins, TypeOK
  <2> QED
    BY <1>5, <1>6, <2>1, <2>2, EmptyReading DEF WatchBegins, TypeOK
<1>7. ASSUME NEW k \in Keys, WatchReads(k) PROVE TypeOK' /\ HitsHaveRows'
  <2>1. IsReading(cur')
    BY <1>7, PutReading DEF WatchReads, TypeOK
  <2> QED
    BY <1>5, <1>7, <2>1 DEF WatchReads, TypeOK
<1>8. CASE WatchEnds
  <2>1. IsReading(flows')
    <3>1. \A k \in DOMAIN cur : Delta(k) \in Counters /\ k \in Keys
      BY DeltaType DEF TypeOK, IsReading
    <3>2. DOMAIN flows' \subseteq DOMAIN cur /\ \A k \in DOMAIN flows' : flows'[k] = Delta(k)
      BY <1>8 DEF WatchEnds
    <3> QED
      BY <3>1, <3>2 DEF IsReading
  <2>2. shown' \in [Keys -> Counters]
    <3>1. ASSUME NEW k \in DOMAIN cur, k \in Keys
          PROVE  [d \in Dirs |-> Plus(shown[k][d], Delta(k)[d])] \in Counters
      <4>1. Delta(k) \in Counters /\ shown[k] \in Counters
        BY <3>1, DeltaType DEF TypeOK
      <4> QED
        BY <4>1, CounterArithmetic DEF Counters
    <3> QED
      BY <1>8, <3>1, ZeroCounters DEF WatchEnds, TypeOK
  <2>3. watching' \in BOOLEAN /\ DOMAIN due' \subseteq Keys
    BY <1>8 DEF WatchEnds, NoneDue
  <2> QED
    BY <1>5, <1>8, <2>1, <2>2, <2>3, EmptyReading DEF WatchEnds, TypeOK
<1>9. CASE WatchFails
  <2>1. watching' \in BOOLEAN /\ DOMAIN due' \subseteq Keys
    BY <1>9 DEF WatchFails, NoneDue
  <2> QED
    BY <1>5, <1>9, <2>1, EmptyReading DEF WatchFails, TypeOK
<1>10. ASSUME NEW k \in Keys, SnapshotReads(k) PROVE TypeOK' /\ HitsHaveRows'
  <2>1. IsReading(peak')
    BY <1>10, PutReading DEF SnapshotReads, TypeOK
  <2> QED
    BY <1>5, <1>10, <2>1 DEF SnapshotReads, TypeOK, watchVars
<1>11. CASE UNCHANGED vars
  BY <1>5, <1>11 DEF vars, watchVars, TypeOK
<1> QED
  BY <1>1, <1>2, <1>3, <1>4, <1>6, <1>7, <1>8, <1>9, <1>10, <1>11
     DEF Next, TcpSendmsg, TcpCleanupRbuf, Dirs

LEMMA InitHits == Init => HitsHaveRows
BY DEF Init, HitsHaveRows, Idle

LEMMA Typed == Spec => [](TypeOK /\ HitsHaveRows)
BY InitType, InitHits, NextType, PTL DEF Spec

\* Every reachable state is well typed.
THEOREM TypeCorrect == Spec => []TypeOK
BY Typed, PTL

-----------------------------------------------------------------------------
(* Races lose bytes and never invent any. *)

\* A reading f that claims no more than s.
Below(f, s) == \A k \in DOMAIN f, d \in Dirs : f[k][d] <= s[k][d]

\* NeverOvercounts is inductive once the unfinished reading is included.
Bounded ==
    /\ NeverOvercounts
    /\ Below(cur, seen)

\* Both counts only grow when a run finishes.
LEMMA BelowGrows ==
    ASSUME NEW f, IsReading(f),
           NEW s \in [Keys -> [Dirs -> Nat]], NEW t \in [Keys -> [Dirs -> Nat]],
           Below(f, s),
           \A k \in Keys, d \in Dirs : s[k][d] <= t[k][d]
    PROVE  Below(f, t)
<1>1. ASSUME NEW k \in DOMAIN f, NEW d \in Dirs PROVE f[k][d] <= t[k][d]
  <2>1. k \in Keys /\ f[k][d] \in Int
    BY WrapNat DEF IsReading, Counters, Counter
  <2>2. f[k][d] <= s[k][d] /\ s[k][d] <= t[k][d]
    BY <2>1 DEF Below
  <2>3. s[k][d] \in Nat /\ t[k][d] \in Nat
    BY <2>1
  <2> QED
    BY <2>1, <2>2, <2>3
<1> QED
  BY <1>1 DEF Below

LEMMA PutBelow ==
    ASSUME NEW f, NEW s, NEW k, NEW v, Below(f, s),
           \A d \in Dirs : v[d] <= s[k][d]
    PROVE  Below(Put(f, k, v), s)
BY DEF Below, Put

\* A finished run keeps the readings below what was seen.
LEMMA FinishBounded ==
    ASSUME TypeOK, TypeOK', Bounded, NEW c \in CPUs, cpu[c].pc \in {"hit", "miss"}, Finish(c)
    PROVE  /\ \A k \in Keys, d \in Dirs : seen[k][d] \in Nat /\ seen'[k][d] \in Nat
                                          /\ seen[k][d] <= seen'[k][d]
           /\ seen'[cpu[c].key][cpu[c].dir] = seen[cpu[c].key][cpu[c].dir] + cpu[c].size
           /\ Below(cur', seen') /\ Below(prev', seen') /\ Below(peak', seen')
<1>1. cpu[c].key \in Keys /\ cpu[c].dir \in Dirs /\ cpu[c].size \in Nat
  BY BusyFields, WrapNat DEF Counter
<1>2. \A k \in Keys, d \in Dirs :
          /\ seen[k][d] \in Nat
          /\ seen'[k][d] = IF k = cpu[c].key /\ d = cpu[c].dir
                           THEN seen[k][d] + cpu[c].size ELSE seen[k][d]
  BY FinishType
<1>3. UNCHANGED <<cur, prev, peak>>
  BY FinishType
<1>4. \A k \in Keys, d \in Dirs : seen'[k][d] \in Nat /\ seen[k][d] <= seen'[k][d]
  BY <1>1, <1>2
<1>5. /\ seen \in [Keys -> [Dirs -> Nat]] /\ seen' \in [Keys -> [Dirs -> Nat]]
      /\ IsReading(cur) /\ IsReading(prev) /\ IsReading(peak)
  BY DEF TypeOK
<1>6. Below(cur, seen) /\ Below(prev, seen) /\ Below(peak, seen)
  BY DEF Bounded, NeverOvercounts, Below
<1>7. Below(cur, seen') /\ Below(prev, seen') /\ Below(peak, seen')
  BY <1>4, <1>5, <1>6, BelowGrows
<1> QED
  BY <1>1, <1>2, <1>3, <1>4, <1>7

LEMMA NextBounded ==
    TypeOK /\ HitsHaveRows /\ TypeOK' /\ Bounded /\ [Next]_vars => Bounded'
<1> SUFFICES ASSUME TypeOK, HitsHaveRows, TypeOK', Bounded, [Next]_vars PROVE Bounded'
  OBVIOUS
<1>1. ASSUME \A k \in DOMAIN map', d \in Dirs : map'[k].n[d] <= seen'[k][d],
             Below(cur', seen'), Below(prev', seen'), Below(peak', seen')
      PROVE  Bounded'
  BY <1>1 DEF Bounded, NeverOvercounts, Below
<1>2. /\ \A k \in DOMAIN map, d \in Dirs : map[k].n[d] <= seen[k][d]
      /\ Below(cur, seen) /\ Below(prev, seen) /\ Below(peak, seen)
  BY DEF Bounded, NeverOvercounts, Below
<1>3. \A k \in DOMAIN map, d \in Dirs :
          k \in Keys /\ map[k].n[d] \in Counter /\ map[k].n[d] \in Int
  BY WrapNat DEF TypeOK, Counters, Counter
<1>4. ASSUME NEW c \in CPUs, NEW k \in Keys, NEW d \in Dirs, NEW size \in Sizes,
             Lookup(c, k, d, size)
      PROVE  Bounded'
  BY <1>1, <1>2, <1>4 DEF Lookup, watchVars
<1>5. ASSUME NEW c \in CPUs, FetchAndAdd(c) PROVE Bounded'
  <2>1. cpu[c].pc = "hit" /\ Finish(c)
    BY <1>5 DEF FetchAndAdd
  <2>2. /\ cpu[c].key \in DOMAIN map
        /\ DOMAIN map' = DOMAIN map
        /\ \A k \in DOMAIN map \ {cpu[c].key} : map'[k] = map[k]
        /\ \A d \in Dirs : map'[cpu[c].key].n[d] =
                IF d = cpu[c].dir /\ map[cpu[c].key].gen = cpu[c].gen
                THEN Plus(map[cpu[c].key].n[d], cpu[c].size)
                ELSE map[cpu[c].key].n[d]
    BY <1>5, FetchAndAddRow
  <2>3. cpu[c].key \in Keys /\ cpu[c].dir \in Dirs /\ cpu[c].size \in Counter
    BY <2>1, BusyFields
  <2>4. ASSUME NEW k \in DOMAIN map', NEW d \in Dirs PROVE map'[k].n[d] <= seen'[k][d]
    <3>1. /\ k \in Keys /\ map[k].n[d] \in Counter /\ map[k].n[d] \in Int
          /\ map[k].n[d] <= seen[k][d]
      BY <1>2, <1>3, <2>2
    <3>2. seen[k][d] \in Nat /\ seen'[k][d] \in Nat /\ seen[k][d] <= seen'[k][d]
      BY <2>1, <3>1, FinishBounded
    <3>3. CASE k = cpu[c].key /\ d = cpu[c].dir /\ map[cpu[c].key].gen = cpu[c].gen
      <4>1. map'[k].n[d] = Plus(map[k].n[d], cpu[c].size)
        BY <2>2, <3>3
      <4>2. /\ Plus(map[k].n[d], cpu[c].size) \in Counter
            /\ Plus(map[k].n[d], cpu[c].size) <= map[k].n[d] + cpu[c].size
        BY <2>3, <3>1, CounterArithmetic
      <4>3. seen'[k][d] = seen[k][d] + cpu[c].size
        BY <2>1, <3>3, FinishBounded
      <4> QED
        BY <2>3, <3>1, <3>2, <4>1, <4>2, <4>3, WrapNat DEF Counter
    <3>4. CASE map'[k].n[d] = map[k].n[d]
      BY <3>1, <3>2, <3>4
    <3> QED
      BY <2>2, <3>3, <3>4
  <2> QED
    BY <1>1, <2>1, <2>4, FinishBounded
<1>6. ASSUME NEW c \in CPUs, MapUpdate(c) PROVE Bounded'
  <2>1. cpu[c].pc = "miss" /\ Finish(c)
    BY <1>6 DEF MapUpdate
  <2>2. /\ DOMAIN map' = DOMAIN map \cup {cpu[c].key}
        /\ \A k \in DOMAIN map \ {cpu[c].key} : map'[k] = map[k]
        /\ \A d \in Dirs : map'[cpu[c].key].n[d] = IF d = cpu[c].dir THEN cpu[c].size ELSE 0
    BY <1>6, MapUpdateRow
  <2>3. cpu[c].key \in Keys /\ cpu[c].dir \in Dirs /\ cpu[c].size \in Nat
    BY <2>1, BusyFields, WrapNat DEF Counter
  <2>4. ASSUME NEW k \in DOMAIN map', NEW d \in Dirs PROVE map'[k].n[d] <= seen'[k][d]
    <3>1. CASE k = cpu[c].key
      <4>1. seen[k][d] \in Nat /\ seen'[k][d] \in Nat
        BY <2>1, <2>3, <3>1, FinishBounded
      <4>2. d = cpu[c].dir => seen'[k][d] = seen[k][d] + cpu[c].size
        BY <2>1, <3>1, FinishBounded
      <4>3. map'[k].n[d] = IF d = cpu[c].dir THEN cpu[c].size ELSE 0
        BY <2>2, <3>1
      <4> QED
        BY <2>3, <4>1, <4>2, <4>3
    <3>2. CASE k # cpu[c].key
      <4>1. k \in DOMAIN map /\ map'[k] = map[k]
        BY <2>2, <3>2
      <4>2. k \in Keys /\ map[k].n[d] \in Int /\ map[k].n[d] <= seen[k][d]
        BY <1>2, <1>3, <4>1
      <4>3. seen[k][d] \in Nat /\ seen'[k][d] \in Nat /\ seen[k][d] <= seen'[k][d]
        BY <2>1, <4>2, FinishBounded
      <4> QED
        BY <4>1, <4>2, <4>3
    <3> QED
      BY <3>1, <3>2
  <2> QED
    BY <1>1, <2>1, <2>4, FinishBounded
<1>7. ASSUME NEW c \in CPUs, MapFull(c) PROVE Bounded'
  <2>1. cpu[c].pc = "miss" /\ Finish(c) /\ map' = map
    BY <1>7 DEF MapFull
  <2>2. ASSUME NEW k \in DOMAIN map, NEW d \in Dirs PROVE map[k].n[d] <= seen'[k][d]
    <3>1. k \in Keys /\ map[k].n[d] \in Int /\ map[k].n[d] <= seen[k][d]
      BY <1>2, <1>3
    <3>2. seen[k][d] \in Nat /\ seen'[k][d] \in Nat /\ seen[k][d] <= seen'[k][d]
      BY <2>1, <3>1, FinishBounded
    <3> QED
      BY <3>1, <3>2
  <2> QED
    BY <1>1, <2>1, <2>2, FinishBounded
<1>8. ASSUME NEW k \in Keys, WatchReads(k) PROVE Bounded'
  <2>1. /\ k \in DOMAIN map /\ cur' = Put(cur, k, map[k].n)
        /\ UNCHANGED <<map, seen, prev, peak>>
    BY <1>8 DEF WatchReads, probeVars
  <2>2. Below(cur', seen)
    BY <1>2, <2>1, PutBelow
  <2> QED
    BY <1>1, <1>2, <2>1, <2>2
<1>9. CASE WatchBegins \/ WatchEnds \/ WatchFails
  <2>1. Below(Empty, seen)
    BY DEF Below, Empty
  <2>2. /\ cur' = Empty /\ UNCHANGED <<map, seen, peak>>
        /\ prev' \in {prev, cur}
    BY <1>9 DEF WatchBegins, WatchEnds, WatchFails, probeVars
  <2>3. Below(prev', seen)
    BY <1>2, <2>2
  <2> QED
    BY <1>1, <1>2, <2>1, <2>2, <2>3
<1>10. ASSUME NEW k \in Keys, SnapshotReads(k) PROVE Bounded'
  <2>1. /\ k \in DOMAIN map /\ peak' = Put(peak, k, map[k].n)
        /\ UNCHANGED <<map, seen, cur, prev>>
    BY <1>10 DEF SnapshotReads, probeVars, watchVars
  <2>2. Below(peak', seen)
    BY <1>2, <2>1, PutBelow
  <2> QED
    BY <1>1, <1>2, <2>1, <2>2
<1>11. CASE UNCHANGED vars
  BY <1>1, <1>2, <1>11 DEF vars, probeVars, watchVars
<1> QED
  BY <1>4, <1>5, <1>6, <1>7, <1>8, <1>9, <1>10, <1>11
     DEF Next, TcpSendmsg, TcpCleanupRbuf, Dirs

\* No row and no tracker ever claims more bytes than the probes saw, on any
\* number of CPUs.
THEOREM NoOvercount == Spec => []NeverOvercounts
<1>1. Init => Bounded
  BY DEF Init, Bounded, NeverOvercounts, Below, Empty
<1>2. Spec => [](TypeOK /\ HitsHaveRows /\ Bounded)
  BY <1>1, InitType, InitHits, NextType, NextBounded, PTL DEF Spec
<1>3. Bounded => NeverOvercounts
  BY DEF Bounded
<1> QED
  BY <1>2, <1>3, PTL

-----------------------------------------------------------------------------
(* What Watch reported adds up. *)

\* A key that the last reading did not meet has no share in the sum.
Telescope ==
    /\ WatchTelescopes
    /\ \A k \in Keys \ DOMAIN prev : shown[k] = Zero

LEMMA NextTelescope ==
    TypeOK /\ Telescope /\ [Next]_vars => Telescope'
<1> SUFFICES ASSUME TypeOK, Telescope, [Next]_vars PROVE Telescope'
  OBVIOUS
<1>1. ASSUME UNCHANGED <<prev, shown>> PROVE Telescope'
  BY <1>1 DEF Telescope, WatchTelescopes
<1>2. ASSUME NEW c \in CPUs, NEW k \in Keys, NEW d \in Dirs, NEW size \in Sizes,
             Lookup(c, k, d, size)
      PROVE  Telescope'
  BY <1>1, <1>2 DEF Lookup, watchVars
<1>3. ASSUME NEW c \in CPUs, FetchAndAdd(c) \/ MapUpdate(c) \/ MapFull(c) PROVE Telescope'
  BY <1>1, <1>3 DEF FetchAndAdd, MapUpdate, MapFull, Finish, watchVars
<1>4. CASE WatchBegins \/ WatchFails
  BY <1>1, <1>4 DEF WatchBegins, WatchFails
<1>5. ASSUME NEW k \in Keys, WatchReads(k) PROVE Telescope'
  BY <1>1, <1>5 DEF WatchReads
<1>6. CASE WatchEnds
  <2>1. /\ prev' = cur
        /\ shown' = [k \in Keys |-> IF k \in DOMAIN cur
                                THEN [d \in Dirs |-> Plus(shown[k][d], Delta(k)[d])]
                                ELSE Zero]
    BY <1>6 DEF WatchEnds
  <2>2. DOMAIN cur \subseteq Keys
    BY DEF TypeOK, IsReading
  <2>3. ASSUME NEW k \in DOMAIN cur PROVE shown'[k] = cur[k]
    <3>1. /\ k \in Keys /\ cur[k] \in [Dirs -> Counter]
          /\ shown'[k] = [d \in Dirs |-> Plus(shown[k][d], Delta(k)[d])]
      BY <2>1, <2>2 DEF TypeOK, IsReading, Counters
    <3>2. ASSUME NEW d \in Dirs PROVE Plus(shown[k][d], Delta(k)[d]) = cur[k][d]
      <4>1. cur[k][d] \in Counter
        BY <3>1
      <4>2. CASE k \in DOMAIN prev
        <5>1. shown[k] = prev[k] /\ prev[k][d] \in Counter
          BY <4>2 DEF Telescope, WatchTelescopes, TypeOK, IsReading, Counters
        <5>2. Delta(k)[d] = Minus(cur[k][d], prev[k][d])
          BY <4>2 DEF Delta
        <5> QED
          BY <4>1, <5>1, <5>2, CounterArithmetic
      <4>3. CASE k \notin DOMAIN prev
        <5>1. shown[k][d] = 0
          BY <3>1, <4>3, ZeroCounters DEF Telescope
        <5>2. Delta(k)[d] = cur[k][d]
          BY <4>3 DEF Delta
        <5> QED
          BY <4>1, <5>1, <5>2, CounterArithmetic
      <4> QED
        BY <4>2, <4>3
    <3> QED
      BY <3>1, <3>2
  <2>4. \A k \in Keys \ DOMAIN cur : shown'[k] = Zero
    BY <2>1, <2>2
  <2> QED
    BY <2>1, <2>3, <2>4 DEF Telescope, WatchTelescopes
<1>7. ASSUME NEW k \in Keys, SnapshotReads(k) PROVE Telescope'
  BY <1>1, <1>7 DEF SnapshotReads, watchVars
<1>8. CASE UNCHANGED vars
  BY <1>1, <1>8 DEF vars, watchVars
<1> QED
  BY <1>2, <1>3, <1>4, <1>5, <1>6, <1>7, <1>8
     DEF Next, TcpSendmsg, TcpCleanupRbuf, Dirs

\* All that Watch reported for a key adds up, in unsigned arithmetic, to the
\* counter it read last.
THEOREM Telescoping == Spec => []WatchTelescopes
<1>1. Init => Telescope
  BY DEF Init, Telescope, WatchTelescopes, Empty
<1>2. Spec => [](TypeOK /\ HitsHaveRows /\ Telescope)
  BY <1>1, InitType, InitHits, NextType, NextTelescope, PTL DEF Spec
<1>3. Telescope => WatchTelescopes
  BY DEF Telescope
<1> QED
  BY <1>2, <1>3, PTL

-----------------------------------------------------------------------------
(* The map implements the total Telemetry works with. *)

LEMMA CellsFinite == IsFiniteSet(Cells)
<1>1. IsFiniteSet(Dirs)
  <2>1. Dirs = ({} \cup {"tx"}) \cup {"rx"}
    BY DEF Dirs
  <2> QED
    BY <2>1, FS_EmptySet, FS_AddElement
<1> QED
  BY <1>1, KeysFinite, FS_Product DEF Cells

\* A row is inserted with the bytes of a run: while nothing overflows and no
\* run counts nothing, none is ever empty.
RowsInUse ==
    0 \notin Sizes =>
        \A k \in DOMAIN map :
            (\A d \in Dirs : seen[k][d] < Wrap) => \E d \in Dirs : map[k].n[d] > 0

\* An add to a counter that has not overflowed does not lower it.
LEMMA AddKeeps ==
    ASSUME TypeOK, TypeOK', HitsHaveRows, Bounded, NEW c \in CPUs, FetchAndAdd(c),
           NEW k \in DOMAIN map, NEW d \in Dirs, seen'[k][d] < Wrap
    PROVE  /\ map[k].n[d] \in Nat /\ map'[k].n[d] \in Nat
           /\ map[k].n[d] <= map'[k].n[d]
           /\ seen[k][d] < Wrap
<1>1. cpu[c].pc = "hit" /\ Finish(c)
  BY DEF FetchAndAdd
<1>2. cpu[c].key \in Keys /\ cpu[c].dir \in Dirs /\ cpu[c].size \in Nat
  BY <1>1, BusyFields, WrapNat DEF Counter
<1>3. k \in Keys /\ k \in DOMAIN map' /\ map[k].n[d] \in Nat /\ map'[k].n[d] \in Nat
  BY FetchAndAddRow, WrapNat DEF TypeOK, Counters, Counter
<1>4. /\ seen[k][d] \in Nat /\ seen'[k][d] \in Nat
      /\ seen[k][d] <= seen'[k][d]
      /\ k = cpu[c].key /\ d = cpu[c].dir => seen'[k][d] = seen[k][d] + cpu[c].size
  BY <1>1, <1>3, FinishBounded
<1>5. map[k].n[d] <= seen[k][d]
  BY DEF Bounded, NeverOvercounts
<1>6. CASE map'[k].n[d] = map[k].n[d]
  BY <1>3, <1>4, <1>6, WrapNat
<1>7. CASE k = cpu[c].key /\ d = cpu[c].dir /\ map'[k].n[d] = Plus(map[k].n[d], cpu[c].size)
  <2>1. map[k].n[d] + cpu[c].size < Wrap
    BY <1>2, <1>3, <1>4, <1>5, <1>7, WrapNat
  <2>2. map'[k].n[d] = map[k].n[d] + cpu[c].size
    BY <1>7, <2>1 DEF Plus
  <2> QED
    BY <1>2, <1>3, <1>4, <2>2, WrapNat
<1>8. map'[k].n[d] \in {map[k].n[d], Plus(map[k].n[d], cpu[c].size)}
  BY FetchAndAddRow
<1>9. k # cpu[c].key \/ d # cpu[c].dir => map'[k].n[d] = map[k].n[d]
  BY FetchAndAddRow
<1> QED
  BY <1>6, <1>7, <1>8, <1>9

LEMMA NextInUse ==
    TypeOK /\ TypeOK' /\ HitsHaveRows /\ Bounded /\ RowsInUse /\ [Next]_vars => RowsInUse'
<1> SUFFICES ASSUME TypeOK, TypeOK', HitsHaveRows, Bounded, RowsInUse, [Next]_vars,
                    0 \notin Sizes, NEW k \in DOMAIN map',
                    \A d \in Dirs : seen'[k][d] < Wrap
             PROVE  \E d \in Dirs : map'[k].n[d] > 0
  BY DEF RowsInUse
<1>1. CASE UNCHANGED <<map, seen>>
  BY <1>1 DEF RowsInUse
<1>2. ASSUME NEW c \in CPUs, FetchAndAdd(c) PROVE \E d \in Dirs : map'[k].n[d] > 0
  <2>1. k \in DOMAIN map
    BY <1>2, FetchAndAddRow
  <2>2. \A d \in Dirs : /\ map[k].n[d] \in Nat /\ map'[k].n[d] \in Nat
                        /\ map[k].n[d] <= map'[k].n[d] /\ seen[k][d] < Wrap
    BY <1>2, <2>1, AddKeeps
  <2>3. PICK d \in Dirs : map[k].n[d] > 0
    BY <2>1, <2>2 DEF RowsInUse
  <2> QED
    BY <2>2, <2>3
<1>3. ASSUME NEW c \in CPUs, MapUpdate(c) PROVE \E d \in Dirs : map'[k].n[d] > 0
  <2>1. cpu[c].pc = "miss" /\ Finish(c)
    BY <1>3 DEF MapUpdate
  <2>2. /\ cpu[c].key \in Keys /\ cpu[c].dir \in Dirs
        /\ cpu[c].size \in Nat /\ cpu[c].size # 0
    BY <2>1, BusyFields, WrapNat DEF Counter
  <2>3. CASE k = cpu[c].key
    <3>1. map'[k].n[cpu[c].dir] = cpu[c].size
      BY <1>3, <2>2, <2>3, MapUpdateRow
    <3> QED
      BY <2>2, <3>1
  <2>4. CASE k # cpu[c].key
    <3>0. /\ DOMAIN map' = DOMAIN map \cup {cpu[c].key}
          /\ \A x \in DOMAIN map \ {cpu[c].key} : map'[x] = map[x]
      BY <1>3, MapUpdateRow
    <3>1. k \in DOMAIN map /\ k \in Keys /\ map'[k] = map[k]
      BY <2>4, <3>0 DEF TypeOK
    <3>2. \A d \in Dirs : seen'[k][d] = seen[k][d]
      BY <2>1, <2>4, <3>1, FinishType
    <3> QED
      BY <3>1, <3>2 DEF RowsInUse
  <2> QED
    BY <2>3, <2>4
<1>4. ASSUME NEW c \in CPUs, MapFull(c) PROVE \E d \in Dirs : map'[k].n[d] > 0
  <2>1. cpu[c].pc = "miss" /\ cpu[c].key \notin DOMAIN map /\ Finish(c) /\ map' = map
    BY <1>4 DEF MapFull
  <2>2. k \in Keys /\ k # cpu[c].key
    BY <2>1 DEF TypeOK
  <2>3. \A d \in Dirs : seen'[k][d] = seen[k][d]
    BY <2>1, <2>2, FinishType
  <2> QED
    BY <2>1, <2>3 DEF RowsInUse
<1>5. CASE \/ WatchBegins \/ WatchEnds \/ WatchFails
           \/ \E x \in Keys : WatchReads(x) \/ SnapshotReads(x)
           \/ UNCHANGED vars
  BY <1>1, <1>5 DEF WatchBegins, WatchReads, WatchEnds, WatchFails, SnapshotReads,
                    probeVars, vars
<1>6. ASSUME NEW c \in CPUs, NEW x \in Keys, NEW d \in Dirs, NEW size \in Sizes,
             Lookup(c, x, d, size)
      PROVE  UNCHANGED <<map, seen>>
  BY <1>6 DEF Lookup
<1> QED
  BY <1>1, <1>2, <1>3, <1>4, <1>5, <1>6 DEF Next, TcpSendmsg, TcpCleanupRbuf, Dirs

\* A finished run that changed its own counter only, by at most its bytes,
\* and cleared nothing else than what others added, is a step of the total.
LEMMA FinishTotal ==
    ASSUME TypeOK, TypeOK', NEW c \in CPUs, cpu[c].pc \in {"hit", "miss"}, Finish(c),
           NEW own, own = <<cpu[c].key, cpu[c].dir>>,
           \A k \in DOMAIN map', d \in Dirs :
               <<k, d>> # own => \/ k \in DOMAIN map /\ map'[k].n[d] <= map[k].n[d]
                                 \/ map'[k].n[d] = 0,
           cpu[c].key \in DOMAIN map' =>
               \/ map'[cpu[c].key].n[cpu[c].dir] <= cpu[c].size
               \/ /\ cpu[c].key \in DOMAIN map
                  /\ map'[cpu[c].key].n[cpu[c].dir]
                        <= map[cpu[c].key].n[cpu[c].dir] + cpu[c].size,
           DOMAIN map \subseteq DOMAIN map',
           0 \notin Sizes /\ (\A k \in Keys, d \in Dirs : seen'[k][d] < Wrap)
               => \E k \in DOMAIN map', d \in Dirs : map'[k].n[d] > 0
    PROVE  Total!Count(cpu[c].size)
<1> DEFINE size == cpu[c].size
<1>1. cpu[c].key \in Keys /\ cpu[c].dir \in Dirs /\ size \in Nat
  BY BusyFields, WrapNat DEF Counter
<1>2. own \in Cells /\ own[1] = cpu[c].key /\ own[2] = cpu[c].dir
  BY <1>1 DEF Cells
<1>3. \A x \in Cells : x[1] \in Keys /\ x[2] \in Dirs /\ x = <<x[1], x[2]>>
  BY DEF Cells
<1>4. PICK f : f = Finished
  OBVIOUS
<1>5. PICK g : g = Finished'
  OBVIOUS
<1>6. PICK h : h = Held
  OBVIOUS
<1>7. PICK i : i = Held'
  OBVIOUS
<1>8. \A x \in Cells : f[x] = seen[x[1]][x[2]] /\ g[x] = seen'[x[1]][x[2]]
  BY <1>4, <1>5 DEF Finished
<1>9. \A x \in Cells : /\ h[x] = IF x[1] \in DOMAIN map THEN map[x[1]].n[x[2]] ELSE 0
                       /\ i[x] = IF x[1] \in DOMAIN map' THEN map'[x[1]].n[x[2]] ELSE 0
  BY <1>6, <1>7 DEF Held
<1>10. \A k \in Keys, d \in Dirs :
          /\ seen[k][d] \in Nat
          /\ seen'[k][d] = IF k = cpu[c].key /\ d = cpu[c].dir
                           THEN seen[k][d] + size ELSE seen[k][d]
  BY FinishType
<1>11. \A x \in Cells : f[x] \in Nat /\ g[x] \in Nat
  BY <1>1, <1>3, <1>8, <1>10
<1>12. \A x \in Cells : h[x] \in Nat /\ i[x] \in Nat
  <2>1. /\ \A k \in DOMAIN map, d \in Dirs : map[k].n[d] \in Nat
        /\ \A k \in DOMAIN map', d \in Dirs : map'[k].n[d] \in Nat
    BY WrapNat DEF TypeOK, Counters, Counter
  <2> QED
    BY <1>3, <1>9, <2>1
<1>13. SumOn(g, Cells) = SumOn(f, Cells) + size
  <2>1. g[own] = f[own] + size /\ \A x \in Cells \ {own} : f[x] = g[x]
    BY <1>2, <1>3, <1>8, <1>10
  <2>2. SumOn(g, Cells) - g[own] = SumOn(f, Cells) - f[own]
    BY <1>2, <1>11, <2>1, CellsFinite, SumChange
  <2>3. SumOn(f, Cells) \in Nat /\ SumOn(g, Cells) \in Nat
    BY <1>11, CellsFinite, SumNat
  <2> QED
    BY <1>1, <1>2, <1>11, <2>1, <2>2, <2>3
<1>14. SumOn(i, Cells) <= SumOn(h, Cells) + size
  <2>1. ASSUME NEW x \in Cells \ {own} PROVE i[x] <= h[x]
    <3>1. x[1] \in Keys /\ x[2] \in Dirs /\ <<x[1], x[2]>> # own
      BY <1>3
    <3>2. h[x] \in Nat /\ i[x] \in Nat
      BY <1>12
    <3>3. CASE x[1] \in DOMAIN map'
      BY <1>9, <3>1, <3>2, <3>3
    <3>4. CASE x[1] \notin DOMAIN map'
      BY <1>9, <3>2, <3>4
    <3> QED
      BY <3>3, <3>4
  <2>2. i[own] <= h[own] + size
    BY <1>1, <1>2, <1>9, <1>12
  <2> QED
    BY <1>1, <1>2, <1>12, <2>1, <2>2, CellsFinite, SumGrows
<1>15. 0 \notin Sizes /\ SumOn(g, Cells) < Wrap => SumOn(i, Cells) > 0
  <2> SUFFICES ASSUME 0 \notin Sizes, SumOn(g, Cells) < Wrap PROVE SumOn(i, Cells) > 0
    OBVIOUS
  <2>1. SumOn(g, Cells) \in Nat /\ SumOn(i, Cells) \in Nat
    BY <1>11, <1>12, CellsFinite, SumNat
  <2>2. ASSUME NEW k \in Keys, NEW d \in Dirs PROVE seen'[k][d] < Wrap
    <3>1. <<k, d>> \in Cells /\ g[<<k, d>>] = seen'[k][d]
      BY <1>8 DEF Cells
    <3>2. g[<<k, d>>] <= SumOn(g, Cells) /\ g[<<k, d>>] \in Nat
      BY <1>11, <3>1, CellsFinite, SumAtLeast
    <3> QED
      BY <2>1, <3>1, <3>2, WrapNat
  <2>3. PICK k \in DOMAIN map', d \in Dirs : map'[k].n[d] > 0
    BY <2>2
  <2>4. <<k, d>> \in Cells /\ i[<<k, d>>] = map'[k].n[d]
    BY <1>9 DEF Cells, TypeOK
  <2>5. i[<<k, d>>] <= SumOn(i, Cells) /\ i[<<k, d>>] \in Nat
    BY <1>12, <2>4, CellsFinite, SumAtLeast
  <2> QED
    BY <2>1, <2>3, <2>4, <2>5
<1> QED
  BY <1>4, <1>5, <1>6, <1>7, <1>13, <1>14, <1>15 DEF Total!Count

LEMMA NextTotal ==
    /\ TypeOK /\ TypeOK' /\ HitsHaveRows /\ Bounded /\ RowsInUse /\ RowsInUse'
    /\ [Next]_vars
    => [Total!TotalNext]_<<SumOn(Finished, Cells), SumOn(Held, Cells)>>
<1> SUFFICES ASSUME TypeOK, TypeOK', HitsHaveRows, Bounded, RowsInUse, RowsInUse', [Next]_vars
             PROVE  [Total!TotalNext]_<<SumOn(Finished, Cells), SumOn(Held, Cells)>>
  OBVIOUS
<1>1. ASSUME UNCHANGED <<map, seen>>
      PROVE  UNCHANGED <<SumOn(Finished, Cells), SumOn(Held, Cells)>>
  BY <1>1 DEF Finished, Held
<1>2. ASSUME NEW c \in CPUs, cpu[c].pc \in {"hit", "miss"}, Total!Count(cpu[c].size)
      PROVE  Total!TotalNext
  BY <1>2, BusyFields DEF Total!TotalNext
<1>3. ASSUME DOMAIN map' # {}, 0 \notin Sizes,
             \A k \in Keys, d \in Dirs : seen'[k][d] < Wrap
      PROVE  \E k \in DOMAIN map', d \in Dirs : map'[k].n[d] > 0
  <2>1. PICK k \in DOMAIN map' : k \in Keys
    BY <1>3 DEF TypeOK
  <2> QED
    BY <1>3, <2>1 DEF RowsInUse
<1>4. ASSUME NEW c \in CPUs, FetchAndAdd(c) PROVE Total!TotalNext
  <2>1. cpu[c].pc = "hit" /\ Finish(c)
    BY <1>4 DEF FetchAndAdd
  <2>2. PICK own : own = <<cpu[c].key, cpu[c].dir>>
    OBVIOUS
  <2>3. /\ cpu[c].key \in DOMAIN map /\ DOMAIN map' = DOMAIN map
        /\ \A k \in DOMAIN map \ {cpu[c].key} : map'[k] = map[k]
        /\ \A d \in Dirs : map'[cpu[c].key].n[d] =
                IF d = cpu[c].dir /\ map[cpu[c].key].gen = cpu[c].gen
                THEN Plus(map[cpu[c].key].n[d], cpu[c].size)
                ELSE map[cpu[c].key].n[d]
    BY <1>4, FetchAndAddRow
  <2>4. cpu[c].dir \in Dirs /\ cpu[c].size \in Counter /\ cpu[c].size \in Nat
    BY <2>1, BusyFields, WrapNat DEF Counter
  <2>5. \A k \in DOMAIN map, d \in Dirs :
            map[k].n[d] \in Counter /\ map[k].n[d] \in Nat
    BY WrapNat DEF TypeOK, Counters, Counter
  <2>6. ASSUME NEW k \in DOMAIN map', NEW d \in Dirs, <<k, d>> # own
        PROVE  k \in DOMAIN map /\ map'[k].n[d] <= map[k].n[d]
    BY <2>2, <2>3, <2>5, <2>6
  <2>7. map'[cpu[c].key].n[cpu[c].dir] <= map[cpu[c].key].n[cpu[c].dir] + cpu[c].size
    <3>1. Plus(map[cpu[c].key].n[cpu[c].dir], cpu[c].size)
            <= map[cpu[c].key].n[cpu[c].dir] + cpu[c].size
      BY <2>3, <2>4, <2>5, CounterArithmetic
    <3>2. map[cpu[c].key].n[cpu[c].dir] <= map[cpu[c].key].n[cpu[c].dir] + cpu[c].size
      BY <2>3, <2>4, <2>5
    <3> QED
      BY <2>3, <2>4, <3>1, <3>2
  <2>8. Total!Count(cpu[c].size)
    BY <1>3, <2>1, <2>2, <2>3, <2>6, <2>7, FinishTotal
  <2> QED
    BY <1>2, <2>1, <2>8
<1>5. ASSUME NEW c \in CPUs, MapUpdate(c) PROVE Total!TotalNext
  <2>1. cpu[c].pc = "miss" /\ Finish(c)
    BY <1>5 DEF MapUpdate
  <2>2. PICK own : own = <<cpu[c].key, cpu[c].dir>>
    OBVIOUS
  <2>3. /\ DOMAIN map' = DOMAIN map \cup {cpu[c].key}
        /\ \A k \in DOMAIN map \ {cpu[c].key} : map'[k] = map[k]
        /\ \A d \in Dirs : map'[cpu[c].key].n[d] = IF d = cpu[c].dir THEN cpu[c].size ELSE 0
    BY <1>5, MapUpdateRow
  <2>4. cpu[c].dir \in Dirs /\ cpu[c].size \in Nat
    BY <2>1, BusyFields, WrapNat DEF Counter
  <2>5. \A k \in DOMAIN map, d \in Dirs : map[k].n[d] \in Nat
    BY WrapNat DEF TypeOK, Counters, Counter
  <2>6. ASSUME NEW k \in DOMAIN map', NEW d \in Dirs, <<k, d>> # own
        PROVE  \/ k \in DOMAIN map /\ map'[k].n[d] <= map[k].n[d]
               \/ map'[k].n[d] = 0
    BY <2>2, <2>3, <2>5, <2>6
  <2>7. map'[cpu[c].key].n[cpu[c].dir] <= cpu[c].size
    BY <2>3, <2>4
  <2>8. Total!Count(cpu[c].size)
    BY <1>3, <2>1, <2>2, <2>3, <2>6, <2>7, FinishTotal
  <2> QED
    BY <1>2, <2>1, <2>8
<1>6. ASSUME NEW c \in CPUs, MapFull(c) PROVE Total!TotalNext
  <2>1. /\ cpu[c].pc = "miss" /\ Finish(c) /\ map' = map
        /\ cpu[c].key \notin DOMAIN map
        /\ Cardinality(DOMAIN map) >= Capacity
    BY <1>6 DEF MapFull
  <2>2. DOMAIN map # {}
    BY <2>1, FS_EmptySet, CapacityNat
  <2>3. \A k \in DOMAIN map, d \in Dirs : map[k].n[d] <= map[k].n[d]
    BY WrapNat DEF TypeOK, Counters, Counter
  <2>4. PICK own : own = <<cpu[c].key, cpu[c].dir>>
    OBVIOUS
  <2>5. Total!Count(cpu[c].size)
    BY <1>3, <2>1, <2>2, <2>3, <2>4, FinishTotal
  <2> QED
    BY <1>2, <2>1, <2>5
<1>7. CASE \/ WatchBegins \/ WatchEnds \/ WatchFails
           \/ \E x \in Keys : WatchReads(x) \/ SnapshotReads(x)
           \/ UNCHANGED vars
  BY <1>1, <1>7 DEF WatchBegins, WatchReads, WatchEnds, WatchFails, SnapshotReads,
                    probeVars, vars
<1>8. ASSUME NEW c \in CPUs, NEW x \in Keys, NEW d \in Dirs, NEW size \in Sizes,
             Lookup(c, x, d, size)
      PROVE  UNCHANGED <<map, seen>>
  BY <1>8 DEF Lookup
<1> QED
  BY <1>1, <1>4, <1>5, <1>6, <1>7, <1>8 DEF Next, TcpSendmsg, TcpCleanupRbuf, Dirs

LEMMA InitTotal == Init => Total!TotalInit /\ RowsInUse /\ Bounded
<1> SUFFICES ASSUME Init PROVE Total!TotalInit /\ RowsInUse /\ Bounded
  OBVIOUS
<1>1. \A x \in Cells : Finished[x] = 0 /\ Held[x] = 0
  BY ZeroCounters DEF Init, Finished, Held, Cells
<1>2. SumOn(Finished, Cells) = 0 /\ SumOn(Held, Cells) = 0
  BY <1>1, CellsFinite, SumZero
<1> QED
  BY <1>2 DEF Init, Total!TotalInit, RowsInUse, Bounded, NeverOvercounts, Below, Empty

\* The rows of all CPUs' racing probe runs, added up, behave as the table
\* total that the agent's model works with: each finished run adds at most
\* its own bytes, and the total comes back to 0 only through an overflow or
\* runs that count nothing.
THEOREM ImplementsTable == Spec => ImplementsTotal
<1>1. Spec => [](TypeOK /\ HitsHaveRows /\ Bounded /\ RowsInUse)
  BY InitType, InitHits, InitTotal, NextType, NextBounded, NextInUse, PTL DEF Spec
<1> QED
  BY <1>1, InitTotal, NextTotal, PTL DEF Spec, ImplementsTotal, Total!TotalSpec

-----------------------------------------------------------------------------
(* Insertions. *)

\* A row carries the number of the insertion that made it, and a run that
\* found a row that of the insertion it met.
Generations ==
    /\ IsFiniteSet(DOMAIN map)
    /\ \A k \in Keys : k \in DOMAIN map <=> inserts[k] > 0
    /\ \A k \in DOMAIN map : map[k].gen = inserts[k]
    /\ \A c \in CPUs : cpu[c].pc = "hit" =>
          cpu[c].gen >= 1 /\ cpu[c].gen <= inserts[cpu[c].key]

LEMMA NextGenerations ==
    TypeOK /\ HitsHaveRows /\ Generations /\ [Next]_vars => Generations'
<1> SUFFICES ASSUME TypeOK, HitsHaveRows, Generations, [Next]_vars PROVE Generations'
  OBVIOUS
<1>0. Idle.pc = "idle"
  BY DEF Idle
<1>1. ASSUME NEW c \in CPUs, NEW k \in Keys, NEW d \in Dirs, NEW size \in Sizes,
             Lookup(c, k, d, size)
      PROVE  Generations'
  <2>1. PICK r : r = [pc |-> IF k \in DOMAIN map THEN "hit" ELSE "miss",
                      key |-> k, dir |-> d, size |-> size, gen |-> inserts[k]]
    OBVIOUS
  <2>2. cpu' = [cpu EXCEPT ![c] = r] /\ map' = map /\ inserts' = inserts
    BY <1>1, <2>1 DEF Lookup
  <2>3. inserts[k] \in Nat /\ (k \in DOMAIN map => inserts[k] > 0)
    BY DEF Generations, TypeOK
  <2>4. r.pc = "hit" => r.gen >= 1 /\ r.gen <= inserts[r.key]
    BY <2>1, <2>3
  <2>5. \A x \in CPUs : cpu'[x] = IF x = c THEN r ELSE cpu[x]
    BY <2>2 DEF TypeOK
  <2> QED
    BY <2>2, <2>4, <2>5 DEF Generations
<1>2. ASSUME NEW c \in CPUs, FetchAndAdd(c) PROVE Generations'
  <2>1. cpu[c].pc = "hit" /\ Finish(c) /\ inserts' = inserts
    BY <1>2 DEF FetchAndAdd
  <2>2. \A x \in CPUs : cpu'[x] = IF x = c THEN Idle ELSE cpu[x]
    BY <2>1 DEF Finish, TypeOK
  <2>3. /\ DOMAIN map' = DOMAIN map
        /\ \A k \in DOMAIN map : map'[k].gen = map[k].gen
    BY <1>2, FetchAndAddRow
  <2> QED
    BY <1>0, <2>1, <2>2, <2>3 DEF Generations
<1>3. ASSUME NEW c \in CPUs, MapUpdate(c) PROVE Generations'
  <2>1. cpu[c].pc = "miss" /\ Finish(c) /\ inserts' = [inserts EXCEPT ![cpu[c].key] = @ + 1]
    BY <1>3 DEF MapUpdate
  <2>2. cpu[c].key \in Keys
    BY <2>1, BusyFields
  <2>3. \A x \in CPUs : cpu'[x] = IF x = c THEN Idle ELSE cpu[x]
    BY <2>1 DEF Finish, TypeOK
  <2>4. \A k \in Keys : inserts[k] \in Nat
            /\ inserts'[k] = IF k = cpu[c].key THEN inserts[k] + 1 ELSE inserts[k]
    BY <2>1 DEF TypeOK
  <2>5. /\ DOMAIN map' = DOMAIN map \cup {cpu[c].key}
        /\ \A k \in DOMAIN map \ {cpu[c].key} : map'[k] = map[k]
        /\ map'[cpu[c].key].gen = inserts[cpu[c].key] + 1
    BY <1>3, MapUpdateRow
  <2>6. IsFiniteSet(DOMAIN map')
    BY <2>5, FS_AddElement DEF Generations
  <2>7. \A k \in Keys : k \in DOMAIN map' <=> inserts'[k] > 0
    BY <2>4, <2>5 DEF Generations
  <2>8. \A k \in DOMAIN map' : map'[k].gen = inserts'[k]
    BY <2>2, <2>4, <2>5 DEF Generations, TypeOK
  <2>9. ASSUME NEW x \in CPUs, cpu'[x].pc = "hit"
        PROVE  cpu'[x].gen >= 1 /\ cpu'[x].gen <= inserts'[cpu'[x].key]
    <3>1. cpu'[x] = cpu[x] /\ cpu[x].pc = "hit"
      BY <1>0, <2>3, <2>9
    <3>2. cpu[x].key \in Keys /\ cpu[x].gen \in Nat
      BY <3>1, BusyFields
    <3>3. cpu[x].gen >= 1 /\ cpu[x].gen <= inserts[cpu[x].key]
      BY <3>1 DEF Generations
    <3> QED
      BY <2>4, <3>1, <3>2, <3>3
  <2> QED
    BY <2>6, <2>7, <2>8, <2>9 DEF Generations
<1>4. ASSUME NEW c \in CPUs, MapFull(c) PROVE Generations'
  <2>1. Finish(c) /\ map' = map /\ inserts' = inserts
    BY <1>4 DEF MapFull
  <2>2. \A x \in CPUs : cpu'[x] = IF x = c THEN Idle ELSE cpu[x]
    BY <2>1 DEF Finish, TypeOK
  <2> QED
    BY <1>0, <2>1, <2>2 DEF Generations
<1>5. ASSUME UNCHANGED probeVars PROVE Generations'
  BY <1>5 DEF Generations, probeVars
<1> QED
  BY <1>1, <1>2, <1>3, <1>4, <1>5
     DEF Next, TcpSendmsg, TcpCleanupRbuf, Dirs, WatchBegins, WatchReads, WatchEnds,
         WatchFails, SnapshotReads, vars

LEMMA InitGenerations == Init => Generations
BY FS_EmptySet DEF Init, Generations, Idle

\* The runs about to insert a row for k, after a run on c ended.
LEMMA MissesOfFinished ==
    ASSUME TypeOK, NEW c \in CPUs, cpu' = [cpu EXCEPT ![c] = Idle], NEW k \in Keys
    PROVE  Misses(k)' = Misses(k) \ {c}
BY DEF Misses, TypeOK, Idle

LEMMA MissesFinite ==
    ASSUME NEW k
    PROVE  /\ IsFiniteSet(Misses(k))
           /\ Cardinality(Misses(k)) \in Nat
           /\ Cardinality(CPUs) \in Nat
           /\ Cardinality(Misses(k)) <= Cardinality(CPUs)
<1>1. Misses(k) \in SUBSET CPUs
  BY DEF Misses
<1> QED
  BY <1>1, CPUsFinite, FS_Subset, FS_CardinalityType

LEMMA NextInserts ==
    TypeOK /\ Generations /\ InsertsBounded /\ [Next]_vars => InsertsBounded'
<1> SUFFICES ASSUME TypeOK, Generations, InsertsBounded, [Next]_vars,
                    NEW k \in Keys
             PROVE  inserts'[k] + Cardinality(Misses(k)') <= Cardinality(CPUs)
  BY DEF InsertsBounded
<1>0. /\ inserts[k] \in Nat
      /\ inserts[k] + Cardinality(Misses(k)) <= Cardinality(CPUs)
      /\ Cardinality(Misses(k)) \in Nat /\ Cardinality(CPUs) \in Nat
      /\ IsFiniteSet(Misses(k))
  BY MissesFinite DEF InsertsBounded, TypeOK
<1>a. Cardinality(Misses(k)') \in Nat /\ Cardinality(Misses(k)') <= Cardinality(CPUs)
  <2>1. Misses(k)' \in SUBSET CPUs
    BY DEF Misses
  <2> QED
    BY <2>1, CPUsFinite, FS_Subset, FS_CardinalityType
<1>1. ASSUME NEW c \in CPUs, NEW x \in Keys, NEW d \in Dirs, NEW size \in Sizes,
             Lookup(c, x, d, size)
      PROVE  inserts'[k] + Cardinality(Misses(k)') <= Cardinality(CPUs)
  <2>1. inserts' = inserts
    BY <1>1 DEF Lookup
  <2>2. CASE inserts[k] = 0
    BY <1>0, <1>a, <2>1, <2>2
  <2>3. CASE inserts[k] > 0
    <3>1. k \in DOMAIN map
      BY <2>3 DEF Generations
    <3>2. PICK r : r = [pc |-> IF x \in DOMAIN map THEN "hit" ELSE "miss",
                        key |-> x, dir |-> d, size |-> size, gen |-> inserts[x]]
      OBVIOUS
    <3>3. \A y \in CPUs : cpu'[y] = IF y = c THEN r ELSE cpu[y]
      BY <1>1, <3>2 DEF Lookup, TypeOK
    <3>4. ~(r.key = k /\ r.pc = "miss")
      BY <3>1, <3>2
    <3>5. cpu[c] = Idle
      BY <1>1 DEF Lookup
    <3>6. Misses(k)' = Misses(k)
      BY <3>3, <3>4, <3>5 DEF Misses
    <3> QED
      BY <1>0, <2>1, <3>6
  <2> QED
    BY <1>0, <2>2, <2>3
<1>2. ASSUME NEW c \in CPUs, FetchAndAdd(c) \/ MapFull(c)
      PROVE  inserts'[k] + Cardinality(Misses(k)') <= Cardinality(CPUs)
  <2>1. inserts' = inserts /\ cpu' = [cpu EXCEPT ![c] = Idle]
    BY <1>2 DEF FetchAndAdd, MapFull, Finish
  <2>2. Misses(k)' = Misses(k) \ {c}
    BY <2>1, MissesOfFinished
  <2>3. Cardinality(Misses(k) \ {c}) = IF c \in Misses(k) THEN Cardinality(Misses(k)) - 1
                                       ELSE Cardinality(Misses(k))
    BY <1>0, FS_RemoveElement
  <2> QED
    BY <1>0, <2>1, <2>2, <2>3
<1>3. ASSUME NEW c \in CPUs, MapUpdate(c)
      PROVE  inserts'[k] + Cardinality(Misses(k)') <= Cardinality(CPUs)
  <2>1. /\ cpu[c].pc = "miss" /\ cpu' = [cpu EXCEPT ![c] = Idle]
        /\ inserts' = [inserts EXCEPT ![cpu[c].key] = @ + 1]
    BY <1>3 DEF MapUpdate, Finish
  <2>2. Misses(k)' = Misses(k) \ {c}
    BY <2>1, MissesOfFinished
  <2>3. Cardinality(Misses(k) \ {c}) = IF c \in Misses(k) THEN Cardinality(Misses(k)) - 1
                                       ELSE Cardinality(Misses(k))
    BY <1>0, FS_RemoveElement
  <2>4. inserts'[k] = IF k = cpu[c].key THEN inserts[k] + 1 ELSE inserts[k]
    BY <2>1 DEF TypeOK
  <2>5. k = cpu[c].key => c \in Misses(k)
    BY <2>1 DEF Misses, Idle
  <2> QED
    BY <1>0, <2>2, <2>3, <2>4, <2>5
<1>4. ASSUME UNCHANGED probeVars
      PROVE  inserts'[k] + Cardinality(Misses(k)') <= Cardinality(CPUs)
  <2>1. inserts' = inserts /\ Misses(k)' = Misses(k)
    BY <1>4 DEF probeVars, Misses
  <2> QED
    BY <1>0, <2>1
<1> QED
  BY <1>1, <1>2, <1>3, <1>4
     DEF Next, TcpSendmsg, TcpCleanupRbuf, Dirs, WatchBegins, WatchReads, WatchEnds,
         WatchFails, SnapshotReads, vars

\* However many connections come and whatever the order of the steps, a row
\* is inserted at most once per CPU.
THEOREM InsertsAtMostCPUs == Spec => []InsertsBounded
<1>1. Init => InsertsBounded
  <2> SUFFICES ASSUME Init, NEW k \in Keys
               PROVE  inserts[k] + Cardinality(Misses(k)) <= Cardinality(CPUs)
    BY DEF InsertsBounded
  <2>1. Misses(k) = {} /\ inserts[k] = 0
    BY DEF Init, Misses
  <2> QED
    BY <2>1, FS_EmptySet, MissesFinite
<1>2. Spec => [](TypeOK /\ HitsHaveRows /\ Generations /\ InsertsBounded)
  BY <1>1, InitType, InitHits, InitGenerations, NextType, NextGenerations, NextInserts,
     PTL DEF Spec
<1> QED
  BY <1>2, PTL

-----------------------------------------------------------------------------
(* What is lost. *)

\* What the end of a run does to the count of bytes seen.
LEMMA FinishSeen ==
    ASSUME TypeOK, NEW c \in CPUs, cpu[c].pc \in {"hit", "miss"}, Finish(c)
    PROVE  /\ cpu[c].key \in Keys /\ cpu[c].dir \in Dirs
           /\ cpu[c].size \in Nat /\ cpu[c].size < Wrap /\ Wrap \in Nat
           /\ \A k \in Keys, d \in Dirs :
                /\ seen[k][d] \in Nat /\ seen'[k][d] \in Nat
                /\ seen[k][d] <= seen'[k][d]
                /\ seen'[k][d] = IF k = cpu[c].key /\ d = cpu[c].dir
                                 THEN seen[k][d] + cpu[c].size ELSE seen[k][d]
<1>1. /\ cpu[c].key \in Keys /\ cpu[c].dir \in Dirs
      /\ cpu[c].size \in Nat /\ cpu[c].size < Wrap /\ Wrap \in Nat
  BY BusyFields, WrapNat DEF Counter
<1>2. \A k \in Keys, d \in Dirs :
          /\ seen[k][d] \in Nat
          /\ seen'[k][d] = IF k = cpu[c].key /\ d = cpu[c].dir
                           THEN seen[k][d] + cpu[c].size ELSE seen[k][d]
  BY FinishType
<1> QED
  BY <1>1, <1>2

LEMMA NextLosses ==
    TypeOK /\ HitsHaveRows /\ Generations /\ LossExplained /\ [Next]_vars
        => LossExplained'
<1> SUFFICES ASSUME TypeOK, HitsHaveRows, Generations, LossExplained, [Next]_vars
             PROVE  LossExplained'
  OBVIOUS
<1>0. \A k \in DOMAIN map, d \in Dirs :
          /\ k \in Keys /\ map[k].n[d] \in Counter
          /\ inserts[k] = 1 /\ seen[k][d] < Wrap => map[k].n[d] = seen[k][d]
  BY DEF LossExplained, TypeOK, Counters
<1>c. Cardinality(DOMAIN map) \in Nat /\ Capacity \in Nat
  BY FS_CardinalityType, CapacityNat DEF Generations
<1>1. ASSUME UNCHANGED <<map, seen, inserts>> PROVE LossExplained'
  BY <1>1 DEF LossExplained
<1>2. ASSUME NEW c \in CPUs, NEW k \in Keys, NEW d \in Dirs, NEW size \in Sizes,
             Lookup(c, k, d, size)
      PROVE  LossExplained'
  BY <1>1, <1>2 DEF Lookup
<1>3. ASSUME NEW c \in CPUs, FetchAndAdd(c) PROVE LossExplained'
  <2>1. cpu[c].pc = "hit" /\ Finish(c) /\ inserts' = inserts
    BY <1>3 DEF FetchAndAdd
  <2>2. /\ cpu[c].key \in DOMAIN map
        /\ DOMAIN map' = DOMAIN map
        /\ \A k \in DOMAIN map \ {cpu[c].key} : map'[k] = map[k]
        /\ \A d \in Dirs : map'[cpu[c].key].n[d] =
                IF d = cpu[c].dir /\ map[cpu[c].key].gen = cpu[c].gen
                THEN Plus(map[cpu[c].key].n[d], cpu[c].size)
                ELSE map[cpu[c].key].n[d]
    BY <1>3, FetchAndAddRow
  <2>3. /\ cpu[c].size \in Nat /\ cpu[c].size < Wrap /\ Wrap \in Nat
        /\ \A k \in Keys, d \in Dirs :
             /\ seen[k][d] \in Nat /\ seen'[k][d] \in Nat
             /\ seen[k][d] <= seen'[k][d]
             /\ seen'[k][d] = IF k = cpu[c].key /\ d = cpu[c].dir
                              THEN seen[k][d] + cpu[c].size ELSE seen[k][d]
    BY <2>1, FinishSeen
  <2>4. inserts[cpu[c].key] = 1 => map[cpu[c].key].gen = cpu[c].gen
    <3>1. cpu[c].gen >= 1 /\ cpu[c].gen <= inserts[cpu[c].key]
      BY <2>1 DEF Generations
    <3>2. cpu[c].gen \in Nat
      BY <2>1, BusyFields
    <3>3. map[cpu[c].key].gen = inserts[cpu[c].key]
      BY <2>2 DEF Generations
    <3> QED
      BY <3>1, <3>2, <3>3
  <2>5. ASSUME NEW k \in DOMAIN map', NEW d \in Dirs, inserts'[k] = 1, seen'[k][d] < Wrap
        PROVE  map'[k].n[d] = seen'[k][d]
    <3>1. k \in DOMAIN map /\ k \in Keys /\ seen[k][d] < Wrap
      BY <1>0, <2>2, <2>3, <2>5
    <3>2. map[k].n[d] = seen[k][d]
      BY <1>0, <2>1, <2>5, <3>1
    <3>3. CASE k = cpu[c].key /\ d = cpu[c].dir
      <4>1. map'[k].n[d] = Plus(seen[k][d], cpu[c].size)
        BY <2>1, <2>2, <2>4, <2>5, <3>2, <3>3
      <4>2. seen'[k][d] = seen[k][d] + cpu[c].size
        BY <2>3, <3>1, <3>3
      <4> QED
        BY <2>5, <4>1, <4>2 DEF Plus
    <3>4. CASE ~(k = cpu[c].key /\ d = cpu[c].dir)
      <4>1. map'[k].n[d] = map[k].n[d]
        BY <2>2, <3>1, <3>4
      <4>2. seen'[k][d] = seen[k][d]
        BY <2>3, <3>1, <3>4
      <4> QED
        BY <3>2, <4>1, <4>2
    <3> QED
      BY <3>3, <3>4
  <2>6. ASSUME NEW k \in Keys \ DOMAIN map', NEW d \in Dirs, seen'[k][d] # 0
        PROVE  Cardinality(DOMAIN map') >= Capacity
    <3>1. k # cpu[c].key /\ k \notin DOMAIN map
      BY <2>2
    <3>2. seen[k][d] # 0
      BY <2>3, <2>6, <3>1
    <3> QED
      BY <2>2, <3>1, <3>2 DEF LossExplained
  <2> QED
    BY <2>5, <2>6 DEF LossExplained
<1>4. ASSUME NEW c \in CPUs, MapUpdate(c) PROVE LossExplained'
  <2>1. /\ cpu[c].pc = "miss" /\ Finish(c)
        /\ inserts' = [inserts EXCEPT ![cpu[c].key] = @ + 1]
        /\ cpu[c].key \in DOMAIN map \/ Cardinality(DOMAIN map) < Capacity
    BY <1>4 DEF MapUpdate
  <2>2. /\ DOMAIN map' = DOMAIN map \cup {cpu[c].key}
        /\ \A k \in DOMAIN map \ {cpu[c].key} : map'[k] = map[k]
        /\ \A d \in Dirs : map'[cpu[c].key].n[d] = IF d = cpu[c].dir THEN cpu[c].size ELSE 0
    BY <1>4, MapUpdateRow
  <2>3. /\ cpu[c].key \in Keys
        /\ cpu[c].size \in Nat /\ cpu[c].size < Wrap /\ Wrap \in Nat
        /\ \A k \in Keys, d \in Dirs :
             /\ seen[k][d] \in Nat /\ seen'[k][d] \in Nat
             /\ seen[k][d] <= seen'[k][d]
             /\ seen'[k][d] = IF k = cpu[c].key /\ d = cpu[c].dir
                              THEN seen[k][d] + cpu[c].size ELSE seen[k][d]
    BY <2>1, FinishSeen
  <2>4. \A k \in Keys : inserts[k] \in Nat
            /\ inserts'[k] = IF k = cpu[c].key THEN inserts[k] + 1 ELSE inserts[k]
    BY <2>1 DEF TypeOK
  <2>5. ASSUME NEW k \in DOMAIN map', NEW d \in Dirs, inserts'[k] = 1, seen'[k][d] < Wrap
        PROVE  map'[k].n[d] = seen'[k][d]
    <3>1. CASE k = cpu[c].key
      <4>1. k \notin DOMAIN map /\ k \in Keys
        BY <2>3, <2>4, <2>5, <3>1 DEF Generations
      <4>2. seen[k][d] = 0
        BY <1>c, <2>1, <3>1, <4>1 DEF LossExplained
      <4> QED
        BY <2>2, <2>3, <3>1, <4>1, <4>2
    <3>2. CASE k # cpu[c].key
      <4>1. k \in DOMAIN map /\ k \in Keys /\ map'[k] = map[k]
        BY <1>0, <2>2, <3>2
      <4>2. seen'[k][d] = seen[k][d] /\ inserts[k] = 1
        BY <2>3, <2>4, <2>5, <3>2, <4>1
      <4> QED
        BY <1>0, <2>5, <4>1, <4>2
    <3> QED
      BY <3>1, <3>2
  <2>6. ASSUME NEW k \in Keys \ DOMAIN map', NEW d \in Dirs, seen'[k][d] # 0
        PROVE  Cardinality(DOMAIN map') >= Capacity
    <3>1. k # cpu[c].key /\ k \notin DOMAIN map
      BY <2>2
    <3>2. seen[k][d] # 0
      BY <2>3, <2>6, <3>1
    <3>3. Cardinality(DOMAIN map) >= Capacity
      BY <3>1, <3>2 DEF LossExplained
    <3>4. cpu[c].key \in DOMAIN map
      BY <1>c, <2>1, <3>3
    <3>5. DOMAIN map' = DOMAIN map
      BY <2>2, <3>4
    <3> QED
      BY <3>3, <3>5
  <2> QED
    BY <2>5, <2>6 DEF LossExplained
<1>5. ASSUME NEW c \in CPUs, MapFull(c) PROVE LossExplained'
  <2>1. /\ cpu[c].pc = "miss" /\ Finish(c) /\ map' = map /\ inserts' = inserts
        /\ cpu[c].key \notin DOMAIN map /\ Cardinality(DOMAIN map) >= Capacity
    BY <1>5 DEF MapFull
  <2>2. \A k \in DOMAIN map, d \in Dirs : seen'[k][d] = seen[k][d]
    BY <1>0, <2>1, FinishSeen
  <2> QED
    BY <2>1, <2>2 DEF LossExplained
<1>6. ASSUME UNCHANGED probeVars PROVE LossExplained'
  BY <1>1, <1>6 DEF probeVars
<1> QED
  BY <1>2, <1>3, <1>4, <1>5, <1>6
     DEF Next, TcpSendmsg, TcpCleanupRbuf, Dirs, WatchBegins, WatchReads, WatchEnds,
         WatchFails, SnapshotReads, vars

LEMMA InitLosses == Init => LossExplained
<1> SUFFICES ASSUME Init PROVE LossExplained
  OBVIOUS
<1>1. DOMAIN map = {} /\ \A k \in Keys, d \in Dirs : seen[k][d] = 0
  BY DEF Init, Zero
<1> QED
  BY <1>1 DEF LossExplained

\* A row that was inserted once holds every byte of its connection, up to
\* the width of its counters, and only a full map leaves a connection
\* without a row.
THEOREM LossNeedsReason == Spec => []LossExplained
<1>1. Spec => [](TypeOK /\ HitsHaveRows /\ Generations /\ LossExplained)
  BY InitType, InitHits, InitGenerations, InitLosses, NextType, NextGenerations,
     NextLosses, PTL DEF Spec
<1> QED
  BY <1>1, PTL

-----------------------------------------------------------------------------
(* What Watch reports. *)

\* The reading under way is no lower than the last one, as far as races and
\* overflow did not lower the counter.
DeltasExplained ==
    /\ DeltaExplained
    /\ \A k \in DOMAIN prev \cap DOMAIN cur, d \in Dirs :
          inserts[k] <= 1 /\ seen[k][d] < Wrap => prev[k][d] <= cur[k][d]

\* A difference is at most the minuend, or it wrapped.
LEMMA MinusBounds ==
    ASSUME NEW a \in Counter, NEW b \in Counter
    PROVE  /\ Minus(a, b) \in Nat /\ Minus(a, b) < Wrap
           /\ b <= a => Minus(a, b) <= a
BY WrapNat DEF Minus, Counter

LEMMA NextDeltas ==
    ASSUME TypeOK, HitsHaveRows, Generations, LossExplained, Bounded, Telescope,
           DeltasExplained, [Next]_vars
    PROVE  DeltasExplained'
<1>0. /\ \A k \in Keys : inserts[k] \in Nat
      /\ \A k \in Keys, d \in Dirs : seen[k][d] \in Nat
      /\ \A k \in DOMAIN flows, d \in Dirs : k \in Keys /\ flows[k][d] \in Counter
      /\ \A k \in DOMAIN prev, d \in Dirs : k \in Keys /\ prev[k][d] \in Counter
      /\ \A k \in DOMAIN cur, d \in Dirs : k \in Keys /\ cur[k][d] \in Counter
      /\ Wrap \in Nat /\ Counter \subseteq Nat
  BY WrapNat DEF TypeOK, IsReading, Counters, Counter
<1>1. ASSUME UNCHANGED <<cur, prev, flows>>,
             \A k \in Keys : inserts'[k] \in Nat /\ inserts[k] <= inserts'[k],
             \A k \in Keys, d \in Dirs : seen'[k][d] \in Nat /\ seen[k][d] <= seen'[k][d]
      PROVE  DeltasExplained'
  <2>1. ASSUME NEW k \in DOMAIN flows, NEW d \in Dirs
        PROVE  flows[k][d] <= seen'[k][d] \/ inserts'[k] > 1
    <3>1. flows[k][d] <= seen[k][d] \/ inserts[k] > 1
      BY DEF DeltasExplained, DeltaExplained
    <3>2. k \in Keys /\ flows[k][d] \in Nat
      BY <1>0
    <3>3. /\ seen[k][d] \in Nat /\ seen'[k][d] \in Nat /\ seen[k][d] <= seen'[k][d]
          /\ inserts[k] \in Nat /\ inserts'[k] \in Nat /\ inserts[k] <= inserts'[k]
      BY <1>0, <1>1, <3>2
    <3> QED
      BY <3>1, <3>2, <3>3
  <2>2. ASSUME NEW k \in DOMAIN prev \cap DOMAIN cur, NEW d \in Dirs,
               inserts'[k] <= 1, seen'[k][d] < Wrap
        PROVE  prev[k][d] <= cur[k][d]
    <3>1. k \in Keys
      BY <1>0
    <3>2. /\ seen[k][d] \in Nat /\ seen'[k][d] \in Nat /\ seen[k][d] <= seen'[k][d]
          /\ inserts[k] \in Nat /\ inserts'[k] \in Nat /\ inserts[k] <= inserts'[k]
      BY <1>0, <1>1, <3>1
    <3>3. inserts[k] <= 1 /\ seen[k][d] < Wrap
      BY <1>0, <2>2, <3>2
    <3> QED
      BY <3>3 DEF DeltasExplained
  <2> QED
    BY <1>1, <2>1, <2>2 DEF DeltasExplained, DeltaExplained
<1>2. ASSUME UNCHANGED <<cur, prev, flows, seen, inserts>> PROVE DeltasExplained'
  BY <1>2 DEF DeltasExplained, DeltaExplained
<1>3. ASSUME NEW c \in CPUs, NEW k \in Keys, NEW d \in Dirs, NEW size \in Sizes,
             Lookup(c, k, d, size)
      PROVE  DeltasExplained'
  BY <1>2, <1>3 DEF Lookup, watchVars
<1>4. ASSUME NEW c \in CPUs, FetchAndAdd(c) \/ MapUpdate(c) \/ MapFull(c)
      PROVE  DeltasExplained'
  <2>1. /\ cpu[c].pc \in {"hit", "miss"} /\ Finish(c)
        /\ inserts' \in {inserts, [inserts EXCEPT ![cpu[c].key] = @ + 1]}
    BY <1>4 DEF FetchAndAdd, MapUpdate, MapFull
  <2>2. \A k \in Keys, d \in Dirs : seen'[k][d] \in Nat /\ seen[k][d] <= seen'[k][d]
    BY <2>1, FinishSeen
  <2>3. \A k \in Keys : inserts'[k] \in Nat /\ inserts[k] <= inserts'[k]
    BY <2>1 DEF TypeOK
  <2>4. UNCHANGED <<cur, prev, flows>>
    BY <2>1 DEF Finish, watchVars
  <2> QED
    BY <1>1, <2>2, <2>3, <2>4
<1>5. ASSUME cur' = Empty, flows' = flows, UNCHANGED <<seen, inserts>>
      PROVE  DeltasExplained'
  BY <1>5, EmptyReading DEF DeltasExplained, DeltaExplained
<1>6. CASE WatchBegins \/ WatchFails
  BY <1>5, <1>6 DEF WatchBegins, WatchFails, probeVars
<1>7. ASSUME NEW k \in Keys, WatchReads(k) PROVE DeltasExplained'
  <2>1. /\ k \in DOMAIN map /\ cur' = Put(cur, k, map[k].n)
        /\ UNCHANGED <<prev, flows, seen, inserts>>
    BY <1>7 DEF WatchReads, probeVars
  <2>2. \A x \in DOMAIN cur' : x = k \/ x \in DOMAIN cur
    BY <2>1 DEF Put
  <2>3. \A x \in DOMAIN cur' : cur'[x] = IF x = k THEN map[k].n ELSE cur[x]
    BY <2>1 DEF Put
  <2>4. ASSUME NEW d \in Dirs, k \in DOMAIN prev, inserts[k] <= 1, seen[k][d] < Wrap
        PROVE  prev[k][d] <= map[k].n[d]
    <3>1. inserts[k] = 1
      BY <1>0, <2>1, <2>4 DEF Generations
    <3>2. map[k].n[d] = seen[k][d]
      BY <2>1, <2>4, <3>1 DEF LossExplained
    <3>3. prev[k][d] <= seen[k][d]
      BY <2>4 DEF Bounded, NeverOvercounts
    <3> QED
      BY <3>2, <3>3
  <2>5. ASSUME NEW x \in DOMAIN prev \cap DOMAIN cur', NEW d \in Dirs,
               inserts[x] <= 1, seen[x][d] < Wrap
        PROVE  prev[x][d] <= cur'[x][d]
    <3>1. CASE x = k
      BY <2>3, <2>4, <2>5, <3>1
    <3>2. CASE x # k
      BY <2>2, <2>3, <2>5, <3>2 DEF DeltasExplained
    <3> QED
      BY <3>1, <3>2
  <2> QED
    BY <2>1, <2>5 DEF DeltasExplained, DeltaExplained
<1>8. CASE WatchEnds
  <2>1. /\ cur' = Empty /\ UNCHANGED <<seen, inserts>>
        /\ \A k \in DOMAIN flows' : k \in DOMAIN cur /\ flows'[k] = Delta(k)
    BY <1>8 DEF WatchEnds, probeVars
  <2>2. ASSUME NEW k \in DOMAIN flows', NEW d \in Dirs
        PROVE  flows'[k][d] <= seen[k][d] \/ inserts[k] > 1
    <3>1. /\ k \in DOMAIN cur /\ k \in Keys /\ cur[k][d] \in Counter
          /\ cur[k][d] \in Nat /\ seen[k][d] \in Nat
          /\ flows'[k] = Delta(k) /\ inserts[k] \in Nat
      BY <1>0, <2>1
    <3>2. cur[k][d] <= seen[k][d]
      BY <3>1 DEF Bounded, Below
    <3>3. CASE k \notin DOMAIN prev
      BY <3>1, <3>2, <3>3 DEF Delta
    <3>4. CASE k \in DOMAIN prev
      <4>1. prev[k][d] \in Counter /\ prev[k][d] \in Nat
        BY <1>0, <3>4
      <4>2. flows'[k][d] = Minus(cur[k][d], prev[k][d])
        BY <3>1, <3>4 DEF Delta
      <4>3. /\ Minus(cur[k][d], prev[k][d]) \in Nat
            /\ Minus(cur[k][d], prev[k][d]) < Wrap
            /\ prev[k][d] <= cur[k][d] => Minus(cur[k][d], prev[k][d]) <= cur[k][d]
        BY <3>1, <4>1, MinusBounds
      <4>4. CASE inserts[k] > 1
        BY <4>4
      <4>5. CASE inserts[k] <= 1 /\ seen[k][d] < Wrap
        <5>1. prev[k][d] <= cur[k][d]
          BY <3>1, <3>4, <4>5 DEF DeltasExplained
        <5> QED
          BY <3>1, <3>2, <4>1, <4>2, <4>3, <5>1
      <4>6. CASE seen[k][d] >= Wrap
        BY <1>0, <3>1, <4>2, <4>3, <4>6
      <4> QED
        BY <1>0, <3>1, <4>4, <4>5, <4>6
    <3> QED
      BY <3>3, <3>4
  <2> QED
    BY <2>1, <2>2, EmptyReading DEF DeltasExplained, DeltaExplained
<1>9. ASSUME NEW k \in Keys, SnapshotReads(k) PROVE DeltasExplained'
  BY <1>2, <1>9 DEF SnapshotReads, probeVars, watchVars
<1>10. CASE UNCHANGED vars
  BY <1>2, <1>10 DEF vars, probeVars, watchVars
<1> QED
  BY <1>3, <1>4, <1>6, <1>7, <1>8, <1>9, <1>10
     DEF Next, TcpSendmsg, TcpCleanupRbuf, Dirs

\* Watch reports more than a connection ever transferred only for rows that
\* were inserted twice.
THEOREM WrongDeltaNeedsRace == Spec => []DeltaExplained
<1>1. Init => Bounded /\ Telescope /\ DeltasExplained
  BY DEF Init, Bounded, NeverOvercounts, Below, Telescope, WatchTelescopes,
         DeltasExplained, DeltaExplained, Empty
<1>2. Spec => [](TypeOK /\ HitsHaveRows /\ Generations /\ LossExplained /\ Bounded
                   /\ Telescope /\ DeltasExplained)
  BY <1>1, InitType, InitHits, InitGenerations, InitLosses, NextType, NextGenerations,
     NextLosses, NextBounded, NextTelescope, NextDeltas, PTL DEF Spec
<1>3. DeltasExplained => DeltaExplained
  BY DEF DeltasExplained
<1> QED
  BY <1>2, <1>3, PTL
=============================================================================
