----------------------------- MODULE LatencyRow -----------------------------
(***************************************************************************)
(* One key of rtt_map or dns_stats_map (bpf/tcp_connect.bpf.c): its row is *)
(* inserted and updated, field by field, by probe runs on several CPUs,    *)
(* copied to user space meanwhile (Collector.ReadRTT, ReadDNSStats), and   *)
(* the copies of all nodes are merged into one line of a report, with      *)
(* percentiles estimated from a histogram of powers of two (Store.         *)
(* GetLatency and GetDNS, the Read of the latency and dns trackers).       *)
(*                                                                         *)
(* A row that was replaced lives on for the runs and copies that hold a    *)
(* pointer to it; the row in the map is the last of `rows'.  That maps are *)
(* never full here is ProbeMap's matter.  Runs overlap on a DNS row when   *)
(* answers arrive on several CPUs, on an RTT row when network namespaces   *)
(* share the connection's addresses (one socket's segments are handled     *)
(* under its lock).  The 32-bit histogram counters do not wrap here.       *)
(***************************************************************************)
EXTENDS Numbers, Sequences, SequencesExt

CONSTANTS
    CPUs,      \* the CPUs probes run on
    Samples,   \* latencies in microseconds: u64 for DNS, u32 for RTT
    W32,       \* what fits u32 is below this (2^32)
    Top,       \* the last bucket of the histogram (RTT_HIST_BUCKETS - 1 = 26)
    Others,    \* what other rows of the same pair of names took: sequences
    MaxRuns    \* bound: probe runs

ASSUME CPUsFinite == IsFiniteSet(CPUs)
ASSUME SamplesAre == Samples \subseteq Nat
ASSUME W32Is == W32 \in Nat \ {0}
ASSUME W32Fits == (W32 - 1) \div 65536 < 65536
ASSUME TopIs == Top \in Nat
ASSUME OthersAre == Others \subseteq Seq(1 .. W32 - 1) \ {<<>>}
ASSUME RunBound == MaxRuns \in Nat

VARIABLES
    table,   \* which of the two tables this is
    rows,    \* the rows ever inserted for the key
    cpu,     \* [CPUs -> the probe run in progress]
    copy,    \* the copy of a row user space is making
    runs,    \* probe runs so far
    took,    \* history: for each row the samples of the runs that found it,
             \* after that of the run that inserted it
    raced    \* history: the rows on which runs overlapped

vars == <<table, rows, cpu, copy, runs, took, raced>>

Buckets == 0 .. Top

\* The 64-bit words of a row: a sum, a count, both extremes, two buckets.
Fields == {"sum", "count", "extremes"}
Pairs == {b \div 2 : b \in Buckets}

\* rtt_val_t and dns_stats_val_t.
RowType == [sum : Nat, count : Nat, min : 0 .. W32 - 1, max : 0 .. W32 - 1,
            hist : [Buckets -> Nat]]
Cleared == [sum |-> 0, count |-> 0, min |-> 0, max |-> 0, hist |-> [b \in Buckets |-> 0]]

\* What a run does to a row it found, in the order of the code.
RttOrder == [sum |-> 1, count |-> 2, hist |-> 3, min |-> 4, max |-> 5]
DnsOrder == [count |-> 1, sum |-> 2, min |-> 3, max |-> 4, hist |-> 5]
Order == IF table = "rtt" THEN RttOrder ELSE DnsOrder

\* A run: its sample, the row it found (0: none), the step it is at, and
\* whether the step's comparison told it to store its sample.
Idle == [pc |-> "idle"]
Run == [pc : {"run"}, sample : Samples, row : Nat, step : 1 .. 5, store : BOOLEAN]
RunAt(v, i, step, store) ==
    [pc |-> "run", sample |-> v, row |-> i, step |-> step, store |-> store]

NoCopy == [of |-> 0]
Copy == [of : Nat \ {0}, val : RowType, left : SUBSET Fields, pairs : SUBSET Pairs]

TypeOK ==
    /\ table \in {"rtt", "dns"}
    /\ rows \in Seq(RowType)
    /\ cpu \in [CPUs -> {Idle} \cup Run]
    /\ copy \in {NoCopy} \cup Copy
    /\ runs \in 0 .. MaxRuns
    /\ took \in Seq(Seq(Samples))
    /\ raced \subseteq DOMAIN rows

Init ==
    /\ table \in {"rtt", "dns"}
    /\ rows = <<>>
    /\ cpu = [c \in CPUs |-> Idle]
    /\ copy = NoCopy
    /\ runs = 0
    /\ took = <<>>
    /\ raced = {}

-----------------------------------------------------------------------------
(* Numbers. *)

\* Mutant of U32: the fields are as wide as the sample.
U32Wide(v) == v

\* A u64 passed or assigned as u32.
U32(v) == v % W32

\* rtt_log2_u32: the highest bit of v, by halving; 0 for 0.
Log2(v) ==
    LET r1 == IF v >= 65536 THEN 16 ELSE 0
        v1 == v \div Pow2[r1]
        r2 == IF v1 >= 256 THEN 8 ELSE 0
        v2 == v1 \div Pow2[r2]
        r3 == IF v2 >= 16 THEN 4 ELSE 0
        v3 == v2 \div Pow2[r3]
        r4 == IF v3 >= 4 THEN 2 ELSE 0
        v4 == v3 \div Pow2[r4]
        r5 == IF v4 >= 2 THEN 1 ELSE 0
    IN r1 + r2 + r3 + r4 + r5

Bucket(v) == IF Log2(U32(v)) > Top THEN Top ELSE Log2(U32(v))

-----------------------------------------------------------------------------
(* The probes. *)

\* The runs that found row i; of row 0, those that found none.
Holders(i) == {c \in CPUs : cpu[c] # Idle /\ cpu[c].row = i}

\* The probes up to the lookup.  tcp_rcv_established has a u32 sample and
\* returns at once if it is 0; udp_rcv takes any.
Lookup(c, v) ==
    /\ cpu[c] = Idle
    /\ runs < MaxRuns
    /\ table = "rtt" => v \in 1 .. W32 - 1
    /\ runs' = runs + 1
    /\ cpu' = [cpu EXCEPT ![c] = RunAt(v, Len(rows), 1, FALSE)]
    /\ IF rows = <<>>
       THEN UNCHANGED <<took, raced>>
       ELSE /\ took' = [took EXCEPT ![Len(rows)] = Append(@, v)]
            /\ raced' = IF Holders(Len(rows)) = {} THEN raced ELSE raced \cup {Len(rows)}
    /\ UNCHANGED <<table, rows, copy>>

\* Mutants of NewRow: the first sample is not entered in the histogram; the
\* minimum is left to the next run, as unset.
NewRowUnbucketed(v) ==
    [Cleared EXCEPT !.sum = v, !.count = 1, !.min = U32(v), !.max = U32(v)]

NewRowMinUnset(v) ==
    [sum |-> v, count |-> 1, min |-> 0, max |-> U32(v),
     hist |-> [b \in Buckets |-> IF b = Bucket(v) THEN 1 ELSE 0]]

\* The row of a run that found none.
NewRow(v) ==
    [sum |-> v, count |-> 1, min |-> U32(v), max |-> U32(v),
     hist |-> [b \in Buckets |-> IF b = Bucket(v) THEN 1 ELSE 0]]

\* Mutant of Insert: BPF_NOEXIST, so that a row inserted meanwhile stays.
InsertUnlessThere(c) ==
    /\ cpu[c] # Idle
    /\ cpu[c].row = 0
    /\ cpu' = [cpu EXCEPT ![c] = Idle]
    /\ IF rows = <<>>
       THEN /\ rows' = Append(rows, NewRow(cpu[c].sample))
            /\ took' = Append(took, <<cpu[c].sample>>)
       ELSE UNCHANGED <<rows, took>>
    /\ UNCHANGED <<table, copy, runs, raced>>

\* bpf_map_update_elem(BPF_ANY): also replaces a row inserted meanwhile.
Insert(c) ==
    /\ cpu[c] # Idle
    /\ cpu[c].row = 0
    /\ rows' = Append(rows, NewRow(cpu[c].sample))
    /\ took' = Append(took, <<cpu[c].sample>>)
    /\ cpu' = [cpu EXCEPT ![c] = Idle]
    /\ UNCHANGED <<table, copy, runs, raced>>

At(c, step) ==
    /\ cpu[c] # Idle
    /\ cpu[c].row # 0
    /\ cpu[c].step = Order[step]

\* The run goes on to its next step, or ends.
Advance(c) ==
    LET r == cpu[c]
    IN cpu' = [cpu EXCEPT ![c] = IF r.step = 5
                                 THEN Idle
                                 ELSE RunAt(r.sample, r.row, r.step + 1, FALSE)]

\* A step that writes to the row the run found.
Write(c, new) ==
    /\ rows' = [rows EXCEPT ![cpu[c].row] = new]
    /\ Advance(c)
    /\ UNCHANGED <<table, copy, runs, took, raced>>

Found(c) == rows[cpu[c].row]

\* __sync_fetch_and_add on sum_us, count and hist[bucket].
AddSum(c) ==
    /\ At(c, "sum")
    /\ Write(c, [Found(c) EXCEPT !.sum = Found(c).sum + cpu[c].sample])

AddCount(c) ==
    /\ At(c, "count")
    /\ Write(c, [Found(c) EXCEPT !.count = Found(c).count + 1])

AddHist(c) ==
    /\ At(c, "hist")
    /\ LET b == Bucket(cpu[c].sample)
           h == [Found(c).hist EXCEPT ![b] = Found(c).hist[b] + 1]
       IN Write(c, [Found(c) EXCEPT !.hist = h])

\* The comparison before a store: the sample in full against u32; a minimum
\* of 0 counts as unset.
Test(c, field, smaller) ==
    /\ At(c, field)
    /\ ~cpu[c].store
    /\ IF smaller
       THEN cpu' = [cpu EXCEPT ![c] = RunAt(cpu[c].sample, cpu[c].row, cpu[c].step, TRUE)]
       ELSE Advance(c)
    /\ UNCHANGED <<table, rows, copy, runs, took, raced>>

\* Mutant of TestMin: 0 counts as a minimum like any other.
TestMinNoSentinel(c) == Test(c, "min", cpu[c].sample < Found(c).min)

TestMin(c) == Test(c, "min", cpu[c].sample < Found(c).min \/ Found(c).min = 0)

TestMax(c) == Test(c, "max", cpu[c].sample > Found(c).max)

\* The store, whatever happened to the field since.
StoreMin(c) ==
    /\ At(c, "min")
    /\ cpu[c].store
    /\ Write(c, [Found(c) EXCEPT !.min = U32(cpu[c].sample)])

StoreMax(c) ==
    /\ At(c, "max")
    /\ cpu[c].store
    /\ Write(c, [Found(c) EXCEPT !.max = U32(cpu[c].sample)])

-----------------------------------------------------------------------------
(* The collector: a row is copied word by word, in any order. *)

Copying(i, val, left, pairs) ==
    /\ copy' = [of |-> i, val |-> val, left |-> left, pairs |-> pairs]
    /\ UNCHANGED <<table, rows, cpu, runs, took, raced>>

CopyBegins ==
    /\ copy = NoCopy
    /\ rows # <<>>
    /\ Copying(Len(rows), Cleared, Fields, Pairs)

CopyField(f) ==
    /\ copy # NoCopy
    /\ f \in copy.left
    /\ LET r == rows[copy.of]
           From(g, old, new) == IF g = f THEN new ELSE old
       IN Copying(copy.of,
                  [sum |-> From("sum", copy.val.sum, r.sum),
                   count |-> From("count", copy.val.count, r.count),
                   min |-> From("extremes", copy.val.min, r.min),
                   max |-> From("extremes", copy.val.max, r.max),
                   hist |-> copy.val.hist],
                  copy.left \ {f}, copy.pairs)

CopyPair(w) ==
    /\ copy # NoCopy
    /\ w \in copy.pairs
    /\ LET h == [b \in Buckets |-> IF b \div 2 = w THEN rows[copy.of].hist[b]
                                   ELSE copy.val.hist[b]]
       IN Copying(copy.of, [copy.val EXCEPT !.hist = h], copy.left, copy.pairs \ {w})

Copied == copy # NoCopy /\ copy.left = {} /\ copy.pairs = {}

\* The callback has the row.
CopyEnds ==
    /\ Copied
    /\ copy' = NoCopy
    /\ UNCHANGED <<table, rows, cpu, runs, took, raced>>

-----------------------------------------------------------------------------
(* The report. *)

\* Mutant of Join: the maximum of the first row stays.
JoinFirstMax(a, r) ==
    [sum |-> a.sum + r.sum,
     count |-> a.count + r.count,
     min |-> IF r.min > 0 /\ (a.min = 0 \/ r.min < a.min) THEN r.min ELSE a.min,
     max |-> a.max,
     hist |-> [b \in Buckets |-> a.hist[b] + r.hist[b]]]

\* One more row is added to a pair's aggregate.
Join(a, r) ==
    [sum |-> a.sum + r.sum,
     count |-> a.count + r.count,
     min |-> IF r.min > 0 /\ (a.min = 0 \/ r.min < a.min) THEN r.min ELSE a.min,
     max |-> IF r.max > a.max THEN r.max ELSE a.max,
     hist |-> [b \in Buckets |-> a.hist[b] + r.hist[b]]]

\* The aggregate of the rows that hold anything; the first one starts it.
Merge(rs) ==
    LET Started(a, r) ==
            IF a.count = 0 THEN [Cleared EXCEPT !.min = r.min, !.max = r.max] ELSE a
        merged[k \in 0 .. Len(rs)] ==
            IF k = 0 THEN Cleared
            ELSE IF rs[k].count = 0 THEN merged[k - 1]
            ELSE Join(Started(merged[k - 1], rs[k]), rs[k])
    IN merged[Len(rs)]

\* PercentileFromHist for pct per cent: the middle of the first bucket that
\* brings the running total to the rank, 1 for bucket 0; the lower edge of
\* the last bucket if the histogram holds fewer samples than the rank.
Percentile(hist, count, pct) ==
    LET target == IF (count * pct) \div 100 = 0 THEN 1 ELSE (count * pct) \div 100
        Total(b) == SumOn(hist, 0 .. b)
        reached == {b \in Buckets : Total(b) >= target}
    IN IF reached = {} THEN Pow2[Top]
       ELSE IF Min(reached) = 0 THEN 1
       ELSE (Pow2[Min(reached)] + Pow2[Min(reached) + 1]) \div 2

\* Mutant of Clamp: no clamping.
ClampNever(p, max) == p

\* "Histogram midpoints can overshoot the true max"
Clamp(p, max) == IF max > 0 /\ p > max THEN max ELSE p

\* A line of the report; the average is sum / samples.
Report(rs) ==
    LET a == Merge(rs)
    IN [sum |-> a.sum, samples |-> a.count, min |-> a.min, max |-> a.max,
        p95 |-> Clamp(Percentile(a.hist, a.count, 95), a.max),
        p99 |-> Clamp(Percentile(a.hist, a.count, 99), a.max)]

-----------------------------------------------------------------------------
Next ==
    \/ \E c \in CPUs, v \in Samples : Lookup(c, v)
    \/ \E c \in CPUs :
        \/ Insert(c)
        \/ AddSum(c) \/ AddCount(c) \/ AddHist(c)
        \/ TestMin(c) \/ TestMax(c)
        \/ StoreMin(c) \/ StoreMax(c)
    \/ CopyBegins
    \/ \E f \in Fields : CopyField(f)
    \/ \E w \in Pairs : CopyPair(w)
    \/ CopyEnds

Spec == Init /\ [][Next]_vars

-----------------------------------------------------------------------------
(* What a list of samples ought to give. *)

SumOf(s) == SumOn(s, DOMAIN s)
Least(s) == Min(ToSet(s))
Greatest(s) == Max(ToSet(s))

\* Bucket i covers [2^i, 2^(i+1)), the last one also everything above.
Covers(i, v) ==
    /\ i = 0 \/ Pow2[i] <= v
    /\ i = Top \/ v < Pow2[i + 1]
BucketOf(v) == CHOOSE i \in Buckets : Covers(i, v)

Summary(s) ==
    [sum |-> SumOf(s), count |-> Len(s), min |-> Least(s), max |-> Greatest(s),
     hist |-> [b \in Buckets |-> Cardinality({k \in DOMAIN s : BucketOf(s[k]) = b})]]

\* The sample a percentile stands for, of the rank rounded down: the least
\* that as many samples as the rank do not exceed.
Ranked(s, pct) ==
    LET rank == IF (Len(s) * pct) \div 100 = 0 THEN 1 ELSE (Len(s) * pct) \div 100
    IN Min({v \in ToSet(s) : Cardinality({k \in DOMAIN s : s[k] <= v}) >= rank})

-----------------------------------------------------------------------------
(* Safety. *)

\* Every sample of row i fits u32 and is at least a microsecond.
Plain(i) == \A k \in DOMAIN took[i] : took[i][k] \in 1 .. W32 - 1

\* The runs on row i that have yet to do a step.
Before(i, step) == {c \in Holders(i) : cpu[c].step <= Order[step]}

\* However runs interleave on a row, the count and every bucket miss exactly
\* the runs that have not come to that step: nothing is counted twice or
\* lost, and the count is ahead of the histogram by at most the CPUs.
CountsTally ==
    \A i \in DOMAIN rows :
        /\ rows[i].count + Cardinality(Before(i, "count")) = Len(took[i])
        /\ \A b \in Buckets :
            rows[i].hist[b]
              + Cardinality({c \in Before(i, "hist") : Bucket(cpu[c].sample) = b})
              = Cardinality({k \in DOMAIN took[i] : Bucket(took[i][k]) = b})

\* A report misses a sample only with a row that was replaced: each sample is
\* counted in one of the rows ever inserted, or its run is under way.  And a
\* row is replaced only by a run that began before there was any: with all
\* samples to come, there are never more rows, inserted or about to be, than
\* CPUs.
SamplesLostOnlyToRaces ==
    /\ Len(rows) + Cardinality(Holders(0)) <= Cardinality(CPUs)
    /\ runs = Cardinality(Holders(0)) +
              SumOn([i \in DOMAIN rows |->
                        rows[i].count + Cardinality(Before(i, "count"))], DOMAIN rows)

\* Whatever the races between comparing and storing: the minimum is never
\* above the maximum or unset, and both are samples, unless a sample was 0
\* or did not fit u32.
ExtremesBracket ==
    \A i \in DOMAIN rows : Plain(i) =>
        /\ rows[i].min <= rows[i].max
        /\ {rows[i].min, rows[i].max} \subseteq ToSet(took[i])

\* If runs did not overlap on a row, it holds the greatest sample that fits
\* u32, and the least of the samples since the last that was 0: such a
\* sample makes the minimum unset.
ExtremesExact ==
    \A i \in DOMAIN rows \ raced :
        Holders(i) = {} /\ ToSet(took[i]) \subseteq 0 .. W32 - 1 =>
            LET zero == Max({0} \cup {k \in DOMAIN took[i] : took[i][k] = 0})
                since == SubSeq(took[i], zero + 1, Len(took[i]))
            IN /\ rows[i].max = Greatest(took[i])
               /\ rows[i].min = IF since = <<>> THEN 0 ELSE Least(since)

\* Percentiles of a report that a torn copy went into, whose count may be
\* ahead of or behind its histogram: never below the bucket of the least
\* sample, nor above the greatest.  This is said of Plain rows only: a sample
\* that does not fit u32 is in a bucket of what is left of it.
TornCopyPercentiles ==
    Copied /\ Plain(copy.of) =>
        \A s \in Others :
            LET all == took[copy.of] \o s
                r == Report(<<copy.val, Summary(s)>>)
            IN \A p \in {r.p95, r.p99} :
                Pow2[BucketOf(Least(all))] <= p /\ p <= Greatest(all)

\* A report made of rows no run is at, in any order, is that of all their
\* samples: its sum, count and extremes exactly, and each percentile lies in
\* the bucket of the sample of its rank and not above the greatest.  This is
\* said of rows on which runs never overlapped (or the extremes may be wrong)
\* and that are Plain (or a minimum may be unset, a bucket wrong).
ReportExact ==
    \A i \in DOMAIN rows \ raced, s \in Others : Holders(i) = {} /\ Plain(i) =>
        LET all == took[i] \o s
            r == Report(<<rows[i], Summary(s)>>)
        IN /\ r = Report(<<Summary(s), rows[i]>>)
           /\ r.sum = SumOf(all) /\ r.samples = Len(all)
           /\ r.min = Least(all) /\ r.max = Greatest(all)
           /\ r.p95 <= r.max /\ BucketOf(r.p95) = BucketOf(Ranked(all, 95))
           /\ r.p99 <= r.max /\ BucketOf(r.p99) = BucketOf(Ranked(all, 99))
=============================================================================
