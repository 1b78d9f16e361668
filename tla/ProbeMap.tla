------------------------------ MODULE ProbeMap ------------------------------
(***************************************************************************)
(* throughput_map: the kprobes that fill it on every CPU                   *)
(* (bpf/tcp_connect.bpf.c) and the user-space tracker that polls it        *)
(* (internal/throughput/tracker.go through Collector.ReadThroughput).      *)
(* retrans_map is the same with one counter and a size of 1.               *)
(*                                                                         *)
(* A probe run looks its row up and then, in a second step, either adds to *)
(* the row atomically or inserts a new row with BPF_ANY: two CPUs that     *)
(* both miss insert one after the other, and the second row replaces the   *)
(* first.  Rows are never deleted.  An add through the pointer of a        *)
(* replaced row goes to memory nobody reads.  Counters are 64 bits wide;   *)
(* here they count modulo Wrap.                                            *)
(***************************************************************************)
EXTENDS Numbers

CONSTANTS
    CPUs,        \* the CPUs probes run on
    Keys,        \* connections: (src_ip, dst_ip, src_port, dst_port)
    Sizes,       \* bytes one call may send or receive
    Capacity,    \* max_entries of the map (65536)
    Wrap,        \* counters count modulo this (2^64)
    MaxRuns,     \* bound: probe runs
    MaxWatches   \* bound: calls of Watch

ASSUME CPUsFinite == IsFiniteSet(CPUs)
ASSUME KeysFinite == IsFiniteSet(Keys)
ASSUME CapacityNat == Capacity \in Nat \ {0}
ASSUME WrapNat == Wrap \in Nat \ {0}
ASSUME SizesFit == Sizes \subseteq 0 .. Wrap - 1
ASSUME RunBounds == MaxRuns \in Nat /\ MaxWatches \in Nat

VARIABLES
    map,         \* throughput_map: [keys present -> row]
    cpu,         \* [CPUs -> the probe run in progress]
    seen,        \* [Keys -> [Dirs -> bytes of all finished probe runs]]
    inserts,     \* [Keys -> how often a row was inserted]
    runs,        \* probe runs so far
    watching,    \* Watch is iterating over the map
    due,         \* the rows there when the iteration began: [keys -> gen]
    cur,         \* Watch's cur: [keys read -> counters]
    prev,        \* Tracker.prev: [keys -> counters of the last Watch]
    flows,       \* Tracker.flows after Watch: [keys -> bytes since]
    shown,       \* [Keys -> [Dirs -> what Watch reported, mod Wrap, since it
                 \*                   last did not meet the key's row]]
    peak,        \* Tracker.flows of the tracker that calls Snapshot, once
    watches      \* calls of Watch so far

probeVars == <<map, cpu, seen, inserts, runs>>
watchVars == <<watching, due, cur, prev, flows, shown, watches>>
vars == <<probeVars, watchVars, peak>>

Dirs == {"tx", "rx"}
Counter == 0 .. Wrap - 1
Counters == [Dirs -> Counter]
Zero == [d \in Dirs |-> 0]

\* Arithmetic of unsigned counters.
Plus(a, b) == IF a + b < Wrap THEN a + b ELSE a + b - Wrap
MinusSigned(a, b) == a - b   \* mutant of Minus: signed counters
Minus(a, b) == IF a >= b THEN a - b ELSE a + Wrap - b

\* throughput_val_t, and which insertion made the row.
Row(n, gen) == [n |-> n, gen |-> gen]

Idle == [pc |-> "idle"]
Busy == [pc : {"hit", "miss"}, key : Keys, dir : Dirs, size : Sizes, gen : Nat]

\* A reading of the map: counters for some of the keys.
IsReading(f) ==
    /\ DOMAIN f \subseteq Keys
    /\ \A k \in DOMAIN f : f[k] \in Counters

TypeOK ==
    /\ DOMAIN map \subseteq Keys
    /\ \A k \in DOMAIN map : map[k].n \in Counters /\ map[k].gen \in Nat
    /\ cpu \in [CPUs -> {Idle} \cup Busy]
    /\ seen \in [Keys -> [Dirs -> Nat]]
    /\ inserts \in [Keys -> Nat]
    /\ runs \in 0 .. MaxRuns
    /\ watching \in BOOLEAN
    /\ DOMAIN due \subseteq Keys
    /\ IsReading(cur)
    /\ IsReading(prev)
    /\ IsReading(flows)
    /\ IsReading(peak)
    /\ shown \in [Keys -> Counters]
    /\ watches \in 0 .. MaxWatches

Empty == [k \in {} |-> Zero]
NoneDue == [k \in {} |-> 0]

Init ==
    /\ map = [k \in {} |-> Row(Zero, 0)]
    /\ cpu = [c \in CPUs |-> Idle]
    /\ seen = [k \in Keys |-> Zero]
    /\ inserts = [k \in Keys |-> 0]
    /\ runs = 0
    /\ watching = FALSE
    /\ due = NoneDue
    /\ cur = Empty
    /\ prev = Empty
    /\ flows = Empty
    /\ shown = [k \in Keys |-> Zero]
    /\ peak = Empty
    /\ watches = 0

\* f with f[k] set to v, k being new or not.
Put(f, k, v) == [x \in DOMAIN f \cup {k} |-> IF x = k THEN v ELSE f[x]]

-----------------------------------------------------------------------------
(* The probes. *)

\* tcp_sendmsg and tcp_cleanup_rbuf up to the lookup.
Lookup(c, k, d, size) ==
    /\ cpu[c] = Idle
    /\ runs < MaxRuns
    /\ runs' = runs + 1
    /\ cpu' = [cpu EXCEPT ![c] =
                [pc |-> IF k \in DOMAIN map THEN "hit" ELSE "miss",
                 key |-> k, dir |-> d, size |-> size, gen |-> inserts[k]]]
    /\ UNCHANGED <<map, seen, inserts, watchVars, peak>>

\* kprobe__tcp_sendmsg counts any size, also 0.
TcpSendmsg(c, k, size) == Lookup(c, k, "tx", size)

\* kprobe__tcp_cleanup_rbuf returns at once unless copied > 0.
TcpCleanupRbuf(c, k, copied) ==
    /\ copied > 0
    /\ Lookup(c, k, "rx", copied)

\* A run ends, having counted its bytes or lost them.
Finish(c) ==
    /\ cpu' = [cpu EXCEPT ![c] = Idle]
    /\ seen' = [seen EXCEPT ![cpu[c].key][cpu[c].dir] = @ + cpu[c].size]
    /\ UNCHANGED <<runs, watchVars, peak>>

\* Mutant of FetchAndAdd: a row that is there is updated like a new one.
FetchAndAddByUpdate(c) ==
    /\ cpu[c].pc = "hit"
    /\ LET b == cpu[c]
           sum == [map[b.key].n EXCEPT ![b.dir] = Plus(@, b.size)]
       IN map' = Put(map, b.key, Row(sum, inserts[b.key] + 1))
    /\ inserts' = [inserts EXCEPT ![cpu[c].key] = @ + 1]
    /\ Finish(c)

\* __sync_fetch_and_add through the pointer the lookup returned.
FetchAndAdd(c) ==
    /\ cpu[c].pc = "hit"
    /\ LET b == cpu[c]
           sum == [map[b.key].n EXCEPT ![b.dir] = Plus(@, b.size)]
       IN map' = IF map[b.key].gen = b.gen
                 THEN Put(map, b.key, Row(sum, b.gen))
                 ELSE map
    /\ Finish(c)
    /\ UNCHANGED inserts

\* Mutant of MapUpdate: the run goes on to add to the row it has just
\* inserted.
MapUpdateAlsoAdds(c) ==
    /\ cpu[c].pc = "miss"
    /\ cpu[c].key \in DOMAIN map \/ Cardinality(DOMAIN map) < Capacity
    /\ map' = Put(map, cpu[c].key,
                  Row([Zero EXCEPT ![cpu[c].dir] = 2 * cpu[c].size], inserts[cpu[c].key] + 1))
    /\ inserts' = [inserts EXCEPT ![cpu[c].key] = @ + 1]
    /\ Finish(c)

\* Mutant of MapUpdate: BPF_EXIST, only a row that is there is updated.
MapUpdateExisting(c) ==
    /\ cpu[c].pc = "miss"
    /\ cpu[c].key \in DOMAIN map \/ Cardinality(DOMAIN map) < Capacity
    /\ LET k == cpu[c].key
           new == [Zero EXCEPT ![cpu[c].dir] = cpu[c].size]
       IN IF k \in DOMAIN map
          THEN /\ map' = Put(map, k, Row(new, inserts[k] + 1))
               /\ inserts' = [inserts EXCEPT ![k] = @ + 1]
          ELSE UNCHANGED <<map, inserts>>
    /\ Finish(c)

\* bpf_map_update_elem(BPF_ANY) of a row that holds this run's bytes only.
MapUpdate(c) ==
    /\ cpu[c].pc = "miss"
    /\ cpu[c].key \in DOMAIN map \/ Cardinality(DOMAIN map) < Capacity
    /\ LET b == cpu[c]
           new == [Zero EXCEPT ![b.dir] = b.size]
       IN /\ map' = Put(map, b.key, Row(new, inserts[b.key] + 1))
          /\ inserts' = [inserts EXCEPT ![b.key] = @ + 1]
    /\ Finish(c)

\* The map is full: the update fails and nobody looks at its result.
MapFull(c) ==
    /\ cpu[c].pc = "miss"
    /\ cpu[c].key \notin DOMAIN map
    /\ Cardinality(DOMAIN map) >= Capacity
    /\ Finish(c)
    /\ UNCHANGED <<map, inserts>>

-----------------------------------------------------------------------------
(* The tracker. *)

\* Watch begins to iterate.
WatchBegins ==
    /\ ~watching
    /\ watches < MaxWatches
    /\ watches' = watches + 1
    /\ watching' = TRUE
    /\ due' = [k \in DOMAIN map |-> map[k].gen]
    /\ cur' = Empty
    /\ UNCHANGED <<probeVars, prev, flows, shown, peak>>

\* ReadThroughput's callback for one row.  A row that replaces another goes
\* to the head of its bucket: if that was the row the iteration had come to,
\* the rows of the bucket come once more.
WatchReads(k) ==
    /\ watching
    /\ k \in DOMAIN map
    /\ k \notin DOMAIN cur \/ \E x \in DOMAIN map : map[x].gen > 1
    /\ cur' = Put(cur, k, map[k].n)
    /\ UNCHANGED <<probeVars, watching, due, prev, flows, shown, watches, peak>>

\* Mutant of Delta: the operands are swapped.
DeltaBackwards(k) ==
    IF k \in DOMAIN prev
    THEN [d \in Dirs |-> Minus(prev[k][d], cur[k][d])]
    ELSE cur[k]

\* What Watch reports for a key: the difference to the last Watch, in
\* uint64, or everything if the key is new.
Delta(k) ==
    IF k \in DOMAIN prev
    THEN [d \in Dirs |-> Minus(cur[k][d], prev[k][d])]
    ELSE cur[k]

\* The iteration is over (rows inserted or replaced meanwhile may have been
\* missed): flows is made anew from the differences that are not zero.
WatchEnds ==
    /\ watching
    /\ \A k \in DOMAIN due : map[k].gen = due[k] => k \in DOMAIN cur
    /\ flows' = [k \in {x \in DOMAIN cur : Delta(x) # Zero} |-> Delta(k)]
    /\ shown' = [k \in Keys |-> IF k \in DOMAIN cur
                                THEN [d \in Dirs |-> Plus(shown[k][d], Delta(k)[d])]
                                ELSE Zero]
    /\ prev' = cur
    /\ watching' = FALSE
    /\ due' = NoneDue
    /\ cur' = Empty
    /\ UNCHANGED <<probeVars, watches, peak>>

\* Mutant of WatchFails: the rows read so far become the base of the next
\* differences without having been reported.
WatchFailsKeepsCur ==
    /\ watching
    /\ watching' = FALSE
    /\ due' = NoneDue
    /\ cur' = Empty
    /\ prev' = cur
    /\ UNCHANGED <<probeVars, flows, shown, watches, peak>>

\* The iteration fails: flows and prev stay.
WatchFails ==
    /\ watching
    /\ watching' = FALSE
    /\ due' = NoneDue
    /\ cur' = Empty
    /\ UNCHANGED <<probeVars, prev, flows, shown, watches, peak>>

\* Snapshot's callback for one row.  Its only caller, top without -w, calls
\* it once on a new tracker, so the merge with an earlier reading (lines
\* 50-56) is not reached.
SnapshotReads(k) ==
    /\ k \in DOMAIN map \ DOMAIN peak
    /\ peak' = Put(peak, k, map[k].n)
    /\ UNCHANGED <<probeVars, watchVars>>

-----------------------------------------------------------------------------
Next ==
    \/ \E c \in CPUs, k \in Keys, size \in Sizes :
        TcpSendmsg(c, k, size) \/ TcpCleanupRbuf(c, k, size)
    \/ \E c \in CPUs : FetchAndAdd(c) \/ MapUpdate(c) \/ MapFull(c)
    \/ WatchBegins
    \/ \E k \in Keys : WatchReads(k)
    \/ WatchEnds
    \/ WatchFails
    \/ \E k \in Keys : SnapshotReads(k)

Spec == Init /\ [][Next]_vars

-----------------------------------------------------------------------------
(* Safety. *)

\* The runs about to insert a row for k.
Misses(k) == {c \in CPUs : cpu[c] # Idle /\ cpu[c].key = k /\ cpu[c].pc = "miss"}

\* A row, and whatever a tracker copied from it, never claims more bytes
\* than finished probe runs saw: races lose bytes and never invent any.
NeverOvercounts ==
    /\ \A k \in DOMAIN map, d \in Dirs : map[k].n[d] <= seen[k][d]
    /\ \A k \in DOMAIN prev, d \in Dirs : prev[k][d] <= seen[k][d]
    /\ \A k \in DOMAIN peak, d \in Dirs : peak[k][d] <= seen[k][d]

\* A row is replaced only by runs that missed before it was first inserted:
\* with n CPUs there are at most n insertions, ever, and a row that no run
\* misses any more is final.
InsertsBounded ==
    \A k \in Keys : inserts[k] + Cardinality(Misses(k)) <= Cardinality(CPUs)

\* Bytes are lost for two reasons only.  A row that was inserted once holds
\* all bytes of its connection, whichever runs are still in progress; and a
\* connection whose bytes were seen has a row, unless the map is full.  (A
\* full map stays full: a connection it turned away never gets a row.)
LossExplained ==
    /\ \A k \in DOMAIN map, d \in Dirs :
          inserts[k] = 1 /\ seen[k][d] < Wrap => map[k].n[d] = seen[k][d]
    /\ \A k \in Keys \ DOMAIN map, d \in Dirs :
          seen[k][d] # 0 => Cardinality(DOMAIN map) >= Capacity

\* Everything Watch reported for a key, since an iteration last missed its
\* row, adds up, in uint64, to the counter it read last, whatever was lost,
\* wrapped or failed in between, and though a row may be met twice.
WatchTelescopes == \A k \in DOMAIN prev : shown[k] = prev[k]

\* A reported difference exceeds the bytes seen only when the row was
\* replaced, so that the counter went backwards.
DeltaExplained ==
    \A k \in DOMAIN flows, d \in Dirs :
        flows[k][d] <= seen[k][d] \/ inserts[k] > 1

\* throughput/tracker_test.go:234 "Second call with incremented values -
\* should get delta": what Watch reports for a connection is what the
\* connection transferred meanwhile, so never more than it ever transferred.
DeltaWithinSeen ==
    \A k \in DOMAIN flows, d \in Dirs : flows[k][d] <= seen[k][d]

-----------------------------------------------------------------------------
(* The map implements the total Telemetry works with. *)

Cells == Keys \X Dirs
Held == [x \in Cells |-> IF x[1] \in DOMAIN map THEN map[x[1]].n[x[2]] ELSE 0]
Finished == [x \in Cells |-> seen[x[1]][x[2]]]

Total == INSTANCE TableTotal
    WITH seen <- SumOn(Finished, Cells), total <- SumOn(Held, Cells)

\* Seen from outside, the table's total moves by whole probe runs, each of
\* which adds at most its own bytes, and an overflow is needed to empty it.
ImplementsTotal == Total!TotalSpec
=============================================================================
