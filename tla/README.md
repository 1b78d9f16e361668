# A verification project for kubectl-detective

TLA+ modules for the parts of kubectl-detective that run concurrently, fail,
restart or race: the BPF programs that count, the loops that read their tables,
the resolvers that follow the cluster, the agents and the aggregator. TLC checks
the modules on small instances; TLAPS proves the central safety properties for
every value of the constants. `PROJECT.json` lists the runs, the mutants, the
correspondence of definitions and source lines, the hazards and the theorems.

## The system

| component | state | operations | properties that make it correct |
|---|---|---|---|
| BPF programs (`bpf/tcp_connect.bpf.c`) | hash maps for throughput, retransmissions, RTT, DNS statistics and open DNS queries; ring buffers `events` and `dns_events` | one kprobe each, run concurrently on all CPUs | races may lose counts and never invent any; a query is sampled once; an answer is measured from its own query |
| collector (`internal/flow/collector.go`) | the loaded objects, the ring reader | `Read` blocks for one connect event; `Read*` iterate over a table | what is reported adds up, in whatever state an iteration meets a row |
| throughput tracker (`internal/throughput`) | `flows`, `prev` | `Snapshot` reads the table, `Watch` reports differences | the differences add up |
| latency, DNS, retransmission trackers | the last list | read a table, merge rows of the same names, compute percentiles, sort | every row counts once; percentiles lie in the bucket of the sample they stand for |
| collection commands (`cmd/map.go`, `flows.go`, `top.go`, `retrans.go`, `latency.go`, `dns.go`) | flags, timer, signal channel, stdin goroutine, ticker | a loop without `-w`; two kinds of loop with `-w` | they end when they should; no event is handled twice or silently dropped |
| resolvers (`internal/resolver`) | tables IP to Pod and IP to Service | list, three watch goroutines, `Resolve`, `Close` | names are those of the cluster; `Close` ends the goroutines |
| agent (`internal/agent`, `cmd/agent.go`) | the snapshot being filled, the ticker, the connection | handshake, tick, collect, send | one call at a time, nothing overstated, it ends on an interrupt |
| aggregator (`internal/aggregator`, `cmd/aggregator.go`) | the newest snapshot per node | `SendSnapshot`, `Get*` | shows what the nodes sent, and goes on showing it after restarts |
| status command (`cmd/status.go`) | none | finds the aggregator, makes four queries | consistent fallback |
| kind runner, kubeconfig selection | none that lasts | choose a node, choose a file | the best candidate that works is used, whatever fails before it |
| graph, export | a set of edges | format | |

Interactions: kprobes and user space share the BPF maps without a lock; the
agent calls the aggregator with one unary RPC; the commands share the collector
and a resolver with their goroutines; the API server sends watch events.

The hard behaviours are: lookup and insertion of a row are separate steps on
several CPUs; a table is read while it is written; an RPC may be handled after
its caller gave it up; agents and the aggregator crash and restart at any point;
a loop looks at its timer only between blocking reads; watches are closed and
restarted while the cluster changes; DNS answers are late, duplicated, reordered
or lost. "hazards" in `PROJECT.json` lists each at its line.

## The modules

| module | models | proofs |
|---|---|---|
| `Telemetry` | agents, RPCs, aggregator | `TelemetryProofs` |
| `SnapshotRegister` | abstract: what the aggregator promises | |
| `ProbeMap` | `throughput_map`, its probes, `Tracker.Snapshot` and `Watch` | `ProbeMapProofs` |
| `TableTotal` | abstract: the total of a table, as `Telemetry` uses it | |
| `DnsProbe` | `udp_sendmsg`, `udp_rcv`, `dns_query_map` | `DnsProbeProofs` |
| `CaptureLoop` | `tcp_connect`, the ring buffer, the six commands' loops | `CaptureLoopProofs` |
| `LatencyRow` | one row of `rtt_map` or `dns_stats_map`: its probes, the copy to user space, the report made of it | `LatencyRowProofs`, `LatencyReportProofs` |
| `Resolver` | both resolvers against a changing cluster | `ResolverProofs` |
| `Numbers` | operators: sums of a function over a finite set, powers of two | `NumberTheorems` |
| `Ranking` | operators: from the rows of a table to ranked lines | |
| `Fallback` | operators: which kind node, kubeconfig and aggregator a command ends up with | |

`MC*` modules instantiate them for TLC, `*.cfg` are the instances. An operator
whose comment begins "Mutant of" is a deliberately wrong variant of the next
definition; no specification uses it.

### Telemetry

State: per node the position of `Run` (`phase`: down, handshake, idle,
collecting, sending), whether its context is cancelled, the number of processes
started, the snapshot `collect` is filling and the table it reads next; the true
counts and the table totals; the RPCs in progress; whether the aggregator runs
and its map `store`. Each stage of `Run` is an action: `Start` (collector created,
handshake sent), `Tick`, `ReadTable` and `ReadFails` (one table each; `collect`
ignores the error), `Send`, `Reply`, `CallFails`, `CallLost`, `CallBreaks`, `Stop`.
`SendSnapshot` is the handler with `Store.Update`. `Crash`, `Interrupt` and
`ServerStops` happen anywhere. A unary call has no deadline and is not repeated;
a call its caller gave up may still be handled, so a snapshot can be replaced by
an older one. A crash loses the agent's tables; an aggregator restart loses the
store.

Abstractions: a table is its total (`ProbeMap` says what a total may do); the
timestamp is a counter per node, which assumes that a node's clock does not go
back between snapshots; the server that stops waits for its handlers
(`GracefulStop`), which is the same as their running before `ServerStops`; the nil
snapshot, which no agent sends, is left out; the backoff with which gRPC reconnects
to a server that is back takes no time, so a call made while the server runs reaches
it, unless a fault breaks it.
`cut` is no field of the message: it remembers which tables a snapshot shows
incompletely, so that `RowsStayShown` can say that rows vanish from the aggregator for
this reason, for an older snapshot or a restart, and for no other.

### ProbeMap and TableTotal

One CPU's probe run is two steps: look the row up, then add atomically, or insert
with `BPF_ANY`, or find the map full. Two CPUs that both miss insert one after the
other. The memory of a replaced row is taken not to be reused while a run
still holds its pointer. `Watch` reads the rows one by one while probes go on, and
computes differences modulo `Wrap`; it may fail in between. An iteration meets every
row that is there from its beginning to its end; a row inserted or replaced meanwhile
may be missed, and where rows were replaced one may be met twice. `Snapshot` is
called once on a new tracker (`cmd/top.go`), so its reading is a single pass and the
maximum with an earlier one is not reached. `LossExplained` names the two ways in
which bytes are lost: a row inserted twice, and a full map. `seen` counts what
finished runs saw. `TableTotal` is the step from the
outside: a run adds at most its share to the total, and it leaves no empty table
unless a counter may have overflowed (a row whose counter comes round to 0 is the
one case in which a table that saw traffic adds up to nothing; here counters wrap at
4, so that it happens). `Telemetry`'s `Probe` is that step with a share of one on a
table far from an overflow, and `ImplementsTotal` ties the two together.
`tcp_retransmit_skb` is the same program with one counter.

### DnsProbe

One client and one server. The client's port is the key, in host order when the
query is noted and in network order when the answer is looked up; `Bswap16` is
what the header does on a little-endian machine. Answers are delivered late, in
any order, repeatedly, or never, on any CPU, while new queries go out; entries that
are never matched stay. A query sent with `sendto` on an unconnected socket is not
noted. Taking the time (`UdpSendmsg`) and updating the map (`Note`, `NoteFull`) are two
steps: queries are numbered in the order of their times, and two that share a port may
be noted in the other order. On the receiving side the lookup, the deletion and the
sample are three.

The history variable `ops` records what was done to the map: queries noted or turned
away by a full map, entries deleted, lookups that found nothing. No guard reads it.
`MissesExplained` reads from it why the answer to a query found no entry: the byte
order of its port; a map full of queries of other ports, unanswered or never matched,
when the query came; or a deletion of its port's entry since, by its own answer or by
the run for an older one that deletes whatever the key holds by then.

### LatencyRow

`kprobe__tcp_rcv_established` and the second half of `kprobe__udp_rcv` do the same
five things to a row they find, in different orders (`RttOrder`, `DnsOrder`); `table`
is chosen initially. A run is a lookup (`Lookup`) followed by an insertion with
`BPF_ANY` (`Insert`) or by `AddSum`, `AddCount`, `AddHist`, which are atomic, and by
the minimum and maximum, each a comparison (`TestMin`, `TestMax`) and, in a separate
step, a store (`StoreMin`, `StoreMax`) that overwrites whatever came between. The
comparison is of the sample in full, the store is of its low 32 bits (`U32`), and 0
means unset. A row that a second insertion replaces lives on for the runs and the
copy that hold it; `rows` keeps all of them, and `SamplesLostOnlyToRaces` accounts for
every sample over all of them: a report misses samples only with a replaced row, and
rows are replaced fewer times than there are CPUs. Taking a row's memory not to be reused
meanwhile is the same abstraction as in `ProbeMap`. Two runs overlap on one RTT row
only if network namespaces share the connection's addresses, since one socket's
segments are handled under its lock; on a DNS row whenever two answers arrive at
once.

`CopyField` and `CopyPair` are the copy a map iteration makes: 64-bit words in any
order, so both extremes are read together and two buckets are. `Report` is what
`Store.GetLatency`, `Store.GetDNS` and the two trackers do with the rows of one pair of
names, which is the same code four times: `Merge`, `Percentile`, `Clamp`. The average
is the sum over the samples and not computed. Ranks are exact per cents here; the
code computes them in floating point.

The histogram's 32-bit counters do not wrap in the model.

### Ranking

`TopTalkers`, `TopEndpoints`, `GetTop` and `GetRetrans` as folds over rows in any order
(Go ranges over a map in any order), with counters modulo `Wrap`. `MCProbeMap`
checks, for every list of up to three rows over two sources, two destinations with
one name and counters that wrap, that a line is the sum of the rows of its names,
and that all rankings of the same lines show the same totals.

### Fallback

What a command tries, as functions of how the attempts turn out: `RunInKind` and
`RunInKindTo` (which differ in their output only), `RunAgentInKind`, `NewClient`,
`StatusAsks`, `findAggregatorNamespace`. `MCCaptureLoop` checks, for up to three nodes
with every combination of role, readable `admin.conf`, writable binary and
kubeconfig, that the node chosen is the best that could be prepared and that one is
found if there is one; for every list of up to two files in `KUBECONFIG`, that
leaving out duplicates and files that cannot be parsed does not change which file
comes first; a file that is parsed but of which no client can be made ends the search
with an error. Once a command was started in a node its result is final: no other node is
tried, as in the code.

### CaptureLoop

`cmd`, `watch`, `limited` are chosen initially, so one specification covers six
commands and three kinds of loop. Channels are Booleans (timer, signal,
ticker, stdin's `done`). Without `-w` and in the streams of `map` and `flows` the
loop is: look at the channels without waiting (`TimerCase`, `SigCase`, `DoneCase`,
`DefaultCase`), then wait in `Collector.Read` (`ReadEvent`, `ReadFails`). The
displays of `top`, `retrans`, `latency` and `dns` wait for ticker or signal
(`Refresh`, `DisplaySigCase`) while a goroutine empties the ring (`DrainRead`).
After a failed start, a failed read or a failed output the command returns an
error.

### Resolver

`mode` is `-n`, `--pod` or the default. `List` and `ListFails` run in the order of
`NewService`; then each kind has a goroutine that is starting, open or ended.
Opening a watch without a resource version delivers an ADDED event for every
existing object, in any order, then the changes; a closed channel loses what it
had not delivered, and the goroutine restarts the watch; a watch that cannot be
started ends its goroutine. The event handlers are those of the code: a deleted
Pod removes its address whoever has it now, a deleted Service every address of its
name, a deleted slice its addresses where they still bear its name, and MODIFIED
removes nothing. Names carry no namespace, as in the code.

The history variable `doubt` collects the addresses that may have a wrong name,
each for one of these reasons: two objects had it at once; an object gave it up
while it lived; it was given up while no watch was open, or in an event that was
lost; a Service of its name was deleted while others bear the name; it moved
between a Service and a slice while the other goroutine's queue still mentioned
it. `PodNamesRight` and `ServiceNamesRight` say that there are no others. None can
be left out: with any of them removed from the definition TLC finds a wrong name.

## Runs

| run | instance | shows |
|---|---|---|
| `telemetry_safety` | 2 nodes, 1 table, 3 snapshots per node, 2 faults | what the aggregator shows is honest, goes back in time only through late calls of nobody, and loses rows only for the reasons listed |
| `telemetry_liveness` | 1 node, 2 tables, 2 faults | ticks get published, restarted agents come back, interrupted agents end |
| `telemetry_flows` | 1 node | violation: connect events never reach the aggregator |
| `probemap_safety` | 2 CPUs, 2 connections, room for 1, 3 probe runs, 2 watches | bytes are lost for two reasons and never invented; everything reported adds up |
| `probemap_delta` | 2 CPUs, 1 connection | violation: a difference of nearly 2^64 |
| `capture_stop` | ring of 2, 4 events, 2 refreshes | commands stop, one event late at most |
| `capture_deadline` | the same | violation: the deadline is not noticed on a quiet node |
| `capture_ctrld` | the same | violation: Ctrl+D does not end a display |
| `dns_match` | 2 CPUs, 3 ports, 3 queries, 3 deliveries, map of 2 | what a sample is measured from, why an answer is overlooked |
| `dns_ports` | 1 CPU, 1 ordinary port | violation: an answer is not matched with its query |
| `latency_row` | 2 CPUs, 3 runs, samples 0, 3, 9 and one that does not fit, 3 buckets | what a row, a torn copy of it, and a report can be trusted for |
| `resolver_watch` | 1 address, 2 Pods, 2 Services of one name, 3 slices, 3 changes, 1 closed channel | names are wrong only for the reasons above; `Close` ends every goroutine |

The bounds are small because each hazard needs few steps. A regression of the
aggregator needs two snapshots of one node and one fault; the second fault and
node let regressions combine. A lost insertion needs two runs and a third to come
after it; the second connection finds the map full. A wrong DNS match needs two
queries of one port and one duplicate; the ports are one with equal bytes, and two
that read as each other. A late event of a loop needs one event more than the ring
holds. In `LatencyRow` one run inserts and two overlap on its row, or two insert and
one updates either row; a sample of 0 and one above the width of the fields
(16 in place of 2^32) exercise the unset minimum and the truncation; the last of
three buckets also takes what lies above it; the second row of a report has one
sample, two in different buckets, or nineteen so that 95 and 99 per cent fall
on different ranks. Wrong names need an object, its removal and a successor; addresses are
independent of each other, so one is enough. (With two addresses, up to five
changes and fewer objects the invariants of `Resolver` hold as well.)

Deadlock is not checked: commands end, and the bounds end every instance.

### Fairness

- Goroutines and processes are scheduled; tickers and timers fire.
- Go's `select` chooses at random among ready cases, so a case that is ready again
  and again is taken (strong fairness for `Stop` of the agent, `Refresh`,
  `DisplaySigCase`).
- gRPC starts every handler it accepted and gives the caller a reply or an error.
- The DaemonSet and the Deployment restart the agent and the aggregator.
- The API server answers a list or the start of a watch, if only with an error.
- Nothing is assumed of the node's traffic, the user, or faults: `StopsOnTraffic`
  therefore needs an event in the ring, and `TickPublishes` allows for a fault.

### Assumptions evaluated as checks

Pure functions have no states to explore, so their checks are `ASSUME`s that TLC
evaluates at the start of a run: `LinesChecked`, `RankingsChecked` (`MCProbeMap`);
`KindChecked`, `HostChecked`, `KubeconfigChecked` (`MCCaptureLoop`); `Log2Checked`, the
halving against the definition of the highest bit, and `PercentileChecked`, the
estimate against the sample of its rank for all lists of up to four samples
(`MCLatencyRow`).

## Proofs

All proofs are for arbitrary constants within the assumptions stated in the
modules (finite sets of nodes, CPUs, connections and objects, natural bounds, `Wrap`
and the capacity of a map at least 1, ports of 16 bits, a ring that holds at least one
event, fields of at most 32 bits in a latency row, because the halving of `Log2` looks
at no more).

- `TelemetryProofs`: type correctness; then `IInv`, which adds to the properties
  what makes them inductive: tables hold no more than was counted, nothing carries
  a time or process number of the future, the draft is the newest snapshot of its
  node, no two calls carry the same snapshot, and a stopped server has an empty
  store. From it `OneCall`, `Honesty`, `LiveNewest`, `Regression`. `NothingVanishes`
  needs to know what a process has shown already: whatever table of a process the
  store, a request or the draft holds rows of, the process holds them still, and a
  newer snapshot of it holds them too or has them in `cut` (`KeepInv`). `Refinement`
  maps the requests to the register's pending snapshots and the store to what is
  visible, and shows each step to be a register step or a stutter.
- `ProbeMapProofs`: types, with the fact that a run that found a row finds one
  still (`HitsHaveRows`); `NoOvercount` by bounding rows, readings and maxima by
  `seen` together; `Telescoping` by an invariant that relates `shown`, `prev` and
  `flows` in modular arithmetic.
  `ImplementsTable` shows each step of the map to be a step of `TableTotal` or a
  stutter. The sums of a run's step differ from those before in one key
  (`SumChange`, `SumGrows` of `NumberTheorems`); that a run leaves no empty table
  rests on `RowsInUse`: a row below the width of its counters holds something, and a
  run that finds the map full finds such a row.
  `InsertsAtMostCPUs`, `LossNeedsReason` and `WrongDeltaNeedsRace` are about the race of two
  insertions. A row carries the number of the insertion that made it, so that a connection is in
  the map exactly if it was inserted, and a run that found a row found no later
  insertion than the present one. Once a row exists no run starts to miss it: each
  insertion uses up a CPU that had missed. A connection without a row has lost bytes
  only if the map is full, and a full map stays full. With one insertion and no
  overflow the row is exactly what was seen, and a reading no lower than the last.
- `NumberTheorems`: sums over a finite set, by induction on its size; powers of two;
  that a finite set of numbers has a least and a greatest member. Induction is
  over sets of numbers, whose members are the sizes for which the claim holds
  (`NumberInduction`), because a schema with an operator parameter is out of the
  provers' reach.
- `CaptureLoopProofs`: types; `LateBounded`, whose invariant says that a late event
  can only be read from the position in which the loop waits; `HandledOnce`, an
  account of all events.
- `LatencyRowProofs`: types, with the fact that a run holds a row that exists;
  `Tally`, in which each step of a run moves it out of exactly one set of runs that
  have yet to count (`AdvanceBefore`), so that counter plus set stays the
  number of samples; `Bracket`, by an invariant that the row's first sample lies
  between its extremes from the insertion on and that a pending store is of a
  sample that was below the minimum, or above the maximum, at its comparison. This
  keeps the minimum at or below that first sample and the maximum at or above it,
  whichever store comes last. `Exact` is about the rows on which no two runs
  overlapped: its invariant (`EInv`) says that such a row has at most one run, and what
  the extremes are of at each of the run's steps: of all samples once the run has
  passed that step, of all but its own before; a pending store is of a sample that
  did beat the extreme, which nobody changed since. The minimum is the least since
  the last sample that was 0.
- `LatencyReportProofs`, of the report made of rows. The halving finds the highest bit
  (`Log2Highest`), so that a sample goes to the bucket that covers it (`BucketRight`), and a
  percentile lies in the first bucket up to which as many samples are counted as its
  rank asks for (`PercentileIn`).
  `TornReport` is about a copy that is taken field by field while probes run. Every bucket,
  the maximum and the count of what was copied must be backed by samples the row has
  taken (`Backed`); what a row has taken only grows (`NextGrows`), so what backed a field
  when it was copied backs it still. A report made of such a copy and a sound row is drawn
  from their samples (`BothDrawn`), and its estimates lie between the bucket of the least and
  the greatest (`EstimateWithin`), however far the count is ahead of the histogram: then
  the rank is not reached, and the lower edge of the last bucket is clamped to the maximum.
  `ExactReport` is about rows no run is at. Such a row is the summary of the samples it
  took (`RowSummary`): its count and buckets by `CountsTally`, its extremes by `EInv`, its
  sum by `RInv`, which says that the sum misses exactly what the runs before that step
  owe (`Owed`). Merging two summaries gives the summary of both lists, in either order
  (`SummariesJoin`, `BothCommutes`); the running totals of its buckets count the samples below
  their edges (`Cumulative`), so that the first to reach the rank holds the sample of
  that rank (`EstimateBucket`).
  `SamplesAccounted` follows the runs: each found no row and is about to insert one, or its sample
  went to exactly one of the rows inserted so far (`SamplesKept`), whose count misses only
  runs under way by `CountsTally`; a row inserted takes a CPU from those that found none.
- `ResolverProofs`: types, with the facts that a queue holds events of its own kind, an
  object that is gone has no address, and watches start after the last list;
  `PodsResolved` and `ServicesResolved`. For Pods: for each address out of doubt at most one Pod has it, the last
  event in the queue that mentions it will set the table right, or it is right and
  the queue silent, and before a watch is opened the table does not know it when no
  Pod has it. A watch that begins settles a doubt because it reports every Pod once.
  The table of Services is filled from two queues. For each address out of doubt at
  most one Service or slice bears it, and the queue of the other kind is silent about
  the address and deletes no Service of that name; the queue of its own kind, once
  open, ends with the name (`WillBe`). An address nobody bears is not in the table, or
  exactly one queue speaks of it and ends with a deletion that finds there the name
  it compares with, or nothing (`WillGo`); so a deleted slice, which takes away only
  what still bears its name, does take it away. The other queue can at most remove that
  name sooner. The lemmas say what appending an event and handling one (`Turns`) do
  to these two.
- `DnsProbeProofs`: an invariant that reads the map off the list `ops` of what was done
  to it. An entry is the last thing that happened to its key, and a noted key is there
  until it is deleted (`EntryIsLast`, `NotedStays`), so that `Occupied` is the map as it
  was at any operation; a query is noted by one run, once, and its answer comes after
  that (`SendersFresh`, `AnswersAttempted`). An entry a run finds was noted for the
  answered query, for a later one, or for an earlier one noted since (`Measured`); a run
  that deleted its key has made its query unfindable for good. From these follow
  `SampledGone` and `NeverTooLong`. `MissesHaveReasons` follows at the moment of the miss:
  the query was attempted, so it was noted, and the key deleted since, or it was turned
  away; and what the list says of the map at an earlier operation stays said
  (`OpsExplained`, `OccupiedStays`).

Only model-checked: all liveness (`TickPublishes`, `AgentComesBack`,
`InterruptEnds`, `StopsOnTraffic`, `InterruptStopsDisplay`, `RefreshComes`,
`RingDrains`, `EventuallyRight`, `CloseEndsWatches`), because it rests on
fairness and `ENABLED`, which are out of the prover's reach; and the `ASSUME`s about pure
functions above, except for `Log2Checked`, which `Log2Highest` states for every number of
32 bits. Every safety invariant and action property of the passing runs is stated by a
theorem. TLC checked the inductive invariants before they were proved (`EInv`, `RInv`,
`CInv`, `ServicesSettled` on instances of one and of several million states).

## Findings

1. The agent reads connect events and discards them; `status -o flows` is always
   empty (`telemetry_flows`).
2. A row inserted twice goes backwards, and `Watch` reports a difference of nearly
   2^64 bytes (`probemap_delta`).
3. A command without `-w` notices neither its deadline nor Ctrl+C until the node
   opens another connection (`capture_deadline`).
4. The displays do not read stdin: Ctrl+D does not end them (`capture_ctrld`).
5. DNS answers are looked up by a port in the wrong byte order, so that only ports
   with two equal bytes match (`dns_ports`).

Seen without a run of its own:

- `README.md:95` says that `--svc` resolves "to Service names only", but
  `ServiceResolver.Resolve` falls back to Pod names.
- `internal/latency/tracker.go:120` says that "the upper edge is returned" for a
  bucket; the code returns its middle, 1 for the first bucket and the lower edge of
  the last one when the histogram holds too few samples.
- A DNS sample below a microsecond makes the minimum unset, and the next sample
  becomes it; two stores in the wrong order let a minimum rise or a maximum fall;
  `ExtremesExact` is true only of rows on which runs did not overlap.
- The average of a torn copy may lie above its maximum, the sum being ahead of the
  count; its percentiles stay within the samples (`TornCopyPercentiles`).
- `status` reaches a kind node only with the hidden `--in-kind` and without
  `--aggregator`; `cmd/status.go:23` calls that flag a guard against recursion.

## Not modelled, and the plan

Left out for good: loading and attaching BPF programs, docker calls, output formats
and exports, the graph (a set of edges one goroutine fills), generated protobuf
code and manifests, the timing of `status`'s port-forward and the process that might
take its port, `ComputeMbps`, and the helpers without a caller (`Store.Nodes`,
`Store.LastUpdate`, `PercentileFromSamples`).

`bpf/vmlinux.h`, which makes up almost all lines of C in the repository, is a dump of
the kernel's types made by `bpftool`. It has no logic; what of it the probes use (the
addresses and ports of a socket, the headers of a packet, `srtt_us`) enters the
modules as inputs of actions. Of the C that is written for this program,
`tcp_connect.bpf.c`, every program and map is modelled.

Five hazards have no property, for the reasons given with them in `PROJECT.json`: the
ring nobody reads, histogram counters that wrap after 2^32 segments, the four calls of
`status`, the port another process may take, and nodes that leave the cluster. Worth
proving next is that the folds of `Ranking` add up every row once, by the induction over
numbers of `NumberTheorems`.
