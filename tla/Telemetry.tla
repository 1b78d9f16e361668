----------------------------- MODULE Telemetry -----------------------------
(***************************************************************************)
(* The cluster-wide telemetry pipeline: one agent per node                 *)
(* (internal/agent/agent.go) that reads its node's BPF tables at every     *)
(* tick and sends them with the unary RPC SendSnapshot, and the aggregator *)
(* (internal/aggregator/server.go, store.go) that keeps the last snapshot  *)
(* it handled for each node.                                               *)
(*                                                                         *)
(* A BPF table is abstracted to its total: `table[n][t]' is what the rows  *)
(* of table t of node n add up to, `events[n][t]' how many units the node  *)
(* really saw since the agent's collector was created.  ProbeMap models    *)
(* the rows.  A timestamp is a number that grows with each snapshot the    *)
(* node builds.                                                            *)
(***************************************************************************)
EXTENDS Naturals, FiniteSets

CONSTANTS
    Nodes,       \* the nodes of the cluster, one agent on each
    NumTables,   \* BPF tables read by collect, in this order (4 in the code)
    MaxClock,    \* bound: snapshots a node builds
    MaxEvents,   \* bound: units counted per table of one agent process
    MaxConnects, \* bound: connect events read by one agent process
    MaxFaults    \* bound: crashes, interrupts, broken RPCs, failed reads

ASSUME NodesFinite == IsFiniteSet(Nodes)
ASSUME NumTablesNat == NumTables \in Nat
ASSUME BoundsNat ==
    /\ MaxClock \in Nat
    /\ MaxEvents \in Nat
    /\ MaxConnects \in Nat
    /\ MaxFaults \in Nat

VARIABLES
    phase,       \* [Nodes -> where the agent process is in Run]
    cancelled,   \* [Nodes -> the context passed to Run is done]
    inc,         \* [Nodes -> how many agent processes were started]
    clock,       \* [Nodes -> the node's time, as snapshots built]
    draft,       \* [Nodes -> the snapshot collect is filling]
    nextTable,   \* [Nodes -> the table collect reads next]
    events,      \* [Nodes -> [Tables -> units seen by the probes]]
    table,       \* [Nodes -> [Tables -> units held by the BPF table]]
    connects,    \* [Nodes -> connect events read from the ring buffer]
    calls,       \* the SendSnapshot RPCs in progress
    serving,     \* the aggregator process is up
    store,       \* [Nodes -> the aggregator's snapshot of the node]
    faults       \* faults so far

kernelVars == <<events, table, connects>>
agentVars  == <<phase, cancelled, inc, clock, draft, nextTable>>
vars == <<agentVars, kernelVars, calls, serving, store, faults>>

Tables == 1 .. NumTables
NoRows == [t \in Tables |-> 0]

\* Run's control points: not running; waiting for the reply of the initial
\* handshake; at the select; inside collect; waiting for a tick's reply.
Phases == {"down", "handshake", "idle", "collecting", "sending"}

\* AgentSnapshot.  `flows' counts the entries of its Flows field.  Not in the
\* message: `inc', the process that built it, and `cut', the tables whose
\* reading ended in an error.
Snapshots ==
    [node : Nodes, inc : Nat, ts : Nat, rows : [Tables -> Nat],
     cut : SUBSET Tables, flows : Nat]

Snapshot(n, i, ts) ==
    [node |-> n, inc |-> i, ts |-> ts, rows |-> NoRows, cut |-> {}, flows |-> 0]

\* A node the store's map has no entry for.
Absent(n) == Snapshot(n, 0, 0)

\* An RPC is a request the server may still handle, a reply on its way, or
\* lost; it is live while its caller waits for it, abandoned afterwards.
Calls == [snap : Snapshots, stage : {"request", "reply", "lost"}, live : BOOLEAN]

Requests == {c \in calls : c.stage = "request"}
LiveCalls(n) == {c \in calls : c.live /\ c.snap.node = n}

TypeOK ==
    /\ phase \in [Nodes -> Phases]
    /\ cancelled \in [Nodes -> BOOLEAN]
    /\ inc \in [Nodes -> Nat]
    /\ clock \in [Nodes -> Nat]
    /\ draft \in [Nodes -> Snapshots]
    /\ nextTable \in [Nodes -> 1 .. NumTables + 1]
    /\ events \in [Nodes -> [Tables -> Nat]]
    /\ table \in [Nodes -> [Tables -> Nat]]
    /\ connects \in [Nodes -> Nat]
    /\ calls \subseteq Calls
    /\ serving \in BOOLEAN
    /\ store \in [Nodes -> Snapshots]
    /\ faults \in 0 .. MaxFaults

-----------------------------------------------------------------------------
Init ==
    /\ phase = [n \in Nodes |-> "down"]
    /\ cancelled = [n \in Nodes |-> FALSE]
    /\ inc = [n \in Nodes |-> 0]
    /\ clock = [n \in Nodes |-> 0]
    /\ draft = [n \in Nodes |-> Absent(n)]
    /\ nextTable = [n \in Nodes |-> 1]
    /\ events = [n \in Nodes |-> NoRows]
    /\ table = [n \in Nodes |-> NoRows]
    /\ connects = [n \in Nodes |-> 0]
    /\ calls = {}
    /\ serving = FALSE
    /\ store = [n \in Nodes |-> Absent(n)]
    /\ faults = 0

Fault ==
    /\ faults < MaxFaults
    /\ faults' = faults + 1

\* The stub's SendSnapshot: the request reaches the server, or there is no
\* server and the RPC is going to fail.
Call(s) ==
    [snap |-> s, stage |-> IF serving THEN "request" ELSE "lost", live |-> TRUE]

\* What becomes of the calls when node n stops waiting for its own: the
\* request vanishes with the connection, or the server has it already and
\* its handler is going to run although nobody waits.
Abandon(n) ==
    LET others == calls \ LiveCalls(n)
        orphans == {[c EXCEPT !.live = FALSE] : c \in LiveCalls(n) \cap Requests}
    IN \/ calls' = others
       \/ calls' = others \cup orphans

-----------------------------------------------------------------------------
(* The node's kernel probes, attached while an agent process runs. *)

\* A unit is counted: added to its row; or dropped, the BPF map being full;
\* or inserted over a row another CPU has just inserted.  At least one unit
\* remains in the table, at most one is added.
Probe(n, t) ==
    /\ phase[n] # "down"
    /\ events[n][t] < MaxEvents
    /\ events' = [events EXCEPT ![n][t] = @ + 1]
    /\ \E total \in 1 .. table[n][t] + 1 : table' = [table EXCEPT ![n][t] = total]
    /\ UNCHANGED <<agentVars, connects, calls, serving, store, faults>>

\* The drain goroutine reads a connect event and throws it away.
DrainConnect(n) ==
    /\ phase[n] # "down"
    /\ connects[n] < MaxConnects
    /\ connects' = [connects EXCEPT ![n] = @ + 1]
    /\ UNCHANGED <<agentVars, events, table, calls, serving, store, faults>>

-----------------------------------------------------------------------------
(* The agent process. *)

\* Mutant of Start: the maps survive the process (pinned), only the truth is
\* a new one.
StartKeepsMaps(n) ==
    /\ phase[n] = "down"
    /\ clock[n] < MaxClock
    /\ phase' = [phase EXCEPT ![n] = "handshake"]
    /\ cancelled' = [cancelled EXCEPT ![n] = FALSE]
    /\ inc' = [inc EXCEPT ![n] = @ + 1]
    /\ clock' = [clock EXCEPT ![n] = @ + 1]
    /\ events' = [events EXCEPT ![n] = NoRows]
    /\ connects' = [connects EXCEPT ![n] = 0]
    /\ calls' = calls \cup {Call(Snapshot(n, inc'[n], clock'[n]))}
    /\ UNCHANGED <<draft, nextTable, table, serving, store, faults>>

\* The process starts (the DaemonSet restarts it whenever it ends): a new
\* collector, hence empty tables, then the handshake, which sends a snapshot
\* without rows.
Start(n) ==
    /\ phase[n] = "down"
    /\ clock[n] < MaxClock
    /\ phase' = [phase EXCEPT ![n] = "handshake"]
    /\ cancelled' = [cancelled EXCEPT ![n] = FALSE]
    /\ inc' = [inc EXCEPT ![n] = @ + 1]
    /\ clock' = [clock EXCEPT ![n] = @ + 1]
    /\ events' = [events EXCEPT ![n] = NoRows]
    /\ table' = [table EXCEPT ![n] = NoRows]
    /\ connects' = [connects EXCEPT ![n] = 0]
    /\ calls' = calls \cup {Call(Snapshot(n, inc'[n], clock'[n]))}
    /\ UNCHANGED <<draft, nextTable, serving, store, faults>>

\* Mutants of Tick: the first table is numbered 0; the timestamp is taken
\* before the loop and reused.
TickFromZero(n) ==
    /\ phase[n] = "idle"
    /\ clock[n] < MaxClock
    /\ phase' = [phase EXCEPT ![n] = "collecting"]
    /\ clock' = [clock EXCEPT ![n] = @ + 1]
    /\ draft' = [draft EXCEPT ![n] = Snapshot(n, inc[n], clock'[n])]
    /\ nextTable' = [nextTable EXCEPT ![n] = 0]
    /\ UNCHANGED <<cancelled, inc, kernelVars, calls, serving, store, faults>>

TickReusesTime(n) ==
    /\ phase[n] = "idle"
    /\ phase' = [phase EXCEPT ![n] = "collecting"]
    /\ draft' = [draft EXCEPT ![n] = Snapshot(n, inc[n], clock[n])]
    /\ nextTable' = [nextTable EXCEPT ![n] = 1]
    /\ UNCHANGED <<cancelled, inc, clock, kernelVars, calls, serving, store, faults>>

\* The ticker fires: collect takes the timestamp first.
Tick(n) ==
    /\ phase[n] = "idle"
    /\ clock[n] < MaxClock
    /\ phase' = [phase EXCEPT ![n] = "collecting"]
    /\ clock' = [clock EXCEPT ![n] = @ + 1]
    /\ draft' = [draft EXCEPT ![n] = Snapshot(n, inc[n], clock'[n])]
    /\ nextTable' = [nextTable EXCEPT ![n] = 1]
    /\ UNCHANGED <<cancelled, inc, kernelVars, calls, serving, store, faults>>

Read(n, total, cut) ==
    /\ phase[n] = "collecting"
    /\ nextTable[n] <= NumTables
    /\ draft' = [draft EXCEPT ![n].rows[nextTable[n]] = total, ![n].cut = @ \cup cut]
    /\ nextTable' = [nextTable EXCEPT ![n] = @ + 1]
    /\ UNCHANGED <<phase, cancelled, inc, clock, events, connects, calls, serving, store>>

\* Mutant of ReadTable: the rows are deleted as they are read.
ReadTableDeletes(n) ==
    /\ nextTable[n] <= NumTables
    /\ Read(n, table[n][nextTable[n]], {})
    /\ table' = [table EXCEPT ![n][nextTable[n]] = 0]
    /\ UNCHANGED faults

\* collect appends every row of the next table.
ReadTable(n) ==
    /\ nextTable[n] <= NumTables
    /\ Read(n, table[n][nextTable[n]], {})
    /\ UNCHANGED <<table, faults>>

\* The iteration ends in an error, which collect ignores: the rows read
\* before it are kept.
ReadFails(n) ==
    /\ nextTable[n] <= NumTables
    /\ \E total \in 0 .. table[n][nextTable[n]] : Read(n, total, {nextTable[n]})
    /\ Fault
    /\ UNCHANGED table

Send(n) ==
    /\ phase[n] = "collecting"
    /\ nextTable[n] > NumTables
    /\ phase' = [phase EXCEPT ![n] = "sending"]
    /\ calls' = calls \cup {Call(draft[n])}
    /\ UNCHANGED <<cancelled, inc, clock, draft, nextTable, kernelVars, serving, store, faults>>

\* Mutant of Reply: only the loop's calls wait for it.
ReplyToTickOnly(n) ==
    /\ phase[n] = "sending"
    /\ \E c \in LiveCalls(n) : c.stage = "reply" /\ calls' = calls \ {c}
    /\ phase' = [phase EXCEPT ![n] = "idle"]
    /\ UNCHANGED <<cancelled, inc, clock, draft, nextTable, kernelVars, serving, store, faults>>

\* The RPC returns Ok: on to the select.
Reply(n) ==
    /\ \E c \in LiveCalls(n) :
        /\ c.stage = "reply"
        /\ calls' = calls \ {c}
    /\ phase' = [phase EXCEPT ![n] = "idle"]
    /\ UNCHANGED <<cancelled, inc, clock, draft, nextTable, kernelVars, serving, store, faults>>

\* Mutant of CallFails: the agent goes on, the call is not given up.
CallFailsKeepsWaiting(n) ==
    /\ LiveCalls(n) # {}
    /\ phase' = [phase EXCEPT ![n] = IF @ = "handshake" THEN "down" ELSE "idle"]
    /\ UNCHANGED <<cancelled, inc, clock, draft, nextTable, kernelVars, calls, serving, store>>

\* The RPC returns an error: the handshake's ends the process, a tick's is
\* logged.
CallFails(n) ==
    /\ LiveCalls(n) # {}
    /\ phase' = [phase EXCEPT ![n] = IF @ = "handshake" THEN "down" ELSE "idle"]
    /\ Abandon(n)
    /\ UNCHANGED <<cancelled, inc, clock, draft, nextTable, kernelVars, serving, store>>

\* ... because no server has it, or the context is done ...
CallLost(n) ==
    /\ cancelled[n] \/ \E c \in LiveCalls(n) : c.stage = "lost"
    /\ CallFails(n)
    /\ UNCHANGED faults

\* ... or because the connection broke.
CallBreaks(n) ==
    /\ Fault
    /\ CallFails(n)

\* SIGINT: NotifyContext cancels Run's context.
Interrupt(n) ==
    /\ phase[n] # "down"
    /\ ~cancelled[n]
    /\ cancelled' = [cancelled EXCEPT ![n] = TRUE]
    /\ Fault
    /\ UNCHANGED <<phase, inc, clock, draft, nextTable, kernelVars, calls, serving, store>>

\* Mutant of Stop: a break that leaves the select and not the loop.
StopLeavesSelectOnly(n) ==
    /\ phase[n] = "idle"
    /\ cancelled[n]
    /\ UNCHANGED vars

\* The select takes the Done case.  (It may take the ticker's: Tick.)
Stop(n) ==
    /\ phase[n] = "idle"
    /\ cancelled[n]
    /\ phase' = [phase EXCEPT ![n] = "down"]
    /\ UNCHANGED <<cancelled, inc, clock, draft, nextTable, kernelVars, calls, serving, store, faults>>

\* SIGTERM (which is not caught), SIGKILL, out of memory.
Crash(n) ==
    /\ phase[n] # "down"
    /\ phase' = [phase EXCEPT ![n] = "down"]
    /\ Abandon(n)
    /\ Fault
    /\ UNCHANGED <<cancelled, inc, clock, draft, nextTable, kernelVars, serving, store>>

-----------------------------------------------------------------------------
(* The aggregator process. *)

\* NewStore, NewServer, Serve.
Serve ==
    /\ ~serving
    /\ serving' = TRUE
    /\ store' = [n \in Nodes |-> Absent(n)]
    /\ UNCHANGED <<agentVars, kernelVars, calls, faults>>

\* Mutants of Update: the map is made anew by each call; an entry is never
\* replaced.
UpdateRemakesMap(n, s) == store' = [m \in Nodes |-> IF m = n THEN s ELSE Absent(m)]

UpdateFirstWins(n, s) ==
    store' = IF store[n] = Absent(n) THEN [store EXCEPT ![n] = s] ELSE store

\* Store.Update: the last call handled wins, whatever its timestamp.
Update(n, s) == store' = [store EXCEPT ![n] = s]

\* Mutant of SendSnapshot: a request is handled again and again.
SendSnapshotAgain(c) ==
    /\ c \in Requests
    /\ Update(c.snap.node, c.snap)
    /\ calls' = calls \cup (IF c.live THEN {[c EXCEPT !.stage = "reply"]} ELSE {})
    /\ UNCHANGED <<agentVars, kernelVars, serving, faults>>

\* The handler of SendSnapshot; its reply goes to whoever still waits.
SendSnapshot(c) ==
    /\ c \in Requests
    /\ Update(c.snap.node, c.snap)
    /\ calls' = (calls \ {c}) \cup
                (IF c.live THEN {[c EXCEPT !.stage = "reply"]} ELSE {})
    /\ UNCHANGED <<agentVars, kernelVars, serving, faults>>

\* The process ends and the store with it.  A reply already sent still
\* arrives, a request gets none.
ServerStops ==
    /\ serving
    /\ serving' = FALSE
    /\ store' = [n \in Nodes |-> Absent(n)]
    /\ calls' = {c \in calls : c.stage # "request"} \cup
                {[c EXCEPT !.stage = "lost"] : c \in {d \in Requests : d.live}}
    /\ Fault
    /\ UNCHANGED <<agentVars, kernelVars>>

-----------------------------------------------------------------------------
AgentStep(n) ==
    \/ Start(n)
    \/ Tick(n)
    \/ ReadTable(n)
    \/ Send(n)
    \/ Reply(n)
    \/ CallLost(n)
    \/ Stop(n)

FaultStep(n) ==
    \/ ReadFails(n)
    \/ CallBreaks(n)
    \/ Interrupt(n)
    \/ Crash(n)

Next ==
    \/ \E n \in Nodes : AgentStep(n) \/ FaultStep(n)
    \/ \E n \in Nodes, t \in Tables : Probe(n, t)
    \/ \E n \in Nodes : DrainConnect(n)
    \/ Serve
    \/ \E c \in calls : SendSnapshot(c)
    \/ ServerStops

Spec == Init /\ [][Next]_vars

\* The agent is a sequential program that is scheduled, restarted by the
\* DaemonSet, and driven by a ticker; gRPC starts every handler it accepted
\* and delivers replies or errors; the Deployment restarts the aggregator.
\* Go's select picks among ready cases at random: an interrupted agent takes
\* the Done case in the end, though its ticker may fire first.
Fairness ==
    /\ \A n \in Nodes :
        /\ WF_vars(Start(n) \/ Tick(n) \/ ReadTable(n) \/ Send(n))
        /\ WF_vars(Reply(n) \/ CallLost(n))
        /\ SF_vars(Stop(n))
    /\ WF_vars(Serve)
    /\ \A n \in Nodes : WF_vars(\E c \in calls : c.snap.node = n /\ SendSnapshot(c))

FairSpec == Spec /\ Fairness
-----------------------------------------------------------------------------
(* Safety. *)

\* Run is sequential: an agent has exactly one call it waits for while it is
\* in the handshake or sending, and none otherwise, whatever was abandoned
\* by earlier errors and earlier processes of the node.
OneCallPerAgent ==
    \A n \in Nodes :
        /\ LiveCalls(n) # {} <=> phase[n] \in {"handshake", "sending"}
        /\ \A c, d \in LiveCalls(n) : c = d

\* Everything the aggregator shows, and everything on its way to it, was
\* built by a process the node did start, and one of the running process
\* claims no more than the node has really seen: rows lost to a race or a
\* failed read make a snapshot too small, never too large.
Honest(s) ==
    /\ s.inc <= inc[s.node]
    /\ s.inc = inc[s.node] => \A t \in Tables : s.rows[t] <= events[s.node][t]

NeverOverstated ==
    /\ \A c \in calls : Honest(c.snap)
    /\ \A n \in Nodes : Honest(store[n])

\* The call an agent waits for carries the newest snapshot of its node: the
\* server shows an older one, and every other request of the node, which
\* may still be handled, is older too.
LiveIsNewest ==
    \A n \in Nodes : \A c \in LiveCalls(n) \cap Requests :
        /\ store[n].ts < c.snap.ts
        /\ \A d \in Requests \ {c} : d.snap.node = n => d.snap.ts < c.snap.ts

(* Action properties. *)

\* Update ignores timestamps, so what is shown of a node may go back in
\* time; but only when the handler of an abandoned call runs late, or when
\* the aggregator restarts.  Calls somebody waits for never do it.
OnlyLateCallsRegress ==
    [][\A n \in Nodes :
        store'[n].ts < store[n].ts =>
            \/ \E c \in Requests : ~c.live /\ store'[n] = c.snap /\ c \notin calls'
            \/ ~serving']_vars

\* collect ignores the error of a read, and the aggregator shows what it
\* collected.  Still, once a table of a node is shown to hold anything, it
\* is shown empty only for a reason: another process of the agent counts
\* from zero, the snapshot is an older one that came late, its own reading
\* of this very table was cut short, or the aggregator stopped.
RowsStayShown ==
    [][\A n \in Nodes, t \in Tables :
        store[n].rows[t] > 0 /\ store'[n].rows[t] = 0 =>
            \/ store'[n].inc # store[n].inc
            \/ store'[n].ts < store[n].ts
            \/ t \in store'[n].cut
            \/ ~serving']_vars

(* Liveness. *)

\* An agent at its select, with a tick to come and a server to send it to.
Publishing(n) ==
    /\ phase[n] = "idle"
    /\ ~cancelled[n]
    /\ clock[n] < MaxClock
    /\ serving

\* A tick publishes: an idle agent with a server goes on to show a snapshot
\* newer than all it built before, unless something fails meanwhile.
TickPublishes ==
    \A n \in Nodes, k \in 0 .. MaxClock - 1, f \in 0 .. MaxFaults :
        (Publishing(n) /\ clock[n] = k /\ faults = f)
            ~> (store[n].ts > k \/ faults > f)

\* A restarted agent comes back: with a server up the handshake succeeds,
\* unless something fails meanwhile.
AgentComesBack ==
    \A n \in Nodes, f \in 0 .. MaxFaults :
        (phase[n] = "down" /\ clock[n] < MaxClock /\ serving /\ faults = f)
            ~> (phase[n] = "idle" \/ faults > f)

\* An interrupted agent ends, wherever the interrupt finds it, though the
\* RPC has no deadline and the select may prefer the ticker.
InterruptEnds ==
    \A n \in Nodes : cancelled[n] ~> phase[n] = "down"

\* README.md:214: the agent "Uses eBPF to capture TCP connect events" and
\* "sends periodic snapshots"; README.md:194 offers `status -o flows'.  So a
\* captured connect event should reach the aggregator's flow list with the
\* snapshots that follow, while nothing fails.
GetFlows == {n \in Nodes : store[n].flows > 0}

ConnectEventsReported ==
    \A n \in Nodes :
        (connects[n] > 0 /\ Publishing(n)) ~> (n \in GetFlows \/ faults > 0)

-----------------------------------------------------------------------------
(* The pipeline implements the register. *)

Register == INSTANCE SnapshotRegister
    WITH pending <- {c.snap : c \in Requests}, visible <- store

\* The aggregator shows, for each node, a snapshot that node sent, each at
\* most once; duplicated handling, or a snapshot of the wrong node, would
\* not be a step of the register.
ImplementsRegister == Register!RegisterSpec
=============================================================================
