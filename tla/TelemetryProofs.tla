-------------------------- MODULE TelemetryProofs --------------------------
(***************************************************************************)
(* Proofs about Telemetry for every set of nodes, every number of tables   *)
(* and every value of the bounds: types, the inductive invariant behind    *)
(* the safety invariants, what may vanish from the store, the refinement.  *)
(***************************************************************************)
EXTENDS Telemetry, TLAPS

-----------------------------------------------------------------------------
(* Type correctness. *)

\* What Abandon leaves are calls.
LEMMA AbandonType ==
    ASSUME TypeOK, NEW n \in Nodes, Abandon(n)
    PROVE  calls' \subseteq Calls
<1>1. \A c \in calls : [c EXCEPT !.live = FALSE] \in Calls
  BY DEF TypeOK, Calls
<1> QED
  BY <1>1 DEF TypeOK, Abandon, LiveCalls, Requests

\* The snapshots the agents build are snapshots.
LEMMA SnapshotType ==
    ASSUME NEW n \in Nodes, NEW i \in Nat, NEW ts \in Nat
    PROVE  Snapshot(n, i, ts) \in Snapshots
BY DEF Snapshot, Snapshots, NoRows

LEMMA CallType ==
    ASSUME NEW s \in Snapshots
    PROVE  Call(s) \in Calls
BY DEF Call, Calls

LEMMA InitType == Init => TypeOK
<1> SUFFICES ASSUME Init PROVE TypeOK
  OBVIOUS
<1>1. \A n \in Nodes : Absent(n) \in Snapshots
  BY SnapshotType DEF Absent
<1>2. /\ draft \in [Nodes -> Snapshots]
      /\ store \in [Nodes -> Snapshots]
  BY <1>1 DEF Init
<1>3. /\ events \in [Nodes -> [Tables -> Nat]]
      /\ table \in [Nodes -> [Tables -> Nat]]
  BY DEF Init, NoRows
<1>4. /\ nextTable \in [Nodes -> 1 .. NumTables + 1]
      /\ faults \in 0 .. MaxFaults
  BY NumTablesNat, BoundsNat DEF Init
<1> QED
  BY <1>2, <1>3, <1>4 DEF Init, TypeOK, Phases

LEMMA NextType == TypeOK /\ [Next]_vars => TypeOK'
<1> SUFFICES ASSUME TypeOK, [Next]_vars PROVE TypeOK'
  OBVIOUS
<1> USE NumTablesNat, BoundsNat
<1>1. ASSUME NEW n \in Nodes, NEW t \in Tables, Probe(n, t) PROVE TypeOK'
  BY <1>1 DEF Probe, TypeOK, agentVars
<1>2. ASSUME NEW n \in Nodes, DrainConnect(n) PROVE TypeOK'
  BY <1>2 DEF DrainConnect, TypeOK, agentVars
<1>3. ASSUME NEW n \in Nodes, Start(n) PROVE TypeOK'
  <2>1. /\ inc' \in [Nodes -> Nat]
        /\ clock' \in [Nodes -> Nat]
    BY <1>3 DEF Start, TypeOK
  <2>2. calls' \subseteq Calls
    BY <1>3, <2>1, SnapshotType, CallType DEF Start, TypeOK
  <2> QED
    BY <1>3, <2>1, <2>2 DEF Start, TypeOK, Phases, NoRows
<1>4. ASSUME NEW n \in Nodes, Tick(n) PROVE TypeOK'
  <2>1. /\ clock' \in [Nodes -> Nat]
        /\ inc[n] \in Nat
    BY <1>4 DEF Tick, TypeOK
  <2>2. draft' \in [Nodes -> Snapshots]
    BY <1>4, <2>1, SnapshotType DEF Tick, TypeOK
  <2> QED
    BY <1>4, <2>1, <2>2 DEF Tick, TypeOK, Phases, kernelVars
<1>5. ASSUME NEW n \in Nodes, NEW total \in Nat, NEW cut \in SUBSET {nextTable[n]},
             Read(n, total, cut), table' = table, faults' \in 0 .. MaxFaults
      PROVE  TypeOK'
  <2>1. nextTable[n] \in Tables
    <3>1. /\ nextTable[n] \in 1 .. NumTables + 1
          /\ nextTable[n] <= NumTables
      BY <1>5 DEF Read, TypeOK
    <3> QED
      BY <3>1 DEF Tables
  <2>2. draft'[n] \in Snapshots
    <3>1. draft[n] \in Snapshots
      BY DEF TypeOK
    <3>2. [draft[n].rows EXCEPT ![nextTable[n]] = total] \in [Tables -> Nat]
      BY <2>1, <3>1 DEF Snapshots
    <3>3. draft[n].cut \cup cut \in SUBSET Tables
      BY <2>1, <3>1 DEF Snapshots
    <3>4. draft'[n] = [draft[n] EXCEPT !.rows = [draft[n].rows EXCEPT ![nextTable[n]] = total],
                                       !.cut = draft[n].cut \cup cut]
      BY <1>5, <3>1 DEF Read, TypeOK, Snapshots
    <3> QED
      BY <3>1, <3>2, <3>3, <3>4 DEF Snapshots
  <2>3. draft' \in [Nodes -> Snapshots]
    BY <1>5, <2>2 DEF Read, TypeOK
  <2>4. nextTable' \in [Nodes -> 1 .. NumTables + 1]
    BY <1>5, <2>1 DEF Read, TypeOK, Tables
  <2> QED
    BY <1>5, <2>3, <2>4 DEF Read, TypeOK
<1>6. ASSUME NEW n \in Nodes, ReadTable(n) PROVE TypeOK'
  <2>1. table[n][nextTable[n]] \in Nat
    BY <1>6 DEF ReadTable, TypeOK, Tables
  <2> QED
    BY <1>5, <1>6, <2>1 DEF ReadTable, TypeOK
<1>7. ASSUME NEW n \in Nodes, ReadFails(n) PROVE TypeOK'
  <2>1. faults' \in 0 .. MaxFaults
    BY <1>7 DEF ReadFails, Fault, TypeOK
  <2>2. PICK total \in 0 .. table[n][nextTable[n]] : Read(n, total, {nextTable[n]})
    BY <1>7 DEF ReadFails
  <2>3. table' = table
    BY <1>7 DEF ReadFails
  <2> QED
    BY <1>5, <2>1, <2>2, <2>3
<1>8. ASSUME NEW n \in Nodes, Send(n) PROVE TypeOK'
  <2>1. calls' \subseteq Calls
    BY <1>8, CallType DEF Send, TypeOK
  <2> QED
    BY <1>8, <2>1 DEF Send, TypeOK, Phases, kernelVars
<1>9. ASSUME NEW n \in Nodes, Reply(n) PROVE TypeOK'
  BY <1>9 DEF Reply, TypeOK, Phases, kernelVars
<1>10. ASSUME NEW n \in Nodes, CallFails(n), faults' \in 0 .. MaxFaults PROVE TypeOK'
  <2>1. calls' \subseteq Calls
    BY <1>10, AbandonType DEF CallFails
  <2> QED
    BY <1>10, <2>1 DEF CallFails, TypeOK, Phases, kernelVars
<1>11. ASSUME NEW n \in Nodes, CallLost(n) \/ CallBreaks(n) PROVE TypeOK'
  BY <1>10, <1>11 DEF CallLost, CallBreaks, Fault, TypeOK
<1>12. ASSUME NEW n \in Nodes, Interrupt(n) PROVE TypeOK'
  BY <1>12 DEF Interrupt, Fault, TypeOK, kernelVars
<1>13. ASSUME NEW n \in Nodes, Stop(n) PROVE TypeOK'
  BY <1>13 DEF Stop, TypeOK, Phases, kernelVars
<1>14. ASSUME NEW n \in Nodes, Crash(n) PROVE TypeOK'
  <2>1. calls' \subseteq Calls
    BY <1>14, AbandonType DEF Crash
  <2> QED
    BY <1>14, <2>1 DEF Crash, Fault, TypeOK, Phases, kernelVars
<1>15. CASE Serve
  <2>1. store' \in [Nodes -> Snapshots]
    BY <1>15, SnapshotType DEF Serve, Absent
  <2> QED
    BY <1>15, <2>1 DEF Serve, TypeOK, kernelVars, agentVars
<1>16. ASSUME NEW c \in calls, SendSnapshot(c) PROVE TypeOK'
  <2>1. /\ c.snap \in Snapshots
        /\ [c EXCEPT !.stage = "reply"] \in Calls
    BY DEF TypeOK, Calls
  <2>2. store' \in [Nodes -> Snapshots]
    BY <1>16, <2>1 DEF SendSnapshot, Update, TypeOK
  <2>3. calls' \subseteq Calls
    BY <1>16, <2>1 DEF SendSnapshot, TypeOK
  <2> QED
    BY <1>16, <2>2, <2>3 DEF SendSnapshot, TypeOK, kernelVars, agentVars
<1>17. CASE ServerStops
  <2>1. store' \in [Nodes -> Snapshots]
    BY <1>17, SnapshotType DEF ServerStops, Absent
  <2>2. \A c \in calls : [c EXCEPT !.stage = "lost"] \in Calls
    BY DEF TypeOK, Calls
  <2>3. calls' \subseteq Calls
    BY <1>17, <2>2 DEF ServerStops, Requests, TypeOK
  <2>4. /\ serving' \in BOOLEAN
        /\ faults' \in 0 .. MaxFaults
    <3>1. serving' \in BOOLEAN
      BY <1>17, Zenon DEF ServerStops
    <3>2. faults < MaxFaults /\ faults' = faults + 1
      BY <1>17, Zenon DEF ServerStops, Fault
    <3>3. faults' \in 0 .. MaxFaults
      BY <3>2 DEF TypeOK
    <3> QED
      BY <3>1, <3>3
  <2> QED
    BY <1>17, <2>1, <2>3, <2>4 DEF ServerStops, TypeOK, kernelVars, agentVars
<1>18. CASE UNCHANGED vars
  BY <1>18 DEF TypeOK, vars, kernelVars, agentVars
<1> QED
  BY <1>1, <1>2, <1>3, <1>4, <1>6, <1>7, <1>8, <1>9, <1>11, <1>12, <1>13,
     <1>14, <1>15, <1>16, <1>17, <1>18
     DEF Next, AgentStep, FaultStep

\* Every reachable state is well typed.
THEOREM TypeCorrect == Spec => []TypeOK
BY InitType, NextType, PTL DEF Spec

-----------------------------------------------------------------------------
(* The inductive invariant: the three safety invariants, and what they need *)
(* to be preserved.                                                         *)

\* A BPF table holds no more than its probes saw.
TablesBounded ==
    \A n \in Nodes, t \in Tables : table[n][t] <= events[n][t]

\* Nothing is newer than its node's clock; the store files a snapshot under
\* the node that built it.
NothingFromTheFuture ==
    /\ \A c \in calls : c.snap.ts <= clock[c.snap.node]
    /\ \A n \in Nodes : store[n].ts <= clock[n] /\ store[n].node = n

\* While collect runs, its snapshot is honest and newer than every other.
DraftIsNewest ==
    \A n \in Nodes : phase[n] = "collecting" =>
        /\ draft[n].node = n
        /\ draft[n].ts = clock[n]
        /\ Honest(draft[n])
        /\ store[n].ts < clock[n]
        /\ \A c \in calls : c.snap.node = n => c.snap.ts < clock[n]

\* A snapshot is sent once.
NoTwins == \A c, d \in calls : c.snap = d.snap => c = d

\* Without a server there is no store, and no request can be handled.
NoServerNoStore ==
    ~serving => /\ Requests = {}
                /\ store = [n \in Nodes |-> Absent(n)]

IInv ==
    /\ OneCallPerAgent
    /\ NeverOverstated
    /\ LiveIsNewest
    /\ TablesBounded
    /\ NothingFromTheFuture
    /\ DraftIsNewest
    /\ NoTwins
    /\ NoServerNoStore

\* The fields of a call and of a stored snapshot.
LEMMA CallFields ==
    ASSUME TypeOK
    PROVE  /\ \A c \in calls :
                /\ c \in Calls
                /\ c.snap \in Snapshots
                /\ c.snap.node \in Nodes
                /\ c.snap.ts \in Nat
                /\ c.snap.inc \in Nat
                /\ c.snap.rows \in [Tables -> Nat]
                /\ c.live \in BOOLEAN
           /\ \A n \in Nodes :
                /\ store[n] \in Snapshots
                /\ store[n].ts \in Nat
                /\ store[n].inc \in Nat
                /\ store[n].rows \in [Tables -> Nat]
                /\ clock[n] \in Nat
                /\ inc[n] \in Nat
<1>1. \A c \in calls : c \in Calls
  BY DEF TypeOK
<1>2. \A n \in Nodes : store[n] \in Snapshots /\ clock[n] \in Nat /\ inc[n] \in Nat
  BY DEF TypeOK
<1> QED
  BY <1>1, <1>2 DEF Calls, Snapshots

\* A step after which every call stems from a call that was there, no
\* less live and no later in its life, keeps what is said of calls.
LEMMA CallsOnlyFade ==
    ASSUME TypeOK, TypeOK', IInv, NoTwins',
           UNCHANGED <<inc, clock, events, store>>,
           \A c \in calls' : \E d \in calls :
                /\ c.snap = d.snap
                /\ c.live => d.live
                /\ c.stage = "request" => d.stage = "request"
    PROVE  NeverOverstated' /\ LiveIsNewest' /\ NothingFromTheFuture'
<1>1. NeverOverstated'
  BY CallFields DEF IInv, NeverOverstated, Honest
<1>2. NothingFromTheFuture'
  BY CallFields DEF IInv, NothingFromTheFuture
<1>3. LiveIsNewest'
  <2> SUFFICES ASSUME NEW n \in Nodes, NEW c \in (LiveCalls(n) \cap Requests)'
               PROVE  /\ store'[n].ts < c.snap.ts
                      /\ \A d \in Requests' \ {c} : d.snap.node = n => d.snap.ts < c.snap.ts
    BY DEF LiveIsNewest
  <2>1. PICK b \in calls : c.snap = b.snap /\ b.live /\ b.stage = "request"
    BY DEF LiveCalls, Requests
  <2>2. b \in LiveCalls(n) \cap Requests
    BY <2>1 DEF LiveCalls, Requests
  <2>3. ASSUME NEW d \in Requests' \ {c}, d.snap.node = n
        PROVE  d.snap.ts < c.snap.ts
    <3>1. PICK e \in calls : d.snap = e.snap /\ e.stage = "request"
      BY DEF Requests
    <3>2. e # b
      BY <2>1, <3>1 DEF NoTwins, Requests, LiveCalls
    <3> QED
      BY <2>1, <2>2, <2>3, <3>1, <3>2 DEF IInv, LiveIsNewest, Requests
  <2> QED
    BY <2>1, <2>2, <2>3 DEF IInv, LiveIsNewest
<1> QED
  BY <1>1, <1>2, <1>3

\* Abandon only makes calls fade, and leaves node n none to wait for.
LEMMA AbandonFades ==
    ASSUME TypeOK, IInv, NEW n \in Nodes, Abandon(n)
    PROVE  /\ \A c \in calls' : \E d \in calls :
                /\ c.snap = d.snap
                /\ c.live => d.live
                /\ c.stage = "request" => d.stage = "request"
           /\ NoTwins'
           /\ LiveCalls(n)' = {}
           /\ \A m \in Nodes \ {n} : LiveCalls(m)' = LiveCalls(m)
           /\ Requests = {} => Requests' = {}
<1> DEFINE orphan(d) == [d EXCEPT !.live = FALSE]
<1>1. \A d \in calls : /\ orphan(d).snap = d.snap
                       /\ orphan(d).stage = d.stage
                       /\ orphan(d).live = FALSE
  BY CallFields DEF Calls
<1>2. \A c \in calls' : \/ c \in calls /\ c \notin LiveCalls(n)
                        \/ \E d \in LiveCalls(n) \cap Requests : c = orphan(d)
  BY DEF Abandon
<1>3. calls \ LiveCalls(n) \subseteq calls'
  BY DEF Abandon
<1> HIDE DEF orphan
<1>4. LiveCalls(n) \subseteq calls
  BY DEF LiveCalls
<1>5. NoTwins'
  <2> SUFFICES ASSUME NEW c \in calls', NEW d \in calls', c.snap = d.snap
               PROVE  c = d
    BY DEF NoTwins
  <2>1. CASE c \in calls /\ c \notin LiveCalls(n)
    BY <1>1, <1>2, <1>4, <2>1 DEF IInv, NoTwins
  <2>2. CASE \E e \in LiveCalls(n) \cap Requests : c = orphan(e)
    BY <1>1, <1>2, <1>4, <2>2 DEF IInv, NoTwins
  <2> QED
    BY <1>2, <2>1, <2>2
<1>6. \A c \in calls' : \E d \in calls :
          /\ c.snap = d.snap
          /\ c.live => d.live
          /\ c.stage = "request" => d.stage = "request"
  BY <1>1, <1>2, <1>4
<1>7. LiveCalls(n)' = {}
  BY <1>1, <1>2, <1>4 DEF LiveCalls
<1>8. \A m \in Nodes \ {n} : LiveCalls(m)' = LiveCalls(m)
  BY <1>1, <1>2, <1>3, <1>4 DEF LiveCalls
<1>9. Requests = {} => Requests' = {}
  BY <1>2 DEF Requests
<1> QED
  BY <1>5, <1>6, <1>7, <1>8, <1>9

LEMMA InitIInv == Init => IInv
<1> SUFFICES ASSUME Init PROVE IInv
  OBVIOUS
<1>1. \A n \in Nodes : /\ store[n] = Absent(n)
                       /\ inc[n] = 0 /\ clock[n] = 0 /\ phase[n] = "down"
                       /\ events[n] = NoRows /\ table[n] = NoRows
  BY DEF Init
<1>2. \A n \in Nodes : /\ Absent(n).node = n
                       /\ Absent(n).ts = 0
                       /\ Absent(n).inc = 0
                       /\ Absent(n).rows = NoRows
  BY DEF Absent, Snapshot
<1>3. calls = {} /\ serving = FALSE
  BY DEF Init
<1>4. NeverOverstated
  BY <1>1, <1>2, <1>3 DEF NeverOverstated, Honest, NoRows
<1>5. TablesBounded
  BY <1>1 DEF TablesBounded, NoRows
<1>6. OneCallPerAgent /\ LiveIsNewest /\ NoTwins
  BY <1>1, <1>3 DEF OneCallPerAgent, LiveIsNewest, NoTwins, LiveCalls
<1>7. NothingFromTheFuture /\ DraftIsNewest
  BY <1>1, <1>2, <1>3 DEF NothingFromTheFuture, DraftIsNewest
<1>8. NoServerNoStore
  BY <1>3 DEF Init, NoServerNoStore, Requests
<1> QED
  BY <1>4, <1>5, <1>6, <1>7, <1>8 DEF IInv

\* The steps of node n that leave the calls, the store and the clocks alone.
LEMMA QuietSteps ==
    ASSUME TypeOK, TypeOK', IInv,
           UNCHANGED <<inc, calls, serving, store>>,
           \A m \in Nodes : clock[m] <= clock'[m],
           \A m \in Nodes, t \in Tables : events[m][t] <= events'[m][t],
           \A m \in Nodes : phase[m] \in {"handshake", "sending"}
                                <=> phase'[m] \in {"handshake", "sending"}
    PROVE  /\ OneCallPerAgent' /\ NeverOverstated' /\ LiveIsNewest'
           /\ NothingFromTheFuture' /\ NoTwins' /\ NoServerNoStore'
<1>1. OneCallPerAgent'
  BY DEF IInv, OneCallPerAgent, LiveCalls
<1>2. NeverOverstated'
  <2>1. ASSUME NEW s \in Snapshots, Honest(s) PROVE Honest(s)'
    <3>1. s.node \in Nodes /\ s.rows \in [Tables -> Nat]
      BY <2>1 DEF Snapshots
    <3>2. \A t \in Tables : events[s.node][t] \in Nat /\ events'[s.node][t] \in Nat
      BY <3>1 DEF TypeOK
    <3> QED
      BY <2>1, <3>1, <3>2 DEF Honest
  <2> QED
    BY <2>1, CallFields DEF IInv, NeverOverstated
<1>3. NothingFromTheFuture'
  <2>1. \A m \in Nodes : clock[m] \in Nat /\ clock'[m] \in Nat
    BY DEF TypeOK
  <2> QED
    BY <2>1, CallFields DEF IInv, NothingFromTheFuture
<1>4. LiveIsNewest' /\ NoTwins' /\ NoServerNoStore'
  BY DEF IInv, LiveIsNewest, NoTwins, NoServerNoStore, LiveCalls, Requests
<1> QED
  BY <1>1, <1>2, <1>3, <1>4

\* Node n makes a call with a snapshot newer than all of its others.
LEMMA NewCall ==
    ASSUME TypeOK, TypeOK', IInv, NEW n \in Nodes, NEW s \in Snapshots,
           calls' = calls \cup {Call(s)},
           UNCHANGED <<serving, store>>,
           s.node = n,
           LiveCalls(n) = {},
           phase'[n] \in {"handshake", "sending"},
           \A m \in Nodes \ {n} : phase'[m] = phase[m],
           store[n].ts < s.ts,
           \A c \in calls : c.snap.node = n => c.snap.ts < s.ts
    PROVE  OneCallPerAgent' /\ LiveIsNewest' /\ NoTwins' /\ NoServerNoStore'
<1> DEFINE new == Call(s)
<1>1. /\ new.snap = s
      /\ new.live
      /\ new.stage = "request" <=> serving
  BY DEF Call, TypeOK
<1>2. calls' = calls \cup {new}
  OBVIOUS
<1> HIDE DEF new
<1>3. new \notin calls
  BY <1>1, CallFields
<1>4. LiveCalls(n)' = {new} /\ \A m \in Nodes \ {n} : LiveCalls(m)' = LiveCalls(m)
  BY <1>1, <1>2 DEF LiveCalls
<1>5. OneCallPerAgent'
  BY <1>4 DEF IInv, OneCallPerAgent
<1>6. NoTwins'
  BY <1>1, <1>2, CallFields DEF IInv, NoTwins
<1>7. NoServerNoStore'
  BY <1>1, <1>2 DEF IInv, NoServerNoStore, Requests
<1>8. LiveIsNewest'
  <2>1. /\ Requests' \subseteq Requests \cup {new}
        /\ Requests \subseteq calls
    BY <1>2 DEF Requests
  <2> SUFFICES ASSUME NEW m \in Nodes, NEW c \in (LiveCalls(m) \cap Requests)'
               PROVE  /\ store[m].ts < c.snap.ts
                      /\ \A d \in Requests' \ {c} : d.snap.node = m => d.snap.ts < c.snap.ts
    BY DEF LiveIsNewest
  <2>2. CASE m = n
    BY <1>1, <1>4, <2>1, <2>2
  <2>3. CASE m # n
    <3>1. c \in LiveCalls(m) \cap Requests
      BY <1>1, <1>4, <2>1, <2>3 DEF LiveCalls
    <3> QED
      BY <1>1, <2>1, <2>3, <3>1 DEF IInv, LiveIsNewest
  <2> QED
    BY <2>2, <2>3
<1> QED
  BY <1>5, <1>6, <1>7, <1>8

\* What a read puts into the snapshot.
LEMMA ReadDraft ==
    ASSUME TypeOK, NEW n \in Nodes, NEW total, NEW cut, Read(n, total, cut)
    PROVE  /\ draft'[n].node = draft[n].node
           /\ draft'[n].ts = draft[n].ts
           /\ draft'[n].inc = draft[n].inc
           /\ draft'[n].cut = draft[n].cut \cup cut
           /\ \A t \in Tables : draft'[n].rows[t] =
                  IF t = nextTable[n] THEN total ELSE draft[n].rows[t]
<1>1. draft[n] \in Snapshots
  BY DEF TypeOK
<1>2. draft'[n] = [draft[n] EXCEPT !.rows = [draft[n].rows EXCEPT ![nextTable[n]] = total],
                                   !.cut = draft[n].cut \cup cut]
  BY <1>1 DEF Read, TypeOK, Snapshots
<1> QED
  BY <1>1, <1>2 DEF Snapshots

LEMMA NextIInv == TypeOK /\ TypeOK' /\ IInv /\ [Next]_vars => IInv'
<1> SUFFICES ASSUME TypeOK, TypeOK', IInv, [Next]_vars PROVE IInv'
  OBVIOUS
<1>1. ASSUME NEW n \in Nodes, NEW t \in Tables, Probe(n, t) PROVE IInv'
  <2>1. PICK total \in 1 .. table[n][t] + 1 : table' = [table EXCEPT ![n][t] = total]
    BY <1>1 DEF Probe
  <2>2. \A m \in Nodes, u \in Tables :
            /\ events[m][u] \in Nat /\ table[m][u] \in Nat
            /\ events'[m][u] = IF m = n /\ u = t THEN events[m][u] + 1 ELSE events[m][u]
            /\ table'[m][u] = IF m = n /\ u = t THEN total ELSE table[m][u]
    BY <1>1, <2>1 DEF Probe, TypeOK
  <2>3. \A m \in Nodes, u \in Tables : events[m][u] <= events'[m][u]
    BY <2>2
  <2>4. TablesBounded'
    BY <2>1, <2>2 DEF IInv, TablesBounded
  <2>5. UNCHANGED <<phase, inc, clock, draft, calls, serving, store>>
    BY <1>1 DEF Probe, agentVars
  <2>6. DraftIsNewest'
    <3>1. \A m \in Nodes : draft[m] \in Snapshots
      BY DEF TypeOK
    <3>2. \A m \in Nodes : phase[m] = "collecting" =>
              draft[m].node = m /\ draft[m].rows \in [Tables -> Nat]
      BY <3>1 DEF IInv, DraftIsNewest, Snapshots
    <3>3. \A m \in Nodes : phase[m] = "collecting" => Honest(draft[m])'
      BY <2>2, <2>5, <3>2 DEF IInv, DraftIsNewest, Honest
    <3> QED
      BY <2>5, <3>3 DEF IInv, DraftIsNewest
  <2>7. \A m \in Nodes : clock[m] <= clock'[m]
    BY <2>5, CallFields
  <2> QED
    BY <2>3, <2>4, <2>5, <2>6, <2>7, QuietSteps DEF IInv
<1>2. ASSUME NEW n \in Nodes, DrainConnect(n) \/ Interrupt(n) PROVE IInv'
  <2>1. UNCHANGED <<phase, inc, clock, draft, calls, serving, store, events, table>>
    BY <1>2 DEF DrainConnect, Interrupt, agentVars, kernelVars
  <2> QED
    BY <2>1 DEF IInv, OneCallPerAgent, NeverOverstated, LiveIsNewest, TablesBounded,
                NothingFromTheFuture, DraftIsNewest, NoTwins, NoServerNoStore,
                Honest, LiveCalls, Requests
<1>3. ASSUME NEW n \in Nodes, Start(n) PROVE IInv'
  <2>0. PICK s : s = Snapshot(n, inc'[n], clock'[n])
    OBVIOUS
  <2>1. /\ inc' = [inc EXCEPT ![n] = @ + 1]
        /\ clock' = [clock EXCEPT ![n] = @ + 1]
        /\ phase' = [phase EXCEPT ![n] = "handshake"]
        /\ events' = [events EXCEPT ![n] = NoRows]
        /\ table' = [table EXCEPT ![n] = NoRows]
        /\ calls' = calls \cup {Call(s)}
        /\ UNCHANGED <<draft, serving, store>>
        /\ phase[n] = "down"
    BY <1>3, <2>0 DEF Start
  <2>2. /\ inc'[n] = inc[n] + 1
        /\ clock'[n] = clock[n] + 1
        /\ inc[n] \in Nat /\ clock[n] \in Nat
        /\ \A m \in Nodes \ {n} : inc'[m] = inc[m] /\ clock'[m] = clock[m]
                                /\ phase'[m] = phase[m] /\ events'[m] = events[m]
                                /\ table'[m] = table[m]
        /\ phase'[n] = "handshake"
        /\ events'[n] = NoRows /\ table'[n] = NoRows
    BY <2>1 DEF TypeOK
  <2>3. /\ s \in Snapshots /\ s.node = n /\ s.inc = inc'[n] /\ s.ts = clock'[n]
        /\ s.rows = NoRows
    BY <2>0, <2>2, SnapshotType DEF Snapshot
  <2>4. Call(s).snap = s
    BY DEF Call
  <2>5. LiveCalls(n) = {}
    BY <2>1 DEF IInv, OneCallPerAgent
  <2>6. store[n].ts < s.ts /\ \A c \in calls : c.snap.node = n => c.snap.ts < s.ts
    BY <2>2, <2>3, CallFields DEF IInv, NothingFromTheFuture
  <2>7. OneCallPerAgent' /\ LiveIsNewest' /\ NoTwins' /\ NoServerNoStore'
    BY <2>1, <2>2, <2>3, <2>5, <2>6, NewCall
  <2>8. NeverOverstated'
    <3>1. Honest(s)'
      BY <2>2, <2>3 DEF Honest, NoRows
    <3>2. ASSUME NEW r \in Snapshots, Honest(r) PROVE Honest(r)'
      <4>1. r.node \in Nodes /\ r.inc \in Nat
        BY DEF Snapshots
      <4>2. CASE r.node = n
        BY <2>2, <3>2, <4>1, <4>2 DEF Honest
      <4>3. CASE r.node # n
        BY <2>2, <3>2, <4>1, <4>3 DEF Honest
      <4> QED
        BY <4>2, <4>3
    <3> QED
      BY <2>1, <2>4, <3>1, <3>2, CallFields DEF IInv, NeverOverstated
  <2>9. NothingFromTheFuture'
    BY <2>1, <2>2, <2>3, <2>4, CallFields DEF IInv, NothingFromTheFuture
  <2>10. TablesBounded'
    BY <2>2 DEF IInv, TablesBounded, NoRows
  <2>11. DraftIsNewest'
    BY <2>1, <2>2, <2>3, <2>4 DEF IInv, DraftIsNewest, Honest
  <2> QED
    BY <2>7, <2>8, <2>9, <2>10, <2>11 DEF IInv
<1>4. ASSUME NEW n \in Nodes, Tick(n) PROVE IInv'
  <2>0. PICK s : s = Snapshot(n, inc[n], clock'[n])
    OBVIOUS
  <2>1. /\ phase[n] = "idle"
        /\ phase' = [phase EXCEPT ![n] = "collecting"]
        /\ clock' = [clock EXCEPT ![n] = @ + 1]
        /\ draft' = [draft EXCEPT ![n] = s]
        /\ UNCHANGED <<inc, events, table, calls, serving, store>>
    BY <1>4, <2>0 DEF Tick, kernelVars
  <2>2. /\ clock[n] \in Nat /\ clock'[n] = clock[n] + 1 /\ inc[n] \in Nat
        /\ phase'[n] = "collecting"
        /\ draft'[n] = s
        /\ \A m \in Nodes \ {n} : clock'[m] = clock[m] /\ phase'[m] = phase[m]
                                /\ draft'[m] = draft[m]
    BY <2>1 DEF TypeOK
  <2>3. /\ s.node = n /\ s.inc = inc[n] /\ s.ts = clock'[n] /\ s.rows = NoRows
    BY <2>0 DEF Snapshot
  <2>4. /\ \A m \in Nodes : clock[m] <= clock'[m]
        /\ \A m \in Nodes : phase[m] \in {"handshake", "sending"}
                                <=> phase'[m] \in {"handshake", "sending"}
        /\ \A m \in Nodes, t \in Tables : events[m][t] <= events'[m][t]
    <3>1. \A m \in Nodes, t \in Tables : events[m][t] \in Nat
      BY DEF TypeOK
    <3> QED
      BY <2>1, <2>2, <3>1, CallFields
  <2>5. DraftIsNewest'
    <3> SUFFICES ASSUME NEW m \in Nodes, phase'[m] = "collecting"
                 PROVE  /\ draft'[m].node = m
                        /\ draft'[m].ts = clock'[m]
                        /\ Honest(draft[m])'
                        /\ store'[m].ts < clock'[m]
                        /\ \A c \in calls' : c.snap.node = m => c.snap.ts < clock'[m]
      BY DEF DraftIsNewest, Honest
    <3>1. CASE m = n
      <4>1. \A t \in Tables : NoRows[t] = 0 /\ events[n][t] \in Nat
        BY DEF NoRows, TypeOK
      <4>2. Honest(draft[m])'
        BY <2>1, <2>2, <2>3, <3>1, <4>1 DEF Honest
      <4> QED
        BY <2>1, <2>2, <2>3, <3>1, <4>2, CallFields DEF IInv, NothingFromTheFuture
    <3>2. CASE m # n
      BY <2>1, <2>2, <3>2 DEF IInv, DraftIsNewest, Honest
    <3> QED
      BY <3>1, <3>2
  <2>6. TablesBounded'
    BY <2>1 DEF IInv, TablesBounded
  <2> QED
    BY <2>1, <2>4, <2>5, <2>6, QuietSteps DEF IInv
<1>5. ASSUME NEW n \in Nodes, NEW total \in 0 .. table[n][nextTable[n]],
             NEW cut \in SUBSET {nextTable[n]}, Read(n, total, cut), table' = table
      PROVE  IInv'
  <2>1. /\ phase[n] = "collecting"
        /\ nextTable[n] \in Tables
        /\ UNCHANGED <<phase, inc, clock, events, table, calls, serving, store>>
    <3>1. nextTable[n] \in 1 .. NumTables + 1 /\ nextTable[n] <= NumTables
      BY <1>5 DEF Read, TypeOK
    <3> QED
      BY <1>5, <3>1, NumTablesNat DEF Read, Tables
  <2>2. /\ draft[n] \in Snapshots
        /\ \A m \in Nodes \ {n} : draft'[m] = draft[m]
        /\ \A t \in Tables : events[n][t] \in Nat /\ table[n][t] \in Nat
    BY <1>5 DEF Read, TypeOK
  <2>3. /\ draft'[n].node = draft[n].node
        /\ draft'[n].ts = draft[n].ts
        /\ draft'[n].inc = draft[n].inc
        /\ \A t \in Tables : draft'[n].rows[t] =
                IF t = nextTable[n] THEN total ELSE draft[n].rows[t]
    BY <1>5, ReadDraft
  <2>4. total <= events[n][nextTable[n]]
    BY <2>1, <2>2 DEF IInv, TablesBounded
  <2>5. DraftIsNewest'
    <3>1. Honest(draft[n])'
      BY <2>1, <2>3, <2>4 DEF IInv, DraftIsNewest, Honest
    <3>2. \A m \in Nodes \ {n} : phase[m] = "collecting" => Honest(draft[m])'
      BY <2>1, <2>2 DEF IInv, DraftIsNewest, Honest
    <3> QED
      BY <2>1, <2>2, <2>3, <3>1, <3>2 DEF IInv, DraftIsNewest
  <2>6. /\ \A m \in Nodes : clock[m] <= clock'[m]
        /\ \A m \in Nodes, t \in Tables : events[m][t] <= events'[m][t]
    <3>1. \A m \in Nodes, t \in Tables : events[m][t] \in Nat
      BY DEF TypeOK
    <3> QED
      BY <2>1, <3>1, CallFields
  <2>7. TablesBounded'
    BY <2>1 DEF IInv, TablesBounded
  <2> QED
    BY <2>1, <2>5, <2>6, <2>7, QuietSteps DEF IInv
<1>6. ASSUME NEW n \in Nodes, ReadTable(n) \/ ReadFails(n) PROVE IInv'
  <2>1. CASE ReadTable(n)
    <3>1. /\ nextTable[n] \in 1 .. NumTables + 1
          /\ nextTable[n] <= NumTables
          /\ table[n] \in [Tables -> Nat]
      BY <2>1 DEF ReadTable, TypeOK
    <3>2. table[n][nextTable[n]] \in Nat
      BY <3>1, NumTablesNat DEF Tables
    <3>3. table[n][nextTable[n]] \in 0 .. table[n][nextTable[n]]
      BY <3>2
    <3> QED
      BY <1>5, <2>1, <3>3 DEF ReadTable
  <2>2. CASE ReadFails(n)
    <3>1. PICK total \in 0 .. table[n][nextTable[n]] : Read(n, total, {nextTable[n]})
      BY <2>2 DEF ReadFails
    <3> QED
      BY <1>5, <2>2, <3>1 DEF ReadFails
  <2> QED
    BY <1>6, <2>1, <2>2
<1>7. ASSUME NEW n \in Nodes, Send(n) PROVE IInv'
  <2>1. /\ phase[n] = "collecting"
        /\ phase' = [phase EXCEPT ![n] = "sending"]
        /\ calls' = calls \cup {Call(draft[n])}
        /\ UNCHANGED <<inc, clock, draft, events, table, serving, store>>
    BY <1>7 DEF Send, kernelVars
  <2>2. PICK s \in Snapshots : s = draft[n]
    BY DEF TypeOK
  <2>3. /\ s.node = n /\ s.ts = clock[n] /\ Honest(s)
        /\ store[n].ts < s.ts
        /\ \A c \in calls : c.snap.node = n => c.snap.ts < s.ts
    BY <2>1, <2>2 DEF IInv, DraftIsNewest
  <2>4. phase'[n] = "sending" /\ \A m \in Nodes \ {n} : phase'[m] = phase[m]
    BY <2>1 DEF TypeOK
  <2>5. LiveCalls(n) = {}
    BY <2>1 DEF IInv, OneCallPerAgent
  <2>6. Call(s).snap = s
    BY DEF Call
  <2>7. OneCallPerAgent' /\ LiveIsNewest' /\ NoTwins' /\ NoServerNoStore'
    BY <2>1, <2>2, <2>3, <2>4, <2>5, NewCall
  <2>8. NeverOverstated'
    BY <2>1, <2>2, <2>3, <2>6 DEF IInv, NeverOverstated, Honest
  <2>9. NothingFromTheFuture'
    BY <2>1, <2>2, <2>3, <2>6, CallFields DEF IInv, NothingFromTheFuture
  <2>10. TablesBounded'
    BY <2>1 DEF IInv, TablesBounded
  <2>11. DraftIsNewest'
    BY <2>1, <2>2, <2>3, <2>4, <2>6 DEF IInv, DraftIsNewest, Honest
  <2> QED
    BY <2>7, <2>8, <2>9, <2>10, <2>11 DEF IInv
<1>8. ASSUME NEW n \in Nodes,
             UNCHANGED <<inc, clock, draft, events, table, serving, store>>,
             \A c \in calls' : \E d \in calls :
                /\ c.snap = d.snap
                /\ c.live => d.live
                /\ c.stage = "request" => d.stage = "request",
             NoTwins',
             LiveCalls(n)' = {},
             \A m \in Nodes \ {n} : LiveCalls(m)' = LiveCalls(m),
             phase'[n] \in {"idle", "down"},
             \A m \in Nodes \ {n} : phase'[m] = phase[m]
      PROVE  IInv'
  <2>1. NeverOverstated' /\ LiveIsNewest' /\ NothingFromTheFuture'
    BY <1>8, CallsOnlyFade
  <2>2. OneCallPerAgent'
    BY <1>8 DEF IInv, OneCallPerAgent
  <2>3. TablesBounded'
    BY <1>8 DEF IInv, TablesBounded
  <2>4. DraftIsNewest'
    BY <1>8 DEF IInv, DraftIsNewest, Honest
  <2>5. NoServerNoStore'
    BY <1>8 DEF IInv, NoServerNoStore, Requests
  <2> QED
    BY <1>8, <2>1, <2>2, <2>3, <2>4, <2>5 DEF IInv
<1>9. ASSUME NEW n \in Nodes, Reply(n) PROVE IInv'
  <2>1. PICK c \in LiveCalls(n) : calls' = calls \ {c}
    BY <1>9 DEF Reply
  <2>2. /\ phase' = [phase EXCEPT ![n] = "idle"]
        /\ UNCHANGED <<inc, clock, draft, events, table, serving, store>>
    BY <1>9 DEF Reply, kernelVars
  <2>3. phase'[n] = "idle" /\ \A m \in Nodes \ {n} : phase'[m] = phase[m]
    BY <2>2 DEF TypeOK
  <2>4. LiveCalls(n)' = {} /\ \A m \in Nodes \ {n} : LiveCalls(m)' = LiveCalls(m)
    BY <2>1 DEF IInv, OneCallPerAgent, LiveCalls
  <2>5. NoTwins'
    BY <2>1 DEF IInv, NoTwins
  <2> QED
    BY <1>8, <2>1, <2>2, <2>3, <2>4, <2>5
<1>10. ASSUME NEW n \in Nodes, CallLost(n) \/ CallBreaks(n) \/ Crash(n) PROVE IInv'
  <2>1. /\ Abandon(n)
        /\ UNCHANGED <<inc, clock, draft, events, table, serving, store>>
    BY <1>10 DEF CallLost, CallBreaks, CallFails, Crash, kernelVars
  <2>2. phase'[n] \in {"idle", "down"} /\ \A m \in Nodes \ {n} : phase'[m] = phase[m]
    BY <1>10 DEF CallLost, CallBreaks, CallFails, Crash, TypeOK
  <2> QED
    BY <1>8, <2>1, <2>2, AbandonFades
<1>11. ASSUME NEW n \in Nodes, Stop(n) PROVE IInv'
  <2>1. /\ phase[n] = "idle"
        /\ phase' = [phase EXCEPT ![n] = "down"]
        /\ UNCHANGED <<inc, clock, draft, events, table, calls, serving, store>>
    BY <1>11 DEF Stop, kernelVars
  <2>2. phase'[n] = "down" /\ \A m \in Nodes \ {n} : phase'[m] = phase[m]
    BY <2>1 DEF TypeOK
  <2>3. LiveCalls(n)' = {} /\ \A m \in Nodes : LiveCalls(m)' = LiveCalls(m)
    BY <2>1 DEF IInv, OneCallPerAgent, LiveCalls
  <2>4. NoTwins'
    BY <2>1 DEF IInv, NoTwins
  <2> QED
    BY <1>8, <2>1, <2>2, <2>3, <2>4
<1>12. CASE Serve
  <2>1. /\ ~serving
        /\ serving'
        /\ store' = [n \in Nodes |-> Absent(n)]
        /\ UNCHANGED <<phase, inc, clock, draft, events, table, calls>>
    BY <1>12 DEF Serve, agentVars, kernelVars
  <2>2. UNCHANGED store
    BY <2>1 DEF IInv, NoServerNoStore
  <2> QED
    BY <2>1, <2>2 DEF IInv, OneCallPerAgent, NeverOverstated, LiveIsNewest, TablesBounded,
                NothingFromTheFuture, DraftIsNewest, NoTwins, NoServerNoStore,
                Honest, LiveCalls, Requests
<1>13. ASSUME NEW c \in calls, SendSnapshot(c) PROVE IInv'
  <2> DEFINE done == [c EXCEPT !.stage = "reply"]
             m == c.snap.node
  <2>1. /\ c \in Requests
        /\ store' = [store EXCEPT ![m] = c.snap]
        /\ calls' = (calls \ {c}) \cup (IF c.live THEN {done} ELSE {})
        /\ UNCHANGED <<phase, inc, clock, draft, events, table, serving>>
    BY <1>13 DEF SendSnapshot, Update, agentVars, kernelVars
  <2>2. /\ done.snap = c.snap
        /\ done.stage = "reply"
        /\ done.live = c.live
        /\ done # c
    BY <2>1, CallFields DEF Calls, Requests
  <2> HIDE DEF done
  <2>3. /\ c.snap \in Snapshots /\ m \in Nodes
        /\ store'[m] = c.snap
        /\ \A n \in Nodes \ {m} : store'[n] = store[n]
    BY <2>1, CallFields DEF TypeOK
  <2>4. Requests' = Requests \ {c}
    BY <2>1, <2>2 DEF Requests
  <2>5. \A n \in Nodes : LiveCalls(n)' = IF c \in LiveCalls(n)
                                         THEN (LiveCalls(n) \ {c}) \cup {done}
                                         ELSE LiveCalls(n)
    BY <2>1, <2>2 DEF LiveCalls
  <2>6. OneCallPerAgent'
    BY <2>1, <2>5 DEF IInv, OneCallPerAgent
  <2>7. NeverOverstated'
    <3>1. \A e \in calls' : Honest(e.snap)'
      BY <2>1, <2>2 DEF IInv, NeverOverstated, Honest
    <3>2. \A n \in Nodes : Honest(store[n])'
      BY <2>1, <2>3 DEF IInv, NeverOverstated, Honest
    <3> QED
      BY <3>1, <3>2 DEF NeverOverstated
  <2>8. LiveIsNewest'
    <3> SUFFICES ASSUME NEW n \in Nodes, NEW d \in (LiveCalls(n) \cap Requests)'
                 PROVE  /\ store'[n].ts < d.snap.ts
                        /\ \A e \in Requests' \ {d} : e.snap.node = n => e.snap.ts < d.snap.ts
      BY DEF LiveIsNewest
    <3>1. d \in LiveCalls(n) \cap Requests /\ d # c
      BY <2>4, <2>5, <2>2 DEF Requests
    <3>2. CASE n = m
      BY <2>1, <2>3, <2>4, <3>1, <3>2 DEF IInv, LiveIsNewest
    <3>3. CASE n # m
      BY <2>3, <2>4, <3>1, <3>3 DEF IInv, LiveIsNewest
    <3> QED
      BY <3>2, <3>3
  <2>9. TablesBounded'
    BY <2>1 DEF IInv, TablesBounded
  <2>10. NothingFromTheFuture'
    BY <2>1, <2>2, <2>3 DEF IInv, NothingFromTheFuture
  <2>11. DraftIsNewest'
    BY <2>1, <2>2, <2>3 DEF IInv, DraftIsNewest, Honest
  <2>12. NoTwins'
    BY <2>1, <2>2 DEF IInv, NoTwins
  <2>13. NoServerNoStore'
    BY <2>1 DEF IInv, NoServerNoStore
  <2> QED
    BY <2>6, <2>7, <2>8, <2>9, <2>10, <2>11, <2>12, <2>13 DEF IInv
<1>14. CASE ServerStops
  <2> DEFINE lost(d) == [d EXCEPT !.stage = "lost"]
  <2>1. /\ store' = [n \in Nodes |-> Absent(n)]
        /\ calls' = {c \in calls : c.stage # "request"} \cup
                     {lost(c) : c \in {d \in Requests : d.live}}
        /\ UNCHANGED <<phase, inc, clock, draft, events, table>>
    BY <1>14 DEF ServerStops, agentVars, kernelVars
  <2>2. \A d \in calls : /\ lost(d).snap = d.snap
                         /\ lost(d).stage = "lost"
                         /\ lost(d).live = d.live
    BY CallFields DEF Calls
  <2> HIDE DEF lost
  <2>3. \A c \in calls' : \/ c \in calls /\ c.stage # "request"
                          \/ \E d \in calls : d.stage = "request" /\ d.live /\ c = lost(d)
    BY <2>1 DEF Requests
  <2>4. \A d \in calls : IF d.stage # "request" THEN d \in calls'
                         ELSE d.live => lost(d) \in calls'
    BY <2>1 DEF Requests
  <2>5. Requests' = {}
    BY <2>2, <2>3 DEF Requests
  <2>6. \A n \in Nodes : /\ store'[n].node = n
                         /\ store'[n].ts = 0
                         /\ store'[n].inc = 0
                         /\ store'[n].rows = NoRows
    BY <2>1 DEF Absent, Snapshot
  <2>7. OneCallPerAgent'
    <3> SUFFICES ASSUME NEW n \in Nodes
                 PROVE  /\ LiveCalls(n)' # {} <=> phase'[n] \in {"handshake", "sending"}
                        /\ \A c, d \in LiveCalls(n)' : c = d
      BY DEF OneCallPerAgent
    <3>1. LiveCalls(n)' # {} <=> LiveCalls(n) # {}
      BY <2>2, <2>3, <2>4 DEF LiveCalls
    <3>2. \A c, d \in LiveCalls(n)' : c = d
      BY <2>2, <2>3 DEF IInv, OneCallPerAgent, LiveCalls
    <3> QED
      BY <2>1, <3>1, <3>2 DEF IInv, OneCallPerAgent
  <2>8. NeverOverstated'
    <3>1. \A c \in calls' : Honest(c.snap)'
      BY <2>1, <2>2, <2>3 DEF IInv, NeverOverstated, Honest
    <3>2. \A n \in Nodes : /\ inc[n] \in Nat
                           /\ \A t \in Tables : NoRows[t] = 0 /\ events[n][t] \in Nat
      BY DEF TypeOK, NoRows
    <3>3. \A n \in Nodes : Honest(store[n])'
      BY <2>1, <2>6, <3>2 DEF Honest
    <3> QED
      BY <3>1, <3>3 DEF NeverOverstated
  <2>9. LiveIsNewest'
    BY <2>5 DEF LiveIsNewest
  <2>10. TablesBounded'
    BY <2>1 DEF IInv, TablesBounded
  <2>11. NothingFromTheFuture'
    BY <2>1, <2>2, <2>3, <2>6, CallFields DEF IInv, NothingFromTheFuture
  <2>12. DraftIsNewest'
    BY <2>1, <2>2, <2>3, <2>6, CallFields DEF IInv, DraftIsNewest, Honest
  <2>13. NoTwins'
    BY <2>2, <2>3 DEF IInv, NoTwins
  <2>14. NoServerNoStore'
    BY <2>1, <2>5 DEF NoServerNoStore
  <2> QED
    BY <2>7, <2>8, <2>9, <2>10, <2>11, <2>12, <2>13, <2>14 DEF IInv
<1>15. CASE UNCHANGED vars
  BY <1>15 DEF vars, agentVars, kernelVars, IInv, OneCallPerAgent, NeverOverstated,
               LiveIsNewest, TablesBounded, NothingFromTheFuture, DraftIsNewest,
               NoTwins, NoServerNoStore, Honest, LiveCalls, Requests
<1> QED
  BY <1>1, <1>2, <1>3, <1>4, <1>6, <1>7, <1>9, <1>10, <1>11, <1>12, <1>13, <1>14, <1>15
     DEF Next, AgentStep, FaultStep

LEMMA InvariantHolds == Spec => [](TypeOK /\ IInv)
<1>1. Init => TypeOK /\ IInv
  BY InitType, InitIInv
<1>2. TypeOK /\ IInv /\ [Next]_vars => (TypeOK /\ IInv)'
  BY NextType, NextIInv
<1> QED
  BY <1>1, <1>2, PTL DEF Spec

\* An agent waits for at most one RPC, exactly when Run is inside one.
THEOREM OneCall == Spec => []OneCallPerAgent
<1>1. IInv => OneCallPerAgent
  BY DEF IInv
<1> QED
  BY <1>1, InvariantHolds, PTL

\* No snapshot, stored or on its way, claims more than its node saw.
THEOREM Honesty == Spec => []NeverOverstated
<1>1. IInv => NeverOverstated
  BY DEF IInv
<1> QED
  BY <1>1, InvariantHolds, PTL

\* The call an agent waits for carries its node's newest snapshot.
THEOREM LiveNewest == Spec => []LiveIsNewest
<1>1. IInv => LiveIsNewest
  BY DEF IInv
<1> QED
  BY <1>1, InvariantHolds, PTL

\* The store of a node goes back in time only by the handler of an
\* abandoned call, or when the aggregator stops.
THEOREM Regression == Spec => OnlyLateCallsRegress
<1> DEFINE Regress ==
        \A n \in Nodes :
            store'[n].ts < store[n].ts =>
                \/ \E c \in Requests : ~c.live /\ store'[n] = c.snap /\ c \notin calls'
                \/ ~serving'
<1>1. TypeOK /\ IInv /\ [Next]_vars => [Regress]_vars
  <2> SUFFICES ASSUME TypeOK, IInv, Next, NEW n \in Nodes, store'[n].ts < store[n].ts
               PROVE  \/ \E c \in Requests : ~c.live /\ store'[n] = c.snap /\ c \notin calls'
                      \/ ~serving'
    OBVIOUS
  <2>1. store' # store
    BY CallFields
  <2>2. CASE Serve
    BY <2>1, <2>2 DEF Serve, IInv, NoServerNoStore
  <2>3. CASE ServerStops
    BY <2>3 DEF ServerStops
  <2>4. ASSUME NEW c \in calls, SendSnapshot(c)
        PROVE  \E d \in Requests : ~d.live /\ store'[n] = d.snap /\ d \notin calls'
    <3>1. /\ c \in Requests
          /\ store' = [store EXCEPT ![c.snap.node] = c.snap]
          /\ ~c.live => c \notin calls'
      BY <2>4 DEF SendSnapshot, Update
    <3>2. c.snap.node = n /\ store'[n] = c.snap
      BY <3>1, CallFields DEF TypeOK
    <3>3. ~c.live
      BY <3>1, <3>2, CallFields DEF IInv, LiveIsNewest, LiveCalls
    <3> QED
      BY <3>1, <3>2, <3>3
  <2>5. ASSUME NEW m \in Nodes, AgentStep(m) \/ FaultStep(m) \/ DrainConnect(m)
        PROVE  store' = store
    BY <2>5 DEF AgentStep, FaultStep, DrainConnect, Start, Tick, ReadTable, ReadFails, Read,
                Send, Reply, CallLost, CallBreaks, CallFails, Stop, Interrupt, Crash
  <2>6. ASSUME NEW m \in Nodes, NEW t \in Tables, Probe(m, t)
        PROVE  store' = store
    BY <2>6 DEF Probe
  <2> QED
    BY <2>1, <2>2, <2>3, <2>4, <2>5, <2>6 DEF Next
<1> QED
  BY <1>1, InvariantHolds, PTL DEF Spec, OnlyLateCallsRegress

-----------------------------------------------------------------------------
(* What is shown of a table does not vanish without a reason.               *)

\* The snapshots of node n that are shown, or may come to be.
Known(n) == {c.snap : c \in {c \in calls : c.snap.node = n}} \cup {store[n]}

\* A later snapshot r of the same process, for table t.
Keeps(r, t) == r.rows[t] > 0 \/ t \in r.cut

\* What a snapshot of the running process found is still in the table; a
\* later snapshot of the same process shows it too, or could not read it;
\* and so does the snapshot being built, as far as collect has come.
KeepInv(n) ==
    /\ \A s \in Known(n) : s.ts = 0 => s = Absent(n)
    /\ \A s \in Known(n), t \in Tables :
          s.inc = inc[n] /\ s.rows[t] > 0 => table[n][t] > 0
    /\ \A s, r \in Known(n), t \in Tables :
          s.inc = r.inc /\ s.ts <= r.ts /\ s.rows[t] > 0 => Keeps(r, t)
    /\ phase[n] = "collecting" =>
          /\ draft[n].inc = inc[n]
          /\ \A t \in Tables :
                /\ draft[n].rows[t] > 0 => table[n][t] > 0
                /\ t < nextTable[n] =>
                      \A s \in Known(n) :
                          s.inc = inc[n] /\ s.rows[t] > 0 => Keeps(draft[n], t)

LEMMA KnownFacts ==
    ASSUME TypeOK, IInv, NEW n \in Nodes, NEW s \in Known(n)
    PROVE  /\ s \in Snapshots
           /\ s.ts \in Nat /\ s.ts <= clock[n] /\ clock[n] \in Nat
           /\ s.inc \in Nat /\ s.inc <= inc[n] /\ inc[n] \in Nat
           /\ s.rows \in [Tables -> Nat]
BY CallFields DEF Known, IInv, NothingFromTheFuture, NeverOverstated, Honest

LEMMA AbsentFacts ==
    ASSUME NEW n \in Nodes
    PROVE  /\ Absent(n).ts = 0 /\ Absent(n).inc = 0
           /\ \A t \in Tables : Absent(n).rows[t] = 0
BY DEF Absent, Snapshot, NoRows

\* Nothing new is sent, the tables only gain rows, the snapshot being built
\* is left alone.
LEMMA KeepFewer ==
    ASSUME TypeOK, IInv, NEW n \in Nodes, KeepInv(n),
           Known(n)' \subseteq Known(n) \cup {Absent(n)},
           inc'[n] = inc[n],
           \A t \in Tables : table[n][t] > 0 => table'[n][t] > 0,
           phase'[n] = "collecting" =>
              phase[n] = "collecting" /\ draft'[n] = draft[n] /\ nextTable'[n] = nextTable[n]
    PROVE  KeepInv(n)'
<1>1. ASSUME NEW s \in Known(n)', NEW t \in Tables, s.rows[t] > 0
      PROVE  s \in Known(n)
  BY <1>1, AbsentFacts
<1>2. \A s \in Known(n)' : s.ts = 0 => s = Absent(n)
  BY DEF KeepInv
<1>3. \A s \in Known(n)', t \in Tables :
          s.inc = inc'[n] /\ s.rows[t] > 0 => table'[n][t] > 0
  BY <1>1 DEF KeepInv
<1>4. ASSUME NEW s \in Known(n)', NEW r \in Known(n)', NEW t \in Tables,
             s.inc = r.inc, s.ts <= r.ts, s.rows[t] > 0
      PROVE  Keeps(r, t)
  <2>1. s \in Known(n)
    BY <1>1, <1>4
  <2>2. s.ts # 0
    BY <1>4, <2>1, AbsentFacts DEF KeepInv
  <2>3. r \in Known(n)
    BY <1>4, <2>1, <2>2, KnownFacts, AbsentFacts
  <2> QED
    BY <1>4, <2>1, <2>3 DEF KeepInv
<1>5. phase'[n] = "collecting" =>
          /\ draft'[n].inc = inc'[n]
          /\ \A t \in Tables :
                /\ draft'[n].rows[t] > 0 => table'[n][t] > 0
                /\ t < nextTable'[n] =>
                      \A s \in Known(n)' :
                          s.inc = inc'[n] /\ s.rows[t] > 0 => Keeps(draft'[n], t)
  BY <1>1 DEF KeepInv
<1> QED
  BY <1>2, <1>3, <1>4, <1>5 DEF KeepInv, Keeps, Absent, Snapshot, NoRows

\* Another node's step.
LEMMA KeepOthers ==
    ASSUME TypeOK, IInv, NEW n \in Nodes, NEW m \in Nodes, m # n, KeepInv(m),
           \A c \in calls' : c \in calls \/ c.snap.node = n,
           store'[m] = store[m], inc'[m] = inc[m], table'[m] = table[m],
           phase'[m] = phase[m], draft'[m] = draft[m], nextTable'[m] = nextTable[m]
    PROVE  KeepInv(m)'
<1>1. Known(m)' \subseteq Known(m)
  BY DEF Known
<1> QED
  BY <1>1, KeepFewer

LEMMA InitKeep == Init => \A n \in Nodes : KeepInv(n)
<1> SUFFICES ASSUME Init, NEW n \in Nodes PROVE KeepInv(n)
  OBVIOUS
<1>1. Known(n) = {Absent(n)} /\ phase[n] = "down"
  BY DEF Init, Known
<1> QED
  BY <1>1, AbsentFacts DEF KeepInv

LEMMA NextKeep ==
    ASSUME TypeOK, IInv, \A n \in Nodes : KeepInv(n), [Next]_vars
    PROVE  \A n \in Nodes : KeepInv(n)'
<1>1. ASSUME NEW n \in Nodes, Start(n), NEW m \in Nodes PROVE KeepInv(m)'
  <2> DEFINE s == Snapshot(n, inc'[n], clock'[n])
  <2>1. /\ inc' = [inc EXCEPT ![n] = @ + 1]
        /\ clock' = [clock EXCEPT ![n] = @ + 1]
        /\ phase' = [phase EXCEPT ![n] = "handshake"]
        /\ table' = [table EXCEPT ![n] = NoRows]
        /\ calls' = calls \cup {Call(s)}
        /\ UNCHANGED <<draft, nextTable, store>>
    BY <1>1 DEF Start
  <2>2. /\ Call(s).snap = s
        /\ s.node = n /\ s.inc = inc'[n] /\ s.ts = clock'[n] /\ s.rows = NoRows
    BY DEF Call, Snapshot
  <2> HIDE DEF s
  <2>3. CASE m # n
    BY <2>1, <2>2, <2>3, KeepOthers DEF TypeOK
  <2>4. CASE m = n
    <3>1. Known(n)' = Known(n) \cup {s}
      BY <2>1, <2>2 DEF Known
    <3>2. /\ inc'[n] = inc[n] + 1 /\ clock'[n] = clock[n] + 1 /\ phase'[n] = "handshake"
          /\ \A t \in Tables : s.rows[t] = 0
      BY <2>1, <2>2 DEF TypeOK, NoRows
    <3>3. inc[n] \in Nat /\ clock[n] \in Nat
      BY DEF TypeOK
    <3>4. \A r \in Known(n)' : r = s \/ (r \in Known(n) /\ r.inc < inc'[n] /\ r.inc # s.inc)
      <4>1. \A r \in Known(n) : r.inc \in Nat /\ r.inc <= inc[n]
        BY KnownFacts
      <4>2. \A r \in Known(n) : r.inc < inc'[n] /\ r.inc # inc'[n]
        BY <3>2, <3>3, <4>1
      <4>3. s.inc = inc'[n]
        BY <2>2
      <4> QED
        BY <3>1, <4>2, <4>3
    <3>5. s.ts # 0
      BY <2>2, <3>2, <3>3
    <3>6. \A r \in Known(n)' : r.ts = 0 => r = Absent(n)
      BY <3>4, <3>5 DEF KeepInv
    <3>7. \A r \in Known(n)', t \in Tables : ~(r.inc = inc'[n] /\ r.rows[t] > 0)
      BY <3>2, <3>3, <3>4, KnownFacts
    <3>8. \A r, q \in Known(n)', t \in Tables :
              r.inc = q.inc /\ r.ts <= q.ts /\ r.rows[t] > 0 => Keeps(q, t)
      BY <3>2, <3>4 DEF KeepInv
    <3> QED
      BY <2>4, <3>2, <3>6, <3>7, <3>8 DEF KeepInv, Keeps, Absent, Snapshot, NoRows
  <2> QED
    BY <2>3, <2>4
<1>2. ASSUME NEW n \in Nodes, Tick(n), NEW m \in Nodes PROVE KeepInv(m)'
  <2> DEFINE s == Snapshot(n, inc[n], clock'[n])
  <2>1. /\ draft' = [draft EXCEPT ![n] = s]
        /\ nextTable' = [nextTable EXCEPT ![n] = 1]
        /\ phase' = [phase EXCEPT ![n] = "collecting"]
        /\ UNCHANGED <<inc, table, calls, store>>
    BY <1>2 DEF Tick, kernelVars
  <2>2. s.inc = inc[n] /\ \A t \in Tables : s.rows[t] = 0
    BY DEF Snapshot, NoRows
  <2> HIDE DEF s
  <2>3. CASE m # n
    BY <2>1, <2>3, KeepOthers DEF TypeOK
  <2>4. CASE m = n
    <3>1. Known(n)' = Known(n)
      BY <2>1 DEF Known
    <3>2. draft'[n] = s /\ nextTable'[n] = 1
      BY <2>1 DEF TypeOK
    <3>3. \A t \in Tables : ~(t < nextTable'[n])
      BY <3>2 DEF Tables
    <3> QED
      BY <2>1, <2>2, <2>4, <3>1, <3>2, <3>3 DEF KeepInv, Keeps, Absent, Snapshot, NoRows
  <2> QED
    BY <2>3, <2>4
<1>3. ASSUME NEW n \in Nodes, NEW total, NEW cut, Read(n, total, cut), table' = table,
             \/ total = table[n][nextTable[n]]
             \/ total <= table[n][nextTable[n]] /\ total \in Nat /\ cut = {nextTable[n]},
             NEW m \in Nodes
      PROVE  KeepInv(m)'
  <2>1. /\ phase[n] = "collecting"
        /\ nextTable[n] <= NumTables
        /\ nextTable' = [nextTable EXCEPT ![n] = @ + 1]
        /\ UNCHANGED <<phase, inc, calls, store>>
    BY <1>3 DEF Read
  <2>2. CASE m # n
    <3>1. draft'[m] = draft[m] /\ nextTable'[m] = nextTable[m]
      BY <1>3, <2>2 DEF Read, TypeOK
    <3> QED
      BY <1>3, <2>1, <2>2, <3>1, KeepOthers
  <2>3. CASE m = n
    <3>1. Known(n)' = Known(n)
      BY <2>1 DEF Known
    <3>2. /\ draft'[n].inc = draft[n].inc
          /\ draft'[n].cut = draft[n].cut \cup cut
          /\ \A t \in Tables : draft'[n].rows[t] =
                IF t = nextTable[n] THEN total ELSE draft[n].rows[t]
      BY <1>3, ReadDraft
    <3>3. nextTable[n] \in Nat /\ nextTable'[n] = nextTable[n] + 1
      BY <2>1, NumTablesNat DEF TypeOK
    <3>4. \A t \in Tables : table[n][t] \in Nat
      BY DEF TypeOK
    <3>5. ASSUME NEW t \in Tables PROVE draft'[n].rows[t] > 0 => table[n][t] > 0
      BY <1>3, <2>1, <3>2, <3>4 DEF KeepInv
    <3>6. ASSUME NEW t \in Tables, t < nextTable'[n], NEW s \in Known(n),
                 s.inc = inc[n], s.rows[t] > 0
          PROVE  Keeps(draft'[n], t)
      <4>1. CASE t = nextTable[n]
        <5>1. table[n][t] > 0
          BY <3>6 DEF KeepInv
        <5> QED
          BY <1>3, <3>2, <4>1, <5>1 DEF Keeps
      <4>2. CASE t # nextTable[n]
        <5>1. t < nextTable[n]
          BY <3>3, <3>6, <4>2 DEF Tables
        <5>2. Keeps(draft[n], t)
          BY <2>1, <3>6, <5>1 DEF KeepInv
        <5> QED
          BY <3>2, <4>2, <5>2 DEF Keeps
      <4> QED
        BY <4>1, <4>2
    <3>7. draft'[n].inc = inc'[n]
      BY <2>1, <3>2 DEF KeepInv
    <3> QED
      BY <1>3, <2>1, <2>3, <3>1, <3>5, <3>6, <3>7
         DEF KeepInv, Keeps, Absent, Snapshot, NoRows
  <2> QED
    BY <2>2, <2>3
<1>4. ASSUME NEW n \in Nodes, ReadTable(n) \/ ReadFails(n), NEW m \in Nodes
      PROVE  KeepInv(m)'
  <2>1. CASE ReadTable(n)
    BY <1>3, <2>1 DEF ReadTable
  <2>2. CASE ReadFails(n)
    <3>1. PICK total \in 0 .. table[n][nextTable[n]] : Read(n, total, {nextTable[n]})
      BY <2>2 DEF ReadFails
    <3>2. nextTable[n] \in Tables
      BY <2>2 DEF ReadFails, Tables, TypeOK
    <3>3. table[n][nextTable[n]] \in Nat
      BY <3>2 DEF TypeOK
    <3>4. total <= table[n][nextTable[n]] /\ total \in Nat
      BY <3>3
    <3> QED
      BY <1>3, <2>2, <3>1, <3>4 DEF ReadFails
  <2> QED
    BY <1>4, <2>1, <2>2
<1>5. ASSUME NEW n \in Nodes, Send(n), NEW m \in Nodes PROVE KeepInv(m)'
  <2> DEFINE s == draft[n]
  <2>1. /\ phase[n] = "collecting"
        /\ nextTable[n] > NumTables
        /\ phase' = [phase EXCEPT ![n] = "sending"]
        /\ calls' = calls \cup {Call(s)}
        /\ UNCHANGED <<inc, draft, nextTable, table, store>>
    BY <1>5 DEF Send, kernelVars
  <2>2. /\ Call(s).snap = s /\ s.node = n /\ s.ts = clock[n]
        /\ store[n].ts < s.ts
        /\ \A c \in calls : c.snap.node = n => c.snap.ts < s.ts
        /\ s.inc = inc[n]
    BY <2>1 DEF Call, IInv, DraftIsNewest, KeepInv
  <2>3. \A t \in Tables :
          /\ s.rows[t] > 0 => table[n][t] > 0
          /\ \A r \in Known(n) : r.inc = inc[n] /\ r.rows[t] > 0 => Keeps(s, t)
    <3>1. nextTable[n] \in Nat /\ NumTables \in Nat
      BY NumTablesNat DEF TypeOK
    <3>2. \A t \in Tables : t < nextTable[n]
      BY <2>1, <3>1 DEF Tables
    <3> QED
      BY <2>1, <3>2 DEF KeepInv
  <2> HIDE DEF s
  <2>4. CASE m # n
    BY <2>1, <2>2, <2>4, KeepOthers DEF TypeOK
  <2>5. CASE m = n
    <3>1. Known(n)' = Known(n) \cup {s}
      BY <2>1, <2>2 DEF Known
    <3>2. \A r \in Known(n) : r.ts < s.ts /\ r.ts \in Nat
      BY <2>2, KnownFacts DEF Known
    <3>3. s.ts \in Nat /\ s.ts # 0
      BY <2>2, <3>2 DEF TypeOK, Known
    <3>4. \A r \in Known(n)' : r.ts = 0 => r = Absent(n)
      BY <3>1, <3>3 DEF KeepInv
    <3>5. \A r \in Known(n)', t \in Tables :
              r.inc = inc'[n] /\ r.rows[t] > 0 => table'[n][t] > 0
      BY <2>1, <2>3, <3>1 DEF KeepInv
    <3>6. ASSUME NEW r \in Known(n)', NEW q \in Known(n)', NEW t \in Tables,
                 r.inc = q.inc, r.ts <= q.ts, r.rows[t] > 0
          PROVE  Keeps(q, t)
      <4>1. CASE r = s
        BY <3>1, <3>2, <3>3, <3>6, <4>1 DEF Keeps
      <4>2. CASE r \in Known(n) /\ q = s
        BY <2>2, <2>3, <3>6, <4>2
      <4>3. CASE r \in Known(n) /\ q \in Known(n)
        BY <3>6, <4>3 DEF KeepInv
      <4> QED
        BY <3>1, <4>1, <4>2, <4>3
    <3>7. phase'[n] # "collecting"
      BY <2>1 DEF TypeOK
    <3> QED
      BY <2>5, <3>4, <3>5, <3>6, <3>7 DEF KeepInv, Keeps, Absent, Snapshot, NoRows
  <2> QED
    BY <2>4, <2>5
<1>6. ASSUME NEW n \in Nodes,
             \/ Reply(n) \/ CallLost(n) \/ CallBreaks(n) \/ Crash(n)
             \/ Stop(n) \/ Interrupt(n) \/ DrainConnect(n),
             NEW m \in Nodes
      PROVE  KeepInv(m)'
  <2>1. \A c \in calls' : \E d \in calls : c.snap = d.snap
    <3>1. CASE Reply(n)
      BY <3>1 DEF Reply
    <3>2. CASE Abandon(n)
      BY <3>2, AbandonFades
    <3>3. CASE calls' = calls
      BY <3>3
    <3> QED
      BY <1>6, <3>1, <3>2, <3>3
         DEF CallLost, CallBreaks, CallFails, Crash, Stop, Interrupt, DrainConnect
  <2>2. UNCHANGED <<inc, draft, nextTable, table, store>>
    BY <1>6 DEF Reply, CallLost, CallBreaks, CallFails, Crash, Stop, Interrupt, DrainConnect,
                kernelVars, agentVars
  <2>3. phase'[m] = "collecting" => phase[m] = "collecting"
    BY <1>6 DEF Reply, CallLost, CallBreaks, CallFails, Crash, Stop, Interrupt, DrainConnect,
                agentVars, TypeOK
  <2>4. Known(m)' \subseteq Known(m)
    BY <2>1, <2>2 DEF Known
  <2> QED
    BY <2>2, <2>3, <2>4, KeepFewer
<1>7. ASSUME NEW n \in Nodes, NEW u \in Tables, Probe(n, u), NEW m \in Nodes
      PROVE  KeepInv(m)'
  <2>1. PICK total \in 1 .. table[n][u] + 1 : table' = [table EXCEPT ![n][u] = total]
    BY <1>7 DEF Probe
  <2>2. UNCHANGED <<phase, inc, draft, nextTable, calls, store>>
    BY <1>7 DEF Probe, agentVars
  <2>3. Known(m)' = Known(m)
    BY <2>2 DEF Known
  <2>4. total > 0
    BY <2>1 DEF TypeOK
  <2>5. \A t \in Tables : table[m][t] > 0 => table'[m][t] > 0
    BY <2>1, <2>4 DEF TypeOK
  <2> QED
    BY <2>2, <2>3, <2>5, KeepFewer
<1>8. ASSUME NEW c \in calls, SendSnapshot(c), NEW m \in Nodes PROVE KeepInv(m)'
  <2>1. /\ store' = [store EXCEPT ![c.snap.node] = c.snap]
        /\ UNCHANGED <<phase, inc, draft, nextTable, table>>
        /\ \A d \in calls' : \E e \in calls : d.snap = e.snap
    BY <1>8, CallFields DEF SendSnapshot, Update, agentVars, kernelVars, Calls
  <2>2. Known(m)' \subseteq Known(m)
    BY <2>1 DEF Known, TypeOK
  <2> QED
    BY <2>1, <2>2, KeepFewer
<1>9. ASSUME Serve \/ ServerStops, NEW m \in Nodes PROVE KeepInv(m)'
  <2>1. /\ store' = [n \in Nodes |-> Absent(n)]
        /\ UNCHANGED <<phase, inc, draft, nextTable, table>>
        /\ \A d \in calls' : \E e \in calls : d.snap = e.snap
    BY <1>9, CallFields DEF Serve, ServerStops, Requests, agentVars, kernelVars, Calls
  <2>2. Known(m)' \subseteq Known(m) \cup {Absent(m)}
    BY <2>1 DEF Known
  <2> QED
    BY <2>1, <2>2, KeepFewer
<1>10. ASSUME UNCHANGED vars, NEW m \in Nodes PROVE KeepInv(m)'
  <2>1. Known(m)' = Known(m) /\ UNCHANGED <<phase, inc, draft, nextTable, table>>
    BY <1>10 DEF vars, agentVars, kernelVars, Known
  <2> QED
    BY <2>1, KeepFewer
<1> QED
  BY <1>1, <1>2, <1>4, <1>5, <1>6, <1>7, <1>8, <1>9, <1>10 DEF Next, AgentStep, FaultStep

\* A table of a node that is shown to hold anything is shown empty only
\* because another process took over, an older snapshot came late, its
\* reading was cut short, or the aggregator stopped.
THEOREM NothingVanishes == Spec => RowsStayShown
<1> DEFINE Kept == \A n \in Nodes : KeepInv(n)
           Stay ==
        \A n \in Nodes, t \in Tables :
            store[n].rows[t] > 0 /\ store'[n].rows[t] = 0 =>
                \/ store'[n].inc # store[n].inc
                \/ store'[n].ts < store[n].ts
                \/ t \in store'[n].cut
                \/ ~serving'
<1>1. TypeOK /\ IInv /\ Kept /\ [Next]_vars => Kept'
  BY NextKeep
<1>2. TypeOK /\ IInv /\ Kept /\ [Next]_vars => [Stay]_vars
  <2> SUFFICES ASSUME TypeOK, IInv, Kept, Next, NEW n \in Nodes, NEW t \in Tables,
                      store[n].rows[t] > 0, store'[n].rows[t] = 0, serving'
               PROVE  \/ store'[n].inc # store[n].inc
                      \/ store'[n].ts < store[n].ts
                      \/ t \in store'[n].cut
    OBVIOUS
  <2>1. store' # store
    BY CallFields
  <2>2. PICK c \in calls : SendSnapshot(c)
    <3>1. ~Serve /\ ~ServerStops
      BY <2>1 DEF Serve, ServerStops, IInv, NoServerNoStore
    <3>2. ASSUME NEW m \in Nodes, AgentStep(m) \/ FaultStep(m) \/ DrainConnect(m)
          PROVE  store' = store
      BY <3>2 DEF AgentStep, FaultStep, DrainConnect, Start, Tick, ReadTable, ReadFails,
                  Read, Send, Reply, CallLost, CallBreaks, CallFails, Stop, Interrupt, Crash
    <3>3. ASSUME NEW m \in Nodes, NEW u \in Tables, Probe(m, u)
          PROVE  store' = store
      BY <3>3 DEF Probe
    <3> QED
      BY <2>1, <3>1, <3>2, <3>3 DEF Next
  <2>3. store' = [store EXCEPT ![c.snap.node] = c.snap]
    BY <2>2 DEF SendSnapshot, Update
  <2>4. c.snap.node = n /\ store'[n] = c.snap
    BY <2>3 DEF TypeOK
  <2>5. c.snap \in Known(n) /\ store[n] \in Known(n)
    BY <2>4 DEF Known
  <2>6. store[n].inc = c.snap.inc /\ store[n].ts <= c.snap.ts => Keeps(c.snap, t)
    BY <2>5 DEF KeepInv
  <2> QED
    BY <2>4, <2>5, <2>6, KnownFacts DEF Keeps
<1>3. Init => Kept
  BY InitKeep
<1> HIDE DEF Kept
<1>4. Spec => []Kept
  BY <1>1, <1>3, InvariantHolds, PTL DEF Spec
<1> QED
  BY <1>2, <1>4, InvariantHolds, PTL DEF Spec, RowsStayShown

-----------------------------------------------------------------------------
(* Refinement. *)

\* The snapshots the server may still handle: the register's `pending'.
Pending == {c.snap : c \in Requests}

\* A new call submits its snapshot, or is lost at once.
LEMMA CallSubmits ==
    ASSUME TypeOK, NEW n \in Nodes, NEW s \in Snapshots,
           calls' = calls \cup {Call(s)},
           store' = store,
           s.node = n,
           store[n].ts < s.ts,
           \A c \in calls : c.snap.node = n => c.snap.ts < s.ts
    PROVE  \/ Pending' = Pending
           \/ /\ s \in Pending'
              /\ Pending' = Pending \cup {s}
              /\ \A p \in Pending : p.node = s.node => p.ts < s.ts
              /\ store[s.node].ts < s.ts
<1>1. Call(s).snap = s
  BY DEF Call
<1>2. CASE Call(s).stage = "request"
  BY <1>1, <1>2 DEF Pending, Requests
<1>3. CASE Call(s).stage # "request"
  BY <1>1, <1>3 DEF Pending, Requests
<1> QED
  BY <1>2, <1>3

\* Every step of the pipeline is a step of the register or leaves it alone.
LEMMA NextRefines ==
    TypeOK /\ IInv /\ [Next]_vars =>
        [Register!RegisterNext]_(Register!registerVars)
<1> SUFFICES ASSUME TypeOK, IInv, [Next]_vars
             PROVE  Register!RegisterNext \/ (Pending' = Pending /\ store' = store)
  BY DEF Register!registerVars, Pending
<1> DEFINE Goal == Register!RegisterNext \/ (Pending' = Pending /\ store' = store)
<1>1. ASSUME NEW n \in Nodes, NEW s \in Snapshots,
             calls' = calls \cup {Call(s)},
             store' = store,
             s.node = n,
             store[n].ts < s.ts,
             \A c \in calls : c.snap.node = n => c.snap.ts < s.ts
      PROVE  Goal
  BY <1>1, CallSubmits DEF Register!RegisterNext, Register!Submit, Pending
<1>2. ASSUME Pending' \subseteq Pending, store' = store
      PROVE  Goal
  BY <1>2 DEF Register!RegisterNext, Register!Lose, Pending
<1>3. ASSUME NEW n \in Nodes, Start(n) PROVE Goal
  <2>1. PICK s : s = Snapshot(n, inc'[n], clock'[n])
    OBVIOUS
  <2>2. /\ calls' = calls \cup {Call(s)}
        /\ store' = store
    BY <1>3, <2>1 DEF Start
  <2>3. /\ inc'[n] = inc[n] + 1 /\ clock'[n] = clock[n] + 1
        /\ inc[n] \in Nat /\ clock[n] \in Nat
    BY <1>3 DEF Start, TypeOK
  <2>4. s \in Snapshots /\ s.node = n /\ s.ts = clock[n] + 1
    BY <2>1, <2>3, SnapshotType DEF Snapshot
  <2>5. store[n].ts < s.ts /\ \A c \in calls : c.snap.node = n => c.snap.ts < s.ts
    BY <2>3, <2>4, CallFields DEF IInv, NothingFromTheFuture
  <2> QED
    BY <1>1, <2>2, <2>4, <2>5
<1>4. ASSUME NEW n \in Nodes, Send(n) PROVE Goal
  <2>1. /\ phase[n] = "collecting"
        /\ calls' = calls \cup {Call(draft[n])}
        /\ store' = store
    BY <1>4 DEF Send
  <2>2. /\ draft[n] \in Snapshots /\ draft[n].node = n
        /\ store[n].ts < draft[n].ts
        /\ \A c \in calls : c.snap.node = n => c.snap.ts < draft[n].ts
    BY <2>1 DEF IInv, DraftIsNewest, TypeOK
  <2> QED
    BY <1>1, <2>1, <2>2
<1>5. ASSUME NEW n \in Nodes, Reply(n) \/ CallLost(n) \/ CallBreaks(n) \/ Crash(n)
      PROVE  Goal
  <2>1. store' = store
    BY <1>5 DEF Reply, CallLost, CallBreaks, CallFails, Crash
  <2>2. \A c \in Requests' : \E d \in Requests : c.snap = d.snap
    <3>1. CASE Reply(n)
      BY <3>1 DEF Reply, Requests
    <3>2. CASE Abandon(n)
      BY <3>2, AbandonFades DEF Requests
    <3> QED
      BY <1>5, <3>1, <3>2 DEF CallLost, CallBreaks, CallFails, Crash
  <2> QED
    BY <1>2, <2>1, <2>2 DEF Pending
<1>6. ASSUME UNCHANGED <<calls, store>> PROVE Goal
  BY <1>6 DEF Pending, Requests
<1>7. ASSUME NEW n \in Nodes,
             \/ Tick(n) \/ ReadTable(n) \/ ReadFails(n) \/ Stop(n)
             \/ Interrupt(n) \/ DrainConnect(n) \/ \E t \in Tables : Probe(n, t)
      PROVE  Goal
  <2>1. UNCHANGED <<calls, store>>
    BY <1>7 DEF Tick, ReadTable, ReadFails, Read, Stop, Interrupt, DrainConnect, Probe
  <2> QED
    BY <1>6, <2>1
<1>8. CASE Serve
  <2>1. UNCHANGED <<calls, store>>
    BY <1>8 DEF Serve, IInv, NoServerNoStore
  <2> QED
    BY <1>6, <2>1
<1>9. ASSUME NEW c \in calls, SendSnapshot(c) PROVE Goal
  <2>1. c \in Requests /\ store' = [store EXCEPT ![c.snap.node] = c.snap]
    BY <1>9 DEF SendSnapshot, Update
  <2>2. Requests' = Requests \ {c}
    <3>1. [c EXCEPT !.stage = "reply"].stage = "reply"
      BY CallFields DEF Calls
    <3> QED
      BY <1>9, <3>1 DEF SendSnapshot, Requests
  <2>3. \A d \in Requests : d.snap = c.snap => d = c
    BY DEF IInv, NoTwins, Requests
  <2>4. Pending' = Pending \ {c.snap} /\ c.snap \in Pending
    BY <2>1, <2>2, <2>3 DEF Pending
  <2> QED
    BY <2>1, <2>4 DEF Register!RegisterNext, Register!Show, Pending
<1>10. CASE ServerStops
  <2>1. store' = [n \in Nodes |-> Absent(n)]
    BY <1>10 DEF ServerStops
  <2>2. \A c \in Requests : [c EXCEPT !.stage = "lost"].stage = "lost"
    BY CallFields DEF Calls, Requests
  <2>3. Requests' = {}
    BY <1>10, <2>2 DEF ServerStops, Requests
  <2>4. Pending' = {}
    BY <2>3 DEF Pending
  <2> QED
    BY <2>1, <2>4 DEF Register!RegisterNext, Register!Reset, Pending
<1>11. CASE UNCHANGED vars
  BY <1>6, <1>11 DEF vars
<1> QED
  BY <1>3, <1>4, <1>5, <1>7, <1>8, <1>9, <1>10, <1>11 DEF Next, AgentStep, FaultStep

\* The pipeline implements the snapshot register: what is shown of a node
\* is a snapshot it sent, and each is shown at most once.
THEOREM Refinement == Spec => ImplementsRegister
<1>1. Init => Register!RegisterInit
  BY DEF Init, Register!RegisterInit, Requests
<1> QED
  BY <1>1, NextRefines, InvariantHolds, PTL
     DEF Spec, ImplementsRegister, Register!RegisterSpec
=============================================================================
