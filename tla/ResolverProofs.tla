--------------------------- MODULE ResolverProofs ---------------------------
(***************************************************************************)
(* Theorems about the resolver: its types, and that the table of Pods is   *)
(* right wherever nothing is in doubt, for any number of addresses, Pods,  *)
(* Services and slices and any names.                                      *)
(***************************************************************************)
EXTENDS Resolver, FiniteSetTheorems, TLAPS

-----------------------------------------------------------------------------
(* Types. *)

\* Each queue holds events of its own kind.
EventsOfKind ==
    /\ \A i \in DOMAIN queue["pods"] : queue["pods"][i].obj \in Pods
    /\ \A i \in DOMAIN queue["services"] : queue["services"][i].obj \in Services
    /\ \A i \in DOMAIN queue["slices"] : queue["slices"][i].obj \in Slices

\* An object that does not exist has no address.
GoneHaveNone == \A o \in Objects \ alive : ips[o] = {}

\* Watches start after the last list.
ListsFirst ==
    pc \in Kinds => /\ mode = "svc" \/ (mode = "pod" /\ pc = "pods")
                    /\ \A k \in Kinds : watch[k] = "off"

Typed == TypeOK /\ EventsOfKind /\ GoneHaveNone /\ ListsFirst

LEMMA KindOf ==
    ASSUME NEW o \in Objects
    PROVE  /\ Kind(o) \in Kinds /\ Table(Kind(o)) \in {"pod", "svc"}
           /\ Kind(o) = "pods" <=> o \in Pods
           /\ Kind(o) = "services" <=> o \in Services
           /\ Kind(o) = "slices" <=> o \in Slices
           /\ Table(Kind(o)) = "pod" <=> o \in Pods
<1>1. CASE o \in Pods
  BY <1>1, KindsDisjoint DEF Kind, Table, Kinds, Objects
<1>2. CASE o \in Services
  BY <1>2, KindsDisjoint DEF Kind, Table, Kinds, Objects
<1>3. CASE o \in Slices
  BY <1>3, KindsDisjoint DEF Kind, Table, Kinds, Objects
<1> QED
  BY <1>1, <1>2, <1>3 DEF Objects

LEMMA NamedPods ==
    /\ \A o \in Objects : Name[o] # NoLabel => Name[o] \in Names
    /\ \A o \in Pods \cup Services : o \in Objects /\ Name[o] \in Names
    /\ Absent \notin Names
BY NamesGiven DEF Names, Objects

LEMMA PutType ==
    ASSUME NEW table \in [IPs -> Names \cup {Absent}], NEW addrs,
           NEW n \in Names \cup {Absent}
    PROVE  Put(table, addrs, n) \in [IPs -> Names \cup {Absent}]
BY DEF Put

LEMMA InitTyped == Init => Typed
BY ResolverBounds DEF Init, Typed, TypeOK, EventsOfKind, GoneHaveNone, ListsFirst, Kinds,
   Event

LEMMA SameQueues ==
    ASSUME Typed, UNCHANGED <<queue, cluster>>
    PROVE  EventsOfKind' /\ GoneHaveNone'
BY DEF Typed, EventsOfKind, GoneHaveNone, cluster

LEMMA ChangeTyped ==
    ASSUME Typed, NEW o \in Objects, NEW type \in {"ADDED", "MODIFIED", "DELETED"},
           NEW new \in SUBSET IPs, type = "DELETED" => new = {},
           Change(o, type, new)
    PROVE  Typed'
<1> DEFINE k == Kind(o)
           event == [type |-> type, obj |-> o, ips |-> IF type = "DELETED" THEN ips[o] ELSE new]
<1>0. TypeOK /\ EventsOfKind /\ GoneHaveNone /\ ListsFirst
  BY DEF Typed
<1>1. /\ k \in Kinds /\ (k = "pods" <=> o \in Pods)
      /\ (k = "services" <=> o \in Services) /\ (k = "slices" <=> o \in Slices)
  BY KindOf
<1>2. event \in Event
  BY <1>0 DEF TypeOK, Event
<1>3. /\ queue' = IF watch[k] = "open" THEN [queue EXCEPT ![k] = Append(@, event)] ELSE queue
      /\ alive' = IF type = "DELETED" THEN alive \ {o} ELSE alive \cup {o}
      /\ ips' = [ips EXCEPT ![o] = new]
      /\ changes < MaxChanges /\ changes' = changes + 1
      /\ UNCHANGED <<program, watch, closings>>
  BY DEF Change
<1> HIDE DEF k, event
<1>4. queue' \in [Kinds -> Seq(Event)] /\ \A j \in Kinds : watch'[j] # "open" => queue'[j] = <<>>
  <2>1. CASE watch[k] = "open"
    <3>1. queue[k] \in Seq(Event) /\ Append(queue[k], event) \in Seq(Event)
      BY <1>0, <1>1, <1>2 DEF TypeOK
    <3> QED
      BY <1>0, <1>1, <1>3, <2>1, <3>1 DEF TypeOK
  <2>2. CASE watch[k] # "open"
    BY <1>0, <1>3, <2>2 DEF TypeOK
  <2> QED
    BY <2>1, <2>2
<1>5. EventsOfKind'
  <2>1. event.obj = o
    BY DEF event
  <2>2. ASSUME NEW j \in {"pods", "services", "slices"}, NEW i \in DOMAIN queue'[j]
        PROVE  queue'[j][i].obj \in (IF j = "pods" THEN Pods
                                     ELSE IF j = "services" THEN Services ELSE Slices)
    <3>0. j \in Kinds
      BY DEF Kinds
    <3>1. CASE watch[k] = "open" /\ j = k
      <4>1. queue[j] \in Seq(Event) /\ queue'[j] = Append(queue[j], event)
        BY <1>0, <1>3, <3>0, <3>1 DEF TypeOK
      <4>2. CASE i = Len(queue[j]) + 1
        BY <1>1, <2>1, <3>1, <4>1, <4>2
      <4>3. CASE i # Len(queue[j]) + 1
        <5>1. i \in DOMAIN queue[j] /\ queue'[j][i] = queue[j][i]
          BY <4>1, <4>3
        <5> QED
          BY <1>0, <5>1 DEF EventsOfKind
      <4> QED
        BY <4>2, <4>3
    <3>2. CASE ~(watch[k] = "open" /\ j = k)
      <4>1. queue'[j] = queue[j]
        BY <1>0, <1>1, <1>3, <3>0, <3>2 DEF TypeOK
      <4> QED
        BY <1>0, <4>1 DEF EventsOfKind
    <3> QED
      BY <3>1, <3>2
  <2> QED
    BY <2>2 DEF EventsOfKind
<1>6. GoneHaveNone' /\ ips' \in [Objects -> SUBSET IPs] /\ alive' \subseteq Objects
  BY <1>0, <1>3 DEF TypeOK, GoneHaveNone
<1>7. doubt' \in [{"pod", "svc"} -> SUBSET IPs]
  <2> DEFINE gained == IF Name[o] = NoLabel THEN {} ELSE new \ ips[o]
             lost == IF Name[o] = NoLabel THEN {} ELSE ips[o] \ new
  <2>1. doubt' = [doubt EXCEPT ![Table(Kind(o))] =
                     GainDoubt(o, gained, @) \cup LossDoubt(o, lost, type = "DELETED")
                     \cup (IF type = "DELETED" THEN NamesakeDoubt(o) ELSE {})]
    BY DEF Change
  <2>2. gained \subseteq IPs /\ lost \subseteq IPs
    BY <1>0 DEF TypeOK
  <2> HIDE DEF gained, lost
  <2>3. ASSUME NEW d \in SUBSET IPs PROVE GainDoubt(o, gained, d) \subseteq IPs
    BY <2>2 DEF GainDoubt
  <2>4. LossDoubt(o, lost, type = "DELETED") \subseteq IPs
    <3>1. CASE watch[Kind(o)] # "open"
      BY <2>2, <3>1 DEF LossDoubt
    <3>2. CASE watch[Kind(o)] = "open" /\ type = "DELETED"
      BY <3>2 DEF LossDoubt
    <3>3. CASE watch[Kind(o)] = "open" /\ type # "DELETED"
      BY <2>2, <3>3 DEF LossDoubt
    <3> QED
      BY <3>1, <3>2, <3>3
  <2>5. NamesakeDoubt(o) \subseteq IPs
    BY <1>0 DEF NamesakeDoubt, TypeOK
  <2>6. Table(Kind(o)) \in {"pod", "svc"} /\ doubt[Table(Kind(o))] \in SUBSET IPs
    BY <1>0, KindOf DEF TypeOK
  <2> QED
    BY <1>0, <2>1, <2>3, <2>4, <2>5, <2>6 DEF TypeOK
<1> QED
  BY <1>0, <1>3, <1>4, <1>5, <1>6, <1>7, ResolverBounds
     DEF Typed, TypeOK, ListsFirst, program

\* A list fills one table and leaves the rest to ListDone.
LEMMA ListTyped ==
    ASSUME Typed, NEW k \in Kinds, List(k) \/ ListFails(k)
    PROVE  Typed'
<1>0. TypeOK /\ EventsOfKind /\ GoneHaveNone /\ ListsFirst
  BY DEF Typed
<1>1. pc = k /\ ListDone(k) /\ UNCHANGED <<mode, queue, cluster, doubt, closings>>
  BY DEF List, ListFails, ListDone
<1>2. (mode = "svc" \/ (mode = "pod" /\ pc = "pods")) /\ \A j \in Kinds : watch[j] = "off"
  BY <1>0, <1>1 DEF ListsFirst
<1>3. /\ pc' \in Kinds \cup {"up"}
      /\ pc' \in Kinds => mode = "svc"
      /\ pc' \in Kinds => \A j \in Kinds : watch'[j] = "off"
      /\ watch' \in [Kinds -> {"off", "starting", "open", "ended"}]
      /\ \A j \in Kinds : watch'[j] # "open"
  <2>1. CASE k = "pods"
    BY <1>1, <1>2, <2>1 DEF ListDone, Kinds
  <2>2. CASE k = "services"
    BY <1>1, <1>2, <2>2 DEF ListDone, Kinds
  <2>3. CASE k = "slices"
    BY <1>1, <1>2, <2>3 DEF ListDone, Kinds
  <2> QED
    BY <2>1, <2>2, <2>3 DEF Kinds
<1>4. ipPod' \in [IPs -> Names \cup {Absent}] /\ ipSvc' \in [IPs -> Names \cup {Absent}]
  BY <1>0 DEF List, ListFails, Listed, TypeOK
<1>5. \A j \in Kinds : queue'[j] = <<>>
  BY <1>0, <1>1, <1>2 DEF TypeOK
<1>6. EventsOfKind' /\ GoneHaveNone'
  BY <1>0, <1>1, SameQueues DEF Typed
<1> QED
  BY <1>0, <1>1, <1>3, <1>4, <1>5, <1>6 DEF Typed, TypeOK, ListsFirst, cluster

\* The events with which a watch of the kind k begins.
Existing(k) == {[type |-> "ADDED", obj |-> o, ips |-> ips[o]] : o \in {x \in alive : Kind(x) = k}}

\* They are finitely many, and SetToSeqs lists each once.
LEMMA SeqOfExisting ==
    ASSUME Typed, NEW k \in Kinds, NEW all \in SetToSeqs(Existing(k))
    PROVE  /\ all \in Seq(Event)
           /\ DOMAIN all = 1 .. Len(all) /\ Len(all) \in Nat
           /\ \A i \in DOMAIN all : all[i] \in Existing(k)
           /\ \A e \in Existing(k) : \E i \in DOMAIN all : all[i] = e
           /\ \A i, j \in DOMAIN all : all[i] = all[j] => i = j
<1> DEFINE here == {x \in alive : Kind(x) = k}
           T == Existing(k)
           event(o) == [type |-> "ADDED", obj |-> o, ips |-> ips[o]]
<1>1. IsFiniteSet(here)
  BY ObjectsFinite, FS_Subset DEF Typed, TypeOK
<1>2. IsFiniteSet(T)
  <2>1. PICK f : f = [o \in here |-> event(o)]
    OBVIOUS
  <2>2. f \in Surjection(here, T)
    BY <2>1 DEF Surjection, Existing
  <2> QED
    BY <1>1, <2>2, FS_Surjection
<1>3. Cardinality(T) \in Nat
  BY <1>2, FS_CardinalityType
<1>4. all \in [1 .. Cardinality(T) -> T]
      /\ \A i, j \in 1 .. Cardinality(T) : i # j => all[i] # all[j]
  BY DEF SetToSeqs
<1>5. T \subseteq Event
  BY DEF Existing, Event, Typed, TypeOK
<1> HIDE DEF T, here
<1>6. all \in Injection(1 .. Cardinality(T), T)
  BY <1>4 DEF Injection, IsInjective
<1>7. Cardinality(1 .. Cardinality(T)) = Cardinality(T)
  BY <1>3, FS_Interval
<1>8. all \in Surjection(1 .. Cardinality(T), T)
  BY <1>2, <1>6, <1>7, FS_Injection
<1>9. all \in Seq(T) /\ Len(all) = Cardinality(T)
  BY <1>3, <1>4
<1> QED
  BY <1>3, <1>4, <1>5, <1>8, <1>9 DEF Surjection, T

LEMMA WatchOpensTyped ==
    ASSUME Typed, NEW k \in Kinds, WatchOpens(k)
    PROVE  Typed'
<1>0. TypeOK /\ EventsOfKind /\ GoneHaveNone /\ ListsFirst
  BY DEF Typed
<1>1. PICK all \in SetToSeqs(Existing(k)) : queue' = [queue EXCEPT ![k] = all]
  BY DEF WatchOpens, Existing
<1>2. all \in Seq(Event) /\ \A i \in DOMAIN all : all[i] \in Existing(k)
  BY SeqOfExisting
<1>3. \A i \in DOMAIN all : Kind(all[i].obj) = k /\ all[i].obj \in Objects
  BY <1>0, <1>2 DEF Existing, TypeOK
<1>4. /\ watch[k] = "starting" /\ watch' = [watch EXCEPT ![k] = "open"]
      /\ UNCHANGED <<program, cluster, closings>>
  BY DEF WatchOpens
<1>5. EventsOfKind'
  <2>1. \A i \in DOMAIN all : /\ k = "pods" => all[i].obj \in Pods
                              /\ k = "services" => all[i].obj \in Services
                              /\ k = "slices" => all[i].obj \in Slices
    BY <1>3, KindOf
  <2>2. \A j \in Kinds : queue'[j] = IF j = k THEN all ELSE queue[j]
    BY <1>0, <1>1 DEF TypeOK
  <2> QED
    BY <1>0, <2>1, <2>2 DEF EventsOfKind, Kinds
<1>6. doubt' \in [{"pod", "svc"} -> SUBSET IPs]
  BY <1>0 DEF WatchOpens, TypeOK
<1> QED
  BY <1>0, <1>1, <1>2, <1>4, <1>5, <1>6
     DEF Typed, TypeOK, GoneHaveNone, ListsFirst, program, cluster

\* What lets a watch end, by itself or with the command.
LEMMA EndTyped ==
    ASSUME Typed, NEW k \in Kinds, WatchFails(k) \/ ChannelClosed(k) \/ Stop(k)
    PROVE  Typed'
<1>0. TypeOK /\ EventsOfKind /\ GoneHaveNone /\ ListsFirst
  BY DEF Typed
<1>1. /\ watch[k] # "off"
      /\ watch' = [watch EXCEPT ![k] = "ended"] \/ watch' = [watch EXCEPT ![k] = "starting"]
      /\ queue' = [queue EXCEPT ![k] = <<>>]
      /\ UNCHANGED <<program, cluster>>
  <2>1. CASE WatchFails(k)
    BY <1>0, <2>1 DEF WatchFails, TypeOK
  <2>2. CASE ChannelClosed(k)
    BY <2>2 DEF ChannelClosed
  <2>3. CASE Stop(k)
    BY <2>3 DEF Stop
  <2> QED
    BY <2>1, <2>2, <2>3
<1>2. doubt' \in [{"pod", "svc"} -> SUBSET IPs] /\ closings' \in 0 .. MaxClosings
  <2>1. CASE WatchFails(k) \/ Stop(k)
    BY <1>0, <2>1 DEF WatchFails, Stop, TypeOK
  <2>2. CASE ChannelClosed(k)
    <3>1. PICK u : doubt' = [doubt EXCEPT ![Table(k)] = @ \cup (u \cap Known(Table(k)))]
      BY <2>2 DEF ChannelClosed
    <3>2. u \cap Known(Table(k)) \subseteq IPs
      BY DEF Known
    <3>3. closings' \in 0 .. MaxClosings
      BY <1>0, <2>2, ResolverBounds DEF ChannelClosed, TypeOK
    <3> QED
      BY <1>0, <3>1, <3>2, <3>3 DEF TypeOK
  <2> QED
    BY <2>1, <2>2
<1>3. EventsOfKind'
  <2>1. \A j \in Kinds : queue'[j] = IF j = k THEN <<>> ELSE queue[j]
    BY <1>0, <1>1 DEF TypeOK
  <2> QED
    BY <1>0, <2>1 DEF EventsOfKind, Kinds
<1>4. /\ watch' \in [Kinds -> {"off", "starting", "open", "ended"}]
      /\ queue' \in [Kinds -> Seq(Event)]
      /\ \A j \in Kinds : watch'[j] # "open" => queue'[j] = <<>>
  BY <1>0, <1>1 DEF TypeOK
<1>5. ListsFirst'
  BY <1>0, <1>1 DEF ListsFirst, program
<1> QED
  BY <1>0, <1>1, <1>2, <1>3, <1>4, <1>5 DEF Typed, TypeOK, GoneHaveNone, program, cluster

LEMMA DeliverTyped ==
    ASSUME Typed, NEW k \in Kinds, Deliver(k),
           ipPod' \in [IPs -> Names \cup {Absent}], ipSvc' \in [IPs -> Names \cup {Absent}]
    PROVE  Typed'
<1>0. TypeOK /\ EventsOfKind /\ GoneHaveNone /\ ListsFirst
  BY DEF Typed
<1>1. /\ watch[k] = "open" /\ queue[k] # <<>> /\ queue[k] \in Seq(Event)
      /\ queue' = [queue EXCEPT ![k] = Tail(@)]
      /\ UNCHANGED <<mode, pc, watch, cluster, doubt, closings>>
  BY <1>0 DEF Deliver, TypeOK
<1>2. /\ Tail(queue[k]) \in Seq(Event)
      /\ \A i \in DOMAIN Tail(queue[k]) : /\ i + 1 \in DOMAIN queue[k]
                                          /\ Tail(queue[k])[i] = queue[k][i + 1]
  BY <1>1
<1>3. EventsOfKind'
  <2>1. \A j \in Kinds : queue'[j] = IF j = k THEN Tail(queue[k]) ELSE queue[j]
    BY <1>0, <1>1 DEF TypeOK
  <2> QED
    BY <1>0, <1>2, <2>1 DEF EventsOfKind, Kinds
<1> QED
  BY <1>0, <1>1, <1>2, <1>3 DEF Typed, TypeOK, GoneHaveNone, ListsFirst, cluster

LEMMA NextTyped == Typed /\ [Next]_vars => Typed'
<1> SUFFICES ASSUME Typed, [Next]_vars PROVE Typed'
  OBVIOUS
<1>0. TypeOK /\ EventsOfKind /\ GoneHaveNone /\ ListsFirst
  BY DEF Typed
<1>1. ASSUME NEW o \in Objects, Create(o) \/ Modify(o) \/ Delete(o) PROVE Typed'
  BY <1>1, ChangeTyped DEF Create, Modify, Delete
<1>2. ASSUME NEW k \in Kinds, List(k) \/ ListFails(k) PROVE Typed'
  BY <1>2, ListTyped
<1>3. ASSUME NEW k \in Kinds, WatchOpens(k) \/ WatchFails(k) \/ ChannelClosed(k) \/ Stop(k)
      PROVE  Typed'
  BY <1>3, WatchOpensTyped, EndTyped
<1>4. ASSUME NEW k \in Kinds, Deliver(k)
      PROVE  Head(queue[k]) \in Event /\ Head(queue[k]) = queue[k][1] /\ 1 \in DOMAIN queue[k]
  BY <1>0, <1>4 DEF Deliver, TypeOK
<1>5. CASE WatchPods
  <2>1. Name[Head(queue["pods"]).obj] \in Names
    BY <1>0, <1>4, <1>5, NamedPods DEF WatchPods, EventsOfKind, Kinds
  <2>2. ipPod' \in [IPs -> Names \cup {Absent}] /\ ipSvc' \in [IPs -> Names \cup {Absent}]
    BY <1>0, <1>5, <2>1, PutType DEF WatchPods, AddPod, DropPod, TypeOK
  <2> QED
    BY <1>5, <2>2, DeliverTyped DEF WatchPods, Kinds
<1>6. CASE WatchServices
  <2>1. Name[Head(queue["services"]).obj] \in Names
    BY <1>0, <1>4, <1>6, NamedPods DEF WatchServices, EventsOfKind, Kinds
  <2>2. ipPod' \in [IPs -> Names \cup {Absent}] /\ ipSvc' \in [IPs -> Names \cup {Absent}]
    BY <1>0, <1>6, <2>1, PutType DEF WatchServices, AddService, DropService, TypeOK
  <2> QED
    BY <1>6, <2>2, DeliverTyped DEF WatchServices, Kinds
<1>7. CASE WatchSlices
  <2>1. Head(queue["slices"]).obj \in Objects
    BY <1>4, <1>7 DEF WatchSlices, Kinds, Event
  <2>2. ipPod' \in [IPs -> Names \cup {Absent}] /\ ipSvc' \in [IPs -> Names \cup {Absent}]
    BY <1>0, <1>7, <2>1, NamedPods, PutType DEF WatchSlices, AddSlice, DropSlice, TypeOK
  <2> QED
    BY <1>7, <2>2, DeliverTyped DEF WatchSlices, Kinds
<1>8. CASE Close
  BY <1>0, <1>8, SameQueues DEF Close, Typed, TypeOK, ListsFirst, Kinds, cluster
<1>9. CASE UNCHANGED vars
  BY <1>0, <1>9, SameQueues DEF vars, program, cluster, Typed, TypeOK, ListsFirst
<1> QED
  BY <1>1, <1>2, <1>3, <1>5, <1>6, <1>7, <1>8, <1>9 DEF Next

\* Every variable keeps its type, and only an open watch has events to deliver.
THEOREM TypeCorrect == Spec => []TypeOK
BY InitTyped, NextTyped, PTL DEF Spec, Typed

-----------------------------------------------------------------------------
(* The table of Pods. *)

PodsAt(ip) == {o \in alive \cap Pods : ip \in ips[o]}

\* The name n is what the Pods of the cluster call ip.
Right(ip, n) ==
    IF PodsAt(ip) = {} THEN n = Absent ELSE \E o \in PodsAt(ip) : n = Name[o]

\* What an event makes of its addresses in the table.
Says(e) == IF e.type = "DELETED" THEN Absent ELSE Name[e.obj]

Mentions(i, ip) == ip \in queue["pods"][i].ips

Unmentioned(ip) == \A i \in DOMAIN queue["pods"] : ~Mentions(i, ip)

\* The last event of the queue that mentions ip will set it right.
LastRight(ip) ==
    \E i \in DOMAIN queue["pods"] :
        /\ Mentions(i, ip)
        /\ \A j \in DOMAIN queue["pods"] : Mentions(j, ip) => j <= i
        /\ Right(ip, Says(queue["pods"][i]))

\* Of an address out of doubt: at most one Pod has it; the queue will set the
\* table right, or it is right and the queue silent; and before a watch is
\* opened the table does not know it when no Pod has it.
Settled(ip) ==
    /\ \A o, p \in PodsAt(ip) : o = p
    /\ watch["pods"] = "open" => LastRight(ip) \/ (Unmentioned(ip) /\ Right(ip, ipPod[ip]))
    /\ watch["pods"] \in {"off", "starting"} /\ PodsAt(ip) = {} => ipPod[ip] = Absent

PodsSettled == \A ip \in IPs \ doubt["pod"] : Settled(ip)

LEMMA PodClaimants ==
    ASSUME Typed, NEW ip
    PROVE  Claimants("pods", ip) = PodsAt(ip)
<1>1. \A o \in alive : o \in Objects /\ (Table(Kind(o)) = "pod" <=> o \in Pods)
  BY KindOf DEF Typed, TypeOK
<1>2. Table("pods") = "pod" /\ \A o \in Pods : Name[o] # NoLabel
  BY NamesGiven DEF Table
<1> QED
  BY <1>1, <1>2 DEF Claimants, PodsAt

LEMMA PodContested ==
    ASSUME Typed, NEW ip, NEW o \in Pods, ~Contested(o, ip)
    PROVE  PodsAt(ip) \subseteq {o}
<1>1. Kind(o) = "pods"
  BY KindOf DEF Objects
<1> QED
  BY <1>1, PodClaimants DEF Contested

\* What concerns no Pod leaves all that is said of the table of Pods.
LEMMA Undisturbed ==
    ASSUME PodsSettled, ipPod' = ipPod, alive' \cap Pods = alive \cap Pods,
           \A o \in Pods : ips'[o] = ips[o],
           doubt'["pod"] = doubt["pod"], queue'["pods"] = queue["pods"],
           watch'["pods"] = watch["pods"]
    PROVE  PodsSettled'
<1>1. \A ip : PodsAt(ip)' = PodsAt(ip)
  BY DEF PodsAt
<1>2. \A ip, n : Right(ip, n)' <=> Right(ip, n)
  BY <1>1 DEF Right
<1>3. \A ip : LastRight(ip)' <=> LastRight(ip)
  BY <1>2 DEF LastRight, Mentions, Says
<1>4. \A ip : Unmentioned(ip)' <=> Unmentioned(ip)
  BY DEF Unmentioned, Mentions
<1> QED
  BY <1>1, <1>2, <1>3, <1>4 DEF PodsSettled, Settled

LEMMA InitSettled == Init => PodsSettled
BY DEF Init, PodsSettled, Settled, PodsAt, Kinds

\* A Pod comes, takes another address or goes while a watch is open: the event
\* queued last is the last to mention its addresses.
LEMMA ChangeWatched ==
    ASSUME Typed, PodsSettled, NEW o \in Pods,
           NEW type \in {"ADDED", "MODIFIED", "DELETED"},
           NEW new \in SUBSET IPs, type = "DELETED" => new = {},
           type = "ADDED" => o \notin alive,
           Change(o, type, new), watch["pods"] = "open",
           NEW ip \in IPs \ doubt'["pod"]
    PROVE  Settled(ip)'
<1> DEFINE gained == new \ ips[o]
           lost == ips[o] \ new
           q == queue["pods"]
<1>e. PICK event :
          event = [type |-> type, obj |-> o, ips |-> IF type = "DELETED" THEN ips[o] ELSE new]
  OBVIOUS
<1>0. TypeOK /\ o \in Objects /\ Kind(o) = "pods" /\ Table(Kind(o)) = "pod"
      /\ Name[o] # NoLabel /\ ips[o] \subseteq IPs
  BY KindOf, NamesGiven DEF Typed, Objects, TypeOK
<1>1. /\ queue' = [queue EXCEPT !["pods"] = Append(@, event)]
      /\ alive' = IF type = "DELETED" THEN alive \ {o} ELSE alive \cup {o}
      /\ ips' = [ips EXCEPT ![o] = new]
      /\ doubt' = [doubt EXCEPT !["pod"] =
                      GainDoubt(o, gained, @) \cup LossDoubt(o, lost, type = "DELETED")
                      \cup (IF type = "DELETED" THEN NamesakeDoubt(o) ELSE {})]
      /\ watch' = watch /\ ipPod' = ipPod
  BY <1>0, <1>e DEF Change, program
<1>2. /\ ip \in gained => ~Contested(o, ip)
      /\ ip \notin gained => ip \notin doubt["pod"]
      /\ type # "DELETED" => ip \notin lost
  <2>1. ip \notin GainDoubt(o, gained, doubt["pod"])
        /\ ip \notin LossDoubt(o, lost, type = "DELETED")
    BY <1>0, <1>1 DEF TypeOK
  <2>2. type # "DELETED" => LossDoubt(o, lost, type = "DELETED") = lost
    BY <1>0 DEF LossDoubt
  <2> QED
    BY <1>0, <2>1, <2>2 DEF GainDoubt
<1>3. /\ q \in Seq(Event) /\ queue'["pods"] = Append(q, event)
      /\ DOMAIN q = 1 .. Len(q) /\ Len(q) \in Nat
      /\ DOMAIN queue'["pods"] = 1 .. Len(q) + 1
      /\ queue'["pods"][Len(q) + 1] = event
      /\ \A i \in DOMAIN q : queue'["pods"][i] = q[i]
  BY <1>0, <1>1 DEF TypeOK, Kinds
<1>4. \A x : x # o => (x \in PodsAt(ip)' <=> x \in PodsAt(ip))
  BY <1>0, <1>1 DEF PodsAt, TypeOK
<1>5. o \in PodsAt(ip)' <=> ip \in new /\ type # "DELETED"
  BY <1>0, <1>1 DEF PodsAt, TypeOK
<1>6. CASE ip \in event.ips
  <2>1. PodsAt(ip) \subseteq {o}
    <3>1. CASE ip \in gained
      BY <1>2, <3>1, PodContested
    <3>2. CASE ip \notin gained
      <4>1. ip \in ips[o] /\ ip \notin doubt["pod"]
        BY <1>2, <1>6, <1>e, <3>2
      <4>2. o \in alive
        BY <1>0, <4>1 DEF Typed, GoneHaveNone
      <4> QED
        BY <4>1, <4>2 DEF PodsAt, PodsSettled, Settled
    <3> QED
      BY <3>1, <3>2
  <2>2. Right(ip, Says(event))'
    BY <1>4, <1>5, <1>6, <1>e, <2>1 DEF Right, Says
  <2>3. LastRight(ip)'
    BY <1>3, <1>6, <2>2 DEF LastRight, Mentions, Says
  <2> QED
    BY <1>1, <1>4, <2>1, <2>3 DEF Settled
<1>7. CASE ip \notin event.ips
  <2>1. ip \notin doubt["pod"] /\ ip \notin ips[o] /\ ip \notin new
    BY <1>2, <1>7, <1>e
  <2>2. PodsAt(ip)' = PodsAt(ip)
    BY <1>4, <1>5, <2>1 DEF PodsAt
  <2>3. \A n : Right(ip, n)' <=> Right(ip, n)
    BY <2>2 DEF Right
  <2>4. LastRight(ip) => LastRight(ip)'
    BY <1>3, <1>7, <2>3 DEF LastRight, Mentions, Says
  <2>5. Unmentioned(ip) => Unmentioned(ip)'
    BY <1>3, <1>7 DEF Unmentioned, Mentions
  <2> QED
    BY <1>1, <2>1, <2>2, <2>3, <2>4, <2>5 DEF PodsSettled, Settled
<1> QED
  BY <1>6, <1>7

\* The same while no watch is open: an address given up stays out of doubt
\* only if the table does not know it.
LEMMA ChangeUnwatched ==
    ASSUME Typed, PodsSettled, NEW o \in Pods,
           NEW type \in {"ADDED", "MODIFIED", "DELETED"},
           NEW new \in SUBSET IPs, type = "DELETED" => new = {},
           Change(o, type, new), watch["pods"] # "open",
           NEW ip \in IPs \ doubt'["pod"]
    PROVE  Settled(ip)'
<1> DEFINE gained == new \ ips[o]
           lost == ips[o] \ new
<1>0. TypeOK /\ o \in Objects /\ Kind(o) = "pods" /\ Table(Kind(o)) = "pod"
      /\ Name[o] # NoLabel
  BY KindOf, NamesGiven DEF Typed, Objects
<1>1. /\ alive' = IF type = "DELETED" THEN alive \ {o} ELSE alive \cup {o}
      /\ ips' = [ips EXCEPT ![o] = new]
      /\ doubt' = [doubt EXCEPT !["pod"] =
                      GainDoubt(o, gained, @) \cup LossDoubt(o, lost, type = "DELETED")
                      \cup (IF type = "DELETED" THEN NamesakeDoubt(o) ELSE {})]
      /\ watch' = watch /\ ipPod' = ipPod
  BY <1>0 DEF Change, program
<1>2. /\ ip \in gained => ~Contested(o, ip)
      /\ ip \notin doubt["pod"]
      /\ ip \in lost => ipPod[ip] = Absent
  <2>1. ip \notin GainDoubt(o, gained, doubt["pod"])
        /\ ip \notin LossDoubt(o, lost, type = "DELETED")
    BY <1>0, <1>1 DEF TypeOK
  <2>2. LossDoubt(o, lost, type = "DELETED") = lost \cap Known("pod")
    BY <1>0 DEF LossDoubt
  <2> QED
    BY <1>0, <2>1, <2>2 DEF GainDoubt, Known
<1>4. \A x : x # o => (x \in PodsAt(ip)' <=> x \in PodsAt(ip))
  BY <1>0, <1>1 DEF PodsAt, TypeOK
<1>5. /\ o \in PodsAt(ip)' <=> ip \in new /\ type # "DELETED"
      /\ o \in PodsAt(ip) <=> ip \in ips[o]
  BY <1>0, <1>1 DEF PodsAt, TypeOK, Typed, GoneHaveNone
<1>6. CASE ip \in gained
  BY <1>1, <1>2, <1>4, <1>5, <1>6, PodContested DEF Settled
<1>7. CASE ip \notin gained
  <2>1. PodsAt(ip)' \subseteq PodsAt(ip)
    BY <1>4, <1>5, <1>7
  <2>2. PodsAt(ip)' = {} => PodsAt(ip) = {} \/ ip \in lost
    <3>1. ASSUME PodsAt(ip)' = {}, NEW x \in PodsAt(ip) PROVE ip \in lost
      <4>1. x = o /\ ip \in ips[o]
        BY <1>4, <1>5, <3>1
      <4> QED
        BY <1>5, <3>1, <4>1
    <3> QED
      BY <3>1
  <2> QED
    BY <1>1, <1>2, <2>1, <2>2 DEF PodsSettled, Settled
<1> QED
  BY <1>6, <1>7

LEMMA ChangeSettled ==
    ASSUME Typed, PodsSettled, NEW o \in Objects,
           NEW type \in {"ADDED", "MODIFIED", "DELETED"},
           NEW new \in SUBSET IPs, type = "DELETED" => new = {},
           type = "ADDED" => o \notin alive,
           Change(o, type, new)
    PROVE  PodsSettled'
<1>1. CASE o \in Pods
  BY <1>1, ChangeWatched, ChangeUnwatched DEF PodsSettled
<1>2. CASE o \notin Pods
  <2>1. Kind(o) # "pods" /\ Table(Kind(o)) # "pod"
    BY <1>2, KindOf
  <2>2. /\ alive' = IF type = "DELETED" THEN alive \ {o} ELSE alive \cup {o}
        /\ ips' = [ips EXCEPT ![o] = new]
        /\ UNCHANGED <<watch, ipPod>>
    BY DEF Change, program
  <2>3. queue'["pods"] = queue["pods"] /\ doubt'["pod"] = doubt["pod"]
    BY <2>1 DEF Change, Typed, TypeOK
  <2>4. \A p \in Pods : ips'[p] = ips[p]
    BY <1>2, <2>2 DEF Typed, TypeOK, Objects
  <2> QED
    BY <1>2, <2>2, <2>3, <2>4, Undisturbed
<1> QED
  BY <1>1, <1>2

\* The first list finds the table empty of what no Pod has.
LEMMA ListSettled ==
    ASSUME Typed, PodsSettled, NEW k \in Kinds, List(k) \/ ListFails(k)
    PROVE  PodsSettled'
<1>1. /\ pc = k /\ UNCHANGED <<cluster, doubt, queue>>
      /\ \A j \in Kinds : watch[j] = "off"
  BY DEF List, ListFails, ListDone, Typed, ListsFirst
<1>2. watch'["pods"] \in {"off", "starting"}
  BY <1>1 DEF List, ListFails, ListDone, Kinds
<1>3. ASSUME NEW ip \in IPs \ doubt["pod"]
      PROVE  PodsAt(ip)' = PodsAt(ip) /\ (PodsAt(ip) = {} => ipPod'[ip] = Absent)
  <2>1. PodsAt(ip)' = PodsAt(ip)
    BY <1>1 DEF PodsAt, cluster
  <2>2. PodsAt(ip) = {} => ipPod[ip] = Absent
    BY <1>1 DEF PodsSettled, Settled, Kinds
  <2>3. CASE ipPod' = ipPod
    BY <2>1, <2>2, <2>3
  <2>4. CASE k = "pods" /\ ipPod' \in Listed(ipPod, k)
    <3>1. {o \in Claimants("pods", ip) : Kind(o) = "pods"} \subseteq PodsAt(ip)
      BY PodClaimants
    <3>2. PodsAt(ip) = {} => ipPod'[ip] = ipPod[ip]
      BY <2>4, <3>1 DEF Listed
    <3> QED
      BY <2>1, <2>2, <3>2
  <2> QED
    BY <2>3, <2>4 DEF List, ListFails
<1> QED
  BY <1>1, <1>2, <1>3 DEF PodsSettled, Settled

\* A watch that begins reports every Pod once.
LEMMA OpeningSettled ==
    ASSUME Typed, PodsSettled, WatchOpens("pods")
    PROVE  PodsSettled'
<1>0. TypeOK /\ "pods" \in Kinds /\ Table("pods") = "pod"
  BY DEF Typed, Kinds, Table
<1>1. PICK all \in SetToSeqs(Existing("pods")) : queue' = [queue EXCEPT !["pods"] = all]
  BY DEF WatchOpens, Existing
<1>2. /\ queue'["pods"] = all
      /\ DOMAIN all = 1 .. Len(all) /\ Len(all) \in Nat
      /\ \A i \in DOMAIN all : all[i] \in Existing("pods")
      /\ \A e \in Existing("pods") : \E i \in DOMAIN all : all[i] = e
      /\ \A i, j \in DOMAIN all : all[i] = all[j] => i = j
  BY <1>0, <1>1, SeqOfExisting DEF TypeOK
<1>3. Existing("pods") = {[type |-> "ADDED", obj |-> o, ips |-> ips[o]] : o \in alive \cap Pods}
  <2>1. {x \in alive : Kind(x) = "pods"} = alive \cap Pods
    BY <1>0, KindOf DEF TypeOK
  <2> QED
    BY <2>1 DEF Existing
<1>4. /\ watch["pods"] = "starting" /\ watch'["pods"] = "open"
      /\ UNCHANGED <<ipPod, cluster>>
  BY <1>0 DEF WatchOpens, TypeOK, program
<1>5. ASSUME NEW ip \in IPs \ doubt'["pod"] PROVE Settled(ip)'
  <2>1. PodsAt(ip)' = PodsAt(ip) /\ (\A n : Right(ip, n)' <=> Right(ip, n))
    BY <1>4 DEF PodsAt, Right, cluster
  <2>2. ip \notin doubt["pod"] \/ \E o \in PodsAt(ip) : ~Contested(o, ip)
    <3>1. PICK s : s = {x \in IPs : \E o \in {y \in alive : Kind(y) = "pods"} :
                                        o \in Claimants("pods", x) /\ ~Contested(o, x)}
      OBVIOUS
    <3>2. doubt' = [doubt EXCEPT ![Table("pods")] = @ \ s]
      BY <3>1 DEF WatchOpens
    <3>3. doubt'["pod"] = doubt["pod"] \ s
      BY <1>0, <3>2 DEF TypeOK
    <3> QED
      BY <3>1, <3>3, PodClaimants
  <2>3. \A o, p \in PodsAt(ip) : o = p
    <3>1. CASE ip \notin doubt["pod"]
      BY <3>1 DEF PodsSettled, Settled
    <3>2. ASSUME NEW o \in PodsAt(ip), ~Contested(o, ip) PROVE PodsAt(ip) \subseteq {o}
      BY <3>2, PodContested DEF PodsAt
    <3> QED
      BY <2>2, <3>1, <3>2
  <2>4. CASE PodsAt(ip) = {}
    <3>1. Unmentioned(ip)'
      BY <1>2, <1>3, <2>4 DEF Unmentioned, Mentions, PodsAt
    <3>2. ipPod[ip] = Absent
      BY <1>4, <2>2, <2>4 DEF PodsSettled, Settled
    <3> QED
      BY <1>4, <2>1, <2>3, <2>4, <3>1, <3>2 DEF Settled, Right
  <2>5. ASSUME NEW o \in PodsAt(ip) PROVE LastRight(ip)'
    <3>1. PICK i \in DOMAIN all : all[i] = [type |-> "ADDED", obj |-> o, ips |-> ips[o]]
      BY <1>2, <1>3 DEF PodsAt
    <3>2. ASSUME NEW j \in DOMAIN all, ip \in all[j].ips PROVE j = i
      <4>1. PICK p \in alive \cap Pods : all[j] = [type |-> "ADDED", obj |-> p, ips |-> ips[p]]
        BY <1>2, <1>3
      <4>2. p = o
        BY <2>3, <3>2, <4>1 DEF PodsAt
      <4> QED
        BY <1>2, <3>1, <4>1, <4>2
    <3>3. ip \in all[i].ips /\ Right(ip, Says(all[i]))
      BY <3>1 DEF PodsAt, Right, Says
    <3>4. Right(ip, Says(queue["pods"][i]))'
      BY <1>2, <2>1, <3>3 DEF Says
    <3> QED
      BY <1>2, <3>2, <3>3, <3>4 DEF LastRight, Mentions
  <2> QED
    BY <1>4, <2>1, <2>3, <2>4, <2>5 DEF Settled
<1> QED
  BY <1>5 DEF PodsSettled

\* A channel that closes with deletions undelivered puts their addresses in
\* doubt where the table knows them.
LEMMA ClosingSettled ==
    ASSUME Typed, PodsSettled, ChannelClosed("pods")
    PROVE  PodsSettled'
<1>0. TypeOK /\ EventsOfKind /\ "pods" \in Kinds /\ Table("pods") = "pod"
  BY DEF Typed, Kinds, Table
<1>1. /\ watch["pods"] = "open" /\ watch'["pods"] = "starting"
      /\ UNCHANGED <<ipPod, cluster>>
  BY <1>0 DEF ChannelClosed, TypeOK, program
<1>2. ASSUME NEW ip \in IPs \ doubt'["pod"] PROVE Settled(ip)'
  <2>1. PodsAt(ip)' = PodsAt(ip)
    BY <1>1 DEF PodsAt, cluster
  <2>2. /\ ip \notin doubt["pod"]
        /\ \A i \in DOMAIN queue["pods"] :
              Mentions(i, ip) /\ queue["pods"][i].type = "DELETED" => ipPod[ip] = Absent
    BY <1>0 DEF ChannelClosed, TypeOK, Known, Mentions, ToSet
  <2>3. PodsAt(ip) = {} => ipPod[ip] = Absent
    <3>1. ASSUME PodsAt(ip) = {}, NEW i \in DOMAIN queue["pods"], Mentions(i, ip),
                 Right(ip, Says(queue["pods"][i]))
          PROVE  ipPod[ip] = Absent
      <4>1. Name[queue["pods"][i].obj] # Absent
        BY <1>0, <3>1, NamedPods DEF EventsOfKind
      <4> QED
        BY <2>2, <3>1, <4>1 DEF Right, Says
    <3> QED
      BY <1>1, <2>2, <3>1 DEF PodsSettled, Settled, LastRight, Right
  <2> QED
    BY <1>1, <2>1, <2>2, <2>3 DEF PodsSettled, Settled
<1> QED
  BY <1>2 DEF PodsSettled

\* An event handled leaves the table right, or a later event to set it right.
LEMMA DeliverySettled ==
    ASSUME Typed, PodsSettled, WatchPods
    PROVE  PodsSettled'
<1> DEFINE q == queue["pods"]
           e == Head(q)
<1>0. TypeOK /\ "pods" \in Kinds
  BY DEF Typed, Kinds
<1>1. /\ watch["pods"] = "open" /\ UNCHANGED <<watch, cluster, doubt>>
      /\ q \in Seq(Event) /\ q # <<>>
      /\ queue'["pods"] = Tail(q)
  BY <1>0 DEF WatchPods, Deliver, TypeOK
<1>2. /\ e = q[1] /\ DOMAIN q = 1 .. Len(q) /\ Len(q) \in Nat \ {0}
      /\ DOMAIN queue'["pods"] = 1 .. Len(q) - 1
      /\ \A i \in 1 .. Len(q) - 1 : queue'["pods"][i] = q[i + 1]
  BY <1>1
<1>3. \A ip \in IPs : ipPod'[ip] = IF ip \in e.ips THEN Says(e) ELSE ipPod[ip]
  BY DEF WatchPods, AddPod, DropPod, Put, Says
<1>4. ASSUME NEW ip \in IPs \ doubt["pod"] PROVE Settled(ip)'
  <2>1. PodsAt(ip)' = PodsAt(ip) /\ (\A n : Right(ip, n)' <=> Right(ip, n))
    BY <1>1 DEF PodsAt, Right, cluster
  <2>2. Settled(ip)
    BY DEF PodsSettled
  <2>3. ASSUME NEW i \in DOMAIN q, Mentions(i, ip),
               \A j \in DOMAIN q : Mentions(j, ip) => j <= i,
               Right(ip, Says(q[i]))
        PROVE  LastRight(ip)' \/ (Unmentioned(ip)' /\ Right(ip, ipPod[ip])')
    <3>1. CASE i = 1
      <4>1. Unmentioned(ip)'
        BY <1>2, <2>3, <3>1 DEF Unmentioned, Mentions
      <4>2. Right(ip, ipPod'[ip])
        BY <1>2, <1>3, <2>3, <3>1 DEF Mentions
      <4>3. Right(ip, ipPod[ip])'
        BY <2>1, <4>2 DEF Right
      <4> QED
        BY <4>1, <4>3
    <3>2. CASE i # 1
      <4>1. i - 1 \in 1 .. Len(q) - 1 /\ queue'["pods"][i - 1] = q[i]
        BY <1>2, <3>2
      <4>2. Mentions(i - 1, ip)'
        BY <2>3, <4>1 DEF Mentions
      <4>3. ASSUME NEW j \in DOMAIN queue'["pods"], Mentions(j, ip)' PROVE j <= i - 1
        <5>1. j + 1 \in DOMAIN q /\ q[j + 1] = queue'["pods"][j]
          BY <1>2
        <5>2. j + 1 <= i
          BY <2>3, <4>3, <5>1 DEF Mentions
        <5> QED
          BY <1>2, <5>2
      <4>4. Right(ip, Says(queue["pods"][i - 1]))'
        BY <2>1, <2>3, <4>1 DEF Says
      <4> QED
        BY <1>2, <4>1, <4>2, <4>3, <4>4 DEF LastRight
    <3> QED
      BY <3>1, <3>2
  <2>4. ASSUME Unmentioned(ip), Right(ip, ipPod[ip])
        PROVE  Unmentioned(ip)' /\ Right(ip, ipPod[ip])'
    <3>1. Unmentioned(ip)'
      <4>1. ASSUME NEW i \in DOMAIN queue'["pods"] PROVE ~Mentions(i, ip)'
        <5>1. i + 1 \in DOMAIN q /\ queue'["pods"][i] = q[i + 1]
          BY <1>2
        <5> QED
          BY <2>4, <5>1 DEF Unmentioned, Mentions
      <4> QED
        BY <4>1 DEF Unmentioned
    <3>2. ipPod'[ip] = ipPod[ip]
      BY <1>2, <1>3, <2>4 DEF Unmentioned, Mentions
    <3> QED
      BY <2>1, <2>4, <3>1, <3>2 DEF Right
  <2> QED
    BY <1>1, <2>1, <2>2, <2>3, <2>4 DEF Settled, LastRight
<1> QED
  BY <1>1, <1>4 DEF PodsSettled

LEMMA NextSettled == Typed /\ PodsSettled /\ [Next]_vars => PodsSettled'
<1> SUFFICES ASSUME Typed, PodsSettled, [Next]_vars PROVE PodsSettled'
  OBVIOUS
<1>0. TypeOK /\ \A k \in Kinds \ {"pods"} : Table(k) # "pod"
  BY DEF Typed, Kinds, Table
<1>1. ASSUME NEW o \in Objects, Create(o) \/ Modify(o) \/ Delete(o) PROVE PodsSettled'
  BY <1>1, ChangeSettled DEF Create, Modify, Delete
<1>2. ASSUME NEW k \in Kinds, List(k) \/ ListFails(k) PROVE PodsSettled'
  BY <1>2, ListSettled
<1>3. CASE WatchOpens("pods") \/ ChannelClosed("pods")
  BY <1>3, OpeningSettled, ClosingSettled
<1>4. CASE WatchFails("pods") \/ Stop("pods")
  <2>1. watch'["pods"] = "ended" /\ UNCHANGED <<cluster, doubt>>
    BY <1>0, <1>4 DEF WatchFails, Stop, TypeOK, Kinds
  <2>2. \A ip : PodsAt(ip)' = PodsAt(ip)
    BY <2>1 DEF PodsAt, cluster
  <2> QED
    BY <2>1, <2>2 DEF PodsSettled, Settled
<1>5. ASSUME NEW k \in Kinds \ {"pods"},
             WatchOpens(k) \/ ChannelClosed(k) \/ WatchFails(k) \/ Stop(k)
      PROVE  PodsSettled'
  <2>1. UNCHANGED <<ipPod, cluster>>
    BY <1>5 DEF WatchOpens, ChannelClosed, WatchFails, Stop, program
  <2>2. watch'["pods"] = watch["pods"] /\ queue'["pods"] = queue["pods"]
        /\ doubt'["pod"] = doubt["pod"]
    <3>1. "pods" \in Kinds /\ k # "pods" /\ Table(k) # "pod"
      BY <1>0 DEF Kinds
    <3>2. CASE WatchOpens(k)
      BY <1>0, <3>1, <3>2 DEF WatchOpens, TypeOK
    <3>3. CASE ChannelClosed(k)
      BY <1>0, <3>1, <3>3 DEF ChannelClosed, TypeOK
    <3>4. CASE WatchFails(k) \/ Stop(k)
      BY <1>0, <3>1, <3>4 DEF WatchFails, Stop, TypeOK
    <3> QED
      BY <1>5, <3>2, <3>3, <3>4
  <2> QED
    BY <2>1, <2>2, Undisturbed DEF cluster
<1>6. CASE WatchPods
  BY <1>6, DeliverySettled
<1>7. CASE WatchServices \/ WatchSlices
  <2>1. UNCHANGED <<ipPod, cluster, doubt, watch>> /\ queue'["pods"] = queue["pods"]
    BY <1>0, <1>7 DEF WatchServices, WatchSlices, Deliver, TypeOK, Kinds
  <2> QED
    BY <2>1, Undisturbed DEF cluster
<1>8. CASE Close \/ UNCHANGED vars
  BY <1>8, Undisturbed DEF Close, vars, program, cluster
<1> QED
  BY <1>1, <1>2, <1>3, <1>4, <1>5, <1>6, <1>7, <1>8 DEF Next

\* Where nothing is in doubt, the table of Pods is the cluster's once its
\* events are handled.
THEOREM PodsResolved == Spec => []PodNamesRight
<1>1. Spec => [](Typed /\ PodsSettled)
  BY InitTyped, NextTyped, InitSettled, NextSettled, PTL DEF Spec
<1>2. Typed /\ PodsSettled => PodNamesRight
  <2> SUFFICES ASSUME Typed, PodsSettled, Quiet("pods"), NEW ip \in IPs \ doubt["pod"]
               PROVE  ipPod[ip] \in TrueName("pods", ip)
    BY DEF PodNamesRight
  <2>1. Right(ip, ipPod[ip])
    BY DEF PodsSettled, Settled, Quiet, LastRight
  <2> QED
    BY <2>1, PodClaimants DEF Right, TrueName
<1> QED
  BY <1>1, <1>2, PTL
-----------------------------------------------------------------------------
(* The table of Services, which two goroutines fill.  What is to become of   *)
(* the name t of an address ip when a queue q has been handled.              *)

Other(k) == IF k = "services" THEN "slices" ELSE "services"

\* The Services and slices that give ip a name.
Bearers(ip) == {o \in alive \ Pods : Name[o] # NoLabel /\ ip \in ips[o]}

\* The event gives ip a name or takes it; or it takes the name n everywhere.
Speaks(e, ip) == ip \in e.ips /\ Name[e.obj] # NoLabel
Erases(e, n) == e.type = "DELETED" /\ e.obj \in Services /\ Name[e.obj] = n

Silent(q, ip) == \A i \in DOMAIN q : ~Speaks(q[i], ip)
Keeps(q, n) == \A i \in DOMAIN q : ~Erases(q[i], n)

\* It will be n: the last event that speaks of ip says so, or it is n already,
\* and nothing later erases that name.
WillBe(q, t, n, ip) ==
    \/ \E h \in DOMAIN q :
          /\ Speaks(q[h], ip) /\ Says(q[h]) = n
          /\ \A j \in DOMAIN q : j > h => ~Speaks(q[j], ip) /\ ~Erases(q[j], n)
    \/ t = n /\ Silent(q, ip) /\ Keeps(q, n)

\* Events before the i-th leave the name n at ip, or nothing.
Leaves(q, i, t, n, ip) ==
    \/ \E h \in DOMAIN q :
          /\ h < i /\ Speaks(q[h], ip) /\ Says(q[h]) = n
          /\ \A j \in DOMAIN q : h < j /\ j < i => ~Speaks(q[j], ip)
    \/ t \in {Absent, n} /\ \A j \in DOMAIN q : j < i => ~Speaks(q[j], ip)

\* It will go: the last event that speaks of ip deletes an object, and finds
\* there what it compares with, that object's name.
WillGo(q, t, ip) ==
    \E i \in DOMAIN q :
        /\ Speaks(q[i], ip) /\ q[i].type = "DELETED"
        /\ \A j \in DOMAIN q : j > i => ~Speaks(q[j], ip)
        /\ Leaves(q, i, t, Name[q[i].obj], ip)

\* Of an address out of doubt: at most one object gives it a name, and the
\* other queue has nothing to say of that; its own queue, once open, will set
\* the table right.  An address without a name has none in the table, or one
\* that the only queue to speak of it will take away.
SettledSvc(ip) ==
    /\ Bearers(ip) = {} =>
          \/ ipSvc[ip] = Absent /\ \A k \in {"services", "slices"} : Silent(queue[k], ip)
          \/ \E k \in {"services", "slices"} : /\ WillGo(queue[k], ipSvc[ip], ip)
                                               /\ Silent(queue[Other(k)], ip)
    /\ \A o \in Bearers(ip) :
          /\ Bearers(ip) = {o}
          /\ Silent(queue[Other(Kind(o))], ip) /\ Keeps(queue[Other(Kind(o))], Name[o])
          /\ watch[Kind(o)] = "open" =>
                WillBe(queue[Kind(o)], ipSvc[ip], Name[o], ip)

ServicesSettled ==
    watch["services"] # "ended" /\ watch["slices"] # "ended"
        => \A ip \in IPs \ doubt["svc"] : SettledSvc(ip)

LEMMA Longer ==
    ASSUME NEW q \in Seq(Event), NEW e \in Event
    PROVE  /\ DOMAIN q = 1 .. Len(q) /\ Len(q) \in Nat
           /\ DOMAIN Append(q, e) = 1 .. Len(q) + 1
           /\ Append(q, e)[Len(q) + 1] = e
           /\ \A i \in 1 .. Len(q) : Append(q, e)[i] = q[i]
OBVIOUS

LEMMA Shorter ==
    ASSUME NEW q \in Seq(Event), q # <<>>
    PROVE  /\ Head(q) = q[1] /\ Head(q) \in Event
           /\ DOMAIN q = 1 .. Len(q) /\ Len(q) \in Nat \ {0}
           /\ DOMAIN Tail(q) = 1 .. Len(q) - 1
           /\ \A i \in 1 .. Len(q) - 1 : Tail(q)[i] = q[i + 1]
OBVIOUS

\* What one more event does to what the queue will make of ip.
LEMMA AppendSays ==
    ASSUME NEW q \in Seq(Event), NEW e \in Event, NEW t, NEW n, NEW ip,
           Speaks(e, ip), Says(e) = n
    PROVE  WillBe(Append(q, e), t, n, ip)
<1>1. PICK r : r = Append(q, e)
  OBVIOUS
<1>2. /\ DOMAIN r = 1 .. Len(q) + 1 /\ r[Len(q) + 1] = e /\ Len(q) \in Nat
  BY <1>1, Longer
<1> QED
  BY <1>1, <1>2 DEF WillBe

LEMMA AppendKeeps ==
    ASSUME NEW q \in Seq(Event), NEW e \in Event, NEW t, NEW n, NEW ip,
           ~Speaks(e, ip)
    PROVE  /\ Silent(q, ip) => Silent(Append(q, e), ip)
           /\ Keeps(q, n) /\ ~Erases(e, n) => Keeps(Append(q, e), n)
           /\ WillBe(q, t, n, ip) /\ ~Erases(e, n) => WillBe(Append(q, e), t, n, ip)
           /\ WillGo(q, t, ip) => WillGo(Append(q, e), t, ip)
<1>1. PICK r : r = Append(q, e)
  OBVIOUS
<1>2. /\ DOMAIN q = 1 .. Len(q) /\ Len(q) \in Nat
      /\ DOMAIN r = 1 .. Len(q) + 1 /\ r[Len(q) + 1] = e
      /\ \A i \in DOMAIN q : r[i] = q[i]
  BY <1>1, Longer
<1>3. \A i \in DOMAIN r : i \in DOMAIN q \/ (i = Len(q) + 1 /\ r[i] = e)
  BY <1>2
<1>4. Silent(q, ip) => Silent(r, ip)
  BY <1>2, <1>3 DEF Silent
<1>5. Keeps(q, n) /\ ~Erases(e, n) => Keeps(r, n)
  BY <1>2, <1>3 DEF Keeps
<1>6. WillBe(q, t, n, ip) /\ ~Erases(e, n) => WillBe(r, t, n, ip)
  <2> SUFFICES ASSUME WillBe(q, t, n, ip), ~Erases(e, n) PROVE WillBe(r, t, n, ip)
    OBVIOUS
  <2>1. ASSUME NEW h \in DOMAIN q, Speaks(q[h], ip), Says(q[h]) = n,
               \A j \in DOMAIN q : j > h => ~Speaks(q[j], ip) /\ ~Erases(q[j], n)
        PROVE  WillBe(r, t, n, ip)
    <3>1. h \in DOMAIN r /\ r[h] = q[h]
      BY <1>2
    <3>2. \A j \in DOMAIN r : j > h => ~Speaks(r[j], ip) /\ ~Erases(r[j], n)
      BY <1>2, <1>3, <2>1
    <3> QED
      BY <2>1, <3>1, <3>2 DEF WillBe
  <2> QED
    BY <1>4, <1>5, <2>1 DEF WillBe
<1>7. WillGo(q, t, ip) => WillGo(r, t, ip)
  <2> SUFFICES ASSUME NEW i \in DOMAIN q, Speaks(q[i], ip), q[i].type = "DELETED",
                      \A j \in DOMAIN q : j > i => ~Speaks(q[j], ip),
                      Leaves(q, i, t, Name[q[i].obj], ip)
               PROVE  WillGo(r, t, ip)
    BY DEF WillGo
  <2>1. i \in DOMAIN r /\ r[i] = q[i] /\ \A j \in DOMAIN r : j > i => ~Speaks(r[j], ip)
    BY <1>2, <1>3
  <2>2. \A j \in DOMAIN r : j < i => j \in DOMAIN q /\ r[j] = q[j]
    BY <1>2, <1>3
  <2>3. Leaves(r, i, t, Name[q[i].obj], ip)
    <3>1. DOMAIN q \subseteq DOMAIN r
      BY <1>2
    <3> QED
      BY <1>2, <2>2, <3>1 DEF Leaves
  <2> QED
    BY <2>1, <2>3 DEF WillGo
<1> QED
  BY <1>1, <1>4, <1>5, <1>6, <1>7

\* The deletion of the object that bears ip.
LEMMA AppendTakes ==
    ASSUME NEW q \in Seq(Event), NEW e \in Event, NEW t, NEW ip,
           Speaks(e, ip), e.type = "DELETED", WillBe(q, t, Name[e.obj], ip)
    PROVE  WillGo(Append(q, e), t, ip)
<1>1. PICK r : r = Append(q, e)
  OBVIOUS
<1>2. PICK i : i = Len(q) + 1
  OBVIOUS
<1>3. PICK n : n = Name[e.obj]
  OBVIOUS
<1>4. /\ DOMAIN q = 1 .. Len(q) /\ Len(q) \in Nat
      /\ DOMAIN r = 1 .. i /\ r[i] = e
      /\ \A j \in DOMAIN q : r[j] = q[j]
  BY <1>1, <1>2, Longer
<1>5. /\ DOMAIN q \subseteq DOMAIN r /\ i \in DOMAIN r
      /\ \A j \in DOMAIN r : j < i => j \in DOMAIN q /\ r[j] = q[j]
      /\ \A j \in DOMAIN r : ~(j > i)
      /\ \A j \in DOMAIN q : j < i
  BY <1>2, <1>4
<1>6. Leaves(r, i, t, n, ip)
  BY <1>3, <1>4, <1>5 DEF WillBe, Leaves, Silent
<1> QED
  BY <1>1, <1>3, <1>4, <1>5, <1>6 DEF WillGo

\* What handling the event e makes of the name t: it becomes u.
Turns(e, t, u, ip) ==
    /\ Speaks(e, ip) /\ e.type # "DELETED" => u = Name[e.obj]
    /\ Speaks(e, ip) /\ e.type = "DELETED" => u = (IF t = Name[e.obj] THEN Absent ELSE t)
    /\ ~Speaks(e, ip) => u = t \/ (Erases(e, t) /\ u = Absent)

LEMMA Handled ==
    ASSUME Typed, NEW k \in {"services", "slices"}, WatchServices \/ WatchSlices,
           Deliver(k), k = "services" => WatchServices, k = "slices" => WatchSlices,
           NEW ip \in IPs
    PROVE  Turns(Head(queue[k]), ipSvc[ip], ipSvc'[ip], ip)
<1>1. PICK e : e = Head(queue[k])
  OBVIOUS
<1>0. TypeOK /\ EventsOfKind /\ k \in Kinds
  BY DEF Typed, Kinds
<1>2. /\ e \in Event /\ e.obj \in Objects
      /\ k = "services" => e.obj \in Services
      /\ k = "slices" => e.obj \in Slices
  <2>1. queue[k] \in Seq(Event) /\ queue[k] # <<>>
    BY <1>0 DEF TypeOK, Deliver
  <2>2. e = queue[k][1] /\ e \in Event /\ 1 \in DOMAIN queue[k]
    BY <1>1, <2>1, Shorter
  <2> QED
    BY <1>0, <2>2 DEF EventsOfKind, Event
<1>3. ipSvc[ip] \in Names \cup {Absent} /\ NoLabel \notin Names \cup {Absent}
  BY <1>0, NamesGiven DEF TypeOK, Names
<1>4. CASE k = "services"
  <2>1. ipSvc' = IF e.type = "DELETED" THEN DropService(e) ELSE AddService(e)
    BY <1>1, <1>4 DEF WatchServices
  <2>2. ipSvc'[ip] = IF e.type = "DELETED"
                     THEN IF ipSvc[ip] = Name[e.obj] THEN Absent ELSE ipSvc[ip]
                     ELSE IF ip \in e.ips THEN Name[e.obj] ELSE ipSvc[ip]
    BY <2>1 DEF DropService, AddService, Put
  <2>3. Name[e.obj] # NoLabel /\ e.obj \in Services
    BY <1>2, <1>4, NamesGiven
  <2> QED
    BY <1>1, <2>2, <2>3 DEF Turns, Speaks, Erases
<1>5. CASE k = "slices"
  <2>1. ipSvc' = IF e.type = "DELETED" THEN DropSlice(e) ELSE AddSlice(e)
    BY <1>1, <1>5 DEF WatchSlices
  <2>2. ipSvc'[ip] = IF e.type = "DELETED"
                     THEN IF ip \in e.ips /\ ipSvc[ip] = Name[e.obj] THEN Absent ELSE ipSvc[ip]
                     ELSE IF Name[e.obj] # NoLabel /\ ip \in e.ips THEN Name[e.obj]
                     ELSE ipSvc[ip]
    BY <2>1 DEF DropSlice, AddSlice, Put
  <2> QED
    BY <1>1, <1>3, <2>2 DEF Turns, Speaks
<1> QED
  BY <1>4, <1>5

LEMMA TailSays ==
    ASSUME NEW q \in Seq(Event), q # <<>>, NEW t, NEW u, NEW n \in Names, NEW ip,
           Turns(Head(q), t, u, ip), WillBe(q, t, n, ip)
    PROVE  WillBe(Tail(q), u, n, ip)
<1>1. PICK r, e : r = Tail(q) /\ e = Head(q)
  OBVIOUS
<1>2. /\ e = q[1] /\ DOMAIN q = 1 .. Len(q) /\ Len(q) \in Nat \ {0}
      /\ DOMAIN r = 1 .. Len(q) - 1 /\ \A i \in DOMAIN r : r[i] = q[i + 1]
  BY <1>1, Shorter
<1>3. /\ \A i \in DOMAIN r : i + 1 \in DOMAIN q /\ r[i] = q[i + 1] /\ i + 1 > 1
      /\ 1 \in DOMAIN q /\ Turns(e, t, u, ip)
  BY <1>1, <1>2
<1>4. ASSUME NEW h \in DOMAIN q, Speaks(q[h], ip), Says(q[h]) = n,
             \A j \in DOMAIN q : j > h => ~Speaks(q[j], ip) /\ ~Erases(q[j], n)
      PROVE  WillBe(r, u, n, ip)
  <2>1. CASE h = 1
    <3>1. e.type # "DELETED" /\ u = n
      BY <1>2, <1>3, <1>4, <2>1, NamedPods DEF Says, Turns
    <3>2. Silent(r, ip) /\ Keeps(r, n)
      BY <1>3, <1>4, <2>1 DEF Silent, Keeps
    <3> QED
      BY <3>1, <3>2 DEF WillBe
  <2>2. CASE h # 1
    <3>1. h - 1 \in DOMAIN r /\ r[h - 1] = q[h]
      BY <1>2, <2>2
    <3>2. ASSUME NEW j \in DOMAIN r, j > h - 1 PROVE ~Speaks(r[j], ip) /\ ~Erases(r[j], n)
      <4>1. j + 1 > h
        BY <1>2, <3>2
      <4> QED
        BY <1>3, <1>4, <4>1
    <3> QED
      BY <1>4, <3>1, <3>2 DEF WillBe
  <2> QED
    BY <2>1, <2>2
<1>5. ASSUME t = n, Silent(q, ip), Keeps(q, n) PROVE WillBe(r, u, n, ip)
  <2>1. Silent(r, ip) /\ Keeps(r, n)
    BY <1>3, <1>5 DEF Silent, Keeps
  <2>2. ~Speaks(e, ip) /\ ~Erases(e, n)
    BY <1>2, <1>3, <1>5 DEF Silent, Keeps
  <2> QED
    BY <1>3, <1>5, <2>1, <2>2 DEF WillBe, Turns
<1> QED
  BY <1>1, <1>4, <1>5 DEF WillBe

LEMMA TailTakes ==
    ASSUME NEW q \in Seq(Event), q # <<>>, NEW t, NEW u, NEW ip,
           Turns(Head(q), t, u, ip), WillGo(q, t, ip)
    PROVE  WillGo(Tail(q), u, ip) \/ (Silent(Tail(q), ip) /\ u = Absent)
<1>1. PICK r, e : r = Tail(q) /\ e = Head(q)
  OBVIOUS
<1>2. /\ e = q[1] /\ DOMAIN q = 1 .. Len(q) /\ Len(q) \in Nat \ {0}
      /\ DOMAIN r = 1 .. Len(q) - 1 /\ \A i \in DOMAIN r : r[i] = q[i + 1]
  BY <1>1, Shorter
<1>3. /\ \A i \in DOMAIN r : i + 1 \in DOMAIN q /\ r[i] = q[i + 1] /\ i + 1 > 1
      /\ 1 \in DOMAIN q /\ Turns(e, t, u, ip)
  BY <1>1, <1>2
<1>4. PICK i \in DOMAIN q :
         /\ Speaks(q[i], ip) /\ q[i].type = "DELETED"
         /\ \A j \in DOMAIN q : j > i => ~Speaks(q[j], ip)
         /\ Leaves(q, i, t, Name[q[i].obj], ip)
  BY DEF WillGo
<1>5. PICK n : n = Name[q[i].obj]
  OBVIOUS
<1>6. n # Absent
  <2>1. q[i] \in Event
    BY <1>2, <1>4
  <2> QED
    BY <1>4, <1>5, <2>1, NamedPods DEF Speaks, Event
<1>7. CASE i = 1
  <2>1. Silent(r, ip)
    BY <1>3, <1>4, <1>7 DEF Silent
  <2>2. t \in {Absent, n}
    <3>1. \A h \in DOMAIN q : ~(h < i)
      BY <1>2, <1>7
    <3> QED
      BY <1>4, <1>5, <3>1 DEF Leaves
  <2>3. u = Absent
    BY <1>2, <1>3, <1>4, <1>5, <1>7, <2>2 DEF Turns
  <2> QED
    BY <1>1, <2>1, <2>3
<1>8. CASE i # 1
  <2>1. i - 1 \in DOMAIN r /\ r[i - 1] = q[i] /\ 1 < i
    BY <1>2, <1>8
  <2>2. \A j \in DOMAIN r : (j > i - 1 => j + 1 > i) /\ (j < i - 1 => j + 1 < i)
    BY <1>2
  <2>3. \A j \in DOMAIN r : j > i - 1 => ~Speaks(r[j], ip)
    BY <1>3, <1>4, <2>2
  <2>4. Leaves(r, i - 1, u, n, ip)
    <3>1. ASSUME NEW h \in DOMAIN q, h < i, Speaks(q[h], ip), Says(q[h]) = n,
                 \A j \in DOMAIN q : h < j /\ j < i => ~Speaks(q[j], ip)
          PROVE  Leaves(r, i - 1, u, n, ip)
      <4>1. CASE h = 1
        <5>1. e.type # "DELETED" /\ u = n
          BY <1>2, <1>3, <1>6, <3>1, <4>1 DEF Says, Turns
        <5>2. \A j \in DOMAIN r : j < i - 1 => ~Speaks(r[j], ip)
          BY <1>3, <2>2, <3>1, <4>1
        <5> QED
          BY <5>1, <5>2 DEF Leaves
      <4>2. CASE h # 1
        <5>1. h - 1 \in DOMAIN r /\ r[h - 1] = q[h] /\ h - 1 < i - 1
          BY <1>2, <3>1, <4>2
        <5>2. \A j \in DOMAIN r : h - 1 < j => h < j + 1
          BY <1>2
        <5>3. \A j \in DOMAIN r : h - 1 < j /\ j < i - 1 => ~Speaks(r[j], ip)
          BY <1>3, <2>2, <3>1, <5>2
        <5> QED
          BY <3>1, <5>1, <5>3 DEF Leaves
      <4> QED
        BY <4>1, <4>2
    <3>2. ASSUME t \in {Absent, n}, \A j \in DOMAIN q : j < i => ~Speaks(q[j], ip)
          PROVE  Leaves(r, i - 1, u, n, ip)
      <4>1. ~Speaks(e, ip)
        BY <1>2, <1>3, <2>1, <3>2
      <4>2. u \in {Absent, n}
        BY <1>3, <3>2, <4>1 DEF Turns
      <4>3. \A j \in DOMAIN r : j < i - 1 => ~Speaks(r[j], ip)
        BY <1>3, <2>2, <3>2
      <4> QED
        BY <4>2, <4>3 DEF Leaves
    <3> QED
      BY <1>4, <1>5, <3>1, <3>2 DEF Leaves
  <2> QED
    BY <1>1, <1>4, <1>5, <2>1, <2>3, <2>4 DEF WillGo
<1> QED
  BY <1>7, <1>8

LEMMA TailKeeps ==
    ASSUME NEW q \in Seq(Event), q # <<>>, NEW ip, NEW n
    PROVE  /\ Silent(q, ip) => Silent(Tail(q), ip) /\ ~Speaks(Head(q), ip)
           /\ Keeps(q, n) => Keeps(Tail(q), n) /\ ~Erases(Head(q), n)
<1>1. PICK r, e : r = Tail(q) /\ e = Head(q)
  OBVIOUS
<1>2. /\ e = q[1] /\ 1 \in DOMAIN q
      /\ \A i \in DOMAIN r : i + 1 \in DOMAIN q /\ r[i] = q[i + 1]
  BY <1>1, Shorter
<1> QED
  BY <1>1, <1>2 DEF Silent, Keeps

\* A name that goes from ip does not disturb what another queue makes of it.
LEMMA OthersTurn ==
    ASSUME NEW q \in Seq(Event), NEW e \in Event, NEW t, NEW u, NEW ip,
           Turns(e, t, u, ip), ~Speaks(e, ip)
    PROVE  /\ WillGo(q, t, ip) => WillGo(q, u, ip)
           /\ \A n : WillBe(q, t, n, ip) /\ ~Erases(e, n) => WillBe(q, u, n, ip)
           /\ t = Absent => u = Absent
<1>1. u = t \/ (u = Absent /\ Erases(e, t))
  BY DEF Turns
<1> QED
  BY <1>1 DEF WillGo, Leaves, WillBe

LEMMA SvcKinds ==
    ASSUME Typed, NEW ip
    PROVE  /\ Claimants("slices", ip) = Bearers(ip)
           /\ Bearers(ip) \subseteq Objects \ Pods
           /\ \A o \in Objects \ Pods : /\ Kind(o) \in {"services", "slices"}
                                        /\ Table(Kind(o)) = "svc"
                                        /\ Kind(o) = "services" => Other(Kind(o)) = "slices"
                                        /\ Kind(o) = "slices" => Other(Kind(o)) = "services"
           /\ \A k \in {"services", "slices"} :
                 /\ k \in Kinds /\ Table(k) = "svc"
                 /\ Other(k) \in {"services", "slices"} /\ Other(k) # k
                 /\ \A j \in {"services", "slices"} : j # k => Other(j) = k /\ j = Other(k)
<1>1. \A o \in Objects : /\ Table(Kind(o)) \in {"pod", "svc"} /\ Kind(o) \in Kinds
                         /\ Table(Kind(o)) = "pod" <=> o \in Pods
                         /\ Kind(o) = "pods" <=> o \in Pods
  BY KindOf
<1>2. alive \subseteq Objects /\ Table("slices") = "svc"
  BY DEF Typed, TypeOK, Table
<1>3. Claimants("slices", ip) = Bearers(ip)
  BY <1>1, <1>2 DEF Claimants, Bearers
<1>4. Bearers(ip) \subseteq Objects \ Pods
  BY <1>2 DEF Bearers
<1>5. \A o \in Objects \ Pods : Kind(o) \in {"services", "slices"} /\ Table(Kind(o)) = "svc"
  BY <1>1 DEF Kinds
<1> QED
  BY <1>3, <1>4, <1>5 DEF Other, Kinds, Table

LEMMA InitServices == Init => ServicesSettled
BY DEF Init, ServicesSettled, SettledSvc, Bearers, Silent, Kinds

\* What leaves objects, queues, doubt and the table alone.
LEMMA ServicesUndisturbed ==
    ASSUME ServicesSettled, ipSvc' = ipSvc, doubt'["svc"] = doubt["svc"],
           \A k \in {"services", "slices"} : queue'[k] = queue[k] /\ watch'[k] = watch[k],
           alive' \ Pods = alive \ Pods, \A o \in Objects \ Pods : ips'[o] = ips[o],
           Typed
    PROVE  ServicesSettled'
<1>1. \A ip : Bearers(ip)' = Bearers(ip)
  BY DEF Bearers, Typed, TypeOK
<1>2. ASSUME NEW ip \in IPs, SettledSvc(ip) PROVE SettledSvc(ip)'
  <2>1. \A o \in Bearers(ip) : Kind(o) \in {"services", "slices"}
                               /\ Other(Kind(o)) \in {"services", "slices"}
    BY SvcKinds
  <2>2. \A k \in {"services", "slices"} : Other(k) \in {"services", "slices"}
    BY DEF Other
  <2> QED
    BY <1>1, <1>2, <2>1, <2>2 DEF SettledSvc
<1> QED
  BY <1>2 DEF ServicesSettled

\* An event handled leaves the table right, or a queue to set it right.
LEMMA ServicesDelivered ==
    ASSUME Typed, ServicesSettled, NEW k \in {"services", "slices"}, Deliver(k),
           \A x \in IPs : Turns(Head(queue[k]), ipSvc[x], ipSvc'[x], x)
    PROVE  ServicesSettled'
<1>0. /\ TypeOK /\ k \in Kinds /\ Other(k) \in Kinds /\ Other(k) # k
      /\ Other(k) \in {"services", "slices"}
      /\ \A j \in {"services", "slices"} : j # k => Other(j) = k /\ j = Other(k)
  BY SvcKinds DEF Typed, Kinds, Other
<1>1. /\ queue[k] # <<>> /\ queue' = [queue EXCEPT ![k] = Tail(@)]
      /\ UNCHANGED <<watch, cluster, doubt>>
  BY DEF Deliver
<1>2. PICK q, other : q = queue[k] /\ other = queue[Other(k)]
  OBVIOUS
<1>3. /\ q \in Seq(Event) /\ q # <<>> /\ Head(q) \in Event /\ other \in Seq(Event)
      /\ queue'[k] = Tail(q) /\ queue'[Other(k)] = other
  BY <1>0, <1>1, <1>2, Shorter DEF TypeOK
<1>4. ASSUME NEW ip \in IPs, SettledSvc(ip) PROVE SettledSvc(ip)'
  <2>1. PICK t, u : t = ipSvc[ip] /\ u = ipSvc'[ip]
    OBVIOUS
  <2>2. Turns(Head(q), t, u, ip)
    BY <1>2, <2>1
  <2>3. Bearers(ip)' = Bearers(ip)
    BY <1>1 DEF Bearers, cluster
  <2>4. ASSUME Bearers(ip) = {}
        PROVE  \/ u = Absent /\ Silent(Tail(q), ip) /\ Silent(other, ip)
               \/ WillGo(Tail(q), u, ip) /\ Silent(other, ip)
               \/ WillGo(other, u, ip) /\ Silent(Tail(q), ip)
    <3>1. CASE t = Absent /\ Silent(q, ip) /\ Silent(other, ip)
      BY <1>3, <2>2, <3>1, TailKeeps, OthersTurn
    <3>2. CASE WillGo(q, t, ip) /\ Silent(other, ip)
      BY <1>3, <2>2, <3>2, TailTakes
    <3>3. CASE WillGo(other, t, ip) /\ Silent(q, ip)
      BY <1>3, <2>2, <3>3, TailKeeps, OthersTurn
    <3> QED
      BY <1>0, <1>2, <1>4, <2>1, <2>4, <3>1, <3>2, <3>3 DEF SettledSvc
  <2>5. ASSUME NEW o \in Bearers(ip)
        PROVE  /\ Bearers(ip) = {o}
               /\ Silent(queue'[Other(Kind(o))], ip) /\ Keeps(queue'[Other(Kind(o))], Name[o])
               /\ watch[Kind(o)] = "open" => WillBe(queue'[Kind(o)], u, Name[o], ip)
    <3>1. PICK n : n = Name[o]
      OBVIOUS
    <3>2. /\ Kind(o) \in {"services", "slices"} /\ n \in Names
      BY <3>1, SvcKinds, NamedPods DEF Bearers
    <3>3. /\ Bearers(ip) = {o}
          /\ Silent(queue[Other(Kind(o))], ip) /\ Keeps(queue[Other(Kind(o))], n)
          /\ watch[Kind(o)] = "open" => WillBe(queue[Kind(o)], t, n, ip)
      BY <1>4, <2>1, <3>1 DEF SettledSvc
    <3>4. CASE Kind(o) = k
      BY <1>2, <1>3, <2>2, <3>1, <3>2, <3>3, <3>4, TailSays
    <3>5. CASE Kind(o) # k
      <4>1. Other(Kind(o)) = k /\ Kind(o) = Other(k)
        BY <1>0, <3>2, <3>5
      <4>2. Silent(q, ip) /\ Keeps(q, n) /\ (watch[Kind(o)] = "open" => WillBe(other, t, n, ip))
        BY <1>2, <3>3, <4>1
      <4>3. Silent(Tail(q), ip) /\ Keeps(Tail(q), n) /\ ~Speaks(Head(q), ip)
            /\ ~Erases(Head(q), n)
        BY <1>3, <4>2, TailKeeps
      <4>4. watch[Kind(o)] = "open" => WillBe(other, u, n, ip)
        BY <1>3, <2>2, <4>2, <4>3, OthersTurn
      <4> QED
        BY <1>3, <3>1, <3>3, <4>1, <4>3, <4>4
    <3> QED
      BY <3>4, <3>5
  <2>6. Bearers(ip) = {} =>
          \/ u = Absent /\ \A j \in {"services", "slices"} : Silent(queue'[j], ip)
          \/ \E j \in {"services", "slices"} : WillGo(queue'[j], u, ip)
                                               /\ Silent(queue'[Other(j)], ip)
    <3>1. Other(Other(k)) = k
      BY <1>0
    <3>2. \A j \in {"services", "slices"} : j = k \/ j = Other(k)
      BY <1>0
    <3> QED
      BY <1>0, <1>3, <2>4, <3>1, <3>2
  <2> QED
    BY <1>1, <2>1, <2>3, <2>5, <2>6 DEF SettledSvc
<1> QED
  BY <1>1, <1>4 DEF ServicesSettled

\* An event that does not speak of ip and erases no name that ip bears.
LEMMA SilentEvent ==
    ASSUME Typed, NEW k \in {"services", "slices"}, NEW e \in Event,
           NEW ip \in IPs, SettledSvc(ip), ~Speaks(e, ip),
           \A x \in Bearers(ip) : ~Erases(e, Name[x]),
           Bearers(ip)' = Bearers(ip), queue' = [queue EXCEPT ![k] = Append(@, e)],
           UNCHANGED <<watch, ipSvc>>
    PROVE  SettledSvc(ip)'
<1>0. /\ TypeOK /\ k \in Kinds
      /\ \A j \in {"services", "slices"} : j \in Kinds /\ Other(j) \in {"services", "slices"}
  BY DEF Typed, Kinds, Other
<1>1. ASSUME NEW j \in {"services", "slices"}
      PROVE  /\ Silent(queue[j], ip) => Silent(queue'[j], ip)
             /\ \A n : Keeps(queue[j], n) /\ ~Erases(e, n) => Keeps(queue'[j], n)
             /\ \A n : WillBe(queue[j], ipSvc[ip], n, ip) /\ ~Erases(e, n)
                          => WillBe(queue'[j], ipSvc[ip], n, ip)
             /\ WillGo(queue[j], ipSvc[ip], ip) => WillGo(queue'[j], ipSvc[ip], ip)
  <2>1. queue[j] \in Seq(Event)
    BY <1>0 DEF TypeOK
  <2>2. CASE j = k
    <3>1. queue'[j] = Append(queue[j], e)
      BY <1>0, <2>2 DEF TypeOK
    <3> QED
      BY <2>1, <3>1, AppendKeeps
  <2>3. CASE j # k
    <3>1. queue'[j] = queue[j]
      BY <1>0, <2>3 DEF TypeOK
    <3> QED
      BY <3>1
  <2> QED
    BY <2>2, <2>3
<1>2. ASSUME NEW o \in Bearers(ip)
      PROVE  /\ Bearers(ip) = {o}
             /\ Silent(queue'[Other(Kind(o))], ip) /\ Keeps(queue'[Other(Kind(o))], Name[o])
             /\ watch[Kind(o)] = "open" =>
                   WillBe(queue'[Kind(o)], ipSvc[ip], Name[o], ip)
  <2>1. Kind(o) \in {"services", "slices"} /\ Other(Kind(o)) \in {"services", "slices"}
    BY SvcKinds
  <2> QED
    BY <1>1, <2>1 DEF SettledSvc
<1>3. Bearers(ip) = {} =>
        \/ ipSvc[ip] = Absent /\ \A j \in {"services", "slices"} : Silent(queue'[j], ip)
        \/ \E j \in {"services", "slices"} : WillGo(queue'[j], ipSvc[ip], ip)
                                             /\ Silent(queue'[Other(j)], ip)
  BY <1>0, <1>1 DEF SettledSvc
<1> QED
  BY <1>2, <1>3 DEF SettledSvc

\* A Service or slice comes, changes its addresses or goes.
LEMMA ServicesChange ==
    ASSUME Typed, NEW o \in Objects \ Pods,
           NEW type \in {"ADDED", "MODIFIED", "DELETED"},
           NEW new \in SUBSET IPs, type = "DELETED" => new = {},
           Change(o, type, new),
           NEW ip \in IPs \ doubt'["svc"],
           ip \notin doubt["svc"] => SettledSvc(ip)
    PROVE  SettledSvc(ip)'
<1>k. PICK k : k = Kind(o)
  OBVIOUS
<1>e. PICK e : e = [type |-> type, obj |-> o, ips |-> IF type = "DELETED" THEN ips[o] ELSE new]
  OBVIOUS
<1>n. PICK n : n = Name[o]
  OBVIOUS
<1>g. PICK gained, lost : /\ gained = IF n = NoLabel THEN {} ELSE new \ ips[o]
                          /\ lost = IF n = NoLabel THEN {} ELSE ips[o] \ new
  OBVIOUS
<1>0. /\ TypeOK /\ EventsOfKind /\ k \in {"services", "slices"} /\ k \in Kinds /\ Table(k) = "svc"
      /\ Other(k) \in {"services", "slices"} /\ Other(k) # k /\ Other(k) \in Kinds
      /\ Table(Other(k)) = "svc" /\ ips[o] \subseteq IPs
      /\ (o \in Services => k = "services" /\ Other(k) = "slices")
      /\ (o \in Slices => k = "slices" /\ Other(k) = "services")
      /\ o \in Services \/ o \in Slices
  <2>1. /\ k \in {"services", "slices"} /\ Table(k) = "svc"
        /\ Other(k) \in {"services", "slices"} /\ Other(k) # k
        /\ Table(Other(k)) = "svc" /\ k \in Kinds /\ Other(k) \in Kinds
    BY <1>k, SvcKinds
  <2>2. (k = "services" <=> o \in Services) /\ (k = "slices" <=> o \in Slices)
    BY <1>k, KindOf
  <2>3. TypeOK /\ EventsOfKind /\ ips[o] \subseteq IPs
    BY DEF Typed, TypeOK
  <2>4. (o \in Services => Other(k) = "slices") /\ (o \in Slices => Other(k) = "services")
    BY <2>1, <2>2 DEF Other
  <2> QED
    BY <2>1, <2>2, <2>3, <2>4
<1>1. /\ queue' = IF watch[k] = "open" THEN [queue EXCEPT ![k] = Append(@, e)] ELSE queue
      /\ alive' = IF type = "DELETED" THEN alive \ {o} ELSE alive \cup {o}
      /\ ips' = [ips EXCEPT ![o] = new]
      /\ doubt' = [doubt EXCEPT !["svc"] =
                      GainDoubt(o, gained, @) \cup LossDoubt(o, lost, type = "DELETED")
                      \cup (IF type = "DELETED" THEN NamesakeDoubt(o) ELSE {})]
      /\ watch' = watch /\ ipSvc' = ipSvc
  BY <1>0, <1>k, <1>e, <1>n, <1>g DEF Change, program
<1>2. /\ ip \notin GainDoubt(o, gained, doubt["svc"])
      /\ ip \notin LossDoubt(o, lost, type = "DELETED")
      /\ type = "DELETED" => ip \notin NamesakeDoubt(o)
  BY <1>0, <1>1 DEF TypeOK
<1>3. /\ ip \in gained => ~Contested(o, ip)
      /\ ip \notin gained \/ watch[k] # "open" => ip \notin doubt["svc"]
      /\ watch[k] = "open" /\ type # "DELETED" => ip \notin lost
      /\ watch[k] # "open" /\ ip \in lost => ipSvc[ip] = Absent
  <2>1. watch[k] # "open" => LossDoubt(o, lost, type = "DELETED") = lost \cap Known("svc")
    BY <1>0, <1>k DEF LossDoubt
  <2>2. watch[k] = "open" /\ type # "DELETED" => LossDoubt(o, lost, type = "DELETED") = lost
    BY <1>k DEF LossDoubt
  <2> QED
    BY <1>2, <1>k, <2>1, <2>2 DEF GainDoubt, Known
<1>4. ASSUME watch[k] = "open", NEW x \in Bearers(ip), x # o, Erases(e, Name[x])
      PROVE  FALSE
  <2>1. type = "DELETED" /\ o \in Services /\ Name[x] = Name[o]
    BY <1>4, <1>e DEF Erases
  <2>2. x \in {y \in alive \ (Pods \cup {o}) : Name[y] = Name[o]} /\ ip \in ips[x]
    BY <1>4, <2>1 DEF Bearers
  <2>3. ip \in NamesakeDoubt(o)
    BY <1>0, <1>4, <2>1, <2>2 DEF NamesakeDoubt
  <2> QED
    BY <1>2, <2>1, <2>3
<1>5. /\ \A x : x # o => (x \in Bearers(ip)' <=> x \in Bearers(ip))
      /\ o \in Bearers(ip)' <=> n # NoLabel /\ ip \in new
      /\ o \in Bearers(ip) <=> n # NoLabel /\ ip \in ips[o]
  <2>1. ip \in ips[o] => o \in alive
    BY DEF Typed, GoneHaveNone
  <2>2. ips'[o] = new /\ \A x \in alive : x # o => ips'[x] = ips[x]
    BY <1>0, <1>1 DEF TypeOK
  <2> QED
    BY <1>1, <1>n, <2>1, <2>2 DEF Bearers
<1>6. e \in Event /\ (Speaks(e, ip) <=> n # NoLabel /\ ip \in e.ips) /\ e.type = type /\ e.obj = o
  BY <1>0, <1>e, <1>n DEF Event, Speaks
<1>7. /\ queue[k] \in Seq(Event)
      /\ watch[k] = "open" => queue'[k] = Append(queue[k], e)
      /\ watch[k] # "open" => queue'[k] = <<>>
      /\ queue'[Other(k)] = queue[Other(k)]
  BY <1>0, <1>1 DEF TypeOK
<1>8. CASE ip \in gained
  <2>1. Bearers(ip) \ {o} = {}
    BY <1>3, <1>8, <1>0, <1>k, SvcKinds DEF Contested, Claimants
  <2>2. Silent(queue[Other(k)], ip)
    BY <1>3, <1>8, <1>0, <1>k DEF Contested, Silent, Speaks, ToSet
  <2>3. Keeps(queue[Other(k)], n)
    <3>1. CASE o \in Slices
      BY <1>0, <1>3, <1>8, <1>n, <3>1 DEF Contested, GoneServicePending, Keeps, Erases, ToSet
    <3>2. CASE o \in Services
      BY <1>0, <3>2, KindsDisjoint DEF Keeps, Erases, EventsOfKind
    <3> QED
      BY <1>0, <3>1, <3>2
  <2>4. n # NoLabel /\ ip \in new /\ type # "DELETED"
    BY <1>8, <1>g
  <2>5. Bearers(ip)' = {o}
    BY <1>5, <2>1, <2>4
  <2>6. Speaks(e, ip) /\ Says(e) = n
    BY <1>6, <1>e, <1>n, <2>4 DEF Says
  <2>7. watch[k] = "open" => WillBe(queue'[k], ipSvc[ip], n, ip)
    BY <1>6, <1>7, <2>6, AppendSays
  <2> QED
    BY <1>1, <1>7, <1>k, <1>n, <2>2, <2>3, <2>5, <2>7 DEF SettledSvc
<1>9. CASE ip \notin gained /\ n # NoLabel /\ ip \in ips[o]
  <2>1. /\ SettledSvc(ip) /\ Bearers(ip) = {o}
        /\ Silent(queue[Other(k)], ip) /\ Keeps(queue[Other(k)], n)
        /\ watch[k] = "open" => WillBe(queue[k], ipSvc[ip], n, ip)
    BY <1>3, <1>5, <1>9, <1>k, <1>n DEF SettledSvc
  <2>2. CASE ip \in new
    <3>1. Bearers(ip)' = {o}
      BY <1>5, <1>9, <2>1, <2>2
    <3>2. type # "DELETED" /\ Speaks(e, ip) /\ Says(e) = n
      BY <1>6, <1>9, <1>e, <1>n, <2>2 DEF Says
    <3>3. watch[k] = "open" => WillBe(queue'[k], ipSvc[ip], n, ip)
      BY <1>6, <1>7, <3>2, AppendSays
    <3> QED
      BY <1>1, <1>7, <1>k, <1>n, <2>1, <3>1, <3>3 DEF SettledSvc
  <2>3. CASE ip \notin new
    <3>1. Bearers(ip)' = {} /\ ip \in lost
      BY <1>5, <1>9, <1>g, <2>1, <2>3
    <3>2. CASE watch[k] = "open"
      <4>1. type = "DELETED" /\ Speaks(e, ip)
        BY <1>3, <1>6, <1>9, <1>e, <3>1, <3>2
      <4>2. WillGo(queue'[k], ipSvc[ip], ip)
        <5>1. PICK q : q = queue[k]
          OBVIOUS
        <5>2. Name[e.obj] = n
          BY <1>6, <1>n
        <5>3. WillBe(q, ipSvc[ip], Name[e.obj], ip)
          BY <2>1, <3>2, <5>1, <5>2
        <5>4. WillGo(Append(q, e), ipSvc[ip], ip)
          BY <1>6, <1>7, <4>1, <5>1, <5>3, AppendTakes
        <5> QED
          BY <1>7, <3>2, <5>1, <5>4
      <4> QED
        BY <1>0, <1>1, <1>7, <2>1, <3>1, <4>2 DEF SettledSvc
    <3>3. CASE watch[k] # "open"
      <4>1. ipSvc'[ip] = Absent /\ Silent(queue'[k], ip) /\ Silent(queue'[Other(k)], ip)
        BY <1>1, <1>3, <1>7, <2>1, <3>1, <3>3 DEF Silent
      <4>2. \A j \in {"services", "slices"} : j = k \/ j = Other(k)
        BY <1>0
      <4> QED
        BY <3>1, <4>1, <4>2 DEF SettledSvc
    <3> QED
      BY <3>2, <3>3
  <2> QED
    BY <2>2, <2>3
<1>10. CASE n = NoLabel \/ (ip \notin gained /\ ip \notin ips[o])
  <2>1. SettledSvc(ip) /\ Bearers(ip)' = Bearers(ip) /\ o \notin Bearers(ip)
    BY <1>3, <1>5, <1>10, <1>g
  <2>2. ~Speaks(e, ip)
    BY <1>6, <1>10, <1>e, <1>g
  <2>3. CASE watch[k] = "open"
    <3>1. \A x \in Bearers(ip) : ~Erases(e, Name[x])
      BY <1>4, <2>1, <2>3
    <3> QED
      BY <1>0, <1>1, <1>6, <2>1, <2>2, <2>3, <3>1, SilentEvent
  <2>4. CASE watch[k] # "open"
    BY <1>1, <2>1, <2>4 DEF SettledSvc
  <2> QED
    BY <2>3, <2>4
<1> QED
  BY <1>8, <1>9, <1>10

\* A list changes only what some object claims, before any watch is open.
LEMMA ServicesListed ==
    ASSUME Typed, ServicesSettled, NEW k \in Kinds, List(k) \/ ListFails(k)
    PROVE  ServicesSettled'
<1>0. TypeOK /\ \A j \in {"services", "slices"} : j \in Kinds /\ Other(j) \in {"services", "slices"}
  BY DEF Typed, Kinds, Other
<1>1. /\ UNCHANGED <<cluster, doubt, queue>> /\ \A j \in Kinds : watch[j] = "off"
      /\ \A j \in Kinds : watch'[j] \in {"off", "starting"}
  BY DEF List, ListFails, ListDone, Typed, ListsFirst
<1>2. ASSUME NEW ip \in IPs, SettledSvc(ip) PROVE SettledSvc(ip)'
  <2>1. Bearers(ip)' = Bearers(ip)
    BY <1>1 DEF Bearers, cluster
  <2>2. \A j \in {"services", "slices"} : queue[j] = <<>> /\ Silent(queue[j], ip) /\ queue' = queue
    BY <1>0, <1>1 DEF TypeOK, Silent
  <2>3. Bearers(ip) = {} => ipSvc'[ip] = Absent
    <3>1. Bearers(ip) = {} => ipSvc[ip] = Absent
      BY <1>2, <2>2 DEF SettledSvc, WillGo
    <3>2. CASE ipSvc' = ipSvc
      BY <3>1, <3>2
    <3>3. CASE k # "pods" /\ ipSvc' \in Listed(ipSvc, k)
      <4>1. {o \in Claimants(k, ip) : Kind(o) = k} \subseteq Bearers(ip)
        <5>1. \A o \in alive : o \in Objects /\ (Kind(o) = "pods" <=> o \in Pods)
          BY <1>0, KindOf DEF TypeOK
        <5> QED
          BY <3>3, <5>1 DEF Claimants, Bearers
      <4>2. Bearers(ip) = {} => ipSvc'[ip] = ipSvc[ip]
        BY <3>3, <4>1 DEF Listed
      <4> QED
        BY <3>1, <4>2
    <3> QED
      BY <3>2, <3>3 DEF List, ListFails
  <2>4. \A o \in Bearers(ip) : Kind(o) \in Kinds /\ watch'[Kind(o)] # "open"
    BY <1>0, <1>1, SvcKinds
  <2> QED
    BY <1>2, <2>1, <2>2, <2>3, <2>4 DEF SettledSvc
<1> QED
  BY <1>0, <1>1, <1>2 DEF ServicesSettled

\* A watch that begins reports every object of its kind once.
LEMMA ServicesOpened ==
    ASSUME Typed, ServicesSettled, NEW k \in {"services", "slices"}, WatchOpens(k)
    PROVE  ServicesSettled'
<1>0. /\ TypeOK /\ k \in Kinds /\ Table(k) = "svc" /\ Other(k) # k /\ Other(k) \in Kinds
      /\ Other(k) \in {"services", "slices"}
      /\ \A j \in {"services", "slices"} : j = k \/ (j = Other(k) /\ Other(j) = k)
  BY SvcKinds DEF Typed
<1>1. PICK all \in SetToSeqs(Existing(k)) : queue' = [queue EXCEPT ![k] = all]
  BY DEF WatchOpens, Existing
<1>2. /\ queue'[k] = all /\ queue'[Other(k)] = queue[Other(k)]
      /\ \A i \in DOMAIN all : all[i] \in Existing(k)
      /\ \A x \in Existing(k) : \E i \in DOMAIN all : all[i] = x
      /\ \A i, j \in DOMAIN all : all[i] = all[j] => i = j
      /\ DOMAIN all = 1 .. Len(all) /\ Len(all) \in Nat
  BY <1>0, <1>1, SeqOfExisting DEF TypeOK
<1>3. /\ watch[k] = "starting" /\ watch' = [watch EXCEPT ![k] = "open"]
      /\ watch'[k] = "open" /\ watch'[Other(k)] = watch[Other(k)]
      /\ queue[k] = <<>> /\ UNCHANGED <<ipSvc, cluster>>
  BY <1>0 DEF WatchOpens, TypeOK, program
<1>4. PICK s : s = {ip \in IPs : \E o \in {x \in alive : Kind(x) = k} :
                                    o \in Claimants(k, ip) /\ ~Contested(o, ip)}
  OBVIOUS
<1>5. doubt'["svc"] = doubt["svc"] \ s
  BY <1>0, <1>4 DEF WatchOpens, TypeOK
<1>6. \A i \in DOMAIN all : all[i].type = "ADDED" /\ all[i].obj \in alive
                             /\ all[i].ips = ips[all[i].obj] /\ Kind(all[i].obj) = k
  BY <1>2 DEF Existing
<1>7. \A n : Keeps(all, n)
  BY <1>6 DEF Keeps, Erases
<1>8. ASSUME NEW ip \in IPs \ doubt'["svc"],
             watch["services"] # "ended", watch["slices"] # "ended"
      PROVE  SettledSvc(ip)'
  <2>1. Bearers(ip)' = Bearers(ip)
    BY <1>3 DEF Bearers, cluster
  <2>2. ASSUME NEW i \in DOMAIN all, Speaks(all[i], ip) PROVE all[i].obj \in Bearers(ip)
    <3>1. all[i].obj \notin Pods
      BY <1>0, <1>6, KindOf DEF TypeOK
    <3> QED
      BY <1>6, <2>2, <3>1 DEF Speaks, Bearers
  <2>3. ip \notin doubt["svc"] \/ ip \in s
    BY <1>5
  <2>4. CASE Bearers(ip) = {}
    <3>1. Silent(all, ip)
      BY <2>2, <2>4 DEF Silent
    <3>2. ip \notin s
      <4>1. \A o \in {x \in alive : Kind(x) = k} : o \in Claimants(k, ip) => o \in Bearers(ip)
        <5>1. \A o \in alive : o \in Objects /\ (Kind(o) = "pods" <=> o \in Pods)
          BY <1>0, KindOf DEF TypeOK
        <5> QED
          BY <1>0, <5>1 DEF Claimants, Bearers
      <4> QED
        BY <1>4, <2>4, <4>1
    <3>3. SettledSvc(ip)
      BY <1>8, <2>3, <3>2 DEF ServicesSettled
    <3>4. ~WillGo(queue[k], ipSvc[ip], ip)
      BY <1>3 DEF WillGo
    <3>5. \/ ipSvc[ip] = Absent /\ Silent(queue[Other(k)], ip)
          \/ WillGo(queue[Other(k)], ipSvc[ip], ip)
      BY <1>0, <2>4, <3>3, <3>4 DEF SettledSvc
    <3> QED
      BY <1>0, <1>2, <1>3, <2>1, <2>4, <3>1, <3>5 DEF SettledSvc
  <2>5. ASSUME NEW o \in Bearers(ip)
        PROVE  /\ Bearers(ip) = {o}
               /\ Silent(queue'[Other(Kind(o))], ip) /\ Keeps(queue'[Other(Kind(o))], Name[o])
               /\ watch'[Kind(o)] = "open" =>
                     WillBe(queue'[Kind(o)], ipSvc[ip], Name[o], ip)
    <3>1. /\ o \in Objects \ Pods /\ Kind(o) \in {"services", "slices"}
          /\ o \in alive /\ ip \in ips[o] /\ Name[o] # NoLabel
      BY SvcKinds DEF Bearers
    <3>2. CASE Kind(o) = k
      <4>1. /\ Bearers(ip) = {o}
            /\ Silent(queue[Other(k)], ip) /\ Keeps(queue[Other(k)], Name[o])
        <5>1. CASE ip \notin doubt["svc"]
          BY <1>8, <3>2, <5>1 DEF ServicesSettled, SettledSvc
        <5>2. CASE ip \in s
          <6>1. PICK x \in alive : Kind(x) = k /\ x \in Claimants(k, ip) /\ ~Contested(x, ip)
            BY <1>4, <5>2
          <6>2. Claimants(k, ip) = Bearers(ip) /\ Kind(x) = k
            BY <1>0, <6>1, SvcKinds DEF Claimants, Table
          <6>3. x = o /\ Bearers(ip) = {o}
            BY <6>1, <6>2 DEF Contested
          <6>4. Silent(queue[Other(k)], ip)
            BY <1>0, <3>2, <6>1, <6>3, SvcKinds DEF Contested, Silent, Speaks, ToSet
          <6>5. Keeps(queue[Other(k)], Name[o])
            <7>1. CASE o \in Slices
              <8>1. Other(k) = "services"
                BY <3>2, <7>1, KindOf, KindsDisjoint DEF Objects, Other
              <8> QED
                BY <6>1, <6>3, <7>1, <8>1 DEF Contested, GoneServicePending, Keeps, Erases, ToSet
            <7>2. CASE o \in Services
              <8>1. Other(k) = "slices"
                BY <3>2, <7>2, KindOf DEF Objects, Other
              <8> QED
                BY <8>1, KindsDisjoint DEF Keeps, Erases, EventsOfKind, Typed
            <7> QED
              BY <3>1, <7>1, <7>2 DEF Objects
          <6> QED
            BY <6>3, <6>4, <6>5
        <5> QED
          BY <2>3, <5>1, <5>2
      <4>2. PICK i \in DOMAIN all : all[i] = [type |-> "ADDED", obj |-> o, ips |-> ips[o]]
        <5>1. [type |-> "ADDED", obj |-> o, ips |-> ips[o]] \in Existing(k)
          BY <3>1, <3>2 DEF Existing
        <5> QED
          BY <1>2, <5>1
      <4>3. Speaks(all[i], ip) /\ Says(all[i]) = Name[o]
        BY <3>1, <4>2 DEF Speaks, Says
      <4>4. ASSUME NEW j \in DOMAIN all, Speaks(all[j], ip) PROVE j = i
        <5>1. all[j].obj = o
          BY <2>2, <4>1, <4>4
        <5>2. all[j] = all[i]
          BY <1>2, <4>2, <5>1 DEF Existing
        <5> QED
          BY <1>2, <5>2
      <4>5. WillBe(all, ipSvc[ip], Name[o], ip)
        <5>1. \A j \in DOMAIN all : j > i => j # i
          BY <1>2
        <5> QED
          BY <1>7, <4>3, <4>4, <5>1 DEF WillBe, Keeps
      <4> QED
        BY <1>2, <3>2, <4>1, <4>5
    <3>3. CASE Kind(o) # k
      <4>1. Kind(o) = Other(k) /\ Other(Kind(o)) = k
        BY <1>0, <3>1, <3>3
      <4>2. ip \notin s
        <5>1. ASSUME NEW x \in alive, Kind(x) = k, x \in Claimants(k, ip), ~Contested(x, ip)
              PROVE  FALSE
          <6>1. Claimants(k, ip) = Bearers(ip)
            BY <1>0, SvcKinds DEF Claimants, Table
          <6>2. o \in Claimants(Kind(x), ip) \ {x}
            BY <3>3, <5>1, <6>1
          <6> QED
            BY <5>1, <6>2 DEF Contested
        <5> QED
          BY <1>4, <5>1
      <4>3. SettledSvc(ip)
        BY <1>8, <2>3, <4>2 DEF ServicesSettled
      <4>4. Silent(all, ip)
        <5>1. ASSUME NEW i \in DOMAIN all, Speaks(all[i], ip) PROVE FALSE
          <6>1. all[i].obj = o
            BY <2>2, <4>3, <5>1 DEF SettledSvc
          <6> QED
            BY <1>6, <3>3, <5>1, <6>1
        <5> QED
          BY <5>1 DEF Silent
      <4> QED
        BY <1>2, <1>3, <1>7, <4>1, <4>3, <4>4 DEF SettledSvc
    <3> QED
      BY <3>2, <3>3
  <2> QED
    BY <1>3, <2>1, <2>4, <2>5 DEF SettledSvc
<1>9. watch["services"] = "ended" \/ watch["slices"] = "ended"
         => watch'["services"] = "ended" \/ watch'["slices"] = "ended"
  BY <1>0, <1>3
<1> QED
  BY <1>8, <1>9 DEF ServicesSettled

\* A channel that closes puts in doubt what its undelivered deletions leave.
LEMMA ServicesClosed ==
    ASSUME Typed, ServicesSettled, NEW k \in {"services", "slices"}, ChannelClosed(k)
    PROVE  ServicesSettled'
<1>0. /\ TypeOK /\ k \in Kinds /\ Table(k) = "svc" /\ Other(k) # k /\ Other(k) \in Kinds
      /\ Other(k) \in {"services", "slices"}
      /\ \A j \in {"services", "slices"} : j = k \/ (j = Other(k) /\ Other(j) = k)
  BY SvcKinds DEF Typed
<1>1. /\ watch[k] = "open" /\ watch'[k] = "starting"
      /\ watch'[Other(k)] = watch[Other(k)]
      /\ queue'[k] = <<>> /\ queue'[Other(k)] = queue[Other(k)]
      /\ UNCHANGED <<ipSvc, cluster>>
  BY <1>0 DEF ChannelClosed, TypeOK, program
<1>2. PICK u : /\ u = UNION {e.ips : e \in {x \in ToSet(queue[k]) : x.type = "DELETED"}}
               /\ doubt' = [doubt EXCEPT ![Table(k)] = @ \cup (u \cap Known(Table(k)))]
  BY DEF ChannelClosed
<1>3. ASSUME NEW ip \in IPs \ doubt'["svc"], SettledSvc(ip) PROVE SettledSvc(ip)'
  <2>1. Bearers(ip)' = Bearers(ip)
    BY <1>1 DEF Bearers, cluster
  <2>2. ip \in u => ipSvc[ip] = Absent
    BY <1>0, <1>2, <1>3 DEF TypeOK, Known
  <2>3. Silent(<<>>, ip) /\ \A n : Keeps(<<>>, n)
    BY DEF Silent, Keeps
  <2>4. CASE Bearers(ip) = {}
    <3>1. CASE WillGo(queue[k], ipSvc[ip], ip) /\ Silent(queue[Other(k)], ip)
      <4>1. PICK i \in DOMAIN queue[k] : Speaks(queue[k][i], ip) /\ queue[k][i].type = "DELETED"
        BY <3>1 DEF WillGo
      <4>2. queue[k][i] \in ToSet(queue[k])
        BY DEF ToSet
      <4>3. ip \in u
        BY <1>2, <4>1, <4>2 DEF Speaks
      <4> QED
        BY <1>0, <1>1, <2>1, <2>2, <2>3, <2>4, <3>1, <4>3 DEF SettledSvc
    <3>2. CASE WillGo(queue[Other(k)], ipSvc[ip], ip)
      BY <1>0, <1>1, <2>1, <2>3, <2>4, <3>2 DEF SettledSvc
    <3>3. CASE ipSvc[ip] = Absent /\ \A j \in {"services", "slices"} : Silent(queue[j], ip)
      BY <1>0, <1>1, <2>1, <2>3, <2>4, <3>3 DEF SettledSvc
    <3> QED
      BY <1>0, <1>3, <2>4, <3>1, <3>2, <3>3 DEF SettledSvc
  <2>5. ASSUME NEW o \in Bearers(ip)
        PROVE  /\ Bearers(ip) = {o}
               /\ Silent(queue'[Other(Kind(o))], ip) /\ Keeps(queue'[Other(Kind(o))], Name[o])
               /\ watch'[Kind(o)] = "open" =>
                     WillBe(queue'[Kind(o)], ipSvc[ip], Name[o], ip)
    <3>1. Kind(o) \in {"services", "slices"}
      BY SvcKinds
    <3>2. CASE Kind(o) = k
      BY <1>1, <1>3, <3>2 DEF SettledSvc
    <3>3. CASE Kind(o) # k
      <4>1. Kind(o) = Other(k) /\ Other(Kind(o)) = k
        BY <1>0, <3>1, <3>3
      <4> QED
        BY <1>1, <1>3, <2>3, <4>1 DEF SettledSvc
    <3> QED
      BY <3>2, <3>3
  <2> QED
    BY <1>1, <2>1, <2>4, <2>5 DEF SettledSvc
<1>4. \A ip \in IPs \ doubt'["svc"] : ip \notin doubt["svc"]
  BY <1>0, <1>2 DEF TypeOK
<1>5. watch["services"] = "ended" \/ watch["slices"] = "ended"
         => watch'["services"] = "ended" \/ watch'["slices"] = "ended"
  BY <1>0, <1>1
<1> QED
  BY <1>3, <1>4, <1>5 DEF ServicesSettled

LEMMA NextServices == Typed /\ ServicesSettled /\ [Next]_vars => ServicesSettled'
<1> SUFFICES ASSUME Typed, ServicesSettled, [Next]_vars PROVE ServicesSettled'
  OBVIOUS
<1>0. /\ TypeOK /\ Table("pods") = "pod" /\ "pods" \in Kinds
      /\ \A k \in {"services", "slices"} : k \in Kinds /\ k # "pods"
      /\ \A k \in Kinds : k = "pods" \/ k \in {"services", "slices"}
  BY DEF Typed, Kinds, Table
<1>1. ASSUME NEW o \in Objects, Create(o) \/ Modify(o) \/ Delete(o) PROVE ServicesSettled'
  <2>1. PICK type \in {"ADDED", "MODIFIED", "DELETED"}, new \in SUBSET IPs :
           Change(o, type, new) /\ (type = "DELETED" => new = {})
    BY <1>1 DEF Create, Modify, Delete
  <2>2. CASE o \in Pods
    <3>1. Kind(o) = "pods" /\ Table(Kind(o)) = "pod"
      BY <2>2, KindOf
    <3>2. /\ UNCHANGED <<watch, ipSvc>> /\ doubt'["svc"] = doubt["svc"]
          /\ \A k \in {"services", "slices"} : queue'[k] = queue[k]
      BY <1>0, <2>1, <3>1 DEF Change, TypeOK, program
    <3>3. alive' \ Pods = alive \ Pods /\ \A x \in Objects \ Pods : ips'[x] = ips[x]
      BY <1>0, <2>1, <2>2 DEF Change, TypeOK
    <3> QED
      BY <3>2, <3>3, ServicesUndisturbed
  <2>3. CASE o \notin Pods
    <3>1. watch' = watch
      BY <2>1 DEF Change
    <3> QED
      BY <2>1, <2>3, <3>1, ServicesChange DEF ServicesSettled
  <2> QED
    BY <2>2, <2>3
<1>2. ASSUME NEW k \in Kinds, List(k) \/ ListFails(k) PROVE ServicesSettled'
  BY <1>2, ServicesListed
<1>3. ASSUME NEW k \in {"services", "slices"}, WatchOpens(k) \/ ChannelClosed(k)
      PROVE  ServicesSettled'
  BY <1>3, ServicesOpened, ServicesClosed
<1>4. ASSUME NEW k \in {"services", "slices"}, WatchFails(k) \/ Stop(k)
      PROVE  ServicesSettled'
  <2>1. watch'[k] = "ended"
    BY <1>0, <1>4 DEF WatchFails, Stop, TypeOK
  <2> QED
    BY <2>1 DEF ServicesSettled
<1>5. CASE WatchOpens("pods") \/ ChannelClosed("pods") \/ WatchFails("pods") \/ Stop("pods")
  <2>1. UNCHANGED <<ipSvc, cluster>>
    BY <1>5 DEF WatchOpens, ChannelClosed, WatchFails, Stop, program
  <2>2. /\ doubt'["svc"] = doubt["svc"]
        /\ \A k \in {"services", "slices"} : queue'[k] = queue[k] /\ watch'[k] = watch[k]
    <3>1. CASE WatchOpens("pods")
      BY <1>0, <3>1 DEF WatchOpens, TypeOK
    <3>2. CASE ChannelClosed("pods")
      BY <1>0, <3>2 DEF ChannelClosed, TypeOK
    <3>3. CASE WatchFails("pods") \/ Stop("pods")
      BY <1>0, <3>3 DEF WatchFails, Stop, TypeOK
    <3> QED
      BY <1>5, <3>1, <3>2, <3>3
  <2> QED
    BY <2>1, <2>2, ServicesUndisturbed DEF cluster
<1>6. CASE WatchPods
  <2>1. UNCHANGED <<ipSvc, cluster, doubt, watch>>
        /\ \A k \in {"services", "slices"} : queue'[k] = queue[k]
    BY <1>0, <1>6 DEF WatchPods, Deliver, TypeOK
  <2> QED
    BY <2>1, ServicesUndisturbed DEF cluster
<1>7. CASE WatchServices
  <2>1. Deliver("services")
    BY <1>7 DEF WatchServices
  <2> QED
    BY <1>7, <2>1, Handled, ServicesDelivered
<1>8. CASE WatchSlices
  <2>1. Deliver("slices")
    BY <1>8 DEF WatchSlices
  <2> QED
    BY <1>8, <2>1, Handled, ServicesDelivered
<1>9. CASE Close \/ UNCHANGED vars
  BY <1>9, ServicesUndisturbed DEF Close, vars, program, cluster
<1> QED
  BY <1>0, <1>1, <1>2, <1>3, <1>4, <1>5, <1>6, <1>7, <1>8, <1>9 DEF Next

\* Where nothing is in doubt, the table of Services is the cluster's once both
\* goroutines that fill it have handled their events, in whichever order they
\* took them.
THEOREM ServicesResolved == Spec => []ServiceNamesRight
<1>1. Spec => [](Typed /\ ServicesSettled)
  BY InitTyped, NextTyped, InitServices, NextServices, PTL DEF Spec
<1>2. Typed /\ ServicesSettled => ServiceNamesRight
  <2> SUFFICES ASSUME Typed, ServicesSettled, Quiet("services"), Quiet("slices"),
                      NEW ip \in IPs \ doubt["svc"]
               PROVE  ipSvc[ip] \in TrueName("slices", ip)
    BY DEF ServiceNamesRight
  <2>1. SettledSvc(ip)
    BY DEF ServicesSettled, Quiet
  <2>2. \A k \in {"services", "slices"} : queue[k] = <<>> /\ watch[k] = "open"
    BY DEF Quiet
  <2>3. CASE Bearers(ip) = {}
    <3>1. ipSvc[ip] = Absent
      BY <2>1, <2>2, <2>3 DEF SettledSvc, WillGo
    <3> QED
      BY <2>3, <3>1, SvcKinds DEF TrueName
  <2>4. ASSUME NEW o \in Bearers(ip) PROVE ipSvc[ip] = Name[o]
    <3>1. Kind(o) \in {"services", "slices"}
      BY SvcKinds
    <3>2. WillBe(<<>>, ipSvc[ip], Name[o], ip)
      BY <2>1, <2>2, <3>1 DEF SettledSvc
    <3> QED
      BY <3>2 DEF WillBe
  <2> QED
    BY <2>3, <2>4, SvcKinds DEF TrueName
<1> QED
  BY <1>1, <1>2, PTL
=============================================================================
