------------------------------ MODULE Resolver ------------------------------
(***************************************************************************)
(* The resolvers of internal/resolver: PodResolver (resolver.go) and       *)
(* ServiceResolver (svcresolver.go) turn an IP address into the name of a  *)
(* Pod or of a Service.  Both list the cluster once and then follow it     *)
(* through watches, one goroutine per kind of object; PodResolver is the   *)
(* part of ServiceResolver that concerns Pods.                             *)
(*                                                                         *)
(* The cluster is external: objects come, change their addresses and go.   *)
(* A watch is opened without a resource version, so it begins with an      *)
(* ADDED event for every existing object, in any order, and continues with *)
(* the changes since; what happened while none was open is never reported. *)
(*                                                                         *)
(* doubt is a history variable, no part of the program: the addresses of   *)
(* which a table may be wrong, each for a reason named below.              *)
(***************************************************************************)
EXTENDS Naturals, Sequences, FiniteSets, SequencesExt

CONSTANTS
    IPs,          \* addresses
    Pods,         \* the Pods that may exist
    Services,     \* the Services that may exist, of all namespaces
    Slices,       \* the EndpointSlices that may exist
    Name,         \* a Pod's or Service's name, a slice's service-name label
    NoLabel,      \* the label of a slice that has none
    Absent,       \* what a table holds for an address it does not know
    MaxChanges,   \* bound: changes of the cluster
    MaxClosings   \* bound: watch channels closed by the API server

Objects == Pods \cup Services \cup Slices
Names == {Name[o] : o \in Objects} \ {NoLabel}
Kinds == {"pods", "services", "slices"}

ASSUME KindsDisjoint ==
    /\ Pods \cap Services = {} /\ Pods \cap Slices = {}
    /\ Services \cap Slices = {}
ASSUME NamesGiven ==
    /\ DOMAIN Name = Objects
    /\ \A o \in Pods \cup Services : Name[o] # NoLabel
    /\ Absent \notin Names /\ Absent # NoLabel /\ NoLabel \notin IPs
ASSUME ObjectsFinite == IsFiniteSet(Objects)
ASSUME ResolverBounds == MaxChanges \in Nat /\ MaxClosings \in Nat

VARIABLES
    mode,      \* off (-n), pod (--pod) or svc (the default)
    pc,        \* what NewPod or NewService lists next; then up, or closed
    ipPod,     \* the table IP -> Pod
    ipSvc,     \* the table IP -> Service
    watch,     \* the watch goroutine of a kind: off, starting, open, ended
    queue,     \* the events a watch has yet to deliver
    alive,     \* the objects that exist
    ips,       \* the addresses of an object
    doubt,     \* addresses of which a table may be wrong
    changes,   \* changes of the cluster so far
    closings   \* watch channels closed so far

program == <<mode, pc, ipPod, ipSvc>>
cluster == <<alive, ips, changes>>
vars == <<program, watch, queue, cluster, doubt, closings>>

Kind(o) ==
    CASE o \in Pods -> "pods"
      [] o \in Services -> "services"
      [] o \in Slices -> "slices"

\* The table that a kind of object fills.
Table(k) == IF k = "pods" THEN "pod" ELSE "svc"
Known(t) == {ip \in IPs : (IF t = "pod" THEN ipPod ELSE ipSvc)[ip] # Absent}

Watched ==
    CASE mode = "off" -> {}
      [] mode = "pod" -> {"pods"}
      [] mode = "svc" -> Kinds

Event == [type : {"ADDED", "MODIFIED", "DELETED"}, obj : Objects, ips : SUBSET IPs]

TypeOK ==
    /\ mode \in {"off", "pod", "svc"}
    /\ pc \in Kinds \cup {"up", "closed"}
    /\ ipPod \in [IPs -> Names \cup {Absent}]
    /\ ipSvc \in [IPs -> Names \cup {Absent}]
    /\ watch \in [Kinds -> {"off", "starting", "open", "ended"}]
    /\ queue \in [Kinds -> Seq(Event)]
    /\ \A k \in Kinds : watch[k] # "open" => queue[k] = <<>>
    /\ alive \subseteq Objects
    /\ ips \in [Objects -> SUBSET IPs]
    /\ doubt \in [{"pod", "svc"} -> SUBSET IPs]
    /\ changes \in 0 .. MaxChanges
    /\ closings \in 0 .. MaxClosings

\* A disabled resolver lists nothing and starts no goroutine.
Init ==
    /\ mode \in {"off", "pod", "svc"}
    /\ pc = IF mode = "off" THEN "up" ELSE "pods"
    /\ ipPod = [ip \in IPs |-> Absent]
    /\ ipSvc = [ip \in IPs |-> Absent]
    /\ watch = [k \in Kinds |-> "off"]
    /\ queue = [k \in Kinds |-> <<>>]
    /\ alive = {}
    /\ ips = [o \in Objects |-> {}]
    /\ doubt = [t \in {"pod", "svc"} |-> {}]
    /\ changes = 0
    /\ closings = 0

-----------------------------------------------------------------------------
(* When a table may be wrong. *)

\* Objects that give an address a name in the table of kind k.
Claimants(k, ip) ==
    {o \in alive : /\ Table(Kind(o)) = Table(k)
                   /\ Name[o] # NoLabel
                   /\ ip \in ips[o]}

\* The event that a Service named n is gone is still under way: it will
\* remove the addresses of every object of that name.
GoneServicePending(n) ==
    \E e \in ToSet(queue["services"]) : e.type = "DELETED" /\ Name[e.obj] = n

\* Another object claims ip, or an event that another goroutine has yet to
\* handle may undo what o's event says of ip.
Contested(o, ip) ==
    \/ Claimants(Kind(o), ip) \ {o} # {}
    \/ \E k \in Kinds \ {Kind(o)} :
          /\ Table(k) = Table(Kind(o))
          /\ \E e \in ToSet(queue[k]) : ip \in e.ips
    \/ o \in Slices /\ GoneServicePending(Name[o])

\* Addresses o gains make doubt when contested and otherwise, on an open
\* watch, end it.
GainDoubt(o, gained, d) ==
    LET bad == {ip \in gained : Contested(o, ip)}
    IN  IF watch[Kind(o)] = "open" THEN (d \ gained) \cup bad ELSE d \cup bad

\* MODIFIED removes no address, and what happens while no watch is open is
\* not reported.
LossDoubt(o, lost, deleted) ==
    CASE watch[Kind(o)] # "open" -> lost \cap Known(Table(Kind(o)))
      [] watch[Kind(o)] = "open" /\ deleted -> {}
      [] OTHER -> lost

\* The deletion of a Service removes its name's other addresses too: those of
\* its slices, and those of a namesake in another namespace.
NamesakeDoubt(o) ==
    IF o \in Services /\ watch["services"] = "open"
    THEN UNION {ips[x] : x \in {y \in alive \ (Pods \cup {o}) : Name[y] = Name[o]}}
    ELSE {}

-----------------------------------------------------------------------------
(* The cluster and its API server. *)

\* An object takes new addresses, or is gone; the watch of its kind, if one
\* is open, will deliver the event.  Changes that no watch of this resolver
\* concerns, or after its end, are left out.
Change(o, type, new) ==
    LET k == Kind(o)
        t == Table(k)
        gained == IF Name[o] = NoLabel THEN {} ELSE new \ ips[o]
        lost == IF Name[o] = NoLabel THEN {} ELSE ips[o] \ new
        event == [type |-> type, obj |-> o, ips |-> IF type = "DELETED" THEN ips[o] ELSE new]
    IN  /\ k \in Watched
        /\ pc # "closed"
        /\ changes < MaxChanges
        /\ changes' = changes + 1
        /\ o \in Pods => Cardinality(new) <= 1
        /\ alive' = IF type = "DELETED" THEN alive \ {o} ELSE alive \cup {o}
        /\ ips' = [ips EXCEPT ![o] = new]
        /\ queue' = IF watch[k] = "open"
                    THEN [queue EXCEPT ![k] = Append(@, event)]
                    ELSE queue
        /\ doubt' = [doubt EXCEPT ![t] = GainDoubt(o, gained, @)
                                         \cup LossDoubt(o, lost, type = "DELETED")
                                         \cup (IF type = "DELETED" THEN NamesakeDoubt(o) ELSE {})]
        /\ UNCHANGED <<program, watch, closings>>

Create(o) == o \notin alive /\ \E new \in SUBSET IPs : Change(o, "ADDED", new)
Modify(o) == o \in alive /\ \E new \in SUBSET IPs \ {ips[o]} : Change(o, "MODIFIED", new)
Delete(o) == o \in alive /\ Change(o, "DELETED", {})

-----------------------------------------------------------------------------
(* NewPod and NewService. *)

\* The tables a list of the kind k can leave: of several objects with one
\* address the last one listed wins.
Listed(table, k) ==
    {new \in [IPs -> Names \cup {Absent}] :
        \A ip \in IPs :
            LET here == {o \in Claimants(k, ip) : Kind(o) = k}
            IN  IF here = {} THEN new[ip] = table[ip]
                             ELSE new[ip] \in {Name[o] : o \in here}}

\* After the last list the goroutines are started.
ListDone(k) ==
    LET last == IF mode = "pod" THEN "pods" ELSE "slices"
    IN  /\ pc' = CASE k = last -> "up"
                   [] k # last /\ k = "pods" -> "services"
                   [] k # last /\ k = "services" -> "slices"
        /\ watch' = [j \in Kinds |->
                        IF k = last /\ j \in Watched THEN "starting" ELSE watch[j]]
        /\ UNCHANGED <<mode, queue, cluster, doubt, closings>>

List(k) ==
    /\ pc = k
    /\ IF k = "pods"
       THEN ipPod' \in Listed(ipPod, k) /\ UNCHANGED ipSvc
       ELSE ipSvc' \in Listed(ipSvc, k) /\ UNCHANGED ipPod
    /\ ListDone(k)

\* A list that fails is logged; the next one is tried all the same.
ListFails(k) ==
    /\ pc = k
    /\ UNCHANGED <<ipPod, ipSvc>>
    /\ ListDone(k)

-----------------------------------------------------------------------------
(* The watch goroutines. *)

\* Every existing object is reported, which ends the doubt about addresses
\* that one object alone claims.
WatchOpens(k) ==
    LET here == {o \in alive : Kind(o) = k}
        settled == {ip \in IPs : \E o \in here : /\ o \in Claimants(k, ip)
                                                 /\ ~Contested(o, ip)}
    IN  /\ watch[k] = "starting"
        /\ watch' = [watch EXCEPT ![k] = "open"]
        /\ \E all \in SetToSeqs({[type |-> "ADDED", obj |-> o, ips |-> ips[o]] : o \in here}) :
              queue' = [queue EXCEPT ![k] = all]
        /\ doubt' = [doubt EXCEPT ![Table(k)] = @ \ settled]
        /\ UNCHANGED <<program, cluster, closings>>

\* Watch returns an error: the goroutine ends and nothing starts it again.
WatchFails(k) ==
    /\ watch[k] = "starting"
    /\ watch' = [watch EXCEPT ![k] = "ended"]
    /\ UNCHANGED <<program, queue, cluster, doubt, closings>>

\* The API server closes the channel, and the events not yet delivered are
\* lost; the goroutine starts another one and returns.
ChannelClosed(k) ==
    LET unreported == UNION {e.ips : e \in {x \in ToSet(queue[k]) : x.type = "DELETED"}}
    IN  /\ watch[k] = "open"
        /\ closings < MaxClosings
        /\ closings' = closings + 1
        /\ watch' = [watch EXCEPT ![k] = "starting"]
        /\ queue' = [queue EXCEPT ![k] = <<>>]
        /\ doubt' = [doubt EXCEPT ![Table(k)] = @ \cup (unreported \cap Known(Table(k)))]
        /\ UNCHANGED <<program, cluster>>

Deliver(k) ==
    /\ watch[k] = "open"
    /\ queue[k] # <<>>
    /\ queue' = [queue EXCEPT ![k] = Tail(@)]
    /\ UNCHANGED <<mode, pc, watch, cluster, doubt, closings>>

Put(table, addrs, n) == [ip \in IPs |-> IF ip \in addrs THEN n ELSE table[ip]]

\* Mutant of DropPod: the last Pod of an address keeps it.
DropPodNever(e) == ipPod

\* A Pod's address: the empty one of a Pod that has none yet is skipped, and a
\* deleted Pod's is removed, whichever Pod the table names for it.
AddPod(e) == Put(ipPod, e.ips, Name[e.obj])
DropPod(e) == Put(ipPod, e.ips, Absent)

WatchPods ==
    /\ Deliver("pods")
    /\ LET e == Head(queue["pods"])
       IN  ipPod' = IF e.type = "DELETED" THEN DropPod(e) ELSE AddPod(e)
    /\ UNCHANGED ipSvc

\* The cluster, external and load balancer addresses; a headless Service has
\* none.  A deleted Service takes every address of its name along.
AddService(e) == Put(ipSvc, e.ips, Name[e.obj])
DropService(e) == Put(ipSvc, {ip \in IPs : ipSvc[ip] = Name[e.obj]}, Absent)

WatchServices ==
    /\ Deliver("services")
    /\ LET e == Head(queue["services"])
       IN  ipSvc' = IF e.type = "DELETED" THEN DropService(e) ELSE AddService(e)
    /\ UNCHANGED ipPod

\* Mutant of AddSlice: the label is not looked at.
AddSliceUnlabelled(e) == Put(ipSvc, e.ips, Name[e.obj])

\* addSlice: a slice without the label is skipped.
AddSlice(e) == IF Name[e.obj] = NoLabel THEN ipSvc ELSE Put(ipSvc, e.ips, Name[e.obj])

\* Mutant of DropSlice: a deleted slice is not handled.
DropSliceNever(e) == ipSvc

\* A deleted slice removes its addresses where they still bear its name.
DropSlice(e) == Put(ipSvc, {ip \in e.ips : ipSvc[ip] = Name[e.obj]}, Absent)

WatchSlices ==
    /\ Deliver("slices")
    /\ LET e == Head(queue["slices"])
       IN  ipSvc' = IF e.type = "DELETED" THEN DropSlice(e) ELSE AddSlice(e)
    /\ UNCHANGED ipPod

\* Close, deferred by the commands.
Close ==
    /\ pc = "up"
    /\ pc' = "closed"
    /\ UNCHANGED <<mode, ipPod, ipSvc, watch, queue, cluster, doubt, closings>>

\* Mutant of Stop: Close sends one value on stopCh instead of closing it, so
\* that one goroutine takes it.
StopOnce(k) ==
    /\ pc = "closed"
    /\ watch[k] = "open"
    /\ \A j \in Kinds : watch[j] # "ended"
    /\ watch' = [watch EXCEPT ![k] = "ended"]
    /\ queue' = [queue EXCEPT ![k] = <<>>]
    /\ UNCHANGED <<program, cluster, doubt, closings>>

\* The goroutine's select takes the closed stopCh, and wi.Stop() is deferred.
Stop(k) ==
    /\ pc = "closed"
    /\ watch[k] = "open"
    /\ watch' = [watch EXCEPT ![k] = "ended"]
    /\ queue' = [queue EXCEPT ![k] = <<>>]
    /\ UNCHANGED <<program, cluster, doubt, closings>>

\* Mutant of Resolve: the Pod is preferred to the Service.
ResolvePodFirst(ip) ==
    IF ipPod[ip] # Absent THEN ipPod[ip]
    ELSE IF ipSvc[ip] # Absent THEN ipSvc[ip]
    ELSE ip

\* Resolve reads both tables under one read lock; PodResolver has only ipPod
\* and a disabled resolver neither.
Resolve(ip) ==
    IF ipSvc[ip] # Absent THEN ipSvc[ip]
    ELSE IF ipPod[ip] # Absent THEN ipPod[ip]
    ELSE ip

-----------------------------------------------------------------------------
Next ==
    \/ \E o \in Objects : Create(o) \/ Modify(o) \/ Delete(o)
    \/ \E k \in Kinds : List(k) \/ ListFails(k)
    \/ \E k \in Kinds : WatchOpens(k) \/ WatchFails(k) \/ ChannelClosed(k) \/ Stop(k)
    \/ WatchPods
    \/ WatchServices
    \/ WatchSlices
    \/ Close

Spec == Init /\ [][Next]_vars

\* The API server answers a list and the start of a watch, and a goroutine
\* whose select has a case ready goes on.
Fairness ==
    /\ \A k \in Kinds : /\ WF_vars(List(k) \/ ListFails(k))
                        /\ WF_vars(WatchOpens(k) \/ WatchFails(k))
                        /\ WF_vars(Stop(k))
    /\ WF_vars(WatchPods)
    /\ WF_vars(WatchServices)
    /\ WF_vars(WatchSlices)

FairSpec == Spec /\ Fairness

-----------------------------------------------------------------------------
(* Properties. *)

Quiet(k) == watch[k] = "open" /\ queue[k] = <<>>

\* The name an address has in the cluster, in the table of the kind k.
TrueName(k, ip) ==
    IF Claimants(k, ip) = {} THEN {Absent} ELSE {Name[o] : o \in Claimants(k, ip)}

\* Once watchPods has handled its events, ipPod holds exactly the Pods of the
\* cluster.  The exceptions are addresses that two Pods had at once, that a Pod
\* gave up while it lived, or that were given up while no watch was open; and
\* those only until another Pod takes them or a watch is opened anew.
PodNamesRight ==
    Quiet("pods") => \A ip \in IPs \ doubt["pod"] : ipPod[ip] \in TrueName("pods", ip)

\* The same of ipSvc, which two goroutines fill from queues of their own: the
\* further exceptions are addresses that move between a Service and a slice
\* while the other queue still mentions them, and the addresses left to a name
\* when a Service of that name is deleted.
ServiceNamesRight ==
    Quiet("services") /\ Quiet("slices")
        => \A ip \in IPs \ doubt["svc"] : ipSvc[ip] \in TrueName("slices", ip)

\* When the cluster stays as it is, Resolve in the end gives every address out
\* of doubt the name it has there, its Service's before its Pod's, and the
\* address itself when it has none; unless a goroutine ended because it could
\* not start its watch, or the command ended.
EventuallyRight ==
    <>[]((pc # "closed" /\ \A k \in Watched : watch[k] # "ended")
         => \A ip \in IPs \ (doubt["pod"] \cup doubt["svc"]) :
                Resolve(ip) \in
                    IF Claimants("slices", ip) # {} THEN TrueName("slices", ip)
                    ELSE IF Claimants("pods", ip) # {} THEN TrueName("pods", ip)
                    ELSE {ip})

\* After Close every watch goroutine ends, also one that was being restarted.
CloseEndsWatches ==
    pc = "closed" ~> \A k \in Watched : watch[k] = "ended"
=============================================================================
