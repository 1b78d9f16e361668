-------------------------- MODULE SnapshotRegister --------------------------
(***************************************************************************)
(* What the aggregator promises to the CLI about each node, without the    *)
(* RPCs: `visible' holds one snapshot per node, and it only ever changes   *)
(* to a snapshot which that node submitted and which had not been shown    *)
(* before, or back to nothing when the aggregator restarts.  A submitted   *)
(* snapshot is newer than everything of its node that is still around.     *)
(* Nothing is promised about the order in which submissions are shown, nor *)
(* that they are shown at all.                                             *)
(***************************************************************************)
EXTENDS Naturals

CONSTANTS
    Nodes,       \* the nodes that run an agent
    Snapshots,   \* every snapshot an agent may submit
    Absent(_)    \* what `visible' holds for a node never heard of

VARIABLES
    pending,     \* submitted snapshots that may still be shown
    visible      \* [Nodes -> the snapshot shown]

registerVars == <<pending, visible>>

RegisterInit ==
    /\ pending = {}
    /\ visible = [n \in Nodes |-> Absent(n)]

\* A node submits a snapshot newer than all its snapshots still around.
Submit(s) ==
    /\ s \in Snapshots
    /\ \A p \in pending : p.node = s.node => p.ts < s.ts
    /\ visible[s.node].ts < s.ts
    /\ pending' = pending \cup {s}
    /\ UNCHANGED visible

\* A pending snapshot is shown, once, whatever is shown at that time.
Show(s) ==
    /\ visible' = [visible EXCEPT ![s.node] = s]
    /\ pending' = pending \ {s}

\* Pending snapshots are lost on the way.
Lose ==
    /\ pending' \subseteq pending
    /\ UNCHANGED visible

\* The register restarts empty and everything pending is lost with it.
Reset ==
    /\ pending' = {}
    /\ visible' = [n \in Nodes |-> Absent(n)]

RegisterNext ==
    \/ \E s \in pending' : Submit(s)
    \/ \E s \in pending : Show(s)
    \/ Lose
    \/ Reset

RegisterSpec == RegisterInit /\ [][RegisterNext]_registerVars
=============================================================================
