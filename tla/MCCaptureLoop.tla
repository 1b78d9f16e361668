--------------------------- MODULE MCCaptureLoop ---------------------------
(* Instances of CaptureLoop for TLC: the configurations set the bounds.    *)
(* What the commands fall back to is checked here for every outcome of the *)
(* attempts, for up to three kind nodes and two files in KUBECONFIG.       *)
EXTENDS CaptureLoop

F == INSTANCE Fallback

Hosts == [executable : BOOLEAN, docker : BOOLEAN, lists : BOOLEAN, readable : BOOLEAN]

\* Nodes whose label can be read, and one whose name misleads.
Nodes(starts) ==
    [control : BOOLEAN, inspected : {TRUE}, named : {FALSE}, readable : BOOLEAN,
     binary : BOOLEAN, writes : BOOLEAN, starts : starts]
    \cup [control : {TRUE}, inspected : {FALSE}, named : {FALSE}, readable : {TRUE},
          binary : {TRUE}, writes : BOOLEAN, starts : starts]

ASSUME KindChecked ==
    \A nodes \in UNION {[1 .. n -> Nodes({TRUE})] : n \in 0 .. 3} :
        LET host == [executable |-> TRUE, docker |-> TRUE, lists |-> TRUE, readable |-> TRUE]
        IN F!RightNode(host, nodes) /\ F!NodeFound(host, nodes)

\* Without the host's part nothing runs, and the agent with an aggregator of
\* its own runs nowhere a command could not.
ASSUME HostChecked ==
    \A host \in Hosts, nodes \in UNION {[1 .. n -> Nodes(BOOLEAN)] : n \in 0 .. 1} :
        /\ F!NodeFound(host, nodes)
        /\ F!AgentFallback(TRUE, host, nodes) # F!None =>
               \E i \in DOMAIN nodes : nodes[i].binary /\ F!RunInKind(host, nodes).why \in {"run", "no node"}

ASSUME KubeconfigChecked ==
    \A env \in UNION {[1 .. n -> {"", "a", "home"}] : n \in 0 .. 2},
       home \in {"", "home"}, sudoHome \in {"", "home", "sudo"},
       parsed \in SUBSET {"a", "home", "sudo", "admin.conf"},
       accepted \in SUBSET {"a", "home", "sudo", "admin.conf", "in-cluster"} :
        F!RightKubeconfig(env, home, sudoHome, parsed, accepted)
=============================================================================
