------------------------------ MODULE Fallback ------------------------------
(***************************************************************************)
(* What a command falls back to when it cannot do its work itself: which   *)
(* kind node runs it (RunInKind and RunInKindTo, internal/flow), which     *)
(* kubeconfig the resolver uses (NewClient, internal/kubernetes), where    *)
(* status looks for an aggregator (cmd/status.go), what the agent does     *)
(* without privileges (cmd/agent.go).  Each is a function of how the       *)
(* attempts turn out; docker, kubectl and files are external.              *)
(***************************************************************************)
EXTENDS Naturals, Sequences, SequencesExt

\* A choice is a sequence of one, or of none.
None == <<>>

\* The first of seq that is good.
First(seq, good) ==
    LET found == SelectSeq(seq, LAMBDA x : x \in good)
    IN IF found = <<>> THEN None ELSE <<found[1]>>

-----------------------------------------------------------------------------
(* A kind node is a record: is it a control plane by its label, can docker *)
(* tell the label, does its name say so; is its admin.conf readable; can   *)
(* the binary, and a kubeconfig, be written to it, and an aggregator be    *)
(* started in it.                                                          *)

isControlPlane(node) == IF node.inspected THEN node.control ELSE node.named

\* Workers first, otherwise in the order docker lists them.
preferWorkers(nodes) ==
    SelectSeq(nodes, LAMBDA n : ~isControlPlane(n)) \o SelectSeq(nodes, isControlPlane)

\* The node whose admin.conf is used: one of the nodes to run on, or else one
\* that docker lists by its role.
loadKindAPIKubeconfig(nodes) ==
    LET mine == First(nodes, {n \in ToSet(nodes) : isControlPlane(n) /\ n.readable})
    IN IF mine # None THEN mine
       ELSE First(nodes, {n \in ToSet(nodes) : n.control /\ n.readable})

\* copyToNode, and writeToNode if there is a kubeconfig; the command works
\* without one if it need not resolve names.
Prepared(node, kubeconfig) == node.binary /\ (kubeconfig # None => node.writes)

\* The node that runs the command, and whose kubeconfig it is given, or why
\* there is none; what the command returns there is returned, and no other
\* node is tried.  host: what the host has, and whether docker answers.
RunInKind(host, nodes) ==
    LET order == preferWorkers(nodes)
        kubeconfig == loadKindAPIKubeconfig(order)
        node == First(order, {n \in ToSet(order) : Prepared(n, kubeconfig)})
        Ends(why, on, with) == [why |-> why, node |-> on, kubeconfig |-> with]
    IN IF ~host.executable THEN Ends("no path", None, None)
       ELSE IF ~host.docker THEN Ends("no docker", None, None)
       ELSE IF ~host.lists \/ nodes = <<>> THEN Ends("no cluster", None, None)
       ELSE IF ~host.readable THEN Ends("no binary", None, None)
       ELSE IF node = None THEN Ends("no node", None, None)
       ELSE Ends("run", node, kubeconfig)

\* The agent and an aggregator of its own in one node, which is not chosen by
\* whether it can be prepared; the port is the one asked for.
RunAgentInKind(host, nodes) ==
    LET node == preferWorkers(nodes)[1]
    IN IF ~host.executable THEN [why |-> "no path", node |-> None]
       ELSE IF ~host.docker THEN [why |-> "no docker", node |-> None]
       ELSE IF ~host.lists \/ nodes = <<>> THEN [why |-> "no cluster", node |-> None]
       ELSE IF ~host.readable THEN [why |-> "no binary", node |-> None]
       ELSE IF ~node.binary THEN [why |-> "no copy", node |-> None]
       ELSE IF ~node.starts THEN [why |-> "no aggregator", node |-> None]
       ELSE [why |-> "run", node |-> <<node>>]

\* What becomes of an agent that may not load BPF programs.
AgentFallback(loopback, host, nodes) ==
    IF loopback THEN RunAgentInKind(host, nodes).node ELSE RunInKind(host, nodes).node

-----------------------------------------------------------------------------
(* Kubeconfigs: env is the list in KUBECONFIG, "" where an entry is empty; *)
(* home, sudoHome and the file of kubeadm follow.                          *)

uniqueStrings(in) ==
    LET At(i) == in[i] \notin {in[j] : j \in 1 .. i - 1}
    IN FoldLeft(LAMBDA out, i : IF At(i) THEN Append(out, in[i]) ELSE out,
                <<>>, [i \in DOMAIN in |-> i])

kubeconfigCandidates(env, home, sudoHome) ==
    uniqueStrings(SelectSeq(env \o <<home, sudoHome, "admin.conf">>, LAMBDA p : p # ""))

\* The first file that exists and can be parsed, or else the service account.
\* A client that cannot be made of it (NewForConfig) is an error, and nothing
\* else is tried.
NewClient(env, home, sudoHome, parsed, accepted, inCluster) ==
    LET file == First(kubeconfigCandidates(env, home, sudoHome), parsed)
        config == IF file # None THEN file ELSE IF inCluster THEN <<"in-cluster">> ELSE None
    IN SelectSeq(config, LAMBDA c : c \in accepted)

-----------------------------------------------------------------------------
(* status. *)

\* Where status asks: an address given by flag is not probed, and nothing
\* else is tried; otherwise the default address if it answers, then a
\* forwarded port of the Service, and only with --in-kind a kind node.
StatusAsks(flag, answers, forwarded, inKind) ==
    IF flag THEN <<"given">>
    ELSE IF answers THEN <<"default">>
    ELSE IF forwarded THEN <<"forwarded">>
    ELSE IF inKind THEN <<"kind">> ELSE None

\* The namespace forwarded to: the default one, one found by labels, one
\* found by name.
findAggregatorNamespace(default, labelled, listed) ==
    First(<<default, labelled, listed>>, {default, labelled, listed} \ {""})

-----------------------------------------------------------------------------
(* What they ought to give. *)

\* A node is run on only if none that docker lists before it, and no worker
\* if it is a control plane, could have been.
RightNode(host, nodes) ==
    LET r == RunInKind(host, nodes)
        Could(n) == Prepared(n, loadKindAPIKubeconfig(preferWorkers(nodes)))
    IN r.node # None =>
        \E i \in DOMAIN nodes :
            /\ r.node = <<nodes[i]>> /\ Could(nodes[i])
            /\ \A j \in DOMAIN nodes :
                Could(nodes[j]) => \/ isControlPlane(nodes[j]) /\ ~isControlPlane(nodes[i])
                                   \/ isControlPlane(nodes[j]) = isControlPlane(nodes[i]) /\ j >= i

\* A node is found if any can be prepared.
NodeFound(host, nodes) ==
    (/\ host = [x \in DOMAIN host |-> TRUE]
     /\ \E i \in DOMAIN nodes : Prepared(nodes[i], loadKindAPIKubeconfig(preferWorkers(nodes))))
        <=> RunInKind(host, nodes).why = "run"

\* Removing duplicates does not change which kubeconfig is used, and an
\* earlier one that cannot be parsed leaves the choice to the later ones; but
\* one that is parsed and not accepted hides them, and the service account.
RightKubeconfig(env, home, sudoHome, parsed, accepted) ==
    LET all == env \o <<home, sudoHome, "admin.conf">>
        c == NewClient(env, home, sudoHome, parsed, accepted, TRUE)
        firsts == {i \in DOMAIN all : /\ all[i] \in parsed
                                      /\ \A j \in 1 .. i - 1 : all[j] \notin parsed}
    IN IF firsts = {} THEN c = <<"in-cluster">> <=> "in-cluster" \in accepted
       ELSE \A i \in firsts : c = IF all[i] \in accepted THEN <<all[i]>> ELSE None
=============================================================================
