------------------------------ MODULE DnsProbe ------------------------------
(***************************************************************************)
(* How DNS answers are matched with queries: kprobe__udp_sendmsg, which    *)
(* notes a query in dns_query_map, and kprobe__udp_rcv, which looks it up, *)
(* takes the time, deletes it and records a sample                         *)
(* (bpf/tcp_connect.bpf.c).                                                *)
(*                                                                         *)
(* There is one client and one server address.  What tells queries apart   *)
(* in the map is then the client's port alone: neither probe looks at the  *)
(* DNS transaction id.  Queries are numbered in the order in which their   *)
(* times are taken, so the number of the query a sample was measured from  *)
(* stands for its time; the map takes them in an order of its own.  How a  *)
(* sample changes its row of dns_stats_map is LatencyRow's.                *)
(***************************************************************************)
EXTENDS Naturals, Sequences, FiniteSets, Functions

CONSTANTS
    CPUs,          \* the CPUs the probes run on, one run at a time
    Ports,         \* client ports, as numbers
    Capacity,      \* max_entries of dns_query_map (65536)
    RingSize,      \* events the ring dns_events holds
    MaxQueries,    \* bound: queries sent
    MaxDeliveries  \* bound: answers delivered

U16 == {n \in Nat : n < 65536}

ASSUME PortsAre16Bit == Ports \subseteq U16
ASSUME DnsBounds ==
    /\ Capacity \in Nat
    /\ RingSize \in Nat
    /\ MaxQueries \in Nat
    /\ MaxDeliveries \in Nat

VARIABLES
    sent,        \* the queries sent: [port, via], in order
    answers,     \* the numbers of the queries whose answer is under way
    queries,     \* dns_query_map: [keys present -> number of the query]
    ops,         \* what was done to dns_query_map so far, in order
    cpu,         \* [CPUs -> the run of a probe in progress]
    samples,     \* the samples recorded
    ring,        \* events in the ring dns_events
    deliveries   \* answers delivered so far

vars == <<sent, answers, queries, ops, cpu, samples, ring, deliveries>>

Idle == [pc |-> "idle"]

\* A run of udp_sendmsg that has taken the time of query q.
Sender(q) == [pc |-> "send", query |-> q]
Senders == [pc : {"send"}, query : Nat]

\* A run of udp_rcv that found an entry, by pointer: the answer it handles,
\* the key, the query the entry was made for.
Run(pc, a, k, q) == [pc |-> pc, answer |-> a, key |-> k, query |-> q]
Runs == [pc : {"found", "deleted"}, answer : Nat, key : U16, query : Nat]

\* A query noted in the map or turned away by a full one, the entry of a
\* query deleted, an answer for which the map has no entry.
Op(op, n, k) == [op |-> op, id |-> n, key |-> k]
Ops == [op : {"note", "full", "delete", "miss"}, id : Nat, key : U16]

TypeOK ==
    /\ sent \in Seq([port : Ports, via : {"connect", "sendto"}])
    /\ answers \subseteq DOMAIN sent
    /\ DOMAIN queries \subseteq U16
    /\ Cardinality(DOMAIN queries) <= Capacity
    /\ \A k \in DOMAIN queries : queries[k] \in DOMAIN sent
    /\ ops \in Seq(Ops)
    /\ cpu \in [CPUs -> {Idle} \cup Senders \cup Runs]
    /\ \A s \in samples : s.answer \in DOMAIN sent /\ s.query \in DOMAIN sent
    /\ ring \in 0 .. RingSize
    /\ deliveries \in 0 .. MaxDeliveries

Init ==
    /\ sent = <<>>
    /\ answers = {}
    /\ queries = [k \in {} |-> 0]
    /\ ops = <<>>
    /\ cpu = [c \in CPUs |-> Idle]
    /\ samples = {}
    /\ ring = 0
    /\ deliveries = 0

-----------------------------------------------------------------------------
\* The two bytes of a 16-bit number, exchanged.
Bswap16(x) == (x % 256) * 256 + x \div 256

\* The key of a query: the socket's skc_num is the port as a number.
QueryKey(port) == port

\* The key of an answer: the two bytes of the UDP header's destination port,
\* which are in network order, read as they are by a little-endian machine.
ResponseKey(port) == Bswap16(port)

\* bpf_ringbuf_reserve and submit; nobody reads this ring.
Submit == ring' = IF ring < RingSize THEN ring + 1 ELSE ring

-----------------------------------------------------------------------------
\* A query on a socket connected to port 53, up to the reading of the time.
UdpSendmsg(c, p) ==
    /\ cpu[c] = Idle
    /\ Len(sent) < MaxQueries
    /\ sent' = Append(sent, [port |-> p, via |-> "connect"])
    /\ cpu' = [cpu EXCEPT ![c] = Sender(Len(sent) + 1)]
    /\ UNCHANGED <<answers, queries, ops, samples, ring, deliveries>>

\* A query on a socket that is not connected: skc_dport is not 53, the probe
\* returns at once.
UdpSendto(p) ==
    /\ Len(sent) < MaxQueries
    /\ sent' = Append(sent, [port |-> p, via |-> "sendto"])
    /\ answers' = answers \cup {Len(sent) + 1}
    /\ UNCHANGED <<queries, ops, cpu, samples, ring, deliveries>>

\* The run of udp_sendmsg ends, the kernel sends the query.
Sent(c) ==
    /\ answers' = answers \cup {cpu[c].query}
    /\ cpu' = [cpu EXCEPT ![c] = Idle]
    /\ Submit
    /\ UNCHANGED <<sent, samples, deliveries>>

\* Mutants of Note: an entry that is there stays (BPF_NOEXIST); the map takes
\* any number of entries; a full map gives up another entry for the new one
\* (BPF_MAP_TYPE_LRU_HASH).
NoteKeepsFirst(c) ==
    /\ cpu[c].pc = "send"
    /\ LET n == cpu[c].query
           k == QueryKey(sent[n].port)
       IN /\ k \in DOMAIN queries \/ Cardinality(DOMAIN queries) < Capacity
          /\ queries' = [x \in DOMAIN queries \cup {k} |->
                            IF x \in DOMAIN queries THEN queries[x] ELSE n]
          /\ ops' = Append(ops, Op("note", n, k))
    /\ Sent(c)

NoteUnbounded(c) ==
    /\ cpu[c].pc = "send"
    /\ LET n == cpu[c].query
           k == QueryKey(sent[n].port)
       IN /\ queries' = [x \in DOMAIN queries \cup {k} |-> IF x = k THEN n ELSE queries[x]]
          /\ ops' = Append(ops, Op("note", n, k))
    /\ Sent(c)

NoteEvicts(c) ==
    /\ cpu[c].pc = "send"
    /\ LET n == cpu[c].query
           k == QueryKey(sent[n].port)
       IN \E gone \in SUBSET (DOMAIN queries \ {k}) :
            /\ Cardinality((DOMAIN queries \cup {k}) \ gone) <= Capacity
            /\ queries' = [x \in (DOMAIN queries \cup {k}) \ gone |->
                            IF x = k THEN n ELSE queries[x]]
            /\ ops' = Append(ops, Op("note", n, k))
    /\ Sent(c)

\* Its time replaces that of another query from the same port (BPF_ANY).
Note(c) ==
    /\ cpu[c].pc = "send"
    /\ LET n == cpu[c].query
           k == QueryKey(sent[n].port)
       IN /\ k \in DOMAIN queries \/ Cardinality(DOMAIN queries) < Capacity
          /\ queries' = [x \in DOMAIN queries \cup {k} |-> IF x = k THEN n ELSE queries[x]]
          /\ ops' = Append(ops, Op("note", n, k))
    /\ Sent(c)

\* The map is full: the update fails and nobody looks at its result.
NoteFull(c) ==
    /\ cpu[c].pc = "send"
    /\ LET n == cpu[c].query
           k == QueryKey(sent[n].port)
       IN /\ k \notin DOMAIN queries
          /\ Cardinality(DOMAIN queries) >= Capacity
          /\ ops' = Append(ops, Op("full", n, k))
    /\ UNCHANGED queries
    /\ Sent(c)

\* UDP delivers an answer at any time, in any order, and perhaps again.  (A
\* lost answer is one that is never delivered.)
Deliver(a) ==
    /\ a \in answers
    /\ deliveries < MaxDeliveries
    /\ deliveries' = deliveries + 1
    /\ answers' \in {answers, answers \ {a}}

\* udp_rcv finds an entry for the answer to query a.
RcvFound(c, a) ==
    LET k == ResponseKey(sent[a].port)
    IN /\ cpu[c] = Idle
       /\ Deliver(a)
       /\ k \in DOMAIN queries
       /\ cpu' = [cpu EXCEPT ![c] = Run("found", a, k, queries[k])]
       /\ UNCHANGED <<sent, queries, ops, samples, ring>>

\* udp_rcv finds none and returns.
RcvUnmatched(c, a) ==
    LET k == ResponseKey(sent[a].port)
    IN /\ cpu[c] = Idle
       /\ Deliver(a)
       /\ k \notin DOMAIN queries
       /\ ops' = Append(ops, Op("miss", a, k))
       /\ UNCHANGED <<sent, queries, cpu, samples, ring>>

\* Mutant of RcvDelete: the entry stays.
RcvDeleteNothing(c) ==
    /\ cpu[c].pc = "found"
    /\ ops' = Append(ops, Op("delete", cpu[c].query, cpu[c].key))
    /\ cpu' = [cpu EXCEPT ![c].pc = "deleted"]
    /\ UNCHANGED <<sent, answers, queries, samples, ring, deliveries>>

\* The time is taken through the pointer; then whatever entry the key has
\* by now is deleted.
RcvDelete(c) ==
    /\ cpu[c].pc = "found"
    /\ queries' = Restrict(queries, DOMAIN queries \ {cpu[c].key})
    /\ ops' = Append(ops, Op("delete", cpu[c].query, cpu[c].key))
    /\ cpu' = [cpu EXCEPT ![c].pc = "deleted"]
    /\ UNCHANGED <<sent, answers, samples, ring, deliveries>>

\* The sample is added to dns_stats_map, and an event to the ring.
RcvRecord(c) ==
    /\ cpu[c].pc = "deleted"
    /\ samples' = samples \cup
                    {[answer |-> cpu[c].answer, query |-> cpu[c].query, cpu |-> c]}
    /\ cpu' = [cpu EXCEPT ![c] = Idle]
    /\ Submit
    /\ UNCHANGED <<sent, answers, queries, ops, deliveries>>

Next ==
    \/ \E c \in CPUs, p \in Ports : UdpSendmsg(c, p)
    \/ \E p \in Ports : UdpSendto(p)
    \/ \E c \in CPUs : Note(c) \/ NoteFull(c)
    \/ \E c \in CPUs, a \in answers : RcvFound(c, a) \/ RcvUnmatched(c, a)
    \/ \E c \in CPUs : RcvDelete(c) \/ RcvRecord(c)

Spec == Init /\ [][Next]_vars

-----------------------------------------------------------------------------
(* Safety. *)

\* The runs that found the entry of query q, and those that may still find
\* it.
Finders(q) == {c \in CPUs : cpu[c].pc \in {"found", "deleted"} /\ cpu[c].query = q}
Findable(q) == \E k \in DOMAIN queries : queries[k] = q

\* A query is sampled twice only by runs that found its entry before the
\* first of them deleted it.  So once a sample of it is recorded nobody can
\* find the query any more: at most one sample per CPU, whatever is
\* duplicated or reordered.
SampledQueryIsGone ==
    \A s \in samples :
        /\ ~Findable(s.query)
        /\ s.cpu \notin Finders(s.query)

\* Operation i is the attempt to note query q; query q was noted after the
\* attempt for query a.
Attempts(i, q) == ops[i].op \in {"note", "full"} /\ ops[i].id = q
NotedAfter(q, a) ==
    \E i, j \in DOMAIN ops :
        i < j /\ Attempts(i, a) /\ ops[j].op = "note" /\ ops[j].id = q

\* A latency is never overstated for a query the probes look at: an answer
\* to such a query, if it is matched by its own port at all, is measured
\* from this query or from a later one of the same port; from an earlier one
\* only if two runs of udp_sendmsg overlapped, so that the one that took its
\* time first noted it last.
NeverFromEarlierQuery ==
    \A s \in samples :
        sent[s.answer].via = "connect" /\ sent[s.query].port = sent[s.answer].port
            => s.query >= s.answer \/ NotedAfter(s.query, s.answer)

\* The keys in the map before operation i: those noted and not deleted since.
Deletes(i, k) == ops[i].op = "delete" /\ ops[i].key = k
Occupied(i) ==
    {ops[h].key : h \in {h \in 1 .. i - 1 :
        ops[h].op = "note" /\ \A j \in h + 1 .. i - 1 : ~Deletes(j, ops[h].key)}}

\* The answer to a query the probes look at finds no entry for three reasons
\* only: the two bytes of its port differ; the query came when the map was
\* full of queries of other ports, whose entries had not been deleted; or an
\* answer to this port was matched after the query had been noted - its
\* own, or one that deleted the entry of a newer query than the one it found.
MissesExplained ==
    \A m \in DOMAIN ops :
        LET a == ops[m].id
            k == QueryKey(sent[a].port)
        IN ops[m].op = "miss" /\ sent[a].via = "connect" =>
            \/ Bswap16(k) # k
            \/ \E i \in 1 .. m - 1 :
                /\ ops[i].op = "full" /\ ops[i].id = a
                /\ k \notin Occupied(i)
                /\ Cardinality(Occupied(i)) >= Capacity
            \/ \E i \in 1 .. m - 1, d \in 1 .. m - 1 :
                i < d /\ ops[i].op = "note" /\ ops[i].id = a /\ Deletes(d, k)

\* bpf/tcp_connect.bpf.c:239 "Map response back to the original query key.":
\* an answer is recognised when its query is in the map.
AnswersRecognised ==
    \A m \in DOMAIN ops :
        ops[m].op = "miss" => QueryKey(sent[ops[m].id].port) \notin Occupied(m)
=============================================================================
