--------------------------- MODULE DnsProbeProofs ---------------------------
(***************************************************************************)
(* Proofs about DnsProbe, for any number of CPUs, ports and map entries.   *)
(*                                                                         *)
(* The argument rests on the list of operations on the map.  An entry is   *)
(* the last thing that happened to its key, and a key noted and not        *)
(* deleted since is in the map: so the map at any time can be read off the *)
(* operations before it, and what was once explained by them stays so.  A  *)
(* run that has deleted the key has made its query unfindable, for good,   *)
(* since every query is noted once.                                        *)
(***************************************************************************)
EXTENDS DnsProbe, FiniteSetTheorems, SequenceTheorems, TLAPS

Queries == DOMAIN sent

Noted(q) == \E i \in DOMAIN ops : ops[i].op = "note" /\ ops[i].id = q

\* A noted query is found under its port.
OpsTyped ==
    /\ ops \in Seq(Ops)
    /\ \A i \in DOMAIN ops :
        /\ ops[i].id \in Queries
        /\ ops[i].op \in {"note", "full"} => ops[i].key = sent[ops[i].id].port

\* An entry is the last thing that happened to its key, and a key that was
\* noted stays until it is deleted.
EntryIsLast ==
    \A k \in DOMAIN queries : \E i \in DOMAIN ops :
        /\ ops[i] = Op("note", queries[k], k)
        /\ \A j \in DOMAIN ops : j > i /\ ops[j].key = k => ops[j].op = "miss"

NotedStays ==
    \A i \in DOMAIN ops : ops[i].op = "note" =>
        \/ ops[i].key \in DOMAIN queries
        \/ \E d \in DOMAIN ops : d > i /\ Deletes(d, ops[i].key)

\* Every answer to a query the probes look at comes after the attempt to
\* note it, and the runs that are about to note a query are the first and
\* only ones to do so.
AnswersAttempted ==
    \A a \in answers :
        sent[a].via = "connect" => \E i \in DOMAIN ops : Attempts(i, a)

SendersFresh ==
    \A c \in CPUs : cpu[c].pc = "send" =>
        /\ cpu[c].query \in Queries
        /\ \A i \in DOMAIN ops : ~Attempts(i, cpu[c].query)
        /\ \A d \in CPUs : d # c /\ cpu[d].pc = "send" => cpu[d].query # cpu[c].query

Measured(a, q) ==
    /\ a \in Queries
    /\ q \in Queries
    /\ Noted(q)
    /\ sent[a].via = "connect" /\ sent[q].port = sent[a].port
            => q >= a \/ NotedAfter(q, a)

RunsExplained ==
    \A c \in CPUs : cpu[c].pc \in {"found", "deleted"} =>
        /\ Measured(cpu[c].answer, cpu[c].query)
        /\ cpu[c].key = sent[cpu[c].query].port
        /\ cpu[c].pc = "deleted" => ~Findable(cpu[c].query)

SamplesExplained ==
    \A s \in samples :
        /\ Measured(s.answer, s.query)
        /\ ~Findable(s.query)
        /\ s.cpu \notin Finders(s.query)

\* What happened to a query that was not noted, and to an answer that was
\* not recognised.
FullOk(i) ==
    ops[i].op = "full" =>
        ops[i].key \notin Occupied(i) /\ Cardinality(Occupied(i)) >= Capacity

MissOk(m) ==
    ops[m].op = "miss" /\ sent[ops[m].id].via = "connect" =>
        \/ Bswap16(sent[ops[m].id].port) # sent[ops[m].id].port
        \/ \E i \in 1 .. m - 1 :
            /\ ops[i].op = "full" /\ ops[i].id = ops[m].id
            /\ sent[ops[m].id].port \notin Occupied(i)
            /\ Cardinality(Occupied(i)) >= Capacity
        \/ \E i \in 1 .. m - 1, d \in 1 .. m - 1 :
            /\ i < d /\ ops[i].op = "note" /\ ops[i].id = ops[m].id
            /\ Deletes(d, sent[ops[m].id].port)

OpsExplained == \A i \in DOMAIN ops : FullOk(i) /\ MissOk(i)

MapFits ==
    /\ DOMAIN queries \subseteq U16
    /\ IsFiniteSet(DOMAIN queries)
    /\ Cardinality(DOMAIN queries) <= Capacity

SentType == sent \in Seq([port : Ports, via : {"connect", "sendto"}])

IInv ==
    /\ SentType
    /\ answers \subseteq Queries
    /\ OpsTyped
    /\ cpu \in [CPUs -> {Idle} \cup Senders \cup Runs]
    /\ ring \in 0 .. RingSize
    /\ deliveries \in 0 .. MaxDeliveries
    /\ MapFits
    /\ EntryIsLast
    /\ NotedStays
    /\ AnswersAttempted
    /\ SendersFresh
    /\ RunsExplained
    /\ SamplesExplained
    /\ OpsExplained

-----------------------------------------------------------------------------
(* Facts about the list of operations. *)

\* The ring takes another event or stays as it is.
LEMMA SubmitType ==
    ASSUME ring \in 0 .. RingSize, Submit
    PROVE  ring' \in 0 .. RingSize
BY DnsBounds DEF Submit

\* What a query appended to `sent' leaves alone.
LEMMA AppendSent ==
    ASSUME SentType, NEW p \in Ports, NEW b \in {"connect", "sendto"},
           sent' = Append(sent, [port |-> p, via |-> b])
    PROVE  /\ SentType'
           /\ Queries' = Queries \cup {Len(sent) + 1}
           /\ \A q \in Queries : q \in Nat /\ q <= Len(sent) /\ sent'[q] = sent[q]
           /\ sent'[Len(sent) + 1] = [port |-> p, via |-> b]
           /\ Len(sent) + 1 \notin Queries
           /\ Len(sent) \in Nat
BY DEF Queries, SentType

\* What an operation appended to `ops' leaves alone.
LEMMA AppendOps ==
    ASSUME ops \in Seq(Ops), NEW e \in Ops, ops' = Append(ops, e)
    PROVE  /\ ops' \in Seq(Ops)
           /\ Len(ops) \in Nat /\ Len(ops') = Len(ops) + 1
           /\ DOMAIN ops = 1 .. Len(ops)
           /\ DOMAIN ops' = DOMAIN ops \cup {Len(ops) + 1}
           /\ \A i \in DOMAIN ops : i \in Nat /\ i <= Len(ops) /\ ops'[i] = ops[i]
           /\ ops'[Len(ops) + 1] = e
           /\ Len(ops) + 1 \notin DOMAIN ops
OBVIOUS

SentGrows ==
    \/ sent' = sent
    \/ \E p \in Ports, b \in {"connect", "sendto"} :
        sent' = Append(sent, [port |-> p, via |-> b])

OpsGrow == ops' = ops \/ \E e \in Ops : ops' = Append(ops, e)

LEMMA Grown ==
    ASSUME SentType, ops \in Seq(Ops), SentGrows, OpsGrow
    PROVE  /\ Queries \subseteq Queries'
           /\ \A q \in Queries : sent'[q] = sent[q]
           /\ Len(ops) \in Nat
           /\ DOMAIN ops = 1 .. Len(ops)
           /\ DOMAIN ops \subseteq DOMAIN ops'
           /\ \A i \in DOMAIN ops : i \in Nat /\ i <= Len(ops) /\ ops'[i] = ops[i]
<1>1. Queries \subseteq Queries' /\ \A q \in Queries : sent'[q] = sent[q]
  <2>1. CASE sent' = sent
    BY <2>1 DEF Queries
  <2>2. CASE sent' # sent
    BY <2>2, AppendSent DEF SentGrows
  <2> QED
    BY <2>1, <2>2
<1>2. DOMAIN ops = 1 .. Len(ops) /\ Len(ops) \in Nat
  OBVIOUS
<1>3. DOMAIN ops \subseteq DOMAIN ops' /\ \A i \in DOMAIN ops : ops'[i] = ops[i]
  <2>1. CASE ops' = ops
    BY <2>1
  <2>2. CASE ops' # ops
    BY <2>2, AppendOps DEF OpsGrow
  <2> QED
    BY <2>1, <2>2
<1> QED
  BY <1>1, <1>2, <1>3

\* A measurement that was explained stays so.
LEMMA MeasuredStays ==
    ASSUME SentType, ops \in Seq(Ops), SentGrows, OpsGrow,
           NEW a, NEW q, Measured(a, q)
    PROVE  Measured(a, q)'
<1>1. /\ Queries \subseteq Queries'
      /\ \A x \in Queries : sent'[x] = sent[x]
      /\ DOMAIN ops \subseteq DOMAIN ops'
      /\ \A i \in DOMAIN ops : ops'[i] = ops[i]
  BY Grown
<1>2. a \in Queries /\ q \in Queries /\ Noted(q)
  BY DEF Measured
<1>3. Noted(q)'
  BY <1>1, <1>2 DEF Noted
<1>4. NotedAfter(q, a) => NotedAfter(q, a)'
  BY <1>1 DEF NotedAfter, Attempts
<1> QED
  BY <1>1, <1>2, <1>3, <1>4 DEF Measured

\* The keys in the map before an operation do not depend on later ones.
LEMMA OccupiedStays ==
    ASSUME SentType, ops \in Seq(Ops), SentGrows, OpsGrow,
           NEW n \in 1 .. Len(ops) + 1
    PROVE  Occupied(n)' = Occupied(n)
<1>1. /\ Len(ops) \in Nat /\ DOMAIN ops = 1 .. Len(ops)
      /\ \A i \in DOMAIN ops : ops'[i] = ops[i]
  BY Grown
<1>2. \A h \in 1 .. n - 1 : ops'[h] = ops[h]
  BY <1>1
<1> DEFINE Last(h) == ops[h].op = "note" /\ \A j \in h + 1 .. n - 1 :
                        ~(ops[j].op = "delete" /\ ops[j].key = ops[h].key)
           LastNow(h) == ops'[h].op = "note" /\ \A j \in h + 1 .. n - 1 :
                        ~(ops'[j].op = "delete" /\ ops'[j].key = ops'[h].key)
<1>3. /\ Occupied(n) = {ops[h].key : h \in {h \in 1 .. n - 1 : Last(h)}}
      /\ Occupied(n)' = {ops'[h].key : h \in {h \in 1 .. n - 1 : LastNow(h)}}
  BY DEF Occupied, Deletes
<1>4. ASSUME NEW h \in 1 .. n - 1 PROVE LastNow(h) <=> Last(h)
  <2>1. \A j \in h + 1 .. n - 1 : j \in 1 .. n - 1
    OBVIOUS
  <2> QED
    BY <1>2, <2>1
<1> HIDE DEF Last, LastNow
<1>5. {h \in 1 .. n - 1 : LastNow(h)} = {h \in 1 .. n - 1 : Last(h)}
  BY <1>4
<1>6. {ops'[h].key : h \in {h \in 1 .. n - 1 : Last(h)}}
        = {ops[h].key : h \in {h \in 1 .. n - 1 : Last(h)}}
  BY <1>2
<1> QED
  BY <1>3, <1>5, <1>6

\* What was explained stays so.
LEMMA ExplainedStays ==
    ASSUME IInv, SentGrows, OpsGrow, NEW m \in DOMAIN ops
    PROVE  (FullOk(m) /\ MissOk(m))'
<1>1. /\ \A q \in Queries : sent'[q] = sent[q]
      /\ Len(ops) \in Nat /\ DOMAIN ops = 1 .. Len(ops)
      /\ \A i \in DOMAIN ops : i \in Nat /\ i <= Len(ops) /\ ops'[i] = ops[i]
  BY Grown DEF IInv, OpsTyped
<1>2. \A i \in DOMAIN ops : Occupied(i)' = Occupied(i)
  BY <1>1, OccupiedStays DEF IInv, OpsTyped
<1>3. FullOk(m) /\ MissOk(m) /\ ops[m].id \in Queries
  BY DEF IInv, OpsExplained, OpsTyped
<1>4. FullOk(m)'
  BY <1>1, <1>2, <1>3 DEF FullOk
<1>5. ops'[m] = ops[m] /\ sent'[ops[m].id] = sent[ops[m].id]
  BY <1>1, <1>3
<1>6. \A i \in 1 .. m - 1 : i \in DOMAIN ops /\ ops'[i] = ops[i] /\ Occupied(i)' = Occupied(i)
  BY <1>1, <1>2
<1>7. \A d \in 1 .. m - 1 : \A k : Deletes(d, k)' <=> Deletes(d, k)
  BY <1>6 DEF Deletes
<1>8. MissOk(m)'
  BY <1>3, <1>5, <1>6, <1>7 DEF MissOk
<1> QED
  BY <1>4, <1>8

\* The map can be read off the operations.
LEMMA OccupiedNow ==
    ASSUME OpsTyped, EntryIsLast, NotedStays
    PROVE  Occupied(Len(ops) + 1) = DOMAIN queries
<1>1. Len(ops) \in Nat /\ DOMAIN ops = 1 .. Len(ops) /\ Len(ops) + 1 - 1 = Len(ops)
  BY DEF OpsTyped
<1>2. Occupied(Len(ops) + 1) =
        {ops[h].key : h \in {h \in DOMAIN ops :
            ops[h].op = "note" /\ \A j \in h + 1 .. Len(ops) : ~Deletes(j, ops[h].key)}}
  BY <1>1 DEF Occupied
<1>3. ASSUME NEW h \in DOMAIN ops, ops[h].op = "note",
             \A j \in h + 1 .. Len(ops) : ~Deletes(j, ops[h].key)
      PROVE  ops[h].key \in DOMAIN queries
  BY <1>1, <1>3 DEF NotedStays
<1>4. ASSUME NEW k \in DOMAIN queries
      PROVE  \E h \in DOMAIN ops :
                /\ ops[h].op = "note" /\ ops[h].key = k
                /\ \A j \in h + 1 .. Len(ops) : ~Deletes(j, ops[h].key)
  <2>1. PICK i \in DOMAIN ops :
            /\ ops[i] = Op("note", queries[k], k)
            /\ \A j \in DOMAIN ops : j > i /\ ops[j].key = k => ops[j].op = "miss"
    BY DEF EntryIsLast
  <2>2. ops[i].op = "note" /\ ops[i].key = k
    BY <2>1 DEF Op
  <2>3. \A j \in i + 1 .. Len(ops) : j \in DOMAIN ops /\ j > i
    BY <1>1
  <2>4. \A j \in i + 1 .. Len(ops) : ~Deletes(j, k)
    BY <2>1, <2>3 DEF Deletes
  <2> QED
    BY <2>2, <2>4
<1> QED
  BY <1>2, <1>3, <1>4

-----------------------------------------------------------------------------
(* What a step keeps. *)

\* Parts about the map, when the map and the operations stay as they are.
LEMMA MapKeeps ==
    ASSUME IInv, SentGrows, UNCHANGED <<queries, ops>>
    PROVE  (OpsTyped /\ EntryIsLast /\ NotedStays /\ MapFits /\ OpsExplained)'
<1>1. OpsGrow
  BY DEF OpsGrow
<1>2. /\ Queries \subseteq Queries'
      /\ \A q \in Queries : sent'[q] = sent[q]
  BY <1>1, Grown DEF IInv, OpsTyped
<1>3. OpsTyped'
  BY <1>2 DEF IInv, OpsTyped
<1>4. EntryIsLast' /\ NotedStays' /\ MapFits'
  BY DEF IInv, EntryIsLast, NotedStays, MapFits, Deletes
<1>5. OpsExplained'
  BY <1>1, ExplainedStays DEF OpsExplained
<1> QED
  BY <1>3, <1>4, <1>5

\* Parts about the history of the map, when operation e is appended.
LEMMA OpsKeep ==
    ASSUME IInv, UNCHANGED sent, NEW e \in Ops, ops' = Append(ops, e),
           e.id \in Queries,
           e.op \in {"note", "full"} => e.key = sent[e.id].port,
           NEW n, n = Len(ops) + 1, (FullOk(n) /\ MissOk(n))'
    PROVE  (OpsTyped /\ OpsExplained)'
<1>1. SentGrows /\ OpsGrow /\ Queries' = Queries
  BY DEF SentGrows, OpsGrow, Queries
<1>2. /\ ops' \in Seq(Ops)
      /\ DOMAIN ops' = DOMAIN ops \cup {Len(ops) + 1}
      /\ \A i \in DOMAIN ops : ops'[i] = ops[i]
      /\ ops'[Len(ops) + 1] = e
  BY AppendOps DEF IInv, OpsTyped
<1>3. OpsTyped'
  BY <1>1, <1>2 DEF IInv, OpsTyped
<1>4. OpsExplained'
  BY <1>1, <1>2, ExplainedStays DEF OpsExplained
<1> QED
  BY <1>3, <1>4

\* Entries and notes stay when a miss is appended, or the refusal of a query
\* whose port has no entry.
LEMMA LastKeeps ==
    ASSUME IInv, queries' = queries, NEW e, NEW l,
           DOMAIN ops' = DOMAIN ops \cup {l},
           \A i \in DOMAIN ops : ops'[i] = ops[i],
           ops'[l] = e,
           \/ e.op = "miss"
           \/ e.op = "full" /\ e.key \notin DOMAIN queries
    PROVE  (EntryIsLast /\ NotedStays /\ MapFits)'
<1>1. EntryIsLast'
  <2> SUFFICES ASSUME NEW x \in DOMAIN queries
               PROVE  \E i \in DOMAIN ops' :
                        /\ ops'[i] = Op("note", queries[x], x)
                        /\ \A j \in DOMAIN ops' : j > i /\ ops'[j].key = x
                                => ops'[j].op = "miss"
    BY DEF EntryIsLast
  <2>1. PICK i \in DOMAIN ops :
            /\ ops[i] = Op("note", queries[x], x)
            /\ \A j \in DOMAIN ops : j > i /\ ops[j].key = x => ops[j].op = "miss"
    BY DEF IInv, EntryIsLast
  <2> QED
    BY <2>1
<1>2. NotedStays'
  <2> SUFFICES ASSUME NEW i \in DOMAIN ops', ops'[i].op = "note"
               PROVE  \/ ops'[i].key \in DOMAIN queries
                      \/ \E d \in DOMAIN ops' :
                            d > i /\ ops'[d].op = "delete" /\ ops'[d].key = ops'[i].key
    BY DEF NotedStays, Deletes
  <2>1. i \in DOMAIN ops /\ ops'[i] = ops[i]
    OBVIOUS
  <2> QED
    BY <2>1 DEF IInv, NotedStays, Deletes
<1>3. MapFits'
  BY DEF IInv, MapFits
<1> QED
  BY <1>1, <1>2, <1>3

\* A step that changes neither runs nor samples, and makes no query findable
\* that a run or a sample is about.
LEMMA RunsKeep ==
    ASSUME IInv, SentGrows, OpsGrow,
           \A q : Noted(q) /\ ~Findable(q) => ~Findable(q)',
           \A c \in CPUs : cpu'[c].pc \in {"found", "deleted"} => cpu'[c] = cpu[c],
           samples' = samples
    PROVE  (RunsExplained /\ SamplesExplained)'
<1>1. \A a, q : Measured(a, q) => Measured(a, q)'
  BY MeasuredStays DEF IInv, OpsTyped
<1>2. \A q \in Queries : sent'[q] = sent[q]
  BY Grown DEF IInv, OpsTyped
<1>3. RunsExplained'
  <2> SUFFICES ASSUME NEW c \in CPUs, cpu'[c].pc \in {"found", "deleted"}
               PROVE  /\ \A a, q : a = cpu'[c].answer /\ q = cpu'[c].query
                                    => Measured(a, q)'
                      /\ cpu'[c].key = sent'[cpu'[c].query].port
                      /\ cpu'[c].pc = "deleted" =>
                            \A q : q = cpu'[c].query => ~Findable(q)'
    BY DEF RunsExplained
  <2>1. cpu'[c] = cpu[c]
    OBVIOUS
  <2>2. /\ Measured(cpu[c].answer, cpu[c].query)
        /\ cpu[c].key = sent[cpu[c].query].port
        /\ cpu[c].pc = "deleted" => ~Findable(cpu[c].query)
    BY <2>1 DEF IInv, RunsExplained
  <2>3. Noted(cpu[c].query) /\ cpu[c].query \in Queries
    BY <2>2 DEF Measured
  <2> QED
    BY <1>1, <1>2, <2>1, <2>2, <2>3
<1>4. SamplesExplained'
  <2> SUFFICES ASSUME NEW s \in samples
               PROVE  /\ Measured(s.answer, s.query)'
                      /\ ~Findable(s.query)'
                      /\ s.cpu \notin Finders(s.query)'
    BY DEF SamplesExplained
  <2>1. Measured(s.answer, s.query) /\ ~Findable(s.query) /\ s.cpu \notin Finders(s.query)
    BY DEF IInv, SamplesExplained
  <2>2. Noted(s.query)
    BY <2>1 DEF Measured
  <2>3. s.cpu \notin Finders(s.query)'
    BY <2>1 DEF Finders
  <2> QED
    BY <1>1, <2>1, <2>2, <2>3
<1> QED
  BY <1>3, <1>4

\* The attempts of queries already sent stay made.
LEMMA AttemptsKeep ==
    ASSUME IInv, SentGrows, OpsGrow, answers' \subseteq answers
    PROVE  AnswersAttempted'
<1>1. /\ \A q \in Queries : sent'[q] = sent[q]
      /\ DOMAIN ops \subseteq DOMAIN ops'
      /\ \A i \in DOMAIN ops : ops'[i] = ops[i]
  BY Grown DEF IInv, OpsTyped
<1> QED
  BY <1>1 DEF IInv, AnswersAttempted, Attempts

\* Senders stay fresh when no run begins to send and no attempt is made.
LEMMA SendersKeep ==
    ASSUME IInv, SentGrows, OpsGrow,
           \A c \in CPUs : cpu'[c].pc = "send" => cpu'[c] = cpu[c],
           \A i \in DOMAIN ops' \ DOMAIN ops : ops'[i].op \notin {"note", "full"}
    PROVE  SendersFresh'
<1>1. /\ Queries \subseteq Queries'
      /\ \A i \in DOMAIN ops : ops'[i] = ops[i]
  BY Grown DEF IInv, OpsTyped
<1>2. \A q : \A i \in DOMAIN ops' : Attempts(i, q)' => i \in DOMAIN ops /\ Attempts(i, q)
  BY <1>1 DEF Attempts
<1> QED
  BY <1>1, <1>2 DEF IInv, SendersFresh

-----------------------------------------------------------------------------
(* The steps. *)

LEMMA InitInv ==
    ASSUME Init
    PROVE  IInv
<1>1. DOMAIN queries = {} /\ sent = <<>> /\ Queries = {} /\ ops = <<>> /\ DOMAIN ops = {}
  BY DEF Init, Queries
<1>2. MapFits
  BY <1>1, FS_EmptySet, DnsBounds DEF MapFits
<1>3. SentType /\ ring \in 0 .. RingSize /\ deliveries \in 0 .. MaxDeliveries
  BY DnsBounds DEF Init, SentType
<1>4. ops \in Seq(Ops)
  BY <1>1
<1>5. /\ OpsTyped /\ EntryIsLast /\ NotedStays /\ OpsExplained
      /\ AnswersAttempted
  BY <1>1, <1>4 DEF Init, OpsTyped, EntryIsLast, NotedStays, OpsExplained, AnswersAttempted
<1>6. SendersFresh /\ RunsExplained /\ SamplesExplained
  BY DEF Init, Idle, SendersFresh, RunsExplained, SamplesExplained
<1> QED
  BY <1>2, <1>3, <1>5, <1>6 DEF Init, IInv

LEMMA StepUdpSendmsg ==
    ASSUME IInv, NEW c \in CPUs, NEW p \in Ports, UdpSendmsg(c, p)
    PROVE  IInv'
<1> DEFINE n == Len(sent) + 1
<1>1. /\ sent' = Append(sent, [port |-> p, via |-> "connect"])
      /\ cpu' = [cpu EXCEPT ![c] = Sender(n)]
      /\ UNCHANGED <<answers, queries, ops, samples, ring, deliveries>>
  BY DEF UdpSendmsg
<1>2. SentGrows /\ OpsGrow
  BY <1>1 DEF SentGrows, OpsGrow
<1>a. SentType
  BY DEF IInv
<1>3. /\ SentType' /\ Queries' = Queries \cup {n} /\ n \in Nat
      /\ n \notin Queries
  BY <1>1, <1>a DEF SentType, Queries
<1>4. (OpsTyped /\ EntryIsLast /\ NotedStays /\ MapFits /\ OpsExplained)'
  BY <1>1, <1>2, MapKeeps
<1>5. cpu'[c] = Sender(n) /\ \A d \in CPUs \ {c} : cpu'[d] = cpu[d]
  BY <1>1 DEF IInv
<1>6. Sender(n) \in Senders /\ Sender(n).pc = "send" /\ Sender(n).query = n
  BY <1>3 DEF Sender, Senders
<1> HIDE DEF n
<1>7. cpu' \in [CPUs -> {Idle} \cup Senders \cup Runs]
  BY <1>1, <1>6 DEF IInv
<1>8. (RunsExplained /\ SamplesExplained)'
  <2>1. \A q : Findable(q)' <=> Findable(q)
    BY <1>1 DEF Findable
  <2>2. \A d \in CPUs : cpu'[d].pc \in {"found", "deleted"} => cpu'[d] = cpu[d]
    BY <1>5, <1>6
  <2> QED
    BY <1>1, <1>2, <2>1, <2>2, RunsKeep
<1>9. AnswersAttempted'
  BY <1>1, <1>2, AttemptsKeep
<1>10. SendersFresh'
  <2>1. \A i \in DOMAIN ops : ops[i].id # n
    BY <1>3 DEF IInv, OpsTyped
  <2>2. \A d \in CPUs : cpu[d].pc = "send" => cpu[d].query # n
    BY <1>3 DEF IInv, SendersFresh
  <2>3. \A q : \A i \in DOMAIN ops' : Attempts(i, q)' <=> Attempts(i, q)
    BY <1>1 DEF Attempts
  <2> SUFFICES ASSUME NEW b \in CPUs, cpu'[b].pc = "send"
               PROVE  /\ cpu'[b].query \in Queries'
                      /\ \A q : \A i \in DOMAIN ops' : q = cpu'[b].query => ~Attempts(i, q)'
                      /\ \A d \in CPUs : d # b /\ cpu'[d].pc = "send"
                            => cpu'[d].query # cpu'[b].query
    BY DEF SendersFresh
  <2>4. CASE b = c
    <3>1. cpu'[b].query = n
      BY <1>5, <1>6, <2>4
    <3>2. \A i \in DOMAIN ops' : ~Attempts(i, n)
      BY <1>1, <2>1 DEF Attempts
    <3> QED
      BY <1>3, <1>5, <2>2, <2>3, <2>4, <3>1, <3>2
  <2>5. CASE b # c
    <3>1. cpu'[b] = cpu[b]
      BY <1>5, <2>5
    <3>2. /\ cpu[b].query \in Queries
          /\ \A i \in DOMAIN ops : ~Attempts(i, cpu[b].query)
          /\ \A d \in CPUs : d # b /\ cpu[d].pc = "send" => cpu[d].query # cpu[b].query
      BY <3>1 DEF IInv, SendersFresh
    <3>3. \A d \in CPUs : d # b /\ cpu'[d].pc = "send" => cpu'[d].query # cpu'[b].query
      BY <1>3, <1>5, <1>6, <3>1, <3>2
    <3> QED
      BY <1>1, <1>3, <2>3, <3>1, <3>2, <3>3
  <2> QED
    BY <2>4, <2>5
<1> QED
  BY <1>1, <1>3, <1>4, <1>7, <1>8, <1>9, <1>10 DEF IInv

LEMMA StepUdpSendto ==
    ASSUME IInv, NEW p \in Ports, UdpSendto(p)
    PROVE  IInv'
<1> DEFINE n == Len(sent) + 1
<1>1. /\ sent' = Append(sent, [port |-> p, via |-> "sendto"])
      /\ answers' = answers \cup {n}
      /\ UNCHANGED <<queries, ops, cpu, samples, ring, deliveries>>
  BY DEF UdpSendto
<1>2. SentGrows /\ OpsGrow
  BY <1>1 DEF SentGrows, OpsGrow
<1>3. /\ SentType' /\ Queries' = Queries \cup {n}
      /\ \A q \in Queries : sent'[q] = sent[q]
      /\ sent'[n].via = "sendto"
  <2>1. SentType
    BY DEF IInv
  <2> QED
    BY <1>1, <2>1 DEF SentType, Queries
<1>4. (OpsTyped /\ EntryIsLast /\ NotedStays /\ MapFits /\ OpsExplained)'
  BY <1>1, <1>2, MapKeeps
<1>5. (RunsExplained /\ SamplesExplained)'
  <2>1. \A q : Findable(q)' <=> Findable(q)
    BY <1>1 DEF Findable
  <2> QED
    BY <1>1, <1>2, <2>1, RunsKeep
<1>6. AnswersAttempted'
  <2>1. \A i, q : Attempts(i, q)' <=> Attempts(i, q)
    BY <1>1 DEF Attempts
  <2> QED
    BY <1>1, <1>3, <2>1 DEF IInv, AnswersAttempted
<1>7. SendersFresh'
  BY <1>1, <1>2, SendersKeep
<1> QED
  BY <1>1, <1>3, <1>4, <1>5, <1>6, <1>7 DEF IInv

\* The byte-swapped port is a port.
LEMMA Bswap16Type == \A x \in U16 : Bswap16(x) \in U16
<1> SUFFICES ASSUME NEW x \in U16 PROVE Bswap16(x) \in U16
  OBVIOUS
<1>1. x % 256 \in 0 .. 255 /\ x \div 256 \in 0 .. 255
  BY DEF U16
<1>2. \A a, b \in 0 .. 255 : a * 256 + b \in U16
  BY DEF U16
<1> QED
  BY <1>1, <1>2 DEF Bswap16

\* An entry sits at the port of its query, which has been noted.
LEMMA EntryFacts ==
    ASSUME IInv, NEW k \in DOMAIN queries
    PROVE  /\ queries[k] \in Queries /\ sent[queries[k]].port = k
           /\ Noted(queries[k])
<1>1. PICK i \in DOMAIN ops : ops[i] = Op("note", queries[k], k)
  BY DEF IInv, EntryIsLast
<1>2. ops[i].op = "note" /\ ops[i].id = queries[k] /\ ops[i].key = k
  BY <1>1 DEF Op
<1> QED
  BY <1>2 DEF IInv, OpsTyped, Noted

LEMMA QueryFacts ==
    ASSUME IInv, NEW q \in Queries
    PROVE  q \in Nat /\ sent[q].port \in U16
<1>1. sent \in Seq([port : Ports, via : {"connect", "sendto"}]) /\ q \in 1 .. Len(sent)
  BY DEF IInv, SentType, Queries
<1>2. sent[q] \in [port : Ports, via : {"connect", "sendto"}]
  BY <1>1, ElementOfSeq
<1>3. sent[q].port \in Ports
  BY <1>2
<1> QED
  BY <1>1, <1>3, PortsAre16Bit

LEMMA OpFacts ==
    ASSUME NEW o \in {"note", "full", "delete", "miss"}, NEW n \in Nat, NEW k \in U16
    PROVE  /\ Op(o, n, k) \in Ops
           /\ Op(o, n, k).op = o /\ Op(o, n, k).id = n /\ Op(o, n, k).key = k
BY DEF Op, Ops

\* The end of a run of udp_sendmsg, whether the query was noted or not.
LEMMA SentKeeps ==
    ASSUME IInv, NEW c \in CPUs, cpu[c].pc = "send", Sent(c),
           NEW o \in {"note", "full"},
           ops' = Append(ops, Op(o, cpu[c].query, sent[cpu[c].query].port))
    PROVE  /\ cpu[c].query \in Queries /\ sent[cpu[c].query].port \in U16
           /\ Op(o, cpu[c].query, sent[cpu[c].query].port) \in Ops
           /\ ~Noted(cpu[c].query)
           /\ (SentType /\ answers \subseteq Queries)'
           /\ cpu' \in [CPUs -> {Idle} \cup Senders \cup Runs]
           /\ ring' \in 0 .. RingSize /\ deliveries' \in 0 .. MaxDeliveries
           /\ (AnswersAttempted /\ SendersFresh)'
           /\ \A d \in CPUs : cpu'[d] = IF d = c THEN Idle ELSE cpu[d]
<1> DEFINE n == cpu[c].query
           e == Op(o, n, sent[n].port)
<1>1. /\ answers' = answers \cup {n}
      /\ cpu' = [cpu EXCEPT ![c] = Idle]
      /\ Submit
      /\ UNCHANGED <<sent, samples, deliveries>>
  BY DEF Sent
<1>2. /\ n \in Queries
      /\ \A i \in DOMAIN ops : ~Attempts(i, n)
      /\ \A d \in CPUs : d # c /\ cpu[d].pc = "send" => cpu[d].query # n
  BY DEF IInv, SendersFresh
<1>3. n \in Nat /\ sent[n].port \in U16
  BY <1>2, QueryFacts
<1>4. e \in Ops /\ e.op = o /\ e.id = n
  BY <1>3, OpFacts
<1> HIDE DEF n, e
<1>5. /\ DOMAIN ops' = DOMAIN ops \cup {Len(ops) + 1}
      /\ \A i \in DOMAIN ops : ops'[i] = ops[i]
      /\ ops'[Len(ops) + 1] = e
  BY <1>4, AppendOps DEF IInv, OpsTyped, e, n
<1>6. ~Noted(n)
  BY <1>2 DEF Noted, Attempts
<1>7. UNCHANGED Queries
  BY <1>1 DEF Queries
<1>8. (SentType /\ answers \subseteq Queries)'
  BY <1>1, <1>2, <1>7 DEF IInv, SentType
<1>9. cpu' \in [CPUs -> {Idle} \cup Senders \cup Runs]
  BY <1>1 DEF IInv
<1>10. ring' \in 0 .. RingSize /\ deliveries' \in 0 .. MaxDeliveries
  BY <1>1, SubmitType DEF IInv
<1>11. AnswersAttempted'
  <2> SUFFICES ASSUME NEW a \in answers', sent[a].via = "connect"
               PROVE  \E i \in DOMAIN ops' :
                        ops'[i].op \in {"note", "full"} /\ ops'[i].id = a
    BY <1>1 DEF AnswersAttempted, Attempts
  <2>2. CASE a = n
    BY <1>4, <1>5, <2>2
  <2>3. CASE a \in answers
    BY <1>5, <2>3 DEF IInv, AnswersAttempted, Attempts
  <2> QED
    BY <1>1, <2>2, <2>3
<1>12. \A d \in CPUs : cpu'[d] = IF d = c THEN Idle ELSE cpu[d]
  BY <1>1 DEF IInv
<1>13. SendersFresh'
  <2> SUFFICES ASSUME NEW b \in CPUs, cpu'[b].pc = "send"
               PROVE  /\ cpu'[b].query \in Queries
                      /\ \A i \in DOMAIN ops' : ~(ops'[i].op \in {"note", "full"}
                                                    /\ ops'[i].id = cpu'[b].query)
                      /\ \A d \in CPUs : d # b /\ cpu'[d].pc = "send"
                            => cpu'[d].query # cpu'[b].query
    BY <1>7 DEF SendersFresh, Attempts
  <2>1. b # c /\ cpu'[b] = cpu[b]
    BY <1>12 DEF Idle
  <2>2. /\ cpu[b].query \in Queries /\ cpu[b].query # n
        /\ \A i \in DOMAIN ops : ~Attempts(i, cpu[b].query)
        /\ \A d \in CPUs : d # b /\ cpu[d].pc = "send" => cpu[d].query # cpu[b].query
    BY <1>2, <2>1 DEF IInv, SendersFresh
  <2>3. \A i \in DOMAIN ops' : ~(ops'[i].op \in {"note", "full"}
                                    /\ ops'[i].id = cpu[b].query)
    BY <1>4, <1>5, <2>2 DEF Attempts
  <2>4. \A d \in CPUs : cpu'[d].pc = "send" => cpu'[d] = cpu[d]
    BY <1>12 DEF Idle
  <2> QED
    BY <2>1, <2>2, <2>3, <2>4
<1> QED
  BY <1>2, <1>3, <1>4, <1>6, <1>8, <1>9, <1>10, <1>11, <1>12, <1>13 DEF e, n

LEMMA StepNote ==
    ASSUME IInv, NEW c \in CPUs, Note(c)
    PROVE  IInv'
<1> DEFINE n == cpu[c].query
           k == sent[n].port
           l == Len(ops) + 1
<1>1. /\ cpu[c].pc = "send" /\ Sent(c)
      /\ k \in DOMAIN queries \/ Cardinality(DOMAIN queries) < Capacity
      /\ queries' = [x \in DOMAIN queries \cup {k} |-> IF x = k THEN n ELSE queries[x]]
      /\ ops' = Append(ops, Op("note", n, k))
      /\ sent' = sent /\ samples' = samples
  BY DEF Note, QueryKey, Sent
<1>2. /\ n \in Queries /\ k \in U16
      /\ Op("note", n, k) \in Ops
      /\ ~Noted(n)
      /\ (SentType /\ answers \subseteq Queries)'
      /\ cpu' \in [CPUs -> {Idle} \cup Senders \cup Runs]
      /\ ring' \in 0 .. RingSize /\ deliveries' \in 0 .. MaxDeliveries
      /\ (AnswersAttempted /\ SendersFresh)'
      /\ \A d \in CPUs : cpu'[d] = IF d = c THEN Idle ELSE cpu[d]
  BY <1>1, SentKeeps
<1>3. /\ Op("note", n, k).op = "note" /\ Op("note", n, k).id = n /\ Op("note", n, k).key = k
  BY DEF Op
<1>4. /\ Len(ops) \in Nat
      /\ DOMAIN ops' = DOMAIN ops \cup {l}
      /\ \A i \in DOMAIN ops : i \in Nat /\ i < l /\ ops'[i] = ops[i]
      /\ ops'[l] = Op("note", n, k)
  BY <1>1, <1>2, AppendOps DEF IInv, OpsTyped
<1>5. SentGrows /\ OpsGrow
  BY <1>1, <1>2 DEF SentGrows, OpsGrow
<1> HIDE DEF n, k, l
<1>6. /\ DOMAIN queries' = DOMAIN queries \cup {k}
      /\ \A x \in DOMAIN queries' : queries'[x] = IF x = k THEN n ELSE queries[x]
  BY <1>1
<1>7. (OpsTyped /\ OpsExplained)'
  <2>1. ASSUME NEW i, i = l PROVE (FullOk(i) /\ MissOk(i))'
    BY <1>3, <1>4, <2>1 DEF FullOk, MissOk
  <2> QED
    BY <1>1, <1>2, <1>3, <2>1, OpsKeep DEF k, l
<1>8. EntryIsLast'
  <2> SUFFICES ASSUME NEW x \in DOMAIN queries'
               PROVE  \E i \in DOMAIN ops' :
                        /\ ops'[i] = Op("note", queries'[x], x)
                        /\ \A j \in DOMAIN ops' : j > i /\ ops'[j].key = x
                                => ops'[j].op = "miss"
    BY DEF EntryIsLast
  <2>1. CASE x = k
    <3>1. ops'[l] = Op("note", queries'[x], x)
      BY <1>4, <1>6, <2>1
    <3>2. \A j \in DOMAIN ops' : ~(j > l)
      BY <1>4 DEF l
    <3> QED
      BY <1>4, <3>1, <3>2
  <2>2. CASE x # k
    <3>1. PICK i \in DOMAIN ops :
            /\ ops[i] = Op("note", queries[x], x)
            /\ \A j \in DOMAIN ops : j > i /\ ops[j].key = x => ops[j].op = "miss"
      BY <1>6, <2>2 DEF IInv, EntryIsLast
    <3>2. \A j \in DOMAIN ops' : j > i /\ ops'[j].key = x => ops'[j].op = "miss"
      BY <1>3, <1>4, <2>2, <3>1
    <3> QED
      BY <1>4, <1>6, <2>2, <3>1, <3>2
  <2> QED
    BY <2>1, <2>2
<1>9. NotedStays'
  <2> SUFFICES ASSUME NEW i \in DOMAIN ops', ops'[i].op = "note",
                      ops'[i].key \notin DOMAIN queries'
               PROVE  \E d \in DOMAIN ops' :
                        d > i /\ ops'[d].op = "delete" /\ ops'[d].key = ops'[i].key
    BY DEF NotedStays, Deletes
  <2>1. i \in DOMAIN ops
    BY <1>3, <1>4, <1>6
  <2> QED
    BY <1>4, <1>6, <2>1 DEF IInv, NotedStays, Deletes
<1>10. MapFits'
  <2>1. /\ DOMAIN queries \subseteq U16
        /\ IsFiniteSet(DOMAIN queries)
        /\ Cardinality(DOMAIN queries) <= Capacity
        /\ Cardinality(DOMAIN queries) \in Nat
    BY FS_CardinalityType DEF IInv, MapFits
  <2>2. CASE k \in DOMAIN queries
    <3>1. DOMAIN queries' = DOMAIN queries
      BY <1>6, <2>2
    <3> QED
      BY <2>1, <3>1 DEF MapFits
  <2>3. CASE k \notin DOMAIN queries
    <3>1. /\ IsFiniteSet(DOMAIN queries \cup {k})
          /\ Cardinality(DOMAIN queries \cup {k}) = Cardinality(DOMAIN queries) + 1
      BY <2>1, <2>3, FS_AddElement
    <3> QED
      BY <1>1, <1>2, <1>6, <2>1, <2>3, <3>1, DnsBounds DEF MapFits
  <2> QED
    BY <2>2, <2>3
<1>11. (RunsExplained /\ SamplesExplained)'
  <2>1. \A q : Noted(q) /\ ~Findable(q) => ~Findable(q)'
    BY <1>2, <1>6 DEF Findable
  <2>2. \A d \in CPUs : cpu'[d].pc \in {"found", "deleted"} => cpu'[d] = cpu[d]
    BY <1>2 DEF Idle
  <2> QED
    BY <1>1, <1>5, <2>1, <2>2, RunsKeep
<1> QED
  BY <1>2, <1>7, <1>8, <1>9, <1>10, <1>11 DEF IInv

LEMMA StepNoteFull ==
    ASSUME IInv, NEW c \in CPUs, NoteFull(c)
    PROVE  IInv'
<1> DEFINE n == cpu[c].query
           k == sent[n].port
           l == Len(ops) + 1
<1>1. /\ cpu[c].pc = "send" /\ Sent(c)
      /\ k \notin DOMAIN queries /\ Cardinality(DOMAIN queries) >= Capacity
      /\ ops' = Append(ops, Op("full", n, k))
      /\ sent' = sent /\ samples' = samples /\ queries' = queries
  BY DEF NoteFull, QueryKey, Sent
<1>2. /\ n \in Queries /\ k \in U16
      /\ Op("full", n, k) \in Ops
      /\ (SentType /\ answers \subseteq Queries)'
      /\ cpu' \in [CPUs -> {Idle} \cup Senders \cup Runs]
      /\ ring' \in 0 .. RingSize /\ deliveries' \in 0 .. MaxDeliveries
      /\ (AnswersAttempted /\ SendersFresh)'
      /\ \A d \in CPUs : cpu'[d] = IF d = c THEN Idle ELSE cpu[d]
  BY <1>1, SentKeeps
<1>3. /\ Op("full", n, k).op = "full" /\ Op("full", n, k).id = n /\ Op("full", n, k).key = k
  BY DEF Op
<1>4. /\ Len(ops) \in Nat
      /\ DOMAIN ops' = DOMAIN ops \cup {l}
      /\ \A i \in DOMAIN ops : i \in Nat /\ i < l /\ ops'[i] = ops[i]
      /\ ops'[l] = Op("full", n, k)
      /\ l \in 1 .. l
  BY <1>1, <1>2, AppendOps DEF IInv, OpsTyped
<1>5. SentGrows /\ OpsGrow
  BY <1>1, <1>2 DEF SentGrows, OpsGrow
<1>6. Occupied(l) = DOMAIN queries
  BY OccupiedNow DEF IInv
<1>7. ASSUME NEW i, i = l PROVE Occupied(i)' = DOMAIN queries
  BY <1>4, <1>5, <1>6, <1>7, OccupiedStays DEF IInv, OpsTyped
<1> HIDE DEF n, k, l
<1>8. (OpsTyped /\ OpsExplained)'
  <2>1. ASSUME NEW i, i = l PROVE (FullOk(i) /\ MissOk(i))'
    <3>1. ops'[i].op = "full" /\ ops'[i].key = k
      BY <1>3, <1>4, <2>1
    <3>2. FullOk(i)'
      BY <1>1, <1>7, <2>1, <3>1 DEF FullOk
    <3>3. MissOk(i)'
      BY <3>1 DEF MissOk
    <3> QED
      BY <3>2, <3>3
  <2> QED
    BY <1>1, <1>2, <1>3, <2>1, OpsKeep DEF k, l
<1>9. (EntryIsLast /\ NotedStays /\ MapFits)'
  BY <1>1, <1>3, <1>4, LastKeeps
<1>10. (RunsExplained /\ SamplesExplained)'
  <2>1. \A q : Findable(q)' <=> Findable(q)
    BY <1>1 DEF Findable
  <2>2. \A d \in CPUs : cpu'[d].pc \in {"found", "deleted"} => cpu'[d] = cpu[d]
    BY <1>2 DEF Idle
  <2> QED
    BY <1>1, <1>5, <2>1, <2>2, RunsKeep
<1> QED
  BY <1>2, <1>8, <1>9, <1>10 DEF IInv

LEMMA DeliverTypes ==
    ASSUME IInv, NEW a \in answers, Deliver(a)
    PROVE  /\ a \in Queries
           /\ answers' \subseteq answers
           /\ deliveries' \in 0 .. MaxDeliveries
BY DnsBounds DEF IInv, Deliver

\* What udp_rcv finds under the port of an answer is as new in the map as
\* the query answered.
LEMMA FoundMeasured ==
    ASSUME IInv, NEW a \in answers, NEW k \in DOMAIN queries
    PROVE  Measured(a, queries[k])
<1> DEFINE q == queries[k]
<1>1. q \in Queries /\ sent[q].port = k /\ Noted(q)
  BY EntryFacts
<1>2. PICK i \in DOMAIN ops :
        /\ ops[i] = Op("note", q, k)
        /\ \A j \in DOMAIN ops : j > i /\ ops[j].key = k => ops[j].op = "miss"
  BY DEF IInv, EntryIsLast
<1>3. ops[i].op = "note" /\ ops[i].id = q
  BY <1>2 DEF Op
<1>4. a \in Queries /\ a \in Nat /\ q \in Nat
  BY <1>1, QueryFacts DEF IInv
<1> HIDE DEF q
<1>5. ASSUME sent[a].via = "connect", sent[q].port = sent[a].port
      PROVE  q >= a \/ NotedAfter(q, a)
  <2>1. PICK h \in DOMAIN ops : Attempts(h, a)
    BY <1>5 DEF IInv, AnswersAttempted
  <2>2. ops[h].key = k /\ ops[h].op # "miss"
    BY <1>1, <1>5, <2>1 DEF IInv, OpsTyped, Attempts
  <2>3. h \in Nat /\ i \in Nat /\ ~(h > i)
    BY <1>2, <2>2 DEF IInv, OpsTyped
  <2>4. CASE h = i
    BY <1>3, <1>4, <2>1, <2>4 DEF Attempts
  <2>5. CASE h < i
    BY <1>3, <2>1, <2>5 DEF NotedAfter
  <2> QED
    BY <2>3, <2>4, <2>5
<1> QED
  BY <1>1, <1>4, <1>5 DEF Measured, q

LEMMA StepRcvFound ==
    ASSUME IInv, NEW c \in CPUs, NEW a \in answers, RcvFound(c, a)
    PROVE  IInv'
<1> DEFINE k == ResponseKey(sent[a].port)
           q == queries[k]
<1>1. /\ cpu[c] = Idle
      /\ k \in DOMAIN queries
      /\ cpu' = [cpu EXCEPT ![c] = Run("found", a, k, q)]
      /\ UNCHANGED <<sent, queries, ops, samples, ring>>
      /\ Deliver(a)
  BY DEF RcvFound
<1>2. a \in Queries /\ answers' \subseteq answers /\ deliveries' \in 0 .. MaxDeliveries
  BY <1>1, DeliverTypes
<1>3. q \in Queries /\ sent[q].port = k /\ Measured(a, q)
  BY <1>1, EntryFacts, FoundMeasured
<1> HIDE DEF k
<1>4. a \in Nat /\ q \in Nat /\ k \in U16
  BY <1>1, <1>2, <1>3, QueryFacts DEF IInv, MapFits
<1>5. /\ Run("found", a, k, q) \in Runs
      /\ Run("found", a, k, q).pc = "found"
      /\ Run("found", a, k, q).answer = a
      /\ Run("found", a, k, q).key = k
      /\ Run("found", a, k, q).query = q
  BY <1>4 DEF Run, Runs
<1>6. cpu'[c] = Run("found", a, k, q) /\ \A d \in CPUs \ {c} : cpu'[d] = cpu[d]
  BY <1>1 DEF IInv
<1> HIDE DEF q
<1>7. cpu' \in [CPUs -> {Idle} \cup Senders \cup Runs]
  BY <1>1, <1>5 DEF IInv
<1>8. UNCHANGED Queries
  BY <1>1 DEF Queries
<1>9. SentGrows /\ OpsGrow
  BY <1>1 DEF SentGrows, OpsGrow
<1>10. /\ \A x : Findable(x)' = Findable(x)
       /\ \A x, y : Measured(x, y)' = Measured(x, y)
  BY <1>1, <1>8 DEF Findable, Measured, Noted, NotedAfter, Attempts
<1>11. RunsExplained'
  <2> SUFFICES ASSUME NEW d \in CPUs, cpu'[d].pc \in {"found", "deleted"}
               PROVE  /\ Measured(cpu'[d].answer, cpu'[d].query)
                      /\ cpu'[d].key = sent[cpu'[d].query].port
                      /\ cpu'[d].pc = "deleted" => ~Findable(cpu'[d].query)
    BY <1>1, <1>10 DEF RunsExplained
  <2>1. CASE d = c
    BY <1>3, <1>5, <1>6, <2>1
  <2>2. CASE d # c
    <3>1. cpu'[d] = cpu[d]
      BY <1>6, <2>2
    <3> QED
      BY <3>1 DEF IInv, RunsExplained
  <2> QED
    BY <2>1, <2>2
<1>12. SamplesExplained'
  <2> SUFFICES ASSUME NEW s \in samples
               PROVE  s.cpu \notin Finders(s.query)'
    BY <1>1, <1>10 DEF IInv, SamplesExplained
  <2>1. ~Findable(s.query) /\ s.cpu \notin Finders(s.query)
    BY DEF IInv, SamplesExplained
  <2>2. s.query # q
    BY <1>1, <2>1 DEF Findable, q
  <2> QED
    BY <1>5, <1>6, <2>1, <2>2 DEF Finders
<1>13. (OpsTyped /\ EntryIsLast /\ NotedStays /\ MapFits /\ OpsExplained)'
  BY <1>1, <1>9, MapKeeps
<1>14. AnswersAttempted'
  BY <1>2, <1>9, AttemptsKeep
<1>15. SendersFresh'
  <2>1. \A d \in CPUs : cpu'[d].pc = "send" => cpu'[d] = cpu[d]
    BY <1>5, <1>6
  <2> QED
    BY <1>1, <1>9, <2>1, SendersKeep
<1>16. SentType' /\ (answers \subseteq Queries)'
  BY <1>1, <1>2, <1>8 DEF IInv, SentType
<1> QED
  BY <1>1, <1>2, <1>7, <1>11, <1>12, <1>13, <1>14, <1>15, <1>16 DEF IInv

LEMMA StepRcvUnmatched ==
    ASSUME IInv, NEW c \in CPUs, NEW a \in answers, RcvUnmatched(c, a)
    PROVE  IInv'
<1> DEFINE p == sent[a].port
           k == ResponseKey(p)
           l == Len(ops) + 1
<1>1. /\ k \notin DOMAIN queries
      /\ ops' = Append(ops, Op("miss", a, k))
      /\ UNCHANGED <<sent, queries, cpu, samples, ring>>
      /\ Deliver(a)
  BY DEF RcvUnmatched
<1>2. a \in Queries /\ answers' \subseteq answers /\ deliveries' \in 0 .. MaxDeliveries
  BY <1>1, DeliverTypes
<1>3. a \in Nat /\ k \in U16
  BY <1>2, QueryFacts, Bswap16Type DEF ResponseKey
<1>4. /\ Op("miss", a, k) \in Ops
      /\ Op("miss", a, k).op = "miss" /\ Op("miss", a, k).id = a /\ Op("miss", a, k).key = k
  BY <1>3, OpFacts
<1>5. /\ Len(ops) \in Nat /\ DOMAIN ops = 1 .. Len(ops)
      /\ DOMAIN ops' = DOMAIN ops \cup {l}
      /\ \A i \in DOMAIN ops : i \in Nat /\ i < l /\ ops'[i] = ops[i]
      /\ ops'[l] = Op("miss", a, k)
      /\ 1 .. l - 1 = DOMAIN ops
  BY <1>1, <1>4, AppendOps DEF IInv, OpsTyped
<1>6. SentGrows /\ OpsGrow
  BY <1>1, <1>4 DEF SentGrows, OpsGrow
<1>7. \A i \in DOMAIN ops : Occupied(i)' = Occupied(i)
  BY <1>5, <1>6, OccupiedStays DEF IInv, OpsTyped
<1> HIDE DEF k, l
<1>8. ASSUME NEW m, m = l PROVE MissOk(m)'
  <2>1. ops'[m].id = a /\ sent' = sent /\ 1 .. m - 1 = DOMAIN ops
    BY <1>1, <1>4, <1>5, <1>8
  <2> SUFFICES ASSUME sent[a].via = "connect", Bswap16(p) = p
               PROVE  \/ \E i \in DOMAIN ops :
                            /\ ops'[i].op = "full" /\ ops'[i].id = a
                            /\ p \notin Occupied(i)'
                            /\ Cardinality(Occupied(i)') >= Capacity
                      \/ \E i, d \in DOMAIN ops :
                            /\ i < d /\ ops'[i].op = "note" /\ ops'[i].id = a
                            /\ ops'[d].op = "delete" /\ ops'[d].key = p
    BY <2>1 DEF MissOk, Deletes
  <2>2. p \notin DOMAIN queries
    BY <1>1 DEF ResponseKey, k
  <2>3. PICK i \in DOMAIN ops : Attempts(i, a)
    BY DEF IInv, AnswersAttempted
  <2>4. ops'[i] = ops[i] /\ ops[i].id = a /\ ops[i].key = p
    BY <1>5, <2>3 DEF IInv, OpsTyped, Attempts
  <2>5. CASE ops[i].op = "full"
    <3>1. p \notin Occupied(i) /\ Cardinality(Occupied(i)) >= Capacity
      BY <2>4, <2>5 DEF IInv, OpsExplained, FullOk
    <3> QED
      BY <1>7, <2>4, <2>5, <3>1
  <2>6. CASE ops[i].op = "note"
    <3>1. PICK d \in DOMAIN ops : d > i /\ Deletes(d, p)
      BY <2>2, <2>4, <2>6 DEF IInv, NotedStays
    <3>2. ops'[d] = ops[d] /\ i < d
      BY <1>5, <3>1
    <3> QED
      BY <2>4, <2>6, <3>1, <3>2 DEF Deletes
  <2> QED
    BY <2>3, <2>5, <2>6 DEF Attempts
<1>9. (OpsTyped /\ OpsExplained)'
  <2>1. ASSUME NEW i, i = l PROVE FullOk(i)'
    BY <1>4, <1>5, <2>1 DEF FullOk
  <2> QED
    BY <1>1, <1>2, <1>4, <1>8, <2>1, OpsKeep DEF l
<1>10. (EntryIsLast /\ NotedStays /\ MapFits)'
  BY <1>1, <1>4, <1>5, LastKeeps
<1>11. (RunsExplained /\ SamplesExplained)'
  <2>1. \A q : Findable(q)' <=> Findable(q)
    BY <1>1 DEF Findable
  <2> QED
    BY <1>1, <1>6, <2>1, RunsKeep
<1>12. AnswersAttempted'
  BY <1>2, <1>6, AttemptsKeep
<1>13. SendersFresh'
  BY <1>1, <1>4, <1>5, <1>6, SendersKeep
<1>14. SentType' /\ (answers \subseteq Queries)'
  BY <1>1, <1>2 DEF IInv, SentType, Queries
<1> QED
  BY <1>1, <1>2, <1>9, <1>10, <1>11, <1>12, <1>13, <1>14 DEF IInv

LEMMA StepRcvDelete ==
    ASSUME IInv, NEW c \in CPUs, RcvDelete(c)
    PROVE  IInv'
<1> DEFINE k == cpu[c].key
           q == cpu[c].query
           l == Len(ops) + 1
<1>1. /\ cpu[c].pc = "found"
      /\ queries' = [x \in DOMAIN queries \ {k} |-> queries[x]]
      /\ ops' = Append(ops, Op("delete", q, k))
      /\ cpu' = [cpu EXCEPT ![c].pc = "deleted"]
      /\ UNCHANGED <<sent, answers, samples, ring, deliveries>>
  BY DEF RcvDelete, Restrict
<1>2. cpu[c] \in Runs
  BY <1>1 DEF IInv, Idle, Senders
<1>3. Measured(cpu[c].answer, q) /\ k = sent[q].port
  BY <1>1 DEF IInv, RunsExplained
<1>4. q \in Queries /\ q \in Nat /\ k \in U16
  BY <1>3, QueryFacts DEF Measured
<1>5. /\ Op("delete", q, k) \in Ops
      /\ Op("delete", q, k).op = "delete" /\ Op("delete", q, k).id = q
      /\ Op("delete", q, k).key = k
  BY <1>4, OpFacts
<1>6. /\ Len(ops) \in Nat
      /\ DOMAIN ops' = DOMAIN ops \cup {l}
      /\ \A i \in DOMAIN ops : i \in Nat /\ i < l /\ ops'[i] = ops[i]
      /\ ops'[l] = Op("delete", q, k)
  BY <1>1, <1>5, AppendOps DEF IInv, OpsTyped
<1>7. SentGrows /\ OpsGrow
  BY <1>1, <1>5 DEF SentGrows, OpsGrow
<1>8. /\ cpu'[c] \in Runs /\ cpu'[c].pc = "deleted"
      /\ cpu'[c].answer = cpu[c].answer /\ cpu'[c].key = k /\ cpu'[c].query = q
  BY <1>1, <1>2 DEF IInv, Runs
<1>9. \A d \in CPUs \ {c} : cpu'[d] = cpu[d]
  BY <1>1 DEF IInv
<1> HIDE DEF l
<1>10. /\ DOMAIN queries' = DOMAIN queries \ {k}
       /\ \A x \in DOMAIN queries' : queries'[x] = queries[x]
  BY <1>1
<1>11. cpu' \in [CPUs -> {Idle} \cup Senders \cup Runs]
  BY <1>1, <1>8, <1>9 DEF IInv
<1>12. \A x : Findable(x)' => Findable(x)
  BY <1>10 DEF Findable
<1>13. \A x : x = q => ~Findable(x)'
  BY <1>3, <1>10, EntryFacts DEF Findable
<1>14. \A x, y : Measured(x, y) => Measured(x, y)'
  BY <1>7, MeasuredStays DEF IInv, OpsTyped
<1>15. (OpsTyped /\ OpsExplained)'
  <2>1. ASSUME NEW i, i = l PROVE (FullOk(i) /\ MissOk(i))'
    BY <1>5, <1>6, <2>1 DEF FullOk, MissOk
  <2> QED
    BY <1>1, <1>4, <1>5, <2>1, OpsKeep DEF l
<1>16. EntryIsLast'
  <2> SUFFICES ASSUME NEW x \in DOMAIN queries'
               PROVE  \E i \in DOMAIN ops' :
                        /\ ops'[i] = Op("note", queries'[x], x)
                        /\ \A j \in DOMAIN ops' : j > i /\ ops'[j].key = x
                                => ops'[j].op = "miss"
    BY DEF EntryIsLast
  <2>1. PICK i \in DOMAIN ops :
            /\ ops[i] = Op("note", queries[x], x)
            /\ \A j \in DOMAIN ops : j > i /\ ops[j].key = x => ops[j].op = "miss"
    BY <1>10 DEF IInv, EntryIsLast
  <2>2. \A j \in DOMAIN ops' : j > i /\ ops'[j].key = x => ops'[j].op = "miss"
    BY <1>5, <1>6, <1>10, <2>1
  <2> QED
    BY <1>6, <1>10, <2>1, <2>2
<1>17. NotedStays'
  <2> SUFFICES ASSUME NEW i \in DOMAIN ops', ops'[i].op = "note",
                      ops'[i].key \notin DOMAIN queries'
               PROVE  \E d \in DOMAIN ops' :
                        d > i /\ ops'[d].op = "delete" /\ ops'[d].key = ops'[i].key
    BY DEF NotedStays, Deletes
  <2>1. i \in DOMAIN ops /\ ops'[i] = ops[i] /\ i < l
    BY <1>5, <1>6
  <2>2. CASE ops[i].key = k
    BY <1>5, <1>6, <2>1, <2>2
  <2>3. CASE ops[i].key # k
    BY <1>6, <1>10, <2>1, <2>3 DEF IInv, NotedStays, Deletes
  <2> QED
    BY <2>2, <2>3
<1>18. MapFits'
  <2>1. /\ IsFiniteSet(DOMAIN queries')
        /\ Cardinality(DOMAIN queries') <= Cardinality(DOMAIN queries)
        /\ Cardinality(DOMAIN queries') \in Nat
        /\ Cardinality(DOMAIN queries) \in Nat
    BY <1>10, FS_Subset, FS_CardinalityType DEF IInv, MapFits
  <2> QED
    BY <1>10, <2>1, DnsBounds DEF IInv, MapFits
<1>19. RunsExplained'
  <2> SUFFICES ASSUME NEW d \in CPUs, cpu'[d].pc \in {"found", "deleted"}
               PROVE  /\ \A x, y : x = cpu'[d].answer /\ y = cpu'[d].query
                                    => Measured(x, y)'
                      /\ cpu'[d].key = sent[cpu'[d].query].port
                      /\ cpu'[d].pc = "deleted" =>
                            \A x : x = cpu'[d].query => ~Findable(x)'
    BY <1>1 DEF RunsExplained
  <2>1. CASE d = c
    BY <1>3, <1>8, <1>13, <1>14, <2>1
  <2>2. CASE d # c
    <3>1. cpu'[d] = cpu[d]
      BY <1>9, <2>2
    <3>2. /\ Measured(cpu[d].answer, cpu[d].query)
          /\ cpu[d].key = sent[cpu[d].query].port
          /\ cpu[d].pc = "deleted" => ~Findable(cpu[d].query)
      BY <3>1 DEF IInv, RunsExplained
    <3> QED
      BY <1>12, <1>14, <3>1, <3>2
  <2> QED
    BY <2>1, <2>2
<1>20. SamplesExplained'
  <2> SUFFICES ASSUME NEW s \in samples
               PROVE  Measured(s.answer, s.query)' /\ ~Findable(s.query)'
                        /\ s.cpu \notin Finders(s.query)'
    BY <1>1 DEF SamplesExplained
  <2>1. Measured(s.answer, s.query) /\ ~Findable(s.query) /\ s.cpu \notin Finders(s.query)
    BY DEF IInv, SamplesExplained
  <2>2. s.cpu \notin Finders(s.query)'
    BY <1>1, <1>8, <1>9, <2>1 DEF Finders
  <2> QED
    BY <1>12, <1>14, <2>1, <2>2
<1>21. AnswersAttempted'
  BY <1>1, <1>7, AttemptsKeep
<1>22. SendersFresh'
  <2>1. \A d \in CPUs : cpu'[d].pc = "send" => cpu'[d] = cpu[d]
    BY <1>8, <1>9
  <2>2. \A i \in DOMAIN ops' \ DOMAIN ops : ops'[i].op \notin {"note", "full"}
    BY <1>5, <1>6
  <2> QED
    BY <1>7, <2>1, <2>2, SendersKeep
<1>23. SentType' /\ (answers \subseteq Queries)'
  BY <1>1 DEF IInv, SentType, Queries
<1> QED
  BY <1>1, <1>11, <1>15, <1>16, <1>17, <1>18, <1>19, <1>20, <1>21, <1>22, <1>23 DEF IInv

LEMMA StepRcvRecord ==
    ASSUME IInv, NEW c \in CPUs, RcvRecord(c)
    PROVE  IInv'
<1> DEFINE new == [answer |-> cpu[c].answer, query |-> cpu[c].query, cpu |-> c]
<1>1. /\ cpu[c].pc = "deleted"
      /\ samples' = samples \cup {new}
      /\ cpu' = [cpu EXCEPT ![c] = Idle]
      /\ Submit
      /\ UNCHANGED <<sent, answers, queries, ops, deliveries>>
  BY DEF RcvRecord
<1>2. Measured(new.answer, new.query) /\ ~Findable(new.query)
  BY <1>1 DEF IInv, RunsExplained
<1>3. UNCHANGED Queries /\ SentGrows /\ OpsGrow
  BY <1>1 DEF Queries, SentGrows, OpsGrow
<1>4. /\ \A x : Findable(x)' = Findable(x)
      /\ \A x, y : Measured(x, y)' = Measured(x, y)
  BY <1>1, <1>3 DEF Findable, Measured, Noted, NotedAfter, Attempts
<1>5. cpu'[c] = Idle /\ \A d \in CPUs \ {c} : cpu'[d] = cpu[d]
  BY <1>1 DEF IInv
<1>6. cpu' \in [CPUs -> {Idle} \cup Senders \cup Runs]
  BY <1>1 DEF IInv
<1>7. RunsExplained'
  BY <1>1, <1>4, <1>5 DEF IInv, RunsExplained, Idle
<1>8. SamplesExplained'
  <2> SUFFICES ASSUME NEW s \in samples'
               PROVE  /\ Measured(s.answer, s.query)
                      /\ ~Findable(s.query)
                      /\ s.cpu \notin Finders(s.query)'
    BY <1>4 DEF SamplesExplained
  <2>1. CASE s = new
    BY <1>2, <1>5, <2>1 DEF Finders, Idle
  <2>2. CASE s \in samples
    BY <1>5, <2>2 DEF IInv, SamplesExplained, Finders, Idle
  <2> QED
    BY <1>1, <2>1, <2>2
<1>9. (OpsTyped /\ EntryIsLast /\ NotedStays /\ MapFits /\ OpsExplained)'
  BY <1>1, <1>3, MapKeeps
<1>10. AnswersAttempted'
  BY <1>1, <1>3, AttemptsKeep
<1>11. SendersFresh'
  <2>1. \A d \in CPUs : cpu'[d].pc = "send" => cpu'[d] = cpu[d]
    BY <1>5 DEF Idle
  <2> QED
    BY <1>1, <1>3, <2>1, SendersKeep
<1>12. ring' \in 0 .. RingSize /\ SentType' /\ (answers \subseteq Queries)'
  BY <1>1, <1>3, SubmitType DEF IInv, SentType
<1> QED
  BY <1>1, <1>6, <1>7, <1>8, <1>9, <1>10, <1>11, <1>12 DEF IInv

LEMMA StutterInv ==
    ASSUME IInv, UNCHANGED vars
    PROVE  IInv'
<1>1. UNCHANGED <<sent, answers, queries, ops, cpu, samples, ring, deliveries>>
  BY DEF vars
<1>2. SentGrows /\ OpsGrow
  BY <1>1 DEF SentGrows, OpsGrow
<1>3. (OpsTyped /\ EntryIsLast /\ NotedStays /\ MapFits /\ OpsExplained)'
  BY <1>1, <1>2, MapKeeps
<1>4. (RunsExplained /\ SamplesExplained)'
  <2>1. \A q : Findable(q)' <=> Findable(q)
    BY <1>1 DEF Findable
  <2> QED
    BY <1>1, <1>2, <2>1, RunsKeep
<1>5. AnswersAttempted' /\ SendersFresh'
  BY <1>1, <1>2, AttemptsKeep, SendersKeep
<1>6. SentType' /\ (answers \subseteq Queries)'
  BY <1>1 DEF IInv, SentType, Queries
<1> QED
  BY <1>1, <1>3, <1>4, <1>5, <1>6 DEF IInv

-----------------------------------------------------------------------------
LEMMA Invariance == Spec => []IInv
<1>1. Init => IInv
  BY InitInv
<1>2. IInv /\ [Next]_vars => IInv'
  BY StepUdpSendmsg, StepUdpSendto, StepNote, StepNoteFull, StepRcvFound,
     StepRcvUnmatched, StepRcvDelete, StepRcvRecord, StutterInv DEF Next
<1> QED
  BY <1>1, <1>2, PTL DEF Spec

\* The types; in particular dns_query_map never holds more than Capacity
\* queries, though answers come in any order and some never come.
THEOREM TypeCorrect == Spec => []TypeOK
<1>1. IInv => TypeOK
  <2> SUFFICES ASSUME IInv PROVE TypeOK
    OBVIOUS
  <2>1. \A k \in DOMAIN queries : queries[k] \in DOMAIN sent
    BY EntryFacts DEF Queries
  <2> QED
    BY <2>1 DEF IInv, TypeOK, Queries, SentType, OpsTyped, MapFits, SamplesExplained,
                Measured
<1> QED
  BY <1>1, Invariance, PTL

\* Once kprobe__udp_rcv has recorded a sample of a query, no run on any CPU
\* can find this query again.
THEOREM SampledGone == Spec => []SampledQueryIsGone
<1>1. IInv => SampledQueryIsGone
  BY DEF IInv, SamplesExplained, SampledQueryIsGone
<1> QED
  BY <1>1, Invariance, PTL

\* An answer to a query the probes look at is measured from an earlier query
\* of the same port only if the two were noted in the other order; otherwise
\* overwriting an entry shortens latencies.
THEOREM NeverTooLong == Spec => []NeverFromEarlierQuery
<1>1. IInv => NeverFromEarlierQuery
  BY DEF IInv, SamplesExplained, Measured, NeverFromEarlierQuery
<1> QED
  BY <1>1, Invariance, PTL

\* However queries, answers and their duplicates interleave, and whatever
\* the capacity, an answer finds no entry only because of the byte order of
\* its port, because the map was full when its query came, or because an
\* answer to its port was matched after its query had been noted.
THEOREM MissesHaveReasons == Spec => []MissesExplained
<1>1. IInv => MissesExplained
  BY DEF IInv, OpsExplained, MissOk, MissesExplained, QueryKey
<1> QED
  BY <1>1, Invariance, PTL
=============================================================================
