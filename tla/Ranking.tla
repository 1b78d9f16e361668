------------------------------- MODULE Ranking -------------------------------
(***************************************************************************)
(* How the rows of the throughput and retransmission tables become ranked  *)
(* lines: Store.GetTop and GetRetrans over the rows of all nodes, which    *)
(* name the ends by their addresses; Tracker.TopTalkers and TopEndpoints   *)
(* and the Read of the retransmission tracker over those of one node,      *)
(* which name them by a resolver.  Go's maps are ranged over in any order  *)
(* and sort.Slice leaves lines of equal rank in any order: the rows come   *)
(* as a sequence whose order is anybody's, and a ranking is any list with  *)
(* the greatest first.  Counters are uint64 and count modulo Wrap.         *)
(***************************************************************************)
EXTENDS Integers, Sequences, Functions, FiniteSetsExt, SequencesExt

CONSTANT Wrap   \* 2^64

\* A map from names, or pairs of names, to two counters.
Nothing == [k \in {} |-> [tx |-> 0, rx |-> 0]]

\* p.tx += tx; p.rx += rx, for a new p if there is none.
Add(sums, k, tx, rx) ==
    LET old == IF k \in DOMAIN sums THEN sums[k] ELSE [tx |-> 0, rx |-> 0]
        new == [tx |-> (old.tx + tx) % Wrap, rx |-> (old.rx + rx) % Wrap]
    IN [x \in DOMAIN sums \cup {k} |-> IF x = k THEN new ELSE sums[x]]

\* Rows with the same two names are one line; name is what the resolver says.
TopTalkers(rows, name) ==
    FoldLeft(LAMBDA sums, r : Add(sums, <<name[r.src], name[r.dst]>>, r.tx, r.rx),
             Nothing, rows)

\* Every name is a line: what rows sent counts for their source, what they
\* received for their destination.
TopEndpoints(rows, name) ==
    FoldLeft(LAMBDA sums, r : Add(Add(sums, name[r.src], r.tx, 0), name[r.dst], 0, r.rx),
             Nothing, rows)

\* The rows of all nodes, by their addresses.
GetTop(nodes) ==
    LET rows == FlattenSeq(nodes)
        ips == UNION {{r.src, r.dst} : r \in ToSet(rows)}
    IN TopTalkers(rows, [ip \in ips |-> ip])

\* The same with the one counter of retrans_map; the other stays 0.
GetRetrans(nodes) ==
    LET Counted(r) == [src |-> r.src, dst |-> r.dst, tx |-> r.count, rx |-> 0]
        rows == FlattenSeq(nodes)
    IN GetTop(<<[i \in DOMAIN rows |-> Counted(rows[i])]>>)

TotalBytes(line) == (line.tx + line.rx) % Wrap

\* list is the lines of sums, the greatest total first.
IsRanking(list, sums) ==
    /\ IsInjective(list)
    /\ ToSet(list) = DOMAIN sums
    /\ \A i, j \in DOMAIN list :
        i < j => TotalBytes(sums[list[i]]) >= TotalBytes(sums[list[j]])

-----------------------------------------------------------------------------
(* What they ought to give. *)

\* The sum of one counter of the rows that satisfy Mine.
SumWhere(rows, Mine(_), Of(_)) ==
    MapThenSumSet(LAMBDA i : IF Mine(rows[i]) THEN Of(rows[i]) ELSE 0, DOMAIN rows) % Wrap

TalkersRight(rows, name) ==
    LET sums == TopTalkers(rows, name)
    IN /\ DOMAIN sums = {<<name[r.src], name[r.dst]>> : r \in ToSet(rows)}
       /\ \A k \in DOMAIN sums :
           /\ sums[k].tx = SumWhere(rows, LAMBDA r : <<name[r.src], name[r.dst]>> = k, LAMBDA r : r.tx)
           /\ sums[k].rx = SumWhere(rows, LAMBDA r : <<name[r.src], name[r.dst]>> = k, LAMBDA r : r.rx)

EndpointsRight(rows, name) ==
    LET sums == TopEndpoints(rows, name)
    IN /\ DOMAIN sums = UNION {{name[r.src], name[r.dst]} : r \in ToSet(rows)}
       /\ \A n \in DOMAIN sums :
           /\ sums[n].tx = SumWhere(rows, LAMBDA r : name[r.src] = n, LAMBDA r : r.tx)
           /\ sums[n].rx = SumWhere(rows, LAMBDA r : name[r.dst] = n, LAMBDA r : r.rx)
=============================================================================
