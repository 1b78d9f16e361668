----------------------------- MODULE TableTotal -----------------------------
(***************************************************************************)
(* A BPF counter table as user space may rely on it: `seen' is what the    *)
(* finished probe runs counted, `total' what the rows add up to.  A run    *)
(* adds at most its own share; it may instead undo any part of what other  *)
(* runs added, but leaves no empty table unless shares may be zero or a    *)
(* counter may have overflowed.                                            *)
(* Telemetry's Probe is this step for shares of one unit, on tables far    *)
(* from an overflow.                                                       *)
(***************************************************************************)
EXTENDS Naturals

CONSTANTS
    Sizes,   \* the shares one probe run may count
    Wrap     \* counters count modulo this

VARIABLES seen, total

TotalInit ==
    /\ seen = 0
    /\ total = 0

Count(size) ==
    /\ seen' = seen + size
    /\ total' <= total + size
    /\ 0 \notin Sizes /\ seen' < Wrap => total' > 0

TotalNext == \E size \in Sizes : Count(size)

TotalSpec == TotalInit /\ [][TotalNext]_<<seen, total>>
=============================================================================
