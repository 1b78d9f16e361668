---------------------------- MODULE MCTelemetry ----------------------------
(* Instances of Telemetry for TLC. *)
EXTENDS Telemetry, TLC

CONSTANTS n1, n2

OneNode == {n1}
TwoNodes == {n1, n2}
NodeSymmetry == Permutations(TwoNodes)
=============================================================================
