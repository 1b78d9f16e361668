------------------------------ MODULE Numbers ------------------------------
(***************************************************************************)
(* Sums and powers as functions, for the modules that count.               *)
(***************************************************************************)
EXTENDS Integers, FiniteSets, FiniteSetsExt

\* The sum of f[x] for x in the finite set S.
SumOn(f, S) == MapThenSumSet(LAMBDA x : f[x], S)

\* Pow2[n] is 2^n.
Pow2[n \in Nat] == IF n = 0 THEN 1 ELSE 2 * Pow2[n - 1]
=============================================================================
