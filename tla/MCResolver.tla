----------------------------- MODULE MCResolver -----------------------------
(* Instances of Resolver for TLC. *)
EXTENDS Resolver

CONSTANTS i1, p1, p2, s1, s2, e1, e2, e3, web, db, Old, New

\* Two Services of one name in different namespaces, a slice of that name, one
\* of another Service and one without the label.
MCName == (p1 :> Old) @@ (p2 :> New) @@ (s1 :> web) @@ (s2 :> web)
          @@ (e1 :> web) @@ (e2 :> db) @@ (e3 :> NoLabel)
=============================================================================
