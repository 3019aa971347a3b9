----------------------------- MODULE MCSessions -----------------------------
(* Instances of Sessions: connections of one client and of an anonymous one. *)
EXTENDS Sessions, TLC

CONSTANTS c1, c2, c3, c4, i1

\* Three connections with the same identifier and one without.
ThreeAndOne == (c1 :> i1) @@ (c2 :> i1) @@ (c3 :> i1) @@ (c4 :> NoId)

\* Two connections with the same identifier.
Two == (c1 :> i1) @@ (c2 :> i1)

Symmetry == Permutations(Topics) \cup Permutations({c1, c2, c3})
=============================================================================
