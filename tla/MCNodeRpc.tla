---- MODULE MCNodeRpc ----
(***************************************************************************)
(* An instance of Communities, Bazaar and the cache for TLC: a place, one  *)
(* across the corner of its bucket, one north of it, and one far away in   *)
(* the first bucket.                                                       *)
(***************************************************************************)
EXTENDS NodeRpc, TLC

CONSTANTS f1, n1, n2, i1, d1, a1, r1

At(lon, lat) == [lon |-> lon, lat |-> lat]

MCPoints == {At(11, 11), At(12, 12), At(2, 11)}

MCSymmetry == Permutations(Names)

====
