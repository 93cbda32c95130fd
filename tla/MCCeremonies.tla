---- MODULE MCCeremonies ----
(***************************************************************************)
(* Instances of Ceremonies for TLC.                                        *)
(***************************************************************************)
EXTENDS Ceremonies, TLC

CONSTANTS founder, x, y, c1

OneCommunity == {c1}
OneBootstrapper == [c \in {c1} |-> {founder}]

Newcomers == Permutations({x, y})

====
