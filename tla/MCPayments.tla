---- MODULE MCPayments ----
(***************************************************************************)
(* An instance of Payments for TLC: two faucets, one community with a       *)
(* treasury, and two people.                                               *)
(***************************************************************************)
EXTENDS Payments, TLC

CONSTANTS a1, a2, t1, c1, c2, f1, f2, basin, s1, s2, n1

MCHolder == {a1, a2, t1, f1, f2, basin}

MCInitialFree == [h \in MCHolder |-> CASE h = a1 -> 9 [] h = a2 -> 2 [] h = t1 -> 4 [] OTHER -> 0]

MCReputation == {<<a1, c1, 1>>, <<a2, c1, 1>>, <<a1, c2, 1>>}

MCTreasury == [c \in {c1} |-> t1]

MCWhitelists == {{c1}}

\* Neither faucets nor secrets differ from each other.
MCSymmetry == Permutations({f1, f2}) \cup Permutations({s1, s2})

====
