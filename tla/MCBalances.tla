---- MODULE MCBalances ----
(***************************************************************************)
(* An instance of Balances for TLC.                                        *)
(***************************************************************************)
EXTENDS Balances, TLC

CONSTANTS a1, a2, c1

MCSymmetry == Permutations(Account)

====
