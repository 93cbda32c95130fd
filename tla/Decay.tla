---- MODULE Decay ----
(***************************************************************************)
(* How an amount of a community currency decays: it is halved, rounding    *)
(* down, a number of times.                                                *)
(***************************************************************************)
EXTENDS Integers

PowerOfTwo[n \in Nat] == IF n = 0 THEN 1 ELSE 2 * PowerOfTwo[n - 1]

\* What is left of an amount.
Left(amount, halvings) == amount \div PowerOfTwo[halvings]

====
