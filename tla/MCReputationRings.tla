---- MODULE MCReputationRings ----
(***************************************************************************)
(* Instances of ReputationRings for TLC.                                   *)
(***************************************************************************)
EXTENDS ReputationRings

CONSTANT c1

\* One community with one meetup, which the first two accounts attend with or
\* without the others.
MCQueue == <<c1>>
MCMeetups == [c \in {c1} |-> {{1, 2}, Account}]

\* Each account has one key, the later account the smaller one.
OneKey == [a \in Account |-> {10 - a}]

====
