---- MODULE MCMeetup ----
(***************************************************************************)
(* Instances of Meetup for TLC.                                            *)
(***************************************************************************)
EXTENDS Meetup

\* Each participant of S is named n times.
Naming(S, n) == [q \in Participant |-> IF q \in S THEN n ELSE 0]

\* Four honest participants of seven; the others name all honest ones, one
\* another, some of both or a single one, but nobody twice.
Four == 1 .. 4
OtherLists ==
    {Naming(1 .. 4, 1), Naming(5 .. 7, 1), Naming(1 .. 6, 1), Naming({1, 5, 6}, 1), Naming({2}, 1)}
OtherVotes == {3, 4, 5}

====
