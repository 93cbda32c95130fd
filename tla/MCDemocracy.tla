---- MODULE MCDemocracy ----
(***************************************************************************)
(* Instances of Democracy for TLC.                                         *)
(***************************************************************************)
EXTENDS Democracy

CONSTANTS a1, a2, c1, c2

\* A petition of community c1, and its nominal income.
MCActions == {<<"Petition", c1>>, <<"UpdateNominalIncome", c1>>}

\* A petition of all communities.
MCGlobalActions == {<<"Petition", Global>>}

\* Everybody attended the early ceremonies of c1.
MCPast == [cc \in Ceremony |-> IF cc[1] = c1 /\ cc[2] \in 1 .. 2 THEN Account ELSE {}]

\* Everybody keeps attending the ceremonies of c1, nobody those of c2.
MCPastLively == [cc \in Ceremony |-> IF cc[1] = c1 /\ cc[2] \in 1 .. 3 THEN Account ELSE {}]

\* The shortest cycle with a block that changes no phase.
MCPhaseDurations == [Registering |-> 1, Assigning |-> 1, Attesting |-> 2]

\* In c1 one attends, and a meetup may fail.
MCMeetups == [cid \in Community |-> IF cid = c1 THEN {{a1}, {}} ELSE {}]

\* One votes with all one has.
MCBallots == {Ceremony}
MCCommittable == {<<a1, <<c1, 2>>, 0>>}

====
