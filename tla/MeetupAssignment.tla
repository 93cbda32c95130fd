---- MODULE MeetupAssignment ----
(***************************************************************************)
(* How participants are seated (ceremonies/assignment): at the start of    *)
(* the assigning phase seats are counted and random parameters drawn, once *)
(* per group; the meetup of a participant and the participants of a meetup *)
(* are computed from them, whenever they are needed, by a function and its *)
(* inverse.  Ceremonies leaves the seating open; this module computes it.  *)
(*                                                                         *)
(* Integer arithmetic is unbounded: the checked operations of the code do  *)
(* not fail for numbers of participants below 2^31.                        *)
(***************************************************************************)
EXTENDS Integers, FiniteSets, FiniteSetsExt, Sequences

CONSTANTS
    MeetupSizeTarget,
    MeetupMinSize,
    MeetupNewbieLimitDivider,
    MaxBootstrappers,     \* T::MaxBootstrappers
    MaxRegistered,        \* bound: registrations, [ParticipantTypes -> Nat]
    MaxLocations          \* bound: number of locations

VARIABLES
    registered,           \* counts of the four registries
    num_locations,        \* get_locations(cid).len()
    AssignmentCounts,     \* seats per type
    MeetupCount,          \* 0 while nothing is assigned
    Assignments,          \* parameters per group and of the locations
    skipped               \* history: groups for which validation was given up

assignmentVars == <<registered, num_locations, AssignmentCounts, MeetupCount, Assignments, skipped>>

ParticipantTypes == {"bootstrappers", "reputables", "endorsees", "newbies"}

\* Bootstrappers and reputables are seated as one group.
Groups == {"bootstrappers_reputables", "endorsees", "newbies"}

\* There are no more bootstrappers than a community can name, and seats suffice
\* for them even with a single meetup: without the latter the first subtraction
\* of compute_assignment_allowance would underflow.
ASSUME AssignmentAssumption ==
    /\ MeetupSizeTarget \in Nat \ {0, 1}
    /\ MeetupNewbieLimitDivider \in Nat \ {0}
    /\ MaxRegistered \in [ParticipantTypes -> Nat]
    /\ MaxRegistered["bootstrappers"] <= MaxBootstrappers
    /\ MaxBootstrappers \in Nat
    /\ MaxBootstrappers <= MeetupSizeTarget

-----------------------------------------------------------------------------
\* math.rs

CeilDivision(a, b) == (a + b - 1) \div b

\* is_prime tries 2, 3 and the pairs 6k - 1, 6k + 1 up to the square root.
IsPrime(n) ==
    LET Steps == {i \in 5 .. n : (i - 5) % 6 = 0 /\ i * i <= n}
    IN  IF n <= 3 THEN n > 1
        ELSE /\ n % 2 # 0
             /\ n % 3 # 0
             /\ \A i \in Steps : n % i # 0 /\ n % (i + 2) # 0

\* find_prime_below goes down from n in steps of two.
FindPrimeBelow(n) ==
    LET start == IF n % 2 = 0 THEN n - 1 ELSE n
    IN  IF n <= 2 THEN 2
        ELSE Max({p \in 3 .. start : (start - p) % 2 = 0 /\ IsPrime(p)} \cup {2})

\* get_greatest_common_denominator: the smaller number is subtracted from the
\* larger one until they are equal, which takes fewer than a + b steps.
GcdStep(ab) ==
    CASE ab[1] > ab[2] -> <<ab[1] - ab[2], ab[2]>>
      [] ab[1] < ab[2] -> <<ab[1], ab[2] - ab[1]>>
      [] OTHER         -> ab

Gcd(a, b) ==
    LET pair[i \in 0 .. a + b] == IF i = 0 THEN <<a, b>> ELSE GcdStep(pair[i - 1])
    IN  IF a = 0 \/ b = 0 THEN 0 ELSE pair[a + b][1]

\* What find_random_coprime_below can return.
RandomCoprimesBelow(n) ==
    CASE n <= 1 -> {0}
      [] n = 2  -> {1}
      [] OTHER  -> {i \in 1 .. n - 1 : Gcd(n, i) = 1}

\* checked_mod_inv: one iteration of the extended Euclidean algorithm on the
\* pairs mn and xy
EuclidStep(e) ==
    IF e.n = 0 THEN e
    ELSE [m |-> e.n, n |-> e.m % e.n, x |-> e.y, y |-> e.x - (e.m \div e.n) * e.y]

\* n gets smaller in each iteration, so that a of them suffice; the result is
\* made positive at the end.
CheckedModInv(a, m) ==
    LET at[i \in 0 .. a] ==
            IF i = 0 THEN [m |-> m, n |-> a, x |-> 0, y |-> 1] ELSE EuclidStep(at[i - 1])
    IN  at[a].x % m

-----------------------------------------------------------------------------
\* The assignment function and its inverse

Params(m, s1, s2) == [m |-> m, s1 |-> s1, s2 |-> s2]

NoParams == Params(0, 0, 0)

AssignmentFn(p, params, count) == ((p * params.s1 + params.s2) % params.m) % count

\* Mutant: the participants beyond the prime are not looked at.
AssignmentFnInverseShort(meetup, params, count, participants) ==
    LET rest     == IF params.m > meetup THEN params.m - meetup ELSE 0
        t2       == CheckedModInv(params.s1, params.m)
        t3(i)    == ((((count * i + meetup - params.s2) % params.m) * t2) % params.m)
    IN  {t3(i) : i \in 0 .. CeilDivision(rest, count) - 1} \cap 0 .. participants - 1

\* assignment_fn_inverse: the participants that t3 finds, and those one
\* prime above them
AssignmentFnInverse(meetup, params, count, participants) ==
    LET rest     == IF params.m > meetup THEN params.m - meetup ELSE 0
        t2       == CheckedModInv(params.s1, params.m)
        t3(i)    == ((((count * i + meetup - params.s2) % params.m) * t2) % params.m)
        found    == {t3(i) : i \in 0 .. CeilDivision(rest, count) - 1} \cap 0 .. participants - 1
    IN  IF count = 0 THEN {}
        ELSE found \cup {p \in {x + params.m : x \in found} : p < participants}

\* validate_equal_mapping: those beyond the prime are spread evenly.
ValidateEqualMapping(participants, params, count) ==
    participants < 2 \/
        \A k \in 0 .. count - 1 :
            Cardinality({p \in params.m .. participants - 1 : AssignmentFn(p, params, count) = k})
                <= CeilDivision(participants - params.m, count)

\* What generate_assignment_function_params can draw.  It draws again when
\* the validation fails, and keeps the last draw after max_skips failures.
Draws(participants) ==
    LET m == FindPrimeBelow(participants)
    IN  {Params(m, s1, s2) : s1 \in 1 .. m - 1, s2 \in 1 .. m - 1}

\* generate_location_assignment_params
LocationParams == {Params(num_locations, s1, FindPrimeBelow(num_locations)) :
                      s1 \in RandomCoprimesBelow(num_locations)}

-----------------------------------------------------------------------------
\* Steps

MinOf(x, y) == IF x < y THEN x ELSE y

\* Mutant: as many meetups as there are locations.
MaxNumMeetupsByLocations(trusted) == num_locations

\* Every meetup shall have a bootstrapper or a reputable.
MaxNumMeetups(trusted) == MinOf(num_locations, FindPrimeBelow(trusted))

\* compute_assignment_allowance
Allowance ==
    LET b          == registered["bootstrappers"]
        left0      == MaxNumMeetups(b + registered["reputables"]) * MeetupSizeTarget - b
        reputables == MinOf(registered["reputables"], left0)
        endorsees  == MinOf(registered["endorsees"], left0 - reputables)
        newbies    == MinOf(MinOf(registered["newbies"], left0 - reputables - endorsees),
                            (b + reputables + endorsees) \div MeetupNewbieLimitDivider)
    IN  [bootstrappers |-> b, reputables |-> reputables, endorsees |-> endorsees, newbies |-> newbies]

\* get_number_of_participants
Total(counts) ==
    counts["bootstrappers"] + counts["reputables"] + counts["endorsees"] + counts["newbies"]

\* The number of participants that are seated as one group.
GroupSize(counts, group) ==
    IF group = "bootstrappers_reputables" THEN counts["bootstrappers"] + counts["reputables"]
    ELSE counts[group]

register(type) ==
    /\ MeetupCount = 0
    /\ registered[type] < MaxRegistered[type]
    /\ registered' = [registered EXCEPT ![type] = @ + 1]
    /\ UNCHANGED <<num_locations, AssignmentCounts, MeetupCount, Assignments, skipped>>

add_location ==
    /\ MeetupCount = 0
    /\ num_locations < MaxLocations
    /\ num_locations' = num_locations + 1
    /\ UNCHANGED <<registered, AssignmentCounts, MeetupCount, Assignments, skipped>>

\* generate_meetup_assignment_params
generate_meetup_assignment_params ==
    /\ MeetupCount = 0
    /\ num_locations > 0
    /\ Total(Allowance) >= MeetupMinSize
    /\ AssignmentCounts' = Allowance
    /\ MeetupCount' = CeilDivision(Total(Allowance), MeetupSizeTarget)
    /\ \E br \in Draws(GroupSize(Allowance, "bootstrappers_reputables")),
          en \in Draws(GroupSize(Allowance, "endorsees")),
          ne \in Draws(GroupSize(Allowance, "newbies")),
          lo \in LocationParams :
           /\ Assignments' = [bootstrappers_reputables |-> br, endorsees |-> en, newbies |-> ne,
                              locations |-> lo]
           /\ skipped' = {g \in Groups : ~ValidateEqualMapping(GroupSize(Allowance, g),
                                                              Assignments'[g], MeetupCount')}
    /\ UNCHANGED <<registered, num_locations>>

AssignmentInit ==
    /\ registered = [t \in ParticipantTypes |-> 0]
    /\ num_locations = 0
    /\ AssignmentCounts = [t \in ParticipantTypes |-> 0]
    /\ MeetupCount = 0
    /\ Assignments = [g \in Groups \cup {"locations"} |-> NoParams]
    /\ skipped = {}

AssignmentNext ==
    \/ \E type \in ParticipantTypes : register(type)
    \/ add_location
    \/ generate_meetup_assignment_params

AssignmentSpec == AssignmentInit /\ [][AssignmentNext]_assignmentVars

-----------------------------------------------------------------------------
\* Queries of the ceremonies pallet

Meetups == 1 .. MeetupCount

\* get_meetup_index, for the participant with this index in its group
MeetupIndex(group, p) == AssignmentFn(p, Assignments[group], MeetupCount) + 1

\* get_meetup_participants, as indices of a group
MeetupParticipants(group, meetup) ==
    AssignmentFnInverse(meetup - 1, Assignments[group], MeetupCount,
                        GroupSize(AssignmentCounts, group))

\* get_meetup_location, as an index: meetups are counted from 1 here
MeetupLocationIndex(meetup) == AssignmentFn(meetup, Assignments["locations"], num_locations)

-----------------------------------------------------------------------------
\* Properties

\* The function and its inverse agree: everybody seated is a participant of
\* the meetup that get_meetup_index gives, and of no other one, so that
\* attestations and payouts, which use one or the other, mean the same
\* people; and no two meetups take place at the same location.
SeatingConsistent ==
    /\ \A g \in Groups, k \in Meetups :
           MeetupParticipants(g, k) =
               {p \in 0 .. GroupSize(AssignmentCounts, g) - 1 : MeetupIndex(g, p) = k}
    /\ \A j, k \in Meetups : j # k => MeetupLocationIndex(j) # MeetupLocationIndex(k)

\* What validate_equal_mapping allows each meetup of those beyond the prime.
ShareBeyondPrime(g) ==
    LET beyond == GroupSize(AssignmentCounts, g) - Assignments[g].m
    IN  IF beyond > 0 THEN CeilDivision(beyond, MeetupCount) ELSE 0

\* No meetup is left to endorsees and newbies, as soon as two bootstrappers
\* or reputables are registered: the number of meetups is bounded by a prime
\* below their number, and the seats never leave out so many of them that
\* the prime for those seated is smaller than the number of meetups.  And no
\* meetup gets more of a group than another one, but for one and its share of
\* those beyond the prime, unless the validation was given up.
MeetupsTrusted ==
    /\ registered["bootstrappers"] + registered["reputables"] >= 2 =>
           \A k \in Meetups : MeetupParticipants("bootstrappers_reputables", k) # {}
    /\ \A g \in Groups \ skipped : \A j, k \in Meetups :
           Cardinality(MeetupParticipants(g, j)) <=
               Cardinality(MeetupParticipants(g, k)) + 1 + ShareBeyondPrime(g)

====
