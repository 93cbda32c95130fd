---- MODULE Meetup ----
(***************************************************************************)
(* One meetup of pallet_encointer_ceremonies and the crate                 *)
(* meetup-validation: its participants attest one another and vote on how  *)
(* many they were; whoever claims the rewards first triggers the judgement *)
(* that settles the meetup for everybody.                                  *)
(*                                                                         *)
(* Honest participants are those who met, attest exactly one another and   *)
(* vote for their own number; the others submit anything.                  *)
(***************************************************************************)
EXTENDS Integers, FiniteSets, FiniteSetsExt, Functions

CONSTANTS
    NumParticipants, \* seats of this meetup, in the order of get_meetup_participants
    Honest,          \* participants who met and report truthfully
    Lists,           \* bound: attestations the others submit, [Participant -> Nat]
    Votes            \* bound: participant numbers the others vote for

Participant == 1 .. NumParticipants

ASSUME MeetupAssumption ==
    /\ NumParticipants \in Nat \ {0}
    /\ Honest \subseteq Participant
    /\ Lists \subseteq [Participant -> Nat]
    /\ Votes \subseteq Nat

VARIABLES
    CurrentPhase,
    attestations,    \* AttestationRegistry: how often p's list names q
    votes,           \* MeetupParticipantCountVote
    settled,         \* IssuedRewards has this meetup: "no", "early", "late" or "failed"
    paid             \* participants that were rewarded

vars == <<CurrentPhase, attestations, votes, settled, paid>>

-----------------------------------------------------------------------------
(* get_participant_judgements.                                              *)

NoList == [q \in Participant |-> 0]

Length(list) == SumFunctionOnSet(list, Participant)

\* attestation_threshold_fn of claim_rewards
Threshold(i) == IF i > 5 THEN i - 2 ELSE IF i > 2 THEN i - 1 ELSE 1

\* get_excluded_participants_no_vote: those who voted.
Voters == {p \in Participant : votes[p] > 0}

Supporters(v) == {p \in Voters : votes[p] = v}

\* find_majority_vote sorts the candidates by votes; of two that are equal the
\* one that came up later in the list of participants comes first.
Prevails(v, w) ==
    LET nv == Cardinality(Supporters(v))
        nw == Cardinality(Supporters(w))
    IN  \/ nv > nw
        \/ nv = nw /\ (v # w => Min(Supporters(v)) > Min(Supporters(w)))

Candidates == {votes[p] : p \in Voters}

Majority == CHOOSE v \in Candidates : \A w \in Candidates : Prevails(v, w)

\* Neither BallotEmpty nor NoDependableVote.
Dependable == Voters # {} /\ Cardinality(Supporters(Majority)) >= 3

\* The attestations of p for participants of S, a repeated one counted anew.
Outgoing(p, S) == SumFunctionOnSet(attestations[p], S)

\* The lists that name p.  The lists of participants who have been excluded
\* are not dropped, only what they say about others who have been.
Incoming(p) == Cardinality({q \in Participant \ {p} : attestations[q][p] > 0})

\* Mutant: outgoing attestations are not looked at.
ExcludeIncoming(S) ==
    LET minIn == Min({Incoming(p) : p \in S})
    IN  IF S # {} /\ minIn < Threshold(Cardinality(S))
        THEN {p \in S : Incoming(p) # minIn} ELSE S

\* Mutant: the threshold is that of the whole meetup, not of those who are left.
ExcludeByMeetupSize(S) ==
    IF S = {} THEN S
    ELSE LET minOut == Min({Outgoing(p, S) : p \in S})
         IN  IF minOut < Threshold(NumParticipants) THEN {p \in S : Outgoing(p, S) # minOut} ELSE S

\* One iteration of get_excluded_participants_num_attestations: the group with
\* the fewest attestations goes if it is below the threshold.
Exclude(S) ==
    IF S = {} THEN S
    ELSE LET minOut == Min({Outgoing(p, S) : p \in S})
             minIn  == Min({Incoming(p) : p \in S})
             limit  == Threshold(Cardinality(S))
         IN  IF minIn < minOut
             THEN IF minIn < limit THEN {p \in S : Incoming(p) # minIn} ELSE S
             ELSE IF minOut < limit THEN {p \in S : Outgoing(p, S) # minOut} ELSE S

\* The whole loop, as many iterations as there are participants.
Remaining(S) ==
    LET left[i \in 0 .. NumParticipants] == IF i = 0 THEN S ELSE Exclude(left[i - 1])
    IN  left[NumParticipants]

\* get_excluded_participants_wrong_vote, then the attestations.
Legit == Remaining(Supporters(Majority))

\* Mutant: the attestations need not agree with the vote.
EarlyOnVotesAlone ==
    /\ Candidates = {Majority}
    /\ Majority * 2 > NumParticipants

\* early_rewards_possible, on those who voted with the majority.
EarlyRewardsPossible ==
    /\ Candidates = {Majority}
    /\ Majority * 2 > NumParticipants
    /\ \A p \in Supporters(Majority) :
         /\ Length(attestations[p]) = Majority - 1
         /\ \A q \in Participant :
              attestations[p][q] = IF q \in Supporters(Majority) \ {p} THEN 1 ELSE 0

-----------------------------------------------------------------------------
(* Actions.                                                                 *)

Init ==
    /\ CurrentPhase = "Attesting"
    /\ attestations = [p \in Participant |-> NoList]
    /\ votes = [p \in Participant |-> 0]
    /\ settled = "no"
    /\ paid = {}

\* attest_attendees: fewer attestations than participants, those for oneself
\* are ignored and at least one must be left.  A new list replaces the old
\* one, even after the meetup has been settled.
attest_attendees(p, vote, list) ==
    LET verified == [list EXCEPT ![p] = 0]
    IN  /\ CurrentPhase = "Attesting"
        /\ Length(list) < NumParticipants
        /\ Length(verified) > 0
        /\ attestations' = [attestations EXCEPT ![p] = verified]
        /\ votes' = [votes EXCEPT ![p] = vote]
        /\ UNCHANGED <<CurrentPhase, settled, paid>>

\* What participants report who met exactly the others that met.
AttestHonestly(p) ==
    attest_attendees(p, Cardinality(Honest),
                     [q \in Participant |-> IF q \in Honest \ {p} THEN 1 ELSE 0])

AttestAnything(p) == \E vote \in Votes, list \in Lists : attest_attendees(p, vote, list)

\* claim_rewards while attestations may still arrive.
claim_early ==
    /\ CurrentPhase = "Attesting"
    /\ settled = "no"
    /\ Dependable
    /\ EarlyRewardsPossible
    /\ settled' = "early"
    /\ paid' = Legit
    /\ UNCHANGED <<CurrentPhase, attestations, votes>>

\* claim_rewards in the Registering phase that follows.
claim_late ==
    /\ CurrentPhase = "Registering"
    /\ settled = "no"
    /\ settled' = IF Dependable THEN "late" ELSE "failed"
    /\ paid' = IF Dependable THEN Legit ELSE {}
    /\ UNCHANGED <<CurrentPhase, attestations, votes>>

\* on_ceremony_phase_change
EndAttesting ==
    /\ CurrentPhase = "Attesting"
    /\ CurrentPhase' = "Registering"
    /\ UNCHANGED <<attestations, votes, settled, paid>>

Next ==
    \/ \E p \in Honest : AttestHonestly(p)
    \/ \E p \in Participant \ Honest : AttestAnything(p)
    \/ claim_early
    \/ claim_late
    \/ EndAttesting

Spec == Init /\ [][Next]_vars

-----------------------------------------------------------------------------
(* Properties.                                                              *)

\* Type correctness; no list names its author or more people than there are
\* others.
TypeOK ==
    /\ CurrentPhase \in {"Attesting", "Registering"}
    /\ \A p \in Participant : \A q \in Participant : attestations[p][q] \in 0 .. NumParticipants - 1
    /\ \A p \in Participant : attestations[p][p] = 0 /\ votes[p] \in Nat
    /\ settled \in {"no", "early", "late", "failed"}
    /\ paid \subseteq Participant

HaveReported(S) == \A p \in S : votes[p] # 0

\* When the honest participants are the majority, at least three, and have all
\* reported, the judgement is about them and nobody else, whatever the others
\* submit: they are neither outvoted nor pushed below the threshold, and none
\* of the others gets in.
HonestMajorityDecides ==
    2 * Cardinality(Honest) > NumParticipants /\ Cardinality(Honest) >= 3 /\ HaveReported(Honest)
    => Dependable /\ Legit = Honest

\* An early payout in the Attesting phase takes nothing away from anybody: as
\* long as those who were paid stand by their reports, the judgement at the
\* end of the phase would reward exactly the same participants.
EarlyPayoutIsFinal ==
    /\ settled = "early"
    /\ \A p \in paid : votes[p] = Cardinality(paid)
    /\ \A p \in paid, q \in Participant :
         attestations[p][q] = IF q \in paid \ {p} THEN 1 ELSE 0
    => Dependable /\ Legit = paid

\* Nobody is rewarded who met fewer of the others than the threshold asks for:
\* "We find the participant with the fewest incoming/outgoing attestations. If
\* it is below the threshold, we exclude the participant."
PaidHaveMet ==
    settled = "late" =>
        \A p \in paid :
            Cardinality({q \in paid : attestations[p][q] > 0}) >= Threshold(Cardinality(paid))

====
