---- MODULE Ceremonies ----
(***************************************************************************)
(* pallet_encointer_ceremonies: registration for a ceremony, reputation,   *)
(* endorsement of newcomers, the assignment of meetup seats, the issuance  *)
(* of rewards and the clean-up of old ceremonies.                          *)
(*                                                                         *)
(* All extrinsics are transactional: a call that returns an error changes  *)
(* nothing, so every action below is the successful path of one handler    *)
(* with the handler's checks as its guard.  Two data are abstracted: the   *)
(* random assignment of seats to meetups is any function, and the outcome  *)
(* of the validation of a meetup is any judgement (module Meetup computes  *)
(* it from attestations and votes).                                        *)
(***************************************************************************)
EXTENDS Integers, FiniteSets, FiniteSetsExt, ParticipantRegistry

CONSTANTS
    Account,                  \* accounts that act
    Community,                \* communities that exist at the beginning
    Bootstrappers,            \* [Community -> SUBSET Account]
    NumLocations,             \* meetup locations of each community
    MeetupSizeTarget,         \* T::MeetupSizeTarget
    MeetupMinSize,            \* T::MeetupMinSize
    MeetupNewbieLimitDivider, \* T::MeetupNewbieLimitDivider
    BootstrapperTickets,      \* tickets per bootstrapper the CeremonyMaster may set
    ReputableTickets,         \* tickets per reputable the CeremonyMaster may set
    Timeouts,                 \* inactivity timeouts the CeremonyMaster may set
    Lifetimes,                \* reputation lifetimes the CeremonyMaster may set
    Endorsable,               \* bound: accounts that anybody endorses
    PurgeIndices,             \* bound: ceremonies the CeremonyMaster purges
    MaxIndex                  \* bound: last ceremony anybody registers for

ASSUME ConstantsAssumption ==
    /\ Bootstrappers \in [Community -> SUBSET Account]
    /\ NumLocations \in Nat \ {0}
    /\ MeetupSizeTarget \in Nat \ {0}
    /\ MeetupMinSize \in Nat
    /\ MeetupNewbieLimitDivider \in Nat \ {0}
    /\ BootstrapperTickets \subseteq Nat
    /\ ReputableTickets \subseteq Nat
    /\ Timeouts \subseteq Nat
    /\ Lifetimes \subseteq Nat
    /\ Endorsable \subseteq Account
    /\ PurgeIndices \subseteq 0 .. MaxIndex
    /\ MaxIndex \in Nat \ {0}

\* A single meetup has a seat for every bootstrapper, so the subtraction in
\* compute_assignment_allowance does not underflow.
ASSUME SeatsAssumption ==
    IsFiniteSet(Account) /\ \A cid \in Community : Cardinality(Bootstrappers[cid]) <= MeetupSizeTarget

VARIABLES
    CurrentPhase,             \* scheduler
    CurrentCeremonyIndex,     \* scheduler
    CommunityIdentifiers,     \* communities
    TotalIssuance,            \* balances: does the community have any money
    Registries,               \* the four registries of every community ceremony
    ParticipantReputation,
    Endorsees,
    BurnedReputableNewbieTickets,
    BurnedBootstrapperNewbieTickets,
    AssignmentCounts,         \* seats per participant type
    Assignments,              \* seat -> meetup
    MeetupCount,
    IssuedRewards,            \* meetups that are settled
    ReputationCount,
    InactivityCounters,
    InactivityTimeout,
    EndorsementTicketsPerBootstrapper,
    EndorsementTicketsPerReputable,
    ReputationLifetime

scheduler   == <<CurrentPhase, CurrentCeremonyIndex>>
communities == <<CommunityIdentifiers, TotalIssuance>>
tickets     == <<BurnedReputableNewbieTickets, BurnedBootstrapperNewbieTickets>>
seats       == <<AssignmentCounts, Assignments, MeetupCount>>
rewards     == <<IssuedRewards, ReputationCount>>
allotment   == <<EndorsementTicketsPerBootstrapper, EndorsementTicketsPerReputable>>
parameters  == <<InactivityCounters, InactivityTimeout, allotment, ReputationLifetime>>

vars == <<scheduler, communities, Registries, ParticipantReputation, Endorsees,
          tickets, seats, rewards, parameters>>

PC == INSTANCE PhaseCycle

-----------------------------------------------------------------------------
(* Data.                                                                    *)

\* enum ParticipantType
ParticipantTypes == {"Bootstrapper", "Reputable", "Endorsee", "Newbie"}

Index == 0 .. MaxIndex

\* CommunityCeremony
Ceremony == Community \X Index

\* enum Reputation; "link" is the ceremony of VerifiedLinked(cindex), else 0.
Unverified          == [kind |-> "Unverified", link |-> 0]
UnverifiedReputable == [kind |-> "UnverifiedReputable", link |-> 0]
VerifiedUnlinked    == [kind |-> "VerifiedUnlinked", link |-> 0]
VerifiedLinked(c)   == [kind |-> "VerifiedLinked", link |-> c]

IsVerified(r) == r.kind \in {"VerifiedUnlinked", "VerifiedLinked"}

\* is_verified_and_unlinked_for_cindex
UnlinkedFor(r, c) == IsVerified(r) /\ r # VerifiedLinked(c)

NoRegistrations == [t \in ParticipantTypes |-> EmptyRegistry]
NoSeats         == [t \in ParticipantTypes |-> 0]
NoReputation    == [a \in Account |-> Unverified]
NoTickets       == [a \in Account |-> 0]

SatSub(x, y) == IF x > y THEN x - y ELSE 0

\* The ceremonies whose reputation still counts for ceremony c.
Window(c) == SatSub(c, ReputationLifetime) .. c

\* The ceremony a call refers to: from Assigning on, the next one.
Target == IF CurrentPhase = "Registering" THEN CurrentCeremonyIndex ELSE CurrentCeremonyIndex + 1

RegistrationOpen == CurrentPhase # "Assigning" /\ Target <= MaxIndex

-----------------------------------------------------------------------------
(* Registration.                                                            *)

\* is_registered
IsRegistered(regs, cc, a) == \E t \in ParticipantTypes : a \in Enlisted(regs[cc][t])

\* get_participant_type: the first registry that has a.
ParticipantType(cc, a) ==
    IF a \in Enlisted(Registries[cc]["Bootstrapper"]) THEN "Bootstrapper"
    ELSE IF a \in Enlisted(Registries[cc]["Reputable"]) THEN "Reputable"
    ELSE IF a \in Enlisted(Registries[cc]["Endorsee"]) THEN "Endorsee"
    ELSE "Newbie"

HasType(cc, a, t) == IsRegistered(Registries, cc, a) /\ ParticipantType(cc, a) = t

\* is_endorsed: the most recent ceremony of the window that endorses a.
EndorsedAt(endorsees, cid, c, a) == {k \in Window(c) : a \in endorsees[cid, k]}

\* Only bootstrappers register before the community has money.
MayRegister(cid, a) == a \in Bootstrappers[cid] \/ TotalIssuance[cid]

\* The type register() gives to a.
TypeOf(cid, c, a, isReputable, endorsees) ==
    IF a \in Bootstrappers[cid] THEN "Bootstrapper"
    ELSE IF isReputable THEN "Reputable"
    ELSE IF EndorsedAt(endorsees, cid, c, a) # {} THEN "Endorsee"
    ELSE "Newbie"

\* register(): enlist a according to its type; an endorsement is used up.
Register(cid, c, a, isReputable, regs, endorsees) ==
    LET t == TypeOf(cid, c, a, isReputable, endorsees)
    IN  /\ MayRegister(cid, a)
        /\ Registries' = [regs EXCEPT ![<<cid, c>>][t] = Enlist(@, a)]
        /\ Endorsees' =
             IF t = "Endorsee"
             THEN [endorsees EXCEPT ![<<cid, Max(EndorsedAt(endorsees, cid, c, a))>>] = @ \ {a}]
             ELSE endorsees

\* remove_participant_from_registry(): only while registering.
Unlist(cid, c, a) ==
    [Registries EXCEPT ![<<cid, c>>][ParticipantType(<<cid, c>>, a)] = Strike(@, a)]

\* The checks of register_participant on a proof of attendance: attendee
\* gives its reputation of ceremony <<pcid, k>> to the sender a.
ProofAccepted(cid, c, a, attendee, pcid, k) ==
    /\ k < c
    /\ k >= SatSub(c, ReputationLifetime)
    /\ UnlinkedFor(ParticipantReputation[pcid, k][attendee], c)
    /\ attendee \in Bootstrappers[cid] => attendee = a

\* The proof's reputation is flagged as used and the sender becomes reputable.
LinkReputation(cid, c, a, attendee, pcid, k) ==
    ParticipantReputation' =
        [ParticipantReputation EXCEPT ![<<pcid, k>>][attendee] = VerifiedLinked(c),
                                      ![<<cid, c>>][a] = UnverifiedReputable]

RegistrationFrame == UNCHANGED <<scheduler, communities, tickets, seats, rewards, parameters>>

\* register_participant(cid, None)
register_without_proof(a, cid) ==
    /\ RegistrationOpen
    /\ cid \in CommunityIdentifiers
    /\ ~ IsRegistered(Registries, <<cid, Target>>, a)
    /\ Register(cid, Target, a, FALSE, Registries, Endorsees)
    /\ UNCHANGED ParticipantReputation
    /\ RegistrationFrame

\* register_participant(cid, Some(proof)); also the tail of upgrade_registration
RegisterWithProof(a, cid, attendee, pcid, k, regs) ==
    /\ RegistrationOpen
    /\ cid \in CommunityIdentifiers
    /\ ~ IsRegistered(regs, <<cid, Target>>, a)
    /\ ProofAccepted(cid, Target, a, attendee, pcid, k)
    /\ LinkReputation(cid, Target, a, attendee, pcid, k)
    /\ Register(cid, Target, a, TRUE, regs, Endorsees)
    /\ RegistrationFrame

register_with_proof(a, cid, attendee, pcid, k) ==
    RegisterWithProof(a, cid, attendee, pcid, k, Registries)

\* Mutant: the upgrade does not take the newbie registration away.
upgrade_without_removal(a, cid, attendee, pcid, k) ==
    /\ CurrentPhase = "Registering"
    /\ HasType(<<cid, Target>>, a, "Newbie")
    /\ ProofAccepted(cid, Target, a, attendee, pcid, k)
    /\ LinkReputation(cid, Target, a, attendee, pcid, k)
    /\ Register(cid, Target, a, TRUE, Registries, Endorsees)
    /\ RegistrationFrame

\* Its removal of the old registration fails outside the Registering phase.
upgrade_registration(a, cid, attendee, pcid, k) ==
    /\ CurrentPhase = "Registering"
    /\ HasType(<<cid, Target>>, a, "Newbie")
    /\ RegisterWithProof(a, cid, attendee, pcid, k, Unlist(cid, Target, a))

\* Mutant: leaving is possible as long as registering for this ceremony was.
unregister_anytime(a, cid) ==
    /\ CurrentPhase # "Assigning"
    /\ cid \in CommunityIdentifiers
    /\ IsRegistered(Registries, <<cid, CurrentCeremonyIndex>>, a)
    /\ ~ HasType(<<cid, CurrentCeremonyIndex>>, a, "Reputable")
    /\ Registries' = Unlist(cid, CurrentCeremonyIndex, a)
    /\ UNCHANGED <<ParticipantReputation, Endorsees>>
    /\ RegistrationFrame

UnregisterFrame == RegistrationFrame /\ UNCHANGED Endorsees

\* unregister_participant(cid, None): for all but reputables.
unregister_without_refund(a, cid) ==
    /\ CurrentPhase = "Registering"
    /\ cid \in CommunityIdentifiers
    /\ IsRegistered(Registries, <<cid, Target>>, a)
    /\ ~ HasType(<<cid, Target>>, a, "Reputable")
    /\ Registries' = Unlist(cid, Target, a)
    /\ UNCHANGED ParticipantReputation
    /\ UnregisterFrame

Refund(cid, a, pcid, k) ==
    ParticipantReputation' =
        [ParticipantReputation EXCEPT ![<<pcid, k>>][a] = VerifiedUnlinked,
                                      ![<<cid, Target>>][a] = Unverified]

\* unregister_participant(cid, Some(cc)): reputables and bootstrappers name
\* the reputation to be refunded, any one of theirs linked to this ceremony.
unregister_with_refund(a, cid, pcid, k) ==
    /\ CurrentPhase = "Registering"
    /\ cid \in CommunityIdentifiers
    /\ \/ HasType(<<cid, Target>>, a, "Reputable")
       \/ HasType(<<cid, Target>>, a, "Bootstrapper")
    /\ k >= SatSub(Target, ReputationLifetime)
    /\ ParticipantReputation[pcid, k][a] = VerifiedLinked(Target)
    /\ Refund(cid, a, pcid, k)
    /\ Registries' = Unlist(cid, Target, a)
    /\ UnregisterFrame

-----------------------------------------------------------------------------
(* Endorsement.                                                             *)

\* has_reputation: verified in the window of the current ceremony.
HasReputation(a, cid) ==
    \E k \in Window(CurrentCeremonyIndex) : IsVerified(ParticipantReputation[cid, k][a])

\* burn_newbie_tickets, first the tickets that refill with every ceremony.
BurnReputableTicket(cid, c, a) ==
    /\ HasReputation(a, cid)
    /\ BurnedReputableNewbieTickets[cid, c][a] < EndorsementTicketsPerReputable
    /\ BurnedReputableNewbieTickets' = [BurnedReputableNewbieTickets EXCEPT ![<<cid, c>>][a] = @ + 1]
    /\ UNCHANGED BurnedBootstrapperNewbieTickets

BurnBootstrapperTicket(cid, c, a) ==
    /\ ~ (HasReputation(a, cid) /\ BurnedReputableNewbieTickets[cid, c][a] < EndorsementTicketsPerReputable)
    /\ a \in Bootstrappers[cid]
    /\ BurnedBootstrapperNewbieTickets[cid][a] < EndorsementTicketsPerBootstrapper
    /\ BurnedBootstrapperNewbieTickets' = [BurnedBootstrapperNewbieTickets EXCEPT ![cid][a] = @ + 1]
    /\ UNCHANGED BurnedReputableNewbieTickets

\* A newbie who is registered already registers again, as an endorsee.
EndorseAndMove(cid, c, newbie, endorsees) ==
    IF newbie \in Enlisted(Registries[cid, c]["Newbie"])
    THEN /\ CurrentPhase = "Registering"
         /\ Register(cid, c, newbie, FALSE, Unlist(cid, c, newbie), endorsees)
    ELSE /\ Endorsees' = endorsees
         /\ UNCHANGED Registries

\* In every phase; outside Registering it counts for the next ceremony.
endorse_newcomer(a, cid, newbie) ==
    /\ cid \in CommunityIdentifiers
    /\ Target <= MaxIndex
    /\ EndorsedAt(Endorsees, cid, Target, newbie) = {}
    /\ BurnReputableTicket(cid, Target, a) \/ BurnBootstrapperTicket(cid, Target, a)
    /\ EndorseAndMove(cid, Target, newbie, [Endorsees EXCEPT ![<<cid, Target>>] = @ \cup {newbie}])
    /\ UNCHANGED <<scheduler, communities, ParticipantReputation, seats, rewards, parameters>>

-----------------------------------------------------------------------------
(* Rewards.                                                                 *)

\* get_meetup_participants: the accounts on the seats of meetup m.
MeetupParticipants(cc, m) ==
    {Registries[cc][seat[1]].registry[seat[2]] :
       seat \in {s \in DOMAIN Assignments[cc] :
                   /\ Assignments[cc][s] = m
                   /\ s[2] \in DOMAIN Registries[cc][s[1]].registry}}

\* claim_rewards refers to the ceremony whose meetups are over.
ClaimedIndex ==
    IF CurrentPhase = "Registering" THEN SatSub(CurrentCeremonyIndex, 1) ELSE CurrentCeremonyIndex

ClaimFrame ==
    UNCHANGED <<scheduler, CommunityIdentifiers, Registries, Endorsees, tickets, seats, parameters>>

\* Mutant: a meetup may be settled more than once.
claim_again(cid, m, legit) ==
    LET cc == <<cid, ClaimedIndex>>
    IN  /\ CurrentPhase # "Assigning"
        /\ m \in 1 .. MeetupCount[cc]
        /\ legit \subseteq MeetupParticipants(cc, m)
        /\ ReputationCount[cc] < 9
        /\ ParticipantReputation' =
             [ParticipantReputation EXCEPT ![cc] =
                [a \in Account |-> IF a \in legit THEN VerifiedUnlinked ELSE @[a]]]
        /\ ReputationCount' = [ReputationCount EXCEPT ![cc] = @ + Cardinality(legit)]
        /\ IssuedRewards' = [IssuedRewards EXCEPT ![cc] = @ \cup {m}]
        /\ TotalIssuance' = [TotalIssuance EXCEPT ![cid] = @ \/ legit # {}]
        /\ ClaimFrame

\* claim_rewards for a valid meetup: the participants judged legit are paid
\* and verified.  Before the end of the Attesting phase it takes a unanimous
\* meetup, which the choice of legit covers.
claim_rewards(cid, m, legit) ==
    LET cc == <<cid, ClaimedIndex>>
    IN  /\ CurrentPhase # "Assigning"
        /\ m \in 1 .. MeetupCount[cc]
        /\ m \notin IssuedRewards[cc]
        /\ legit \subseteq MeetupParticipants(cc, m)
        /\ ParticipantReputation' =
             [ParticipantReputation EXCEPT ![cc] =
                [a \in Account |-> IF a \in legit THEN VerifiedUnlinked ELSE @[a]]]
        /\ ReputationCount' = [ReputationCount EXCEPT ![cc] = @ + Cardinality(legit)]
        /\ IssuedRewards' = [IssuedRewards EXCEPT ![cc] = @ \cup {m}]
        /\ TotalIssuance' = [TotalIssuance EXCEPT ![cid] = @ \/ legit # {}]
        /\ ClaimFrame

\* claim_rewards for a meetup without a dependable vote: settled for good, but
\* only when no further attestation can arrive.
claim_fails(cid, m) ==
    LET cc == <<cid, ClaimedIndex>>
    IN  /\ CurrentPhase = "Registering"
        /\ m \in 1 .. MeetupCount[cc]
        /\ m \notin IssuedRewards[cc]
        /\ IssuedRewards' = [IssuedRewards EXCEPT ![cc] = @ \cup {m}]
        /\ UNCHANGED <<TotalIssuance, ParticipantReputation, ReputationCount>>
        /\ ClaimFrame

-----------------------------------------------------------------------------
(* Clean-up and parameters.                                                 *)

\* purge_community_ceremony_internal for every ceremony of a set.
Purge(ccs) ==
    /\ Registries' = [cc \in Ceremony |-> IF cc \in ccs THEN NoRegistrations ELSE Registries[cc]]
    /\ ParticipantReputation' =
         [cc \in Ceremony |-> IF cc \in ccs THEN NoReputation ELSE ParticipantReputation[cc]]
    /\ Endorsees' = [cc \in Ceremony |-> IF cc \in ccs THEN {} ELSE Endorsees[cc]]
    /\ BurnedReputableNewbieTickets' =
         [cc \in Ceremony |-> IF cc \in ccs THEN NoTickets ELSE BurnedReputableNewbieTickets[cc]]
    /\ ReputationCount' = [cc \in Ceremony |-> IF cc \in ccs THEN 0 ELSE ReputationCount[cc]]
    /\ IssuedRewards' = [cc \in Ceremony |-> IF cc \in ccs THEN {} ELSE IssuedRewards[cc]]

\* Its part on the assignment: the seats of a set of ceremonies that stay.
PurgeSeats(ccs) ==
    /\ AssignmentCounts' = [cc \in Ceremony |-> IF cc \in ccs THEN NoSeats ELSE AssignmentCounts[cc]]
    /\ Assignments' = [cc \in Ceremony |-> IF cc \in ccs THEN EmptyMap ELSE Assignments[cc]]
    /\ MeetupCount' = [cc \in Ceremony |-> IF cc \in ccs THEN 0 ELSE MeetupCount[cc]]

\* CeremonyMaster
purge_community_ceremony(cc) ==
    /\ Purge({cc})
    /\ PurgeSeats({cc})
    /\ UNCHANGED <<scheduler, communities, BurnedBootstrapperNewbieTickets, parameters>>

\* CeremonyMaster
set_reputation_lifetime(l) ==
    /\ ReputationLifetime' = l
    /\ UNCHANGED <<scheduler, communities, Registries, ParticipantReputation, Endorsees,
                   tickets, seats, rewards, InactivityCounters, InactivityTimeout, allotment>>

\* CeremonyMaster; the inactivity timeout is also set by an enacted proposal
set_inactivity_timeout(t) ==
    /\ InactivityTimeout' = t
    /\ UNCHANGED <<scheduler, communities, Registries, ParticipantReputation, Endorsees,
                   tickets, seats, rewards, InactivityCounters, allotment, ReputationLifetime>>

set_endorsement_tickets_per_bootstrapper(n) ==
    /\ EndorsementTicketsPerBootstrapper' = n
    /\ UNCHANGED <<scheduler, communities, Registries, ParticipantReputation, Endorsees,
                   tickets, seats, rewards, InactivityCounters, InactivityTimeout,
                   EndorsementTicketsPerReputable, ReputationLifetime>>

set_endorsement_tickets_per_reputable(n) ==
    /\ EndorsementTicketsPerReputable' = n
    /\ UNCHANGED <<scheduler, communities, Registries, ParticipantReputation, Endorsees,
                   tickets, seats, rewards, InactivityCounters, InactivityTimeout,
                   EndorsementTicketsPerBootstrapper, ReputationLifetime>>

-----------------------------------------------------------------------------
(* on_ceremony_phase_change.                                                *)

IsPrime(n) == n > 1 /\ \A d \in 2 .. n - 1 : n % d # 0

\* find_prime_below: the largest prime up to n, at least 2.
FindPrimeBelow(n) == IF n <= 2 THEN 2 ELSE Max({p \in 2 .. n : IsPrime(p)})

MinOf(x, y) == IF x < y THEN x ELSE y

\* Mutant: the newbies are limited by their share only, not by who registered.
AllowanceByShare(regs) ==
    LET b == regs["Bootstrapper"].count
        r == regs["Reputable"].count
        e == regs["Endorsee"].count
    IN  [Bootstrapper |-> b, Reputable |-> r, Endorsee |-> e,
         Newbie |-> (b + r + e) \div MeetupNewbieLimitDivider]

\* compute_assignment_allowance (SeatsAssumption: left0 is not negative).
Allowance(regs) ==
    LET b         == regs["Bootstrapper"].count
        r         == regs["Reputable"].count
        left0     == MinOf(NumLocations, FindPrimeBelow(b + r)) * MeetupSizeTarget - b
        reputables == MinOf(r, left0)
        left1     == left0 - reputables
        endorsees == MinOf(regs["Endorsee"].count, left1)
        left2     == left1 - endorsees
        newbies   == MinOf(MinOf(regs["Newbie"].count, left2),
                           (b + reputables + endorsees) \div MeetupNewbieLimitDivider)
    IN  [Bootstrapper |-> b, Reputable |-> reputables, Endorsee |-> endorsees, Newbie |-> newbies]

SeatTotal(counts) ==
    counts["Bootstrapper"] + counts["Reputable"] + counts["Endorsee"] + counts["Newbie"]

\* The number of meetups generate_meetup_assignment_params announces.
MeetupsFor(counts) ==
    IF SeatTotal(counts) < MeetupMinSize THEN 0
    ELSE (SeatTotal(counts) + MeetupSizeTarget - 1) \div MeetupSizeTarget

Seats(counts) == {s \in ParticipantTypes \X (1 .. SeatTotal(counts)) : s[2] <= counts[s[1]]}

\* Mutant: the ceremony that is just being assigned is looked at.
IdleNow(cid) == IssuedRewards[cid, CurrentCeremonyIndex] = {}

\* update_inactivity_counters: a community without settled meetups in the
\* ceremony before the current one is one step closer to being purged.
Idle(cid) == IssuedRewards[cid, SatSub(CurrentCeremonyIndex, 1)] = {}

Inactives ==
    {cid \in CommunityIdentifiers : Idle(cid) /\ InactivityCounters[cid] >= InactivityTimeout}

\* Mutant: the current ceremony of an inactive community is not purged.
PurgedWithCommunityShort(cids) ==
    {cc \in Ceremony : cc[1] \in cids /\ cc[2] \in Window(CurrentCeremonyIndex)
                       /\ cc[2] # CurrentCeremonyIndex}

\* purge_community: the window of the current ceremony.
PurgedWithCommunity(cids) ==
    {cc \in Ceremony : cc[1] \in cids /\ cc[2] \in Window(CurrentCeremonyIndex)}

\* Entering Assigning: purge inactive communities, seat the others.
EnterAssigning ==
    LET purged == PurgedWithCommunity(Inactives)
        stay   == CommunityIdentifiers \ Inactives
        counts == [cid \in stay |-> Allowance(Registries[cid, CurrentCeremonyIndex])]
        seated == {cid \in stay : MeetupsFor(counts[cid]) > 0}
    IN  /\ CurrentPhase = "Registering"
        /\ Purge(purged)
        /\ CommunityIdentifiers' = stay
        /\ TotalIssuance' = [cid \in Community |-> TotalIssuance[cid] /\ cid \notin Inactives]
        /\ InactivityCounters' =
             [cid \in Community |->
                IF cid \in Inactives THEN 0
                ELSE IF cid \notin stay THEN InactivityCounters[cid]
                ELSE IF Idle(cid) THEN InactivityCounters[cid] + 1 ELSE 0]
        /\ BurnedBootstrapperNewbieTickets' =
             [cid \in Community |->
                IF cid \in Inactives THEN NoTickets ELSE BurnedBootstrapperNewbieTickets[cid]]
        /\ \E seating \in [seated -> UNION {[Seats(counts[cid]) -> 1 .. MeetupsFor(counts[cid])] :
                                              cid \in seated}] :
             /\ \A cid \in seated :
                  seating[cid] \in [Seats(counts[cid]) -> 1 .. MeetupsFor(counts[cid])]
             /\ LET New(cc) == cc[2] = CurrentCeremonyIndex /\ cc[1] \in seated
                IN  /\ AssignmentCounts' =
                         [cc \in Ceremony |-> IF New(cc) THEN counts[cc[1]]
                                              ELSE IF cc \in purged THEN NoSeats
                                              ELSE AssignmentCounts[cc]]
                    /\ Assignments' =
                         [cc \in Ceremony |-> IF New(cc) THEN seating[cc[1]]
                                              ELSE IF cc \in purged THEN EmptyMap
                                              ELSE Assignments[cc]]
                    /\ MeetupCount' =
                         [cc \in Ceremony |-> IF New(cc) THEN MeetupsFor(counts[cc[1]])
                                              ELSE IF cc \in purged THEN 0
                                              ELSE MeetupCount[cc]]
        /\ UNCHANGED <<InactivityTimeout, allotment, ReputationLifetime>>
        /\ PC!AdvancePhase

EnterAttesting ==
    /\ CurrentPhase = "Assigning"
    /\ PC!AdvancePhase
    /\ UNCHANGED <<communities, Registries, ParticipantReputation, Endorsees, tickets, seats,
                   rewards, parameters>>

\* Mutant: the ceremony just finished is cleaned up as well.
ExpiredEarly(c) == {cc \in Ceremony : c > ReputationLifetime /\ cc[1] \in CommunityIdentifiers
                                      /\ cc[2] = SatSub(c, ReputationLifetime)}

\* purge_registry of the ceremony that has just left the window.
Expired(c) == {cc \in Ceremony : c > ReputationLifetime /\ cc[1] \in CommunityIdentifiers
                                 /\ cc[2] = SatSub(SatSub(c, ReputationLifetime), 1)}

\* Entering Registering: the index is bumped first, then old history goes.
EnterRegistering ==
    /\ CurrentPhase = "Attesting"
    /\ CurrentCeremonyIndex < MaxIndex
    /\ PC!AdvancePhase
    /\ Purge(Expired(CurrentCeremonyIndex'))
    /\ PurgeSeats(Expired(CurrentCeremonyIndex'))
    /\ UNCHANGED <<communities, BurnedBootstrapperNewbieTickets, parameters>>

-----------------------------------------------------------------------------
(* Initial states.                                                          *)

\* Genesis: the first ceremony of communities without money.
Init ==
    /\ CurrentPhase = "Registering"
    /\ CurrentCeremonyIndex = 1
    /\ CommunityIdentifiers = Community
    /\ TotalIssuance = [cid \in Community |-> FALSE]
    /\ Registries = [cc \in Ceremony |-> NoRegistrations]
    /\ ParticipantReputation = [cc \in Ceremony |-> NoReputation]
    /\ Endorsees = [cc \in Ceremony |-> {}]
    /\ BurnedReputableNewbieTickets = [cc \in Ceremony |-> NoTickets]
    /\ BurnedBootstrapperNewbieTickets = [cid \in Community |-> NoTickets]
    /\ AssignmentCounts = [cc \in Ceremony |-> NoSeats]
    /\ Assignments = [cc \in Ceremony |-> EmptyMap]
    /\ MeetupCount = [cc \in Ceremony |-> 0]
    /\ IssuedRewards = [cc \in Ceremony |-> {}]
    /\ ReputationCount = [cc \in Ceremony |-> 0]
    /\ InactivityCounters = [cid \in Community |-> 0]
    /\ ReputationLifetime \in Lifetimes
    /\ InactivityTimeout \in Timeouts
    /\ EndorsementTicketsPerBootstrapper \in BootstrapperTickets
    /\ EndorsementTicketsPerReputable \in ReputableTickets

\* The registries in which exactly the accounts of S are enlisted.
Listed(S) ==
    {reg \in [registry : [1 .. Cardinality(S) -> S], index : [S -> 1 .. Cardinality(S)],
              count : {Cardinality(S)}] : Continuous(reg)}

\* The number of participants of each type.
Counts(regs) == [t \in ParticipantTypes |-> regs[t].count]

\* Registries of a ceremony in which some bootstrappers and newbies registered
\* and all got a seat in a single meetup; or in which nobody registered.
PastRegistries(cid) ==
    UNION {{regs \in [Bootstrapper : Listed(S \cap Bootstrappers[cid]),
                      Reputable    : {EmptyRegistry},
                      Endorsee     : {EmptyRegistry},
                      Newbie       : Listed(S \ Bootstrappers[cid])] :
              \/ S = {}
              \/ /\ Cardinality(Bootstrappers[cid]) >= MeetupMinSize
                 /\ Allowance(regs) = Counts(regs)
                 /\ MeetupsFor(Counts(regs)) = 1} : S \in SUBSET Account}

\* The beginning of the third ceremony, with a reputation lifetime of one: the
\* bootstrappers held the first ceremony, whose history is gone, and attendees
\* held the second in a single meetup and were all rewarded.  A community
\* without past attendees has only just been founded.
Established ==
    \E past \in [Community -> UNION {PastRegistries(cid) : cid \in Community}] :
        LET Attendees(cid) == UNION {Enlisted(past[cid][t]) : t \in ParticipantTypes}
            Met(cc) == cc[2] = 2 /\ Attendees(cc[1]) # {}
        IN  /\ \A cid \in Community : past[cid] \in PastRegistries(cid)
            /\ CurrentPhase = "Registering"
            /\ CurrentCeremonyIndex = 3
            /\ CommunityIdentifiers = Community
            /\ TotalIssuance = [cid \in Community |-> Attendees(cid) # {}]
            /\ Registries = [cc \in Ceremony |-> IF Met(cc) THEN past[cc[1]] ELSE NoRegistrations]
            /\ ParticipantReputation =
                 [cc \in Ceremony |->
                    [a \in Account |-> IF Met(cc) /\ a \in Attendees(cc[1]) THEN VerifiedUnlinked
                                       ELSE Unverified]]
            /\ Endorsees = [cc \in Ceremony |-> {}]
            /\ BurnedReputableNewbieTickets = [cc \in Ceremony |-> NoTickets]
            /\ BurnedBootstrapperNewbieTickets = [cid \in Community |-> NoTickets]
            /\ AssignmentCounts = [cc \in Ceremony |-> Counts(Registries[cc])]
            /\ Assignments =
                 [cc \in Ceremony |-> [s \in Seats(AssignmentCounts[cc]) |-> 1]]
            /\ MeetupCount = [cc \in Ceremony |-> IF Met(cc) THEN 1 ELSE 0]
            /\ IssuedRewards = [cc \in Ceremony |-> IF Met(cc) THEN {1} ELSE {}]
            /\ ReputationCount =
                 [cc \in Ceremony |-> IF Met(cc) THEN Cardinality(Attendees(cc[1])) ELSE 0]
            /\ InactivityCounters = [cid \in Community |-> 0]
            /\ ReputationLifetime = 1
            /\ InactivityTimeout \in Timeouts
            /\ EndorsementTicketsPerBootstrapper \in BootstrapperTickets
            /\ EndorsementTicketsPerReputable \in ReputableTickets

Next ==
    \/ \E a \in Account, cid \in Community :
         \/ register_without_proof(a, cid)
         \/ unregister_without_refund(a, cid)
         \/ \E pcid \in Community, k \in Index :
              \/ unregister_with_refund(a, cid, pcid, k)
              \/ \E attendee \in Account :
                   \/ register_with_proof(a, cid, attendee, pcid, k)
                   \/ upgrade_registration(a, cid, attendee, pcid, k)
         \/ \E newbie \in Endorsable : endorse_newcomer(a, cid, newbie)
    \/ \E cid \in Community, m \in 1 .. Cardinality(Account) :
         \/ \E legit \in SUBSET Account : claim_rewards(cid, m, legit)
         \/ claim_fails(cid, m)
    \/ \E cc \in Community \X PurgeIndices : purge_community_ceremony(cc)
    \/ \E l \in Lifetimes : set_reputation_lifetime(l)
    \/ \E t \in Timeouts : set_inactivity_timeout(t)
    \/ \E n \in BootstrapperTickets : set_endorsement_tickets_per_bootstrapper(n)
    \/ \E n \in ReputableTickets : set_endorsement_tickets_per_reputable(n)
    \/ EnterAssigning
    \/ EnterAttesting
    \/ EnterRegistering

Spec == Init /\ [][Next]_vars

EstablishedSpec == Established /\ [][Next]_vars

-----------------------------------------------------------------------------
(* Properties.                                                              *)

Reputation ==
    {Unverified, UnverifiedReputable, VerifiedUnlinked} \cup {VerifiedLinked(c) : c \in Index}

\* Type correctness of the pallet's storage.
TypeOK ==
    /\ CurrentPhase \in PC!Phases
    /\ CurrentCeremonyIndex \in Index
    /\ CommunityIdentifiers \subseteq Community
    /\ TotalIssuance \in [Community -> BOOLEAN]
    /\ ParticipantReputation \in [Ceremony -> [Account -> Reputation]]
    /\ Endorsees \in [Ceremony -> SUBSET Account]
    /\ BurnedReputableNewbieTickets \in [Ceremony -> [Account -> Nat]]
    /\ BurnedBootstrapperNewbieTickets \in [Community -> [Account -> Nat]]
    /\ MeetupCount \in [Ceremony -> Nat]
    /\ InactivityCounters \in [Community -> Nat]
    /\ ReputationLifetime \in Lifetimes
    /\ InactivityTimeout \in Timeouts
    /\ EndorsementTicketsPerBootstrapper \in BootstrapperTickets
    /\ EndorsementTicketsPerReputable \in ReputableTickets

\* Whatever the order in which people register, upgrade, are endorsed and
\* unregister, every registry has continuous indices ("removes a participant
\* from the registry maintaining continuous indices"): the meetup assignment
\* counts on finding a participant behind every index up to the count.
RegistriesContinuous ==
    \A cc \in Ceremony, t \in ParticipantTypes : Continuous(Registries[cc][t])

\* Nobody is registered twice for a ceremony, not even under two participant
\* types after an upgrade or an endorsement: one person, one seat, one reward.
OneRegistration ==
    \A cc \in Ceremony, a \in Account :
        \A t, u \in ParticipantTypes :
            a \in Enlisted(Registries[cc][t]) /\ a \in Enlisted(Registries[cc][u]) => t = u

\* Every seat that was assigned has a participant: get_meetup_participants
\* never logs "not found!!" and never shortens a meetup.
SeatsResolve ==
    \A cc \in Ceremony, t \in ParticipantTypes :
        AssignmentCounts[cc][t] <= Registries[cc][t].count

\* The participants of a meetup are not stored: each attestation and each
\* claim computes them again from the registries.  They are the same people
\* from the assignment until the ceremony is purged.
MeetupsFrozen ==
    [][\A cc \in Ceremony :
         MeetupCount[cc] # 0 /\ MeetupCount'[cc] # 0
         => \A m \in 1 .. MeetupCount[cc] :
              MeetupParticipants(cc, m)' = MeetupParticipants(cc, m)]_vars

\* ReputationCount, the electorate of the democracy pallet, is the number of
\* accounts with verified reputation, while these are linked and refunded.
CountsVerified ==
    \A cc \in Ceremony :
        ReputationCount[cc] = Cardinality({a \in Account : IsVerified(ParticipantReputation[cc][a])})

\* While a community exists, no step takes away reputation that still can be
\* proven, nor the seats of a ceremony whose rewards can still be claimed
\* ("Clean up with a time delay, such that participants can claim their UBI
\* in the following cycle").
WindowKept ==
    [][\A cid \in CommunityIdentifiers' :
         \A k \in SatSub(CurrentCeremonyIndex', ReputationLifetime') .. CurrentCeremonyIndex :
            /\ MeetupCount'[cid, k] >= MeetupCount[cid, k]
            /\ \A a \in Account : IsVerified(ParticipantReputation[cid, k][a])
                                  => IsVerified(ParticipantReputation'[cid, k][a])]_vars

\* What is older than the reputation lifetime is gone, and nothing at all is
\* left of a community that was purged for inactivity: storage stays bounded.
NoStaleHistory ==
    \A cc \in Ceremony :
        (cc[1] \notin CommunityIdentifiers \/ cc[2] < SatSub(CurrentCeremonyIndex, ReputationLifetime))
        => /\ Registries[cc] = NoRegistrations
           /\ ParticipantReputation[cc] = NoReputation
           /\ Endorsees[cc] = {}
           /\ MeetupCount[cc] = 0

\* A community is purged only after it skipped more ceremonies in a row than
\* the inactivity timeout allows, as far as its history is kept.
IdlePurge ==
    [][\A cid \in CommunityIdentifiers \ CommunityIdentifiers' :
         \A k \in SatSub(CurrentCeremonyIndex, InactivityTimeout + 1) .. CurrentCeremonyIndex - 1 :
            IssuedRewards[cid, k] = {}]_vars

====
