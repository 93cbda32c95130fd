---- MODULE Democracy ----
(***************************************************************************)
(* pallet_encointer_democracy and pallet_encointer_reputation_commitments: *)
(* accounts vote on proposals with reputation they earned in past          *)
(* ceremonies.  A vote commits the reputation to the purpose of the        *)
(* proposal, so that it counts once; a proposal that passes long enough is *)
(* approved and enacted when the next Assigning phase begins.              *)
(*                                                                         *)
(* The ceremonies pallet is reduced to what these pallets read: who has    *)
(* verified reputation, how many have, and what is purged when.  The clock *)
(* is an undisturbed scheduler.  An action of a proposal is reduced to its *)
(* identifier; what the enactment does to other pallets is left out, only  *)
(* that it may fail.                                                       *)
(***************************************************************************)
EXTENDS Integers, FiniteSets, FiniteSetsExt, Sequences, SequencesExt

CONSTANTS
    Account,
    Community,
    Global,              \* ProposalAccessPolicy::Global, not a community
    Actions,             \* bound: ProposalActionIdentifiers that are proposed
    MinTurnout,          \* T::MinTurnout, per thousand
    TieApproves,         \* how the square roots round when both sides are equal
    ConfirmationPeriod,  \* T::ConfirmationPeriod
    ProposalLifetime,    \* T::ProposalLifetime
    QueueLimit,          \* ENACTMENT_QUEUE_MAX_PER_TYPE
    ReputationLifetime,  \* of the ceremonies pallet
    InactivityTimeout,   \* of the ceremonies pallet
    PhaseDurations,      \* of the scheduler, in moments
    FirstIndex,          \* the ceremony at which the history begins
    Past,                \* who attended before it, [Ceremony -> SUBSET Account]
    Meetups,             \* bound: the groups of a community that are rewarded together
    Ballots,             \* bound: lists of reputations accounts vote with
    Committable,         \* bound: reputations that are committed without a vote
    MaxProposals,        \* bound: number of proposals
    MaxPurposes,         \* bound: number of purposes
    MaxNow               \* bound: last moment

\* get_cycle_duration of the scheduler
CycleDuration ==
    PhaseDurations["Registering"] + PhaseDurations["Assigning"] + PhaseDurations["Attesting"]

MaxIndex   == FirstIndex + 1 + MaxNow \div CycleDuration
Index      == 0 .. MaxIndex
Ceremony   == Community \X Index
ProposalId == 1 .. MaxProposals
PurposeId  == 0 .. MaxPurposes - 1

\* An action is its name and the community it is about; Global stands for
\* SetInactivityTimeout, which is about none, and for Option::None.
CommunityActions ==
    {"AddLocation", "RemoveLocation", "UpdateCommunityMetadata", "UpdateDemurrage",
     "UpdateNominalIncome"}
GrantActions == {"IssueSwapNativeOption", "IssueSwapAssetOption"}
OptionActions == {"Petition", "SpendNative", "SpendAsset"}

ProposalActionIdentifier ==
    ((CommunityActions \cup GrantActions) \X Community)
        \cup (OptionActions \X (Community \cup {Global}))
        \cup {<<"SetInactivityTimeout", Global>>}

\* get_access_policy
Policy(action) == action[2]

\* supersedes_same_action
Supersedes(action) == action[1] \in CommunityActions \cup {"SetInactivityTimeout"}

\* Calls of enact_proposal that can return an error.
Fallible(action) == action[1] \in CommunityActions \cup {"SpendNative", "SpendAsset"}

ASSUME DemocracyAssumption ==
    /\ Global \notin Community
    /\ Actions \subseteq ProposalActionIdentifier
    /\ MinTurnout \in Nat \ {0}
    /\ TieApproves \in BOOLEAN
    /\ ConfirmationPeriod \in Nat
    /\ ProposalLifetime \in Nat \ {0}
    /\ QueueLimit \in Nat \ {0}
    /\ ReputationLifetime \in Nat
    /\ InactivityTimeout \in Nat \ {0}
    /\ PhaseDurations \in [{"Registering", "Assigning", "Attesting"} -> Nat \ {0}]
    /\ FirstIndex \in Nat \ {0}
    /\ MaxProposals \in Nat
    /\ MaxPurposes \in Nat
    /\ MaxNow \in Nat

ASSUME HistoryAssumption ==
    /\ Past \in [Ceremony -> SUBSET Account]
    /\ IsFiniteSet(Account)
    /\ Meetups \in [Community -> SUBSET SUBSET Account]
    /\ Ballots \subseteq SUBSET Ceremony
    /\ \A ballot \in Ballots : IsFiniteSet(ballot)
    /\ Committable \subseteq Account \X Ceremony \X PurposeId

VARIABLES
    Now,                      \* pallet_timestamp
    CurrentPhase,             \* scheduler
    CurrentCeremonyIndex,     \* scheduler
    CommunityIdentifiers,     \* communities
    InactivityCounters,       \* ceremonies
    Verified,                 \* ceremonies: who has verified reputation
    IssuedRewards,            \* ceremonies: those with a settled meetup, also one that failed
    ReputationCount,          \* ceremonies
    GlobalReputationCount,    \* ceremonies
    CurrentPurposeId,         \* commitments: the next purpose
    Commitments,              \* commitments: <<purpose, account>> of a ceremony
    ProposalCount,
    Proposals,
    PurposeIds,
    Tallies,
    LastApprovedProposalForAction,
    EnactmentQueue,
    cast,                     \* history: the reputations that voted on a proposal
    failing,                  \* history: when an open proposal was last not passing
    failed                    \* history: proposals whose enactment failed

clock       == <<Now, CurrentPhase, CurrentCeremonyIndex>>
communities == <<CommunityIdentifiers, InactivityCounters>>
reputation  == <<communities, Verified, IssuedRewards, ReputationCount, GlobalReputationCount>>
commitments == <<CurrentPurposeId, Commitments>>
approved    == <<LastApprovedProposalForAction, EnactmentQueue>>
proposals   == <<ProposalCount, Proposals, PurposeIds, Tallies, approved>>
history     == <<cast, failing, failed>>
vars        == <<clock, reputation, commitments, proposals, history>>

PC == INSTANCE PhaseCycle

SatSub(x, y) == IF x > y THEN x - y ELSE 0

\* enum ProposalState; "arg" is the moment of Confirming, the id of SupersededBy.
State(kind, arg) == [kind |-> kind, arg |-> arg]
Ongoing          == State("Ongoing", 0)
CanUpdate(state) == state.kind \in {"Ongoing", "Confirming"}

NoProposal ==
    [start |-> 0, start_cindex |-> 0, action |-> "None", state |-> State("None", 0),
     electorate_size |-> 0]
NoVotes == [turnout |-> 0, ayes |-> 0]
Nobody  == [at |-> 0, id |-> 0]

-----------------------------------------------------------------------------
(* Electorate and threshold.                                                *)

\* proposal_lifetime_cycles: the lifetime in cycles, rounded up.
LifetimeCycles == (ProposalLifetime + CycleDuration - 1) \div CycleDuration

\* Mutant: the ceremony whose rewards can still be claimed may vote.
VotingCindexesDynamic(start) ==
    SatSub(start, ReputationLifetime) + LifetimeCycles .. SatSub(start, 1)

\* Mutant: reputation that expires before the proposal does may vote.
VotingCindexesExpiring(start) == SatSub(start, ReputationLifetime) .. SatSub(start, 2)

\* voting_cindexes
VotingCindexes(start) ==
    SatSub(start, ReputationLifetime) + LifetimeCycles .. SatSub(start, 2)

\* get_electorate
Electorate(action, start) ==
    SumFunctionOnSet(IF Policy(action) = Global THEN GlobalReputationCount
                     ELSE [k \in Index |-> ReputationCount[<<Policy(action), k>>]],
                     VotingCindexes(start))

\* positive_turnout_bias, "approved if n / sqrt(t) < a / sqrt(e)", squared.
Approves(e, t, a) ==
    LET n == t - a
    IN  n * n * e < a * a * t \/ (TieApproves /\ n * n * e = a * a * t)

\* is_passing
IsPassing(e, tally) ==
    /\ e > 0
    /\ (tally.turnout * 1000) \div e >= MinTurnout
    /\ Approves(e, tally.turnout, tally.ayes)

-----------------------------------------------------------------------------
(* do_update_proposal_state.                                                *)

Superseded(prop) ==
    LET last == LastApprovedProposalForAction[prop.action]
    IN  Supersedes(prop.action) /\ last # Nobody /\ prop.start < last.at

\* Mutant: a proposal that stops passing stays in confirmation.
NewStateSticky(prop, tally) ==
    IF Superseded(prop)
    THEN State("SupersededBy", LastApprovedProposalForAction[prop.action].id)
    ELSE IF prop.state.kind = "Confirming"
    THEN IF Now - prop.state.arg > ConfirmationPeriod THEN State("Approved", 0) ELSE prop.state
    ELSE IF Now - prop.start > ProposalLifetime THEN State("Rejected", 0)
    ELSE IF IsPassing(prop.electorate_size, tally) THEN State("Confirming", Now)
    ELSE Ongoing

\* The state of a proposal after an update: a proposal in confirmation that
\* keeps passing is never too old.
NewState(prop, tally) ==
    LET passing == IsPassing(prop.electorate_size, tally)
    IN  IF Superseded(prop)
        THEN State("SupersededBy", LastApprovedProposalForAction[prop.action].id)
        ELSE IF passing /\ prop.state.kind = "Confirming"
        THEN IF Now - prop.state.arg > ConfirmationPeriod THEN State("Approved", 0) ELSE prop.state
        ELSE IF Now - prop.start > ProposalLifetime THEN State("Rejected", 0)
        ELSE IF passing THEN State("Confirming", Now)
        ELSE Ongoing

\* A queue that is full drops the proposal, which only the log notices.
Enqueue(queue, p) == IF Len(queue) < QueueLimit THEN Append(queue, p) ELSE queue

\* Proposal p, as prop so far, is updated with a tally.
UpdateProposal(p, prop, tally) ==
    LET state == NewState(prop, tally)
    IN  /\ CanUpdate(prop.state)
        /\ Proposals' = [Proposals EXCEPT ![p].state = state]
        /\ IF state.kind = "Approved"
           THEN /\ EnactmentQueue' = [EnactmentQueue EXCEPT ![prop.action] = Enqueue(@, p)]
                /\ LastApprovedProposalForAction' =
                     [LastApprovedProposalForAction EXCEPT ![prop.action] = [at |-> Now, id |-> p]]
           ELSE UNCHANGED approved

update_proposal_state(p) ==
    /\ UpdateProposal(p, Proposals[p], Tallies[p])
    /\ UNCHANGED <<clock, reputation, commitments, ProposalCount, PurposeIds, Tallies, history>>

-----------------------------------------------------------------------------
(* Commitments.                                                             *)

\* do_register_purpose
RegisterPurpose ==
    /\ CurrentPurposeId < MaxPurposes
    /\ CurrentPurposeId' = CurrentPurposeId + 1

register_purpose ==
    /\ RegisterPurpose
    /\ UNCHANGED <<clock, reputation, Commitments, proposals, history>>

\* The checks of do_commit_reputation.
Committing(a, cc, purpose) ==
    /\ purpose < CurrentPurposeId
    /\ a \in Verified[cc]
    /\ <<purpose, a>> \notin Commitments[cc]

commit_reputation(a, cc, purpose) ==
    /\ Committing(a, cc, purpose)
    /\ Commitments' = [Commitments EXCEPT ![cc] = @ \cup {<<purpose, a>>}]
    /\ UNCHANGED <<clock, reputation, CurrentPurposeId, proposals, history>>

-----------------------------------------------------------------------------
(* Proposals and votes.                                                     *)

submit_proposal(action) ==
    LET p == ProposalCount + 1
    IN  /\ EnactmentQueue[action] = <<>>
        /\ p <= MaxProposals
        /\ RegisterPurpose
        /\ ProposalCount' = p
        /\ Proposals' =
             [Proposals EXCEPT ![p] =
                [start |-> Now, start_cindex |-> CurrentCeremonyIndex, action |-> action,
                 state |-> Ongoing, electorate_size |-> Electorate(action, CurrentCeremonyIndex)]]
        /\ PurposeIds' = [PurposeIds EXCEPT ![p] = CurrentPurposeId]
        /\ Tallies' = [Tallies EXCEPT ![p] = NoVotes]
        /\ failing' = [failing EXCEPT ![p] = Now]
        /\ UNCHANGED <<clock, reputation, Commitments, approved, cast, failed>>

\* validate_and_commit_reputations: what counts of a list of reputations.
Eligible(a, p, ballot) ==
    {cc \in ballot :
       /\ cc[2] \in VotingCindexes(Proposals[p].start_cindex)
       /\ Policy(Proposals[p].action) \in {Global, cc[1]}
       /\ Committing(a, cc, PurposeIds[p])}

\* vote: the state is updated before the vote is counted and after; when the
\* first update ends the proposal, the second one fails and undoes it all.
vote(a, p, aye, ballot) ==
    LET first    == [Proposals[p] EXCEPT !.state = NewState(Proposals[p], Tallies[p])]
        eligible == Eligible(a, p, ballot)
        n        == Cardinality(eligible)
        tally    == [turnout |-> Tallies[p].turnout + n,
                     ayes    |-> Tallies[p].ayes + IF aye THEN n ELSE 0]
    IN  /\ CanUpdate(Proposals[p].state)
        /\ UpdateProposal(p, first, tally)
        /\ Tallies' = [Tallies EXCEPT ![p] = tally]
        /\ Commitments' =
             [cc \in Ceremony |-> IF cc \in eligible THEN Commitments[cc] \cup {<<PurposeIds[p], a>>}
                                  ELSE Commitments[cc]]
        /\ cast' = [cast EXCEPT ![p] = @ \cup {<<cc, a>> : cc \in eligible}]
        /\ failing' = [failing EXCEPT ![p] =
                         IF IsPassing(first.electorate_size, tally) THEN @ ELSE Now]
        /\ UNCHANGED <<clock, reputation, CurrentPurposeId, ProposalCount, PurposeIds, failed>>

-----------------------------------------------------------------------------
(* Ceremonies.                                                              *)

\* issue_rewards of the ceremonies pallet, once for each meetup, from Attesting
\* until the end of the following Registering phase.  A meetup that fails is
\* settled in the latter only, without participants.
issue_rewards(cid, participants) ==
    LET c  == IF CurrentPhase = "Registering" THEN CurrentCeremonyIndex - 1 ELSE CurrentCeremonyIndex
        cc == <<cid, c>>
        n  == Cardinality(participants)
    IN  /\ CurrentPhase # "Assigning"
        /\ cid \in CommunityIdentifiers
        /\ participants \cap Verified[cc] = {}
        /\ participants = {} => CurrentPhase = "Registering"
        /\ IssuedRewards' = IssuedRewards \cup {cc}
        /\ Verified' = [Verified EXCEPT ![cc] = @ \cup participants]
        /\ ReputationCount' = [ReputationCount EXCEPT ![cc] = @ + n]
        /\ GlobalReputationCount' = [GlobalReputationCount EXCEPT ![c] = @ + n]
        /\ UNCHANGED <<clock, communities, commitments, proposals, history>>

\* purge_community_ceremony_internal: the global count of a ceremony goes with
\* any community's part of it.
Purge(ccs) ==
    /\ Verified' = [cc \in Ceremony |-> IF cc \in ccs THEN {} ELSE Verified[cc]]
    /\ IssuedRewards' = IssuedRewards \ ccs
    /\ ReputationCount' = [cc \in Ceremony |-> IF cc \in ccs THEN 0 ELSE ReputationCount[cc]]
    /\ GlobalReputationCount' =
         [k \in Index |-> IF \E cc \in ccs : cc[2] = k THEN 0 ELSE GlobalReputationCount[k]]

\* update_inactivity_counters: a community without a settled meetup in the
\* ceremony before, when its time is up.
Idle(cid) == cid \in CommunityIdentifiers /\ <<cid, CurrentCeremonyIndex - 1>> \notin IssuedRewards
Inactives == {cid \in Community : Idle(cid) /\ InactivityCounters[cid] >= InactivityTimeout}

-----------------------------------------------------------------------------
(* Blocks and phases.                                                       *)

\* The timestamp of the next block, after which the hooks run.
NextBlock ==
    /\ Now < MaxNow
    /\ Now' = Now + 1
    /\ failing' =
         [p \in ProposalId |->
            IF CanUpdate(Proposals[p].state) /\ ~ IsPassing(Proposals[p].electorate_size, Tallies[p])
            THEN Now' ELSE failing[p]]

\* When a phase ends within a cycle, which is counted from an Attesting phase.
PhaseEnd ==
    [Attesting   |-> PhaseDurations["Attesting"],
     Registering |-> PhaseDurations["Attesting"] + PhaseDurations["Registering"],
     Assigning   |-> CycleDuration]

\* The scheduler changes the phase with this block.
PhaseOver == Now % CycleDuration = PhaseEnd[CurrentPhase] - 1

QuietBlock ==
    /\ ~ PhaseOver
    /\ NextBlock
    /\ UNCHANGED <<CurrentPhase, CurrentCeremonyIndex, reputation, commitments, proposals, cast, failed>>

Queued == UNION {ToSet(EnactmentQueue[action]) : action \in Actions}

\* Mutant: a failure ends the enactment of the others, too.
EnactAllOrNone(failures) ==
    /\ Proposals' = [p \in ProposalId |->
                       IF p \in Queued /\ failures = {}
                       THEN [Proposals[p] EXCEPT !.state = State("Enacted", 0)] ELSE Proposals[p]]
    /\ EnactmentQueue' = [action \in Actions |-> <<>>]
    /\ failed' = failed \cup failures

\* The proposals of the queue are enacted; one that fails stays approved and
\* is not tried again.
Enact(failures) ==
    /\ Proposals' = [p \in ProposalId |->
                       IF p \in Queued \ failures
                       THEN [Proposals[p] EXCEPT !.state = State("Enacted", 0)] ELSE Proposals[p]]
    /\ EnactmentQueue' = [action \in Actions |-> <<>>]
    /\ failed' = failed \cup failures

\* The ceremonies pallet purges inactive communities, this one enacts.
EnterAssigning ==
    /\ CurrentPhase = "Registering"
    /\ PhaseOver
    /\ NextBlock
    /\ PC!AdvancePhase
    /\ CommunityIdentifiers' = CommunityIdentifiers \ Inactives
    /\ InactivityCounters' =
         [cid \in Community |->
            IF cid \in Inactives \/ ~ Idle(cid) THEN 0 ELSE InactivityCounters[cid] + 1]
    /\ Purge(Inactives \X (SatSub(CurrentCeremonyIndex, ReputationLifetime) .. CurrentCeremonyIndex))
    /\ \E failures \in SUBSET {p \in Queued : Fallible(Proposals[p].action)} : Enact(failures)
    /\ UNCHANGED <<commitments, ProposalCount, PurposeIds, Tallies, LastApprovedProposalForAction, cast>>

EnterAttesting ==
    /\ CurrentPhase = "Assigning"
    /\ PhaseOver
    /\ NextBlock
    /\ PC!AdvancePhase
    /\ UNCHANGED <<reputation, commitments, proposals, cast, failed>>

Expired(c) ==
    {cc \in Ceremony : /\ cc[1] \in CommunityIdentifiers
                       /\ c > ReputationLifetime /\ cc[2] = c - ReputationLifetime - 1}

\* Mutant: commitments are forgotten while the reputation still counts.
ForgottenEarly(c) ==
    {cc \in Ceremony : /\ cc[1] \in CommunityIdentifiers
                       /\ c > ReputationLifetime /\ cc[2] <= c - ReputationLifetime + 1}

\* purge_registry of the commitments pallet, which follows the ceremonies.
Forgotten(c) == Expired(c)

\* Ceremonies and commitments purge what leaves the reputation lifetime.
EnterRegistering ==
    /\ CurrentPhase = "Attesting"
    /\ PhaseOver
    /\ NextBlock
    /\ PC!AdvancePhase
    /\ Purge(Expired(CurrentCeremonyIndex + 1))
    /\ Commitments' = [cc \in Ceremony |-> IF cc \in Forgotten(CurrentCeremonyIndex + 1) THEN {}
                                           ELSE Commitments[cc]]
    /\ UNCHANGED <<communities, CurrentPurposeId, proposals, cast, failed>>

Block == QuietBlock \/ EnterAssigning \/ EnterAttesting \/ EnterRegistering

-----------------------------------------------------------------------------

\* A chain with a past, when people meet for ceremony FirstIndex.
Init ==
    /\ Now = 0
    /\ CurrentPhase = "Attesting"
    /\ CurrentCeremonyIndex = FirstIndex
    /\ CommunityIdentifiers = Community
    /\ InactivityCounters =
         [cid \in Community |-> IF Past[<<cid, FirstIndex - 1>>] = {} THEN 1 ELSE 0]
    /\ Verified = Past
    /\ IssuedRewards = {cc \in Ceremony : Past[cc] # {}}
    /\ ReputationCount = [cc \in Ceremony |-> Cardinality(Past[cc])]
    /\ GlobalReputationCount =
         [k \in Index |-> SumFunctionOnSet([cid \in Community |-> Cardinality(Past[<<cid, k>>])], Community)]
    /\ CurrentPurposeId = 0
    /\ Commitments = [cc \in Ceremony |-> {}]
    /\ ProposalCount = 0
    /\ Proposals = [p \in ProposalId |-> NoProposal]
    /\ PurposeIds = [p \in ProposalId |-> 0]
    /\ Tallies = [p \in ProposalId |-> NoVotes]
    /\ LastApprovedProposalForAction = [action \in Actions |-> Nobody]
    /\ EnactmentQueue = [action \in Actions |-> <<>>]
    /\ cast = [p \in ProposalId |-> {}]
    /\ failing = [p \in ProposalId |-> 0]
    /\ failed = {}

Next ==
    \/ \E action \in Actions : submit_proposal(action)
    \/ \E p \in 1 .. ProposalCount : update_proposal_state(p)
    \/ \E p \in 1 .. ProposalCount, a \in Account, aye \in BOOLEAN, ballot \in Ballots :
         vote(a, p, aye, ballot)
    \/ register_purpose
    \/ \E held \in Committable : commit_reputation(held[1], held[2], held[3])
    \/ \E cid \in Community : \E participants \in Meetups[cid] : issue_rewards(cid, participants)
    \/ Block

Spec == Init /\ [][Next]_vars

\* Blocks keep coming.
FairSpec == Spec /\ WF_vars(Block)

-----------------------------------------------------------------------------
(* Properties.                                                              *)

\* Type correctness.
TypeOK ==
    /\ Now \in 0 .. MaxNow
    /\ CurrentPhase \in PC!Phases
    /\ CurrentCeremonyIndex \in Index
    /\ CommunityIdentifiers \subseteq Community
    /\ InactivityCounters \in [Community -> 0 .. InactivityTimeout]
    /\ Verified \in [Ceremony -> SUBSET Account]
    /\ IssuedRewards \subseteq Ceremony
    /\ Commitments \in [Ceremony -> SUBSET (PurposeId \X Account)]
    /\ ProposalCount \in 0 .. MaxProposals
    /\ \A p \in ProposalId :
         /\ Tallies[p].ayes <= Tallies[p].turnout
         /\ PurposeIds[p] \in PurposeId
         /\ Proposals[p].state.kind \in
              IF p > ProposalCount THEN {"None"}
              ELSE {"Ongoing", "Confirming", "Approved", "SupersededBy", "Rejected", "Enacted"}
    /\ \A action \in Actions : Len(EnactmentQueue[action]) <= QueueLimit
    /\ \A p \in Queued : Proposals[p].state.kind = "Approved"

\* One reputation, one vote on a proposal, however the list of a ballot looks
\* like, whenever it is cast and whatever is purged in between ("have not been
\* used to vote for proposal_id").
OneVotePerReputation ==
    \A p \in ProposalId : Tallies[p].turnout = Cardinality(cast[p])

\* No more votes than there are voters: the threshold of is_passing is about a
\* share of the electorate, also when people get new reputation, old one
\* expires and communities vanish while the proposal is voted on.
TurnoutWithinElectorate ==
    \A p \in 1 .. ProposalCount : Tallies[p].turnout <= Proposals[p].electorate_size

\* "These boundaries ensure that we have a constant electorate to determine
\* the approval threshold" (voting_cindexes): as long as the proposal is not
\* too old and its community exists, those who may vote are exactly as many as
\* were counted when it was submitted, none more and none expired.
ElectorateConstant ==
    \A p \in 1 .. ProposalCount :
        LET cid == Policy(Proposals[p].action)
        IN  /\ cid \in CommunityIdentifiers
            /\ Now - Proposals[p].start <= ProposalLifetime
            => Proposals[p].electorate_size =
                 SumFunctionOnSet([k \in Index |-> Cardinality(Verified[<<cid, k>>])],
                                  VotingCindexes(Proposals[p].start_cindex))

\* "The period in which the proposal has to be in passing state before it is
\* approved" (ConfirmationPeriod): a proposal that is approved has been passing
\* all the time for longer than this, although the state is only updated when
\* somebody asks for it.
ApprovalConfirmed ==
    [][\A p \in ProposalId :
         Proposals[p].state.kind # "Approved" /\ Proposals'[p].state.kind = "Approved"
         => Now - failing[p] > ConfirmationPeriod]_vars

\* Whatever is in the queue is enacted or reported as failed, each for itself,
\* with the next Assigning phase (if the bound of time leaves one).
QueuedSettles ==
    \A p \in ProposalId :
        (p \in Queued /\ \E t \in Now + 1 .. MaxNow : t % CycleDuration = PhaseEnd["Registering"])
        ~> (Proposals[p].state.kind = "Enacted" \/ p \in failed)

====
