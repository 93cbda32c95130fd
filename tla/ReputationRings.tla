---- MODULE ReputationRings ----
(***************************************************************************)
(* pallet_encointer_reputation_rings: for every ceremony of a community    *)
(* the pallet publishes rings of keys; the ring of level N has the keys of *)
(* the accounts that attended at least N of the last MaxLevels ceremonies. *)
(*                                                                         *)
(* The computation takes many blocks.  It scans one past ceremony or       *)
(* builds one level in a step, taken by on_idle when a block has weight    *)
(* left or by anybody with continue_ring_computation, while accounts       *)
(* change keys, rewards are claimed, phases change and history is purged.  *)
(*                                                                         *)
(* The ceremonies pallet is reduced to what this one reads: who has        *)
(* verified reputation.  Accounts and keys are numbers: members are sorted *)
(* by key before they are split into sub-rings.                            *)
(***************************************************************************)
EXTENDS Integers, FiniteSets, Sequences

CONSTANTS
    Account,             \* accounts, a set of numbers
    Community,           \* CommunityIdentifiers
    Queue,               \* the communities in the order of community_identifiers()
    Keys,                \* bound: the keys each account registers, [Account -> SUBSET Nat]
    Meetups,             \* bound: the groups of a community that are rewarded together
    Initiable,           \* bound: ceremonies that anybody initiates rings for
    MaxLevels,           \* MAX_REPUTATION_LEVELS
    MaxRingSize,         \* T::MaxRingSize
    ReputationLifetime,  \* of the ceremonies pallet
    MaxIndex             \* bound: last ceremony considered

ASSUME RingsAssumption ==
    /\ Account \subseteq Nat
    /\ IsFiniteSet(Account)
    /\ Queue \in Seq(Community)
    /\ Keys \in [Account -> SUBSET (Nat \ {0})]
    /\ Meetups \in [Community -> SUBSET SUBSET Account]
    /\ Initiable \subseteq Nat
    /\ MaxLevels \in Nat \ {0}
    /\ MaxRingSize \in Nat \ {0}
    /\ ReputationLifetime \in Nat
    /\ MaxIndex \in Nat \ {0}

VARIABLES
    CurrentPhase,            \* scheduler
    CurrentCeremonyIndex,    \* scheduler
    Verified,                \* ceremonies: accounts with verified reputation
    BandersnatchKeys,        \* key of an account, 0 if it has none
    RingMembers,             \* level of a community ceremony -> sub-ring -> keys
    SubRingCount,
    PendingRingComputation,
    PendingCommunities,
    PendingCeremonyIndex,
    attended,                \* history: Verified as if it were never purged
    eligible                 \* history: who had a key when the computation began

scheduler == <<CurrentPhase, CurrentCeremonyIndex>>
rings     == <<RingMembers, SubRingCount>>
queue     == <<PendingCommunities, PendingCeremonyIndex>>
vars      == <<scheduler, Verified, BandersnatchKeys, rings, PendingRingComputation, queue,
               attended, eligible>>

PC == INSTANCE PhaseCycle

Index    == 0 .. MaxIndex
Ceremony == Community \X Index
Level    == 1 .. MaxLevels

NoRing == [i \in {} |-> {}]
NoKeys == [l \in Level |-> NoRing]

\* No computation, or the one for a community ceremony: step is the offset of
\* the ceremony to scan while collecting, the level to build while building.
Idle == [stage |-> "None"]

Computation(cid, c, stage, step, attendance) ==
    [stage |-> stage, community |-> cid, ceremony_index |-> c, step |-> step,
     attendance |-> attendance]

Fresh(cid, c) == Computation(cid, c, "Collecting", 0, [a \in Account |-> 0])

Init ==
    /\ CurrentPhase = "Registering"
    /\ CurrentCeremonyIndex = 1
    /\ Verified = [cc \in Ceremony |-> {}]
    /\ BandersnatchKeys = [a \in Account |-> 0]
    /\ RingMembers = [cc \in Ceremony |-> NoKeys]
    /\ SubRingCount = [cc \in Ceremony |-> [l \in Level |-> 0]]
    /\ PendingRingComputation = Idle
    /\ PendingCommunities = <<>>
    /\ PendingCeremonyIndex = 0
    /\ attended = Verified
    /\ eligible = {}

-----------------------------------------------------------------------------
(* Extrinsics.                                                              *)

register_bandersnatch_key(a, key) ==
    /\ BandersnatchKeys' = [BandersnatchKeys EXCEPT ![a] = key]
    /\ UNCHANGED <<scheduler, Verified, rings, PendingRingComputation, queue, attended, eligible>>

Keyed == {a \in Account : BandersnatchKeys[a] # 0}

Begin(cid, c) ==
    /\ PendingRingComputation' = Fresh(cid, c)
    /\ eligible' = Keyed

\* For any past ceremony, however old.
initiate_rings(cid, c) ==
    /\ CurrentPhase = "Assigning"
    /\ PendingRingComputation = Idle
    /\ c > 0 /\ c < CurrentCeremonyIndex
    /\ Begin(cid, c)
    /\ UNCHANGED <<scheduler, Verified, BandersnatchKeys, rings, queue, attended>>

-----------------------------------------------------------------------------
(* One step of the computation.                                             *)

\* Mutant: the first ceremony is counted again where there is none before it.
ScannedAtLeastFirst(c, offset) == IF c > offset THEN c - offset ELSE 1

\* The ceremony at an offset; there is none with index zero.
Scanned(c, offset) == IF c > offset THEN c - offset ELSE 0

CollectMembersStep ==
    LET p == PendingRingComputation
        c == Scanned(p.ceremony_index, p.step)
    IN  /\ p.stage = "Collecting"
        /\ PendingRingComputation' =
             IF p.step >= MaxLevels
             THEN [p EXCEPT !.stage = "Building", !.step = MaxLevels]
             ELSE [p EXCEPT !.step = @ + 1,
                            !.attendance =
                              [a \in Account |->
                                 IF c # 0 /\ a \in Keyed /\ a \in Verified[<<p.community, c>>]
                                 THEN @[a] + 1 ELSE @[a]]]
        /\ UNCHANGED rings

\* Mutant: more attendances than the level asks for.
MembersStrict(p) == {a \in Keyed : p.attendance[a] > p.step}

\* The members of the level that is being built.
Members(p) == {a \in Keyed : p.attendance[a] >= p.step}

\* The place of a when the members are sorted by key.
Rank(members, a) ==
    Cardinality({b \in members : \/ BandersnatchKeys[b] < BandersnatchKeys[a]
                                 \/ BandersnatchKeys[b] = BandersnatchKeys[a] /\ b < a})

NumSubRings(total) ==
    IF total <= MaxRingSize THEN 1 ELSE (total + MaxRingSize - 1) \div MaxRingSize

\* Even split: the first place of sub-ring i.
FirstOf(i, total, n) == (i * total) \div n

SubRing(members, i, total, n) ==
    {a \in members : FirstOf(i, total, n) <= Rank(members, a) /\ Rank(members, a) < FirstOf(i + 1, total, n)}

\* The sub-rings are written one by one; an old one with a higher index stays.
Overwrite(old, members) ==
    LET total == Cardinality(members)
        n     == NumSubRings(total)
    IN  [i \in DOMAIN old \cup 0 .. n - 1 |->
           IF i < n THEN {BandersnatchKeys[a] : a \in SubRing(members, i, total, n)} ELSE old[i]]

\* Mutant: the loosest level is forgotten.
AfterLevelTwo(p) == IF p.step <= 2 THEN Idle ELSE [p EXCEPT !.step = @ - 1]

\* From the strictest level to the loosest, then the computation is done.
AfterLevel(p) == IF p.step = 1 THEN Idle ELSE [p EXCEPT !.step = @ - 1]

BuildRingStep ==
    LET p  == PendingRingComputation
        cc == <<p.community, p.ceremony_index>>
    IN  /\ p.stage = "Building"
        /\ RingMembers' = [RingMembers EXCEPT ![cc][p.step] = Overwrite(@, Members(p))]
        /\ SubRingCount' = [SubRingCount EXCEPT ![cc][p.step] = NumSubRings(Cardinality(Members(p)))]
        /\ PendingRingComputation' = AfterLevel(p)

ProcessComputationStep ==
    /\ CollectMembersStep \/ BuildRingStep
    /\ UNCHANGED <<scheduler, Verified, BandersnatchKeys, queue, attended, eligible>>

\* By anybody, in every phase.
continue_ring_computation == ProcessComputationStep

\* Mutant: the community stays in the queue.
StartQueuedKeeping ==
    /\ PendingRingComputation = Idle
    /\ PendingCommunities # <<>>
    /\ Begin(Head(PendingCommunities), PendingCeremonyIndex)
    /\ UNCHANGED <<scheduler, Verified, BandersnatchKeys, rings, queue, attended>>

\* on_idle with no computation to advance: the next community of the queue.
StartQueued ==
    /\ PendingRingComputation = Idle
    /\ PendingCommunities # <<>>
    /\ PendingCommunities' = Tail(PendingCommunities)
    /\ Begin(Head(PendingCommunities), PendingCeremonyIndex)
    /\ UNCHANGED <<scheduler, Verified, BandersnatchKeys, rings, PendingCeremonyIndex, attended>>

\* One iteration of the loop of on_idle; a block has weight for some of them.
on_idle == ProcessComputationStep \/ StartQueued

-----------------------------------------------------------------------------
(* Ceremonies and phases.                                                   *)

\* issue_rewards of the ceremonies pallet for one meetup, once, from Attesting
\* until the end of the following Registering phase.
issue_rewards(cid, participants) ==
    LET c  == IF CurrentPhase = "Registering" THEN CurrentCeremonyIndex - 1 ELSE CurrentCeremonyIndex
        cc == <<cid, c>>
    IN  /\ CurrentPhase # "Assigning"
        /\ c > 0
        /\ c < MaxIndex        \* bound: rings of the last ceremony are not computed
        /\ participants \cap Verified[cc] = {}
        /\ Verified' = [Verified EXCEPT ![cc] = @ \cup participants]
        /\ attended' = [attended EXCEPT ![cc] = @ \cup participants]
        /\ UNCHANGED <<scheduler, BandersnatchKeys, rings, PendingRingComputation, queue, eligible>>

\* on_ceremony_phase_change(Assigning): not in the first ceremony, nor while
\* the previous batch is pending.
QueueAll ==
    IF CurrentCeremonyIndex = 1 \/ PendingCommunities # <<>> THEN UNCHANGED queue
    ELSE /\ PendingCommunities' = Queue
         /\ PendingCeremonyIndex' = CurrentCeremonyIndex - 1

EnterAssigning ==
    /\ CurrentPhase = "Registering"
    /\ PC!AdvancePhase
    /\ QueueAll
    /\ UNCHANGED <<Verified, BandersnatchKeys, rings, PendingRingComputation, attended, eligible>>

EnterAttesting ==
    /\ CurrentPhase = "Assigning"
    /\ PC!AdvancePhase
    /\ UNCHANGED <<Verified, BandersnatchKeys, rings, PendingRingComputation, queue, attended, eligible>>

\* The ceremonies that leave the reputation lifetime with ceremony c.
Expired(c) == {cc \in Ceremony : c > ReputationLifetime /\ cc[2] = c - ReputationLifetime - 1}

\* on_ceremony_phase_change(Registering): both pallets purge one ceremony.
EnterRegistering ==
    LET expired == Expired(CurrentCeremonyIndex + 1)
    IN  /\ CurrentPhase = "Attesting"
        /\ CurrentCeremonyIndex < MaxIndex
        /\ PC!AdvancePhase
        /\ Verified' = [cc \in Ceremony |-> IF cc \in expired THEN {} ELSE Verified[cc]]
        /\ RingMembers' = [cc \in Ceremony |-> IF cc \in expired THEN NoKeys ELSE RingMembers[cc]]
        /\ SubRingCount' =
             [cc \in Ceremony |-> IF cc \in expired THEN [l \in Level |-> 0] ELSE SubRingCount[cc]]
        /\ UNCHANGED <<BandersnatchKeys, PendingRingComputation, queue, attended, eligible>>

PhaseChange == EnterAssigning \/ EnterAttesting \/ EnterRegistering

-----------------------------------------------------------------------------

Next ==
    \/ \E a \in Account : \E key \in Keys[a] : register_bandersnatch_key(a, key)
    \/ \E cid \in Community, c \in Initiable : initiate_rings(cid, c)
    \/ continue_ring_computation
    \/ on_idle
    \/ \E cid \in Community : \E participants \in Meetups[cid] : issue_rewards(cid, participants)
    \/ PhaseChange

Spec == Init /\ [][Next]_vars

\* Blocks keep having weight to spare, and the phases keep changing.
FairSpec == Spec /\ WF_vars(on_idle) /\ WF_vars(PhaseChange)

-----------------------------------------------------------------------------
(* Properties.                                                              *)

\* Type correctness.
TypeOK ==
    /\ CurrentPhase \in PC!Phases
    /\ CurrentCeremonyIndex \in Index
    /\ BandersnatchKeys \in [Account -> Nat]
    /\ \A cc \in Ceremony, l \in Level :
         /\ SubRingCount[cc][l] \in Nat
         /\ 0 .. SubRingCount[cc][l] - 1 \subseteq DOMAIN RingMembers[cc][l]
    /\ PendingRingComputation.stage \in {"None", "Collecting", "Building"}
    /\ PendingRingComputation.stage = "Collecting" => PendingRingComputation.step \in 0 .. MaxLevels
    /\ PendingRingComputation.stage = "Building" => PendingRingComputation.step \in Level
    /\ PendingCeremonyIndex \in 0 .. CurrentCeremonyIndex

\* The keys of a level, as a reader finds them with SubRingCount.
PublishedIn(members, count, cc, l) == UNION {members[cc][l][i] : i \in 0 .. count[cc][l] - 1}

Ring(cc, l) == PublishedIn(RingMembers, SubRingCount, cc, l)

Computing(cc) ==
    /\ PendingRingComputation # Idle
    /\ PendingRingComputation.community = cc[1]
    /\ PendingRingComputation.ceremony_index = cc[2]

\* How many of the ceremonies that count for c the account attended.
Attendance(cid, c, a) ==
    Cardinality({k \in 1 .. c : k > c - MaxLevels /\ a \in attended[<<cid, k>>]})

\* "Rings are strict subsets: 5/5 in 4/5 in ... in 1/5" (README): unless its
\* computation is under way, no key of a stricter level is missing in a looser
\* one, also when a ceremony is computed again or purged in between.
RingsNested ==
    \A cc \in Ceremony : \A l \in Level \ {1} :
        ~ Computing(cc) => Ring(cc, l) \subseteq Ring(cc, l - 1)

\* Whatever happens while the members are collected block by block, the key of
\* somebody who attended fewer than N of the last ceremonies never gets into
\* the ring of level N.
RingsSound ==
    \A cc \in Ceremony, l \in Level : \A key \in Ring(cc, l) :
        \E a \in Account : key \in Keys[a] /\ Attendance(cc[1], cc[2], a) >= l

\* A computation of the ceremony before the current one that is completed in
\* the Assigning phase leaves nobody out who had a key when it began, in
\* whichever sub-ring, provided that reputation lives long enough.
RingsComplete ==
    [][ /\ ReputationLifetime >= MaxLevels
        /\ CurrentPhase = "Assigning"
        /\ PendingRingComputation # Idle /\ PendingRingComputation' = Idle
        /\ PendingRingComputation.ceremony_index = CurrentCeremonyIndex - 1
        => LET cid == PendingRingComputation.community
               c   == PendingRingComputation.ceremony_index
           IN  \A a \in eligible, l \in Level :
                 Attendance(cid, c, a) >= l
                 => \E key \in Keys[a] :
                      key \in PublishedIn(RingMembers', SubRingCount', <<cid, c>>, l)]_vars

\* Every community that was queued gets its rings computed, even if others ask
\* for computations all the time and the phases move on.
QueueDrains ==
    (PendingCommunities # <<>>) ~> (PendingCommunities = <<>> /\ PendingRingComputation = Idle)

====
