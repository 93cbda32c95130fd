---- MODULE ReputationRingsProofs ----
(***************************************************************************)
(* Proofs about module ReputationRings, for any number of accounts,        *)
(* communities, levels and ceremonies and any size of sub-rings: rings     *)
(* never admit somebody who attended too little, they are nested, and      *)
(* they leave nobody out.                                                  *)
(***************************************************************************)
EXTENDS ReputationRings, NumberLemmas

-----------------------------------------------------------------------------
(* The split into sub-rings.                                                *)

\* There is at least one sub-ring.
LEMMA SomeSubRing ==
    ASSUME NEW total \in Nat
    PROVE  NumSubRings(total) \in Nat \ {0}
<1>1. CASE total <= MaxRingSize
  BY <1>1 DEF NumSubRings
<1>2. CASE ~ (total <= MaxRingSize)
  <2>1. MaxRingSize \in Nat \ {0}
    BY RingsAssumption
  <2> DEFINE m == total + MaxRingSize - 1
  <2>2. m \in Nat /\ MaxRingSize * 1 <= m
    BY <1>2, <2>1
  <2> HIDE DEF m
  <2>3. m \div MaxRingSize \in Nat /\ 1 <= m \div MaxRingSize
    BY <2>1, <2>2, QuotientAtLeast, Division
  <2> QED BY <1>2, <2>3 DEF NumSubRings, m
<1> QED BY <1>1, <1>2

\* The even split begins at zero and ends with the last member.
LEMMA SplitEnds ==
    ASSUME NEW total \in Nat, NEW n \in Nat \ {0}
    PROVE  /\ FirstOf(0, total, n) = 0
           /\ FirstOf(n, total, n) = total
           /\ \A i \in Nat : FirstOf(i, total, n) \in Nat
<1>1. 0 * total = 0 /\ 0 = n * 0 + 0 /\ 0 \in 0 .. n - 1
  OBVIOUS
<1>2. 0 \div n = 0
  BY <1>1, DivisionUnique
<1>3. n * total \in Nat /\ n * total = n * total + 0
  OBVIOUS
<1>4. (n * total) \div n = total
  BY <1>1, <1>3, DivisionUnique
<1>5. ASSUME NEW i \in Nat
      PROVE  (i * total) \div n \in Nat
  <2>1. i * total \in Nat
    OBVIOUS
  <2> QED BY <2>1, Division
<1> QED BY <1>1, <1>2, <1>4, <1>5 DEF FirstOf

\* Every place is in a sub-ring.
LEMMA PlaceFound ==
    ASSUME NEW total \in Nat, NEW n \in Nat \ {0}, NEW r \in 0 .. total - 1
    PROVE  \E i \in 0 .. n - 1 : FirstOf(i, total, n) <= r /\ r < FirstOf(i + 1, total, n)
<1> DEFINE B == {j \in Nat : r < FirstOf(j, total, n)}
<1>1. n \in B /\ B \subseteq Nat
  BY SplitEnds
<1>2. PICK j \in B : \A m \in B : j <= m
  <2> HIDE DEF B
  <2> QED BY <1>1, LeastNumber
<1>3. j # 0
  BY SplitEnds
<1>4. j - 1 \in Nat /\ j - 1 \notin B /\ j <= n
  BY <1>1, <1>2, <1>3
<1>5. FirstOf(j - 1, total, n) \in Nat /\ FirstOf(j - 1, total, n) <= r
  BY <1>4, SplitEnds
<1>6. j - 1 \in 0 .. n - 1 /\ (j - 1) + 1 = j
  BY <1>4
<1> QED BY <1>5, <1>6

\* The places of the members when they are sorted by key.
LEMMA RankBound ==
    ASSUME NEW members \in SUBSET Account, NEW a \in members, BandersnatchKeys \in [Account -> Nat]
    PROVE  Rank(members, a) \in 0 .. Cardinality(members) - 1
<1> DEFINE before == {b \in members : \/ BandersnatchKeys[b] < BandersnatchKeys[a]
                                      \/ BandersnatchKeys[b] = BandersnatchKeys[a] /\ b < a}
<1>1. before \subseteq members /\ a \notin before
  BY RingsAssumption
<1>2. IsFiniteSet(members) /\ IsFiniteSet(before)
  BY <1>1, RingsAssumption, FS_Subset
<1>3. /\ Cardinality(before) \in Nat
      /\ Cardinality(members) \in Nat
      /\ Cardinality(before) <= Cardinality(members)
      /\ Cardinality(before) # Cardinality(members)
  <2> HIDE DEF before
  <2> QED BY <1>1, <1>2, FS_Subset, FS_CardinalityType
<1>4. Rank(members, a) = Cardinality(before)
  BY DEF Rank
<1> HIDE DEF before
<1> QED BY <1>3, <1>4

\* The keys of a set of accounts.
KeysOf(members) == {BandersnatchKeys[a] : a \in members}

\* build_ring_step: the new sub-rings together have exactly the keys of the
\* members, and no sub-ring gets any other key.
LEMMA OverwriteCovers ==
    ASSUME NEW members \in SUBSET Account, NEW old, BandersnatchKeys \in [Account -> Nat]
    PROVE  LET new == Overwrite(old, members)
               n   == NumSubRings(Cardinality(members))
           IN  /\ n \in Nat
               /\ 0 .. n - 1 \subseteq DOMAIN new
               /\ UNION {new[i] : i \in 0 .. n - 1} = KeysOf(members)
               /\ \A i \in DOMAIN new : \/ new[i] \subseteq KeysOf(members)
                                        \/ i \in DOMAIN old /\ new[i] = old[i]
<1> DEFINE new == Overwrite(old, members)
<1> DEFINE total == Cardinality(members)
<1> DEFINE n == NumSubRings(total)
<1> DEFINE Part(i) == {BandersnatchKeys[a] : a \in SubRing(members, i, total, n)}
<1>1. total \in Nat
  BY RingsAssumption, FS_Subset, FS_CardinalityType
<1>2. n \in Nat \ {0}
  BY <1>1, SomeSubRing
<1>3. new = [i \in DOMAIN old \cup 0 .. n - 1 |-> IF i < n THEN Part(i) ELSE old[i]]
  BY DEF Overwrite
<1>4. \A i : Part(i) \subseteq KeysOf(members)
  BY DEF SubRing, KeysOf
<1>5. ASSUME NEW a \in members
      PROVE  \E i \in 0 .. n - 1 : BandersnatchKeys[a] \in Part(i)
  <2>1. Rank(members, a) \in 0 .. total - 1
    BY RankBound
  <2>2. PICK i \in 0 .. n - 1 :
          FirstOf(i, total, n) <= Rank(members, a) /\ Rank(members, a) < FirstOf(i + 1, total, n)
    <3> HIDE DEF total, n
    <3> QED BY <1>1, <1>2, <2>1, PlaceFound
  <2>3. a \in SubRing(members, i, total, n)
    BY <2>2 DEF SubRing
  <2> QED BY <2>3
<1> HIDE DEF Part, new, n
<1>6. /\ 0 .. n - 1 \subseteq DOMAIN new
      /\ \A i \in 0 .. n - 1 : new[i] = Part(i)
      /\ \A i \in DOMAIN new : new[i] = Part(i) \/ (i \in DOMAIN old /\ new[i] = old[i])
  BY <1>2, <1>3
<1>7. UNION {new[i] : i \in 0 .. n - 1} = KeysOf(members)
  <2>1. \A key \in KeysOf(members) : \E i \in 0 .. n - 1 : key \in new[i]
    BY <1>5, <1>6 DEF KeysOf
  <2>2. \A i \in 0 .. n - 1 : new[i] \subseteq KeysOf(members)
    BY <1>4, <1>6
  <2> QED BY <2>1, <2>2
<1> QED BY <1>2, <1>4, <1>6, <1>7 DEF new, n

-----------------------------------------------------------------------------
(* The storage.                                                             *)

\* A computation that is under way.
Job == [stage : {"Collecting", "Building"}, community : Community, ceremony_index : Index,
        step : 0 .. MaxLevels, attendance : [Account -> Nat]]

\* The storage maps of the rings.
RingMaps ==
    /\ DOMAIN RingMembers = Ceremony
    /\ \A cc \in Ceremony : DOMAIN RingMembers[cc] = Level
    /\ SubRingCount \in [Ceremony -> [Level -> Nat]]
    /\ \A cc \in Ceremony, l \in Level :
         0 .. SubRingCount[cc][l] - 1 \subseteq DOMAIN RingMembers[cc][l]

\* Who attended, and what is left of it.
History ==
    /\ CurrentPhase \in PC!Phases
    /\ CurrentCeremonyIndex \in 1 .. MaxIndex
    /\ Verified \in [Ceremony -> SUBSET Account]
    /\ attended \in [Ceremony -> SUBSET Account]
    /\ \A cc \in Ceremony : Verified[cc] \subseteq attended[cc]

\* Keys are never taken away.
KeyMap ==
    /\ BandersnatchKeys \in [Account -> Nat]
    /\ \A a \in Account : BandersnatchKeys[a] = 0 \/ BandersnatchKeys[a] \in Keys[a]
    /\ eligible \subseteq Keyed

\* Computations are about past ceremonies, under way or queued.
Jobs ==
    /\ PendingRingComputation = Idle \/ PendingRingComputation \in Job
    /\ PendingRingComputation # Idle =>
         PendingRingComputation.ceremony_index < CurrentCeremonyIndex
    /\ PendingRingComputation.stage = "Building" => PendingRingComputation.step \in Level
    /\ PendingCommunities \in Seq(Community)
    /\ PendingCeremonyIndex \in Nat
    /\ PendingCeremonyIndex < CurrentCeremonyIndex

RingsType == RingMaps /\ History /\ KeyMap /\ Jobs

\* The computation of members scans one more ceremony, or is complete.
LEMMA CollectStep ==
    ASSUME Jobs, CollectMembersStep
    PROVE  LET p == PendingRingComputation
               q == PendingRingComputation'
               c == Scanned(p.ceremony_index, p.step)
           IN  /\ p \in Job
               /\ q \in Job
               /\ p.stage = "Collecting"
               /\ q.community = p.community
               /\ q.ceremony_index = p.ceremony_index
               /\ \/ /\ q.stage = "Building"
                     /\ p.step = MaxLevels
                     /\ q.step = MaxLevels
                     /\ q.attendance = p.attendance
                  \/ /\ q.stage = "Collecting"
                     /\ q.step = p.step + 1
                     /\ \A a \in Account :
                          q.attendance[a] =
                            IF c # 0 /\ a \in Keyed /\ a \in Verified[<<p.community, c>>]
                            THEN p.attendance[a] + 1 ELSE p.attendance[a]
<1> DEFINE p == PendingRingComputation
<1> DEFINE q == PendingRingComputation'
<1> DEFINE c == Scanned(p.ceremony_index, p.step)
<1> DEFINE more == [a \in Account |-> IF c # 0 /\ a \in Keyed /\ a \in Verified[<<p.community, c>>]
                                      THEN p.attendance[a] + 1 ELSE p.attendance[a]]
<1>1. p.stage = "Collecting" /\ p \in Job
  BY DEF CollectMembersStep, Jobs, Idle
<1>2. q = IF p.step >= MaxLevels
          THEN [p EXCEPT !.stage = "Building", !.step = MaxLevels]
          ELSE [p EXCEPT !.step = p.step + 1, !.attendance = more]
  BY DEF CollectMembersStep
<1>3. p.step \in 0 .. MaxLevels /\ MaxLevels \in Nat \ {0} /\ p.attendance \in [Account -> Nat]
  BY <1>1, RingsAssumption DEF Job
<1>4. more \in [Account -> Nat]
  BY <1>3
<1>5. CASE p.step >= MaxLevels
  <2>1. q = [p EXCEPT !.stage = "Building", !.step = MaxLevels]
    BY <1>2, <1>5
  <2>2. p.step = MaxLevels /\ MaxLevels \in 0 .. MaxLevels
    BY <1>3, <1>5
  <2>3. /\ q \in Job
        /\ q.stage = "Building"
        /\ q.community = p.community
        /\ q.ceremony_index = p.ceremony_index
        /\ q.step = MaxLevels
        /\ q.attendance = p.attendance
    BY <1>1, <2>1, <2>2 DEF Job
  <2> QED BY <1>1, <2>2, <2>3
<1>6. CASE ~ (p.step >= MaxLevels)
  <2> HIDE DEF more
  <2>1. q = [p EXCEPT !.step = p.step + 1, !.attendance = more]
    BY <1>2, <1>6
  <2>2. p.step + 1 \in 0 .. MaxLevels
    BY <1>3, <1>6
  <2>3. /\ q \in Job
        /\ q.stage = "Collecting"
        /\ q.community = p.community
        /\ q.ceremony_index = p.ceremony_index
        /\ q.step = p.step + 1
        /\ q.attendance = more
    BY <1>1, <1>4, <2>1, <2>2 DEF Job
  <2> QED BY <1>1, <2>3 DEF more
<1> QED BY <1>5, <1>6

\* A level is built: its ring has the keys of its members, the other rings
\* stay as they are.
LEMMA BuildStep ==
    ASSUME RingsType, BuildRingStep
    PROVE  LET p == PendingRingComputation
               q == PendingRingComputation'
               d == <<p.community, p.ceremony_index>>
           IN  /\ p \in Job
               /\ d \in Ceremony
               /\ p.stage = "Building"
               /\ p.step \in Level
               /\ \/ q = Idle /\ p.step = 1
                  \/ /\ q \in Job
                     /\ p.step > 1
                     /\ q.stage = "Building"
                     /\ q.community = p.community
                     /\ q.ceremony_index = p.ceremony_index
                     /\ q.step = p.step - 1
                     /\ q.attendance = p.attendance
               /\ RingMaps'
               /\ \A cc \in Ceremony, l \in Level :
                    PublishedIn(RingMembers', SubRingCount', cc, l) =
                      IF cc = d /\ l = p.step THEN KeysOf(Members(p)) ELSE Ring(cc, l)
               /\ \A cc \in Ceremony, l \in Level :
                    \A i \in DOMAIN RingMembers'[cc][l] :
                      \/ cc = d /\ l = p.step /\ RingMembers'[cc][l][i] \subseteq KeysOf(Members(p))
                      \/ i \in DOMAIN RingMembers[cc][l] /\ RingMembers'[cc][l][i] = RingMembers[cc][l][i]
<1> DEFINE p == PendingRingComputation
<1> DEFINE q == PendingRingComputation'
<1> DEFINE d == <<p.community, p.ceremony_index>>
<1> DEFINE s == p.step
<1> DEFINE old == RingMembers[d][s]
<1> DEFINE new == Overwrite(old, Members(p))
<1> DEFINE n == NumSubRings(Cardinality(Members(p)))
<1>1. p.stage = "Building" /\ p \in Job
  BY DEF BuildRingStep, RingsType, Jobs, Idle
<1>2. p.step \in Level /\ d \in Ceremony
  BY <1>1 DEF RingsType, Jobs, Job, Ceremony
<1>3. q = AfterLevel(p)
  BY DEF BuildRingStep
<1>4. \/ q = Idle /\ p.step = 1
      \/ /\ q \in Job
         /\ p.step > 1
         /\ q.stage = "Building"
         /\ q.community = p.community
         /\ q.ceremony_index = p.ceremony_index
         /\ q.step = p.step - 1
         /\ q.attendance = p.attendance
  <2>1. CASE p.step = 1
    BY <1>3, <2>1 DEF AfterLevel
  <2>2. CASE p.step # 1
    <3>1. q = [p EXCEPT !.step = p.step - 1]
      BY <1>3, <2>2 DEF AfterLevel
    <3>2. p.step > 1 /\ p.step - 1 \in 0 .. MaxLevels
      BY <1>2, <2>2, RingsAssumption DEF Level
    <3> QED BY <1>1, <3>1, <3>2 DEF Job
  <2> QED BY <2>1, <2>2
<1>5. Members(p) \subseteq Account
  BY DEF Members, Keyed
<1>6. /\ n \in Nat
      /\ 0 .. n - 1 \subseteq DOMAIN new
      /\ UNION {new[i] : i \in 0 .. n - 1} = KeysOf(Members(p))
      /\ \A i \in DOMAIN new : \/ new[i] \subseteq KeysOf(Members(p))
                               \/ i \in DOMAIN old /\ new[i] = old[i]
  <2>1. BandersnatchKeys \in [Account -> Nat]
    BY DEF RingsType, KeyMap
  <2> HIDE DEF old
  <2> QED BY <1>5, <2>1, OverwriteCovers
<1>7. /\ RingMembers' = [RingMembers EXCEPT ![d][s] = new]
      /\ SubRingCount' = [SubRingCount EXCEPT ![d][s] = n]
  BY DEF BuildRingStep
<1> HIDE DEF new, n, d
<1>8. /\ DOMAIN RingMembers' = Ceremony
      /\ DOMAIN SubRingCount' = Ceremony
      /\ \A cc \in Ceremony :
           DOMAIN RingMembers'[cc] = Level /\ DOMAIN SubRingCount'[cc] = Level
      /\ \A cc \in Ceremony, l \in Level :
           /\ RingMembers'[cc][l] = IF cc = d /\ l = s THEN new ELSE RingMembers[cc][l]
           /\ SubRingCount'[cc][l] = IF cc = d /\ l = s THEN n ELSE SubRingCount[cc][l]
  BY <1>2, <1>7 DEF RingsType, RingMaps
<1>9. RingMaps'
  <2>1. \A cc \in Ceremony, l \in Level : SubRingCount'[cc][l] \in Nat
    BY <1>6, <1>8 DEF RingsType, RingMaps
  <2>2. SubRingCount' \in [Ceremony -> [Level -> Nat]]
    BY <1>7, <1>6, <1>2 DEF RingsType, RingMaps
  <2>3. \A cc \in Ceremony, l \in Level :
          0 .. SubRingCount'[cc][l] - 1 \subseteq DOMAIN RingMembers'[cc][l]
    BY <1>6, <1>8 DEF RingsType, RingMaps
  <2> QED BY <1>8, <2>2, <2>3 DEF RingMaps
<1>10. ASSUME NEW cc \in Ceremony, NEW l \in Level
       PROVE  PublishedIn(RingMembers', SubRingCount', cc, l) =
                IF cc = d /\ l = s THEN KeysOf(Members(p)) ELSE Ring(cc, l)
  <2>1. CASE cc = d /\ l = s
    BY <1>6, <1>8, <2>1 DEF PublishedIn
  <2>2. CASE ~ (cc = d /\ l = s)
    BY <1>8, <2>2 DEF PublishedIn, Ring
  <2> QED BY <2>1, <2>2
<1>11. \A cc \in Ceremony, l \in Level :
         \A i \in DOMAIN RingMembers'[cc][l] :
           \/ cc = d /\ l = s /\ RingMembers'[cc][l][i] \subseteq KeysOf(Members(p))
           \/ i \in DOMAIN RingMembers[cc][l] /\ RingMembers'[cc][l][i] = RingMembers[cc][l][i]
  BY <1>6, <1>8
<1> QED BY <1>1, <1>2, <1>4, <1>9, <1>10, <1>11 DEF d

\* The keys only grow in number.
LEMMA RegisterKeyStep ==
    ASSUME RingsType, NEW a \in Account, NEW key \in Keys[a], register_bandersnatch_key(a, key)
    PROVE  /\ RingsType'
           /\ Keyed \subseteq Keyed'
           /\ \A b \in Account : BandersnatchKeys'[b] = IF b = a THEN key ELSE BandersnatchKeys[b]
<1>1. /\ BandersnatchKeys' = [BandersnatchKeys EXCEPT ![a] = key]
      /\ UNCHANGED <<CurrentPhase, CurrentCeremonyIndex, Verified, RingMembers, SubRingCount,
                     PendingRingComputation, PendingCommunities, PendingCeremonyIndex, attended, eligible>>
  BY DEF register_bandersnatch_key, scheduler, rings, queue
<1>2. key \in Nat \ {0}
  BY RingsAssumption
<1>3. \A b \in Account : BandersnatchKeys'[b] = IF b = a THEN key ELSE BandersnatchKeys[b]
  BY <1>1 DEF RingsType, KeyMap
<1>4. Keyed \subseteq Keyed'
  BY <1>2, <1>3 DEF Keyed
<1>5. BandersnatchKeys' \in [Account -> Nat]
  BY <1>1, <1>2 DEF RingsType, KeyMap
<1>6. KeyMap'
  BY <1>1, <1>3, <1>4, <1>5 DEF RingsType, KeyMap
<1>7. RingMaps' /\ History' /\ Jobs'
  BY <1>1 DEF RingsType, RingMaps, History, Jobs
<1> QED BY <1>3, <1>4, <1>6, <1>7 DEF RingsType

\* A fresh computation.
LEMMA FreshJob ==
    ASSUME NEW cid \in Community, NEW c \in Index
    PROVE  /\ Fresh(cid, c) \in Job
           /\ Fresh(cid, c) # Idle
           /\ Fresh(cid, c).stage = "Collecting"
           /\ Fresh(cid, c).community = cid
           /\ Fresh(cid, c).ceremony_index = c
           /\ Fresh(cid, c).step = 0
           /\ \A a \in Account : Fresh(cid, c).attendance[a] = 0
<1>1. 0 \in 0 .. MaxLevels
  BY RingsAssumption
<1> QED BY <1>1 DEF Fresh, Computation, Job, Idle

\* A computation begins, for a ceremony of the past.
LEMMA BeginStep ==
    ASSUME RingsType, NEW cid \in Community, NEW c \in Nat, c < CurrentCeremonyIndex, Begin(cid, c),
           PendingCommunities' \in Seq(Community),
           UNCHANGED <<scheduler, Verified, BandersnatchKeys, rings, PendingCeremonyIndex, attended>>
    PROVE  RingsType' /\ c \in Index /\ PendingRingComputation' = Fresh(cid, c) /\ eligible' = Keyed
<1> USE DEF scheduler, rings
<1>1. c \in Index
  BY RingsAssumption DEF RingsType, History, Index
<1>2. PendingRingComputation' = Fresh(cid, c) /\ eligible' = Keyed
  BY DEF Begin
<1>3. Jobs'
  <2>1. PendingRingComputation' \in Job /\ PendingRingComputation'.ceremony_index < CurrentCeremonyIndex
        /\ PendingRingComputation'.stage # "Building"
    BY <1>1, <1>2, FreshJob
  <2> QED BY <2>1 DEF RingsType, Jobs
<1>4. KeyMap'
  BY <1>2 DEF RingsType, KeyMap, Keyed
<1>5. RingMaps' /\ History'
  BY DEF RingsType, RingMaps, History
<1> QED BY <1>1, <1>2, <1>3, <1>4, <1>5 DEF RingsType

\* The rings of ceremonies that leave the lifetime are emptied.
LEMMA PurgeStep ==
    ASSUME RingsType, EnterRegistering
    PROVE  LET expired == Expired(CurrentCeremonyIndex + 1)
           IN  /\ RingsType'
               /\ CurrentPhase = "Attesting"
               /\ CurrentPhase' = "Registering"
               /\ CurrentCeremonyIndex' = CurrentCeremonyIndex + 1
               /\ UNCHANGED <<BandersnatchKeys, PendingRingComputation, queue, attended, eligible>>
               /\ \A cc \in Ceremony : Verified'[cc] = IF cc \in expired THEN {} ELSE Verified[cc]
               /\ \A cc \in Ceremony, l \in Level :
                    IF cc \in expired
                    THEN /\ PublishedIn(RingMembers', SubRingCount', cc, l) = {}
                         /\ DOMAIN RingMembers'[cc][l] = {}
                    ELSE /\ PublishedIn(RingMembers', SubRingCount', cc, l) = Ring(cc, l)
                         /\ RingMembers'[cc][l] = RingMembers[cc][l]
<1> DEFINE expired == Expired(CurrentCeremonyIndex + 1)
<1>1. /\ CurrentPhase = "Attesting"
      /\ CurrentCeremonyIndex < MaxIndex
      /\ PC!AdvancePhase
      /\ Verified' = [cc \in Ceremony |-> IF cc \in expired THEN {} ELSE Verified[cc]]
      /\ RingMembers' = [cc \in Ceremony |-> IF cc \in expired THEN NoKeys ELSE RingMembers[cc]]
      /\ SubRingCount' =
             [cc \in Ceremony |-> IF cc \in expired THEN [l \in Level |-> 0] ELSE SubRingCount[cc]]
      /\ UNCHANGED <<BandersnatchKeys, PendingRingComputation, queue, attended, eligible>>
  BY DEF EnterRegistering
<1>2. CurrentPhase' = "Registering" /\ CurrentCeremonyIndex' = CurrentCeremonyIndex + 1
  BY <1>1 DEF PC!AdvancePhase, PC!FollowingPhase, PC!FollowingIndex
<1> HIDE DEF expired
<1>3. \A l \in Level : DOMAIN NoKeys[l] = {}
  BY DEF NoKeys, NoRing
<1>4. DOMAIN NoKeys = Level
  BY DEF NoKeys
<1>5. \A cc \in Ceremony, l \in Level :
        /\ RingMembers'[cc][l] = IF cc \in expired THEN NoKeys[l] ELSE RingMembers[cc][l]
        /\ SubRingCount'[cc][l] = IF cc \in expired THEN 0 ELSE SubRingCount[cc][l]
  BY <1>1
<1>6. \A cc \in Ceremony, l \in Level :
        IF cc \in expired
        THEN /\ PublishedIn(RingMembers', SubRingCount', cc, l) = {}
             /\ DOMAIN RingMembers'[cc][l] = {}
        ELSE /\ PublishedIn(RingMembers', SubRingCount', cc, l) = Ring(cc, l)
             /\ RingMembers'[cc][l] = RingMembers[cc][l]
  BY <1>3, <1>5 DEF PublishedIn, Ring
<1>7. RingMaps'
  <2>1. SubRingCount' \in [Ceremony -> [Level -> Nat]]
    BY <1>1 DEF RingsType, RingMaps
  <2>2. \A cc \in Ceremony : DOMAIN RingMembers'[cc] = Level
    BY <1>1, <1>4 DEF RingsType, RingMaps
  <2>3. \A cc \in Ceremony, l \in Level :
          0 .. SubRingCount'[cc][l] - 1 \subseteq DOMAIN RingMembers'[cc][l]
    BY <1>5 DEF RingsType, RingMaps
  <2> QED BY <1>1, <2>1, <2>2, <2>3 DEF RingMaps
<1>8. CurrentCeremonyIndex' \in 1 .. MaxIndex
  BY <1>1, <1>2, RingsAssumption DEF RingsType, History
<1>9. History'
  BY <1>1, <1>2, <1>8 DEF RingsType, History, PC!Phases
<1>10. KeyMap'
  BY <1>1 DEF RingsType, KeyMap, Keyed
<1>11. Jobs'
  <2>1. CurrentCeremonyIndex \in Nat
    BY RingsAssumption DEF RingsType, History
  <2>2. PendingRingComputation # Idle => PendingRingComputation.ceremony_index \in Nat
    BY RingsAssumption DEF RingsType, Jobs, Job, Index
  <2> QED BY <1>1, <1>2, <2>1, <2>2 DEF RingsType, Jobs, queue
<1> QED BY <1>1, <1>2, <1>6, <1>7, <1>9, <1>10, <1>11 DEF RingsType, expired

\* A meetup is rewarded: reputation is added to the ceremony it belongs to.
LEMMA RewardStep ==
    ASSUME RingsType, NEW cid \in Community, NEW participants \in Meetups[cid],
           issue_rewards(cid, participants)
    PROVE  /\ RingsType'
           /\ UNCHANGED <<scheduler, BandersnatchKeys, rings, PendingRingComputation, queue, eligible>>
           /\ CurrentPhase # "Assigning"
           /\ \A cc \in Ceremony :
                /\ attended[cc] \subseteq attended'[cc]
                /\ Verified[cc] = attended[cc] => Verified'[cc] = attended'[cc]
                /\ CurrentPhase # "Registering" /\ cc[2] # CurrentCeremonyIndex =>
                     attended'[cc] = attended[cc]
<1> DEFINE c == IF CurrentPhase = "Registering" THEN CurrentCeremonyIndex - 1 ELSE CurrentCeremonyIndex
<1> DEFINE d == <<cid, c>>
<1>1. /\ CurrentPhase # "Assigning"
      /\ c > 0
      /\ c < MaxIndex
      /\ Verified' = [Verified EXCEPT ![d] = Verified[d] \cup participants]
      /\ attended' = [attended EXCEPT ![d] = attended[d] \cup participants]
      /\ UNCHANGED <<scheduler, BandersnatchKeys, rings, PendingRingComputation, queue, eligible>>
  BY DEF issue_rewards
<1>2. d \in Ceremony
  <2>1. CurrentCeremonyIndex \in Nat
    BY RingsAssumption DEF RingsType, History
  <2>2. c \in Index
    BY <1>1, <2>1, RingsAssumption DEF Index
  <2> QED BY <2>2 DEF Ceremony
<1>3. participants \subseteq Account
  BY RingsAssumption
<1>4. CurrentPhase # "Registering" => d[2] = CurrentCeremonyIndex
  OBVIOUS
<1> HIDE DEF d
<1>5. \A cc \in Ceremony :
        /\ Verified'[cc] = IF cc = d THEN Verified[cc] \cup participants ELSE Verified[cc]
        /\ attended'[cc] = IF cc = d THEN attended[cc] \cup participants ELSE attended[cc]
  BY <1>1, <1>2 DEF RingsType, History
<1>6. Verified' \in [Ceremony -> SUBSET Account] /\ attended' \in [Ceremony -> SUBSET Account]
  <2>1. Verified[d] \cup participants \subseteq Account /\ attended[d] \cup participants \subseteq Account
    BY <1>2, <1>3 DEF RingsType, History
  <2> QED BY <1>1, <2>1 DEF RingsType, History
<1>7. History'
  BY <1>1, <1>5, <1>6 DEF RingsType, History, scheduler
<1>8. RingMaps' /\ KeyMap' /\ Jobs'
  BY <1>1 DEF RingsType, RingMaps, KeyMap, Keyed, Jobs, scheduler, rings, queue
<1>9. \A cc \in Ceremony :
        /\ attended[cc] \subseteq attended'[cc]
        /\ Verified[cc] = attended[cc] => Verified'[cc] = attended'[cc]
        /\ CurrentPhase # "Registering" /\ cc[2] # CurrentCeremonyIndex => attended'[cc] = attended[cc]
  BY <1>4, <1>5
<1>10. RingsType'
  BY <1>7, <1>8 DEF RingsType
<1> QED BY <1>1, <1>9, <1>10

\* A phase that begins without clean-up.
LEMMA PhaseStep ==
    ASSUME RingsType, EnterAssigning \/ EnterAttesting
    PROVE  /\ RingsType'
           /\ CurrentPhase' # "Registering"
           /\ CurrentCeremonyIndex' = CurrentCeremonyIndex
           /\ UNCHANGED <<Verified, BandersnatchKeys, rings, PendingRingComputation, attended, eligible>>
<1>1. /\ CurrentPhase \in {"Registering", "Assigning"}
      /\ PC!AdvancePhase
      /\ UNCHANGED <<Verified, BandersnatchKeys, rings, PendingRingComputation, attended, eligible>>
      /\ QueueAll \/ UNCHANGED queue
  BY DEF EnterAssigning, EnterAttesting
<1>2. /\ CurrentCeremonyIndex' = CurrentCeremonyIndex
      /\ CurrentPhase' \in PC!Phases
      /\ CurrentPhase' # "Registering"
  BY <1>1 DEF PC!AdvancePhase, PC!FollowingPhase, PC!FollowingIndex, PC!Phases
<1>3. /\ PendingCommunities' \in Seq(Community)
      /\ PendingCeremonyIndex' \in Nat
      /\ PendingCeremonyIndex' < CurrentCeremonyIndex
  <2>1. CurrentCeremonyIndex \in Nat \ {0}
    BY RingsAssumption DEF RingsType, History
  <2>2. CASE UNCHANGED queue
    BY <2>2 DEF RingsType, Jobs, queue
  <2>3. CASE PendingCommunities' = Queue /\ PendingCeremonyIndex' = CurrentCeremonyIndex - 1
    BY <2>1, <2>3, RingsAssumption
  <2> QED BY <1>1, <2>2, <2>3 DEF QueueAll
<1>4. History' /\ RingMaps' /\ KeyMap' /\ Jobs'
  BY <1>1, <1>2, <1>3 DEF RingsType, History, RingMaps, KeyMap, Keyed, Jobs, rings
<1> QED BY <1>1, <1>2, <1>4 DEF RingsType

\* Every step keeps the types.
LEMMA StepType ==
    ASSUME RingsType, [Next]_vars
    PROVE  RingsType'
<1> USE DEF scheduler, rings, queue
<1>1. ASSUME NEW a \in Account, NEW key \in Keys[a], register_bandersnatch_key(a, key)
      PROVE  RingsType'
  BY <1>1, RegisterKeyStep
<1>2. ASSUME NEW cid \in Community, NEW c \in Initiable, initiate_rings(cid, c)
      PROVE  RingsType'
  <2>1. /\ c \in Nat
        /\ c < CurrentCeremonyIndex
        /\ Begin(cid, c)
        /\ UNCHANGED <<scheduler, Verified, BandersnatchKeys, rings, PendingCeremonyIndex, attended>>
        /\ PendingCommunities' \in Seq(Community)
    BY <1>2, RingsAssumption DEF initiate_rings, RingsType, Jobs
  <2> QED BY <2>1, BeginStep
<1>3. CASE ProcessComputationStep /\ CollectMembersStep
  <2>1. UNCHANGED <<scheduler, Verified, BandersnatchKeys, rings, queue, attended, eligible>>
    BY <1>3 DEF ProcessComputationStep, CollectMembersStep
  <2>2. /\ PendingRingComputation \in Job
        /\ PendingRingComputation' \in Job
        /\ PendingRingComputation.stage = "Collecting"
        /\ PendingRingComputation'.ceremony_index = PendingRingComputation.ceremony_index
        /\ PendingRingComputation'.stage = "Building" => PendingRingComputation'.step = MaxLevels
    BY <1>3, CollectStep DEF RingsType
  <2>3. MaxLevels \in Level /\ PendingRingComputation # Idle
    BY <2>2, RingsAssumption DEF Level, Idle
  <2>4. Jobs'
    BY <2>1, <2>2, <2>3 DEF RingsType, Jobs
  <2>5. History' /\ RingMaps' /\ KeyMap'
    BY <2>1 DEF RingsType, History, RingMaps, KeyMap, Keyed
  <2> QED BY <2>4, <2>5 DEF RingsType
<1>4. CASE ProcessComputationStep /\ BuildRingStep
  <2>1. UNCHANGED <<scheduler, Verified, BandersnatchKeys, queue, attended, eligible>>
    BY <1>4 DEF ProcessComputationStep
  <2> DEFINE p == PendingRingComputation
  <2> DEFINE q == PendingRingComputation'
  <2>2. /\ RingMaps'
        /\ p \in Job
        /\ p.stage = "Building"
        /\ p.step \in Level
        /\ \/ q = Idle
           \/ /\ q \in Job
              /\ p.step > 1
              /\ q.ceremony_index = p.ceremony_index
              /\ q.step = p.step - 1
    BY <1>4, BuildStep
  <2>3. p # Idle /\ Idle.stage # "Building"
    BY <2>2 DEF Idle
  <2>4. q # Idle => q.step \in Level /\ q.ceremony_index < CurrentCeremonyIndex
    BY <2>2, <2>3, RingsAssumption DEF Level, RingsType, Jobs
  <2>5. Jobs'
    BY <2>1, <2>2, <2>3, <2>4 DEF RingsType, Jobs
  <2>6. History' /\ KeyMap'
    BY <2>1 DEF RingsType, History, KeyMap, Keyed
  <2> QED BY <2>2, <2>5, <2>6 DEF RingsType
<1>5. CASE StartQueued
  <2>1. /\ PendingCommunities # <<>>
        /\ PendingCommunities \in Seq(Community)
        /\ PendingCeremonyIndex \in Nat
        /\ PendingCeremonyIndex < CurrentCeremonyIndex
        /\ Begin(Head(PendingCommunities), PendingCeremonyIndex)
        /\ UNCHANGED <<scheduler, Verified, BandersnatchKeys, rings, PendingCeremonyIndex, attended>>
        /\ PendingCommunities' = Tail(PendingCommunities)
    BY <1>5 DEF StartQueued, RingsType, Jobs
  <2>2. Head(PendingCommunities) \in Community /\ Tail(PendingCommunities) \in Seq(Community)
    BY <2>1
  <2> QED BY <2>1, <2>2, BeginStep
<1>6. ASSUME NEW cid \in Community, NEW participants \in Meetups[cid], issue_rewards(cid, participants)
      PROVE  RingsType'
  BY <1>6, RewardStep
<1>7. CASE EnterAssigning \/ EnterAttesting
  BY <1>7, PhaseStep
<1>8. CASE EnterRegistering
  BY <1>8, PurgeStep
<1>9. CASE UNCHANGED vars
  BY <1>9 DEF vars, RingsType, History, RingMaps, KeyMap, Keyed, Jobs
<1> QED BY <1>1, <1>2, <1>3, <1>4, <1>5, <1>6, <1>7, <1>8, <1>9
    DEF Next, continue_ring_computation, on_idle, ProcessComputationStep, PhaseChange

-----------------------------------------------------------------------------
(* Attendance.                                                              *)

\* The ceremonies up to c, at most n, that an account attended.
Counted(cid, c, n, a) == {k \in 1 .. c : k > c - n /\ a \in attended[<<cid, k>>]}

\* How many ceremonies a computation has counted so far.
Horizon(p) == IF p.stage = "Collecting" THEN p.step ELSE MaxLevels

Seen(p, a) == Cardinality(Counted(p.community, p.ceremony_index, Horizon(p), a))

LEMMA AttendanceIsCounted ==
    ASSUME NEW cid, NEW c, NEW a
    PROVE  Attendance(cid, c, a) = Cardinality(Counted(cid, c, MaxLevels, a))
BY DEF Attendance, Counted

\* The counted ceremonies are finitely many.
LEMMA CountedFinite ==
    ASSUME NEW cid, NEW c \in Nat, NEW n \in Nat, NEW a
    PROVE  /\ IsFiniteSet(Counted(cid, c, n, a))
           /\ Cardinality(Counted(cid, c, n, a)) \in Nat
<1>1. IsFiniteSet(1 .. c)
  BY FS_Interval
<1>2. Counted(cid, c, n, a) \subseteq 1 .. c
  BY DEF Counted
<1> QED BY <1>1, <1>2, FS_Subset, FS_CardinalityType

\* No ceremony is counted at the beginning.
LEMMA NoneCounted ==
    ASSUME NEW cid, NEW c \in Nat, NEW a
    PROVE  Cardinality(Counted(cid, c, 0, a)) = 0
<1>1. Counted(cid, c, 0, a) = {}
  BY DEF Counted
<1> QED BY <1>1, FS_EmptySet

\* The scan of one more ceremony counts it exactly if it was attended.
LEMMA OneMoreCounted ==
    ASSUME NEW cid, NEW c \in Nat, NEW n \in Nat, NEW a
    PROVE  Cardinality(Counted(cid, c, n + 1, a)) =
             IF Scanned(c, n) # 0 /\ a \in attended[<<cid, Scanned(c, n)>>]
             THEN Cardinality(Counted(cid, c, n, a)) + 1 ELSE Cardinality(Counted(cid, c, n, a))
<1> DEFINE k == Scanned(c, n)
<1>1. CASE k # 0 /\ a \in attended[<<cid, k>>]
  <2>1. k = c - n /\ k \in 1 .. c
    BY <1>1 DEF Scanned
  <2>2. Counted(cid, c, n + 1, a) = Counted(cid, c, n, a) \cup {k}
    BY <1>1, <2>1 DEF Counted
  <2>3. k \notin Counted(cid, c, n, a)
    BY <2>1 DEF Counted
  <2> HIDE DEF k
  <2> QED BY <1>1, <2>2, <2>3, CountedFinite, FS_AddElement DEF k
<1>2. CASE ~ (k # 0 /\ a \in attended[<<cid, k>>])
  <2>1. Counted(cid, c, n + 1, a) = Counted(cid, c, n, a)
    <3>1. CASE c > n
      <4>1. k = c - n /\ k # 0 /\ a \notin attended[<<cid, c - n>>]
        BY <1>2, <3>1 DEF Scanned
      <4>2. \A j \in 1 .. c : j > c - (n + 1) <=> (j > c - n \/ j = c - n)
        OBVIOUS
      <4> QED BY <4>1, <4>2 DEF Counted
    <3>2. CASE ~ (c > n)
      BY <3>2 DEF Counted
    <3> QED BY <3>1, <3>2
  <2> QED BY <1>2, <2>1
<1> QED BY <1>1, <1>2

\* More attendance, more ceremonies counted.
LEMMA CountedGrows ==
    ASSUME \A cc \in Ceremony : attended[cc] \subseteq attended'[cc],
           NEW cid \in Community, NEW c \in Index, NEW n \in Nat, NEW a
    PROVE  Cardinality(Counted(cid, c, n, a)) <= Cardinality(Counted(cid, c, n, a)')
<1>0. c \in Nat
  BY RingsAssumption DEF Index
<1>1. Counted(cid, c, n, a) \subseteq Counted(cid, c, n, a)'
  <2>1. \A k \in 1 .. c : <<cid, k>> \in Ceremony
    BY RingsAssumption DEF Ceremony, Index
  <2> QED BY <2>1 DEF Counted
<1>2. IsFiniteSet(Counted(cid, c, n, a)')
  <2>1. Counted(cid, c, n, a)' \subseteq 1 .. c
    BY DEF Counted
  <2> QED BY <1>0, <2>1, FS_Interval, FS_Subset
<1> QED BY <1>1, <1>2, FS_Subset

-----------------------------------------------------------------------------
(* Soundness.                                                               *)

\* The key belongs to somebody who attended often enough for level l.
Deserved(cc, l, key) ==
    \E a \in Account : key \in Keys[a] /\ Attendance(cc[1], cc[2], a) >= l

\* The inductive invariant behind RingsSound: nobody is counted too often, and
\* no key that is stored, in use or left over, is undeserved.
SoundInv ==
    /\ PendingRingComputation # Idle =>
         \A a \in Account : PendingRingComputation.attendance[a] <= Seen(PendingRingComputation, a)
    /\ \A cc \in Ceremony, l \in Level : \A i \in DOMAIN RingMembers[cc][l] :
         \A key \in RingMembers[cc][l][i] : Deserved(cc, l, key)

\* What was deserved stays deserved.
LEMMA DeservedStays ==
    ASSUME \A cc \in Ceremony : attended[cc] \subseteq attended'[cc],
           NEW cc \in Ceremony, NEW l \in Level, NEW key, Deserved(cc, l, key)
    PROVE  Deserved(cc, l, key)'
<1>1. PICK a \in Account : key \in Keys[a] /\ Attendance(cc[1], cc[2], a) >= l
  BY DEF Deserved
<1>2. cc[1] \in Community /\ cc[2] \in Index /\ cc[2] \in Nat /\ MaxLevels \in Nat /\ l \in Nat
  BY RingsAssumption DEF Ceremony, Index, Level
<1> DEFINE old == Cardinality(Counted(cc[1], cc[2], MaxLevels, a))
<1> DEFINE new == Cardinality(Counted(cc[1], cc[2], MaxLevels, a)')
<1>3. old <= new
  BY <1>2, CountedGrows
<1>4. old >= l
  BY <1>1, AttendanceIsCounted
<1>5. old \in Nat
  BY <1>2, CountedFinite
<1>6. Attendance(cc[1], cc[2], a)' = new
  BY DEF Attendance, Counted
<1>7. new \in Nat
  <2>1. Counted(cc[1], cc[2], MaxLevels, a)' \subseteq 1 .. cc[2]
    BY DEF Counted
  <2>2. IsFiniteSet(1 .. cc[2])
    BY <1>2, FS_Interval
  <2>3. IsFiniteSet(Counted(cc[1], cc[2], MaxLevels, a)')
    BY <2>1, <2>2, FS_Subset
  <2> QED BY <2>3, FS_CardinalityType
<1> HIDE DEF old, new
<1>8. new >= l
  BY <1>2, <1>3, <1>4, <1>5, <1>7
<1> QED BY <1>1, <1>6, <1>8 DEF Deserved

\* A step that leaves the computation and the rings alone, or empties rings.
LEMMA SoundKept ==
    ASSUME RingsType, SoundInv, UNCHANGED PendingRingComputation,
           \A cc \in Ceremony : attended[cc] \subseteq attended'[cc],
           \A cc \in Ceremony, l \in Level :
             RingMembers'[cc][l] = RingMembers[cc][l] \/ DOMAIN RingMembers'[cc][l] = {}
    PROVE  SoundInv'
<1> DEFINE p == PendingRingComputation
<1>1. ASSUME p # Idle, NEW a \in Account
      PROVE  p.attendance[a] <= Seen(p, a)'
  <2>1. /\ p.community \in Community
        /\ p.ceremony_index \in Index
        /\ p.ceremony_index \in Nat
        /\ p.attendance[a] \in Nat
        /\ Horizon(p) \in Nat
    BY <1>1, RingsAssumption DEF RingsType, Jobs, Job, Horizon, Index
  <2>2. PICK old, new : /\ old = Cardinality(Counted(p.community, p.ceremony_index, Horizon(p), a))
                        /\ new = Cardinality(Counted(p.community, p.ceremony_index, Horizon(p), a)')
    OBVIOUS
  <2>3. PICK cid, c, n : cid = p.community /\ c = p.ceremony_index /\ n = Horizon(p)
    OBVIOUS
  <2>4. /\ Counted(p.community, p.ceremony_index, Horizon(p), a) = Counted(cid, c, n, a)
        /\ Counted(p.community, p.ceremony_index, Horizon(p), a)' = Counted(cid, c, n, a)'
    BY <2>3 DEF Counted, Horizon
  <2>5. old <= new
    BY <2>1, <2>2, <2>3, <2>4, CountedGrows
  <2>6. old \in Nat
    BY <2>1, <2>2, CountedFinite
  <2>7. new \in Nat
    <3>0. c \in Nat
      BY <2>1, <2>3
    <3>1. IsFiniteSet(1 .. c)
      BY <3>0, FS_Interval
    <3>2. Counted(cid, c, n, a)' \subseteq 1 .. c
      BY DEF Counted
    <3>3. IsFiniteSet(Counted(cid, c, n, a)')
      BY <3>1, <3>2, FS_Subset
    <3> QED BY <2>2, <2>4, <3>3, FS_CardinalityType
  <2>8. p.attendance[a] <= old
    BY <1>1, <2>2 DEF SoundInv, Seen
  <2>9. Seen(p, a)' = new
    BY <2>2 DEF Seen
  <2> QED BY <2>1, <2>5, <2>6, <2>7, <2>8, <2>9
<1>2. ASSUME NEW cc \in Ceremony, NEW l \in Level, NEW i \in DOMAIN RingMembers'[cc][l],
             NEW key \in RingMembers'[cc][l][i]
      PROVE  Deserved(cc, l, key)'
  <2>1. Deserved(cc, l, key)
    BY DEF SoundInv
  <2> QED BY <2>1, DeservedStays
<1> QED BY <1>1, <1>2 DEF SoundInv

\* A computation that has just begun has counted nobody yet.
LEMMA FreshSound ==
    ASSUME SoundInv, NEW cid \in Community, NEW c \in Index,
           PendingRingComputation' = Fresh(cid, c), UNCHANGED <<RingMembers, attended>>
    PROVE  SoundInv'
<1>0. c \in Nat
  BY RingsAssumption DEF Index
<1>1. ASSUME NEW a \in Account
      PROVE  PendingRingComputation'.attendance[a] <= Seen(PendingRingComputation, a)'
  <2>1. /\ PendingRingComputation'.community = cid
        /\ PendingRingComputation'.ceremony_index = c
        /\ Horizon(PendingRingComputation)' = 0
        /\ PendingRingComputation'.attendance[a] = 0
    BY FreshJob DEF Horizon
  <2>2. Counted(cid, c, 0, a)' = Counted(cid, c, 0, a)
    BY DEF Counted
  <2>3. Seen(PendingRingComputation, a)' = Cardinality(Counted(cid, c, 0, a))
    BY <2>1, <2>2 DEF Seen, Counted
  <2> QED BY <1>0, <2>1, <2>3, NoneCounted
<1>2. \A cc \in Ceremony, l \in Level : \A key : Deserved(cc, l, key)' = Deserved(cc, l, key)
  BY DEF Deserved, Attendance
<1> QED BY <1>1, <1>2 DEF SoundInv

\* The scan of a ceremony counts those who attended it.
LEMMA CollectSound ==
    ASSUME RingsType, SoundInv, CollectMembersStep, UNCHANGED attended
    PROVE  SoundInv'
<1> DEFINE p == PendingRingComputation
<1> DEFINE q == PendingRingComputation'
<1> DEFINE k == Scanned(p.ceremony_index, p.step)
<1>1. /\ p \in Job
      /\ q \in Job
      /\ p.stage = "Collecting"
      /\ q.community = p.community
      /\ q.ceremony_index = p.ceremony_index
      /\ \/ /\ q.stage = "Building"
            /\ p.step = MaxLevels
            /\ q.attendance = p.attendance
         \/ /\ q.stage = "Collecting"
            /\ q.step = p.step + 1
            /\ \A a \in Account :
                 q.attendance[a] =
                   IF k # 0 /\ a \in Keyed /\ a \in Verified[<<p.community, k>>]
                   THEN p.attendance[a] + 1 ELSE p.attendance[a]
  BY CollectStep DEF RingsType
<1>2. /\ p.community \in Community
      /\ p.ceremony_index \in Index
      /\ p.ceremony_index \in Nat
      /\ p.step \in Nat
      /\ \A a \in Account : p.attendance[a] \in Nat
  BY <1>1, RingsAssumption DEF Job, Index
<1>3. ASSUME NEW a \in Account
      PROVE  q.attendance[a] <= Seen(PendingRingComputation, a)'
  <2>1. PICK cid, c, n : cid = p.community /\ c = p.ceremony_index /\ n = p.step
    OBVIOUS
  <2>2. p.attendance[a] <= Cardinality(Counted(cid, c, n, a))
    <3>1. p # Idle /\ Horizon(p) = p.step
      BY <1>1 DEF Idle, Horizon
    <3> QED BY <2>1, <3>1 DEF SoundInv, Seen
  <2>3. Cardinality(Counted(cid, c, n, a)) \in Nat
    BY <1>2, <2>1, CountedFinite
  <2>4. \A m : Counted(cid, c, m, a)' = Counted(cid, c, m, a)
    BY DEF Counted
  <2>5. Seen(PendingRingComputation, a)' = Cardinality(Counted(cid, c, Horizon(PendingRingComputation)', a))
    BY <1>1, <2>1 DEF Seen, Counted
  <2>6. CASE q.stage = "Building" /\ p.step = MaxLevels /\ q.attendance = p.attendance
    <3>1. Horizon(PendingRingComputation)' = n
      BY <2>1, <2>6 DEF Horizon
    <3> QED BY <2>2, <2>5, <2>6, <3>1
  <2>7. CASE /\ q.stage = "Collecting"
             /\ q.step = p.step + 1
             /\ q.attendance[a] = IF k # 0 /\ a \in Keyed /\ a \in Verified[<<p.community, k>>]
                                  THEN p.attendance[a] + 1 ELSE p.attendance[a]
    <3>1. Horizon(PendingRingComputation)' = n + 1
      BY <2>1, <2>7 DEF Horizon
    <3>2. Cardinality(Counted(cid, c, n + 1, a)) =
             IF k # 0 /\ a \in attended[<<cid, k>>]
             THEN Cardinality(Counted(cid, c, n, a)) + 1 ELSE Cardinality(Counted(cid, c, n, a))
      <4>1. c \in Nat /\ n \in Nat /\ k = Scanned(c, n)
        BY <1>2, <2>1
      <4> HIDE DEF k
      <4> QED BY <4>1, OneMoreCounted
    <3>3. k # 0 => <<cid, k>> \in Ceremony
      <4>1. k # 0 => k \in Nat /\ k <= p.ceremony_index
        BY <1>2 DEF Scanned
      <4>2. MaxIndex \in Nat /\ p.ceremony_index <= MaxIndex
        BY <1>2, RingsAssumption DEF Index
      <4> HIDE DEF k
      <4>3. k # 0 => k \in Index
        BY <1>2, <4>1, <4>2 DEF Index
      <4> QED BY <1>2, <2>1, <4>3 DEF Ceremony
    <3>4. k # 0 => Verified[<<cid, k>>] \subseteq attended[<<cid, k>>]
      <4> HIDE DEF k
      <4> QED BY <3>3 DEF RingsType, History
    <3> HIDE DEF k
    <3> QED BY <1>2, <2>1, <2>2, <2>3, <2>5, <2>7, <3>1, <3>2, <3>4
  <2> QED BY <1>1, <2>6, <2>7
<1>4. \A cc \in Ceremony, l \in Level : \A key : Deserved(cc, l, key)' = Deserved(cc, l, key)
  BY DEF Deserved, Attendance
<1>5. UNCHANGED RingMembers
  BY DEF CollectMembersStep, rings
<1> QED BY <1>3, <1>4, <1>5 DEF SoundInv

\* Whoever is counted often enough for a level deserves it.
LEMMA BuildSound ==
    ASSUME RingsType, SoundInv, BuildRingStep, UNCHANGED attended
    PROVE  SoundInv'
<1> DEFINE p == PendingRingComputation
<1> DEFINE q == PendingRingComputation'
<1> DEFINE d == <<p.community, p.ceremony_index>>
<1>1. /\ p \in Job
      /\ d \in Ceremony
      /\ p.stage = "Building"
      /\ p.step \in Level
      /\ \/ q = Idle
         \/ /\ q.stage = "Building"
            /\ q.community = p.community
            /\ q.ceremony_index = p.ceremony_index
            /\ q.attendance = p.attendance
      /\ \A cc \in Ceremony, l \in Level :
           \A i \in DOMAIN RingMembers'[cc][l] :
             \/ cc = d /\ l = p.step /\ RingMembers'[cc][l][i] \subseteq KeysOf(Members(p))
             \/ i \in DOMAIN RingMembers[cc][l] /\ RingMembers'[cc][l][i] = RingMembers[cc][l][i]
  BY BuildStep
<1>2. p # Idle /\ Horizon(p) = MaxLevels
  BY <1>1 DEF Idle, Horizon
<1>3. \A cc \in Ceremony, l \in Level : \A key : Deserved(cc, l, key)' = Deserved(cc, l, key)
  BY DEF Deserved, Attendance
<1>4. ASSUME NEW key \in KeysOf(Members(p))
      PROVE  Deserved(d, p.step, key)
  <2>1. PICK a \in Members(p) : key = BandersnatchKeys[a]
    BY DEF KeysOf
  <2>2. a \in Account /\ BandersnatchKeys[a] # 0 /\ p.attendance[a] >= p.step
    BY DEF Members, Keyed
  <2>3. key \in Keys[a]
    BY <2>1, <2>2 DEF RingsType, KeyMap
  <2>4. p.attendance[a] <= Attendance(p.community, p.ceremony_index, a)
    BY <1>2, <2>2, AttendanceIsCounted DEF SoundInv, Seen
  <2>5. /\ p.attendance[a] \in Nat
        /\ p.step \in Nat
        /\ Attendance(p.community, p.ceremony_index, a) \in Nat
    <3>1. p.ceremony_index \in Nat /\ MaxLevels \in Nat
      BY <1>1, RingsAssumption DEF Job, Index
    <3>2. Attendance(p.community, p.ceremony_index, a) \in Nat
      BY <3>1, AttendanceIsCounted, CountedFinite
    <3> QED BY <1>1, <2>2, <3>2 DEF Job, Level
  <2>6. Attendance(d[1], d[2], a) >= p.step
    BY <2>2, <2>4, <2>5
  <2> QED BY <2>2, <2>3, <2>6 DEF Deserved
<1>5. ASSUME NEW cc \in Ceremony, NEW l \in Level, NEW i \in DOMAIN RingMembers'[cc][l],
             NEW key \in RingMembers'[cc][l][i]
      PROVE  Deserved(cc, l, key)
  <2> HIDE DEF d
  <2>1. CASE cc = d /\ l = p.step /\ RingMembers'[cc][l][i] \subseteq KeysOf(Members(p))
    BY <1>4, <2>1
  <2>2. CASE i \in DOMAIN RingMembers[cc][l] /\ RingMembers'[cc][l][i] = RingMembers[cc][l][i]
    BY <2>2 DEF SoundInv
  <2> QED BY <1>1, <2>1, <2>2
<1>6. ASSUME q # Idle, NEW a \in Account
      PROVE  q.attendance[a] <= Seen(PendingRingComputation, a)'
  <2>1. /\ q.community = p.community
        /\ q.ceremony_index = p.ceremony_index
        /\ q.attendance = p.attendance
        /\ Horizon(PendingRingComputation)' = Horizon(p)
    BY <1>1, <1>2, <1>6 DEF Horizon
  <2>2. Seen(PendingRingComputation, a)' = Seen(p, a)
    BY <2>1 DEF Seen, Counted
  <2> QED BY <1>2, <2>1, <2>2 DEF SoundInv
<1> QED BY <1>3, <1>5, <1>6 DEF SoundInv

\* A computation begins in a step of an extrinsic or of on_idle.
LEMMA NextBegins ==
    ASSUME RingsType,
           \/ \E cid \in Community, c \in Initiable : initiate_rings(cid, c)
           \/ StartQueued
    PROVE  /\ PendingRingComputation = Idle
           /\ \E cid \in Community, c \in Index :
                PendingRingComputation' = Fresh(cid, c) /\ c < CurrentCeremonyIndex
           /\ eligible' = Keyed
           /\ UNCHANGED <<scheduler, Verified, BandersnatchKeys, rings, PendingCeremonyIndex, attended>>
<1>1. ASSUME NEW cid \in Community, NEW c \in Initiable, initiate_rings(cid, c)
      PROVE  /\ c \in Index
             /\ c < CurrentCeremonyIndex
             /\ Begin(cid, c)
             /\ UNCHANGED <<scheduler, Verified, BandersnatchKeys, rings, PendingCeremonyIndex, attended>>
             /\ PendingRingComputation = Idle
  BY <1>1, RingsAssumption DEF initiate_rings, RingsType, History, Index, queue
<1>2. CASE StartQueued
  <2>1. Head(PendingCommunities) \in Community
    BY <1>2 DEF StartQueued, RingsType, Jobs
  <2>2. PendingCeremonyIndex \in Index /\ PendingCeremonyIndex < CurrentCeremonyIndex
    BY RingsAssumption DEF RingsType, History, Jobs, Index
  <2> QED BY <1>2, <2>1, <2>2 DEF StartQueued, Begin
<1> QED BY <1>1, <1>2 DEF Begin

\* The steps of the system by what they do to the rings and to the computation.
LEMMA NextCases ==
    ASSUME [Next]_vars
    PROVE  \/ \E a \in Account : \E key \in Keys[a] : register_bandersnatch_key(a, key)
           \/ \/ \E cid \in Community, c \in Initiable : initiate_rings(cid, c)
              \/ StartQueued
           \/ ProcessComputationStep /\ CollectMembersStep
           \/ ProcessComputationStep /\ BuildRingStep
           \/ \E cid \in Community : \E participants \in Meetups[cid] : issue_rewards(cid, participants)
           \/ EnterAssigning \/ EnterAttesting
           \/ EnterRegistering
           \/ UNCHANGED vars
BY DEF Next, continue_ring_computation, on_idle, ProcessComputationStep, PhaseChange

\* Every step keeps the rings sound.
LEMMA StepSound ==
    ASSUME RingsType, SoundInv, [Next]_vars
    PROVE  SoundInv'
<1> USE DEF rings
<1>1. ASSUME NEW a \in Account, NEW key \in Keys[a], register_bandersnatch_key(a, key)
      PROVE  SoundInv'
  <2>1. UNCHANGED <<PendingRingComputation, attended, RingMembers>>
    BY <1>1 DEF register_bandersnatch_key
  <2> QED BY <2>1, SoundKept
<1>2. CASE \/ \E cid \in Community, c \in Initiable : initiate_rings(cid, c)
           \/ StartQueued
  <2>1. PICK cid \in Community, c \in Index : PendingRingComputation' = Fresh(cid, c)
    BY <1>2, NextBegins
  <2>2. UNCHANGED <<RingMembers, attended>>
    BY <1>2, NextBegins
  <2> QED BY <2>1, <2>2, FreshSound
<1>3. CASE ProcessComputationStep /\ CollectMembersStep
  BY <1>3, CollectSound DEF ProcessComputationStep
<1>4. CASE ProcessComputationStep /\ BuildRingStep
  BY <1>4, BuildSound DEF ProcessComputationStep
<1>5. ASSUME NEW cid \in Community, NEW participants \in Meetups[cid], issue_rewards(cid, participants)
      PROVE  SoundInv'
  <2>1. /\ UNCHANGED <<PendingRingComputation, RingMembers>>
        /\ \A cc \in Ceremony : attended[cc] \subseteq attended'[cc]
    BY <1>5, RewardStep
  <2> QED BY <2>1, SoundKept
<1>6. CASE EnterAssigning \/ EnterAttesting
  <2>1. UNCHANGED <<PendingRingComputation, attended, RingMembers>>
    BY <1>6, PhaseStep
  <2> QED BY <2>1, SoundKept
<1>7. CASE EnterRegistering
  <2>1. /\ UNCHANGED <<PendingRingComputation, attended>>
        /\ \A cc \in Ceremony, l \in Level :
             RingMembers'[cc][l] = RingMembers[cc][l] \/ DOMAIN RingMembers'[cc][l] = {}
    BY <1>7, PurgeStep
  <2> QED BY <2>1, SoundKept
<1>8. CASE UNCHANGED vars
  <2>1. UNCHANGED <<PendingRingComputation, attended, RingMembers>>
    BY <1>8 DEF vars
  <2> QED BY <2>1, SoundKept
<1> QED BY <1>1, <1>2, <1>3, <1>4, <1>5, <1>6, <1>7, <1>8, NextCases

\* The initial state.
LEMMA InitType ==
    ASSUME Init
    PROVE  RingsType /\ \A cc \in Ceremony, l \in Level : RingMembers[cc][l] = NoRing
<1>1. 1 \in 1 .. MaxIndex
  BY RingsAssumption
<1>2. RingMaps
  BY DEF Init, RingMaps, NoKeys
<1>3. History
  BY <1>1 DEF Init, History, PC!Phases
<1>4. KeyMap
  BY DEF Init, KeyMap
<1>5. Jobs
  BY DEF Init, Jobs, Idle
<1> QED BY <1>2, <1>3, <1>4, <1>5 DEF RingsType, Init, NoKeys

\* Types and soundness in every state.
LEMMA SoundAlways == Spec => [](RingsType /\ SoundInv)
<1>1. Init => RingsType /\ SoundInv
  BY InitType DEF Init, SoundInv, NoRing
<1>2. RingsType /\ SoundInv /\ [Next]_vars => (RingsType /\ SoundInv)'
  BY StepType, StepSound
<1> QED BY <1>1, <1>2, PTL DEF Spec

\* collect_members_step, build_ring_step: however the computation is
\* interleaved with rewards, key changes, other computations and clean-up, no
\* ring of level N has the key of somebody who attended fewer than N of the
\* last ceremonies.
THEOREM RingsStaySound == Spec => []RingsSound
<1>1. RingsType /\ SoundInv => RingsSound
  BY DEF RingsType, RingMaps, SoundInv, RingsSound, Ring, PublishedIn, Deserved
<1> QED BY <1>1, SoundAlways, PTL

-----------------------------------------------------------------------------
(* Nesting.                                                                 *)

\* Whoever has a key in the ring of level l has one in the ring below.
Covered(cc, l) ==
    \A key \in Ring(cc, l) :
        \E a \in Account : key \in Keys[a] /\ \E other \in Keys[a] : other \in Ring(cc, l - 1)

\* The level that was built last, while the one below is not built yet.
Frontier(cc, l) ==
    /\ Computing(cc)
    /\ PendingRingComputation.stage = "Building"
    /\ l = PendingRingComputation.step + 1

\* The inductive invariant behind nesting: each level is covered by the one
\* below, except across the frontier between new rings and old ones, where the
\* members still have their keys and their attendance.
NestInv ==
    /\ \A cc \in Ceremony, l \in Level \ {1} : ~ Frontier(cc, l) => Covered(cc, l)
    /\ \A cc \in Ceremony, l \in Level : Frontier(cc, l) =>
         \A key \in Ring(cc, l) :
           \E a \in Keyed : key \in Keys[a] /\ PendingRingComputation.attendance[a] >= l

\* A step that leaves the computation alone, may empty the rings of a ceremony
\* and takes no key away.
LEMMA NestKept ==
    ASSUME NestInv, UNCHANGED PendingRingComputation, Keyed \subseteq Keyed',
           NEW E,
           \A cc \in Ceremony, l \in Level :
             PublishedIn(RingMembers', SubRingCount', cc, l) = IF cc \in E THEN {} ELSE Ring(cc, l)
    PROVE  NestInv'
<1>1. \A cc \in Ceremony, l \in Level : Ring(cc, l)' = IF cc \in E THEN {} ELSE Ring(cc, l)
  BY DEF Ring
<1>2. \A cc, l : Frontier(cc, l)' = Frontier(cc, l)
  BY DEF Frontier, Computing
<1>3. ASSUME NEW cc \in Ceremony, NEW l \in Level \ {1}, ~ Frontier(cc, l)
      PROVE  Covered(cc, l)'
  <2>1. l - 1 \in Level
    BY RingsAssumption DEF Level
  <2>2. Covered(cc, l)
    BY <1>3 DEF NestInv
  <2> QED BY <1>1, <2>1, <2>2 DEF Covered
<1>4. ASSUME NEW cc \in Ceremony, NEW l \in Level, Frontier(cc, l), NEW key \in Ring(cc, l)'
      PROVE  \E a \in Keyed' : key \in Keys[a] /\ PendingRingComputation'.attendance[a] >= l
  <2>1. key \in Ring(cc, l)
    BY <1>1
  <2>2. PICK a \in Keyed : key \in Keys[a] /\ PendingRingComputation.attendance[a] >= l
    BY <1>4, <2>1 DEF NestInv
  <2> QED BY <2>2
<1> QED BY <1>2, <1>3, <1>4 DEF NestInv

\* A step of collecting, or one that begins a computation: no level is built.
LEMMA NestBefore ==
    ASSUME NestInv, UNCHANGED rings,
           PendingRingComputation.stage # "Building",
           PendingRingComputation'.stage = "Building" => PendingRingComputation'.step = MaxLevels
    PROVE  NestInv'
<1>1. \A cc, l : Ring(cc, l)' = Ring(cc, l)
  BY DEF Ring, PublishedIn, rings
<1>2. \A cc, l : ~ Frontier(cc, l)
  BY DEF Frontier
<1>3. \A cc : \A l \in Level : ~ Frontier(cc, l)'
  BY RingsAssumption DEF Frontier, Level
<1>4. \A cc \in Ceremony, l \in Level \ {1} : Covered(cc, l)
  BY <1>2 DEF NestInv
<1>5. \A cc, l : Covered(cc, l)' = Covered(cc, l)
  BY <1>1 DEF Covered
<1> QED BY <1>3, <1>4, <1>5 DEF NestInv

\* The members of a level are among the members of the level below.
LEMMA NestBuild ==
    ASSUME RingsType, NestInv, BuildRingStep, UNCHANGED BandersnatchKeys
    PROVE  NestInv'
<1> DEFINE p == PendingRingComputation
<1> DEFINE q == PendingRingComputation'
<1> DEFINE d == <<p.community, p.ceremony_index>>
<1>1. /\ p \in Job
      /\ d \in Ceremony
      /\ p.stage = "Building"
      /\ p.step \in Level
      /\ \/ q = Idle /\ p.step = 1
         \/ /\ q \in Job
            /\ p.step > 1
            /\ q.stage = "Building"
            /\ q.community = p.community
            /\ q.ceremony_index = p.ceremony_index
            /\ q.step = p.step - 1
            /\ q.attendance = p.attendance
      /\ \A cc \in Ceremony, l \in Level :
           PublishedIn(RingMembers', SubRingCount', cc, l) =
             IF cc = d /\ l = p.step THEN KeysOf(Members(p)) ELSE Ring(cc, l)
  BY BuildStep
<1>2. PICK s : s = p.step
  OBVIOUS
<1>3. s \in Level /\ s \in Nat \ {0} /\ Level \subseteq Nat \ {0}
  BY <1>1, <1>2, RingsAssumption DEF Level
<1>4. \A cc \in Ceremony, l \in Level :
        Ring(cc, l)' = IF cc = d /\ l = s THEN KeysOf(Members(p)) ELSE Ring(cc, l)
  BY <1>1, <1>2 DEF Ring
<1>5. p # Idle
  BY <1>1 DEF Idle
<1>6. \A cc \in Ceremony : Computing(cc) <=> cc = d
  BY <1>5 DEF Computing, Ceremony
<1>7. \A cc \in Ceremony, l \in Level : Frontier(cc, l) <=> cc = d /\ l = s + 1
  BY <1>1, <1>2, <1>6 DEF Frontier
<1>8. \A cc \in Ceremony, l \in Level : Frontier(cc, l)' <=> cc = d /\ l = s /\ s > 1
  <2>1. CASE q = Idle /\ p.step = 1
    <3>1. \A cc, l : ~ Frontier(cc, l)'
      BY <2>1 DEF Frontier, Computing
    <3> QED BY <1>2, <2>1, <3>1
  <2>2. CASE /\ q \in Job
             /\ p.step > 1
             /\ q.stage = "Building"
             /\ q.community = p.community
             /\ q.ceremony_index = p.ceremony_index
             /\ q.step = p.step - 1
    <3>1. q # Idle
      BY <2>2 DEF Idle
    <3>2. \A cc \in Ceremony : Computing(cc)' <=> cc = d
      BY <2>2, <3>1 DEF Computing, Ceremony
    <3>3. q.step + 1 = s
      BY <1>2, <1>3, <2>2
    <3> QED BY <1>2, <2>2, <3>2, <3>3 DEF Frontier
  <2> QED BY <1>1, <2>1, <2>2
<1>9. \A a \in Members(p) : /\ a \in Keyed
                            /\ a \in Account
                            /\ BandersnatchKeys[a] \in Keys[a]
                            /\ p.attendance[a] >= s
  BY <1>2 DEF Members, Keyed, RingsType, KeyMap
<1>10. \A a \in Account : p.attendance[a] \in Nat
  BY <1>1 DEF Job
<1> HIDE DEF d
<1>11. ASSUME NEW cc \in Ceremony, NEW l \in Level \ {1}, ~ (cc = d /\ l = s /\ s > 1)
       PROVE  Covered(cc, l)'
  <2>1. l \in Nat /\ l # 1 /\ l - 1 \in Level
    BY <1>3, RingsAssumption DEF Level
  <2>2. CASE cc = d /\ l = s + 1
    <3>1. ASSUME NEW key \in Ring(cc, l)
          PROVE  \E a \in Account : key \in Keys[a] /\ \E other \in Keys[a] : other \in KeysOf(Members(p))
      <4>1. PICK a \in Keyed : key \in Keys[a] /\ p.attendance[a] >= l
        BY <1>7, <2>2 DEF NestInv
      <4>2. a \in Account
        BY DEF Keyed
      <4>3. a \in Members(p)
        <5>1. p.attendance[a] \in Nat
          BY <1>10, <4>2
        <5>2. p.attendance[a] >= s
          BY <1>3, <2>1, <2>2, <4>1, <5>1
        <5> QED BY <1>2, <4>1, <5>2 DEF Members
      <4> QED BY <1>9, <4>1, <4>2, <4>3 DEF KeysOf
    <3>2. Ring(cc, l)' = Ring(cc, l) /\ Ring(cc, l - 1)' = KeysOf(Members(p))
      <4>1. l # s /\ l - 1 = s
        BY <1>3, <2>1, <2>2
      <4> QED BY <1>4, <2>1, <2>2, <4>1
    <3> QED BY <3>1, <3>2 DEF Covered
  <2>3. CASE ~ (cc = d /\ l = s + 1)
    <3>1. Covered(cc, l)
      BY <1>7, <2>3 DEF NestInv
    <3>2. Ring(cc, l)' = Ring(cc, l) /\ Ring(cc, l - 1)' = Ring(cc, l - 1)
      <4>1. ~ (cc = d /\ l - 1 = s)
        BY <1>3, <2>1, <2>3
      <4>2. ~ (cc = d /\ l = s)
        BY <1>3, <1>11, <2>1
      <4> QED BY <1>4, <2>1, <4>1, <4>2
    <3> QED BY <3>1, <3>2 DEF Covered
  <2> QED BY <2>2, <2>3
<1>12. ASSUME NEW cc \in Ceremony, NEW l \in Level, cc = d, l = s, s > 1, NEW key \in Ring(cc, l)'
       PROVE  \E a \in Keyed' : key \in Keys[a] /\ q.attendance[a] >= l
  <2>1. key \in KeysOf(Members(p))
    BY <1>4, <1>12
  <2>2. PICK a \in Members(p) : key = BandersnatchKeys[a]
    BY <2>1 DEF KeysOf
  <2>3. q.attendance = p.attendance
    BY <1>1, <1>2, <1>3, <1>12
  <2>4. Keyed' = Keyed
    BY DEF Keyed
  <2> QED BY <1>9, <1>12, <2>2, <2>3, <2>4
<1> QED BY <1>8, <1>11, <1>12 DEF NestInv

\* Every step keeps the levels covered.
LEMMA StepNest ==
    ASSUME RingsType, NestInv, [Next]_vars
    PROVE  NestInv'
<1>0. ASSUME UNCHANGED <<PendingRingComputation, rings>>, Keyed \subseteq Keyed'
      PROVE  NestInv'
  <2>1. PICK E : E = {}
    OBVIOUS
  <2>2. \A cc \in Ceremony, l \in Level :
          PublishedIn(RingMembers', SubRingCount', cc, l) = IF cc \in E THEN {} ELSE Ring(cc, l)
    BY <1>0, <2>1 DEF Ring, PublishedIn, rings
  <2>3. UNCHANGED PendingRingComputation
    BY <1>0
  <2> QED BY <1>0, <2>2, <2>3, NestKept
<1>1. ASSUME NEW a \in Account, NEW key \in Keys[a], register_bandersnatch_key(a, key)
      PROVE  NestInv'
  <2>1. UNCHANGED <<PendingRingComputation, rings>>
    BY <1>1 DEF register_bandersnatch_key, rings
  <2>2. Keyed \subseteq Keyed'
    BY <1>1, RegisterKeyStep
  <2> QED BY <1>0, <2>1, <2>2
<1>2. CASE \/ \E cid \in Community, c \in Initiable : initiate_rings(cid, c)
           \/ StartQueued
  <2>1. /\ PendingRingComputation = Idle
        /\ UNCHANGED rings
    BY <1>2, NextBegins DEF rings
  <2>2. PICK cid \in Community, c \in Index : PendingRingComputation' = Fresh(cid, c)
    BY <1>2, NextBegins
  <2>3. PendingRingComputation.stage # "Building" /\ PendingRingComputation'.stage # "Building"
    BY <2>1, <2>2, FreshJob DEF Idle
  <2> QED BY <2>1, <2>3, NestBefore
<1>3. CASE ProcessComputationStep /\ CollectMembersStep
  <2>1. /\ PendingRingComputation.stage = "Collecting"
        /\ PendingRingComputation'.stage = "Building" => PendingRingComputation'.step = MaxLevels
    BY <1>3, CollectStep DEF RingsType
  <2>2. UNCHANGED rings
    BY <1>3 DEF CollectMembersStep
  <2> QED BY <2>1, <2>2, NestBefore
<1>4. CASE ProcessComputationStep /\ BuildRingStep
  BY <1>4, NestBuild DEF ProcessComputationStep
<1>5. ASSUME NEW cid \in Community, NEW participants \in Meetups[cid], issue_rewards(cid, participants)
      PROVE  NestInv'
  <2>1. UNCHANGED <<PendingRingComputation, rings, BandersnatchKeys>>
    BY <1>5, RewardStep DEF rings
  <2> QED BY <1>0, <2>1 DEF Keyed
<1>6. CASE EnterAssigning \/ EnterAttesting
  <2>1. UNCHANGED <<PendingRingComputation, rings, BandersnatchKeys>>
    BY <1>6, PhaseStep DEF rings
  <2> QED BY <1>0, <2>1 DEF Keyed
<1>7. CASE EnterRegistering
  <2> DEFINE E == Expired(CurrentCeremonyIndex + 1)
  <2>1. /\ UNCHANGED <<PendingRingComputation, BandersnatchKeys>>
        /\ \A cc \in Ceremony, l \in Level :
             PublishedIn(RingMembers', SubRingCount', cc, l) = IF cc \in E THEN {} ELSE Ring(cc, l)
    BY <1>7, PurgeStep
  <2>2. Keyed \subseteq Keyed'
    BY <2>1 DEF Keyed
  <2> HIDE DEF E
  <2> QED BY <2>1, <2>2, NestKept
<1>8. CASE UNCHANGED vars
  <2>1. UNCHANGED <<PendingRingComputation, rings, BandersnatchKeys>>
    BY <1>8 DEF vars, rings
  <2> QED BY <1>0, <2>1 DEF Keyed
<1> QED BY <1>1, <1>2, <1>3, <1>4, <1>5, <1>6, <1>7, <1>8, NextCases

\* build_ring_step, from the strictest level to the loosest: unless a
\* computation is under way, whoever has a key in the ring of a level has a key
\* in the ring below, even if keys change between the two, the ceremony is
\* computed again or its history is purged.
THEOREM LevelsAreCovered ==
    Spec => [](\A cc \in Ceremony, l \in Level \ {1} : ~ Computing(cc) => Covered(cc, l))
<1>1. Init => RingsType /\ NestInv
  <2>1. Init => \A cc \in Ceremony, l \in Level : Ring(cc, l) = {}
    BY DEF Init, Ring, PublishedIn
  <2>2. Init => \A cc, l : ~ Frontier(cc, l)
    BY DEF Init, Frontier, Idle
  <2> QED BY <2>1, <2>2, InitType DEF NestInv, Covered
<1>2. RingsType /\ NestInv /\ [Next]_vars => (RingsType /\ NestInv)'
  BY StepType, StepNest
<1>3. NestInv => \A cc \in Ceremony, l \in Level \ {1} : ~ Computing(cc) => Covered(cc, l)
  BY DEF NestInv, Frontier
<1> QED BY <1>1, <1>2, <1>3, PTL DEF Spec

\* register_bandersnatch_key: if nobody ever changes the key, the rings are
\* nested key by key.  (An account that changes it between two levels of a
\* computation is in both of them, with different keys.)
THEOREM RingsStayNested ==
    ASSUME \A a \in Account : \A key, other \in Keys[a] : key = other
    PROVE  Spec => []RingsNested
<1>1. ASSUME \A cc \in Ceremony, l \in Level \ {1} : ~ Computing(cc) => Covered(cc, l)
      PROVE  RingsNested
  BY <1>1 DEF RingsNested, Covered
<1> QED BY <1>1, LevelsAreCovered, PTL

-----------------------------------------------------------------------------
(* Completeness.                                                            *)

\* A computation for the ceremony before the current one is under way.
Timely ==
    /\ PendingRingComputation # Idle
    /\ PendingRingComputation.ceremony_index = CurrentCeremonyIndex - 1

\* Reputation is not purged within its lifetime.
Remembered ==
    \A cc \in Ceremony :
        cc[2] + ReputationLifetime >= CurrentCeremonyIndex => Verified[cc] = attended[cc]

\* The rings of the last ceremony are computed when its rewards are settled.
InTime ==
    /\ Timely => CurrentPhase # "Registering"
    /\ PendingCommunities # <<>> /\ PendingCeremonyIndex = CurrentCeremonyIndex - 1 =>
         CurrentPhase # "Registering"

\* Nobody is counted too seldom, and the levels built so far have a key of
\* everybody who is counted often enough.
Thorough ==
    Timely /\ ReputationLifetime >= MaxLevels =>
      LET p == PendingRingComputation
      IN  \A a \in eligible :
            /\ Seen(p, a) <= p.attendance[a]
            /\ p.stage = "Building" =>
                 \A l \in Level : l > p.step /\ p.attendance[a] >= l =>
                   \E key \in Keys[a] : key \in Ring(<<p.community, p.ceremony_index>>, l)

\* The inductive invariant behind RingsComplete.
CompleteInv == Remembered /\ InTime /\ Thorough

\* A step that settles no reward of a past ceremony and leaves the computation,
\* the rings and the index alone.
LEMMA ThoroughKept ==
    ASSUME RingsType, Thorough,
           UNCHANGED <<CurrentCeremonyIndex, PendingRingComputation, eligible, rings>>,
           Timely => \A cc \in Ceremony : cc[2] < CurrentCeremonyIndex => attended'[cc] = attended[cc]
    PROVE  Thorough'
<1> DEFINE p == PendingRingComputation
<1>1. \A cc, l : Ring(cc, l)' = Ring(cc, l)
  BY DEF Ring, PublishedIn, rings
<1>2. Timely' = Timely
  BY DEF Timely
<1>3. ASSUME Timely, NEW a
      PROVE  Seen(p, a)' = Seen(p, a)
  <2>1. PICK cid, c, n : cid = p.community /\ c = p.ceremony_index /\ n = Horizon(p)
    OBVIOUS
  <2>2. /\ cid \in Community
        /\ c \in Index
        /\ c < CurrentCeremonyIndex
    BY <1>3, <2>1 DEF Timely, RingsType, Jobs, Job
  <2>3. \A k \in 1 .. c : <<cid, k>> \in Ceremony /\ k < CurrentCeremonyIndex
    BY <2>2, RingsAssumption DEF Ceremony, Index, RingsType, History
  <2>4. \A k \in 1 .. c : attended'[<<cid, k>>] = attended[<<cid, k>>]
    BY <1>3, <2>3
  <2>5. Counted(cid, c, n, a)' = Counted(cid, c, n, a)
    BY <2>4 DEF Counted
  <2>6. Seen(p, a) = Cardinality(Counted(cid, c, n, a))
    BY <2>1 DEF Seen
  <2>7. Seen(p, a)' = Cardinality(Counted(cid, c, n, a)')
    BY <2>1 DEF Seen, Counted, Horizon
  <2> QED BY <2>5, <2>6, <2>7
<1> QED BY <1>1, <1>2, <1>3 DEF Thorough

\* A computation that begins has missed nobody yet.
LEMMA FreshComplete ==
    ASSUME RingsType, CompleteInv,
           \/ \E cid \in Community, c \in Initiable : initiate_rings(cid, c)
           \/ StartQueued
    PROVE  CompleteInv'
<1>1. /\ PendingRingComputation = Idle
      /\ eligible' = Keyed
      /\ UNCHANGED <<scheduler, Verified, BandersnatchKeys, rings, PendingCeremonyIndex, attended>>
  BY NextBegins
<1>2. PICK cid \in Community, c \in Index : PendingRingComputation' = Fresh(cid, c) /\ c < CurrentCeremonyIndex
  BY NextBegins
<1>3. Remembered'
  BY <1>1 DEF CompleteInv, Remembered, scheduler
<1>4. InTime'
  <2>1. ASSUME NEW d \in Community, NEW k \in Initiable, initiate_rings(d, k)
        PROVE  InTime'
    BY <2>1 DEF initiate_rings, InTime, CompleteInv, scheduler, queue
  <2>2. CASE StartQueued
    <3>1. PendingRingComputation'.ceremony_index = PendingCeremonyIndex
      BY <2>2 DEF StartQueued, Begin, Fresh, Computation
    <3>2. /\ PendingCommunities # <<>>
          /\ UNCHANGED <<CurrentPhase, CurrentCeremonyIndex, PendingCeremonyIndex>>
      BY <2>2 DEF StartQueued, scheduler
    <3>3. PendingCeremonyIndex = CurrentCeremonyIndex - 1 => CurrentPhase # "Registering"
      BY <3>2 DEF CompleteInv, InTime
    <3> QED BY <3>1, <3>2, <3>3 DEF InTime, Timely
  <2> QED BY <2>1, <2>2
<1>5. Thorough'
  <2> DEFINE q == PendingRingComputation'
  <2>1. /\ q.community = cid
        /\ q.ceremony_index = c
        /\ q.stage = "Collecting"
        /\ q.step = 0
        /\ \A a \in Account : q.attendance[a] = 0
    BY <1>2, FreshJob
  <2>2. ASSUME NEW a \in eligible'
        PROVE  Seen(PendingRingComputation, a)' <= q.attendance[a]
    <3>1. a \in Account
      BY <1>1 DEF Keyed
    <3>2. Seen(PendingRingComputation, a)' = Cardinality(Counted(cid, c, 0, a))
      BY <1>1, <2>1 DEF Seen, Counted, Horizon
    <3>3. c \in Nat
      BY RingsAssumption DEF Index
    <3> QED BY <2>1, <3>1, <3>2, <3>3, NoneCounted
  <2> QED BY <2>1, <2>2 DEF Thorough
<1> QED BY <1>3, <1>4, <1>5 DEF CompleteInv

\* The scan of a ceremony within the lifetime misses nobody who had a key when
\* the computation began.
LEMMA CollectComplete ==
    ASSUME RingsType, CompleteInv, CollectMembersStep,
           UNCHANGED <<scheduler, Verified, BandersnatchKeys, queue, attended, eligible>>
    PROVE  CompleteInv'
<1> DEFINE p == PendingRingComputation
<1> DEFINE q == PendingRingComputation'
<1> DEFINE k == Scanned(p.ceremony_index, p.step)
<1>1. /\ p \in Job
      /\ q \in Job
      /\ p.stage = "Collecting"
      /\ q.community = p.community
      /\ q.ceremony_index = p.ceremony_index
      /\ \/ /\ q.stage = "Building"
            /\ p.step = MaxLevels
            /\ q.step = MaxLevels
            /\ q.attendance = p.attendance
         \/ /\ q.stage = "Collecting"
            /\ q.step = p.step + 1
            /\ \A a \in Account :
                 q.attendance[a] =
                   IF k # 0 /\ a \in Keyed /\ a \in Verified[<<p.community, k>>]
                   THEN p.attendance[a] + 1 ELSE p.attendance[a]
  BY CollectStep DEF RingsType
<1>2. /\ p.community \in Community
      /\ p.ceremony_index \in Index
      /\ p.ceremony_index \in Nat
      /\ p.step \in Nat
      /\ q.step \in 0 .. MaxLevels
      /\ \A a \in Account : p.attendance[a] \in Nat
  BY <1>1, RingsAssumption DEF Job, Index
<1>3. p # Idle /\ q # Idle
  BY <1>1 DEF Idle
<1>4. Timely' = Timely
  BY <1>1, <1>3 DEF Timely, scheduler
<1>5. Remembered' /\ InTime'
  BY <1>4 DEF CompleteInv, Remembered, InTime, scheduler, queue
<1>6. ASSUME Timely, ReputationLifetime >= MaxLevels, NEW a \in eligible
      PROVE  Seen(PendingRingComputation, a)' <= q.attendance[a]
  <2>0. a \in Keyed /\ a \in Account
    BY DEF RingsType, KeyMap, Keyed
  <2>1. PICK cid, c, n : cid = p.community /\ c = p.ceremony_index /\ n = p.step
    OBVIOUS
  <2>2. Cardinality(Counted(cid, c, n, a)) <= p.attendance[a]
    <3>1. Horizon(p) = p.step
      BY <1>1 DEF Horizon
    <3> QED BY <1>6, <2>1, <3>1 DEF CompleteInv, Thorough, Seen
  <2>3. Cardinality(Counted(cid, c, n, a)) \in Nat
    BY <1>2, <2>1, CountedFinite
  <2>4. Seen(PendingRingComputation, a)' = Cardinality(Counted(cid, c, Horizon(PendingRingComputation)', a))
    BY <1>1, <2>1 DEF Seen, Counted
  <2>5. CASE q.stage = "Building" /\ p.step = MaxLevels /\ q.attendance = p.attendance
    <3>1. Horizon(PendingRingComputation)' = n
      BY <2>1, <2>5 DEF Horizon
    <3> QED BY <2>2, <2>4, <2>5, <3>1
  <2>6. CASE /\ q.stage = "Collecting"
             /\ q.step = p.step + 1
             /\ q.attendance[a] = IF k # 0 /\ a \in Keyed /\ a \in Verified[<<p.community, k>>]
                                  THEN p.attendance[a] + 1 ELSE p.attendance[a]
    <3>1. Horizon(PendingRingComputation)' = n + 1
      BY <2>1, <2>6 DEF Horizon
    <3>2. Cardinality(Counted(cid, c, n + 1, a)) =
             IF k # 0 /\ a \in attended[<<cid, k>>]
             THEN Cardinality(Counted(cid, c, n, a)) + 1 ELSE Cardinality(Counted(cid, c, n, a))
      <4>1. c \in Nat /\ n \in Nat /\ k = Scanned(c, n)
        BY <1>2, <2>1
      <4> HIDE DEF k
      <4> QED BY <4>1, OneMoreCounted
    <3>3. ASSUME k # 0
          PROVE  Verified[<<cid, k>>] = attended[<<cid, k>>]
      <4>1. k \in Nat /\ k = c - n
        BY <1>2, <2>1, <3>3 DEF Scanned
      <4>2. MaxIndex \in Nat /\ c <= MaxIndex /\ c \in Nat /\ n \in Nat /\ n + 1 <= MaxLevels
        BY <1>2, <2>1, <2>6, RingsAssumption DEF Index
      <4> HIDE DEF k
      <4>3. <<cid, k>> \in Ceremony
        <5>1. k \in Index
          BY <4>1, <4>2 DEF Index
        <5> QED BY <1>2, <2>1, <5>1 DEF Ceremony
      <4>4. c = CurrentCeremonyIndex - 1 /\ CurrentCeremonyIndex \in Nat
        BY <1>6, <2>1, RingsAssumption DEF Timely, RingsType, History
      <4>5. k + ReputationLifetime >= CurrentCeremonyIndex
        BY <1>6, <4>1, <4>2, <4>4, RingsAssumption
      <4> QED BY <4>3, <4>5 DEF CompleteInv, Remembered
    <3> HIDE DEF k
    <3> QED BY <1>2, <2>0, <2>1, <2>2, <2>3, <2>4, <2>6, <3>1, <3>2, <3>3
  <2> QED BY <1>1, <2>0, <2>5, <2>6
<1>7. ASSUME q.stage = "Building", NEW l \in Level
      PROVE  ~ (l > q.step)
  BY <1>1, <1>7, RingsAssumption DEF Level
<1>8. Thorough'
  BY <1>4, <1>6, <1>7 DEF Thorough
<1> QED BY <1>5, <1>8 DEF CompleteInv

\* A level that is built has a key of everybody who is counted often enough,
\* and so do the levels built before it.
LEMMA BuildLists ==
    ASSUME RingsType, Thorough, BuildRingStep, Timely, ReputationLifetime >= MaxLevels,
           NEW a \in eligible, NEW l \in Level,
           l >= PendingRingComputation.step, PendingRingComputation.attendance[a] >= l
    PROVE  LET p == PendingRingComputation
           IN  \E key \in Keys[a] :
                 key \in PublishedIn(RingMembers', SubRingCount', <<p.community, p.ceremony_index>>, l)
<1> DEFINE p == PendingRingComputation
<1> DEFINE d == <<p.community, p.ceremony_index>>
<1>1. /\ p \in Job
      /\ d \in Ceremony
      /\ p.stage = "Building"
      /\ p.step \in Level
      /\ \A cc \in Ceremony, m \in Level :
           PublishedIn(RingMembers', SubRingCount', cc, m) =
             IF cc = d /\ m = p.step THEN KeysOf(Members(p)) ELSE Ring(cc, m)
  BY BuildStep
<1>2. a \in Keyed /\ a \in Account /\ BandersnatchKeys[a] \in Keys[a]
  BY DEF RingsType, KeyMap, Keyed
<1>3. CASE l = p.step
  <2>1. a \in Members(p)
    BY <1>2, <1>3 DEF Members
  <2>2. BandersnatchKeys[a] \in KeysOf(Members(p))
    BY <2>1 DEF KeysOf
  <2> HIDE DEF d
  <2>3. PublishedIn(RingMembers', SubRingCount', d, l) = KeysOf(Members(p))
    BY <1>1, <1>3
  <2> QED BY <1>2, <2>2, <2>3 DEF d
<1>4. CASE l # p.step
  <2>1. l > p.step
    BY <1>1, <1>4 DEF Level
  <2>2. PICK key \in Keys[a] : key \in Ring(d, l)
    BY <1>1, <2>1 DEF Thorough
  <2> HIDE DEF d
  <2>3. PublishedIn(RingMembers', SubRingCount', d, l) = Ring(d, l)
    BY <1>1, <1>4
  <2> QED BY <2>2, <2>3 DEF d
<1> QED BY <1>3, <1>4

\* A level is built.
LEMMA BuildComplete ==
    ASSUME RingsType, CompleteInv, BuildRingStep,
           UNCHANGED <<scheduler, Verified, BandersnatchKeys, queue, attended, eligible>>
    PROVE  CompleteInv'
<1> DEFINE p == PendingRingComputation
<1> DEFINE q == PendingRingComputation'
<1>1. /\ p \in Job
      /\ p.stage = "Building"
      /\ p.step \in Level
      /\ \/ q = Idle
         \/ /\ q.stage = "Building"
            /\ q.community = p.community
            /\ q.ceremony_index = p.ceremony_index
            /\ q.step = p.step - 1
            /\ q.attendance = p.attendance
  BY BuildStep
<1>2. p # Idle
  BY <1>1 DEF Idle
<1>3. Timely' => /\ Timely
                 /\ q # Idle
  BY <1>1, <1>2 DEF Timely, scheduler
<1>4. Remembered' /\ InTime'
  BY <1>3 DEF CompleteInv, Remembered, InTime, scheduler, queue
<1>5. ASSUME Timely', ReputationLifetime >= MaxLevels, NEW a \in eligible
      PROVE  /\ Seen(PendingRingComputation, a)' <= q.attendance[a]
             /\ \A l \in Level : l > q.step /\ q.attendance[a] >= l =>
                  \E key \in Keys[a] :
                    key \in PublishedIn(RingMembers', SubRingCount', <<q.community, q.ceremony_index>>, l)
  <2>1. /\ q.stage = "Building"
        /\ q.community = p.community
        /\ q.ceremony_index = p.ceremony_index
        /\ q.step = p.step - 1
        /\ q.attendance = p.attendance
    BY <1>1, <1>3, <1>5
  <2>2. Seen(PendingRingComputation, a)' = Seen(p, a)
    BY <1>1, <2>1 DEF Seen, Counted, Horizon
  <2>3. Seen(p, a) <= p.attendance[a]
    BY <1>3, <1>5 DEF CompleteInv, Thorough
  <2>4. ASSUME NEW l \in Level, l > q.step, q.attendance[a] >= l
        PROVE  \E key \in Keys[a] :
                    key \in PublishedIn(RingMembers', SubRingCount', <<q.community, q.ceremony_index>>, l)
    <3>1. l >= p.step /\ p.attendance[a] >= l
      BY <1>1, <2>1, <2>4 DEF Level
    <3>2. \E key \in Keys[a] :
            key \in PublishedIn(RingMembers', SubRingCount', <<p.community, p.ceremony_index>>, l)
      BY <1>3, <1>5, <3>1, BuildLists DEF CompleteInv
    <3> QED BY <2>1, <3>2
  <2> QED BY <2>1, <2>2, <2>3, <2>4
<1>6. Thorough'
  BY <1>5 DEF Thorough, Ring
<1> QED BY <1>4, <1>6 DEF CompleteInv

\* A new ceremony: what leaves the lifetime is purged, and no computation is
\* about the ceremony that has just ended.
LEMMA PurgeComplete ==
    ASSUME RingsType, CompleteInv, EnterRegistering
    PROVE  CompleteInv'
<1>1. /\ CurrentCeremonyIndex' = CurrentCeremonyIndex + 1
      /\ UNCHANGED <<PendingRingComputation, queue, attended>>
      /\ \A cc \in Ceremony :
           Verified'[cc] = IF cc \in Expired(CurrentCeremonyIndex + 1) THEN {} ELSE Verified[cc]
  BY PurgeStep
<1>2. CurrentCeremonyIndex \in Nat
  BY RingsAssumption DEF RingsType, History
<1>3. ~ Timely'
  <2>1. PendingRingComputation # Idle =>
          /\ PendingRingComputation.ceremony_index \in Nat
          /\ PendingRingComputation.ceremony_index < CurrentCeremonyIndex
    BY RingsAssumption DEF RingsType, Jobs, Job, Index
  <2> QED BY <1>1, <1>2, <2>1 DEF Timely
<1>4. InTime'
  <2>1. PendingCeremonyIndex' # CurrentCeremonyIndex' - 1
    BY <1>1, <1>2 DEF RingsType, Jobs, queue
  <2> QED BY <1>3, <2>1 DEF InTime
<1>5. Remembered'
  <2>1. ASSUME NEW cc \in Ceremony, cc[2] + ReputationLifetime >= CurrentCeremonyIndex'
        PROVE  Verified'[cc] = attended'[cc]
    <3>1. cc[2] \in Nat /\ ReputationLifetime \in Nat
      BY RingsAssumption DEF Ceremony, Index
    <3>2. cc[2] + ReputationLifetime >= CurrentCeremonyIndex + 1
      BY <1>1, <2>1
    <3>3. cc \notin Expired(CurrentCeremonyIndex + 1)
      BY <1>2, <3>1, <3>2 DEF Expired
    <3>4. cc[2] + ReputationLifetime >= CurrentCeremonyIndex
      BY <1>2, <3>1, <3>2
    <3> QED BY <1>1, <3>3, <3>4 DEF CompleteInv, Remembered
  <2> QED BY <2>1 DEF Remembered
<1>6. Thorough'
  BY <1>3 DEF Thorough
<1> QED BY <1>4, <1>5, <1>6 DEF CompleteInv

\* Every step keeps the invariant.
LEMMA StepComplete ==
    ASSUME RingsType, CompleteInv, [Next]_vars
    PROVE  CompleteInv'
<1>1. ASSUME NEW a \in Account, NEW key \in Keys[a], register_bandersnatch_key(a, key)
      PROVE  CompleteInv'
  <2>1. UNCHANGED <<scheduler, Verified, rings, PendingRingComputation, queue, attended, eligible>>
    BY <1>1 DEF register_bandersnatch_key
  <2>2. Remembered' /\ InTime'
    BY <2>1 DEF CompleteInv, Remembered, InTime, Timely, scheduler, queue
  <2>3. Thorough'
    BY <2>1, ThoroughKept DEF CompleteInv, scheduler
  <2> QED BY <2>2, <2>3 DEF CompleteInv
<1>2. CASE \/ \E cid \in Community, c \in Initiable : initiate_rings(cid, c)
           \/ StartQueued
  BY <1>2, FreshComplete
<1>3. CASE ProcessComputationStep /\ CollectMembersStep
  BY <1>3, CollectComplete DEF ProcessComputationStep
<1>4. CASE ProcessComputationStep /\ BuildRingStep
  BY <1>4, BuildComplete DEF ProcessComputationStep
<1>5. ASSUME NEW cid \in Community, NEW participants \in Meetups[cid], issue_rewards(cid, participants)
      PROVE  CompleteInv'
  <2>1. /\ UNCHANGED <<scheduler, rings, PendingRingComputation, queue, eligible>>
        /\ \A cc \in Ceremony :
             /\ Verified[cc] = attended[cc] => Verified'[cc] = attended'[cc]
             /\ CurrentPhase # "Registering" /\ cc[2] # CurrentCeremonyIndex => attended'[cc] = attended[cc]
    BY <1>5, RewardStep
  <2>2. Remembered'
    BY <2>1 DEF CompleteInv, Remembered, scheduler
  <2>3. InTime'
    BY <2>1 DEF CompleteInv, InTime, Timely, scheduler, queue
  <2>4. \A cc \in Ceremony : cc[2] < CurrentCeremonyIndex => cc[2] # CurrentCeremonyIndex
    BY RingsAssumption DEF Ceremony, Index, RingsType, History
  <2>5. Timely => \A cc \in Ceremony : cc[2] < CurrentCeremonyIndex => attended'[cc] = attended[cc]
    BY <2>1, <2>4 DEF CompleteInv, InTime
  <2>6. Thorough'
    BY <2>1, <2>5, ThoroughKept DEF CompleteInv, scheduler
  <2> QED BY <2>2, <2>3, <2>6 DEF CompleteInv
<1>6. CASE EnterAssigning \/ EnterAttesting
  <2>1. /\ CurrentPhase' # "Registering"
        /\ UNCHANGED <<CurrentCeremonyIndex, Verified, rings, PendingRingComputation, attended, eligible>>
    BY <1>6, PhaseStep
  <2>2. Remembered' /\ InTime'
    BY <2>1 DEF CompleteInv, Remembered, InTime
  <2>3. Thorough'
    BY <2>1, ThoroughKept DEF CompleteInv
  <2> QED BY <2>2, <2>3 DEF CompleteInv
<1>7. CASE EnterRegistering
  BY <1>7, PurgeComplete
<1>8. CASE UNCHANGED vars
  <2>1. UNCHANGED <<scheduler, Verified, rings, PendingRingComputation, queue, attended, eligible>>
    BY <1>8 DEF vars
  <2>2. Remembered' /\ InTime'
    BY <2>1 DEF CompleteInv, Remembered, InTime, Timely, scheduler, queue
  <2>3. Thorough'
    BY <2>1, ThoroughKept DEF CompleteInv, scheduler
  <2> QED BY <2>2, <2>3 DEF CompleteInv
<1> QED BY <1>1, <1>2, <1>3, <1>4, <1>5, <1>6, <1>7, <1>8, NextCases

\* Only the last level ends a computation.
LEMMA EndsWithLoosest ==
    ASSUME RingsType, [Next]_vars, PendingRingComputation # Idle, PendingRingComputation' = Idle
    PROVE  BuildRingStep /\ PendingRingComputation.step = 1
<1>1. ASSUME NEW a \in Account, NEW key \in Keys[a], register_bandersnatch_key(a, key)
      PROVE  FALSE
  BY <1>1 DEF register_bandersnatch_key
<1>2. CASE \/ \E cid \in Community, c \in Initiable : initiate_rings(cid, c)
           \/ StartQueued
  BY <1>2, NextBegins
<1>3. CASE ProcessComputationStep /\ CollectMembersStep
  <2>1. PendingRingComputation'.stage \in {"Building", "Collecting"}
    BY <1>3, CollectStep DEF RingsType
  <2> QED BY <2>1 DEF Idle
<1>4. CASE ProcessComputationStep /\ BuildRingStep
  <2>1. \/ PendingRingComputation.step = 1
        \/ PendingRingComputation'.stage = "Building"
    BY <1>4, BuildStep
  <2> QED BY <1>4, <2>1 DEF Idle
<1>5. ASSUME NEW cid \in Community, NEW participants \in Meetups[cid], issue_rewards(cid, participants)
      PROVE  FALSE
  BY <1>5 DEF issue_rewards
<1>6. CASE EnterAssigning \/ EnterAttesting \/ EnterRegistering
  BY <1>6 DEF EnterAssigning, EnterAttesting, EnterRegistering
<1>7. CASE UNCHANGED vars
  BY <1>7 DEF vars
<1> QED BY <1>1, <1>2, <1>3, <1>4, <1>5, <1>6, <1>7, NextCases

\* collect_members_step, build_ring_step, on_ceremony_phase_change: a
\* computation for the last ceremony that ends in the Assigning phase has
\* counted every attendance within the window and lists everybody who had a key
\* when it began, in the ring of each level they reached, for any number of
\* members and any size of the sub-rings.
THEOREM RingsLeaveNobodyOut == Spec => RingsComplete
<1>1. Init => RingsType /\ CompleteInv
  <2>1. Init => Remembered /\ InTime /\ Thorough
    BY DEF Init, Remembered, InTime, Thorough, Timely
  <2> QED BY <2>1, InitType DEF CompleteInv
<1>2. RingsType /\ CompleteInv /\ [Next]_vars => (RingsType /\ CompleteInv)'
  BY StepType, StepComplete
<1> DEFINE p == PendingRingComputation
<1>3. ASSUME RingsType, CompleteInv, [Next]_vars, ReputationLifetime >= MaxLevels,
             p # Idle, p' = Idle, p.ceremony_index = CurrentCeremonyIndex - 1,
             NEW a \in eligible, NEW l \in Level, Attendance(p.community, p.ceremony_index, a) >= l
      PROVE  \E key \in Keys[a] :
               key \in PublishedIn(RingMembers', SubRingCount', <<p.community, p.ceremony_index>>, l)
  <2>1. BuildRingStep /\ p.step = 1
    BY <1>3, EndsWithLoosest
  <2>2. p.stage = "Building" /\ Timely
    BY <1>3, <2>1 DEF BuildRingStep, Timely
  <2>3. Attendance(p.community, p.ceremony_index, a) = Seen(p, a)
    BY <2>2, AttendanceIsCounted DEF Seen, Horizon
  <2>4. Seen(p, a) <= p.attendance[a]
    BY <1>3, <2>2 DEF CompleteInv, Thorough
  <2>5. Seen(p, a) \in Nat /\ p.attendance[a] \in Nat /\ l \in Nat /\ l >= 1
    <3>1. p \in Job /\ a \in Account
      BY <1>3 DEF RingsType, Jobs, KeyMap, Keyed
    <3>2. p.ceremony_index \in Nat /\ Horizon(p) \in Nat
      BY <2>2, <3>1, RingsAssumption DEF Job, Index, Horizon
    <3>3. Seen(p, a) \in Nat
      BY <3>2, CountedFinite DEF Seen
    <3> QED BY <3>1, <3>3 DEF Job, Level
  <2>6. p.attendance[a] >= l /\ l >= p.step
    BY <1>3, <2>1, <2>3, <2>4, <2>5
  <2> QED BY <1>3, <2>1, <2>2, <2>6, BuildLists DEF CompleteInv
<1>4. RingsType /\ CompleteInv /\ [Next]_vars =>
        [ /\ ReputationLifetime >= MaxLevels
          /\ CurrentPhase = "Assigning"
          /\ p # Idle /\ p' = Idle
          /\ p.ceremony_index = CurrentCeremonyIndex - 1
          => LET cid == p.community
                 c   == p.ceremony_index
             IN  \A a \in eligible, l \in Level :
                   Attendance(cid, c, a) >= l
                   => \E key \in Keys[a] :
                        key \in PublishedIn(RingMembers', SubRingCount', <<cid, c>>, l)]_vars
  BY <1>3
<1> QED BY <1>1, <1>2, <1>4, PTL DEF Spec, RingsComplete

====
