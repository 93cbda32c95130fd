---- MODULE DemocracyProofs ----
(***************************************************************************)
(* Proofs about module Democracy, for any accounts, communities, durations *)
(* and bounds: one reputation gives one vote, those who may vote on a      *)
(* proposal stay as many as were counted, no more of them vote, and what   *)
(* is approved has been passing for the confirmation period.               *)
(***************************************************************************)
EXTENDS Democracy, NumberLemmas

-----------------------------------------------------------------------------
(* The clock.                                                               *)

Att == PhaseDurations["Attesting"]
Reg == PhaseDurations["Registering"]
Ass == PhaseDurations["Assigning"]

\* The ceremony index at moment t, of a clock that nobody disturbs.
IndexAt(t) == FirstIndex + (t \div CycleDuration) + IF t % CycleDuration >= Att THEN 1 ELSE 0

LEMMA Durations ==
    /\ Att \in Nat \ {0} /\ Reg \in Nat \ {0} /\ Ass \in Nat \ {0}
    /\ CycleDuration = Reg + Ass + Att
    /\ CycleDuration \in Nat \ {0}
BY DemocracyAssumption DEF Att, Reg, Ass, CycleDuration

\* The next moment is in the same cycle, or begins a new one.
LEMMA NextMoment ==
    ASSUME NEW n \in Nat, NEW c \in Nat \ {0}
    PROVE  IF n % c = c - 1
           THEN (n + 1) % c = 0 /\ (n + 1) \div c = (n \div c) + 1
           ELSE (n + 1) % c = (n % c) + 1 /\ (n + 1) \div c = n \div c
<1> DEFINE q == n \div c
<1> DEFINE r == n % c
<1>1. q \in Nat /\ r \in 0 .. c - 1 /\ n = c * q + r
  BY Division
<1> SUFFICES IF r = c - 1
             THEN (n + 1) % c = 0 /\ (n + 1) \div c = q + 1
             ELSE (n + 1) % c = r + 1 /\ (n + 1) \div c = q
  OBVIOUS
<1> HIDE DEF q, r
<1>0. \A x, y \in Nat, z \in 0 .. c - 1 : x = c * y + z => x \div c = y /\ x % c = z
  BY DivisionUnique
<1> DEFINE m == n + 1
<1>2. CASE r = c - 1
  <2> DEFINE k == q + 1
  <2>1. m = c * k + 0
    BY <1>1, <1>2, SMTT(30)
  <2>2. 0 \in 0 .. c - 1 /\ k \in Nat /\ m \in Nat
    BY <1>1
  <2> HIDE DEF m, k
  <2>3. m \div c = k /\ m % c = 0
    BY <2>1, <2>2, <1>0, Zenon
  <2> QED BY <2>3, <1>2 DEF m, k
<1>3. CASE r # c - 1
  <2>1. c * q \in Nat
    BY <1>1, SMTT(30)
  <2> DEFINE k == r + 1
  <2>2. m = c * q + k
    BY <1>1, <2>1
  <2>3. k \in 0 .. c - 1 /\ m \in Nat
    BY <1>1, <1>3
  <2> HIDE DEF m, k
  <2>4. m \div c = q /\ m % c = k
    BY <2>2, <2>3, <1>0, <1>1, Zenon
  <2> QED BY <2>4, <1>3 DEF m, k
<1> QED BY <1>2, <1>3

\* A later moment is not in an earlier cycle.
LEMMA CyclesOrdered ==
    ASSUME NEW c \in Nat \ {0}, NEW m \in Nat, NEW n \in Nat, m <= n
    PROVE  m \div c <= n \div c /\ (m \div c = n \div c => m % c <= n % c)
<1> DEFINE p == m \div c
<1> DEFINE r == m % c
<1> DEFINE q == n \div c
<1> DEFINE s == n % c
<1>1. /\ p \in Nat /\ r \in 0 .. c - 1 /\ m = c * p + r
      /\ q \in Nat /\ s \in 0 .. c - 1 /\ n = c * q + s
  BY Division
<1> SUFFICES p <= q /\ (p = q => r <= s)
  OBVIOUS
<1> HIDE DEF p, q, r, s
<1>2. c * p \in Nat /\ c * q \in Nat
  BY <1>1, SMTT(30)
<1>3. ~ (q < p)
  <2> SUFFICES ASSUME q < p PROVE FALSE
    OBVIOUS
  <2>1. c * q + c <= c * p
    BY <1>1, TimesGrows
  <2> QED BY <2>1, <1>1, <1>2
<1>4. p <= q
  BY <1>1, <1>3
<1>5. p = q => r <= s
  BY <1>1, <1>2
<1> QED BY <1>4, <1>5

\* The index is a positive number within the bounds of the model and never
\* decreases.
LEMMA IndexAtType ==
    ASSUME NEW t \in Nat
    PROVE  /\ IndexAt(t) \in Nat \ {0}
           /\ t <= MaxNow => IndexAt(t) \in Index
           /\ \A u \in Nat : t <= u => IndexAt(t) <= IndexAt(u)
<1> DEFINE c == CycleDuration
<1>1. c \in Nat \ {0} /\ Att \in Nat /\ FirstIndex \in Nat \ {0} /\ MaxNow \in Nat
  BY Durations, DemocracyAssumption
<1> HIDE DEF c
<1>2. \A u \in Nat : /\ u \div c \in Nat /\ u % c \in Nat
                     /\ IndexAt(u) = FirstIndex + (u \div c) + IF u % c >= Att THEN 1 ELSE 0
  BY <1>1, Division DEF IndexAt, c
<1>3. \A u \in Nat : t <= u => t \div c <= u \div c /\ (t \div c = u \div c => t % c <= u % c)
  BY <1>1, CyclesOrdered
<1> DEFINE Q(u) == u \div c
<1> DEFINE R(u) == u % c
<1>4. \A u \in Nat : Q(u) \in Nat /\ R(u) \in Nat /\ IndexAt(u) = FirstIndex + Q(u) + IF R(u) >= Att THEN 1 ELSE 0
  BY <1>2
<1>5. \A u \in Nat : t <= u => Q(t) <= Q(u) /\ (Q(t) = Q(u) => R(t) <= R(u))
  BY <1>3
<1>6. MaxIndex = FirstIndex + 1 + Q(MaxNow)
  BY DEF MaxIndex, c
<1> HIDE DEF Q, R
<1>7. IndexAt(t) \in Nat \ {0}
  BY <1>1, <1>4
<1>8. t <= MaxNow => IndexAt(t) \in Index
  <2>1. t <= MaxNow => Q(t) <= Q(MaxNow)
    BY <1>1, <1>5
  <2>2. Q(t) \in Nat /\ Q(MaxNow) \in Nat /\ IndexAt(t) = FirstIndex + Q(t) + IF R(t) >= Att THEN 1 ELSE 0
    BY <1>1, <1>4
  <2>3. t <= MaxNow => IndexAt(t) <= MaxIndex
    BY <2>1, <2>2, <1>1, <1>6
  <2>4. MaxIndex \in Nat
    BY <2>2, <1>1, <1>6
  <2> QED BY <2>3, <2>4, <1>7 DEF Index
<1>9. ASSUME NEW u \in Nat, t <= u PROVE IndexAt(t) <= IndexAt(u)
  <2>1. /\ Q(t) \in Nat /\ R(t) \in Nat /\ IndexAt(t) = FirstIndex + Q(t) + IF R(t) >= Att THEN 1 ELSE 0
        /\ Q(u) \in Nat /\ R(u) \in Nat /\ IndexAt(u) = FirstIndex + Q(u) + IF R(u) >= Att THEN 1 ELSE 0
        /\ Q(t) <= Q(u) /\ (Q(t) = Q(u) => R(t) <= R(u))
    BY <1>4, <1>5, <1>9
  <2> QED BY <2>1, <1>1
<1> QED BY <1>7, <1>8, <1>9

\* proposal_lifetime_cycles: the lifetime rounded up to cycles.
LEMMA LifetimeCyclesType ==
    /\ LifetimeCycles \in Nat \ {0}
    /\ ProposalLifetime <= CycleDuration * LifetimeCycles
<1> DEFINE c == CycleDuration
<1> DEFINE n == ProposalLifetime + c - 1
<1> DEFINE q == n \div c
<1> DEFINE r == n % c
<1>1. c \in Nat \ {0} /\ ProposalLifetime \in Nat \ {0}
  BY Durations, DemocracyAssumption
<1>2. n \in Nat
  BY <1>1
<1>3. q \in Nat /\ r \in 0 .. c - 1 /\ n = c * q + r
  BY <1>1, <1>2, Division
<1>4. LifetimeCycles = q
  BY DEF LifetimeCycles
<1> SUFFICES q \in Nat \ {0} /\ ProposalLifetime <= c * q
  BY <1>4
<1> HIDE DEF c, q, r
<1>5. c * q \in Nat
  BY <1>1, <1>3, SMTT(30)
<1>6. q # 0
  <2> SUFFICES ASSUME q = 0 PROVE FALSE
    OBVIOUS
  <2>1. c * q = 0
    BY <1>1
  <2> QED BY <2>1, <1>1, <1>3
<1>7. ProposalLifetime <= c * q
  BY <1>1, <1>3, <1>5
<1> QED BY <1>3, <1>6, <1>7

\* Within the lifetime of a proposal the index grows by no more than that.
LEMMA LifetimeInCycles ==
    ASSUME NEW t \in Nat, NEW u \in Nat, t <= u, u - t <= ProposalLifetime
    PROVE  IndexAt(u) <= IndexAt(t) + LifetimeCycles
<1> DEFINE c == CycleDuration
<1> DEFINE l == LifetimeCycles
<1> DEFINE p == t \div c
<1> DEFINE r == t % c
<1> DEFINE q == u \div c
<1> DEFINE s == u % c
<1>1. c \in Nat \ {0} /\ Att \in Nat /\ FirstIndex \in Nat /\ l \in Nat \ {0} /\ ProposalLifetime \in Nat
  BY Durations, DemocracyAssumption, LifetimeCyclesType
<1>2. /\ p \in Nat /\ r \in 0 .. c - 1 /\ t = c * p + r
      /\ q \in Nat /\ s \in 0 .. c - 1 /\ u = c * q + s
  BY <1>1, Division
<1>3. ProposalLifetime <= c * l
  BY LifetimeCyclesType
<1>4. /\ IndexAt(t) = FirstIndex + p + IF r >= Att THEN 1 ELSE 0
      /\ IndexAt(u) = FirstIndex + q + IF s >= Att THEN 1 ELSE 0
  BY DEF IndexAt
<1> HIDE DEF c, l, p, q, r, s
<1>5. c * p \in Nat /\ c * q \in Nat /\ c * l \in Nat /\ c * (p + l) = c * p + c * l
  BY <1>1, <1>2, SMTT(30)
<1> DEFINE cp == c * p
<1> DEFINE cq == c * q
<1> DEFINE cl == c * l
<1>6. /\ cp \in Nat /\ cq \in Nat /\ cl \in Nat
      /\ t = cp + r /\ u = cq + s /\ ProposalLifetime <= cl
  BY <1>2, <1>3, <1>5
<1>7. ~ (p + l < q)
  <2> SUFFICES ASSUME p + l < q PROVE FALSE
    OBVIOUS
  <2>1. c * (p + l) + c <= cq
    BY <1>1, <1>2, TimesGrows
  <2>2. cp + cl + c <= cq
    BY <2>1, <1>5
  <2> HIDE DEF cp, cq, cl
  <2> QED BY <2>2, <1>1, <1>2, <1>6
<1>8. q = p + l => s <= r
  <2> SUFFICES ASSUME q = p + l PROVE s <= r
    OBVIOUS
  <2>1. cq = cp + cl
    BY <1>5
  <2> HIDE DEF cp, cq, cl
  <2> QED BY <2>1, <1>1, <1>2, <1>6
<1> HIDE DEF cp, cq, cl
<1>9. FirstIndex + q + (IF s >= Att THEN 1 ELSE 0) <= FirstIndex + p + (IF r >= Att THEN 1 ELSE 0) + l
  BY <1>1, <1>2, <1>7, <1>8
<1> QED BY <1>4, <1>9 DEF l

\* Phase and index follow the clock.
ClockInv ==
    /\ Now \in 0 .. MaxNow
    /\ CurrentCeremonyIndex = IndexAt(Now)
    /\ \/ CurrentPhase = "Attesting" /\ Now % CycleDuration < Att
       \/ CurrentPhase = "Registering" /\ Now % CycleDuration \in Att .. Att + Reg - 1
       \/ CurrentPhase = "Assigning" /\ Now % CycleDuration >= Att + Reg

LEMMA ClockInit == Init => ClockInv
<1> SUFFICES ASSUME Init PROVE ClockInv
  OBVIOUS
<1>1. 0 \div CycleDuration = 0 /\ 0 % CycleDuration = 0
  <2> DEFINE c == CycleDuration
  <2>1. c \in Nat \ {0}
    BY Durations
  <2> HIDE DEF c
  <2>2. c * 0 = 0
    BY <2>1, SMTT(30)
  <2>3. 0 \in 0 .. c - 1 /\ 0 = c * 0 + 0
    BY <2>1, <2>2
  <2>4. 0 \div c = 0 /\ 0 % c = 0
    BY <2>1, <2>3, DivisionUnique
  <2> QED BY <2>4 DEF c
<1>2. IndexAt(0) = FirstIndex
  BY <1>1, Durations, DemocracyAssumption DEF IndexAt
<1> QED BY <1>1, <1>2, Durations, DemocracyAssumption DEF Init, ClockInv

\* A block moves the clock by one; the ceremony index grows at most by one,
\* and the current one is not over before its Registering phase.
LEMMA BlockClock ==
    ASSUME ClockInv, Block
    PROVE  /\ ClockInv'
           /\ Now' = Now + 1
           /\ CurrentCeremonyIndex' =
                IF EnterRegistering THEN CurrentCeremonyIndex + 1 ELSE CurrentCeremonyIndex
           /\ CurrentCeremonyIndex' >= CurrentCeremonyIndex
<1> DEFINE c == CycleDuration
<1> DEFINE r == Now % c
<1> DEFINE q == Now \div c
<1> DEFINE v == (Now + 1) % c
<1> DEFINE w == (Now + 1) \div c
<1>1. /\ Att \in Nat \ {0} /\ Reg \in Nat \ {0} /\ Ass \in Nat \ {0}
      /\ c = Reg + Ass + Att /\ c \in Nat \ {0}
      /\ FirstIndex \in Nat /\ MaxNow \in Nat
  BY Durations, DemocracyAssumption
<1>2. Now < MaxNow /\ Now' = Now + 1 /\ Now \in Nat
  BY <1>1 DEF Block, QuietBlock, EnterAssigning, EnterAttesting, EnterRegistering, NextBlock, ClockInv
<1>3. IF r = c - 1 THEN v = 0 /\ w = q + 1 ELSE v = r + 1 /\ w = q
  BY <1>1, <1>2, NextMoment
<1>4. r \in 0 .. c - 1 /\ q \in Nat
  BY <1>1, <1>2, Division
<1>5. /\ IndexAt(Now) = FirstIndex + q + IF r >= Att THEN 1 ELSE 0
      /\ IndexAt(Now') = FirstIndex + w + IF v >= Att THEN 1 ELSE 0
  BY <1>2 DEF IndexAt
<1>6. /\ PhaseEnd["Attesting"] = Att
      /\ PhaseEnd["Registering"] = Att + Reg
      /\ PhaseEnd["Assigning"] = c
  BY <1>1 DEF PhaseEnd, Att, Reg
<1>7. PhaseOver <=> r = PhaseEnd[CurrentPhase] - 1
  BY DEF PhaseOver
<1>8. /\ CurrentCeremonyIndex = FirstIndex + q + IF r >= Att THEN 1 ELSE 0
      /\ \/ CurrentPhase = "Attesting" /\ r < Att
         \/ CurrentPhase = "Registering" /\ r \in Att .. Att + Reg - 1
         \/ CurrentPhase = "Assigning" /\ r >= Att + Reg
  BY <1>5 DEF ClockInv
<1>9. ClockInv' <=> /\ CurrentCeremonyIndex' = FirstIndex + w + IF v >= Att THEN 1 ELSE 0
                    /\ \/ CurrentPhase' = "Attesting" /\ v < Att
                       \/ CurrentPhase' = "Registering" /\ v \in Att .. Att + Reg - 1
                       \/ CurrentPhase' = "Assigning" /\ v >= Att + Reg
  <2>1. Now' \in 0 .. MaxNow
    BY <1>1, <1>2
  <2> QED BY <2>1, <1>2, <1>5 DEF ClockInv
<1> HIDE DEF r, q, v, w
<1>10. CASE QuietBlock
  <2>1. r # PhaseEnd[CurrentPhase] - 1 /\ UNCHANGED <<CurrentPhase, CurrentCeremonyIndex>>
    BY <1>7, <1>10 DEF QuietBlock
  <2>2. CurrentPhase # "Attesting" \/ ~ EnterRegistering
    BY <1>10 DEF QuietBlock, EnterRegistering
  <2>3. ~ EnterRegistering
    BY <1>10 DEF QuietBlock, EnterRegistering
  <2>4. CurrentCeremonyIndex \in Nat
    BY <1>1, <1>4, <1>8
  <2> HIDE DEF c
  <2>5. ClockInv'
    BY <2>1, <1>1, <1>3, <1>4, <1>6, <1>8, <1>9
  <2> QED BY <2>1, <2>3, <2>4, <2>5, <1>2
<1>11. CASE EnterAssigning
  <2>1. /\ CurrentPhase = "Registering" /\ r = PhaseEnd[CurrentPhase] - 1
        /\ CurrentPhase' = "Assigning" /\ CurrentCeremonyIndex' = CurrentCeremonyIndex
    BY <1>7, <1>11 DEF EnterAssigning, PC!AdvancePhase, PC!FollowingPhase, PC!FollowingIndex
  <2>2. ~ EnterRegistering /\ CurrentCeremonyIndex \in Nat
    BY <2>1, <1>1, <1>4, <1>8 DEF EnterRegistering
  <2> HIDE DEF c
  <2>3. ClockInv'
    BY <2>1, <1>1, <1>3, <1>4, <1>6, <1>8, <1>9
  <2> QED BY <2>1, <2>2, <2>3, <1>2
<1>12. CASE EnterAttesting
  <2>1. /\ CurrentPhase = "Assigning" /\ r = PhaseEnd[CurrentPhase] - 1
        /\ CurrentPhase' = "Attesting" /\ CurrentCeremonyIndex' = CurrentCeremonyIndex
    BY <1>7, <1>12 DEF EnterAttesting, PC!AdvancePhase, PC!FollowingPhase, PC!FollowingIndex
  <2>2. ~ EnterRegistering /\ CurrentCeremonyIndex \in Nat
    BY <2>1, <1>1, <1>4, <1>8 DEF EnterRegistering
  <2> HIDE DEF c
  <2>3. ClockInv'
    BY <2>1, <1>1, <1>3, <1>4, <1>6, <1>8, <1>9
  <2> QED BY <2>1, <2>2, <2>3, <1>2
<1>13. CASE EnterRegistering
  <2>1. /\ CurrentPhase = "Attesting" /\ r = PhaseEnd[CurrentPhase] - 1
        /\ CurrentPhase' = "Registering" /\ CurrentCeremonyIndex' = CurrentCeremonyIndex + 1
    BY <1>7, <1>13 DEF EnterRegistering, PC!AdvancePhase, PC!FollowingPhase, PC!FollowingIndex
  <2>2. CurrentCeremonyIndex \in Nat
    BY <1>1, <1>4, <1>8
  <2> HIDE DEF c
  <2>3. ClockInv'
    BY <2>1, <1>1, <1>3, <1>4, <1>6, <1>8, <1>9
  <2> QED BY <2>1, <2>2, <2>3, <1>2, <1>13
<1> QED BY <1>10, <1>11, <1>12, <1>13 DEF Block

\* Every other step leaves the clock alone.
LEMMA OtherClock ==
    ASSUME [Next]_vars, ~ Block
    PROVE  UNCHANGED clock
<1>1. ASSUME NEW action \in Actions, submit_proposal(action) PROVE UNCHANGED clock
  BY <1>1 DEF submit_proposal
<1>2. ASSUME NEW p \in 1 .. ProposalCount, update_proposal_state(p) PROVE UNCHANGED clock
  BY <1>2 DEF update_proposal_state
<1>3. ASSUME NEW p \in 1 .. ProposalCount, NEW a \in Account, NEW aye \in BOOLEAN,
             NEW ballot \in Ballots, vote(a, p, aye, ballot)
      PROVE  UNCHANGED clock
  BY <1>3 DEF vote
<1>4. ASSUME register_purpose PROVE UNCHANGED clock
  BY <1>4 DEF register_purpose
<1>5. ASSUME NEW held \in Committable, commit_reputation(held[1], held[2], held[3])
      PROVE  UNCHANGED clock
  BY <1>5 DEF commit_reputation
<1>6. ASSUME NEW cid \in Community, NEW participants \in Meetups[cid],
             issue_rewards(cid, participants)
      PROVE  UNCHANGED clock
  BY <1>6 DEF issue_rewards
<1>7. ASSUME UNCHANGED vars PROVE UNCHANGED clock
  BY <1>7 DEF vars
<1> QED BY <1>1, <1>2, <1>3, <1>4, <1>5, <1>6, <1>7 DEF Next

LEMMA ClockStep ==
    ASSUME ClockInv, [Next]_vars
    PROVE  /\ ClockInv'
           /\ Now \in Nat /\ Now' \in Nat /\ Now <= Now'
           /\ CurrentCeremonyIndex \in Nat \ {0} /\ CurrentCeremonyIndex' \in Nat
           /\ CurrentCeremonyIndex <= CurrentCeremonyIndex'
<1>0. Now \in Nat /\ CurrentCeremonyIndex \in Nat \ {0}
  BY IndexAtType, DemocracyAssumption DEF ClockInv
<1>1. CASE Block
  <2>1. ClockInv' /\ Now' = Now + 1 /\ CurrentCeremonyIndex' >= CurrentCeremonyIndex
    BY <1>1, BlockClock
  <2>2. Now' \in Nat /\ CurrentCeremonyIndex' = IndexAt(Now')
    BY <1>0, <2>1 DEF ClockInv
  <2>3. CurrentCeremonyIndex' \in Nat
    BY <2>2, IndexAtType
  <2> QED BY <1>0, <2>1, <2>2, <2>3
<1>2. CASE ~ Block
  BY <1>0, <1>2, OtherClock DEF ClockInv, clock
<1> QED BY <1>1, <1>2

-----------------------------------------------------------------------------
(* Reputation.                                                              *)

\* The counts are the number of those who have verified reputation.
ReputationInv ==
    /\ CommunityIdentifiers \subseteq Community
    /\ Verified \in [Ceremony -> SUBSET Account]
    /\ ReputationCount = [cc \in Ceremony |-> Cardinality(Verified[cc])]

\* Reputation of a ceremony that is over for good does not grow; that of a
\* community which lives on does not shrink before it is too old.
Settled ==
    /\ CommunityIdentifiers' \subseteq CommunityIdentifiers
    /\ \A cc \in Ceremony : cc[2] + 2 <= CurrentCeremonyIndex => Verified'[cc] \subseteq Verified[cc]
    /\ \A cid \in CommunityIdentifiers', k \in Index :
         k + 2 <= CurrentCeremonyIndex /\ CurrentCeremonyIndex' <= k + ReputationLifetime
         => Verified'[<<cid, k>>] = Verified[<<cid, k>>]

LEMMA ReputationInit == Init => ReputationInv
BY HistoryAssumption DEF Init, ReputationInv

LEMMA FiniteAccounts ==
    ASSUME ReputationInv
    PROVE  \A cc \in Ceremony : IsFiniteSet(Verified[cc]) /\ Cardinality(Verified[cc]) \in Nat
<1> TAKE cc \in Ceremony
<1>1. Verified[cc] \in SUBSET Account
  BY DEF ReputationInv
<1>2. IsFiniteSet(Verified[cc])
  BY <1>1, HistoryAssumption, FS_Subset
<1> QED BY <1>2, FS_CardinalityType

\* purge_community_ceremony_internal keeps counts and reputation together.
LEMMA PurgeReputation ==
    ASSUME ReputationInv, NEW ccs, Purge(ccs)
    PROVE  /\ Verified' \in [Ceremony -> SUBSET Account]
           /\ ReputationCount' = [cc \in Ceremony |-> Cardinality(Verified'[cc])]
           /\ \A cc \in Ceremony : Verified'[cc] = IF cc \in ccs THEN {} ELSE Verified[cc]
<1>1. /\ Verified' = [cc \in Ceremony |-> IF cc \in ccs THEN {} ELSE Verified[cc]]
      /\ ReputationCount' = [cc \in Ceremony |-> IF cc \in ccs THEN 0 ELSE ReputationCount[cc]]
  BY DEF Purge
<1>2. Cardinality({}) = 0
  BY FS_EmptySet
<1>3. \A cc \in Ceremony : ReputationCount[cc] = Cardinality(Verified[cc])
  BY DEF ReputationInv
<1>4. \A cc \in Ceremony : Verified'[cc] = IF cc \in ccs THEN {} ELSE Verified[cc]
  BY <1>1
<1>5. \A cc \in Ceremony : (IF cc \in ccs THEN 0 ELSE ReputationCount[cc]) = Cardinality(Verified'[cc])
  BY <1>2, <1>3, <1>4
<1> QED BY <1>1, <1>4, <1>5 DEF ReputationInv

\* issue_rewards
LEMMA RewardsReputation ==
    ASSUME ClockInv, ReputationInv, NEW cid \in Community, NEW participants \in Meetups[cid],
           issue_rewards(cid, participants)
    PROVE  ReputationInv' /\ Settled
<1> DEFINE c == IF CurrentPhase = "Registering" THEN CurrentCeremonyIndex - 1 ELSE CurrentCeremonyIndex
<1> DEFINE cc == <<cid, c>>
<1>1. /\ participants \cap Verified[cc] = {}
      /\ Verified' = [Verified EXCEPT ![cc] = @ \cup participants]
      /\ ReputationCount' = [ReputationCount EXCEPT ![cc] = @ + Cardinality(participants)]
      /\ CommunityIdentifiers' = CommunityIdentifiers
      /\ CurrentCeremonyIndex' = CurrentCeremonyIndex
  BY DEF issue_rewards, communities, clock
<1>2. CurrentCeremonyIndex \in Nat /\ c + 1 >= CurrentCeremonyIndex /\ c \in Int
  BY IndexAtType, DemocracyAssumption DEF ClockInv
<1> HIDE DEF c
<1>3. participants \in SUBSET Account /\ IsFiniteSet(participants)
  <2>1. participants \in SUBSET Account
    BY HistoryAssumption
  <2> QED BY <2>1, HistoryAssumption, FS_Subset
<1> HIDE DEF cc
<1>4. Verified' \in [Ceremony -> SUBSET Account]
  BY <1>1, <1>3 DEF ReputationInv
<1>5. \A d \in Ceremony : Verified'[d] = IF d = cc THEN Verified[d] \cup participants ELSE Verified[d]
  BY <1>1 DEF ReputationInv
<1>6. ASSUME NEW d \in Ceremony
      PROVE  ReputationCount'[d] = Cardinality(Verified'[d])
  <2>1. ReputationCount'[d] = IF d = cc THEN ReputationCount[d] + Cardinality(participants) ELSE ReputationCount[d]
    BY <1>1 DEF ReputationInv
  <2>2. ReputationCount[d] = Cardinality(Verified[d])
    BY DEF ReputationInv
  <2>3. CASE d = cc
    <3>1. Verified[d] \cap participants = {}
      BY <1>1, <2>3
    <3>2. Cardinality(Verified[d] \cup participants)
            = Cardinality(Verified[d]) + Cardinality(participants) - Cardinality(Verified[d] \cap participants)
      BY <1>3, FiniteAccounts, FS_Union
    <3>3. Cardinality(Verified[d] \cap participants) = 0
      BY <3>1, FS_EmptySet
    <3>4. Cardinality(Verified[d]) \in Nat /\ Cardinality(participants) \in Nat
      BY <1>3, FiniteAccounts, FS_CardinalityType
    <3>5. Cardinality(Verified[d] \cup participants) = Cardinality(Verified[d]) + Cardinality(participants)
      BY <3>2, <3>3, <3>4
    <3>6. Verified'[d] = Verified[d] \cup participants
      BY <1>5, <2>3
    <3> QED BY <2>1, <2>2, <2>3, <3>5, <3>6
  <2>4. CASE d # cc
    BY <2>1, <2>2, <2>4, <1>5
  <2> QED BY <2>3, <2>4
<1>7. ReputationCount' = [d \in Ceremony |-> Cardinality(Verified'[d])]
  <2>1. DOMAIN ReputationCount' = Ceremony /\ ReputationCount' = [d \in DOMAIN ReputationCount' |-> ReputationCount'[d]]
    BY <1>1 DEF ReputationInv
  <2> QED BY <2>1, <1>6
<1>8. \A d \in Ceremony : d[2] + 2 <= CurrentCeremonyIndex => Verified'[d] = Verified[d]
  <2> SUFFICES ASSUME NEW d \in Ceremony, d[2] + 2 <= CurrentCeremonyIndex PROVE d # cc
    BY <1>5
  <2>1. d[2] \in Int
    BY DemocracyAssumption DEF Ceremony, Index
  <2> QED BY <2>1, <1>2 DEF cc
<1>9. Settled
  <2>1. \A x \in Community, k \in Index : <<x, k>> \in Ceremony
    BY DEF Ceremony
  <2>2. CommunityIdentifiers \subseteq Community
    BY DEF ReputationInv
  <2> QED BY <2>1, <2>2, <1>1, <1>8 DEF Settled
<1> QED BY <1>1, <1>4, <1>7, <1>9 DEF ReputationInv

\* The reputation is settled whatever happens.
LEMMA ReputationStep ==
    ASSUME ClockInv, ReputationInv, [Next]_vars
    PROVE  ReputationInv' /\ Settled
<1>0. /\ \A x \in Community, k \in Index : <<x, k>> \in Ceremony
      /\ CommunityIdentifiers \subseteq Community
      /\ Index \subseteq Int
  BY DEF ReputationInv, Ceremony, Index
<1>1. ASSUME UNCHANGED reputation PROVE ReputationInv' /\ Settled
  BY <1>0, <1>1 DEF ReputationInv, Settled, reputation, communities
<1>2. CASE EnterAssigning
  <2> DEFINE ccs == Inactives \X (SatSub(CurrentCeremonyIndex, ReputationLifetime) .. CurrentCeremonyIndex)
  <2>1. CommunityIdentifiers' = CommunityIdentifiers \ Inactives /\ Purge(ccs)
    BY <1>2 DEF EnterAssigning
  <2>2. \A x \in CommunityIdentifiers', k \in Index : <<x, k>> \notin ccs
    BY <2>1
  <2> HIDE DEF ccs
  <2>3. /\ Verified' \in [Ceremony -> SUBSET Account]
        /\ ReputationCount' = [cc \in Ceremony |-> Cardinality(Verified'[cc])]
        /\ \A cc \in Ceremony : Verified'[cc] = IF cc \in ccs THEN {} ELSE Verified[cc]
    BY <2>1, PurgeReputation
  <2>4. ReputationInv'
    BY <2>1, <2>3 DEF ReputationInv
  <2>5. Settled
    BY <1>0, <2>1, <2>2, <2>3 DEF Settled
  <2> QED BY <2>4, <2>5
<1>3. CASE EnterRegistering
  <2> DEFINE ccs == Expired(CurrentCeremonyIndex + 1)
  <2>1. CommunityIdentifiers' = CommunityIdentifiers /\ Purge(ccs)
    BY <1>3 DEF EnterRegistering, communities
  <2>2. CurrentCeremonyIndex' = CurrentCeremonyIndex + 1 /\ CurrentCeremonyIndex \in Nat
    BY <1>3, BlockClock, ClockStep DEF Block
  <2>3. \A x \in Community, k \in Index :
          CurrentCeremonyIndex' <= k + ReputationLifetime => <<x, k>> \notin ccs
    BY <1>0, <2>2, DemocracyAssumption DEF Expired
  <2> HIDE DEF ccs
  <2>4. /\ Verified' \in [Ceremony -> SUBSET Account]
        /\ ReputationCount' = [cc \in Ceremony |-> Cardinality(Verified'[cc])]
        /\ \A cc \in Ceremony : Verified'[cc] = IF cc \in ccs THEN {} ELSE Verified[cc]
    BY <2>1, PurgeReputation
  <2>5. ReputationInv'
    BY <2>1, <2>4 DEF ReputationInv
  <2>6. Settled
    BY <1>0, <2>1, <2>3, <2>4 DEF Settled
  <2> QED BY <2>5, <2>6
<1>4. CASE QuietBlock
  BY <1>1, <1>4 DEF QuietBlock
<1>5. CASE EnterAttesting
  BY <1>1, <1>5 DEF EnterAttesting
<1>6. ASSUME NEW action \in Actions, submit_proposal(action) PROVE ReputationInv' /\ Settled
  BY <1>1, <1>6 DEF submit_proposal
<1>7. ASSUME NEW p \in 1 .. ProposalCount, update_proposal_state(p) PROVE ReputationInv' /\ Settled
  BY <1>1, <1>7 DEF update_proposal_state
<1>8. ASSUME NEW p \in 1 .. ProposalCount, NEW a \in Account, NEW aye \in BOOLEAN,
             NEW ballot \in Ballots, vote(a, p, aye, ballot)
      PROVE  ReputationInv' /\ Settled
  BY <1>1, <1>8 DEF vote
<1>9. CASE register_purpose
  BY <1>1, <1>9 DEF register_purpose
<1>10. ASSUME NEW held \in Committable, commit_reputation(held[1], held[2], held[3])
       PROVE  ReputationInv' /\ Settled
  BY <1>1, <1>10 DEF commit_reputation
<1>11. ASSUME NEW cid \in Community, NEW participants \in Meetups[cid],
              issue_rewards(cid, participants)
       PROVE  ReputationInv' /\ Settled
  BY <1>11, RewardsReputation
<1>12. CASE UNCHANGED vars
  BY <1>1, <1>12 DEF vars
<1> QED
  BY <1>2, <1>3, <1>4, <1>5, <1>6, <1>7, <1>8, <1>9, <1>10, <1>11, <1>12 DEF Next, Block

-----------------------------------------------------------------------------
(* Proposals.                                                               *)

IsProposal(r) ==
    r = [start |-> r.start, start_cindex |-> r.start_cindex, action |-> r.action,
         state |-> r.state, electorate_size |-> r.electorate_size]

\* Proposals r and s differ at most in their state.
SameProposal(r, s) ==
    /\ s.start = r.start
    /\ s.start_cindex = r.start_cindex
    /\ s.action = r.action
    /\ s.electorate_size = r.electorate_size

ProposalsInv ==
    /\ ProposalCount \in 0 .. MaxProposals
    /\ DOMAIN Proposals = ProposalId
    /\ \A p \in ProposalId : IsProposal(Proposals[p])
    /\ \A p \in 1 .. ProposalCount : /\ Proposals[p].action \in Actions
                                     /\ Proposals[p].start \in 0 .. Now
                                     /\ Proposals[p].start_cindex = IndexAt(Proposals[p].start)

\* What a step may do to the proposals that there are.
ProposalsKept ==
    /\ ProposalCount' \in Nat /\ ProposalCount <= ProposalCount'
    /\ \A p \in 1 .. ProposalCount : SameProposal(Proposals[p], Proposals'[p])

LEMMA WithState ==
    ASSUME NEW r, IsProposal(r), NEW st
    PROVE  /\ IsProposal([r EXCEPT !.state = st])
           /\ SameProposal(r, [r EXCEPT !.state = st])
           /\ [r EXCEPT !.state = st].state = st
BY DEF IsProposal, SameProposal

LEMMA ProposalsInit == Init => ProposalsInv
BY DemocracyAssumption DEF Init, ProposalsInv, IsProposal, NoProposal, ProposalId

\* Proposals that are the same but for their states keep the invariant.
LEMMA SameProposalsKept ==
    ASSUME ClockInv, ProposalsInv, [Next]_vars, ProposalCount' = ProposalCount,
           DOMAIN Proposals' = ProposalId,
           \A p \in ProposalId : IsProposal(Proposals'[p]) /\ SameProposal(Proposals[p], Proposals'[p])
    PROVE  ProposalsInv' /\ ProposalsKept
<1>1. Now \in Nat /\ Now' \in Nat /\ Now <= Now'
  BY ClockStep
<1>2. ProposalCount \in Nat /\ 1 .. ProposalCount \subseteq ProposalId
  BY DemocracyAssumption DEF ProposalsInv, ProposalId
<1> QED BY <1>1, <1>2 DEF ProposalsInv, ProposalsKept, SameProposal

\* do_update_proposal_state changes the state of one proposal.
LEMMA UpdateKept ==
    ASSUME ProposalsInv, NEW q \in 1 .. ProposalCount, NEW prop, NEW tally,
           UpdateProposal(q, prop, tally)
    PROVE  /\ DOMAIN Proposals' = ProposalId
           /\ \A p \in ProposalId : IsProposal(Proposals'[p]) /\ SameProposal(Proposals[p], Proposals'[p])
           /\ \A p \in ProposalId : p # q => Proposals'[p] = Proposals[p]
           /\ q \in ProposalId
           /\ Proposals'[q].state = NewState(prop, tally)
<1> DEFINE st == NewState(prop, tally)
<1>1. Proposals' = [Proposals EXCEPT ![q].state = st]
  BY DEF UpdateProposal
<1> HIDE DEF st
<1>2. q \in ProposalId
  BY DemocracyAssumption DEF ProposalsInv, ProposalId
<1>3. DOMAIN Proposals' = ProposalId /\ \A p \in ProposalId :
        Proposals'[p] = IF p = q THEN [Proposals[q] EXCEPT !.state = st] ELSE Proposals[p]
  BY <1>1, <1>2 DEF ProposalsInv
<1>4. /\ IsProposal([Proposals[q] EXCEPT !.state = st])
      /\ SameProposal(Proposals[q], [Proposals[q] EXCEPT !.state = st])
      /\ [Proposals[q] EXCEPT !.state = st].state = st
  BY <1>2, WithState DEF ProposalsInv
<1>5. \A p \in ProposalId : IsProposal(Proposals[p]) /\ SameProposal(Proposals[p], Proposals[p])
  BY DEF ProposalsInv, SameProposal
<1> QED BY <1>2, <1>3, <1>4, <1>5 DEF st

\* Enactment changes states only.
LEMMA EnactKept ==
    ASSUME ProposalsInv, NEW failures, Enact(failures)
    PROVE  /\ DOMAIN Proposals' = ProposalId
           /\ \A p \in ProposalId : IsProposal(Proposals'[p]) /\ SameProposal(Proposals[p], Proposals'[p])
           /\ \A p \in ProposalId : Proposals'[p] = Proposals[p] \/ Proposals'[p].state = State("Enacted", 0)
<1> DEFINE en(p) == [Proposals[p] EXCEPT !.state = State("Enacted", 0)]
<1>1. Proposals' = [p \in ProposalId |-> IF p \in Queued \ failures THEN en(p) ELSE Proposals[p]]
  BY DEF Enact
<1>2. \A p \in ProposalId : /\ IsProposal(en(p)) /\ SameProposal(Proposals[p], en(p))
                            /\ en(p).state = State("Enacted", 0)
  BY WithState DEF ProposalsInv
<1>3. \A p \in ProposalId : IsProposal(Proposals[p]) /\ SameProposal(Proposals[p], Proposals[p])
  BY DEF ProposalsInv, SameProposal
<1> HIDE DEF en
<1> QED BY <1>1, <1>2, <1>3

\* submit_proposal records the moment, the index and the electorate.
LEMMA SubmitKept ==
    ASSUME ClockInv, ProposalsInv, NEW action \in Actions, submit_proposal(action)
    PROVE  LET q == ProposalCount + 1
           IN  /\ ProposalsInv' /\ ProposalsKept
               /\ q \in ProposalId /\ ProposalCount' = q
               /\ \A p \in ProposalId : p # q => Proposals'[p] = Proposals[p]
               /\ Proposals'[q].start = Now
               /\ Proposals'[q].start_cindex = CurrentCeremonyIndex
               /\ Proposals'[q].action = action
               /\ Proposals'[q].state = Ongoing
               /\ Proposals'[q].electorate_size = Electorate(action, CurrentCeremonyIndex)
<1> DEFINE q == ProposalCount + 1
<1> DEFINE new == [start |-> Now, start_cindex |-> CurrentCeremonyIndex, action |-> action,
                   state |-> Ongoing, electorate_size |-> Electorate(action, CurrentCeremonyIndex)]
<1>1. /\ q <= MaxProposals /\ ProposalCount' = q /\ Now' = Now
      /\ Proposals' = [Proposals EXCEPT ![q] = new]
  BY DEF submit_proposal, clock
<1>2. IsProposal(new)
  BY DEF IsProposal
<1>3. /\ new.start = Now
      /\ new.start_cindex = CurrentCeremonyIndex
      /\ new.action = action
      /\ new.state = Ongoing
      /\ new.electorate_size = Electorate(action, CurrentCeremonyIndex)
  OBVIOUS
<1> HIDE DEF new
<1>4. ProposalCount \in Nat /\ q \in ProposalId /\ Now \in Nat
  BY <1>1, DemocracyAssumption DEF ProposalsInv, ProposalId, ClockInv
<1>5. DOMAIN Proposals' = ProposalId /\ \A p \in ProposalId : Proposals'[p] = IF p = q THEN new ELSE Proposals[p]
  BY <1>1, <1>4 DEF ProposalsInv
<1>6. ASSUME NEW p \in 1 .. ProposalCount'
      PROVE  /\ Proposals'[p].action \in Actions
             /\ Proposals'[p].start \in 0 .. Now'
             /\ Proposals'[p].start_cindex = IndexAt(Proposals'[p].start)
  <2>1. p \in ProposalId
    BY <1>1, <1>4, DemocracyAssumption DEF ProposalId
  <2>2. CASE p = q
    BY <2>1, <2>2, <1>1, <1>3, <1>4, <1>5 DEF ClockInv
  <2>3. CASE p # q
    <3>1. p \in 1 .. ProposalCount
      BY <2>3, <1>1, <1>4
    <3> QED BY <3>1, <2>1, <2>3, <1>1, <1>5 DEF ProposalsInv
  <2> QED BY <2>2, <2>3
<1>7. ProposalsInv'
  <2>1. ProposalCount' \in 0 .. MaxProposals
    BY <1>1, <1>4, DemocracyAssumption
  <2>2. \A p \in ProposalId : IsProposal(Proposals'[p])
    BY <1>2, <1>5 DEF ProposalsInv
  <2> QED BY <2>1, <2>2, <1>5, <1>6 DEF ProposalsInv
<1>8. ProposalsKept
  <2>1. \A p \in 1 .. ProposalCount : p \in ProposalId /\ p # q
    BY <1>4, DemocracyAssumption DEF ProposalId, ProposalsInv
  <2> QED BY <2>1, <1>1, <1>4, <1>5 DEF ProposalsKept, SameProposal
<1> QED BY <1>1, <1>3, <1>4, <1>5, <1>7, <1>8

\* Every step keeps the proposals.
LEMMA ProposalsStep ==
    ASSUME ClockInv, ProposalsInv, [Next]_vars
    PROVE  ProposalsInv' /\ ProposalsKept
<1>1. ASSUME UNCHANGED <<ProposalCount, Proposals>> PROVE ProposalsInv' /\ ProposalsKept
  <2>1. \A p \in ProposalId : IsProposal(Proposals'[p]) /\ SameProposal(Proposals[p], Proposals'[p])
    BY <1>1 DEF ProposalsInv, SameProposal
  <2>2. DOMAIN Proposals' = ProposalId
    BY <1>1 DEF ProposalsInv
  <2> QED BY <1>1, <2>1, <2>2, SameProposalsKept
<1>2. ASSUME NEW action \in Actions, submit_proposal(action) PROVE ProposalsInv' /\ ProposalsKept
  BY <1>2, SubmitKept
<1>3. ASSUME NEW p \in 1 .. ProposalCount, update_proposal_state(p)
      PROVE  ProposalsInv' /\ ProposalsKept
  <2>1. UpdateProposal(p, Proposals[p], Tallies[p]) /\ ProposalCount' = ProposalCount
    BY <1>3 DEF update_proposal_state
  <2> QED BY <2>1, UpdateKept, SameProposalsKept
<1>4. ASSUME NEW p \in 1 .. ProposalCount, NEW a \in Account, NEW aye \in BOOLEAN,
             NEW ballot \in Ballots, vote(a, p, aye, ballot)
      PROVE  ProposalsInv' /\ ProposalsKept
  <2>1. ProposalCount' = ProposalCount /\ \E prop, tally : UpdateProposal(p, prop, tally)
    BY <1>4 DEF vote
  <2>2. PICK prop, tally : UpdateProposal(p, prop, tally)
    BY <2>1
  <2>3. /\ DOMAIN Proposals' = ProposalId
        /\ \A o \in ProposalId : IsProposal(Proposals'[o]) /\ SameProposal(Proposals[o], Proposals'[o])
    BY <2>2, UpdateKept
  <2> QED BY <2>1, <2>3, SameProposalsKept
<1>5. CASE EnterAssigning
  <2>1. ProposalCount' = ProposalCount /\ \E failures : Enact(failures)
    BY <1>5 DEF EnterAssigning
  <2>2. PICK failures : Enact(failures)
    BY <2>1
  <2> QED BY <2>1, <2>2, EnactKept, SameProposalsKept
<1>6. CASE QuietBlock
  BY <1>1, <1>6 DEF QuietBlock, proposals
<1>7. CASE EnterAttesting
  BY <1>1, <1>7 DEF EnterAttesting, proposals
<1>8. CASE EnterRegistering
  BY <1>1, <1>8 DEF EnterRegistering, proposals
<1>9. CASE register_purpose
  BY <1>1, <1>9 DEF register_purpose, proposals
<1>10. ASSUME NEW held \in Committable, commit_reputation(held[1], held[2], held[3])
       PROVE  ProposalsInv' /\ ProposalsKept
  BY <1>1, <1>10 DEF commit_reputation, proposals
<1>11. ASSUME NEW cid \in Community, NEW participants \in Meetups[cid],
              issue_rewards(cid, participants)
       PROVE  ProposalsInv' /\ ProposalsKept
  BY <1>1, <1>11 DEF issue_rewards, proposals
<1>12. CASE UNCHANGED vars
  BY <1>1, <1>12 DEF vars, proposals
<1> QED
  BY <1>2, <1>3, <1>4, <1>5, <1>6, <1>7, <1>8, <1>9, <1>10, <1>11, <1>12 DEF Next, Block

-----------------------------------------------------------------------------
(* One vote per reputation.                                                 *)

\* voting_cindexes: ceremonies whose rewards are settled, and which do not
\* expire within the lifetime of the proposal.
LEMMA VotingRange ==
    ASSUME NEW i \in Nat \ {0}, NEW k \in VotingCindexes(i)
    PROVE  /\ k \in Nat
           /\ k + 2 <= i
           /\ i + LifetimeCycles <= k + ReputationLifetime
<1>1. LifetimeCycles \in Nat \ {0} /\ ReputationLifetime \in Nat
  BY LifetimeCyclesType, DemocracyAssumption
<1>2. k \in SatSub(i, ReputationLifetime) + LifetimeCycles .. SatSub(i, 2)
  BY DEF VotingCindexes
<1> QED BY <1>1, <1>2 DEF SatSub

\* The votes that are counted are those cast.  A reputation that has voted is
\* of a ceremony that is over for good, and is committed to the purpose of the
\* proposal for as long as it exists.
VotesInv ==
    /\ Tallies \in [ProposalId -> [turnout : Nat, ayes : Nat]]
    /\ DOMAIN PurposeIds = ProposalId
    /\ Commitments = [cc \in Ceremony |-> Commitments[cc]]
    /\ cast \in [ProposalId -> SUBSET (Ceremony \X Account)]
    /\ \A p \in ProposalId : IsFiniteSet(cast[p])
    /\ \A p \in ProposalId : p > ProposalCount => cast[p] = {}
    /\ \A p \in ProposalId : \A v \in cast[p] :
         /\ v[1][2] + 2 <= CurrentCeremonyIndex
         /\ <<PurposeIds[p], v[2]>> \in Commitments[v[1]] \/ v[2] \notin Verified[v[1]]
    /\ OneVotePerReputation

LEMMA VotesInit == Init => VotesInv
<1> SUFFICES ASSUME Init PROVE VotesInv
  OBVIOUS
<1>1. Cardinality({}) = 0 /\ IsFiniteSet({})
  BY FS_EmptySet
<1> QED BY <1>1 DEF Init, VotesInv, OneVotePerReputation, NoVotes

\* Commitments are forgotten only together with the reputation.
CommitmentsKept ==
    /\ Commitments' = [cc \in Ceremony |-> Commitments'[cc]]
    /\ \A cc \in Ceremony : Commitments[cc] \subseteq Commitments'[cc] \/ Verified'[cc] = {}

\* A step that casts no vote keeps the votes.
LEMMA NoVoteKeeps ==
    ASSUME ClockInv, ReputationInv, ProposalsInv, VotesInv, [Next]_vars, CommitmentsKept,
           cast' = cast, Tallies' = Tallies, PurposeIds' = PurposeIds, ProposalCount' = ProposalCount
    PROVE  VotesInv'
<1>1. Settled
  BY ReputationStep
<1>2. CurrentCeremonyIndex \in Nat /\ CurrentCeremonyIndex' \in Nat /\ CurrentCeremonyIndex <= CurrentCeremonyIndex'
  BY ClockStep
<1>3. ASSUME NEW p \in ProposalId, NEW v \in cast[p]
      PROVE  /\ v[1][2] + 2 <= CurrentCeremonyIndex'
             /\ <<PurposeIds[p], v[2]>> \in Commitments'[v[1]] \/ v[2] \notin Verified'[v[1]]
  <2>1. /\ v[1] \in Ceremony
        /\ v[1][2] + 2 <= CurrentCeremonyIndex
        /\ <<PurposeIds[p], v[2]>> \in Commitments[v[1]] \/ v[2] \notin Verified[v[1]]
    BY DEF VotesInv
  <2>2. v[1][2] \in Int
    BY <2>1 DEF Ceremony, Index
  <2>3. Verified'[v[1]] \subseteq Verified[v[1]]
    BY <1>1, <2>1 DEF Settled
  <2>4. v[1][2] + 2 <= CurrentCeremonyIndex'
    BY <1>2, <2>1, <2>2
  <2> QED BY <2>1, <2>3, <2>4 DEF CommitmentsKept
<1>4. Commitments' = [cc \in Ceremony |-> Commitments'[cc]]
  BY DEF CommitmentsKept
<1> QED BY <1>3, <1>4 DEF VotesInv, OneVotePerReputation

\* The votes of one account with different reputations are different.
LEMMA BallotSize ==
    ASSUME NEW S, IsFiniteSet(S), NEW a
    PROVE  /\ IsFiniteSet({<<x, a>> : x \in S})
           /\ Cardinality({<<x, a>> : x \in S}) = Cardinality(S)
<1> DEFINE T == {<<x, a>> : x \in S}
<1> DEFINE f == [x \in S |-> <<x, a>>]
<1>1. f \in [S -> T]
  OBVIOUS
<1>2. \A x, y \in S : f[x] = f[y] => x = y
  OBVIOUS
<1>3. \A t \in T : \E x \in S : f[x] = t
  OBVIOUS
<1> HIDE DEF f, T
<1>4. f \in Bijection(S, T)
  BY <1>1, <1>2, <1>3 DEF Bijection, Injection, Surjection, IsInjective
<1>5. ExistsBijection(S, T)
  BY <1>4 DEF ExistsBijection
<1>6. IsFiniteSet(T) /\ Cardinality(T) = Cardinality(S)
  BY <1>5, FS_Bijection
<1> QED BY <1>6 DEF T

\* vote: what is eligible has not voted on the proposal before.
LEMMA VoteCounts ==
    ASSUME ClockInv, ReputationInv, ProposalsInv, VotesInv, [Next]_vars,
           NEW p \in 1 .. ProposalCount, NEW a \in Account, NEW aye \in BOOLEAN,
           NEW ballot \in Ballots, vote(a, p, aye, ballot)
    PROVE  VotesInv'
<1> DEFINE E == Eligible(a, p, ballot)
<1> DEFINE n == Cardinality(E)
<1> DEFINE new == {<<cc, a>> : cc \in E}
<1>1. /\ Tallies' = [Tallies EXCEPT ![p] = [turnout |-> Tallies[p].turnout + n,
                                            ayes |-> Tallies[p].ayes + IF aye THEN n ELSE 0]]
      /\ Commitments' = [cc \in Ceremony |-> IF cc \in E THEN Commitments[cc] \cup {<<PurposeIds[p], a>>}
                                             ELSE Commitments[cc]]
      /\ cast' = [cast EXCEPT ![p] = @ \cup new]
      /\ PurposeIds' = PurposeIds /\ ProposalCount' = ProposalCount
      /\ UNCHANGED <<clock, reputation>>
  BY DEF vote
<1>2. p \in ProposalId /\ ProposalCount \in Nat
  BY DemocracyAssumption DEF ProposalsInv, ProposalId
<1>3. \A cc \in E : /\ cc \in Ceremony
                    /\ cc \in ballot
                    /\ cc[2] \in VotingCindexes(Proposals[p].start_cindex)
                    /\ a \in Verified[cc]
                    /\ <<PurposeIds[p], a>> \notin Commitments[cc]
  BY HistoryAssumption DEF Eligible, Committing
<1>4. IsFiniteSet(E) /\ n \in Nat
  <2>1. E \in SUBSET ballot /\ IsFiniteSet(ballot)
    BY HistoryAssumption DEF Eligible
  <2>2. IsFiniteSet(E)
    BY <2>1, FS_Subset
  <2> QED BY <2>2, FS_CardinalityType
<1> HIDE DEF E
<1>5. IsFiniteSet(new) /\ Cardinality(new) = n
  BY <1>4, BallotSize
<1>6. new \in SUBSET (Ceremony \X Account)
  BY <1>3
<1>7. \A cc \in E : cc[2] + 2 <= CurrentCeremonyIndex
  <2>1. /\ Proposals[p].start \in Nat /\ Now \in Nat /\ Proposals[p].start <= Now
        /\ Proposals[p].start_cindex = IndexAt(Proposals[p].start)
    BY DemocracyAssumption DEF ProposalsInv, ClockInv
  <2> DEFINE i == Proposals[p].start_cindex
  <2>2. i \in Nat \ {0} /\ i <= CurrentCeremonyIndex /\ CurrentCeremonyIndex \in Nat
    BY <2>1, IndexAtType DEF ClockInv
  <2> HIDE DEF i
  <2> TAKE cc \in E
  <2>3. cc[2] \in VotingCindexes(i)
    BY <1>3 DEF i
  <2>4. cc[2] \in Nat /\ cc[2] + 2 <= i
    BY <2>2, <2>3, VotingRange
  <2> QED BY <2>2, <2>4
<1>8. cast[p] \cap new = {}
  <2> SUFFICES ASSUME NEW v \in cast[p], v \in new PROVE FALSE
    OBVIOUS
  <2>1. PICK cc \in E : v = <<cc, a>>
    OBVIOUS
  <2>2. <<PurposeIds[p], a>> \in Commitments[cc] \/ a \notin Verified[cc]
    BY <2>1, <1>2 DEF VotesInv
  <2> QED BY <2>2, <1>3
<1> HIDE DEF new, n
<1>9. \A q \in ProposalId : cast'[q] = IF q = p THEN cast[p] \cup new ELSE cast[q]
  BY <1>1, <1>2 DEF VotesInv
<1>10. cast' \in [ProposalId -> SUBSET (Ceremony \X Account)]
  BY <1>1, <1>2, <1>6 DEF VotesInv
<1>11. \A q \in ProposalId : Tallies'[q] = IF q = p THEN [turnout |-> Tallies[p].turnout + n,
                                            ayes |-> Tallies[p].ayes + IF aye THEN n ELSE 0] ELSE Tallies[q]
  BY <1>1, <1>2 DEF VotesInv
<1>12. Tallies' \in [ProposalId -> [turnout : Nat, ayes : Nat]]
  <2>1. Tallies[p] \in [turnout : Nat, ayes : Nat]
    BY <1>2 DEF VotesInv
  <2>2. [turnout |-> Tallies[p].turnout + n,
         ayes |-> Tallies[p].ayes + IF aye THEN n ELSE 0] \in [turnout : Nat, ayes : Nat]
    BY <2>1, <1>4
  <2> QED BY <2>2, <1>1 DEF VotesInv
<1>13. \A q \in ProposalId : IsFiniteSet(cast'[q])
  <2>1. IsFiniteSet(cast[p] \cup new)
    BY <1>2, <1>5, FS_Union DEF VotesInv
  <2> QED BY <2>1, <1>9 DEF VotesInv
<1>14. OneVotePerReputation'
  <2> SUFFICES ASSUME NEW q \in ProposalId PROVE Tallies'[q].turnout = Cardinality(cast'[q])
    BY DEF OneVotePerReputation
  <2>1. CASE q = p
    <3>1. Cardinality(cast[p] \cup new) = Cardinality(cast[p]) + Cardinality(new) - Cardinality(cast[p] \cap new)
      BY <1>2, <1>5, FS_Union DEF VotesInv
    <3>2. Cardinality(cast[p] \cap new) = 0
      BY <1>8, FS_EmptySet
    <3>3. Tallies[p].turnout = Cardinality(cast[p]) /\ Tallies[p].turnout \in Nat
      BY <1>2 DEF VotesInv, OneVotePerReputation
    <3>4. Cardinality(cast[p] \cup new) = Tallies[p].turnout + n
      BY <3>1, <3>2, <3>3, <1>4, <1>5
    <3>5. Tallies'[q].turnout = Tallies[p].turnout + n /\ cast'[q] = cast[p] \cup new
      BY <2>1, <1>9, <1>11
    <3> QED BY <3>4, <3>5
  <2>2. CASE q # p
    BY <2>2, <1>9, <1>11 DEF VotesInv, OneVotePerReputation
  <2> QED BY <2>1, <2>2
<1>15. \A q \in ProposalId : q > ProposalCount' => cast'[q] = {}
  BY <1>1, <1>2, <1>9 DEF VotesInv
<1>16. ASSUME NEW q \in ProposalId, NEW v \in cast'[q]
       PROVE  /\ v[1][2] + 2 <= CurrentCeremonyIndex'
              /\ <<PurposeIds'[q], v[2]>> \in Commitments'[v[1]] \/ v[2] \notin Verified'[v[1]]
  <2>1. UNCHANGED <<CurrentCeremonyIndex, Verified>>
    BY <1>1 DEF clock, reputation
  <2>2. CASE v \in cast[q]
    <3>0. v \in Ceremony \X Account
      BY <2>2 DEF VotesInv
    <3>1. /\ v[1] \in Ceremony
          /\ v[1][2] + 2 <= CurrentCeremonyIndex
          /\ <<PurposeIds[q], v[2]>> \in Commitments[v[1]] \/ v[2] \notin Verified[v[1]]
      <4>1. \A x \in cast[q] : /\ x[1][2] + 2 <= CurrentCeremonyIndex
                               /\ <<PurposeIds[q], x[2]>> \in Commitments[x[1]] \/ x[2] \notin Verified[x[1]]
        BY DEF VotesInv
      <4> QED BY <2>2, <3>0, <4>1
    <3>2. Commitments[v[1]] \subseteq Commitments'[v[1]]
      BY <1>1, <3>1
    <3> QED BY <2>1, <3>1, <3>2, <1>1
  <2>3. CASE q = p /\ v \in new
    <3>1. PICK cc \in E : v = <<cc, a>>
      BY <2>3 DEF new
    <3>2. cc \in Ceremony /\ cc[2] + 2 <= CurrentCeremonyIndex
      BY <1>3, <1>7
    <3>3. <<PurposeIds[p], a>> \in Commitments'[cc]
      BY <1>1, <3>2
    <3> QED BY <2>1, <2>3, <3>1, <3>2, <3>3, <1>1
  <2> QED BY <2>2, <2>3, <1>9
<1>17. DOMAIN PurposeIds' = ProposalId /\ Commitments' = [cc \in Ceremony |-> Commitments'[cc]]
  BY <1>1 DEF VotesInv
<1> QED BY <1>10, <1>12, <1>13, <1>14, <1>15, <1>16, <1>17 DEF VotesInv

\* submit_proposal: nobody has voted on a new proposal.
LEMMA SubmitVotes ==
    ASSUME ClockInv, ReputationInv, ProposalsInv, VotesInv, NEW action \in Actions,
           submit_proposal(action)
    PROVE  VotesInv'
<1> DEFINE q == ProposalCount + 1
<1>1. /\ ProposalCount' = q
      /\ PurposeIds' = [PurposeIds EXCEPT ![q] = CurrentPurposeId]
      /\ Tallies' = [Tallies EXCEPT ![q] = NoVotes]
      /\ cast' = cast /\ Commitments' = Commitments
      /\ UNCHANGED <<CurrentCeremonyIndex, Verified>>
  BY DEF submit_proposal, clock, reputation
<1>2. q \in ProposalId /\ ProposalCount \in Nat /\ \A p \in ProposalId : p \in Nat
  BY SubmitKept DEF ProposalsInv, ProposalId
<1>3. cast[q] = {}
  BY <1>2 DEF VotesInv
<1>4. \A p \in ProposalId : p # q => PurposeIds'[p] = PurposeIds[p] /\ Tallies'[p] = Tallies[p]
  BY <1>1 DEF VotesInv
<1>5. Tallies'[q].turnout = 0 /\ Tallies' \in [ProposalId -> [turnout : Nat, ayes : Nat]]
  BY <1>1, <1>2 DEF VotesInv, NoVotes
<1>6. Cardinality(cast[q]) = 0
  BY <1>3, FS_EmptySet
<1> HIDE DEF q
<1>7. OneVotePerReputation'
  BY <1>1, <1>4, <1>5, <1>6 DEF VotesInv, OneVotePerReputation
<1>8. \A p \in ProposalId : p > ProposalCount' => cast'[p] = {}
  BY <1>1, <1>2 DEF VotesInv, q
<1>9. \A p \in ProposalId : \A v \in cast'[p] :
         /\ v[1][2] + 2 <= CurrentCeremonyIndex'
         /\ <<PurposeIds'[p], v[2]>> \in Commitments'[v[1]] \/ v[2] \notin Verified'[v[1]]
  BY <1>1, <1>3, <1>4 DEF VotesInv
<1>10. DOMAIN PurposeIds' = ProposalId
  BY <1>1 DEF VotesInv
<1> QED BY <1>1, <1>5, <1>7, <1>8, <1>9, <1>10 DEF VotesInv

\* Every step keeps the votes.
LEMMA VotesStep ==
    ASSUME ClockInv, ReputationInv, ProposalsInv, VotesInv, [Next]_vars
    PROVE  VotesInv'
<1> DEFINE noVote == cast' = cast /\ Tallies' = Tallies /\ PurposeIds' = PurposeIds
                     /\ ProposalCount' = ProposalCount
<1>1. ASSUME Commitments' = Commitments PROVE CommitmentsKept
  BY <1>1 DEF CommitmentsKept, VotesInv
<1>2. ASSUME NEW action \in Actions, submit_proposal(action) PROVE VotesInv'
  BY <1>2, SubmitVotes
<1>3. ASSUME NEW p \in 1 .. ProposalCount, update_proposal_state(p) PROVE VotesInv'
  <2>1. noVote /\ Commitments' = Commitments
    BY <1>3 DEF update_proposal_state, commitments, history
  <2> QED BY <2>1, <1>1, NoVoteKeeps
<1>4. ASSUME NEW p \in 1 .. ProposalCount, NEW a \in Account, NEW aye \in BOOLEAN,
             NEW ballot \in Ballots, vote(a, p, aye, ballot)
      PROVE  VotesInv'
  BY <1>4, VoteCounts
<1>5. CASE EnterAssigning
  <2>1. noVote /\ Commitments' = Commitments
    BY <1>5 DEF EnterAssigning, commitments
  <2> QED BY <2>1, <1>1, NoVoteKeeps
<1>6. CASE QuietBlock
  <2>1. noVote /\ Commitments' = Commitments
    BY <1>6 DEF QuietBlock, commitments, proposals
  <2> QED BY <2>1, <1>1, NoVoteKeeps
<1>7. CASE EnterAttesting
  <2>1. noVote /\ Commitments' = Commitments
    BY <1>7 DEF EnterAttesting, commitments, proposals
  <2> QED BY <2>1, <1>1, NoVoteKeeps
<1>8. CASE EnterRegistering
  <2> DEFINE ccs == Expired(CurrentCeremonyIndex + 1)
  <2>1. noVote /\ Purge(ccs)
        /\ Commitments' = [cc \in Ceremony |-> IF cc \in ccs THEN {} ELSE Commitments[cc]]
    BY <1>8 DEF EnterRegistering, proposals, Forgotten
  <2>2. CommitmentsKept
    BY <2>1 DEF CommitmentsKept, Purge
  <2> QED BY <2>1, <2>2, NoVoteKeeps
<1>9. CASE register_purpose
  <2>1. noVote /\ Commitments' = Commitments
    BY <1>9 DEF register_purpose, proposals, history
  <2> QED BY <2>1, <1>1, NoVoteKeeps
<1>10. ASSUME NEW held \in Committable, commit_reputation(held[1], held[2], held[3])
       PROVE  VotesInv'
  <2>1. noVote /\ Commitments' = [Commitments EXCEPT ![held[2]] = @ \cup {<<held[3], held[1]>>}]
    BY <1>10 DEF commit_reputation, proposals, history
  <2>2. DOMAIN Commitments = Ceremony
    BY DEF VotesInv
  <2>3. CommitmentsKept
    BY <2>1, <2>2 DEF CommitmentsKept
  <2> QED BY <2>1, <2>3, NoVoteKeeps
<1>11. ASSUME NEW cid \in Community, NEW participants \in Meetups[cid],
              issue_rewards(cid, participants)
       PROVE  VotesInv'
  <2>1. noVote /\ Commitments' = Commitments
    BY <1>11 DEF issue_rewards, commitments, proposals, history
  <2> QED BY <2>1, <1>1, NoVoteKeeps
<1>12. CASE UNCHANGED vars
  <2>1. noVote /\ Commitments' = Commitments
    BY <1>12 DEF vars, commitments, proposals, history
  <2> QED BY <2>1, <1>1, NoVoteKeeps
<1> QED
  BY <1>2, <1>3, <1>4, <1>5, <1>6, <1>7, <1>8, <1>9, <1>10, <1>11, <1>12 DEF Next, Block

\* The invariants so far, together.
BaseInv == ClockInv /\ ReputationInv /\ ProposalsInv /\ VotesInv

LEMMA BaseHolds == Spec => []BaseInv
<1>1. Init => BaseInv
  BY ClockInit, ReputationInit, ProposalsInit, VotesInit DEF BaseInv
<1>2. BaseInv /\ [Next]_vars => BaseInv'
  BY ClockStep, ReputationStep, ProposalsStep, VotesStep DEF BaseInv
<1> QED BY <1>1, <1>2, PTL DEF Spec

\* The turnout of a proposal is the number of different reputations that have
\* voted on it: none counts twice, whatever is purged, rewarded or committed
\* elsewhere between two votes.
THEOREM OneVoteEach == Spec => []OneVotePerReputation
<1>1. BaseInv => OneVotePerReputation
  BY DEF BaseInv, VotesInv
<1> QED BY <1>1, BaseHolds, PTL

-----------------------------------------------------------------------------
(* The electorate.                                                          *)

\* The indices of the model are numbers.
LEMMA MaxIndexType == MaxIndex \in Nat
<1>1. MaxNow \div CycleDuration \in Nat
  BY Durations, DemocracyAssumption, Division
<1> QED BY <1>1, DemocracyAssumption DEF MaxIndex

\* The ceremonies that count for a proposal are of the past of the model.
LEMMA VotingInIndex ==
    ASSUME NEW t \in 0 .. MaxNow
    PROVE  /\ VotingCindexes(IndexAt(t)) \subseteq Index
           /\ IsFiniteSet(VotingCindexes(IndexAt(t)))
<1> DEFINE i == IndexAt(t)
<1>1. i \in Nat \ {0} /\ i \in Index
  BY IndexAtType, DemocracyAssumption
<1> HIDE DEF i
<1>2. VotingCindexes(i) \subseteq Index
  <2> SUFFICES ASSUME NEW k \in VotingCindexes(i) PROVE k \in Index
    OBVIOUS
  <2>1. k \in Nat /\ k + 2 <= i
    BY <1>1, VotingRange
  <2>2. MaxIndex \in Nat
    BY MaxIndexType
  <2> QED BY <2>1, <2>2, <1>1 DEF Index
<1>3. IsFiniteSet(VotingCindexes(i))
  <2>1. LifetimeCycles \in Nat /\ ReputationLifetime \in Nat
    BY LifetimeCyclesType, DemocracyAssumption
  <2>2. SatSub(i, ReputationLifetime) + LifetimeCycles \in Int /\ SatSub(i, 2) \in Int
    BY <2>1, <1>1 DEF SatSub
  <2> QED BY <2>2, FS_Interval DEF VotingCindexes
<1> QED BY <1>2, <1>3 DEF i

\* Only submit_proposal adds a proposal.
LEMMA NewProposal ==
    ASSUME [Next]_vars, ProposalCount' # ProposalCount
    PROVE  \E action \in Actions : submit_proposal(action)
<1>1. \A p \in 1 .. ProposalCount : ~ update_proposal_state(p)
  BY DEF update_proposal_state
<1>2. \A p \in 1 .. ProposalCount, a \in Account, aye \in BOOLEAN, ballot \in Ballots :
        ~ vote(a, p, aye, ballot)
  BY DEF vote
<1>3. ~ register_purpose
  BY DEF register_purpose, proposals
<1>4. \A held \in Committable : ~ commit_reputation(held[1], held[2], held[3])
  BY DEF commit_reputation, proposals
<1>5. \A cid \in Community : \A participants \in Meetups[cid] : ~ issue_rewards(cid, participants)
  BY DEF issue_rewards, proposals
<1>6. ~ Block
  BY DEF Block, QuietBlock, EnterAssigning, EnterAttesting, EnterRegistering, proposals
<1>7. ~ UNCHANGED vars
  BY DEF vars, proposals
<1> QED BY <1>1, <1>2, <1>3, <1>4, <1>5, <1>6, <1>7 DEF Next

\* What a proposal of before knows of its past: it was submitted at most now,
\* and its index belongs to that moment.
LEMMA OldProposal ==
    ASSUME ClockInv, ProposalsInv, NEW p \in 1 .. ProposalCount
    PROVE  /\ Proposals[p].start \in 0 .. MaxNow /\ Proposals[p].start <= Now
           /\ Proposals[p].start_cindex = IndexAt(Proposals[p].start)
           /\ Proposals[p].start_cindex \in Nat \ {0}
           /\ Proposals[p].start_cindex <= CurrentCeremonyIndex
           /\ \A k \in VotingCindexes(Proposals[p].start_cindex) :
                k \in Index /\ k + 2 <= CurrentCeremonyIndex
<1> DEFINE t == Proposals[p].start
<1> DEFINE i == Proposals[p].start_cindex
<1>1. t \in 0 .. Now /\ i = IndexAt(t) /\ Now \in 0 .. MaxNow /\ CurrentCeremonyIndex = IndexAt(Now)
  BY DEF ProposalsInv, ClockInv
<1>2. MaxNow \in Nat
  BY DemocracyAssumption
<1> SUFFICES /\ t \in 0 .. MaxNow /\ t <= Now /\ i = IndexAt(t) /\ i \in Nat \ {0}
             /\ i <= CurrentCeremonyIndex
             /\ \A k \in VotingCindexes(i) : k \in Index /\ k + 2 <= CurrentCeremonyIndex
  OBVIOUS
<1> HIDE DEF t, i
<1>3. t \in 0 .. MaxNow /\ t <= Now /\ t \in Nat /\ Now \in Nat
  BY <1>1, <1>2
<1>4. i \in Nat \ {0} /\ i <= CurrentCeremonyIndex /\ CurrentCeremonyIndex \in Nat
  BY <1>1, <1>3, IndexAtType
<1>5. ASSUME NEW k \in VotingCindexes(i) PROVE k \in Index /\ k + 2 <= CurrentCeremonyIndex
  <2>1. k \in Index
    BY <1>1, <1>3, VotingInIndex
  <2>2. k \in Nat /\ k + 2 <= i
    BY <1>4, VotingRange
  <2> QED BY <2>1, <2>2, <1>4
<1> QED BY <1>1, <1>3, <1>4, <1>5

\* The number of those who have verified reputation, by ceremony.
Counts(V, cid) == [k \in Index |-> Cardinality(V[<<cid, k>>])]

\* What get_electorate counts for a community.
LEMMA ElectorateCounts ==
    ASSUME ClockInv, ReputationInv, NEW action, Policy(action) \in Community
    PROVE  Electorate(action, CurrentCeremonyIndex)
             = SumFunctionOnSet(Counts(Verified, Policy(action)), VotingCindexes(CurrentCeremonyIndex))
<1> DEFINE cid == Policy(action)
<1>1. cid # Global
  BY DemocracyAssumption
<1>2. \A k \in Index : ReputationCount[<<cid, k>>] = Cardinality(Verified[<<cid, k>>])
  BY DEF ReputationInv, Ceremony
<1>3. [k \in Index |-> ReputationCount[<<cid, k>>]] = Counts(Verified, cid)
  BY <1>2 DEF Counts
<1> QED BY <1>1, <1>3 DEF Electorate

\* As long as a proposal is not too old and its community exists, the
\* reputation that counts for it is neither lost nor gained.
LEMMA ElectorateKept ==
    ASSUME BaseInv, [Next]_vars, NEW p \in 1 .. ProposalCount,
           Policy(Proposals[p].action) \in CommunityIdentifiers',
           Now' - Proposals[p].start <= ProposalLifetime
    PROVE  SumFunctionOnSet(Counts(Verified', Policy(Proposals[p].action)), VotingCindexes(Proposals[p].start_cindex))
             = SumFunctionOnSet(Counts(Verified, Policy(Proposals[p].action)), VotingCindexes(Proposals[p].start_cindex))
<1> DEFINE cid == Policy(Proposals[p].action)
<1> DEFINE t == Proposals[p].start
<1> DEFINE i == Proposals[p].start_cindex
<1> DEFINE f == Counts(Verified, cid)
<1> DEFINE g == Counts(Verified', cid)
<1>1. ClockInv /\ ReputationInv /\ ProposalsInv /\ ClockInv'
  BY ClockStep DEF BaseInv
<1>2. /\ t \in 0 .. MaxNow /\ t <= Now /\ i = IndexAt(t) /\ i \in Nat \ {0}
      /\ \A k \in VotingCindexes(i) : k \in Index /\ k + 2 <= CurrentCeremonyIndex
  BY <1>1, OldProposal
<1>3. /\ Now' \in Nat /\ Now \in Nat /\ Now <= Now' /\ CurrentCeremonyIndex' \in Nat
      /\ CurrentCeremonyIndex' = IndexAt(Now')
  BY <1>1, ClockStep DEF ClockInv
<1>4. t \in Nat /\ t <= Now' /\ Now' - t <= ProposalLifetime
  BY <1>2, <1>3, DemocracyAssumption
<1>5. CurrentCeremonyIndex' <= i + LifetimeCycles
  BY <1>2, <1>3, <1>4, LifetimeInCycles
<1>6. Settled /\ cid \in CommunityIdentifiers'
  BY <1>1, ReputationStep
<1>7. cid \in Community
  BY <1>6, <1>1 DEF Settled, ReputationInv
<1>8. IsFiniteSet(VotingCindexes(i))
  BY <1>2, VotingInIndex
<1>9. ASSUME NEW k \in VotingCindexes(i)
      PROVE  k \in Index /\ g[k] = f[k] /\ f[k] \in Int
  <2>1. k \in Index /\ k + 2 <= CurrentCeremonyIndex /\ k \in Nat /\ i + LifetimeCycles <= k + ReputationLifetime
    BY <1>2, VotingRange
  <2>2. CurrentCeremonyIndex' <= k + ReputationLifetime
    BY <2>1, <1>2, <1>3, <1>5, LifetimeCyclesType, DemocracyAssumption
  <2>3. Verified'[<<cid, k>>] = Verified[<<cid, k>>]
    BY <2>1, <2>2, <1>6 DEF Settled
  <2>4. <<cid, k>> \in Ceremony
    BY <2>1, <1>7 DEF Ceremony
  <2>5. Cardinality(Verified[<<cid, k>>]) \in Int
    BY <2>4, <1>1, FiniteAccounts
  <2> QED BY <2>1, <2>3, <2>5 DEF Counts
<1> HIDE DEF f, g
<1>10. Summable(f, VotingCindexes(i)) /\ \A k \in VotingCindexes(i) : g[k] = f[k]
  BY <1>8, <1>9 DEF Summable
<1>11. SumFunctionOnSet(g, VotingCindexes(i)) = SumFunctionOnSet(f, VotingCindexes(i))
  BY <1>10, SumAgree
<1> QED BY <1>11 DEF f, g

LEMMA ElectorateStep ==
    ASSUME BaseInv, ElectorateConstant, [Next]_vars
    PROVE  ElectorateConstant'
<1>1. ClockInv /\ ReputationInv /\ ProposalsInv /\ ProposalsInv' /\ ProposalsKept /\ Settled
  BY ProposalsStep, ReputationStep DEF BaseInv
<1> SUFFICES ASSUME NEW p \in 1 .. ProposalCount',
                    Policy(Proposals'[p].action) \in CommunityIdentifiers',
                    Now' - Proposals'[p].start <= ProposalLifetime
             PROVE  Proposals'[p].electorate_size =
                      SumFunctionOnSet(Counts(Verified', Policy(Proposals'[p].action)),
                                       VotingCindexes(Proposals'[p].start_cindex))
  BY DEF ElectorateConstant, Counts
<1>2. CASE p \in 1 .. ProposalCount
  <2> DEFINE cid == Policy(Proposals[p].action)
  <2>1. SameProposal(Proposals[p], Proposals'[p])
    BY <1>1, <1>2 DEF ProposalsKept
  <2>2. /\ Proposals'[p].electorate_size = Proposals[p].electorate_size
        /\ Proposals'[p].action = Proposals[p].action
        /\ Proposals'[p].start = Proposals[p].start
        /\ Proposals'[p].start_cindex = Proposals[p].start_cindex
    BY <2>1 DEF SameProposal
  <2>3. cid \in CommunityIdentifiers' /\ Now' - Proposals[p].start <= ProposalLifetime
    BY <2>2
  <2>4. cid \in CommunityIdentifiers
    BY <2>3, <1>1 DEF Settled
  <2>5. Now - Proposals[p].start <= ProposalLifetime
    <3>1. Proposals[p].start \in 0 .. MaxNow /\ Now \in Nat /\ Now' \in Nat /\ Now <= Now'
      BY <1>1, <1>2, OldProposal, ClockStep
    <3> QED BY <3>1, <2>3, DemocracyAssumption
  <2>6. Proposals[p].electorate_size = SumFunctionOnSet(Counts(Verified, cid), VotingCindexes(Proposals[p].start_cindex))
    BY <1>2, <2>4, <2>5 DEF ElectorateConstant, Counts
  <2>7. SumFunctionOnSet(Counts(Verified', cid), VotingCindexes(Proposals[p].start_cindex))
          = SumFunctionOnSet(Counts(Verified, cid), VotingCindexes(Proposals[p].start_cindex))
    BY <1>2, <2>3, ElectorateKept
  <2>8. Counts(Verified', Policy(Proposals'[p].action)) = Counts(Verified', cid)
    BY <2>2 DEF Counts
  <2> QED BY <2>2, <2>6, <2>7, <2>8
<1>3. CASE p \notin 1 .. ProposalCount
  <2>1. ProposalCount' # ProposalCount
    BY <1>3
  <2>2. PICK action \in Actions : submit_proposal(action)
    BY <2>1, NewProposal
  <2>3. /\ ProposalCount' = ProposalCount + 1 /\ ProposalCount \in Nat
        /\ Proposals'[ProposalCount + 1].start_cindex = CurrentCeremonyIndex
        /\ Proposals'[ProposalCount + 1].action = action
        /\ Proposals'[ProposalCount + 1].electorate_size = Electorate(action, CurrentCeremonyIndex)
    BY <2>2, <1>1, SubmitKept DEF ProposalsInv
  <2>4. p = ProposalCount + 1
    BY <2>3, <1>3
  <2>5. Policy(action) \in Community
    BY <2>3, <2>4, <1>1 DEF Settled, ReputationInv
  <2>6. Electorate(action, CurrentCeremonyIndex)
          = SumFunctionOnSet(Counts(Verified, Policy(action)), VotingCindexes(CurrentCeremonyIndex))
    BY <2>5, <1>1, ElectorateCounts
  <2>7. Verified' = Verified
    BY <2>2 DEF submit_proposal, reputation
  <2>8. Counts(Verified', Policy(Proposals'[p].action)) = Counts(Verified, Policy(action))
    BY <2>3, <2>4, <2>7 DEF Counts
  <2> QED BY <2>3, <2>4, <2>6, <2>8
<1> QED BY <1>2, <1>3

\* For every proposal that is not too old and whose community exists, those
\* who may vote are exactly as many as were counted when it was submitted:
\* voting_cindexes leaves out what can still be rewarded and what expires
\* before the proposal does.
THEOREM ElectorateStaysConstant == Spec => []ElectorateConstant
<1>1. Init => ElectorateConstant
  BY DEF Init, ElectorateConstant
<1>2. BaseInv /\ ElectorateConstant /\ [Next]_vars => ElectorateConstant'
  BY ElectorateStep
<1> QED BY <1>1, <1>2, BaseHolds, PTL DEF Spec

-----------------------------------------------------------------------------
(* The turnout.                                                             *)

\* The reputations that may vote on a proposal about a community.
Voters(V, r) ==
    {v \in Ceremony \X Account : /\ v[1][1] = Policy(r.action)
                                 /\ v[1][2] \in VotingCindexes(r.start_cindex)
                                 /\ v[2] \in V[v[1]]}

\* Those who voted on a proposal about a community and those who may, taken
\* together, are not more than were counted when it was submitted.  Those who
\* voted need not be among those who may: their reputation can be purged.
TurnoutInv ==
    \A p \in 1 .. ProposalCount :
        Policy(Proposals[p].action) # Global =>
            LET all == cast[p] \cup Voters(Verified, Proposals[p])
            IN  /\ IsFiniteSet(all)
                /\ Proposals[p].electorate_size \in Nat
                /\ Cardinality(all) <= Proposals[p].electorate_size

\* Different accounts are different voters of a ceremony.
LEMMA AttendeesSize ==
    ASSUME NEW S, IsFiniteSet(S), NEW cc
    PROVE  /\ IsFiniteSet({<<cc, a>> : a \in S})
           /\ Cardinality({<<cc, a>> : a \in S}) = Cardinality(S)
<1> DEFINE T == {<<cc, a>> : a \in S}
<1> DEFINE f == [a \in S |-> <<cc, a>>]
<1>1. f \in [S -> T]
  OBVIOUS
<1>2. \A x, y \in S : f[x] = f[y] => x = y
  OBVIOUS
<1>3. \A t \in T : \E x \in S : f[x] = t
  OBVIOUS
<1> HIDE DEF f, T
<1>4. f \in Bijection(S, T)
  BY <1>1, <1>2, <1>3 DEF Bijection, Injection, Surjection, IsInjective
<1>5. ExistsBijection(S, T)
  BY <1>4 DEF ExistsBijection
<1>6. IsFiniteSet(T) /\ Cardinality(T) = Cardinality(S)
  BY <1>5, FS_Bijection
<1> QED BY <1>6 DEF T

\* get_electorate counts at least those who may vote, each for every ceremony
\* that they may vote with.
LEMMA VotersCounted ==
    ASSUME ClockInv, ReputationInv, NEW r, Policy(r.action) \in Community,
           r.start_cindex = CurrentCeremonyIndex
    PROVE  /\ Electorate(r.action, CurrentCeremonyIndex) \in Nat
           /\ IsFiniteSet(Voters(Verified, r))
           /\ Cardinality(Voters(Verified, r)) <= Electorate(r.action, CurrentCeremonyIndex)
<1> DEFINE cid == Policy(r.action)
<1> DEFINE P == Voters(Verified, r)
<1> DEFINE K == VotingCindexes(CurrentCeremonyIndex)
<1> DEFINE F == Counts(Verified, cid)
<1> DEFINE key == [v \in P |-> v[1][2]]
<1>1. K \subseteq Index /\ IsFiniteSet(K)
  BY VotingInIndex DEF ClockInv
<1>2. key \in [P -> K]
  BY DEF Voters
<1>3. ASSUME NEW k \in K
      PROVE  /\ F[k] \in Nat
             /\ IsFiniteSet({v \in P : key[v] = k})
             /\ Cardinality({v \in P : key[v] = k}) <= F[k]
  <2> DEFINE cc == <<cid, k>>
  <2>1. k \in Index /\ cc \in Ceremony
    BY <1>1 DEF Ceremony
  <2>2. F[k] = Cardinality(Verified[cc])
    BY <2>1 DEF Counts
  <2>3. IsFiniteSet(Verified[cc]) /\ Cardinality(Verified[cc]) \in Nat /\ Verified[cc] \subseteq Account
    BY <2>1, FiniteAccounts DEF ReputationInv
  <2>4. {v \in P : key[v] = k} = {<<cc, a>> : a \in Verified[cc]}
    <3>1. ASSUME NEW v \in P, v[1][2] = k PROVE v \in {<<cc, a>> : a \in Verified[cc]}
      <4>1. v \in Ceremony \X Account /\ v[1][1] = cid /\ v[2] \in Verified[v[1]]
        BY DEF Voters
      <4>2. v = <<v[1], v[2]>> /\ v[1] = <<v[1][1], v[1][2]>>
        BY <4>1 DEF Ceremony
      <4> QED BY <4>1, <4>2, <3>1
    <3>2. ASSUME NEW a \in Verified[cc] PROVE <<cc, a>> \in P /\ <<cc, a>>[1][2] = k
      BY <2>1, <2>3 DEF Voters
    <3> QED BY <3>1, <3>2
  <2>5. /\ IsFiniteSet({<<cc, a>> : a \in Verified[cc]})
        /\ Cardinality({<<cc, a>> : a \in Verified[cc]}) = Cardinality(Verified[cc])
    BY <2>3, AttendeesSize
  <2>6. Cardinality({<<cc, a>> : a \in Verified[cc]}) <= Cardinality(Verified[cc])
    BY <2>3, <2>5
  <2> HIDE DEF F, P, key, cc
  <2> QED BY <2>2, <2>3, <2>4, <2>5, <2>6, Zenon
<1>4. Electorate(r.action, CurrentCeremonyIndex) = SumFunctionOnSet(F, K)
  BY ElectorateCounts
<1> HIDE DEF P, K, F, key
<1>5. IsFiniteSet(P) /\ Cardinality(P) <= SumFunctionOnSet(F, K)
  BY <1>1, <1>2, <1>3, SumOfFibers
<1>6. SumFunctionOnSet(F, K) \in Nat
  BY <1>1, <1>3, SumNatural
<1> QED BY <1>4, <1>5, <1>6 DEF P

\* Only those who may vote do.
LEMMA NewVotes ==
    ASSUME BaseInv, [Next]_vars, NEW p \in 1 .. ProposalCount, Policy(Proposals[p].action) # Global
    PROVE  cast'[p] \subseteq cast[p] \cup Voters(Verified, Proposals[p])
<1> DEFINE Goal == cast'[p] \subseteq cast[p] \cup Voters(Verified, Proposals[p])
<1>1. ASSUME cast' = cast PROVE Goal
  BY <1>1
<1>2. ASSUME NEW action \in Actions, submit_proposal(action) PROVE Goal
  BY <1>1, <1>2 DEF submit_proposal
<1>3. ASSUME NEW q \in 1 .. ProposalCount, update_proposal_state(q) PROVE Goal
  BY <1>1, <1>3 DEF update_proposal_state, history
<1>4. ASSUME NEW q \in 1 .. ProposalCount, NEW a \in Account, NEW aye \in BOOLEAN, NEW ballot \in Ballots,
             vote(a, q, aye, ballot)
      PROVE  Goal
  <2>1. cast' = [cast EXCEPT ![q] = @ \cup {<<cc, a>> : cc \in Eligible(a, q, ballot)}]
    BY <1>4 DEF vote
  <2>2. p \in ProposalId /\ q \in ProposalId /\ DOMAIN cast = ProposalId
    BY DemocracyAssumption DEF BaseInv, ProposalsInv, VotesInv, ProposalId
  <2>3. ASSUME NEW cc \in Eligible(a, p, ballot) PROVE <<cc, a>> \in Voters(Verified, Proposals[p])
    <3>1. /\ cc \in Ceremony /\ cc[2] \in VotingCindexes(Proposals[p].start_cindex)
          /\ Policy(Proposals[p].action) = cc[1] /\ a \in Verified[cc]
      BY <2>3, HistoryAssumption DEF Eligible, Committing
    <3> QED BY <3>1 DEF Voters
  <2>4. CASE p = q
    BY <2>1, <2>2, <2>3, <2>4
  <2>5. CASE p # q
    BY <2>1, <2>2, <2>5
  <2> QED BY <2>4, <2>5
<1>5. ASSUME Block PROVE Goal
  BY <1>1, <1>5 DEF Block, QuietBlock, EnterAssigning, EnterAttesting, EnterRegistering
<1>6. ASSUME register_purpose PROVE Goal
  BY <1>1, <1>6 DEF register_purpose, history
<1>7. ASSUME NEW held \in Committable, commit_reputation(held[1], held[2], held[3]) PROVE Goal
  BY <1>1, <1>7 DEF commit_reputation, history
<1>8. ASSUME NEW cid \in Community, NEW participants \in Meetups[cid], issue_rewards(cid, participants)
      PROVE  Goal
  BY <1>1, <1>8 DEF issue_rewards, history
<1>9. ASSUME UNCHANGED vars PROVE Goal
  BY <1>1, <1>9 DEF vars, history
<1> HIDE DEF Goal
<1>10. Goal
  BY <1>2, <1>3, <1>4, <1>5, <1>6, <1>7, <1>8, <1>9 DEF Next
<1> QED BY <1>10 DEF Goal

\* Every step keeps the turnout within the electorate.
LEMMA TurnoutStep ==
    ASSUME BaseInv, TurnoutInv, [Next]_vars
    PROVE  TurnoutInv'
<1>1. /\ ClockInv /\ ReputationInv /\ ProposalsInv /\ VotesInv
      /\ ProposalsInv' /\ ProposalsKept /\ Settled
  BY ProposalsStep, ReputationStep DEF BaseInv
<1> DEFINE all(p) == cast'[p] \cup Voters(Verified', Proposals'[p])
<1> SUFFICES ASSUME NEW p \in 1 .. ProposalCount', Policy(Proposals'[p].action) # Global
             PROVE  /\ IsFiniteSet(all(p))
                    /\ Proposals'[p].electorate_size \in Nat
                    /\ Cardinality(all(p)) <= Proposals'[p].electorate_size
  BY DEF TurnoutInv, Voters
<1>2. CASE p \in 1 .. ProposalCount
  <2> DEFINE old == cast[p] \cup Voters(Verified, Proposals[p])
  <2>1. SameProposal(Proposals[p], Proposals'[p])
    BY <1>1, <1>2 DEF ProposalsKept
  <2>2. /\ Proposals'[p].electorate_size = Proposals[p].electorate_size
        /\ Proposals'[p].action = Proposals[p].action
        /\ Proposals'[p].start_cindex = Proposals[p].start_cindex
    BY <2>1 DEF SameProposal
  <2>3. /\ IsFiniteSet(old) /\ Proposals[p].electorate_size \in Nat
        /\ Cardinality(old) <= Proposals[p].electorate_size
    BY <1>2, <2>2 DEF TurnoutInv
  <2>4. \A k \in VotingCindexes(Proposals[p].start_cindex) : k + 2 <= CurrentCeremonyIndex
    BY <1>1, <1>2, OldProposal
  <2>5. Voters(Verified', Proposals'[p]) \subseteq Voters(Verified, Proposals[p])
    <3> SUFFICES ASSUME NEW v \in Voters(Verified', Proposals'[p])
                 PROVE  v \in Voters(Verified, Proposals[p])
      OBVIOUS
    <3>1. /\ v \in Ceremony \X Account /\ v[1][1] = Policy(Proposals[p].action)
          /\ v[1][2] \in VotingCindexes(Proposals[p].start_cindex) /\ v[2] \in Verified'[v[1]]
      BY <2>2 DEF Voters
    <3>2. v[1] \in Ceremony /\ v[1][2] + 2 <= CurrentCeremonyIndex
      BY <3>1, <2>4
    <3>3. v[2] \in Verified[v[1]]
      BY <3>1, <3>2, <1>1 DEF Settled
    <3> QED BY <3>1, <3>3 DEF Voters
  <2>6. cast'[p] \subseteq old
    BY <1>2, <2>2, NewVotes
  <2>7. all(p) \subseteq old
    BY <2>5, <2>6
  <2> HIDE DEF all, old
  <2>8. IsFiniteSet(all(p)) /\ Cardinality(all(p)) <= Cardinality(old)
    BY <2>3, <2>7, FS_Subset
  <2>9. Cardinality(all(p)) \in Nat /\ Cardinality(old) \in Nat
    BY <2>3, <2>8, FS_CardinalityType
  <2> QED BY <2>2, <2>3, <2>8, <2>9
<1>3. CASE p \notin 1 .. ProposalCount
  <2>1. ProposalCount' # ProposalCount
    BY <1>3
  <2>2. PICK action \in Actions : submit_proposal(action)
    BY <2>1, NewProposal
  <2>3. /\ ProposalCount' = ProposalCount + 1 /\ ProposalCount \in Nat
        /\ ProposalCount + 1 \in ProposalId
        /\ Proposals'[ProposalCount + 1].start_cindex = CurrentCeremonyIndex
        /\ Proposals'[ProposalCount + 1].action = action
        /\ Proposals'[ProposalCount + 1].electorate_size = Electorate(action, CurrentCeremonyIndex)
    BY <2>2, <1>1, SubmitKept DEF ProposalsInv
  <2>4. p = ProposalCount + 1
    BY <2>3, <1>3
  <2>5. Policy(action) \in Community
    <3>1. action \in ProposalActionIdentifier /\ action[2] # Global
      BY <2>3, <2>4, DemocracyAssumption DEF Policy
    <3> QED BY <3>1 DEF ProposalActionIdentifier, Policy
  <2>6. cast'[p] = {} /\ Verified' = Verified
    <3>1. cast' = cast /\ Verified' = Verified
      BY <2>2 DEF submit_proposal, reputation
    <3>2. p \in ProposalId /\ p > ProposalCount
      BY <2>3, <2>4
    <3>3. cast[p] = {}
      BY <3>2, <1>1 DEF VotesInv
    <3> QED BY <3>1, <3>3
  <2> DEFINE r == Proposals'[p]
  <2>7. r.action = action /\ r.start_cindex = CurrentCeremonyIndex
        /\ r.electorate_size = Electorate(action, CurrentCeremonyIndex)
    BY <2>3, <2>4
  <2>8. all(p) = Voters(Verified, r)
    BY <2>6
  <2> HIDE DEF r, all
  <2>9. /\ Electorate(r.action, CurrentCeremonyIndex) \in Nat
        /\ IsFiniteSet(Voters(Verified, r))
        /\ Cardinality(Voters(Verified, r)) <= Electorate(r.action, CurrentCeremonyIndex)
    BY <2>5, <2>7, <1>1, VotersCounted
  <2> QED BY <2>7, <2>8, <2>9 DEF r
<1> QED BY <1>2, <1>3

LEMMA TurnoutHolds == Spec => []TurnoutInv
<1>1. Init => TurnoutInv
  BY DEF Init, TurnoutInv
<1>2. BaseInv /\ TurnoutInv /\ [Next]_vars => TurnoutInv'
  BY TurnoutStep
<1> QED BY <1>1, <1>2, BaseHolds, PTL DEF Spec

\* No proposal about a community has more votes than its electorate, whatever
\* is rewarded, purged or expires while it is voted on.
THEOREM NoMoreVotesThanVoters ==
    Spec => [](\A p \in 1 .. ProposalCount :
                 Policy(Proposals[p].action) # Global
                 => Tallies[p].turnout <= Proposals[p].electorate_size)
<1>1. ASSUME BaseInv, TurnoutInv, NEW p \in 1 .. ProposalCount, Policy(Proposals[p].action) # Global
      PROVE  Tallies[p].turnout <= Proposals[p].electorate_size
  <2> DEFINE all == cast[p] \cup Voters(Verified, Proposals[p])
  <2>1. p \in ProposalId
    BY <1>1, DemocracyAssumption DEF BaseInv, ProposalsInv, ProposalId
  <2>2. /\ IsFiniteSet(all) /\ Proposals[p].electorate_size \in Nat
        /\ Cardinality(all) <= Proposals[p].electorate_size
    BY <1>1 DEF TurnoutInv
  <2>3. Tallies[p].turnout = Cardinality(cast[p])
    BY <1>1, <2>1 DEF BaseInv, VotesInv, OneVotePerReputation
  <2>4. cast[p] \subseteq all
    OBVIOUS
  <2> HIDE DEF all
  <2>5. IsFiniteSet(cast[p]) /\ Cardinality(cast[p]) <= Cardinality(all)
    BY <2>2, <2>4, FS_Subset
  <2>6. Cardinality(cast[p]) \in Nat /\ Cardinality(all) \in Nat
    BY <2>2, <2>5, FS_CardinalityType
  <2> QED BY <2>2, <2>3, <2>5, <2>6
<1>2. BaseInv /\ TurnoutInv =>
        \A p \in 1 .. ProposalCount : Policy(Proposals[p].action) # Global
                                      => Tallies[p].turnout <= Proposals[p].electorate_size
  BY <1>1
<1> QED BY <1>2, BaseHolds, TurnoutHolds, PTL

\* Where every proposal is about a community, no proposal has more votes than
\* its electorate.  (A global proposal can: purge_community_ceremony_internal
\* takes the global count of a ceremony away with any community's part of it.)
THEOREM TurnoutStaysWithin ==
    ASSUME \A action \in Actions : Policy(action) # Global
    PROVE  Spec => []TurnoutWithinElectorate
<1>1. BaseInv /\ (\A p \in 1 .. ProposalCount :
                    Policy(Proposals[p].action) # Global
                    => Tallies[p].turnout <= Proposals[p].electorate_size)
      => TurnoutWithinElectorate
  BY DEF BaseInv, ProposalsInv, TurnoutWithinElectorate
<1> QED BY <1>1, BaseHolds, NoMoreVotesThanVoters, PTL

-----------------------------------------------------------------------------
(* Confirmation.                                                            *)

\* Proposal r with this tally has been in confirmation since a moment after
\* which it has never failed, and is passing.
Confirmed(r, tally, since) ==
    r.state.kind = "Confirming" =>
        /\ r.state.arg \in 0 .. Now
        /\ since <= r.state.arg
        /\ IsPassing(r.electorate_size, tally)

PassInv ==
    /\ failing \in [ProposalId -> 0 .. Now]
    /\ \A p \in ProposalId : Confirmed(Proposals[p], Tallies[p], failing[p])

\* What a step does when it approves.
ApprovedInTime ==
    \A p \in ProposalId :
        Proposals[p].state.kind # "Approved" /\ Proposals'[p].state.kind = "Approved"
        => Now - failing[p] > ConfirmationPeriod

\* The states that do_update_proposal_state can give.
LEMMA NewStateCases ==
    ASSUME NEW prop, NEW tally
    PROVE  /\ NewState(prop, tally).kind = "Confirming" =>
                /\ IsPassing(prop.electorate_size, tally)
                /\ \/ NewState(prop, tally).arg = Now
                   \/ prop.state.kind = "Confirming" /\ NewState(prop, tally).arg = prop.state.arg
           /\ NewState(prop, tally).kind = "Approved" =>
                /\ prop.state.kind = "Confirming"
                /\ Now - prop.state.arg > ConfirmationPeriod
<1>1. \A kind, arg : State(kind, arg).kind = kind /\ State(kind, arg).arg = arg
  BY DEF State
<1> QED BY <1>1 DEF NewState, Ongoing

\* An update keeps a proposal confirmed, and approves only in time.
LEMMA NewStateConfirmed ==
    ASSUME Now \in Nat, NEW prop, NEW tally, NEW since \in 0 .. Now,
           prop.state.kind = "Confirming" => prop.state.arg \in 0 .. Now /\ since <= prop.state.arg
    PROVE  LET new == NewState(prop, tally)
           IN  /\ new.kind = "Confirming" =>
                    /\ new.arg \in 0 .. Now /\ since <= new.arg
                    /\ IsPassing(prop.electorate_size, tally)
               /\ new.kind = "Approved" => Now - since > ConfirmationPeriod
<1> DEFINE new == NewState(prop, tally)
<1>1. /\ new.kind = "Confirming" =>
           /\ IsPassing(prop.electorate_size, tally)
           /\ new.arg = Now \/ (prop.state.kind = "Confirming" /\ new.arg = prop.state.arg)
      /\ new.kind = "Approved" =>
           prop.state.kind = "Confirming" /\ Now - prop.state.arg > ConfirmationPeriod
  BY NewStateCases
<1> HIDE DEF new
<1>2. ConfirmationPeriod \in Nat
  BY DemocracyAssumption
<1>3. ASSUME new.kind = "Confirming"
      PROVE  new.arg \in 0 .. Now /\ since <= new.arg /\ IsPassing(prop.electorate_size, tally)
  BY <1>1, <1>3
<1>4. ASSUME new.kind = "Approved" PROVE Now - since > ConfirmationPeriod
  BY <1>1, <1>2, <1>4
<1> QED BY <1>3, <1>4 DEF new

LEMMA PassInit == Init => PassInv
<1> SUFFICES ASSUME Init PROVE PassInv
  OBVIOUS
<1>1. \A p \in ProposalId : Proposals[p].state.kind = "None"
  BY DEF Init, NoProposal, State
<1> QED BY <1>1 DEF Init, PassInv, Confirmed

\* A step that leaves proposals, tallies, time and failures alone.
LEMMA PassSame ==
    ASSUME PassInv, UNCHANGED <<Now, Proposals, Tallies, failing>>
    PROVE  PassInv' /\ ApprovedInTime
<1>1. PassInv'
  BY DEF PassInv, Confirmed, IsPassing, Approves
<1>2. ApprovedInTime
  BY DEF ApprovedInTime
<1> QED BY <1>1, <1>2

\* submit_proposal begins in state Ongoing.
LEMMA PassSubmit ==
    ASSUME BaseInv, PassInv, NEW action \in Actions, submit_proposal(action)
    PROVE  PassInv' /\ ApprovedInTime
<1> DEFINE q == ProposalCount + 1
<1>1. /\ q \in ProposalId /\ Proposals'[q].state = Ongoing
      /\ \A p \in ProposalId : p # q => Proposals'[p] = Proposals[p]
  BY SubmitKept DEF BaseInv
<1>2. /\ Tallies' = [Tallies EXCEPT ![q] = NoVotes] /\ failing' = [failing EXCEPT ![q] = Now]
      /\ Now' = Now
  BY DEF submit_proposal, clock
<1> HIDE DEF q
<1>3. Proposals'[q].state.kind = "Ongoing"
  BY <1>1 DEF Ongoing, State
<1>4. \A p \in ProposalId : p # q => Tallies'[p] = Tallies[p] /\ failing'[p] = failing[p]
  BY <1>2 DEF PassInv, BaseInv, VotesInv
<1>5. Now \in Nat
  BY DemocracyAssumption DEF BaseInv, ClockInv
<1>6. failing' \in [ProposalId -> 0 .. Now']
  BY <1>1, <1>2, <1>5 DEF PassInv
<1>7. ASSUME NEW p \in ProposalId
      PROVE  /\ Confirmed(Proposals[p], Tallies[p], failing[p])'
             /\ Proposals[p].state.kind # "Approved" => Proposals'[p].state.kind # "Approved"
  <2>1. CASE p = q
    BY <2>1, <1>3 DEF Confirmed
  <2>2. CASE p # q
    BY <2>2, <1>1, <1>2, <1>4 DEF PassInv, Confirmed, IsPassing, Approves
  <2> QED BY <2>1, <2>2
<1> QED BY <1>6, <1>7 DEF PassInv, ApprovedInTime

\* One proposal is updated, as prop so far, with a tally; the moment of its
\* last failure moves only when it does not pass with this tally.
LEMMA PassUpdate ==
    ASSUME BaseInv, PassInv, NEW q \in 1 .. ProposalCount, NEW prop, NEW tally,
           UpdateProposal(q, prop, tally), prop.electorate_size = Proposals[q].electorate_size,
           prop.state.kind = "Confirming" => prop.state.arg \in 0 .. Now /\ failing[q] <= prop.state.arg,
           UNCHANGED Now,
           Tallies' = [Tallies EXCEPT ![q] = tally],
           failing' = failing
             \/ failing' = [failing EXCEPT ![q] = IF IsPassing(prop.electorate_size, tally) THEN @ ELSE Now]
    PROVE  PassInv' /\ ApprovedInTime
<1>1. /\ q \in ProposalId /\ Proposals'[q].state = NewState(prop, tally)
      /\ \A p \in ProposalId : p # q => Proposals'[p] = Proposals[p]
      /\ Proposals'[q].electorate_size = prop.electorate_size
  BY UpdateKept DEF BaseInv, SameProposal
<1>2. Now \in Nat /\ failing[q] \in 0 .. Now
  BY <1>1, DemocracyAssumption DEF BaseInv, ClockInv, PassInv
<1> DEFINE st == NewState(prop, tally)
<1>3. /\ st.kind = "Confirming" =>
           /\ st.arg \in 0 .. Now /\ failing[q] <= st.arg
           /\ IsPassing(prop.electorate_size, tally)
      /\ st.kind = "Approved" => Now - failing[q] > ConfirmationPeriod
  BY <1>2, NewStateConfirmed
<1> HIDE DEF st
<1>4. Tallies'[q] = tally /\ \A p \in ProposalId : p # q => Tallies'[p] = Tallies[p]
  BY <1>1 DEF BaseInv, VotesInv
<1>5. /\ failing' \in [ProposalId -> 0 .. Now']
      /\ \A p \in ProposalId : p # q => failing'[p] = failing[p]
      /\ IsPassing(prop.electorate_size, tally) => failing'[q] = failing[q]
  BY <1>1, <1>2 DEF PassInv
<1>6. ASSUME NEW p \in ProposalId
      PROVE  Confirmed(Proposals[p], Tallies[p], failing[p])'
  <2>1. CASE p = q
    BY <2>1, <1>1, <1>3, <1>4, <1>5 DEF Confirmed, st, IsPassing, Approves
  <2>2. CASE p # q
    BY <2>2, <1>1, <1>4, <1>5 DEF PassInv, Confirmed, IsPassing, Approves
  <2> QED BY <2>1, <2>2
<1>7. ApprovedInTime
  BY <1>1, <1>3 DEF ApprovedInTime, st
<1> QED BY <1>5, <1>6, <1>7 DEF PassInv

\* vote updates the state with the old tally first.
LEMMA PassVote ==
    ASSUME BaseInv, PassInv, NEW q \in 1 .. ProposalCount, NEW a \in Account, NEW aye \in BOOLEAN,
           NEW ballot \in Ballots, vote(a, q, aye, ballot)
    PROVE  PassInv' /\ ApprovedInTime
<1> DEFINE st == NewState(Proposals[q], Tallies[q])
<1> DEFINE first == [Proposals[q] EXCEPT !.state = st]
<1> DEFINE n == Cardinality(Eligible(a, q, ballot))
<1> DEFINE tally == [turnout |-> Tallies[q].turnout + n, ayes |-> Tallies[q].ayes + IF aye THEN n ELSE 0]
<1>1. /\ UpdateProposal(q, first, tally)
      /\ Tallies' = [Tallies EXCEPT ![q] = tally]
      /\ failing' = [failing EXCEPT ![q] = IF IsPassing(first.electorate_size, tally) THEN @ ELSE Now]
      /\ UNCHANGED Now
  BY DEF vote, clock
<1>2. q \in ProposalId
  BY DemocracyAssumption DEF BaseInv, ProposalsInv, ProposalId
<1>3. first.electorate_size = Proposals[q].electorate_size /\ first.state = st
  <2>1. IsProposal(Proposals[q])
    BY <1>2 DEF BaseInv, ProposalsInv
  <2> HIDE DEF st
  <2> QED BY <2>1, WithState DEF SameProposal
<1>4. Now \in Nat /\ failing[q] \in 0 .. Now
  BY <1>2, DemocracyAssumption DEF BaseInv, ClockInv, PassInv
<1>5. Proposals[q].state.kind = "Confirming" =>
        Proposals[q].state.arg \in 0 .. Now /\ failing[q] <= Proposals[q].state.arg
  BY <1>2 DEF PassInv, Confirmed
<1>6. st.kind = "Confirming" => st.arg \in 0 .. Now /\ failing[q] <= st.arg
  BY <1>4, <1>5, NewStateConfirmed
<1> HIDE DEF st, first, tally
<1> QED BY <1>1, <1>3, <1>6, PassUpdate

\* A block moves the time, and the last failure of what is not passing; what
\* is in confirmation is passing.
LEMMA PassBlock ==
    ASSUME BaseInv, PassInv, NextBlock, Tallies' = Tallies,
           \A p \in ProposalId : \/ Proposals'[p] = Proposals[p]
                                 \/ Proposals'[p].state = State("Enacted", 0)
    PROVE  PassInv' /\ ApprovedInTime
<1>1. /\ Now \in Nat /\ Now' = Now + 1
      /\ failing' = [p \in ProposalId |->
           IF CanUpdate(Proposals[p].state) /\ ~ IsPassing(Proposals[p].electorate_size, Tallies[p])
           THEN Now' ELSE failing[p]]
  BY DemocracyAssumption DEF NextBlock, BaseInv, ClockInv
<1>2. failing' \in [ProposalId -> 0 .. Now']
  BY <1>1 DEF PassInv
<1>3. State("Enacted", 0).kind = "Enacted"
  BY DEF State
<1>4. ASSUME NEW p \in ProposalId
      PROVE  Confirmed(Proposals[p], Tallies[p], failing[p])'
  <2> SUFFICES ASSUME Proposals'[p].state.kind = "Confirming"
               PROVE  /\ Proposals'[p].state.arg \in 0 .. Now'
                      /\ failing'[p] <= Proposals'[p].state.arg
                      /\ IsPassing(Proposals'[p].electorate_size, Tallies[p])
    BY DEF Confirmed, IsPassing, Approves
  <2>1. Proposals'[p] = Proposals[p]
    BY <1>3
  <2>2. /\ Proposals[p].state.arg \in 0 .. Now
        /\ failing[p] <= Proposals[p].state.arg
        /\ IsPassing(Proposals[p].electorate_size, Tallies[p])
    BY <2>1 DEF PassInv, Confirmed
  <2>3. failing'[p] = failing[p]
    BY <1>1, <2>2
  <2> QED BY <1>1, <2>1, <2>2, <2>3
<1>5. ApprovedInTime
  BY <1>3 DEF ApprovedInTime
<1> QED BY <1>2, <1>4, <1>5 DEF PassInv

\* Every step keeps the invariant, and approves only in time.
LEMMA PassStep ==
    ASSUME BaseInv, PassInv, [Next]_vars
    PROVE  PassInv' /\ ApprovedInTime
<1>1. ASSUME NEW action \in Actions, submit_proposal(action) PROVE PassInv' /\ ApprovedInTime
  BY <1>1, PassSubmit
<1>2. ASSUME NEW q \in 1 .. ProposalCount, update_proposal_state(q) PROVE PassInv' /\ ApprovedInTime
  <2>1. /\ UpdateProposal(q, Proposals[q], Tallies[q]) /\ UNCHANGED <<Now, Tallies, failing>>
    BY <1>2 DEF update_proposal_state, clock, history
  <2>2. q \in ProposalId
    BY DemocracyAssumption DEF BaseInv, ProposalsInv, ProposalId
  <2>3. Proposals[q].state.kind = "Confirming" =>
          Proposals[q].state.arg \in 0 .. Now /\ failing[q] <= Proposals[q].state.arg
    BY <2>2 DEF PassInv, Confirmed
  <2>4. Tallies' = [Tallies EXCEPT ![q] = Tallies[q]]
    BY <2>1, <2>2 DEF BaseInv, VotesInv
  <2> QED BY <2>1, <2>3, <2>4, PassUpdate
<1>3. ASSUME NEW q \in 1 .. ProposalCount, NEW a \in Account, NEW aye \in BOOLEAN, NEW ballot \in Ballots,
             vote(a, q, aye, ballot)
      PROVE  PassInv' /\ ApprovedInTime
  BY <1>3, PassVote
<1>4. CASE QuietBlock
  BY <1>4, PassBlock DEF QuietBlock, proposals
<1>5. CASE EnterAssigning
  <2>1. PICK failures : Enact(failures)
    BY <1>5 DEF EnterAssigning
  <2>2. \A p \in ProposalId : Proposals'[p] = Proposals[p] \/ Proposals'[p].state = State("Enacted", 0)
    BY <2>1, EnactKept DEF BaseInv
  <2>3. NextBlock /\ Tallies' = Tallies
    BY <1>5 DEF EnterAssigning
  <2> QED BY <2>2, <2>3, PassBlock
<1>6. CASE EnterAttesting
  BY <1>6, PassBlock DEF EnterAttesting, proposals
<1>7. CASE EnterRegistering
  BY <1>7, PassBlock DEF EnterRegistering, proposals
<1>8. CASE register_purpose
  BY <1>8, PassSame DEF register_purpose, clock, proposals, history
<1>9. ASSUME NEW held \in Committable, commit_reputation(held[1], held[2], held[3])
      PROVE  PassInv' /\ ApprovedInTime
  BY <1>9, PassSame DEF commit_reputation, clock, proposals, history
<1>10. ASSUME NEW cid \in Community, NEW participants \in Meetups[cid], issue_rewards(cid, participants)
       PROVE  PassInv' /\ ApprovedInTime
  BY <1>10, PassSame DEF issue_rewards, clock, proposals, history
<1>11. CASE UNCHANGED vars
  BY <1>11, PassSame DEF vars, clock, proposals, history
<1> QED
  BY <1>1, <1>2, <1>3, <1>4, <1>5, <1>6, <1>7, <1>8, <1>9, <1>10, <1>11 DEF Next, Block

\* A proposal that is approved has been passing all the time for longer than
\* the confirmation period, however rarely do_update_proposal_state was called:
\* its tally can change only with a vote, which updates the state.
THEOREM ApprovalTakesItsTime == Spec => ApprovalConfirmed
<1>1. BaseInv /\ PassInv /\ [Next]_vars => PassInv'
  BY PassStep
<1>2. BaseInv /\ PassInv /\ [Next]_vars => [\A p \in ProposalId :
         Proposals[p].state.kind # "Approved" /\ Proposals'[p].state.kind = "Approved"
         => Now - failing[p] > ConfirmationPeriod]_vars
  BY PassStep DEF ApprovedInTime
<1> QED BY <1>1, <1>2, PassInit, BaseHolds, PTL DEF Spec, ApprovalConfirmed

====
