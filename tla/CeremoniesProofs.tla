---- MODULE CeremoniesProofs ----
(***************************************************************************)
(* Proofs about module Ceremonies, for any number of accounts, communities *)
(* and ceremonies: the registries stay continuous and disjoint, and the    *)
(* seats of a meetup keep resolving to the same people.                    *)
(***************************************************************************)
EXTENDS Ceremonies, FiniteSetTheorems, WellFoundedInduction, TLAPS

-----------------------------------------------------------------------------
(* One registry.                                                            *)

\* register(): a new participant at the end keeps the indices continuous.
LEMMA EnlistContinuous ==
    ASSUME NEW reg, NEW a, Continuous(reg), a \notin Enlisted(reg)
    PROVE  /\ Continuous(Enlist(reg, a))
           /\ Enlisted(Enlist(reg, a)) = Enlisted(reg) \cup {a}
<1> DEFINE n == reg.count + 1
<1> DEFINE new == Enlist(reg, a)
<1>1. /\ new.count = n
      /\ new.registry = Put(reg.registry, n, a)
      /\ new.index = Put(reg.index, a, n)
  BY DEF Enlist
<1>2. /\ reg.count \in Nat
      /\ DOMAIN reg.registry = 1 .. reg.count
  BY DEF Continuous
<1>3. /\ DOMAIN new.registry = 1 .. n
      /\ new.registry[n] = a
      /\ \A i \in 1 .. reg.count : new.registry[i] = reg.registry[i]
  BY <1>1, <1>2 DEF Put
<1>4. /\ DOMAIN new.index = DOMAIN reg.index \cup {a}
      /\ new.index[a] = n
      /\ \A x \in DOMAIN reg.index : new.index[x] = reg.index[x]
  BY <1>1 DEF Put, Enlisted
<1>5. \A i \in 1 .. n : new.registry[i] \in DOMAIN new.index /\ new.index[new.registry[i]] = i
  <2> TAKE i \in 1 .. n
  <2>1. CASE i = n
    BY <2>1, <1>3, <1>4
  <2>2. CASE i \in 1 .. reg.count
    BY <2>2, <1>3, <1>4 DEF Continuous
  <2> QED BY <2>1, <2>2, <1>2
<1>6. \A x \in DOMAIN new.index : new.index[x] \in 1 .. n /\ new.registry[new.index[x]] = x
  <2> TAKE x \in DOMAIN new.index
  <2>1. CASE x = a
    BY <2>1, <1>2, <1>3, <1>4
  <2>2. CASE x \in DOMAIN reg.index
    <3>1. reg.index[x] \in 1 .. reg.count /\ reg.registry[reg.index[x]] = x
      BY <2>2 DEF Continuous
    <3> QED BY <3>1, <2>2, <1>2, <1>3, <1>4
  <2> QED BY <2>1, <2>2, <1>4
<1> HIDE DEF new
<1>7. Continuous(new)
  BY <1>1, <1>2, <1>3, <1>5, <1>6 DEF Continuous
<1> QED BY <1>4, <1>7 DEF new, Enlisted

\* remove_participant_from_registry(): the last participant fills the gap.
LEMMA StrikeContinuous ==
    ASSUME NEW reg, NEW a, Continuous(reg), a \in Enlisted(reg)
    PROVE  /\ Continuous(Strike(reg, a))
           /\ Enlisted(Strike(reg, a)) = Enlisted(reg) \ {a}
<1> DEFINE n == reg.count
<1> DEFINE last == reg.registry[n]
<1> DEFINE i == reg.index[a]
<1> DEFINE new == Strike(reg, a)
<1>1. /\ n \in Nat
      /\ DOMAIN reg.registry = 1 .. n
      /\ i \in 1 .. n
      /\ reg.registry[i] = a
  BY DEF Continuous, Enlisted
<1>2. /\ n \in DOMAIN reg.registry
      /\ last \in DOMAIN reg.index
      /\ reg.index[last] = n
  BY <1>1 DEF Continuous
<1>3. /\ new.count = n - 1
      /\ new.registry = Delete(Put(reg.registry, i, last), n)
      /\ new.index = Delete(Put(reg.index, last, i), a)
  BY <1>2 DEF Strike
<1>4. /\ DOMAIN new.registry = 1 .. n - 1
      /\ \A j \in 1 .. n - 1 : new.registry[j] = IF j = i THEN last ELSE reg.registry[j]
  BY <1>1, <1>3 DEF Put, Delete
<1>5. /\ DOMAIN new.index = DOMAIN reg.index \ {a}
      /\ \A x \in DOMAIN reg.index \ {a} : new.index[x] = IF x = last THEN i ELSE reg.index[x]
  BY <1>2, <1>3 DEF Put, Delete
<1>6. \A j \in 1 .. n - 1 : new.registry[j] \in DOMAIN new.index /\ new.index[new.registry[j]] = j
  <2> TAKE j \in 1 .. n - 1
  <2>0. j \in 1 .. n /\ j # n
    BY <1>1
  <2>1. CASE j = i
    <3>1. last # a
      BY <2>0, <2>1, <1>2
    <3> QED BY <3>1, <2>1, <1>2, <1>4, <1>5
  <2>2. CASE j # i
    <3>1. /\ reg.registry[j] \in DOMAIN reg.index
          /\ reg.index[reg.registry[j]] = j
      BY <2>0 DEF Continuous
    <3>2. reg.registry[j] # a /\ reg.registry[j] # last
      BY <3>1, <2>0, <2>2, <1>2
    <3> QED BY <3>1, <3>2, <2>2, <1>4, <1>5
  <2> QED BY <2>1, <2>2
<1>7. \A x \in DOMAIN new.index : new.index[x] \in 1 .. n - 1 /\ new.registry[new.index[x]] = x
  <2> TAKE x \in DOMAIN new.index
  <2>0. /\ x \in DOMAIN reg.index
        /\ x # a
        /\ reg.index[x] \in 1 .. n
        /\ reg.registry[reg.index[x]] = x
    BY <1>5 DEF Continuous
  <2>1. CASE x = last
    <3>1. i \in 1 .. n - 1
      BY <2>0, <2>1, <1>1
    <3>2. new.index[x] = i
      BY <2>0, <2>1, <1>5
    <3>3. new.registry[i] = last
      BY <3>1, <1>4
    <3> QED BY <3>1, <3>2, <3>3, <2>1
  <2>2. CASE x # last
    <3>1. reg.index[x] # n /\ reg.index[x] # i
      BY <2>0, <2>2, <1>1
    <3> QED BY <3>1, <2>0, <2>2, <1>1, <1>4, <1>5
  <2> QED BY <2>1, <2>2
<1>8. n - 1 \in Nat
  BY <1>1
<1> HIDE DEF new, n
<1>9. Continuous(new)
  BY <1>3, <1>4, <1>6, <1>7, <1>8 DEF Continuous
<1> QED BY <1>5, <1>9 DEF new, Enlisted

-----------------------------------------------------------------------------
(* All registries.                                                          *)

\* The registries of all ceremonies R have the shape of the storage maps, are
\* continuous, and no account is in two of the same ceremony.
Good(R) ==
    /\ R = [cc \in Ceremony |-> [t \in ParticipantTypes |-> R[cc][t]]]
    /\ \A cc \in Ceremony, t \in ParticipantTypes : Continuous(R[cc][t])
    /\ \A cc \in Ceremony, a \in Account : \A t, u \in ParticipantTypes :
         a \in Enlisted(R[cc][t]) /\ a \in Enlisted(R[cc][u]) => t = u

\* Changing one registry to a continuous one keeps Good, as long as it gets
\* no participant that another registry of the ceremony has.
LEMMA ReplaceGood ==
    ASSUME NEW R, Good(R), NEW d, NEW t \in ParticipantTypes, NEW reg,
           d \in Ceremony => Continuous(reg),
           d \in Ceremony =>
             \A a \in Enlisted(reg) : a \in Enlisted(R[d][t])
                \/ \A u \in ParticipantTypes : a \notin Enlisted(R[d][u])
    PROVE  Good([R EXCEPT ![d][t] = reg])
<1> DEFINE S == [R EXCEPT ![d][t] = reg]
<1>1. R = [cc \in Ceremony |-> [u \in ParticipantTypes |-> R[cc][u]]]
  BY DEF Good
<1>2. DOMAIN R = Ceremony /\ \A cc \in Ceremony : DOMAIN R[cc] = ParticipantTypes
  BY <1>1
<1>3. /\ S = [cc \in Ceremony |-> [u \in ParticipantTypes |-> S[cc][u]]]
      /\ \A cc \in Ceremony, u \in ParticipantTypes :
           S[cc][u] = IF cc = d /\ u = t THEN reg ELSE R[cc][u]
  <2>1. \A cc \in Ceremony : S[cc] = IF cc = d THEN [R[d] EXCEPT ![t] = reg] ELSE R[cc]
    BY <1>2
  <2>2. \A cc \in Ceremony : R[cc] = [u \in ParticipantTypes |-> R[cc][u]]
    BY <1>1
  <2>3. \A cc \in Ceremony, u \in ParticipantTypes :
           S[cc][u] = IF cc = d /\ u = t THEN reg ELSE R[cc][u]
    BY <2>1, <1>2
  <2>4. \A cc \in Ceremony : S[cc] = [u \in ParticipantTypes |-> S[cc][u]]
    BY <2>1, <2>2, <1>2
  <2>5. S = [cc \in Ceremony |-> S[cc]]
    BY <1>2
  <2> QED BY <2>3, <2>4, <2>5
<1> HIDE DEF S
<1>4. \A cc \in Ceremony, u \in ParticipantTypes : Continuous(S[cc][u])
  BY <1>3 DEF Good
<1>5. ASSUME NEW cc \in Ceremony, NEW a \in Account,
             NEW u \in ParticipantTypes, NEW v \in ParticipantTypes,
             a \in Enlisted(S[cc][u]), a \in Enlisted(S[cc][v])
      PROVE  u = v
  <2>1. /\ S[cc][u] = IF cc = d /\ u = t THEN reg ELSE R[cc][u]
        /\ S[cc][v] = IF cc = d /\ v = t THEN reg ELSE R[cc][v]
    BY <1>3
  <2>2. \A p, q \in ParticipantTypes : a \in Enlisted(R[cc][p]) /\ a \in Enlisted(R[cc][q]) => p = q
    BY DEF Good
  <2> QED BY <1>5, <2>1, <2>2
<1>6. Good(S)
  BY <1>3, <1>4, <1>5 DEF Good
<1> QED BY <1>6 DEF S

\* register() keeps Good when the account is not registered yet.
LEMMA EnlistGood ==
    ASSUME NEW R, Good(R), NEW d, NEW t \in ParticipantTypes, NEW a,
           d \in Ceremony => ~ IsRegistered(R, d, a)
    PROVE  Good([R EXCEPT ![d][t] = Enlist(@, a)])
<1> DEFINE reg == Enlist(R[d][t], a)
<1>1. [R EXCEPT ![d][t] = Enlist(@, a)] = [R EXCEPT ![d][t] = reg]
  OBVIOUS
<1>2. ASSUME d \in Ceremony
      PROVE  /\ Continuous(reg)
             /\ Enlisted(reg) = Enlisted(R[d][t]) \cup {a}
             /\ \A u \in ParticipantTypes : a \notin Enlisted(R[d][u])
  <2>1. Continuous(R[d][t]) /\ \A u \in ParticipantTypes : a \notin Enlisted(R[d][u])
    BY <1>2 DEF Good, IsRegistered
  <2> QED BY <2>1, EnlistContinuous
<1> HIDE DEF reg
<1>3. Good([R EXCEPT ![d][t] = reg])
  BY <1>2, ReplaceGood
<1> QED BY <1>1, <1>3

\* remove_participant_from_registry() keeps Good, and afterwards the account
\* is not registered at all.
LEMMA UnlistGood ==
    ASSUME Good(Registries), NEW cid, NEW c, NEW a \in Account,
           IsRegistered(Registries, <<cid, c>>, a)
    PROVE  /\ Good(Unlist(cid, c, a))
           /\ <<cid, c>> \in Ceremony => ~ IsRegistered(Unlist(cid, c, a), <<cid, c>>, a)
           /\ \A cc \in Ceremony : cc # <<cid, c>> => Unlist(cid, c, a)[cc] = Registries[cc]
<1> DEFINE d == <<cid, c>>
<1> DEFINE t == ParticipantType(d, a)
<1> DEFINE reg == Strike(Registries[d][t], a)
<1> DEFINE S == [Registries EXCEPT ![d][t] = reg]
<1>1. Unlist(cid, c, a) = S
  BY DEF Unlist
<1>2. t \in ParticipantTypes /\ a \in Enlisted(Registries[d][t])
  BY DEF ParticipantType, ParticipantTypes, IsRegistered
<1> HIDE DEF d, t
<1>3. ASSUME d \in Ceremony
      PROVE  Continuous(reg) /\ Enlisted(reg) = Enlisted(Registries[d][t]) \ {a}
  <2>1. Continuous(Registries[d][t])
    BY <1>2, <1>3 DEF Good
  <2> QED BY <2>1, <1>2, StrikeContinuous
<1> HIDE DEF reg
<1>4. Good(S)
  BY <1>2, <1>3, ReplaceGood
<1>5. DOMAIN Registries = Ceremony /\ \A cc \in Ceremony : DOMAIN Registries[cc] = ParticipantTypes
  BY DEF Good
<1>6. ASSUME d \in Ceremony
      PROVE  ~ IsRegistered(S, d, a)
  <2>1. \A u \in ParticipantTypes : S[d][u] = IF u = t THEN reg ELSE Registries[d][u]
    BY <1>5, <1>6
  <2>2. \A u \in ParticipantTypes : a \in Enlisted(Registries[d][u]) => u = t
    BY <1>2, <1>6 DEF Good
  <2> QED BY <2>1, <2>2, <1>3, <1>6 DEF IsRegistered
<1>7. \A cc \in Ceremony : cc # d => S[cc] = Registries[cc]
  BY <1>5
<1> QED BY <1>1, <1>4, <1>6, <1>7 DEF d

\* Empty registries are continuous.
LEMMA EmptyContinuous == Continuous(EmptyRegistry) /\ Enlisted(EmptyRegistry) = {}
BY DEF Continuous, Enlisted, EmptyRegistry, EmptyMap

\* The clean-up keeps Good.
LEMMA PurgeGood ==
    ASSUME Good(Registries), NEW ccs, Purge(ccs)
    PROVE  Good(Registries')
<1>1. Registries' = [cc \in Ceremony |-> IF cc \in ccs THEN NoRegistrations ELSE Registries[cc]]
  BY DEF Purge
<1>2. \A cc \in Ceremony : Registries'[cc] = IF cc \in ccs THEN NoRegistrations ELSE Registries[cc]
  BY <1>1
<1>3. NoRegistrations = [t \in ParticipantTypes |-> EmptyRegistry]
  BY DEF NoRegistrations
<1>4. \A cc \in Ceremony, t \in ParticipantTypes :
        Registries'[cc][t] = IF cc \in ccs THEN EmptyRegistry ELSE Registries[cc][t]
  BY <1>2, <1>3
<1>5. \A cc \in Ceremony : Registries[cc] = [t \in ParticipantTypes |-> Registries[cc][t]]
  BY DEF Good
<1>6. \A cc \in Ceremony : Registries'[cc] = [t \in ParticipantTypes |-> Registries'[cc][t]]
  BY <1>2, <1>3, <1>4, <1>5
<1>7. Registries' = [cc \in Ceremony |-> [t \in ParticipantTypes |-> Registries'[cc][t]]]
  BY <1>1, <1>6
<1>8. \A cc \in Ceremony, t \in ParticipantTypes : Continuous(Registries'[cc][t])
  BY <1>4, EmptyContinuous DEF Good
<1>9. \A cc \in Ceremony, a \in Account : \A t, u \in ParticipantTypes :
         a \in Enlisted(Registries'[cc][t]) /\ a \in Enlisted(Registries'[cc][u]) => t = u
  BY <1>4, EmptyContinuous DEF Good
<1> QED BY <1>7, <1>8, <1>9 DEF Good

-----------------------------------------------------------------------------
(* Steps.                                                                   *)

\* The inductive invariant: the registries are good, and only ceremonies that
\* are closed for registration have seats, no more than participants.
Seated ==
    /\ CurrentPhase \in PC!Phases
    /\ CurrentCeremonyIndex \in Nat
    /\ \A cc \in Ceremony : cc[2] >= Target =>
         MeetupCount[cc] = 0 /\ \A t \in ParticipantTypes : AssignmentCounts[cc][t] = 0
    /\ SeatsResolve

Inv == Good(Registries) /\ Seated

\* What an extrinsic on registrations may do: change the registries of one
\* community for the ceremony that is open for registration.
Registration(cid) ==
    /\ Good(Registries')
    /\ \A cc \in Ceremony : cc # <<cid, Target>> => Registries'[cc] = Registries[cc]
    /\ UNCHANGED <<CurrentPhase, CurrentCeremonyIndex, AssignmentCounts, Assignments, MeetupCount>>

\* What register() does to registries R.
Entered(R, cid, c) ==
    /\ Good(Registries')
    /\ \A cc \in Ceremony : cc # <<cid, c>> => Registries'[cc] = R[cc]

\* register() on registries in which the account does not appear.
LEMMA RegisterStep ==
    ASSUME NEW cid, NEW c, NEW a, NEW isReputable, NEW R, NEW endorsees, Good(R),
           <<cid, c>> \in Ceremony => ~ IsRegistered(R, <<cid, c>>, a),
           Register(cid, c, a, isReputable, R, endorsees)
    PROVE  Entered(R, cid, c)
<1> DEFINE t == TypeOf(cid, c, a, isReputable, endorsees)
<1>1. t \in ParticipantTypes
  BY DEF TypeOf, ParticipantTypes
<1>2. Registries' = [R EXCEPT ![<<cid, c>>][t] = Enlist(@, a)]
  BY DEF Register
<1> HIDE DEF t
<1>3. Good(Registries')
  BY <1>1, <1>2, EnlistGood
<1>4. DOMAIN R = Ceremony
  BY DEF Good
<1> QED BY <1>2, <1>3, <1>4 DEF Entered

\* The extrinsics that change a registration.
LEMMA RegistrationStep ==
    ASSUME Good(Registries), NEW a \in Account, NEW cid \in Community
    PROVE  /\ register_without_proof(a, cid) => Registration(cid)
           /\ unregister_without_refund(a, cid) => Registration(cid)
           /\ \A pcid \in Community, k \in Index :
                unregister_with_refund(a, cid, pcid, k) => Registration(cid)
           /\ \A attendee \in Account, pcid \in Community, k \in Index :
                /\ register_with_proof(a, cid, attendee, pcid, k) => Registration(cid)
                /\ upgrade_registration(a, cid, attendee, pcid, k) => Registration(cid)
           /\ \A newbie \in Account : endorse_newcomer(a, cid, newbie) => Registration(cid)
<1> USE DEF RegistrationFrame, UnregisterFrame, scheduler, seats
<1>1. ASSUME register_without_proof(a, cid)
      PROVE  Registration(cid)
  <2>1. /\ ~ IsRegistered(Registries, <<cid, Target>>, a)
        /\ Register(cid, Target, a, FALSE, Registries, Endorsees)
        /\ UNCHANGED <<CurrentPhase, CurrentCeremonyIndex, AssignmentCounts, Assignments, MeetupCount>>
    BY <1>1 DEF register_without_proof
  <2>2. Entered(Registries, cid, Target)
    BY <2>1, RegisterStep
  <2> QED BY <2>1, <2>2 DEF Registration, Entered
<1>2. ASSUME unregister_without_refund(a, cid)
      PROVE  Registration(cid)
  <2>1. /\ IsRegistered(Registries, <<cid, Target>>, a)
        /\ Registries' = Unlist(cid, Target, a)
        /\ UNCHANGED <<CurrentPhase, CurrentCeremonyIndex, AssignmentCounts, Assignments, MeetupCount>>
    BY <1>2 DEF unregister_without_refund
  <2> QED BY <2>1, UnlistGood DEF Registration
<1>3. ASSUME NEW pcid \in Community, NEW k \in Index, unregister_with_refund(a, cid, pcid, k)
      PROVE  Registration(cid)
  <2>1. /\ IsRegistered(Registries, <<cid, Target>>, a)
        /\ Registries' = Unlist(cid, Target, a)
        /\ UNCHANGED <<CurrentPhase, CurrentCeremonyIndex, AssignmentCounts, Assignments, MeetupCount>>
    BY <1>3 DEF unregister_with_refund, HasType
  <2> QED BY <2>1, UnlistGood DEF Registration
<1>4. ASSUME NEW attendee \in Account, NEW pcid \in Community, NEW k \in Index,
             register_with_proof(a, cid, attendee, pcid, k)
      PROVE  Registration(cid)
  <2>1. /\ ~ IsRegistered(Registries, <<cid, Target>>, a)
        /\ Register(cid, Target, a, TRUE, Registries, Endorsees)
        /\ UNCHANGED <<CurrentPhase, CurrentCeremonyIndex, AssignmentCounts, Assignments, MeetupCount>>
    BY <1>4 DEF register_with_proof, RegisterWithProof
  <2>2. Entered(Registries, cid, Target)
    BY <2>1, RegisterStep
  <2> QED BY <2>1, <2>2 DEF Registration, Entered
<1>5. ASSUME NEW attendee \in Account, NEW pcid \in Community, NEW k \in Index,
             upgrade_registration(a, cid, attendee, pcid, k)
      PROVE  Registration(cid)
  <2>1. /\ IsRegistered(Registries, <<cid, Target>>, a)
        /\ RegisterWithProof(a, cid, attendee, pcid, k, Unlist(cid, Target, a))
    BY <1>5 DEF upgrade_registration, HasType
  <2> PICK R : R = Unlist(cid, Target, a)
    OBVIOUS
  <2>2. Good(R) /\ \A cc \in Ceremony : cc # <<cid, Target>> => R[cc] = Registries[cc]
    BY <2>1, UnlistGood
  <2>3. /\ ~ IsRegistered(R, <<cid, Target>>, a)
        /\ Register(cid, Target, a, TRUE, R, Endorsees)
        /\ UNCHANGED <<CurrentPhase, CurrentCeremonyIndex, AssignmentCounts, Assignments, MeetupCount>>
    BY <2>1 DEF RegisterWithProof
  <2>4. <<cid, Target>> \in Ceremony => ~ IsRegistered(R, <<cid, Target>>, a)
    BY <2>3
  <2>5. Register(cid, Target, a, TRUE, R, Endorsees)
    BY <2>3
  <2>6. Good(R)
    BY <2>2
  <2>7. Entered(R, cid, Target)
    BY <2>4, <2>5, <2>6, RegisterStep
  <2> QED BY <2>2, <2>3, <2>7 DEF Registration, Entered
<1>6. ASSUME NEW newbie \in Account, endorse_newcomer(a, cid, newbie)
      PROVE  Registration(cid)
  <2> DEFINE E == [Endorsees EXCEPT ![<<cid, Target>>] = @ \cup {newbie}]
  <2>1. /\ EndorseAndMove(cid, Target, newbie, E)
        /\ UNCHANGED <<CurrentPhase, CurrentCeremonyIndex, AssignmentCounts, Assignments, MeetupCount>>
    BY <1>6 DEF endorse_newcomer
  <2> HIDE DEF E
  <2>2. CASE newbie \in Enlisted(Registries[cid, Target]["Newbie"])
    <3>1. IsRegistered(Registries, <<cid, Target>>, newbie)
      BY <2>2 DEF IsRegistered, ParticipantTypes
    <3> PICK R : R = Unlist(cid, Target, newbie)
      OBVIOUS
    <3>2. Register(cid, Target, newbie, FALSE, R, E)
      BY <2>1, <2>2 DEF EndorseAndMove
    <3>3. /\ Good(R)
          /\ <<cid, Target>> \in Ceremony => ~ IsRegistered(R, <<cid, Target>>, newbie)
          /\ \A cc \in Ceremony : cc # <<cid, Target>> => R[cc] = Registries[cc]
      BY <3>1, UnlistGood
    <3>4. <<cid, Target>> \in Ceremony => ~ IsRegistered(R, <<cid, Target>>, newbie)
      BY <3>3
    <3>5. Good(R)
      BY <3>3
    <3>6. Entered(R, cid, Target)
      BY <3>2, <3>4, <3>5, RegisterStep
    <3> QED BY <3>3, <3>6, <2>1 DEF Registration, Entered
  <2>3. CASE newbie \notin Enlisted(Registries[cid, Target]["Newbie"])
    BY <2>1, <2>3 DEF EndorseAndMove, Registration
  <2> QED BY <2>2, <2>3
<1> QED BY <1>1, <1>2, <1>3, <1>4, <1>5, <1>6

-----------------------------------------------------------------------------
(* The number of seats.                                                     *)

\* find_prime_below() returns a number of at least two, whatever it is given.
LEMMA PrimeBelowType ==
    ASSUME NEW n \in Nat
    PROVE  FindPrimeBelow(n) \in Nat /\ FindPrimeBelow(n) >= 2
<1>1. CASE n <= 2
  BY <1>1 DEF FindPrimeBelow
<1>2. CASE n > 2
  <2> DEFINE P == {p \in 2 .. n : IsPrime(p)}
  <2> DEFINE T == {n - p : p \in P}
  <2>1. 2 \in P
    BY <1>2 DEF IsPrime
  <2>2. T \subseteq Nat /\ T # {}
    BY <2>1
  <2> DEFINE Less == {ss \in Nat \X Nat : ss[1] < ss[2]}
  <2>3. IsWellFoundedOn(Less, Nat)
    BY NatLessThanWellFounded, Zenon DEF OpToRel
  <2>4. PICK x \in T : \A y \in T : ~ (<<y, x>> \in Less)
    <3> HIDE DEF Less, T
    <3> QED BY <2>2, <2>3, WFMin
  <2>5. PICK p \in P : x = n - p
    OBVIOUS
  <2>6. ASSUME NEW q \in P
        PROVE  p >= q
    <3>1. n - q \in T /\ n - q \in Nat /\ x \in Nat
      BY <2>2
    <3>2. ~ (n - q < x)
      BY <2>4, <3>1
    <3> QED BY <3>1, <3>2, <2>5
  <2>7. Max(P) \in P
    BY <2>5, <2>6 DEF Max
  <2> QED BY <1>2, <2>7 DEF FindPrimeBelow
<1> QED BY <1>1, <1>2

\* compute_assignment_allowance() gives no participant type more seats than it
\* has participants.
LEMMA AllowanceBound ==
    ASSUME NEW regs, \A t \in ParticipantTypes : regs[t].count \in Nat
    PROVE  \A t \in ParticipantTypes :
             Allowance(regs)[t] \in Int /\ Allowance(regs)[t] <= regs[t].count
<1> DEFINE nb == regs["Bootstrapper"].count
<1> DEFINE nr == regs["Reputable"].count
<1> DEFINE ne == regs["Endorsee"].count
<1> DEFINE nn == regs["Newbie"].count
<1> DEFINE left0 == MinOf(NumLocations, FindPrimeBelow(nb + nr)) * MeetupSizeTarget - nb
<1> DEFINE r == MinOf(nr, left0)
<1> DEFINE e == MinOf(ne, left0 - r)
<1> DEFINE limit == (nb + r + e) \div MeetupNewbieLimitDivider
<1> DEFINE n == MinOf(MinOf(nn, left0 - r - e), limit)
<1>0. nb \in Nat /\ nr \in Nat /\ ne \in Nat /\ nn \in Nat
  BY DEF ParticipantTypes
<1>1. Allowance(regs) = [Bootstrapper |-> nb, Reputable |-> r, Endorsee |-> e, Newbie |-> n]
  BY DEF Allowance
<1> HIDE DEF nb, nr, ne, nn
<1>2. \A x, y \in Int : MinOf(x, y) \in Int /\ MinOf(x, y) <= x
  BY DEF MinOf
<1>3. left0 \in Int
  <2>1. FindPrimeBelow(nb + nr) \in Int
    BY <1>0, PrimeBelowType
  <2>2. MinOf(NumLocations, FindPrimeBelow(nb + nr)) \in Int
    BY <2>1, <1>2, ConstantsAssumption
  <2> QED BY <2>2, <1>0, ConstantsAssumption
<1> HIDE DEF left0
<1>4. r \in Int /\ r <= nr
  BY <1>0, <1>2, <1>3
<1> HIDE DEF r
<1>5. e \in Int /\ e <= ne
  BY <1>0, <1>2, <1>3, <1>4
<1> HIDE DEF e
<1>6. limit \in Int
  BY <1>0, <1>4, <1>5, ConstantsAssumption
<1> HIDE DEF limit
<1>7. MinOf(nn, left0 - r - e) \in Int /\ MinOf(nn, left0 - r - e) <= nn
  BY <1>0, <1>2, <1>3, <1>4, <1>5
<1>8. n \in Int /\ n <= MinOf(nn, left0 - r - e)
  BY <1>2, <1>6, <1>7
<1> HIDE DEF n
<1>9. n <= nn
  BY <1>0, <1>7, <1>8
<1> QED BY <1>0, <1>1, <1>4, <1>5, <1>8, <1>9 DEF ParticipantTypes, nb, nr, ne, nn

-----------------------------------------------------------------------------
(* The invariant.                                                           *)

\* The genesis state has no registrations and no seats.
LEMMA InitInv == Init => Inv
<1> SUFFICES ASSUME Init PROVE Inv
  OBVIOUS
<1>1. \A cc \in Ceremony, t \in ParticipantTypes : Registries[cc][t] = EmptyRegistry
  BY DEF Init, NoRegistrations
<1>2. Registries = [cc \in Ceremony |-> [t \in ParticipantTypes |-> Registries[cc][t]]]
  BY <1>1 DEF Init, NoRegistrations
<1>3. Good(Registries)
  BY <1>1, <1>2, EmptyContinuous DEF Good
<1>4. \A cc \in Ceremony : MeetupCount[cc] = 0 /\ \A t \in ParticipantTypes : AssignmentCounts[cc][t] = 0
  BY DEF Init, NoSeats
<1>5. SeatsResolve
  BY <1>1, <1>4 DEF SeatsResolve, EmptyRegistry
<1>6. CurrentPhase \in PC!Phases /\ CurrentCeremonyIndex \in Nat
  BY DEF Init, PC!Phases
<1> QED BY <1>3, <1>4, <1>5, <1>6 DEF Inv, Seated

\* What a step of Next does to a ceremony that has meetups before and after:
\* nothing that decides who takes part in them.
Untouched ==
    \A cc \in Ceremony : MeetupCount[cc] # 0 /\ MeetupCount'[cc] # 0 =>
        Registries'[cc] = Registries[cc] /\ Assignments'[cc] = Assignments[cc]

\* A change of registrations.
LEMMA RegistrationInv ==
    ASSUME Inv, NEW cid, Registration(cid)
    PROVE  Inv' /\ Untouched
<1>1. Target' = Target
  BY DEF Registration, Target
<1>2. \A cc \in Ceremony : cc # <<cid, Target>> => Registries'[cc] = Registries[cc]
  BY DEF Registration
<1>3. ASSUME NEW cc \in Ceremony, NEW t \in ParticipantTypes
      PROVE  AssignmentCounts'[cc][t] <= Registries'[cc][t].count
  <2>1. AssignmentCounts'[cc][t] = AssignmentCounts[cc][t]
    BY DEF Registration
  <2>2. CASE cc # <<cid, Target>>
    BY <1>2, <2>1, <2>2 DEF Inv, Seated, SeatsResolve
  <2>3. CASE cc = <<cid, Target>>
    <3>1. cc[2] >= Target
      BY <2>3 DEF Ceremony, Index, Inv, Seated, Target
    <3>2. AssignmentCounts[cc][t] = 0
      BY <3>1 DEF Inv, Seated
    <3>3. Registries'[cc][t].count \in Nat
      BY DEF Registration, Good, Continuous
    <3> QED BY <2>1, <3>2, <3>3
  <2> QED BY <2>2, <2>3
<1>4. Seated'
  BY <1>1, <1>3 DEF Inv, Seated, SeatsResolve, Registration
<1>5. Untouched
  <2> SUFFICES ASSUME NEW cc \in Ceremony, MeetupCount[cc] # 0
               PROVE  Registries'[cc] = Registries[cc] /\ Assignments'[cc] = Assignments[cc]
    BY DEF Untouched
  <2>1. cc # <<cid, Target>>
    BY DEF Inv, Seated, Ceremony, Index, Target
  <2> QED BY <1>2, <2>1 DEF Registration
<1> QED BY <1>4, <1>5 DEF Inv, Registration

\* A step that changes neither registrations nor seats, but maybe the phase.
LEMMA QuietInv ==
    ASSUME Inv, UNCHANGED <<Registries, AssignmentCounts, Assignments, MeetupCount>>,
           \/ UNCHANGED <<CurrentPhase, CurrentCeremonyIndex>>
           \/ CurrentPhase = "Assigning" /\ PC!AdvancePhase
    PROVE  Inv' /\ Untouched
<1>1. Target' = Target /\ CurrentPhase' \in PC!Phases /\ CurrentCeremonyIndex' \in Nat
  BY DEF Inv, Seated, Target, PC!AdvancePhase, PC!FollowingPhase, PC!FollowingIndex, PC!Phases
<1>2. Good(Registries')
  BY DEF Inv
<1>3. Seated'
  BY <1>1 DEF Inv, Seated, SeatsResolve
<1> QED BY <1>2, <1>3 DEF Inv, Untouched

\* A clean-up of registrations and seats, maybe with a new Registering phase.
LEMMA PurgeInv ==
    ASSUME Inv, NEW ccs, Purge(ccs), PurgeSeats(ccs),
           \/ UNCHANGED <<CurrentPhase, CurrentCeremonyIndex>>
           \/ CurrentPhase = "Attesting" /\ PC!AdvancePhase
    PROVE  Inv' /\ Untouched
<1>1. Target' = Target /\ CurrentPhase' \in PC!Phases /\ CurrentCeremonyIndex' \in Nat
  BY DEF Inv, Seated, Target, PC!AdvancePhase, PC!FollowingPhase, PC!FollowingIndex, PC!Phases
<1>2. Good(Registries')
  BY PurgeGood DEF Inv
<1>3. \A cc \in Ceremony :
        /\ MeetupCount'[cc] = IF cc \in ccs THEN 0 ELSE MeetupCount[cc]
        /\ Assignments'[cc] = IF cc \in ccs THEN EmptyMap ELSE Assignments[cc]
        /\ Registries'[cc] = IF cc \in ccs THEN NoRegistrations ELSE Registries[cc]
        /\ AssignmentCounts'[cc] = IF cc \in ccs THEN NoSeats ELSE AssignmentCounts[cc]
  BY DEF Purge, PurgeSeats
<1>4. \A t \in ParticipantTypes : NoSeats[t] = 0 /\ NoRegistrations[t].count = 0
  BY DEF NoSeats, NoRegistrations, EmptyRegistry
<1>5. SeatsResolve'
  BY <1>3, <1>4 DEF Inv, Seated, SeatsResolve
<1>6. \A cc \in Ceremony : cc[2] >= Target' =>
         MeetupCount'[cc] = 0 /\ \A t \in ParticipantTypes : AssignmentCounts'[cc][t] = 0
  BY <1>1, <1>3, <1>4 DEF Inv, Seated
<1>7. Seated'
  BY <1>1, <1>5, <1>6 DEF Seated
<1>8. Untouched
  BY <1>3 DEF Untouched
<1> QED BY <1>2, <1>7, <1>8 DEF Inv

\* What entering Assigning does to one ceremony: its seats are new, or it goes
\* with its community, or nothing changes.
LEMMA EnterAssigningCases ==
    ASSUME EnterAssigning, NEW cc \in Ceremony
    PROVE  LET purged == PurgedWithCommunity(Inactives)
           IN  \/ /\ cc[1] \in CommunityIdentifiers'
                  /\ cc[2] = CurrentCeremonyIndex
                  /\ cc \notin purged
                  /\ AssignmentCounts'[cc] = Allowance(Registries[cc])
                  /\ MeetupCount'[cc] = MeetupsFor(Allowance(Registries[cc]))
                  /\ MeetupCount'[cc] > 0
                  /\ DOMAIN Assignments'[cc] = Seats(Allowance(Registries[cc]))
               \/ /\ cc \in purged
                  /\ AssignmentCounts'[cc] = NoSeats
                  /\ Assignments'[cc] = EmptyMap
                  /\ MeetupCount'[cc] = 0
               \/ /\ cc \notin purged
                  /\ AssignmentCounts'[cc] = AssignmentCounts[cc]
                  /\ Assignments'[cc] = Assignments[cc]
                  /\ MeetupCount'[cc] = MeetupCount[cc]
<1> DEFINE purged == PurgedWithCommunity(Inactives)
<1> DEFINE stay == CommunityIdentifiers \ Inactives
<1> DEFINE counts == [cid \in stay |-> Allowance(Registries[cid, CurrentCeremonyIndex])]
<1> DEFINE seated == {cid \in stay : MeetupsFor(counts[cid]) > 0}
<1> DEFINE New(d) == d[2] = CurrentCeremonyIndex /\ d[1] \in seated
<1>0. CommunityIdentifiers' = stay
  BY DEF EnterAssigning
<1>1. PICK seating :
        /\ \A cid \in seated :
             seating[cid] \in [Seats(counts[cid]) -> 1 .. MeetupsFor(counts[cid])]
        /\ AssignmentCounts' = [d \in Ceremony |-> IF New(d) THEN counts[d[1]]
                                                   ELSE IF d \in purged THEN NoSeats
                                                   ELSE AssignmentCounts[d]]
        /\ Assignments' = [d \in Ceremony |-> IF New(d) THEN seating[d[1]]
                                              ELSE IF d \in purged THEN EmptyMap
                                              ELSE Assignments[d]]
        /\ MeetupCount' = [d \in Ceremony |-> IF New(d) THEN MeetupsFor(counts[d[1]])
                                              ELSE IF d \in purged THEN 0
                                              ELSE MeetupCount[d]]
  BY Zenon DEF EnterAssigning
<1>2. CASE New(cc)
  <2>1. cc[2] = CurrentCeremonyIndex /\ cc[1] \in stay
    BY <1>2
  <2>2. cc \notin purged
    BY <2>1 DEF PurgedWithCommunity
  <2>3. cc = <<cc[1], CurrentCeremonyIndex>>
    BY <2>1 DEF Ceremony
  <2>4. /\ AssignmentCounts'[cc] = counts[cc[1]]
        /\ Assignments'[cc] = seating[cc[1]]
        /\ MeetupCount'[cc] = MeetupsFor(counts[cc[1]])
    BY <1>1, <1>2
  <2>5. counts[cc[1]] = Allowance(Registries[cc])
    BY <2>1, <2>3
  <2>6. MeetupsFor(counts[cc[1]]) > 0 /\ DOMAIN seating[cc[1]] = Seats(counts[cc[1]])
    BY <1>1, <1>2
  <2> QED BY <1>0, <2>1, <2>2, <2>4, <2>5, <2>6
<1> HIDE DEF New, purged
<1>3. CASE ~ New(cc) /\ cc \in purged
  BY <1>1, <1>3 DEF purged
<1>4. CASE ~ New(cc) /\ cc \notin purged
  BY <1>1, <1>4 DEF purged
<1> QED BY <1>2, <1>3, <1>4

\* Entering Assigning.
LEMMA EnterAssigningInv ==
    ASSUME Inv, EnterAssigning
    PROVE  Inv' /\ Untouched
<1> DEFINE purged == PurgedWithCommunity(Inactives)
<1>1. /\ CurrentPhase = "Registering"
      /\ Purge(purged)
      /\ PC!AdvancePhase
  BY DEF EnterAssigning
<1>2. /\ Target = CurrentCeremonyIndex
      /\ Target' = CurrentCeremonyIndex + 1
      /\ CurrentPhase' \in PC!Phases
      /\ CurrentCeremonyIndex' \in Nat
  BY <1>1 DEF Inv, Seated, Target, PC!AdvancePhase, PC!FollowingPhase, PC!FollowingIndex, PC!Phases
<1>3. Good(Registries')
  BY <1>1, PurgeGood DEF Inv
<1>4. \A cc \in Ceremony :
        Registries'[cc] = IF cc \in purged THEN NoRegistrations ELSE Registries[cc]
  BY <1>1 DEF Purge
<1>5. \A t \in ParticipantTypes : NoSeats[t] = 0 /\ NoRegistrations[t].count = 0
  BY DEF NoSeats, NoRegistrations, EmptyRegistry
<1>6. ASSUME NEW cc \in Ceremony
      PROVE  /\ \A t \in ParticipantTypes : AssignmentCounts'[cc][t] <= Registries'[cc][t].count
             /\ cc[2] >= Target' =>
                  MeetupCount'[cc] = 0 /\ \A t \in ParticipantTypes : AssignmentCounts'[cc][t] = 0
             /\ MeetupCount[cc] # 0 /\ MeetupCount'[cc] # 0 =>
                  Registries'[cc] = Registries[cc] /\ Assignments'[cc] = Assignments[cc]
  <2>0. cc[2] \in Nat /\ CurrentCeremonyIndex \in Nat
    BY DEF Inv, Seated, Ceremony, Index
  <2>1. CASE /\ cc[2] = CurrentCeremonyIndex
             /\ cc \notin purged
             /\ AssignmentCounts'[cc] = Allowance(Registries[cc])
    <3>1. MeetupCount[cc] = 0 /\ ~ (cc[2] >= Target')
      BY <1>2, <2>0, <2>1 DEF Inv, Seated
    <3>2. \A t \in ParticipantTypes : Registries[cc][t].count \in Nat
      BY DEF Inv, Good, Continuous
    <3>3. \A t \in ParticipantTypes : Allowance(Registries[cc])[t] <= Registries[cc][t].count
      BY <3>2, AllowanceBound
    <3> QED BY <1>4, <2>1, <3>1, <3>3
  <2>2. CASE /\ cc \in purged
             /\ AssignmentCounts'[cc] = NoSeats
             /\ MeetupCount'[cc] = 0
    BY <1>4, <1>5, <2>2
  <2>3. CASE /\ cc \notin purged
             /\ AssignmentCounts'[cc] = AssignmentCounts[cc]
             /\ Assignments'[cc] = Assignments[cc]
             /\ MeetupCount'[cc] = MeetupCount[cc]
    <3>1. Registries'[cc] = Registries[cc]
      BY <1>4, <2>3
    <3>2. \A t \in ParticipantTypes : AssignmentCounts[cc][t] <= Registries[cc][t].count
      BY DEF Inv, Seated, SeatsResolve
    <3>3. cc[2] >= Target' => cc[2] >= Target
      BY <1>2, <2>0
    <3>4. cc[2] >= Target => MeetupCount[cc] = 0 /\ \A t \in ParticipantTypes : AssignmentCounts[cc][t] = 0
      BY DEF Inv, Seated
    <3> QED BY <2>3, <3>1, <3>2, <3>3, <3>4
  <2> QED BY <2>1, <2>2, <2>3, EnterAssigningCases
<1>7. Seated'
  BY <1>2, <1>6 DEF Seated, SeatsResolve
<1>8. Untouched
  BY <1>6 DEF Untouched
<1> QED BY <1>3, <1>7, <1>8 DEF Inv

\* Every step keeps the invariant and leaves seated ceremonies untouched.
LEMMA StepInv ==
    ASSUME Inv, [Next]_vars
    PROVE  Inv' /\ Untouched
<1> USE DEF scheduler, seats
<1>1. ASSUME NEW a \in Account, NEW cid \in Community,
             \/ register_without_proof(a, cid)
             \/ unregister_without_refund(a, cid)
             \/ \E pcid \in Community, k \in Index :
                  \/ unregister_with_refund(a, cid, pcid, k)
                  \/ \E attendee \in Account :
                       \/ register_with_proof(a, cid, attendee, pcid, k)
                       \/ upgrade_registration(a, cid, attendee, pcid, k)
             \/ \E newbie \in Endorsable : endorse_newcomer(a, cid, newbie)
      PROVE  Inv' /\ Untouched
  <2>1. Registration(cid)
    BY <1>1, RegistrationStep, ConstantsAssumption DEF Inv
  <2> QED BY <2>1, RegistrationInv
<1>2. ASSUME NEW cid \in Community, NEW m,
             (\E legit \in SUBSET Account : claim_rewards(cid, m, legit)) \/ claim_fails(cid, m)
      PROVE  Inv' /\ Untouched
  BY <1>2, QuietInv DEF claim_rewards, claim_fails, ClaimFrame
<1>3. ASSUME NEW cc, purge_community_ceremony(cc)
      PROVE  Inv' /\ Untouched
  BY <1>3, PurgeInv DEF purge_community_ceremony
<1>4. ASSUME NEW n, \/ set_reputation_lifetime(n)
                    \/ set_inactivity_timeout(n)
                    \/ set_endorsement_tickets_per_bootstrapper(n)
                    \/ set_endorsement_tickets_per_reputable(n)
      PROVE  Inv' /\ Untouched
  BY <1>4, QuietInv DEF set_reputation_lifetime, set_inactivity_timeout,
     set_endorsement_tickets_per_bootstrapper, set_endorsement_tickets_per_reputable, scheduler, seats
<1>5. CASE EnterAssigning
  BY <1>5, EnterAssigningInv
<1>6. CASE EnterAttesting
  BY <1>6, QuietInv DEF EnterAttesting
<1>7. CASE EnterRegistering
  BY <1>7, PurgeInv DEF EnterRegistering
<1>8. CASE UNCHANGED vars
  BY <1>8, QuietInv DEF vars
<1> QED BY <1>1, <1>2, <1>3, <1>4, <1>5, <1>6, <1>7, <1>8 DEF Next

\* Registries stay continuous, for any number of accounts, communities and
\* ceremonies, through registering, upgrading, endorsing, unregistering and
\* purging in any order.
THEOREM RegistriesStayContinuous == Spec => []RegistriesContinuous
<1>1. Inv => RegistriesContinuous
  BY DEF Inv, Good, RegistriesContinuous
<1> QED BY <1>1, InitInv, StepInv, PTL DEF Spec

\* Nobody is ever registered twice for a ceremony.
THEOREM RegisteredOnce == Spec => []OneRegistration
<1>1. Inv => OneRegistration
  BY DEF Inv, Good, OneRegistration
<1> QED BY <1>1, InitInv, StepInv, PTL DEF Spec

\* There is a participant for every assigned seat.
THEOREM SeatsAlwaysResolve == Spec => []SeatsResolve
<1>1. Inv => SeatsResolve
  BY DEF Inv, Seated
<1> QED BY <1>1, InitInv, StepInv, PTL DEF Spec

\* The participants of a meetup never change between assignment and clean-up.
THEOREM MeetupsStayFrozen == Spec => MeetupsFrozen
<1> DEFINE Frozen ==
      \A cc \in Ceremony :
         MeetupCount[cc] # 0 /\ MeetupCount'[cc] # 0
         => \A m \in 1 .. MeetupCount[cc] :
              MeetupParticipants(cc, m)' = MeetupParticipants(cc, m)
<1>1. Untouched => Frozen
  BY DEF Untouched, MeetupParticipants
<1>2. Inv /\ [Next]_vars => Inv' /\ [Frozen]_vars
  BY <1>1, StepInv
<1>3. Spec => [][Frozen]_vars
  BY <1>2, InitInv, PTL DEF Spec
<1> QED BY <1>3 DEF MeetupsFrozen

-----------------------------------------------------------------------------
(* Rewards.                                                                 *)

\* The accounts with verified reputation of a ceremony.
VerifiedIn(cc) == {a \in Account : IsVerified(ParticipantReputation[cc][a])}

\* The storage maps of reputation and rewards.
RewardShape ==
    /\ CurrentCeremonyIndex \in Index
    /\ DOMAIN ParticipantReputation = Ceremony
    /\ \A cc \in Ceremony : DOMAIN ParticipantReputation[cc] = Account
    /\ DOMAIN IssuedRewards = Ceremony
    /\ DOMAIN ReputationCount = Ceremony
    /\ \A cc \in Ceremony : MeetupCount[cc] \in Nat
    /\ \A cc \in Ceremony : \A s \in DOMAIN Assignments[cc] :
         s[1] \in ParticipantTypes /\ s = <<s[1], s[2]>>

\* The inductive invariant behind CountsVerified: only meetups are settled,
\* and only participants of settled meetups are verified.
Rewarded ==
    /\ RewardShape
    /\ \A cc \in Ceremony : MeetupCount[cc] = 0 => IssuedRewards[cc] = {}
    /\ \A cc \in Ceremony : \A a \in VerifiedIn(cc) :
         \E m \in IssuedRewards[cc] : a \in MeetupParticipants(cc, m)
    /\ CountsVerified

\* Nobody has seats in two meetups of a ceremony.
LEMMA OneMeetup ==
    ASSUME Inv, Rewarded, NEW cc \in Ceremony, NEW a \in Account, NEW m, NEW n,
           a \in MeetupParticipants(cc, m), a \in MeetupParticipants(cc, n)
    PROVE  m = n
<1> DEFINE Holds(s, i) ==
      /\ s \in DOMAIN Assignments[cc]
      /\ Assignments[cc][s] = i
      /\ s[2] \in DOMAIN Registries[cc][s[1]].registry
      /\ Registries[cc][s[1]].registry[s[2]] = a
<1>1. PICK s : Holds(s, m)
  BY DEF MeetupParticipants
<1>2. PICK u : Holds(u, n)
  BY DEF MeetupParticipants
<1>3. ASSUME NEW v, NEW i, Holds(v, i)
      PROVE  /\ v[1] \in ParticipantTypes
             /\ v = <<v[1], v[2]>>
             /\ a \in Enlisted(Registries[cc][v[1]])
             /\ Registries[cc][v[1]].index[a] = v[2]
  <2>1. v[1] \in ParticipantTypes /\ v = <<v[1], v[2]>>
    BY <1>3 DEF Rewarded, RewardShape
  <2>2. Continuous(Registries[cc][v[1]])
    BY <2>1 DEF Inv, Good
  <2> QED BY <1>3, <2>1, <2>2 DEF Continuous, Enlisted
<1>4. s[1] = u[1]
  BY <1>1, <1>2, <1>3 DEF Inv, Good
<1>5. s = u
  BY <1>1, <1>2, <1>3, <1>4
<1> QED BY <1>1, <1>2, <1>5

\* Nobody is verified in a ceremony that is open for registration.
LEMMA OpenUnverified ==
    ASSUME Inv, Rewarded, NEW cc \in Ceremony, cc[2] >= Target
    PROVE  VerifiedIn(cc) = {}
BY DEF Inv, Seated, Rewarded

\* What a step may do to reputation without disturbing the rewards.
SameVerified ==
    /\ DOMAIN ParticipantReputation' = Ceremony
    /\ \A cc \in Ceremony : DOMAIN ParticipantReputation'[cc] = Account
    /\ \A cc \in Ceremony : VerifiedIn(cc)' = VerifiedIn(cc)

\* A step that only links or refunds reputation.
LEMMA SameVerifiedInv ==
    ASSUME Rewarded, Untouched, SameVerified, CurrentCeremonyIndex' \in Index,
           UNCHANGED <<seats, rewards>>
    PROVE  Rewarded'
<1> USE DEF seats, rewards
<1>1. RewardShape'
  BY DEF Rewarded, RewardShape, SameVerified
<1>2. \A cc \in Ceremony : MeetupCount'[cc] = 0 => IssuedRewards'[cc] = {}
  BY DEF Rewarded
<1>3. ASSUME NEW cc \in Ceremony, NEW a \in VerifiedIn(cc)'
      PROVE  \E m \in IssuedRewards'[cc] : a \in MeetupParticipants(cc, m)'
  <2>1. a \in VerifiedIn(cc)
    BY DEF SameVerified
  <2>2. PICK m \in IssuedRewards[cc] : a \in MeetupParticipants(cc, m)
    BY <2>1 DEF Rewarded
  <2>3. MeetupCount[cc] # 0
    BY <2>2 DEF Rewarded
  <2>4. MeetupParticipants(cc, m)' = MeetupParticipants(cc, m)
    BY <2>3 DEF Untouched, MeetupParticipants
  <2> QED BY <2>2, <2>4
<1>4. CountsVerified'
  BY DEF Rewarded, CountsVerified, SameVerified, VerifiedIn
<1> QED BY <1>1, <1>2, <1>3, <1>4 DEF Rewarded

\* A proof of attendance links a reputation, which stays verified.
LEMMA LinkVerified ==
    ASSUME Inv, Rewarded, NEW cid, NEW a, NEW attendee \in Account, NEW pcid \in Community,
           NEW k \in Index, ProofAccepted(cid, Target, a, attendee, pcid, k),
           LinkReputation(cid, Target, a, attendee, pcid, k)
    PROVE  SameVerified
<1> DEFINE p == <<pcid, k>>
<1> DEFINE d == <<cid, Target>>
<1>1. /\ DOMAIN ParticipantReputation = Ceremony
      /\ \A cc \in Ceremony : DOMAIN ParticipantReputation[cc] = Account
      /\ p \in Ceremony
      /\ p # d
      /\ IsVerified(ParticipantReputation[p][attendee])
  <2>1. k < Target /\ IsVerified(ParticipantReputation[p][attendee])
    BY DEF ProofAccepted, UnlinkedFor
  <2>2. k \in Int /\ Target \in Int
    BY DEF Inv, Seated, Target, Index
  <2> QED BY <2>1, <2>2 DEF Rewarded, RewardShape, Ceremony
<1>2. ParticipantReputation' =
        [ParticipantReputation EXCEPT ![p][attendee] = VerifiedLinked(Target),
                                      ![d][a] = UnverifiedReputable]
  BY DEF LinkReputation
<1>3. d \in Ceremony => \A x \in Account : ~ IsVerified(ParticipantReputation[d][x])
  <2>1. d[2] >= Target
    <3>1. Target \in Int
      BY DEF Inv, Seated, Target
    <3> QED BY <3>1
  <2> HIDE DEF d
  <2> QED BY <2>1, OpenUnverified DEF VerifiedIn
<1>4. ~ IsVerified(UnverifiedReputable) /\ IsVerified(VerifiedLinked(Target))
  BY DEF IsVerified, UnverifiedReputable, VerifiedLinked
<1> HIDE DEF p, d
<1>5. ASSUME NEW cc \in Ceremony
      PROVE  /\ DOMAIN ParticipantReputation'[cc] = Account
             /\ \A x \in Account : IsVerified(ParticipantReputation'[cc][x])
                                   <=> IsVerified(ParticipantReputation[cc][x])
  <2>1. CASE cc = p
    BY <1>1, <1>2, <1>4, <2>1
  <2>2. CASE cc = d
    BY <1>1, <1>2, <1>3, <1>4, <2>2
  <2>3. CASE cc # p /\ cc # d
    BY <1>1, <1>2, <2>3
  <2> QED BY <2>1, <2>2, <2>3
<1>6. DOMAIN ParticipantReputation' = Ceremony
  BY <1>1, <1>2
<1> QED BY <1>5, <1>6 DEF SameVerified, VerifiedIn

\* A refund unlinks a reputation, which stays verified.
LEMMA RefundVerified ==
    ASSUME Inv, Rewarded, NEW cid, NEW a \in Account, NEW pcid \in Community, NEW k \in Index,
           ParticipantReputation[<<pcid, k>>][a] = VerifiedLinked(Target),
           Refund(cid, a, pcid, k)
    PROVE  SameVerified
<1> DEFINE p == <<pcid, k>>
<1> DEFINE d == <<cid, Target>>
<1>1. /\ ~ IsVerified(Unverified)
      /\ IsVerified(VerifiedUnlinked)
      /\ IsVerified(VerifiedLinked(Target))
  BY DEF IsVerified, Unverified, VerifiedUnlinked, VerifiedLinked
<1>2. d \in Ceremony => \A x \in Account : ~ IsVerified(ParticipantReputation[d][x])
  <2>1. d[2] >= Target
    <3>1. Target \in Int
      BY DEF Inv, Seated, Target
    <3> QED BY <3>1
  <2> HIDE DEF d
  <2> QED BY <2>1, OpenUnverified DEF VerifiedIn
<1>3. /\ DOMAIN ParticipantReputation = Ceremony
      /\ \A cc \in Ceremony : DOMAIN ParticipantReputation[cc] = Account
      /\ p \in Ceremony
      /\ ParticipantReputation[p][a] = VerifiedLinked(Target)
  BY DEF Rewarded, RewardShape, Ceremony
<1>4. ParticipantReputation' =
        [ParticipantReputation EXCEPT ![p][a] = VerifiedUnlinked, ![d][a] = Unverified]
  BY DEF Refund
<1> HIDE DEF p, d
<1>5. p # d /\ IsVerified(ParticipantReputation[p][a])
  BY <1>1, <1>2, <1>3
<1>6. ASSUME NEW cc \in Ceremony
      PROVE  /\ DOMAIN ParticipantReputation'[cc] = Account
             /\ \A x \in Account : IsVerified(ParticipantReputation'[cc][x])
                                   <=> IsVerified(ParticipantReputation[cc][x])
  <2>1. CASE cc = p
    BY <1>1, <1>3, <1>4, <1>5, <2>1
  <2>2. CASE cc = d
    BY <1>1, <1>2, <1>3, <1>4, <2>2
  <2>3. CASE cc # p /\ cc # d
    BY <1>3, <1>4, <2>3
  <2> QED BY <2>1, <2>2, <2>3
<1>7. DOMAIN ParticipantReputation' = Ceremony
  BY <1>3, <1>4
<1> QED BY <1>6, <1>7 DEF SameVerified, VerifiedIn

\* The extrinsics that change a registration leave the verified ones verified.
LEMMA RegistrationVerified ==
    ASSUME Inv, Rewarded, NEW a \in Account, NEW cid \in Community,
           \/ register_without_proof(a, cid)
           \/ unregister_without_refund(a, cid)
           \/ \E pcid \in Community, k \in Index :
                \/ unregister_with_refund(a, cid, pcid, k)
                \/ \E attendee \in Account :
                     \/ register_with_proof(a, cid, attendee, pcid, k)
                     \/ upgrade_registration(a, cid, attendee, pcid, k)
           \/ \E newbie \in Endorsable : endorse_newcomer(a, cid, newbie)
    PROVE  SameVerified /\ UNCHANGED <<scheduler, communities, seats, rewards, parameters>>
<1> USE DEF RegistrationFrame, UnregisterFrame
<1>1. UNCHANGED ParticipantReputation => SameVerified
  BY DEF SameVerified, VerifiedIn, Rewarded, RewardShape
<1>2. CASE register_without_proof(a, cid)
  BY <1>1, <1>2 DEF register_without_proof
<1>3. CASE unregister_without_refund(a, cid)
  BY <1>1, <1>3 DEF unregister_without_refund
<1>4. ASSUME NEW pcid \in Community, NEW k \in Index, unregister_with_refund(a, cid, pcid, k)
      PROVE  SameVerified /\ UNCHANGED <<scheduler, communities, seats, rewards, parameters>>
  <2>1. /\ ParticipantReputation[<<pcid, k>>][a] = VerifiedLinked(Target)
        /\ Refund(cid, a, pcid, k)
        /\ UNCHANGED <<scheduler, communities, seats, rewards, parameters>>
    BY <1>4 DEF unregister_with_refund
  <2> QED BY <2>1, RefundVerified
<1>5. ASSUME NEW pcid \in Community, NEW k \in Index, NEW attendee \in Account,
             register_with_proof(a, cid, attendee, pcid, k) \/ upgrade_registration(a, cid, attendee, pcid, k)
      PROVE  SameVerified /\ UNCHANGED <<scheduler, communities, seats, rewards, parameters>>
  <2>1. /\ ProofAccepted(cid, Target, a, attendee, pcid, k)
        /\ LinkReputation(cid, Target, a, attendee, pcid, k)
        /\ UNCHANGED <<scheduler, communities, seats, rewards, parameters>>
    BY <1>5 DEF register_with_proof, upgrade_registration, RegisterWithProof
  <2> QED BY <2>1, LinkVerified
<1>6. ASSUME NEW newbie, endorse_newcomer(a, cid, newbie)
      PROVE  SameVerified /\ UNCHANGED <<scheduler, communities, seats, rewards, parameters>>
  BY <1>1, <1>6 DEF endorse_newcomer
<1> QED BY <1>2, <1>3, <1>4, <1>5, <1>6

\* claim_rewards(): the legit participants of a meetup are verified, none of
\* whom was before.
LEMMA ClaimInv ==
    ASSUME Inv, Rewarded, NEW cid \in Community, NEW m, NEW legit \in SUBSET Account,
           claim_rewards(cid, m, legit)
    PROVE  Rewarded' /\ \A cc \in Ceremony : VerifiedIn(cc) \subseteq VerifiedIn(cc)'
<1>2. <<cid, ClaimedIndex>> \in Ceremony
  BY ConstantsAssumption DEF ClaimedIndex, SatSub, Rewarded, RewardShape, Ceremony, Index
<1>0. PICK d \in Ceremony : d = <<cid, ClaimedIndex>>
  BY <1>2
<1>1. /\ m \in 1 .. MeetupCount[d]
      /\ m \notin IssuedRewards[d]
      /\ legit \subseteq MeetupParticipants(d, m)
      /\ ParticipantReputation' =
           [ParticipantReputation EXCEPT ![d] =
              [a \in Account |-> IF a \in legit THEN VerifiedUnlinked ELSE ParticipantReputation[d][a]]]
      /\ ReputationCount' = [ReputationCount EXCEPT ![d] = ReputationCount[d] + Cardinality(legit)]
      /\ IssuedRewards' = [IssuedRewards EXCEPT ![d] = IssuedRewards[d] \cup {m}]
      /\ UNCHANGED <<scheduler, Registries, seats>>
  BY <1>0 DEF claim_rewards, ClaimFrame
<1>3. RewardShape
  BY DEF Rewarded
<1>4. RewardShape'
  BY <1>1, <1>3 DEF RewardShape, scheduler, seats
<1>5. \A cc \in Ceremony : \A n : MeetupParticipants(cc, n)' = MeetupParticipants(cc, n)
  BY <1>1 DEF MeetupParticipants, seats
<1>6. /\ \A cc \in Ceremony : cc # d => VerifiedIn(cc)' = VerifiedIn(cc)
      /\ VerifiedIn(d)' = VerifiedIn(d) \cup legit
  <2>1. IsVerified(VerifiedUnlinked)
    BY DEF IsVerified, VerifiedUnlinked
  <2> QED BY <1>1, <1>2, <1>3, <2>1 DEF VerifiedIn, RewardShape
<1>7. VerifiedIn(d) \cap legit = {}
  <2> SUFFICES ASSUME NEW a \in VerifiedIn(d) \cap legit PROVE FALSE
    OBVIOUS
  <2>1. a \in Account
    BY DEF VerifiedIn
  <2>2. PICK n \in IssuedRewards[d] : a \in MeetupParticipants(d, n)
    BY <1>2 DEF Rewarded
  <2>3. n = m
    BY <1>1, <1>2, <2>1, <2>2, OneMeetup
  <2> QED BY <1>1, <2>2, <2>3
<1>8. CountsVerified'
  <2>1. IsFiniteSet(VerifiedIn(d)) /\ IsFiniteSet(legit)
    BY SeatsAssumption, FS_Subset DEF VerifiedIn
  <2>2. Cardinality(VerifiedIn(d) \cup legit) = Cardinality(VerifiedIn(d)) + Cardinality(legit)
    <3>1. Cardinality(VerifiedIn(d) \cup legit)
            = Cardinality(VerifiedIn(d)) + Cardinality(legit) - Cardinality({})
      BY <1>7, <2>1, FS_Union
    <3>2. /\ Cardinality(VerifiedIn(d)) \in Nat
          /\ Cardinality(legit) \in Nat
          /\ Cardinality({}) = 0
      BY <2>1, FS_EmptySet, FS_CardinalityType
    <3> QED BY <3>1, <3>2
  <2>3. \A cc \in Ceremony : ReputationCount[cc] = Cardinality(VerifiedIn(cc))
    BY DEF Rewarded, CountsVerified, VerifiedIn
  <2>4. \A cc \in Ceremony : ReputationCount'[cc] = Cardinality(VerifiedIn(cc)')
    BY <1>1, <1>2, <1>3, <1>6, <2>2, <2>3 DEF RewardShape
  <2> QED BY <2>4 DEF CountsVerified, VerifiedIn
<1>9. ASSUME NEW cc \in Ceremony, NEW a \in VerifiedIn(cc)'
      PROVE  \E n \in IssuedRewards'[cc] : a \in MeetupParticipants(cc, n)'
  <2>1. IssuedRewards[cc] \subseteq IssuedRewards'[cc] /\ m \in IssuedRewards'[d]
    BY <1>1, <1>2, <1>3 DEF RewardShape
  <2>2. CASE a \in VerifiedIn(cc)
    BY <1>5, <2>1, <2>2 DEF Rewarded
  <2>3. CASE cc = d /\ a \in legit
    BY <1>1, <1>5, <2>1, <2>3
  <2> QED BY <1>6, <2>2, <2>3
<1>10. \A cc \in Ceremony : MeetupCount'[cc] = 0 => IssuedRewards'[cc] = {}
  BY <1>1, <1>2, <1>3 DEF Rewarded, RewardShape, seats
<1> QED BY <1>4, <1>6, <1>8, <1>9, <1>10 DEF Rewarded

\* What purge_community_ceremony_internal does to the reputation of ceremonies.
LEMMA PurgeReputation ==
    ASSUME NEW ccs, Purge(ccs)
    PROVE  /\ DOMAIN ParticipantReputation' = Ceremony
           /\ DOMAIN IssuedRewards' = Ceremony
           /\ DOMAIN ReputationCount' = Ceremony
           /\ \A cc \in Ceremony : cc \in ccs =>
                /\ DOMAIN ParticipantReputation'[cc] = Account
                /\ VerifiedIn(cc)' = {}
                /\ IssuedRewards'[cc] = {}
                /\ ReputationCount'[cc] = 0
           /\ \A cc \in Ceremony : cc \notin ccs =>
                /\ ParticipantReputation'[cc] = ParticipantReputation[cc]
                /\ Registries'[cc] = Registries[cc]
                /\ VerifiedIn(cc)' = VerifiedIn(cc)
                /\ IssuedRewards'[cc] = IssuedRewards[cc]
                /\ ReputationCount'[cc] = ReputationCount[cc]
<1>1. /\ ParticipantReputation' =
           [cc \in Ceremony |-> IF cc \in ccs THEN NoReputation ELSE ParticipantReputation[cc]]
      /\ ReputationCount' = [cc \in Ceremony |-> IF cc \in ccs THEN 0 ELSE ReputationCount[cc]]
      /\ IssuedRewards' = [cc \in Ceremony |-> IF cc \in ccs THEN {} ELSE IssuedRewards[cc]]
      /\ Registries' = [cc \in Ceremony |-> IF cc \in ccs THEN NoRegistrations ELSE Registries[cc]]
  BY DEF Purge
<1>2. DOMAIN NoReputation = Account /\ \A a \in Account : ~ IsVerified(NoReputation[a])
  BY DEF NoReputation, IsVerified, Unverified
<1> HIDE DEF NoReputation
<1> QED BY <1>1, <1>2 DEF VerifiedIn

\* Clean-up of reputation keeps the invariant if every ceremony either loses
\* everything, or keeps its participants, or gets its first seats.
LEMMA PurgeRewarded ==
    ASSUME Rewarded, NEW ccs, Purge(ccs), CurrentCeremonyIndex' \in Index,
           \A cc \in Ceremony :
             /\ MeetupCount'[cc] \in Nat
             /\ \A s \in DOMAIN Assignments'[cc] : s[1] \in ParticipantTypes /\ s = <<s[1], s[2]>>
             /\ cc \in ccs => MeetupCount'[cc] = 0
             /\ cc \notin ccs /\ MeetupCount[cc] # 0 =>
                  MeetupCount'[cc] = MeetupCount[cc] /\ Assignments'[cc] = Assignments[cc]
    PROVE  Rewarded'
<1>1. RewardShape
  BY DEF Rewarded
<1>2. RewardShape'
  <2>1. \A cc \in Ceremony : DOMAIN ParticipantReputation'[cc] = Account
    BY <1>1, PurgeReputation DEF RewardShape
  <2> QED BY <2>1, PurgeReputation DEF RewardShape
<1>3. \A cc \in Ceremony : MeetupCount'[cc] = 0 => IssuedRewards'[cc] = {}
  BY PurgeReputation DEF Rewarded
<1>4. ASSUME NEW cc \in Ceremony, NEW a \in VerifiedIn(cc)'
      PROVE  \E m \in IssuedRewards'[cc] : a \in MeetupParticipants(cc, m)'
  <2>1. /\ cc \notin ccs
        /\ a \in VerifiedIn(cc)
        /\ IssuedRewards'[cc] = IssuedRewards[cc]
        /\ Registries'[cc] = Registries[cc]
    BY PurgeReputation
  <2>2. PICK m \in IssuedRewards[cc] : a \in MeetupParticipants(cc, m)
    BY <2>1 DEF Rewarded
  <2>3. Assignments'[cc] = Assignments[cc]
    BY <2>1, <2>2 DEF Rewarded
  <2>4. MeetupParticipants(cc, m)' = MeetupParticipants(cc, m)
    BY <2>1, <2>3 DEF MeetupParticipants
  <2> QED BY <2>1, <2>2, <2>4
<1>5. CountsVerified'
  <2>1. \A cc \in Ceremony : ReputationCount[cc] = Cardinality(VerifiedIn(cc))
    BY DEF Rewarded, CountsVerified, VerifiedIn
  <2>2. ASSUME NEW cc \in Ceremony
        PROVE  ReputationCount'[cc] = Cardinality(VerifiedIn(cc)')
    <3>1. CASE cc \in ccs
      <4>1. VerifiedIn(cc)' = {} /\ ReputationCount'[cc] = 0
        BY <3>1, PurgeReputation
      <4> QED BY <4>1, FS_EmptySet
    <3>2. CASE cc \notin ccs
      <4>1. VerifiedIn(cc)' = VerifiedIn(cc) /\ ReputationCount'[cc] = ReputationCount[cc]
        BY <3>2, PurgeReputation
      <4> QED BY <2>1, <4>1
    <3> QED BY <3>1, <3>2
  <2> QED BY <2>2 DEF CountsVerified, VerifiedIn
<1> QED BY <1>2, <1>3, <1>4, <1>5 DEF Rewarded

\* What a step may not take from ceremonies that still count.
Kept ==
    \A cc \in Ceremony :
        cc[1] \in CommunityIdentifiers' /\ cc[2] >= SatSub(CurrentCeremonyIndex', ReputationLifetime')
        => MeetupCount'[cc] >= MeetupCount[cc] /\ VerifiedIn(cc) \subseteq VerifiedIn(cc)'

\* The number of meetups that generate_meetup_assignment_params announces.
LEMMA MeetupsForType ==
    ASSUME Inv, NEW cc \in Ceremony, MeetupsFor(Allowance(Registries[cc])) > 0
    PROVE  MeetupsFor(Allowance(Registries[cc])) \in Nat
<1> DEFINE counts == Allowance(Registries[cc])
<1>1. \A t \in ParticipantTypes : Registries[cc][t].count \in Nat
  BY DEF Inv, Good, Continuous
<1>2. \A t \in ParticipantTypes : counts[t] \in Int
  BY <1>1, AllowanceBound
<1> HIDE DEF counts
<1>3. SeatTotal(counts) \in Int
  BY <1>2 DEF SeatTotal, ParticipantTypes
<1>4. MeetupsFor(counts) \in Int
  BY <1>3, ConstantsAssumption DEF MeetupsFor
<1> QED BY <1>4 DEF counts

\* Entering Assigning.
LEMMA EnterAssigningRewarded ==
    ASSUME Inv, Rewarded, EnterAssigning
    PROVE  Rewarded' /\ Kept
<1> DEFINE purged == PurgedWithCommunity(Inactives)
<1>1. /\ CurrentPhase = "Registering"
      /\ Purge(purged)
      /\ PC!AdvancePhase
      /\ CommunityIdentifiers' = CommunityIdentifiers \ Inactives
  BY DEF EnterAssigning
<1>2. CurrentCeremonyIndex' \in Index
  BY <1>1 DEF Rewarded, RewardShape, PC!AdvancePhase, PC!FollowingIndex
<1>3. ASSUME NEW cc \in Ceremony
      PROVE  /\ MeetupCount'[cc] \in Nat
             /\ \A s \in DOMAIN Assignments'[cc] : s[1] \in ParticipantTypes /\ s = <<s[1], s[2]>>
             /\ cc \in purged => MeetupCount'[cc] = 0
             /\ cc \notin purged /\ MeetupCount[cc] # 0 =>
                  MeetupCount'[cc] = MeetupCount[cc] /\ Assignments'[cc] = Assignments[cc]
             /\ cc \notin purged => MeetupCount'[cc] >= MeetupCount[cc]
  <2>0. MeetupCount[cc] \in Nat
    BY DEF Rewarded, RewardShape
  <2>1. CASE /\ cc[2] = CurrentCeremonyIndex
             /\ cc \notin purged
             /\ MeetupCount'[cc] = MeetupsFor(Allowance(Registries[cc]))
             /\ MeetupCount'[cc] > 0
             /\ DOMAIN Assignments'[cc] = Seats(Allowance(Registries[cc]))
    <3>1. MeetupCount[cc] = 0
      BY <1>1, <2>1 DEF Inv, Seated, Target
    <3>2. MeetupCount'[cc] \in Nat
      BY <2>1, MeetupsForType
    <3>3. \A s \in DOMAIN Assignments'[cc] : s[1] \in ParticipantTypes /\ s = <<s[1], s[2]>>
      BY <2>1 DEF Seats
    <3> QED BY <2>0, <2>1, <3>1, <3>2, <3>3
  <2>2. CASE cc \in purged /\ Assignments'[cc] = EmptyMap /\ MeetupCount'[cc] = 0
    BY <2>2 DEF EmptyMap
  <2>3. CASE /\ cc \notin purged
             /\ Assignments'[cc] = Assignments[cc]
             /\ MeetupCount'[cc] = MeetupCount[cc]
    BY <2>0, <2>3 DEF Rewarded, RewardShape
  <2> QED BY <2>1, <2>2, <2>3, EnterAssigningCases
<1>4. \A cc \in Ceremony : cc[1] \in CommunityIdentifiers' => cc \notin purged
  BY <1>1 DEF PurgedWithCommunity
<1> HIDE DEF purged
<1>5. Rewarded'
  BY <1>1, <1>2, <1>3, PurgeRewarded
<1>6. \A cc \in Ceremony : cc \notin purged => VerifiedIn(cc)' = VerifiedIn(cc)
  BY <1>1, PurgeReputation
<1> QED BY <1>3, <1>4, <1>5, <1>6 DEF Kept

\* A clean-up of seats and reputation keeps the invariant, and touches no
\* ceremony but the ones that are cleaned up.
LEMMA CleanUpRewarded ==
    ASSUME Rewarded, NEW ccs, Purge(ccs), PurgeSeats(ccs), CurrentCeremonyIndex' \in Index
    PROVE  /\ Rewarded'
           /\ \A cc \in Ceremony : cc \notin ccs =>
                MeetupCount'[cc] = MeetupCount[cc] /\ VerifiedIn(cc)' = VerifiedIn(cc)
<1>1. \A cc \in Ceremony :
        /\ MeetupCount'[cc] = IF cc \in ccs THEN 0 ELSE MeetupCount[cc]
        /\ Assignments'[cc] = IF cc \in ccs THEN EmptyMap ELSE Assignments[cc]
  BY DEF PurgeSeats
<1>2. DOMAIN EmptyMap = {}
  BY DEF EmptyMap
<1>3. \A cc \in Ceremony :
        /\ MeetupCount'[cc] \in Nat
        /\ \A s \in DOMAIN Assignments'[cc] : s[1] \in ParticipantTypes /\ s = <<s[1], s[2]>>
  BY <1>1, <1>2 DEF Rewarded, RewardShape
<1>4. Rewarded'
  BY <1>1, <1>3, PurgeRewarded
<1> QED BY <1>1, <1>4, PurgeReputation

\* The parameters and the phase alone.
LEMMA QuietRewarded ==
    ASSUME Rewarded, CurrentCeremonyIndex' \in Index,
           UNCHANGED <<Registries, ParticipantReputation, seats, rewards>>
    PROVE  Rewarded' /\ Kept
<1>1. Untouched /\ SameVerified
  BY DEF Untouched, SameVerified, VerifiedIn, Rewarded, RewardShape, seats
<1>2. Rewarded'
  BY <1>1, SameVerifiedInv
<1>3. \A cc \in Ceremony : MeetupCount'[cc] >= MeetupCount[cc] /\ VerifiedIn(cc)' = VerifiedIn(cc)
  BY <1>1 DEF SameVerified, Rewarded, RewardShape, seats
<1> QED BY <1>2, <1>3 DEF Kept

\* Communities only disappear; lifetime and timeout are ones that can be set.
Limits ==
    /\ CommunityIdentifiers \subseteq Community
    /\ ReputationLifetime \in Lifetimes
    /\ InactivityTimeout \in Timeouts

\* Every step keeps the limits.
LEMMA StepLimits ==
    ASSUME Limits, [Next]_vars
    PROVE  Limits'
<1> USE DEF Limits, communities, parameters
<1>1. ASSUME NEW a, NEW cid,
             \/ register_without_proof(a, cid)
             \/ unregister_without_refund(a, cid)
             \/ \E pcid, k : unregister_with_refund(a, cid, pcid, k)
             \/ \E attendee, pcid, k : \/ register_with_proof(a, cid, attendee, pcid, k)
                                      \/ upgrade_registration(a, cid, attendee, pcid, k)
             \/ \E newbie : endorse_newcomer(a, cid, newbie)
      PROVE  Limits'
  BY <1>1 DEF register_without_proof, unregister_without_refund, unregister_with_refund,
     register_with_proof, upgrade_registration, RegisterWithProof, RegistrationFrame, UnregisterFrame,
     endorse_newcomer
<1>2. ASSUME NEW cid, NEW m, (\E legit : claim_rewards(cid, m, legit)) \/ claim_fails(cid, m)
      PROVE  Limits'
  BY <1>2 DEF claim_rewards, claim_fails, ClaimFrame
<1>3. ASSUME NEW cc, purge_community_ceremony(cc)
      PROVE  Limits'
  BY <1>3 DEF purge_community_ceremony
<1>4. ASSUME NEW n \in Lifetimes, set_reputation_lifetime(n)
      PROVE  Limits'
  BY <1>4 DEF set_reputation_lifetime
<1>9. ASSUME NEW n \in Timeouts, set_inactivity_timeout(n)
      PROVE  Limits'
  BY <1>9 DEF set_inactivity_timeout
<1>10. ASSUME NEW n, \/ set_endorsement_tickets_per_bootstrapper(n)
                     \/ set_endorsement_tickets_per_reputable(n)
       PROVE  Limits'
  BY <1>10 DEF set_endorsement_tickets_per_bootstrapper, set_endorsement_tickets_per_reputable
<1>5. CASE EnterAssigning
  BY <1>5 DEF EnterAssigning
<1>6. CASE EnterAttesting
  BY <1>6 DEF EnterAttesting
<1>7. CASE EnterRegistering
  BY <1>7 DEF EnterRegistering
<1>8. CASE UNCHANGED vars
  BY <1>8 DEF vars
<1> HIDE DEF Limits
<1> QED BY <1>1, <1>2, <1>3, <1>4, <1>5, <1>6, <1>7, <1>8, <1>9, <1>10 DEF Next

\* Every step keeps the invariant, and without clean-up by the CeremonyMaster
\* what can still be proven or claimed.
LEMMA StepRewarded ==
    ASSUME Inv, Rewarded, Limits, [Next]_vars
    PROVE  Rewarded' /\ (PurgeIndices = {} => Kept)
<1> USE DEF scheduler
<1>0. CurrentCeremonyIndex \in Index /\ \A cc \in Ceremony : MeetupCount[cc] \in Nat
  BY DEF Rewarded, RewardShape
<1>1. ASSUME NEW a \in Account, NEW cid \in Community,
             \/ register_without_proof(a, cid)
             \/ unregister_without_refund(a, cid)
             \/ \E pcid \in Community, k \in Index :
                  \/ unregister_with_refund(a, cid, pcid, k)
                  \/ \E attendee \in Account :
                       \/ register_with_proof(a, cid, attendee, pcid, k)
                       \/ upgrade_registration(a, cid, attendee, pcid, k)
             \/ \E newbie \in Endorsable : endorse_newcomer(a, cid, newbie)
      PROVE  Rewarded' /\ Kept
  <2>1. SameVerified /\ UNCHANGED <<scheduler, communities, seats, rewards, parameters>>
    BY <1>1, RegistrationVerified
  <2>2. Untouched
    BY StepInv
  <2>3. Rewarded'
    BY <1>0, <2>1, <2>2, SameVerifiedInv
  <2> QED BY <1>0, <2>1, <2>3 DEF Kept, SameVerified, seats
<1>2. ASSUME NEW cid \in Community, NEW m, NEW legit \in SUBSET Account, claim_rewards(cid, m, legit)
      PROVE  Rewarded' /\ Kept
  <2>1. UNCHANGED <<scheduler, seats>>
    BY <1>2 DEF claim_rewards, ClaimFrame
  <2>2. Rewarded' /\ \A cc \in Ceremony : VerifiedIn(cc) \subseteq VerifiedIn(cc)'
    BY <1>2, ClaimInv
  <2> QED BY <1>0, <2>1, <2>2 DEF Kept, seats
<1>3. ASSUME NEW cid \in Community, NEW m, claim_fails(cid, m)
      PROVE  Rewarded' /\ Kept
  <2> DEFINE d == <<cid, ClaimedIndex>>
  <2>1. /\ m \in 1 .. MeetupCount[d]
        /\ IssuedRewards' = [IssuedRewards EXCEPT ![d] = @ \cup {m}]
        /\ UNCHANGED <<CurrentCeremonyIndex, Registries, ParticipantReputation, ReputationCount,
                       AssignmentCounts, Assignments, MeetupCount>>
    BY <1>3 DEF claim_fails, ClaimFrame, seats
  <2> HIDE DEF d
  <2>2. /\ DOMAIN IssuedRewards' = Ceremony
        /\ \A cc \in Ceremony : IssuedRewards[cc] \subseteq IssuedRewards'[cc]
        /\ \A cc \in Ceremony : MeetupCount'[cc] = 0 => IssuedRewards'[cc] = {}
    BY <2>1 DEF Rewarded, RewardShape
  <2>3. RewardShape'
    BY <2>1, <2>2 DEF Rewarded, RewardShape
  <2>4. CountsVerified'
    BY <2>1 DEF Rewarded, CountsVerified
  <2>5. \A cc \in Ceremony : VerifiedIn(cc)' = VerifiedIn(cc)
    BY <2>1 DEF VerifiedIn
  <2>6. \A cc \in Ceremony : \A n : MeetupParticipants(cc, n)' = MeetupParticipants(cc, n)
    BY <2>1 DEF MeetupParticipants
  <2>7. \A cc \in Ceremony : \A a \in VerifiedIn(cc)' :
          \E n \in IssuedRewards'[cc] : a \in MeetupParticipants(cc, n)'
    BY <2>2, <2>5, <2>6 DEF Rewarded
  <2>8. Rewarded'
    BY <2>2, <2>3, <2>4, <2>7 DEF Rewarded
  <2> QED BY <1>0, <2>1, <2>5, <2>8 DEF Kept
<1>4. ASSUME NEW cc, purge_community_ceremony(cc)
      PROVE  Rewarded'
  <2>1. Purge({cc}) /\ PurgeSeats({cc}) /\ CurrentCeremonyIndex' \in Index
    BY <1>0, <1>4 DEF purge_community_ceremony
  <2> QED BY <2>1, CleanUpRewarded
<1>5. ASSUME NEW n, \/ set_reputation_lifetime(n)
                    \/ set_inactivity_timeout(n)
                    \/ set_endorsement_tickets_per_bootstrapper(n)
                    \/ set_endorsement_tickets_per_reputable(n)
      PROVE  Rewarded' /\ Kept
  <2>1. CurrentCeremonyIndex' \in Index /\ UNCHANGED <<Registries, ParticipantReputation, seats, rewards>>
    BY <1>0, <1>5 DEF set_reputation_lifetime, set_inactivity_timeout,
       set_endorsement_tickets_per_bootstrapper, set_endorsement_tickets_per_reputable
  <2> QED BY <2>1, QuietRewarded
<1>6. CASE EnterAssigning
  BY <1>6, EnterAssigningRewarded
<1>7. CASE EnterAttesting
  <2>1. CurrentCeremonyIndex' \in Index
    BY <1>0, <1>7 DEF EnterAttesting, PC!AdvancePhase, PC!FollowingIndex
  <2> QED BY <1>7, <2>1, QuietRewarded DEF EnterAttesting
<1>8. CASE EnterRegistering
  <2>1. CurrentCeremonyIndex' = CurrentCeremonyIndex + 1 /\ CurrentCeremonyIndex' \in Index
    BY <1>0, <1>8, ConstantsAssumption DEF EnterRegistering, PC!AdvancePhase, PC!FollowingIndex, Index
  <2>2. PICK ccs : ccs = Expired(CurrentCeremonyIndex')
    OBVIOUS
  <2>3. Purge(ccs) /\ PurgeSeats(ccs) /\ UNCHANGED ReputationLifetime
    BY <1>8, <2>2 DEF EnterRegistering, parameters
  <2>4. \A cc \in Ceremony : cc[2] >= SatSub(CurrentCeremonyIndex', ReputationLifetime')
                             => cc \notin ccs
    <3> SUFFICES ASSUME NEW cc \in Ceremony, cc \in ccs
                 PROVE  ~ (cc[2] >= SatSub(CurrentCeremonyIndex', ReputationLifetime'))
      OBVIOUS
    <3>1. CurrentCeremonyIndex' > ReputationLifetime
          /\ cc[2] = SatSub(SatSub(CurrentCeremonyIndex', ReputationLifetime), 1)
      BY <2>2 DEF Expired
    <3>2. ReputationLifetime \in Nat
      BY ConstantsAssumption DEF Limits
    <3> QED BY <2>1, <2>3, <3>1, <3>2 DEF SatSub, Index
  <2>5. /\ Rewarded'
        /\ \A cc \in Ceremony : cc \notin ccs =>
             MeetupCount'[cc] = MeetupCount[cc] /\ VerifiedIn(cc)' = VerifiedIn(cc)
    BY <2>1, <2>3, CleanUpRewarded
  <2> QED BY <1>0, <2>4, <2>5 DEF Kept
<1>9. CASE UNCHANGED vars
  BY <1>0, <1>9, QuietRewarded DEF vars
<1>10. (\E cc \in Community \X PurgeIndices : purge_community_ceremony(cc)) => PurgeIndices # {}
  OBVIOUS
<1> QED BY <1>1, <1>2, <1>3, <1>4, <1>5, <1>6, <1>7, <1>8, <1>9, <1>10 DEF Next

\* The genesis state has no reputation and no rewards.
LEMMA InitRewarded == Init => Rewarded /\ Limits
<1> SUFFICES ASSUME Init PROVE Rewarded /\ Limits
  OBVIOUS
<1>1. RewardShape
  BY ConstantsAssumption DEF Init, RewardShape, Index, NoReputation, EmptyMap
<1>2. \A cc \in Ceremony : VerifiedIn(cc) = {} /\ ReputationCount[cc] = 0 /\ IssuedRewards[cc] = {}
  BY DEF Init, VerifiedIn, NoReputation, IsVerified, Unverified
<1>3. CountsVerified
  BY <1>2, FS_EmptySet DEF CountsVerified, VerifiedIn
<1>4. Limits
  BY DEF Init, Limits
<1> QED BY <1>1, <1>2, <1>3, <1>4 DEF Rewarded

\* Registries, seats and rewards together.
RewardInv == Inv /\ Rewarded /\ Limits

\* The invariant holds in every reachable state.
LEMMA AlwaysRewardInv == Spec => []RewardInv
<1>1. Init => RewardInv
  BY InitInv, InitRewarded DEF RewardInv
<1>2. RewardInv /\ [Next]_vars => RewardInv'
  BY StepInv, StepRewarded, StepLimits DEF RewardInv
<1> QED BY <1>1, <1>2, PTL DEF Spec

\* ReputationCount, the electorate of the democracy pallet, is the number of
\* verified accounts: whatever is linked, refunded, claimed and purged.
THEOREM CountIsVerified == Spec => []CountsVerified
<1>1. RewardInv => CountsVerified
  BY DEF RewardInv, Rewarded
<1> QED BY <1>1, AlwaysRewardInv, PTL

\* Unless the CeremonyMaster purges by hand, reputation that can still be
\* proven and meetups that can still be claimed are kept, whatever the
\* CeremonyMaster does to the reputation lifetime.
THEOREM WindowIsKept ==
    ASSUME PurgeIndices = {}
    PROVE  Spec => WindowKept
<1> DEFINE KeptHere ==
      \A cid \in CommunityIdentifiers' :
         \A k \in SatSub(CurrentCeremonyIndex', ReputationLifetime') .. CurrentCeremonyIndex :
            /\ MeetupCount'[cid, k] >= MeetupCount[cid, k]
            /\ \A a \in Account : IsVerified(ParticipantReputation[cid, k][a])
                                  => IsVerified(ParticipantReputation'[cid, k][a])
<1>1. ASSUME RewardInv, [Next]_vars
      PROVE  [KeptHere]_vars
  <2>1. Kept /\ CommunityIdentifiers' \subseteq Community
    BY <1>1, StepRewarded, StepLimits DEF RewardInv, Limits
  <2>2. /\ CurrentCeremonyIndex \in Index
        /\ SatSub(CurrentCeremonyIndex', ReputationLifetime') \in Nat
    <3>1. CurrentCeremonyIndex' \in Index /\ ReputationLifetime' \in Nat
      BY <1>1, StepRewarded, StepLimits, ConstantsAssumption DEF RewardInv, Limits, Rewarded, RewardShape
    <3>2. CurrentCeremonyIndex \in Index
      BY <1>1 DEF RewardInv, Rewarded, RewardShape
    <3>3. \A x, y \in Nat : SatSub(x, y) \in Nat
      BY DEF SatSub
    <3>4. CurrentCeremonyIndex' \in Nat
      BY <3>1, ConstantsAssumption DEF Index
    <3> QED BY <3>1, <3>2, <3>3, <3>4
  <2> SUFFICES ASSUME NEW cid \in CommunityIdentifiers',
                      NEW k \in SatSub(CurrentCeremonyIndex', ReputationLifetime') .. CurrentCeremonyIndex
               PROVE  /\ MeetupCount'[cid, k] >= MeetupCount[cid, k]
                      /\ \A a \in Account : IsVerified(ParticipantReputation[cid, k][a])
                                            => IsVerified(ParticipantReputation'[cid, k][a])
    OBVIOUS
  <2>3. PICK cc : cc = <<cid, k>>
    OBVIOUS
  <2>4. /\ cc \in Ceremony
        /\ cc[1] \in CommunityIdentifiers'
        /\ cc[2] >= SatSub(CurrentCeremonyIndex', ReputationLifetime')
    BY <2>1, <2>2, <2>3, ConstantsAssumption DEF Ceremony, Index
  <2>5. /\ MeetupCount'[cc] >= MeetupCount[cc]
        /\ \A a \in Account : IsVerified(ParticipantReputation[cc][a])
                              => IsVerified(ParticipantReputation'[cc][a])
    BY <2>1, <2>4 DEF Kept, VerifiedIn
  <2> QED BY <2>3, <2>5, Zenon
<1>2. Spec => [][KeptHere]_vars
  BY <1>1, AlwaysRewardInv, PTL DEF Spec
<1> QED BY <1>2 DEF WindowKept

-----------------------------------------------------------------------------
(* Inactive communities.                                                    *)

\* The ceremony update_inactivity_counters has reached: the counter of a
\* community is about the ceremonies before it.
Concluded == IF CurrentPhase = "Registering" THEN CurrentCeremonyIndex - 1 ELSE CurrentCeremonyIndex

\* The inductive invariant behind IdlePurge: as many ceremonies as its counter
\* says a community has not settled any meetup.
IdleInv ==
    \A cid \in CommunityIdentifiers :
        /\ InactivityCounters[cid] \in Nat
        /\ \A k \in Nat : k < Concluded /\ k >= Concluded - InactivityCounters[cid]
                          => IssuedRewards[<<cid, k>>] = {}

\* A community that is purged has been idle for longer than the timeout.
IdleStep ==
    \A cid \in CommunityIdentifiers : cid \notin CommunityIdentifiers' =>
        \A k \in Nat : k < CurrentCeremonyIndex /\ k >= CurrentCeremonyIndex - InactivityTimeout - 1
                       => IssuedRewards[<<cid, k>>] = {}

\* A step that settles no meetup of a past ceremony.
LEMMA IdleKept ==
    ASSUME RewardInv, IdleInv, Concluded' = Concluded,
           UNCHANGED <<CommunityIdentifiers, InactivityCounters>>,
           \A cc \in Ceremony : cc[2] < Concluded /\ IssuedRewards[cc] = {} => IssuedRewards'[cc] = {}
    PROVE  IdleInv' /\ IdleStep
<1>1. ASSUME NEW cid \in CommunityIdentifiers, NEW k \in Nat, k < Concluded,
             IssuedRewards[<<cid, k>>] = {}
      PROVE  IssuedRewards'[<<cid, k>>] = {}
  <2>1. Concluded <= MaxIndex /\ MaxIndex \in Nat /\ Concluded \in Int
    BY ConstantsAssumption DEF Concluded, RewardInv, Rewarded, RewardShape, Index
  <2>2. <<cid, k>> \in Ceremony
    BY <1>1, <2>1 DEF RewardInv, Limits, Ceremony, Index
  <2> QED BY <1>1, <2>2
<1> QED BY <1>1 DEF IdleInv, IdleStep

\* A claim is about the ceremony that is being concluded, never a past one.
LEMMA ClaimIdle ==
    ASSUME RewardInv, NEW cid \in Community, NEW m,
           IssuedRewards' = [IssuedRewards EXCEPT ![<<cid, ClaimedIndex>>] = @ \cup {m}]
    PROVE  \A cc \in Ceremony : cc[2] < Concluded /\ IssuedRewards[cc] = {} => IssuedRewards'[cc] = {}
<1> SUFFICES ASSUME NEW cc \in Ceremony, cc[2] < Concluded
             PROVE  IssuedRewards'[cc] = IssuedRewards[cc]
  OBVIOUS
<1>1. CurrentCeremonyIndex \in Nat /\ cc[2] \in Nat
  BY ConstantsAssumption DEF RewardInv, Rewarded, RewardShape, Index, Ceremony
<1>2. cc[2] # ClaimedIndex
  BY <1>1 DEF ClaimedIndex, Concluded, SatSub
<1> QED BY <1>2 DEF RewardInv, Rewarded, RewardShape

\* Entering Assigning: the counters advance by the ceremony just concluded.
LEMMA EnterAssigningIdle ==
    ASSUME RewardInv, IdleInv, EnterAssigning
    PROVE  IdleInv' /\ IdleStep
<1> DEFINE c == CurrentCeremonyIndex
<1>1. /\ CurrentPhase = "Registering"
      /\ Purge(PurgedWithCommunity(Inactives))
      /\ CommunityIdentifiers' = CommunityIdentifiers \ Inactives
      /\ InactivityCounters' =
             [cid \in Community |->
                IF cid \in Inactives THEN 0
                ELSE IF cid \notin CommunityIdentifiers \ Inactives THEN InactivityCounters[cid]
                ELSE IF Idle(cid) THEN InactivityCounters[cid] + 1 ELSE 0]
      /\ PC!AdvancePhase
  BY DEF EnterAssigning
<1>2. c \in Nat /\ InactivityTimeout \in Nat /\ CommunityIdentifiers \subseteq Community
  BY ConstantsAssumption DEF RewardInv, Rewarded, RewardShape, Index, Limits
<1>3. Concluded = c - 1 /\ Concluded' = c
  BY <1>1 DEF Concluded, PC!AdvancePhase, PC!FollowingPhase, PC!FollowingIndex
<1>4. \A cid \in CommunityIdentifiers :
        Idle(cid) => \A k \in Nat : k = c - 1 => IssuedRewards[<<cid, k>>] = {}
  <2>1. \A k \in Nat : k = c - 1 => k = SatSub(c, 1)
    BY <1>2 DEF SatSub
  <2> HIDE DEF c
  <2>2. \A cid : Idle(cid) => IssuedRewards[<<cid, SatSub(c, 1)>>] = {}
    BY Zenon DEF Idle, c
  <2> QED BY <2>1, <2>2
<1>5. ASSUME NEW cid \in CommunityIdentifiers, Idle(cid), NEW k \in Nat,
             k < c, k >= c - 1 - InactivityCounters[cid]
      PROVE  IssuedRewards[<<cid, k>>] = {}
  <2>1. CASE k = c - 1
    BY <1>4, <1>5, <2>1
  <2>2. CASE k < c - 1
    BY <1>3, <1>5, <2>2 DEF IdleInv
  <2> QED BY <1>2, <1>5, <2>1, <2>2
<1>6. ASSUME NEW cid \in CommunityIdentifiers'
      PROVE  /\ InactivityCounters'[cid] \in Nat
             /\ \A k \in Nat : k < Concluded' /\ k >= Concluded' - InactivityCounters'[cid]
                               => IssuedRewards'[<<cid, k>>] = {}
  <2>1. /\ cid \in CommunityIdentifiers
        /\ InactivityCounters'[cid] = IF Idle(cid) THEN InactivityCounters[cid] + 1 ELSE 0
        /\ InactivityCounters[cid] \in Nat
    BY <1>1, <1>2 DEF IdleInv
  <2>2. ASSUME NEW k \in Nat, k < c, k >= c - InactivityCounters'[cid]
        PROVE  IssuedRewards'[<<cid, k>>] = {}
    <3>1. Idle(cid) /\ k >= c - 1 - InactivityCounters[cid]
      BY <1>2, <2>1, <2>2
    <3>2. IssuedRewards[<<cid, k>>] = {}
      BY <1>5, <2>1, <2>2, <3>1
    <3>3. <<cid, k>> \in Ceremony
      <4>1. c <= MaxIndex /\ MaxIndex \in Nat
        BY ConstantsAssumption DEF Index, RewardInv, Rewarded, RewardShape
      <4> QED BY <1>2, <2>1, <2>2, <4>1 DEF Ceremony, Index
    <3> QED BY <1>1, <3>2, <3>3, PurgeReputation
  <2> QED BY <1>3, <2>1, <2>2
<1>7. IdleStep
  <2> SUFFICES ASSUME NEW cid \in CommunityIdentifiers, cid \notin CommunityIdentifiers',
                      NEW k \in Nat, k < c, k >= c - InactivityTimeout - 1
               PROVE  IssuedRewards[<<cid, k>>] = {}
    BY DEF IdleStep
  <2>1. Idle(cid) /\ InactivityCounters[cid] >= InactivityTimeout /\ InactivityCounters[cid] \in Nat
    BY <1>1 DEF Inactives, IdleInv
  <2> QED BY <1>2, <1>5, <2>1
<1> QED BY <1>6, <1>7 DEF IdleInv

\* Every step keeps the counters right and purges idle communities only.
LEMMA StepIdle ==
    ASSUME RewardInv, IdleInv, [Next]_vars
    PROVE  IdleInv' /\ IdleStep
<1> USE DEF scheduler, communities, parameters, rewards
<1>1. ASSUME NEW a \in Account, NEW cid \in Community,
             \/ register_without_proof(a, cid)
             \/ unregister_without_refund(a, cid)
             \/ \E pcid \in Community, k \in Index :
                  \/ unregister_with_refund(a, cid, pcid, k)
                  \/ \E attendee \in Account :
                       \/ register_with_proof(a, cid, attendee, pcid, k)
                       \/ upgrade_registration(a, cid, attendee, pcid, k)
             \/ \E newbie \in Endorsable : endorse_newcomer(a, cid, newbie)
      PROVE  IdleInv' /\ IdleStep
  <2>1. UNCHANGED <<scheduler, communities, seats, rewards, parameters>>
    BY <1>1, RegistrationVerified DEF RewardInv
  <2> QED BY <2>1, IdleKept DEF Concluded
<1>2. ASSUME NEW cid \in Community, NEW m,
             (\E legit \in SUBSET Account : claim_rewards(cid, m, legit)) \/ claim_fails(cid, m)
      PROVE  IdleInv' /\ IdleStep
  <2>1. /\ IssuedRewards' = [IssuedRewards EXCEPT ![<<cid, ClaimedIndex>>] = @ \cup {m}]
        /\ UNCHANGED <<scheduler, CommunityIdentifiers, parameters>>
    BY <1>2 DEF claim_rewards, claim_fails, ClaimFrame
  <2>2. Concluded' = Concluded
    BY <2>1 DEF Concluded
  <2> QED BY <2>1, <2>2, ClaimIdle, IdleKept
<1>3. ASSUME NEW cc, purge_community_ceremony(cc)
      PROVE  IdleInv' /\ IdleStep
  <2>1. Purge({cc}) /\ UNCHANGED <<scheduler, CommunityIdentifiers, parameters>>
    BY <1>3 DEF purge_community_ceremony
  <2>2. \A d \in Ceremony : IssuedRewards[d] = {} => IssuedRewards'[d] = {}
    BY <2>1, PurgeReputation
  <2> QED BY <2>1, <2>2, IdleKept DEF Concluded
<1>4. ASSUME NEW n, \/ set_reputation_lifetime(n)
                    \/ set_inactivity_timeout(n)
                    \/ set_endorsement_tickets_per_bootstrapper(n)
                    \/ set_endorsement_tickets_per_reputable(n)
      PROVE  IdleInv' /\ IdleStep
  <2>1. UNCHANGED <<scheduler, communities, rewards, InactivityCounters>>
    BY <1>4 DEF set_reputation_lifetime, set_inactivity_timeout,
       set_endorsement_tickets_per_bootstrapper, set_endorsement_tickets_per_reputable
  <2> QED BY <2>1, IdleKept DEF Concluded
<1>5. CASE EnterAssigning
  BY <1>5, EnterAssigningIdle
<1>6. CASE EnterAttesting
  <2>1. Concluded' = Concluded
    BY <1>6 DEF EnterAttesting, Concluded, PC!AdvancePhase, PC!FollowingPhase, PC!FollowingIndex
  <2> QED BY <1>6, <2>1, IdleKept DEF EnterAttesting
<1>7. CASE EnterRegistering
  <2>1. Concluded' = Concluded
    <3>1. CurrentCeremonyIndex \in Int
      BY DEF RewardInv, Rewarded, RewardShape, Index
    <3> QED BY <1>7, <3>1 DEF EnterRegistering, Concluded, PC!AdvancePhase, PC!FollowingPhase, PC!FollowingIndex
  <2>2. PICK ccs : ccs = Expired(CurrentCeremonyIndex')
    OBVIOUS
  <2>3. Purge(ccs) /\ UNCHANGED <<CommunityIdentifiers, InactivityCounters>>
    BY <1>7, <2>2 DEF EnterRegistering
  <2>4. \A d \in Ceremony : IssuedRewards[d] = {} => IssuedRewards'[d] = {}
    BY <2>3, PurgeReputation
  <2> QED BY <2>1, <2>3, <2>4, IdleKept
<1>8. CASE UNCHANGED vars
  BY <1>8, IdleKept DEF vars, Concluded
<1> QED BY <1>1, <1>2, <1>3, <1>4, <1>5, <1>6, <1>7, <1>8 DEF Next

\* However claims, purges and new timeouts interleave, a community is purged
\* for inactivity only if it settled no meetup in as many ceremonies in a row
\* as the timeout of that moment asks for.
THEOREM OnlyIdleArePurged == Spec => IdlePurge
<1> DEFINE IdleHere ==
      \A cid \in CommunityIdentifiers \ CommunityIdentifiers' :
         \A k \in SatSub(CurrentCeremonyIndex, InactivityTimeout + 1) .. CurrentCeremonyIndex - 1 :
            IssuedRewards[cid, k] = {}
<1>1. Init => IdleInv
  <2> SUFFICES ASSUME Init PROVE IdleInv
    OBVIOUS
  <2>1. Concluded = 0 /\ \A cid \in CommunityIdentifiers : InactivityCounters[cid] = 0
    BY DEF Init, Concluded
  <2> QED BY <2>1 DEF IdleInv
<1>2. ASSUME RewardInv, IdleInv, [Next]_vars
      PROVE  IdleInv' /\ [IdleHere]_vars
  <2>1. IdleInv' /\ IdleStep
    BY <1>2, StepIdle
  <2> SUFFICES ASSUME NEW cid \in CommunityIdentifiers \ CommunityIdentifiers',
                      NEW k \in SatSub(CurrentCeremonyIndex, InactivityTimeout + 1) .. CurrentCeremonyIndex - 1
               PROVE  IssuedRewards[cid, k] = {}
    BY <2>1
  <2>2. CurrentCeremonyIndex \in Nat /\ InactivityTimeout \in Nat
    BY <1>2, ConstantsAssumption DEF RewardInv, Rewarded, RewardShape, Index, Limits
  <2>3. k \in Nat /\ k < CurrentCeremonyIndex /\ k >= CurrentCeremonyIndex - InactivityTimeout - 1
    BY <2>2 DEF SatSub
  <2>4. IssuedRewards[<<cid, k>>] = {}
    BY <2>1, <2>3 DEF IdleStep
  <2> QED BY <2>4, Zenon
<1>3. Spec => [][IdleHere]_vars
  BY <1>1, <1>2, AlwaysRewardInv, PTL DEF Spec
<1> QED BY <1>3 DEF IdlePurge

-----------------------------------------------------------------------------
(* History.                                                                 *)

\* Nothing is stored about a ceremony.
Blank(cc) ==
    /\ Registries[cc] = NoRegistrations
    /\ ParticipantReputation[cc] = NoReputation
    /\ Endorsees[cc] = {}
    /\ MeetupCount[cc] = 0

\* The inductive invariant behind NoStaleHistory: nothing is stored about
\* ceremonies that are not open yet either.
HistoryInv ==
    /\ DOMAIN Endorsees = Ceremony
    /\ NoStaleHistory
    /\ \A cc \in Ceremony : cc[2] > Target => Blank(cc)

\* NoStaleHistory in terms of Blank.
LEMMA StaleIsBlank ==
    NoStaleHistory <=>
      \A cc \in Ceremony :
        (cc[1] \notin CommunityIdentifiers \/ cc[2] < SatSub(CurrentCeremonyIndex, ReputationLifetime))
        => Blank(cc)
BY DEF NoStaleHistory, Blank

\* A step within a phase that stores something about the open ceremony d only.
LEMMA HistoryKept ==
    ASSUME RewardInv, HistoryInv, NEW d, d[1] \in CommunityIdentifiers, d[2] = Target,
           UNCHANGED <<scheduler, CommunityIdentifiers, ReputationLifetime>>,
           DOMAIN Endorsees' = Ceremony,
           \A cc \in Ceremony : cc # d /\ Blank(cc) => Blank(cc)'
    PROVE  HistoryInv'
<1> USE DEF scheduler
<1>1. /\ CurrentCeremonyIndex \in Nat
      /\ ReputationLifetime \in Nat
  BY ConstantsAssumption DEF RewardInv, Rewarded, RewardShape, Index, Limits
<1>2. Target' = Target /\ Target \in Nat /\ Target >= CurrentCeremonyIndex
  BY <1>1 DEF Target
<1>3. ~ (d[2] < SatSub(CurrentCeremonyIndex, ReputationLifetime)) /\ ~ (d[2] > Target)
  BY <1>1, <1>2 DEF SatSub
<1>4. \A cc \in Ceremony :
        (cc[1] \notin CommunityIdentifiers \/ cc[2] < SatSub(CurrentCeremonyIndex, ReputationLifetime))
        => Blank(cc)'
  BY <1>3, StaleIsBlank DEF HistoryInv
<1>5. NoStaleHistory'
  BY <1>4 DEF NoStaleHistory, Blank
<1>6. \A cc \in Ceremony : cc[2] > Target => Blank(cc)'
  BY <1>3 DEF HistoryInv
<1> QED BY <1>2, <1>5, <1>6 DEF HistoryInv

\* A step within a phase that stores nothing about blank ceremonies.
LEMMA NothingNew ==
    ASSUME RewardInv, HistoryInv,
           UNCHANGED <<Target, CurrentCeremonyIndex, CommunityIdentifiers, ReputationLifetime>>,
           DOMAIN Endorsees' = Ceremony,
           \A cc \in Ceremony : Blank(cc) => Blank(cc)'
    PROVE  HistoryInv'
<1>1. \A cc \in Ceremony :
        (cc[1] \notin CommunityIdentifiers \/ cc[2] < SatSub(CurrentCeremonyIndex, ReputationLifetime))
        => Blank(cc)'
  BY StaleIsBlank DEF HistoryInv
<1>2. NoStaleHistory'
  BY <1>1 DEF NoStaleHistory, Blank
<1> QED BY <1>2 DEF HistoryInv

\* Reputation that is verified is not blank.
LEMMA VerifiedNotBlank ==
    ASSUME NEW cc, NEW a \in Account, IsVerified(ParticipantReputation[cc][a])
    PROVE  ParticipantReputation[cc] # NoReputation
BY DEF NoReputation, IsVerified, Unverified

\* A proof of attendance needs a verified reputation, and adds to the ceremony
\* that is open.
LEMMA LinkBlank ==
    ASSUME Rewarded, NEW cid, NEW a, NEW attendee \in Account, NEW pcid \in Community,
           NEW k \in Index, ProofAccepted(cid, Target, a, attendee, pcid, k),
           LinkReputation(cid, Target, a, attendee, pcid, k)
    PROVE  \A cc \in Ceremony : cc # <<cid, Target>> /\ ParticipantReputation[cc] = NoReputation
                                => ParticipantReputation'[cc] = NoReputation
<1> DEFINE p == <<pcid, k>>
<1> DEFINE d == <<cid, Target>>
<1>1. IsVerified(ParticipantReputation[p][attendee])
  BY DEF ProofAccepted, UnlinkedFor
<1>2. ParticipantReputation[p] # NoReputation
  BY <1>1, VerifiedNotBlank
<1>3. DOMAIN ParticipantReputation = Ceremony
  BY DEF Rewarded, RewardShape
<1>4. ParticipantReputation' =
        [ParticipantReputation EXCEPT ![p][attendee] = VerifiedLinked(Target),
                                      ![d][a] = UnverifiedReputable]
  BY DEF LinkReputation
<1> HIDE DEF p
<1> QED BY <1>2, <1>3, <1>4

\* So does a refund.
LEMMA RefundBlank ==
    ASSUME Rewarded, NEW cid, NEW a \in Account, NEW pcid \in Community, NEW k \in Index,
           ParticipantReputation[<<pcid, k>>][a] = VerifiedLinked(Target),
           Refund(cid, a, pcid, k)
    PROVE  \A cc \in Ceremony : cc # <<cid, Target>> /\ ParticipantReputation[cc] = NoReputation
                                => ParticipantReputation'[cc] = NoReputation
<1> DEFINE p == <<pcid, k>>
<1> DEFINE d == <<cid, Target>>
<1>1. IsVerified(ParticipantReputation[p][a])
  BY DEF IsVerified, VerifiedLinked
<1>2. ParticipantReputation[p] # NoReputation
  BY <1>1, VerifiedNotBlank
<1>3. DOMAIN ParticipantReputation = Ceremony
  BY DEF Rewarded, RewardShape
<1>4. ParticipantReputation' =
        [ParticipantReputation EXCEPT ![p][a] = VerifiedUnlinked, ![d][a] = Unverified]
  BY DEF Refund
<1> HIDE DEF p
<1> QED BY <1>2, <1>3, <1>4

\* register() uses an endorsement up and adds none.
LEMMA RegisterEndorsees ==
    ASSUME NEW cid, NEW c, NEW a, NEW isReputable, NEW R, NEW E, DOMAIN E = Ceremony,
           Register(cid, c, a, isReputable, R, E)
    PROVE  DOMAIN Endorsees' = Ceremony /\ \A cc \in Ceremony : E[cc] = {} => Endorsees'[cc] = {}
<1>1. PICK d : \/ Endorsees' = [E EXCEPT ![d] = @ \ {a}]
               \/ Endorsees' = E
  BY Zenon DEF Register
<1> QED BY <1>1

\* The extrinsics on registrations store something about the ceremony of an
\* existing community that is open, and about no other that was blank.
LEMMA RegistrationHistory ==
    ASSUME RewardInv, HistoryInv, NEW a \in Account, NEW cid \in Community,
           \/ register_without_proof(a, cid)
           \/ unregister_without_refund(a, cid)
           \/ \E pcid \in Community, k \in Index :
                \/ unregister_with_refund(a, cid, pcid, k)
                \/ \E attendee \in Account :
                     \/ register_with_proof(a, cid, attendee, pcid, k)
                     \/ upgrade_registration(a, cid, attendee, pcid, k)
           \/ \E newbie \in Endorsable : endorse_newcomer(a, cid, newbie)
    PROVE  HistoryInv'
<1> USE DEF RegistrationFrame, UnregisterFrame
<1> DEFINE Reputations ==
      \A cc \in Ceremony : cc # <<cid, Target>> /\ ParticipantReputation[cc] = NoReputation
                           => ParticipantReputation'[cc] = NoReputation
<1> DEFINE Endorsements ==
      /\ DOMAIN Endorsees' = Ceremony
      /\ \A cc \in Ceremony : cc # <<cid, Target>> /\ Endorsees[cc] = {} => Endorsees'[cc] = {}
<1>0. DOMAIN Endorsees = Ceremony
  BY DEF HistoryInv
<1>1. ASSUME register_without_proof(a, cid)
      PROVE  cid \in CommunityIdentifiers /\ Reputations /\ Endorsements
  <2>1. Register(cid, Target, a, FALSE, Registries, Endorsees)
    BY <1>1 DEF register_without_proof
  <2>2. Endorsements
    BY <1>0, <2>1, RegisterEndorsees
  <2>3. cid \in CommunityIdentifiers /\ Reputations
    BY <1>1 DEF register_without_proof
  <2> QED BY <2>2, <2>3
<1>2. ASSUME unregister_without_refund(a, cid)
      PROVE  cid \in CommunityIdentifiers /\ Reputations /\ Endorsements
  BY <1>0, <1>2 DEF unregister_without_refund
<1>3. ASSUME NEW pcid \in Community, NEW k \in Index, unregister_with_refund(a, cid, pcid, k)
      PROVE  cid \in CommunityIdentifiers /\ Reputations /\ Endorsements
  <2>1. /\ cid \in CommunityIdentifiers
        /\ ParticipantReputation[<<pcid, k>>][a] = VerifiedLinked(Target)
        /\ Refund(cid, a, pcid, k)
        /\ UNCHANGED Endorsees
    BY <1>3 DEF unregister_with_refund
  <2>2. Reputations
    BY <2>1, RefundBlank DEF RewardInv
  <2> QED BY <1>0, <2>1, <2>2
<1>4. ASSUME NEW pcid \in Community, NEW k \in Index, NEW attendee \in Account,
             register_with_proof(a, cid, attendee, pcid, k) \/ upgrade_registration(a, cid, attendee, pcid, k)
      PROVE  cid \in CommunityIdentifiers /\ Reputations /\ Endorsements
  <2>1. PICK R : RegisterWithProof(a, cid, attendee, pcid, k, R)
    BY <1>4 DEF register_with_proof, upgrade_registration
  <2>2. /\ cid \in CommunityIdentifiers
        /\ ProofAccepted(cid, Target, a, attendee, pcid, k)
        /\ LinkReputation(cid, Target, a, attendee, pcid, k)
        /\ Register(cid, Target, a, TRUE, R, Endorsees)
    BY <2>1 DEF RegisterWithProof
  <2>3. Reputations
    BY <2>2, LinkBlank DEF RewardInv
  <2>4. Endorsements
    BY <1>0, <2>2, RegisterEndorsees
  <2> QED BY <2>2, <2>3, <2>4
<1>5. ASSUME NEW newbie, endorse_newcomer(a, cid, newbie)
      PROVE  cid \in CommunityIdentifiers /\ Reputations /\ Endorsements
  <2>1. PICK E : E = [Endorsees EXCEPT ![<<cid, Target>>] = @ \cup {newbie}]
    OBVIOUS
  <2>2. /\ cid \in CommunityIdentifiers
        /\ EndorseAndMove(cid, Target, newbie, E)
        /\ UNCHANGED ParticipantReputation
    BY <1>5, <2>1 DEF endorse_newcomer
  <2>3. DOMAIN E = Ceremony /\ \A cc \in Ceremony : cc # <<cid, Target>> => E[cc] = Endorsees[cc]
    BY <1>0, <2>1
  <2>4. ASSUME Endorsees' = E
        PROVE  Endorsements
    BY <2>2, <2>3, <2>4
  <2>5. ASSUME NEW R, Register(cid, Target, newbie, FALSE, R, E)
        PROVE  Endorsements
    <3>1. DOMAIN E = Ceremony
      BY <2>3
    <3>2. DOMAIN Endorsees' = Ceremony /\ \A cc \in Ceremony : E[cc] = {} => Endorsees'[cc] = {}
      BY <2>5, <3>1, RegisterEndorsees
    <3> QED BY <2>3, <3>2
  <2>6. Endorsees' = E \/ \E R : Register(cid, Target, newbie, FALSE, R, E)
    BY <2>2, Zenon DEF EndorseAndMove
  <2>7. Reputations
    BY <2>2
  <2> HIDE DEF Reputations, Endorsements
  <2> QED BY <2>2, <2>4, <2>5, <2>6, <2>7
<1>6. cid \in CommunityIdentifiers /\ Reputations /\ Endorsements
  <2> HIDE DEF Reputations, Endorsements
  <2> QED BY <1>1, <1>2, <1>3, <1>4, <1>5
<1>7. UNCHANGED <<scheduler, communities, seats, rewards, parameters>>
  BY RegistrationVerified DEF RewardInv
<1>8. Registration(cid)
  BY RegistrationStep, ConstantsAssumption DEF RewardInv, Inv
<1>9. PICK d : d = <<cid, Target>>
  OBVIOUS
<1>10. \A cc \in Ceremony : cc # d /\ Blank(cc) => Blank(cc)'
  BY <1>6, <1>7, <1>8, <1>9 DEF Blank, Registration, seats
<1>11. /\ d[1] \in CommunityIdentifiers
       /\ d[2] = Target
       /\ UNCHANGED <<scheduler, CommunityIdentifiers, ReputationLifetime>>
       /\ DOMAIN Endorsees' = Ceremony
  BY <1>6, <1>7, <1>9 DEF communities, parameters
<1> HIDE DEF Reputations, Endorsements
<1> QED BY <1>10, <1>11, HistoryKept

\* Clean-up leaves blank ceremonies.
LEMMA PurgeBlank ==
    ASSUME NEW ccs, Purge(ccs)
    PROVE  /\ DOMAIN Endorsees' = Ceremony
           /\ \A cc \in Ceremony : cc \in ccs /\ MeetupCount'[cc] = 0 => Blank(cc)'
           /\ \A cc \in Ceremony : Blank(cc) /\ MeetupCount'[cc] = 0 => Blank(cc)'
BY DEF Purge, Blank

\* Entering Assigning: nothing is left of the communities that go.
LEMMA EnterAssigningHistory ==
    ASSUME RewardInv, HistoryInv, EnterAssigning
    PROVE  HistoryInv'
<1> DEFINE purged == PurgedWithCommunity(Inactives)
<1> DEFINE c == CurrentCeremonyIndex
<1>1. /\ CurrentPhase = "Registering"
      /\ Purge(purged)
      /\ CommunityIdentifiers' = CommunityIdentifiers \ Inactives
      /\ ReputationLifetime' = ReputationLifetime
      /\ PC!AdvancePhase
  BY DEF EnterAssigning
<1>2. c \in Nat /\ ReputationLifetime \in Nat
  BY ConstantsAssumption DEF RewardInv, Rewarded, RewardShape, Index, Limits
<1>3. CurrentCeremonyIndex' = c /\ Target = c /\ Target' = c + 1
  BY <1>1 DEF Target, PC!AdvancePhase, PC!FollowingPhase, PC!FollowingIndex
<1>4. ASSUME NEW cc \in Ceremony, cc[1] \notin CommunityIdentifiers' \/ cc[2] # c,
             Blank(cc) \/ cc \in purged
      PROVE  Blank(cc)'
  <2>1. MeetupCount'[cc] = 0
    BY <1>4, EnterAssigningCases DEF Blank
  <2> QED BY <1>1, <1>4, <2>1, PurgeBlank
<1>5. ASSUME NEW cc \in Ceremony,
             \/ cc[1] \notin CommunityIdentifiers'
             \/ cc[2] < SatSub(c, ReputationLifetime)
      PROVE  Blank(cc)'
  <2>0. cc[2] \in Nat
    BY ConstantsAssumption DEF Ceremony, Index
  <2>1. cc[1] \notin CommunityIdentifiers' \/ cc[2] # c
    BY <1>2, <1>5, <2>0 DEF SatSub
  <2>2. CASE cc[1] \notin CommunityIdentifiers \/ cc[2] < SatSub(c, ReputationLifetime)
    <3>1. Blank(cc)
      BY <2>2, StaleIsBlank DEF HistoryInv
    <3> QED BY <1>4, <2>1, <3>1
  <2>3. CASE cc[2] > c
    <3>1. Blank(cc)
      BY <1>3, <2>3 DEF HistoryInv
    <3> QED BY <1>4, <2>1, <3>1
  <2>4. CASE /\ cc[1] \in CommunityIdentifiers
             /\ ~ (cc[2] < SatSub(c, ReputationLifetime))
             /\ ~ (cc[2] > c)
    <3>1. cc[1] \in Inactives
      BY <1>1, <1>5, <2>4
    <3>2. cc[2] \in Window(c)
      BY <1>2, <2>0, <2>4 DEF Window, SatSub
    <3>3. cc \in purged
      BY <3>1, <3>2 DEF PurgedWithCommunity
    <3> QED BY <1>4, <2>1, <3>3
  <2> QED BY <2>2, <2>3, <2>4
<1>6. NoStaleHistory'
  BY <1>1, <1>3, <1>5 DEF NoStaleHistory, Blank
<1>7. ASSUME NEW cc \in Ceremony, cc[2] > Target'
      PROVE  Blank(cc)'
  <2>0. cc[2] \in Nat
    BY ConstantsAssumption DEF Ceremony, Index
  <2>1. cc[2] > Target /\ cc[2] # c
    BY <1>2, <1>3, <1>7, <2>0
  <2> QED BY <1>4, <2>1 DEF HistoryInv
<1>8. DOMAIN Endorsees' = Ceremony
  BY <1>1, PurgeBlank
<1> QED BY <1>6, <1>7, <1>8 DEF HistoryInv

\* Entering Registering: what has just left the window goes.
LEMMA EnterRegisteringHistory ==
    ASSUME RewardInv, HistoryInv, EnterRegistering
    PROVE  HistoryInv'
<1> DEFINE c == CurrentCeremonyIndex
<1> DEFINE life == ReputationLifetime
<1>1. /\ CurrentPhase = "Attesting"
      /\ PC!AdvancePhase
      /\ UNCHANGED <<CommunityIdentifiers, ReputationLifetime>>
  BY DEF EnterRegistering, communities, parameters
<1>2. c \in Nat /\ life \in Nat
  BY ConstantsAssumption DEF RewardInv, Rewarded, RewardShape, Index, Limits
<1>3. CurrentCeremonyIndex' = c + 1 /\ Target = c + 1 /\ Target' = c + 1
  BY <1>1 DEF Target, PC!AdvancePhase, PC!FollowingPhase, PC!FollowingIndex
<1>4. PICK ccs : ccs = Expired(CurrentCeremonyIndex')
  OBVIOUS
<1>5. Purge(ccs) /\ PurgeSeats(ccs)
  BY <1>4 DEF EnterRegistering
<1>6. ASSUME NEW cc \in Ceremony, Blank(cc) \/ cc \in ccs
      PROVE  Blank(cc)'
  <2>1. MeetupCount'[cc] = 0
    BY <1>5, <1>6 DEF PurgeSeats, Blank
  <2> QED BY <1>5, <1>6, <2>1, PurgeBlank
<1>7. ASSUME NEW cc \in Ceremony,
             cc[1] \notin CommunityIdentifiers \/ cc[2] < SatSub(c + 1, life)
      PROVE  Blank(cc)'
  <2>0. cc[2] \in Nat
    BY ConstantsAssumption DEF Ceremony, Index
  <2>1. CASE cc[1] \notin CommunityIdentifiers \/ cc[2] < SatSub(c, life)
    BY <1>6, <2>1, StaleIsBlank DEF HistoryInv
  <2>2. CASE cc[1] \in CommunityIdentifiers /\ ~ (cc[2] < SatSub(c, life))
    <3>1. c + 1 > life /\ cc[2] = SatSub(SatSub(c + 1, life), 1)
      BY <1>2, <1>7, <2>0, <2>2 DEF SatSub
    <3>2. cc \in ccs
      BY <1>3, <1>4, <2>2, <3>1 DEF Expired
    <3> QED BY <1>6, <3>2
  <2> QED BY <2>1, <2>2
<1>8. NoStaleHistory'
  BY <1>1, <1>3, <1>7 DEF NoStaleHistory, Blank
<1>9. \A cc \in Ceremony : cc[2] > Target' => Blank(cc)'
  BY <1>3, <1>6 DEF HistoryInv
<1>10. DOMAIN Endorsees' = Ceremony
  BY <1>5, PurgeBlank
<1> QED BY <1>8, <1>9, <1>10 DEF HistoryInv

\* Every step keeps the invariant while the reputation lifetime stays.
LEMMA StepHistory ==
    ASSUME RewardInv, HistoryInv, [Next]_vars, NEW l, Lifetimes = {l}
    PROVE  HistoryInv'
<1>0. DOMAIN Endorsees = Ceremony
  BY DEF HistoryInv
<1>1. ASSUME NEW a \in Account, NEW cid \in Community,
             \/ register_without_proof(a, cid)
             \/ unregister_without_refund(a, cid)
             \/ \E pcid \in Community, k \in Index :
                  \/ unregister_with_refund(a, cid, pcid, k)
                  \/ \E attendee \in Account :
                       \/ register_with_proof(a, cid, attendee, pcid, k)
                       \/ upgrade_registration(a, cid, attendee, pcid, k)
             \/ \E newbie \in Endorsable : endorse_newcomer(a, cid, newbie)
      PROVE  HistoryInv'
  BY <1>1, RegistrationHistory
<1>2. ASSUME NEW cid \in Community, NEW m,
             (\E legit \in SUBSET Account : claim_rewards(cid, m, legit)) \/ claim_fails(cid, m)
      PROVE  HistoryInv'
  <2> DEFINE d == <<cid, ClaimedIndex>>
  <2>1. /\ m \in 1 .. MeetupCount[d]
        /\ UNCHANGED <<CurrentPhase, CurrentCeremonyIndex, CommunityIdentifiers, Registries, Endorsees,
                       MeetupCount, ReputationLifetime>>
        /\ \/ UNCHANGED ParticipantReputation
           \/ \E legit : ParticipantReputation' =
                [ParticipantReputation EXCEPT ![d] =
                   [a \in Account |-> IF a \in legit THEN VerifiedUnlinked ELSE ParticipantReputation[d][a]]]
    BY <1>2 DEF claim_rewards, claim_fails, ClaimFrame, scheduler, seats, parameters
  <2> HIDE DEF d
  <2>2. MeetupCount[d] # 0
    BY <2>1
  <2>3. \A cc \in Ceremony : cc # d => ParticipantReputation'[cc] = ParticipantReputation[cc]
    BY <2>1 DEF RewardInv, Rewarded, RewardShape
  <2>4. \A cc \in Ceremony : Blank(cc) => Blank(cc)'
    BY <2>1, <2>2, <2>3 DEF Blank
  <2>5. Target' = Target
    BY <2>1 DEF Target
  <2> QED BY <1>0, <2>1, <2>4, <2>5, NothingNew
<1>3. ASSUME NEW d, purge_community_ceremony(d)
      PROVE  HistoryInv'
  <2>1. /\ Purge({d})
        /\ PurgeSeats({d})
        /\ UNCHANGED <<CurrentPhase, CurrentCeremonyIndex, CommunityIdentifiers, ReputationLifetime>>
    BY <1>3 DEF purge_community_ceremony, scheduler, communities, parameters
  <2>2. \A cc \in Ceremony : MeetupCount[cc] = 0 => MeetupCount'[cc] = 0
    BY <2>1 DEF PurgeSeats
  <2>3. DOMAIN Endorsees' = Ceremony /\ \A cc \in Ceremony : Blank(cc) => Blank(cc)'
    BY <2>1, <2>2, PurgeBlank DEF Blank
  <2> QED BY <2>1, <2>3, NothingNew DEF Target
<1>4. ASSUME NEW n, \/ n \in Lifetimes /\ set_reputation_lifetime(n)
                    \/ set_inactivity_timeout(n)
                    \/ set_endorsement_tickets_per_bootstrapper(n)
                    \/ set_endorsement_tickets_per_reputable(n)
      PROVE  HistoryInv'
  <2>1. UNCHANGED <<CurrentPhase, CurrentCeremonyIndex, CommunityIdentifiers, Registries, Endorsees,
                    ParticipantReputation, MeetupCount, ReputationLifetime>>
    BY <1>4 DEF RewardInv, Limits, set_reputation_lifetime, set_inactivity_timeout,
       set_endorsement_tickets_per_bootstrapper, set_endorsement_tickets_per_reputable,
       scheduler, communities, seats
  <2> QED BY <1>0, <2>1, NothingNew DEF Blank, Target
<1>5. CASE EnterAssigning
  BY <1>5, EnterAssigningHistory
<1>6. CASE EnterAttesting
  <2>1. /\ Target' = Target /\ CurrentCeremonyIndex' = CurrentCeremonyIndex
    BY <1>6 DEF EnterAttesting, Target, PC!AdvancePhase, PC!FollowingPhase, PC!FollowingIndex
  <2>2. UNCHANGED <<CommunityIdentifiers, Registries, Endorsees, ParticipantReputation, MeetupCount,
                    ReputationLifetime>>
    BY <1>6 DEF EnterAttesting, communities, seats, parameters
  <2> QED BY <1>0, <2>1, <2>2, NothingNew DEF Blank
<1>7. CASE EnterRegistering
  BY <1>7, EnterRegisteringHistory
<1>8. CASE UNCHANGED vars
  <2>1. UNCHANGED <<CurrentPhase, CurrentCeremonyIndex, CommunityIdentifiers, Registries, Endorsees,
                    ParticipantReputation, MeetupCount, ReputationLifetime>>
    BY <1>8 DEF vars, scheduler, communities, seats, parameters
  <2> QED BY <1>0, <2>1, NothingNew DEF Blank, Target
<1> QED BY <1>1, <1>2, <1>3, <1>4, <1>5, <1>6, <1>7, <1>8 DEF Next

\* As long as nobody changes the reputation lifetime, nothing is stored about
\* ceremonies older than it, nor about communities that were purged.
THEOREM HistoryStaysBounded ==
    ASSUME NEW CONSTANT l, Lifetimes = {l}
    PROVE  Spec => []NoStaleHistory
<1>1. Init => HistoryInv
  <2> SUFFICES ASSUME Init PROVE HistoryInv
    OBVIOUS
  <2>1. DOMAIN Endorsees = Ceremony /\ \A cc \in Ceremony : Blank(cc)
    BY DEF Init, Blank
  <2> QED BY <2>1 DEF HistoryInv, NoStaleHistory, Blank
<1>2. RewardInv /\ HistoryInv /\ [Next]_vars => HistoryInv'
  BY StepHistory
<1>3. HistoryInv => NoStaleHistory
  BY DEF HistoryInv
<1> QED BY <1>1, <1>2, <1>3, AlwaysRewardInv, PTL DEF Spec

====
