---- MODULE MeetupProofs ----
(***************************************************************************)
(* Proofs about module Meetup, for meetups of any size and whatever those  *)
(* who did not meet submit: an honest majority decides, an early payout is *)
(* the final one, and nobody is paid who attested too few of the others.   *)
(*                                                                         *)
(* And about module MeetupAssignment, for any numbers of participants and  *)
(* locations and all parameters that can be drawn: the assignment function *)
(* and its inverse agree, and every meetup has somebody to be trusted.     *)
(***************************************************************************)
EXTENDS Meetup, MeetupAssignment, NumberLemmas

-----------------------------------------------------------------------------
(* Lists, votes and minima.                                                 *)

\* The reports that are stored: nobody's list names its author.
Reports ==
    /\ attestations \in [Participant -> [Participant -> Nat]]
    /\ \A p \in Participant : attestations[p][p] = 0
    /\ votes \in [Participant -> Nat]

\* The smallest of finitely many numbers is one of them.
LEMMA MinIsLeast ==
    ASSUME NEW B, B \subseteq Nat, B # {}
    PROVE  Min(B) \in B /\ Min(B) \in Nat /\ \A n \in B : Min(B) <= n
<1>1. \E n \in B : \A m \in B : n <= m
  BY LeastNumber
<1>2. Min(B) \in B /\ \A m \in B : Min(B) <= m
  BY <1>1 DEF Min
<1> QED BY <1>2

\* Participants are finitely many.
LEMMA Participants ==
    /\ IsFiniteSet(Participant)
    /\ Cardinality(Participant) = NumParticipants
    /\ \A S \in SUBSET Participant :
         /\ IsFiniteSet(S)
         /\ Cardinality(S) \in Nat
         /\ Cardinality(S) <= NumParticipants
<1>1. NumParticipants \in Nat
  BY MeetupAssumption
<1>2. IsFiniteSet(Participant) /\ Cardinality(Participant) = NumParticipants
  BY <1>1, FS_Interval DEF Participant
<1> QED BY <1>2, FS_Subset, FS_CardinalityType

\* Someone who names each of some participants once has named as many, also
\* among those who are left.
LEMMA SumOfNames ==
    ASSUME NEW f, NEW S \in SUBSET Participant, NEW T \in SUBSET S,
           \A q \in S : f[q] = IF q \in T THEN 1 ELSE 0
    PROVE  SumFunctionOnSet(f, S) = Cardinality(T)
<1>1. IsFiniteSet(S)
  BY Participants
<1> DEFINE Ones(s) == {q \in s : q \in T}
<1> DEFINE Bad == {s \in SUBSET S : SumFunctionOnSet(f, s) # Cardinality(Ones(s))}
<1> SUFFICES ASSUME Bad # {} PROVE FALSE
  <2>1. S \notin Bad /\ Ones(S) = T
    OBVIOUS
  <2> QED BY <2>1
<1>2. PICK s \in Bad : \A t \in Bad : t \subseteq s => t = s
  <2>1. Bad \subseteq SUBSET S
    OBVIOUS
  <2> HIDE DEF Bad
  <2> QED BY <1>1, <2>1, SmallestSubset
<1>3. s \subseteq S /\ IsFiniteSet(s) /\ IsFiniteSet(Ones(s))
  BY <1>1, FS_Subset
<1>4. CASE s = {}
  <2>1. Ones(s) = {}
    BY <1>4
  <2> QED BY <1>2, <1>4, <2>1, SumEmpty, FS_EmptySet
<1>5. CASE s # {}
  <2>1. PICK x \in s : TRUE
    BY <1>5
  <2> DEFINE r == s \ {x}
  <2>2. r \subseteq s /\ r # s /\ r \subseteq S /\ IsFiniteSet(Ones(r)) /\ x \in S
    BY <1>3, FS_Subset
  <2>3. SumFunctionOnSet(f, r) = Cardinality(Ones(r))
    BY <1>2, <2>2
  <2>4. Summable(f, s)
    BY <1>3 DEF Summable
  <2>5. SumFunctionOnSet(f, s) = f[x] + SumFunctionOnSet(f, r)
    BY <2>4, SumSplit
  <2>6. Cardinality(Ones(r)) \in Nat
    BY <2>2, FS_CardinalityType
  <2>7. Cardinality(Ones(s)) = f[x] + Cardinality(Ones(r))
    <3>1. CASE x \in T
      <4>1. Ones(s) = Ones(r) \cup {x} /\ x \notin Ones(r) /\ f[x] = 1
        BY <2>2, <3>1
      <4>2. PICK A, B : A = Ones(s) /\ B = Ones(r)
        OBVIOUS
      <4> HIDE DEF Ones, r
      <4>3. IsFiniteSet(B) /\ x \notin B /\ A = B \cup {x} /\ Cardinality(B) \in Nat
        BY <2>2, <2>6, <4>1, <4>2
      <4>4. Cardinality(A) = Cardinality(B) + 1
        BY <4>3, FS_AddElement
      <4>5. Cardinality(A) = f[x] + Cardinality(B)
        BY <4>1, <4>3, <4>4
      <4> QED BY <4>2, <4>5
    <3>2. CASE x \notin T
      <4>1. Ones(s) = Ones(r) /\ f[x] = 0
        BY <2>2, <3>2
      <4> HIDE DEF Ones
      <4> QED BY <2>6, <4>1
    <3> QED BY <3>1, <3>2
  <2> QED BY <1>2, <2>3, <2>5, <2>7
<1> QED BY <1>4, <1>5

-----------------------------------------------------------------------------
(* One round of exclusion.                                                  *)

\* What is counted of a participant among those who are left.
LEMMA CountsAreNatural ==
    ASSUME Reports, NEW S \in SUBSET Participant, NEW p \in Participant
    PROVE  Outgoing(p, S) \in Nat /\ Incoming(p) \in Nat
<1>1. Outgoing(p, S) \in Nat
  <2>1. IsFiniteSet(S) /\ \A q \in S : attestations[p][q] \in Nat
    BY Participants DEF Reports
  <2> QED BY <2>1, SumNatural DEF Outgoing
<1>2. Incoming(p) \in Nat
  <2>1. {q \in Participant \ {p} : attestations[q][p] > 0} \in SUBSET Participant
    OBVIOUS
  <2> QED BY <2>1, Participants DEF Incoming
<1> QED BY <1>1, <1>2

\* A round takes out those with the fewest attestations, of one kind or the
\* other, if and only if these are below the threshold.
LEMMA RoundOf ==
    ASSUME Reports, NEW S \in SUBSET Participant, S # {}
    PROVE  \E least \in Nat :
             /\ \A p \in S : least <= Outgoing(p, S) /\ least <= Incoming(p)
             /\ \E p \in S : least = Outgoing(p, S) \/ least = Incoming(p)
             /\ IF least < Threshold(Cardinality(S))
                THEN \/ /\ Exclude(S) = {p \in S : Outgoing(p, S) # least}
                        /\ \E p \in S : least = Outgoing(p, S)
                     \/ /\ Exclude(S) = {p \in S : Incoming(p) # least}
                        /\ \E p \in S : least = Incoming(p)
                ELSE Exclude(S) = S
<1> DEFINE Out == {Outgoing(p, S) : p \in S}
<1> DEFINE In == {Incoming(p) : p \in S}
<1> DEFINE minOut == Min(Out)
<1> DEFINE minIn == Min(In)
<1> DEFINE limit == Threshold(Cardinality(S))
<1>1. Out \subseteq Nat /\ Out # {} /\ In \subseteq Nat /\ In # {}
  BY CountsAreNatural
<1>2. /\ minOut \in Out /\ minOut \in Nat /\ \A n \in Out : minOut <= n
      /\ minIn \in In /\ minIn \in Nat /\ \A n \in In : minIn <= n
  <2> HIDE DEF Out, In
  <2> QED BY <1>1, MinIsLeast
<1>3. /\ \A p \in S : minOut <= Outgoing(p, S) /\ minIn <= Incoming(p)
      /\ \E p \in S : minOut = Outgoing(p, S)
      /\ \E p \in S : minIn = Incoming(p)
  <2> HIDE DEF minOut, minIn
  <2> QED BY <1>2
<1>4. Exclude(S) = IF minIn < minOut
                   THEN IF minIn < limit THEN {p \in S : Incoming(p) # minIn} ELSE S
                   ELSE IF minOut < limit THEN {p \in S : Outgoing(p, S) # minOut} ELSE S
  BY DEF Exclude
<1>5. \A p \in S : Outgoing(p, S) \in Nat /\ Incoming(p) \in Nat
  BY CountsAreNatural
<1> HIDE DEF minOut, minIn, limit
<1>6. CASE minIn < minOut
  <2>1. \A p \in S : minIn <= Outgoing(p, S) /\ minIn <= Incoming(p)
    BY <1>2, <1>3, <1>5, <1>6
  <2>2. IF minIn < limit THEN Exclude(S) = {p \in S : Incoming(p) # minIn} ELSE Exclude(S) = S
    BY <1>4, <1>6
  <2> QED BY <1>2, <1>3, <2>1, <2>2 DEF limit
<1>7. CASE ~ (minIn < minOut)
  <2>1. \A p \in S : minOut <= Outgoing(p, S) /\ minOut <= Incoming(p)
    BY <1>2, <1>3, <1>5, <1>7
  <2>2. IF minOut < limit THEN Exclude(S) = {p \in S : Outgoing(p, S) # minOut} ELSE Exclude(S) = S
    BY <1>4, <1>7
  <2> QED BY <1>2, <1>3, <2>1, <2>2 DEF limit
<1> QED BY <1>6, <1>7

\* A round takes somebody out, or nobody and then never again.
LEMMA RoundShrinks ==
    ASSUME Reports, NEW S \in SUBSET Participant
    PROVE  /\ Exclude(S) \subseteq S
           /\ Exclude(S) # S => Cardinality(Exclude(S)) < Cardinality(S)
<1>1. CASE S = {}
  BY <1>1 DEF Exclude
<1>2. CASE S # {}
  <2>1. Exclude(S) \subseteq S
    BY <1>2, RoundOf
  <2> QED BY <2>1, Participants, FS_Subset
<1> QED BY <1>1, <1>2

-----------------------------------------------------------------------------
(* All rounds.                                                              *)

\* l says who is left after each of n rounds.
Rounds(S, n, l) == l = [i \in 0 .. n |-> IF i = 0 THEN S ELSE Exclude(l[i - 1])]

\* The rounds can be written down one after the other.
LEMMA RoundsExist ==
    ASSUME NEW S, NEW n \in Nat
    PROVE  \E l : Rounds(S, n, l)
<1> DEFINE Bad == {m \in Nat : ~ \E l : Rounds(S, m, l)}
<1> SUFFICES ASSUME Bad # {} PROVE FALSE
  OBVIOUS
<1>1. PICK m \in Bad : \A k \in Bad : m <= k
  <2>1. Bad \subseteq Nat
    OBVIOUS
  <2> HIDE DEF Bad
  <2> QED BY <2>1, LeastNumber
<1>2. m \in Nat /\ ~ \E l : Rounds(S, m, l)
  OBVIOUS
<1>3. CASE m = 0
  <2> DEFINE l == [i \in 0 .. 0 |-> S]
  <2>1. \A i \in 0 .. 0 : i = 0
    OBVIOUS
  <2>2. Rounds(S, 0, l)
    BY <2>1 DEF Rounds
  <2> QED BY <1>2, <1>3, <2>2
<1>4. CASE m # 0
  <2>1. m - 1 \in Nat /\ ~ (m <= m - 1)
    BY <1>2, <1>4
  <2>2. PICK l : Rounds(S, m - 1, l)
    BY <1>1, <2>1
  <2> DEFINE k == [i \in 0 .. m |-> IF i = m THEN Exclude(l[m - 1]) ELSE l[i]]
  <2>3. ASSUME NEW i \in 0 .. m
        PROVE  k[i] = IF i = 0 THEN S ELSE Exclude(k[i - 1])
    <3>1. CASE i = m
      <4>1. m - 1 \in 0 .. m /\ m - 1 # m
        BY <1>2, <1>4
      <4>2. k[m - 1] = l[m - 1]
        BY <4>1
      <4> QED BY <3>1, <4>2, <1>4
    <3>2. CASE i # m
      <4>1. i \in 0 .. m - 1
        BY <1>2, <3>2
      <4>2. k[i] = l[i] /\ l[i] = IF i = 0 THEN S ELSE Exclude(l[i - 1])
        BY <2>2, <3>2, <4>1 DEF Rounds
      <4>3. i # 0 => i - 1 \in 0 .. m /\ i - 1 # m
        BY <1>2, <4>1
      <4>4. i # 0 => k[i - 1] = l[i - 1]
        BY <4>3
      <4> QED BY <4>2, <4>4
    <3> QED BY <3>1, <3>2
  <2>4. k = [i \in 0 .. m |-> k[i]]
    OBVIOUS
  <2> HIDE DEF k
  <2>5. Rounds(S, m, k)
    BY <2>3, <2>4 DEF Rounds
  <2> QED BY <1>2, <2>5
<1> QED BY <1>3, <1>4

\* Who remains is left after as many rounds as there are participants.
LEMMA RemainingIsLeft ==
    ASSUME NEW S
    PROVE  \E l : Rounds(S, NumParticipants, l) /\ Remaining(S) = l[NumParticipants]
<1> DEFINE l == CHOOSE k : Rounds(S, NumParticipants, k)
<1>1. \E k : Rounds(S, NumParticipants, k)
  BY MeetupAssumption, RoundsExist
<1>2. Rounds(S, NumParticipants, l)
  BY <1>1
<1>3. Remaining(S) = l[NumParticipants]
  BY DEF Remaining, Rounds
<1> QED BY <1>2, <1>3

\* By then the rounds have come to rest, and what every round keeps is kept:
\* K is any set of sets that a round does not leave.
LEMMA RemainingSettles ==
    ASSUME Reports, NEW S \in SUBSET Participant, NEW K,
           S \in K, \A T \in SUBSET S : T \in K => Exclude(T) \in K
    PROVE  /\ Remaining(S) \in K
           /\ Remaining(S) \subseteq S
           /\ Exclude(Remaining(S)) = Remaining(S)
<1> DEFINE N == NumParticipants
<1>1. N \in Nat
  BY MeetupAssumption
<1>2. PICK l : Rounds(S, N, l) /\ Remaining(S) = l[N]
  BY RemainingIsLeft
<1>3. l[0] = S /\ \A i \in 0 .. N : i # 0 => l[i] = Exclude(l[i - 1])
  BY <1>1, <1>2 DEF Rounds
<1> DEFINE Good(i) ==
      /\ l[i] \in K
      /\ l[i] \subseteq S
      /\ Exclude(l[i]) = l[i] \/ Cardinality(l[i]) + i <= N
<1> DEFINE Bad == {i \in 0 .. N : ~ Good(i)}
<1>4. Bad = {}
  <2> SUFFICES ASSUME Bad # {} PROVE FALSE
    OBVIOUS
  <2>1. PICK i \in Bad : \A j \in Bad : i <= j
    <3>1. Bad \subseteq Nat
      BY <1>1
    <3> HIDE DEF Bad
    <3> QED BY <3>1, LeastNumber
  <2>2. i \in 0 .. N /\ ~ Good(i)
    OBVIOUS
  <2>3. i # 0
    <3>1. S \in K /\ S \subseteq S /\ Cardinality(S) \in Nat /\ Cardinality(S) + 0 <= N
      BY Participants
    <3>2. Good(0)
      BY <3>1, <1>3
    <3> QED BY <2>2, <3>2
  <2>4. i - 1 \in 0 .. N /\ ~ (i <= i - 1)
    BY <1>1, <2>2, <2>3
  <2>5. Good(i - 1)
    BY <2>1, <2>4
  <2>6. PICK T : T = l[i - 1]
    OBVIOUS
  <2>7. /\ T \in K /\ T \in SUBSET S /\ T \in SUBSET Participant
        /\ Exclude(T) = T \/ Cardinality(T) + (i - 1) <= N
    BY <2>5, <2>6
  <2>8. l[i] = Exclude(T)
    BY <1>3, <2>2, <2>3, <2>6
  <2>9. Exclude(T) \in K /\ Exclude(T) \in SUBSET S /\ Exclude(T) \in SUBSET Participant
    BY <2>7, RoundShrinks
  <2>10. Cardinality(T) \in Nat /\ Cardinality(Exclude(T)) \in Nat /\ i \in Nat
    BY <1>1, <2>2, <2>7, <2>9, Participants
  <2>11. CASE Exclude(T) = T
    BY <2>2, <2>7, <2>8, <2>11
  <2>12. CASE Exclude(T) # T
    <3>1. Cardinality(Exclude(T)) < Cardinality(T)
      BY <2>7, <2>12, RoundShrinks
    <3>2. Cardinality(Exclude(T)) + i <= N
      BY <1>1, <2>7, <2>10, <2>12, <3>1
    <3> QED BY <2>2, <2>8, <2>9, <3>2
  <2> QED BY <2>11, <2>12
<1>5. Good(N)
  <2>1. N \in 0 .. N
    BY <1>1
  <2> QED BY <1>4, <2>1
<1>6. Exclude(l[N]) = l[N]
  <2> SUFFICES ASSUME Exclude(l[N]) # l[N] PROVE FALSE
    OBVIOUS
  <2>1. PICK T : T = l[N]
    OBVIOUS
  <2>2. T \in SUBSET Participant /\ Cardinality(T) + N <= N
    BY <1>5, <2>1
  <2>3. IsFiniteSet(T) /\ Cardinality(T) \in Nat
    BY <2>2, Participants
  <2>4. Cardinality(T) = 0
    BY <1>1, <2>2, <2>3
  <2>5. T = {}
    BY <2>3, <2>4, FS_EmptySet
  <2> QED BY <2>1, <2>5 DEF Exclude
<1> QED BY <1>2, <1>5, <1>6

-----------------------------------------------------------------------------
(* A majority that agrees with itself.                                      *)

\* More than half of the participants, at least three, vote for their own
\* number and attest one another and nobody else.
Agree(H) ==
    /\ H \subseteq Participant
    /\ 2 * Cardinality(H) > NumParticipants
    /\ Cardinality(H) >= 3
    /\ \A p \in H :
         /\ votes[p] = Cardinality(H)
         /\ \A q \in Participant : attestations[p][q] = IF q \in H \ {p} THEN 1 ELSE 0

\* A part of the participants without one of its members, and the rest.
LEMMA PartSizes ==
    ASSUME NEW H \in SUBSET Participant
    PROVE  /\ \A p \in H : Cardinality(H \ {p}) = Cardinality(H) - 1
           /\ \A T \in SUBSET (Participant \ H) :
                Cardinality(T) <= NumParticipants - Cardinality(H)
<1>1. /\ IsFiniteSet(H) /\ Cardinality(H) \in Nat
      /\ IsFiniteSet(Participant) /\ Cardinality(Participant) = NumParticipants
      /\ NumParticipants \in Nat
  BY Participants, MeetupAssumption
<1>2. \A p \in H : Cardinality(H \ {p}) = Cardinality(H) - 1
  BY <1>1, FS_RemoveElement
<1>3. ASSUME NEW T \in SUBSET (Participant \ H)
      PROVE  Cardinality(T) <= NumParticipants - Cardinality(H)
  <2> DEFINE R == Participant \ H
  <2>1. R \in SUBSET Participant /\ IsFiniteSet(R) /\ Cardinality(R) \in Nat
    BY Participants
  <2>2. Cardinality(T) <= Cardinality(R) /\ Cardinality(T) \in Nat
    BY <2>1, FS_Subset, FS_CardinalityType
  <2>3. Cardinality(R) = NumParticipants - Cardinality(H)
    <3>1. Participant \cap H = H
      OBVIOUS
    <3> QED BY <1>1, <3>1, FS_Difference
  <2> HIDE DEF R
  <2> QED BY <1>1, <2>1, <2>2, <2>3
<1> QED BY <1>2, <1>3

\* Such a majority wins the vote.
LEMMA MajorityWins ==
    ASSUME Reports, NEW H, Agree(H)
    PROVE  /\ Dependable
           /\ Majority = Cardinality(H)
           /\ H \subseteq Supporters(Majority)
           /\ Supporters(Majority) \subseteq Participant
<1> DEFINE h == Cardinality(H)
<1>1. /\ H \in SUBSET Participant /\ h \in Nat /\ h >= 3 /\ NumParticipants \in Nat
      /\ 2 * h > NumParticipants
      /\ \A p \in H : votes[p] = h
  BY Participants, MeetupAssumption DEF Agree
<1>2. \A v : Supporters(v) \in SUBSET Participant /\ Cardinality(Supporters(v)) \in Nat
  <2>1. \A v : Supporters(v) \in SUBSET Participant
    BY DEF Supporters, Voters
  <2> QED BY <2>1, Participants
<1>3. H \subseteq Supporters(h) /\ H # {}
  <2>1. H \subseteq Supporters(h)
    BY <1>1 DEF Supporters, Voters
  <2>2. H # {}
    BY <1>1, FS_EmptySet
  <2> QED BY <2>1, <2>2
<1>4. h \in Candidates /\ Voters # {}
  BY <1>1, <1>3 DEF Supporters, Candidates
<1>5. Cardinality(Supporters(h)) >= h
  BY <1>1, <1>2, <1>3, Participants, FS_Subset
<1>6. ASSUME NEW w, w # h
      PROVE  Cardinality(Supporters(w)) < Cardinality(Supporters(h))
  <2>1. Supporters(w) \in SUBSET (Participant \ H)
    BY <1>1, <1>2, <1>6 DEF Supporters
  <2>2. Cardinality(Supporters(w)) <= NumParticipants - h
    BY <1>1, <2>1, PartSizes
  <2>3. Cardinality(Supporters(w)) \in Nat /\ Cardinality(Supporters(h)) \in Nat
    BY <1>2
  <2> HIDE DEF h
  <2> QED BY <1>1, <1>5, <2>2, <2>3
<1> HIDE DEF h
<1>7. \A w \in Candidates : Prevails(h, w)
  <2> TAKE w \in Candidates
  <2>1. CASE w = h
    BY <2>1 DEF Prevails
  <2>2. CASE w # h
    <3>1. Cardinality(Supporters(h)) > Cardinality(Supporters(w))
      BY <1>2, <1>6, <2>2
    <3> QED BY <3>1 DEF Prevails
  <2> QED BY <2>1, <2>2
<1>8. Majority \in Candidates /\ \A w \in Candidates : Prevails(Majority, w)
  BY <1>4, <1>7 DEF Majority
<1>9. Majority = h
  <2> SUFFICES ASSUME Majority # h PROVE FALSE
    OBVIOUS
  <2>1. PICK v : v = Majority
    OBVIOUS
  <2>2. Prevails(v, h) /\ v # h
    BY <1>4, <1>8, <2>1
  <2>3. Cardinality(Supporters(v)) < Cardinality(Supporters(h))
    BY <1>6, <2>2
  <2>4. Cardinality(Supporters(v)) \in Nat /\ Cardinality(Supporters(h)) \in Nat
    BY <1>2
  <2>5. PICK m, n : m = Cardinality(Supporters(v)) /\ n = Cardinality(Supporters(h))
    OBVIOUS
  <2>6. m > n \/ m = n
    BY <2>2, <2>5 DEF Prevails
  <2> QED BY <2>3, <2>4, <2>5, <2>6
<1>10. Cardinality(Supporters(Majority)) >= 3
  <2>1. PICK n : n = Cardinality(Supporters(h))
    OBVIOUS
  <2>2. n \in Nat /\ n >= h
    BY <1>2, <1>5, <2>1
  <2>3. n >= 3
    BY <1>1, <2>2
  <2> QED BY <1>9, <2>1, <2>3
<1>11. Dependable
  BY <1>4, <1>10 DEF Dependable
<1> QED BY <1>2, <1>3, <1>9, <1>11 DEF h

\* What is counted of its members, and of the others.
LEMMA MajorityCounts ==
    ASSUME Reports, NEW H, Agree(H), NEW S \in SUBSET Participant, H \subseteq S
    PROVE  /\ \A p \in H : Outgoing(p, S) = Cardinality(H) - 1
           /\ \A p \in H : Incoming(p) >= Cardinality(H) - 1
           /\ \A p \in Participant \ H : Incoming(p) <= Cardinality(H) - 2
<1>1. /\ H \in SUBSET Participant /\ Cardinality(H) \in Nat /\ NumParticipants \in Nat
      /\ 2 * Cardinality(H) > NumParticipants
      /\ \A p \in H, q \in Participant : attestations[p][q] = IF q \in H \ {p} THEN 1 ELSE 0
  BY Participants, MeetupAssumption DEF Agree
<1>2. ASSUME NEW p \in H
      PROVE  Outgoing(p, S) = Cardinality(H) - 1
  <2> DEFINE T == H \ {p}
  <2> DEFINE f == attestations[p]
  <2>1. T \in SUBSET S /\ \A q \in S : f[q] = IF q \in T THEN 1 ELSE 0
    BY <1>1
  <2>2. Cardinality(T) = Cardinality(H) - 1
    BY <1>1, PartSizes
  <2>3. SumFunctionOnSet(f, S) = Cardinality(T)
    <3> HIDE DEF T, f
    <3> QED BY <2>1, SumOfNames
  <2> QED BY <2>2, <2>3 DEF Outgoing
<1>3. ASSUME NEW p \in H
      PROVE  Incoming(p) >= Cardinality(H) - 1
  <2> DEFINE T == H \ {p}
  <2> DEFINE Q == {q \in Participant \ {p} : attestations[q][p] > 0}
  <2>1. Q \in SUBSET Participant /\ T \subseteq Q
    BY <1>1
  <2>2. Cardinality(T) = Cardinality(H) - 1
    BY <1>1, PartSizes
  <2>3. Incoming(p) = Cardinality(Q)
    BY DEF Incoming
  <2> HIDE DEF T, Q
  <2>4. Cardinality(T) <= Cardinality(Q) /\ Cardinality(Q) \in Nat
    BY <2>1, Participants, FS_Subset
  <2> QED BY <1>1, <2>2, <2>3, <2>4
<1>4. ASSUME NEW p \in Participant \ H
      PROVE  Incoming(p) <= Cardinality(H) - 2
  <2> DEFINE I == H \cup {p}
  <2> DEFINE Q == {q \in Participant \ {p} : attestations[q][p] > 0}
  <2>1. \A q \in H : attestations[q][p] = 0
    BY <1>1
  <2>2. I \in SUBSET Participant /\ Q \in SUBSET (Participant \ I)
    BY <1>1, <2>1
  <2>3. Cardinality(I) = Cardinality(H) + 1
    BY <1>1, Participants, FS_AddElement
  <2>4. Incoming(p) = Cardinality(Q)
    BY DEF Incoming
  <2>5. Cardinality(Q) \in Nat
    BY Participants
  <2> HIDE DEF I, Q
  <2>6. Cardinality(Q) <= NumParticipants - Cardinality(I)
    BY <2>2, PartSizes
  <2> QED BY <1>1, <2>3, <2>4, <2>5, <2>6
<1> QED BY <1>2, <1>3, <1>4

\* While others are left, a round takes out some of them and nobody else.
LEMMA MajorityStays ==
    ASSUME Reports, NEW H, Agree(H), NEW S \in SUBSET Participant, H \subseteq S
    PROVE  H \subseteq Exclude(S) /\ (S # H => Exclude(S) # S)
<1> DEFINE h == Cardinality(H)
<1> DEFINE s == Cardinality(S)
<1>1. H \in SUBSET Participant /\ h \in Nat /\ h >= 3 /\ s \in Nat /\ h <= s /\ (H # S => h < s)
  <2>1. H \in SUBSET Participant /\ h >= 3
    BY DEF Agree
  <2> QED BY <2>1, Participants, FS_Subset
<1>2. S # {}
  BY <1>1, FS_EmptySet
<1>3. PICK least \in Nat :
             /\ \A p \in S : least <= Outgoing(p, S) /\ least <= Incoming(p)
             /\ \E p \in S : least = Outgoing(p, S) \/ least = Incoming(p)
             /\ IF least < Threshold(s)
                THEN \/ /\ Exclude(S) = {p \in S : Outgoing(p, S) # least}
                        /\ \E p \in S : least = Outgoing(p, S)
                     \/ /\ Exclude(S) = {p \in S : Incoming(p) # least}
                        /\ \E p \in S : least = Incoming(p)
                ELSE Exclude(S) = S
  BY <1>2, RoundOf
<1>4. /\ \A p \in H : Outgoing(p, S) = h - 1
      /\ \A p \in H : Incoming(p) >= h - 1
      /\ \A p \in Participant \ H : Incoming(p) <= h - 2
      /\ \A p \in S : Outgoing(p, S) \in Nat /\ Incoming(p) \in Nat
  BY MajorityCounts, CountsAreNatural
<1> HIDE DEF h, s
<1>5. CASE S = H
  <2>1. \A p \in S : Outgoing(p, S) >= h - 1 /\ Incoming(p) >= h - 1
    BY <1>1, <1>4, <1>5
  <2>2. least >= h - 1
    BY <1>1, <1>3, <1>4, <2>1
  <2>3. s = h
    BY <1>5 DEF h, s
  <2>4. Threshold(s) <= h - 1 /\ Threshold(s) \in Nat
    BY <1>1, <2>3 DEF Threshold
  <2>5. ~ (least < Threshold(s))
    BY <1>1, <2>2, <2>4
  <2> QED BY <1>3, <1>5, <2>5
<1>6. CASE S # H
  <2>1. PICK x \in S : x \in Participant \ H
    BY <1>6
  <2>2. Incoming(x) <= h - 2 /\ least <= Incoming(x) /\ Incoming(x) \in Nat
    BY <1>3, <1>4, <2>1
  <2>3. least <= h - 2
    BY <1>1, <2>2
  <2>4. s >= h + 1
    BY <1>1, <1>6
  <2>5. Threshold(s) >= h - 1 /\ Threshold(s) \in Nat
    BY <1>1, <2>4 DEF Threshold
  <2>6. least < Threshold(s)
    BY <1>1, <2>3, <2>5
  <2>7. \A p \in H : Outgoing(p, S) # least /\ Incoming(p) # least
    BY <1>1, <1>4, <2>3
  <2> QED BY <1>3, <2>6, <2>7
<1> QED BY <1>5, <1>6

\* The judgement is about the majority and nobody else.
LEMMA MajorityDecides ==
    ASSUME Reports, NEW H, Agree(H)
    PROVE  Dependable /\ Majority = Cardinality(H) /\ Legit = H
<1> DEFINE S == Supporters(Majority)
<1> DEFINE K == {T \in SUBSET Participant : H \subseteq T}
<1>1. /\ Dependable /\ Majority = Cardinality(H)
      /\ H \subseteq S /\ S \in SUBSET Participant
  BY MajorityWins
<1> HIDE DEF S
<1>2. S \in K
  BY <1>1
<1>3. \A T \in SUBSET S : T \in K => Exclude(T) \in K
  BY <1>1, MajorityStays, RoundShrinks
<1>4. Remaining(S) \in K /\ Exclude(Remaining(S)) = Remaining(S)
  <2> HIDE DEF K
  <2> QED BY <1>1, <1>2, <1>3, RemainingSettles
<1>5. Remaining(S) = H
  BY <1>4, MajorityStays
<1> QED BY <1>1, <1>5 DEF Legit, S

-----------------------------------------------------------------------------
(* The reports of those who met, and what was settled early.                *)

\* An honest report, once it is there, is the one that AttestHonestly makes.
HonestReports ==
    \A p \in Honest : votes[p] # 0 =>
        /\ votes[p] = Cardinality(Honest)
        /\ \A q \in Participant : attestations[p][q] = IF q \in Honest \ {p} THEN 1 ELSE 0

\* Early rewards go to a majority of at least three.
EarlyMajority ==
    settled = "early" =>
        /\ paid \subseteq Participant
        /\ 2 * Cardinality(paid) > NumParticipants
        /\ Cardinality(paid) >= 3

MeetupInv == Reports /\ HonestReports /\ EarlyMajority

\* A report replaces the one its author had made and no other.
LEMMA ReportReplaces ==
    ASSUME Reports, NEW p \in Participant, NEW vote \in Nat, NEW list \in [Participant -> Nat],
           attest_attendees(p, vote, list)
    PROVE  /\ Reports'
           /\ votes'[p] = vote /\ attestations'[p] = [list EXCEPT ![p] = 0]
           /\ \A q \in Participant \ {p} :
                votes'[q] = votes[q] /\ attestations'[q] = attestations[q]
<1> DEFINE verified == [list EXCEPT ![p] = 0]
<1>1. verified \in [Participant -> Nat] /\ verified[p] = 0
  OBVIOUS
<1>2. attestations' = [attestations EXCEPT ![p] = verified] /\ votes' = [votes EXCEPT ![p] = vote]
  BY DEF attest_attendees
<1> HIDE DEF verified
<1>3. attestations' \in [Participant -> [Participant -> Nat]] /\ votes' \in [Participant -> Nat]
  BY <1>1, <1>2 DEF Reports
<1>4. /\ votes'[p] = vote /\ attestations'[p] = verified
      /\ \A q \in Participant \ {p} :
           votes'[q] = votes[q] /\ attestations'[q] = attestations[q]
  BY <1>2 DEF Reports
<1>5. \A q \in Participant : attestations'[q][q] = 0
  BY <1>1, <1>4 DEF Reports
<1> QED BY <1>3, <1>4, <1>5 DEF Reports, verified

\* The list of an honest report names the other honest participants.
LEMMA HonestList ==
    ASSUME NEW p \in Honest
    PROVE  LET list == [q \in Participant |-> IF q \in Honest \ {p} THEN 1 ELSE 0]
           IN  /\ p \in Participant
               /\ Cardinality(Honest) \in Nat
               /\ list \in [Participant -> Nat]
               /\ \A q \in Participant : [list EXCEPT ![p] = 0][q] = list[q]
<1>1. p \in Participant /\ Cardinality(Honest) \in Nat
  BY MeetupAssumption, Participants
<1> QED BY <1>1

LEMMA MeetupInvInit == Init => MeetupInv
<1> SUFFICES ASSUME Init PROVE MeetupInv
  OBVIOUS
<1>1. Reports
  BY DEF Init, Reports, NoList
<1>2. HonestReports
  BY MeetupAssumption DEF Init, HonestReports
<1>3. EarlyMajority
  BY DEF Init, EarlyMajority
<1> QED BY <1>1, <1>2, <1>3 DEF MeetupInv

\* What is paid early is paid to a majority that agrees with itself.
LEMMA EarlyIsMajority ==
    ASSUME Reports, Dependable, EarlyRewardsPossible
    PROVE  Agree(Legit)
<1> DEFINE H == Supporters(Majority)
<1>1. H \in SUBSET Participant /\ Cardinality(H) >= 3 /\ \A p \in H : votes[p] = Majority
  BY DEF Dependable, Supporters, Voters
<1>2. Cardinality(H) \in Nat /\ H # {}
  BY <1>1, Participants, FS_EmptySet
<1>3. /\ Majority * 2 > NumParticipants
      /\ \A p \in H : /\ Length(attestations[p]) = Majority - 1
                      /\ \A q \in Participant :
                           attestations[p][q] = IF q \in H \ {p} THEN 1 ELSE 0
  BY DEF EarlyRewardsPossible
<1> HIDE DEF H
<1>4. PICK p \in H : TRUE
  BY <1>2
<1>5. Majority \in Nat
  BY <1>1, <1>4 DEF Reports
<1>6. Length(attestations[p]) = Cardinality(H) - 1
  <2> DEFINE T == H \ {p}
  <2> DEFINE f == attestations[p]
  <2>1. T \in SUBSET Participant /\ \A q \in Participant : f[q] = IF q \in T THEN 1 ELSE 0
    BY <1>1, <1>3
  <2>2. Cardinality(T) = Cardinality(H) - 1
    BY <1>1, PartSizes
  <2>3. SumFunctionOnSet(f, Participant) = Cardinality(T)
    <3> HIDE DEF T, f
    <3>1. Participant \in SUBSET Participant
      OBVIOUS
    <3> QED BY <2>1, <3>1, SumOfNames
  <2> QED BY <2>2, <2>3 DEF Length
<1>7. Majority = Cardinality(H)
  BY <1>2, <1>3, <1>4, <1>5, <1>6
<1>8. Agree(H)
  <2>1. 2 * Cardinality(H) > NumParticipants
    BY <1>2, <1>3, <1>7, MeetupAssumption
  <2> QED BY <1>1, <1>3, <1>7, <2>1 DEF Agree
<1>9. Legit = H
  BY <1>8, MajorityDecides
<1> QED BY <1>8, <1>9

LEMMA MeetupInvStep == MeetupInv /\ [Next]_vars => MeetupInv'
<1> SUFFICES ASSUME Reports, HonestReports, EarlyMajority, [Next]_vars
             PROVE  MeetupInv'
  BY DEF MeetupInv
<1>1. ASSUME NEW p \in Honest, AttestHonestly(p)
      PROVE  MeetupInv'
  <2> DEFINE list == [q \in Participant |-> IF q \in Honest \ {p} THEN 1 ELSE 0]
  <2> DEFINE vote == Cardinality(Honest)
  <2>1. /\ p \in Participant /\ vote \in Nat /\ list \in [Participant -> Nat]
        /\ \A q \in Participant : [list EXCEPT ![p] = 0][q] = list[q]
    BY HonestList
  <2>2. attest_attendees(p, vote, list)
    BY <1>1 DEF AttestHonestly
  <2>3. \A q \in Participant : list[q] = IF q \in Honest \ {p} THEN 1 ELSE 0
    OBVIOUS
  <2> HIDE DEF list
  <2>4. /\ Reports'
        /\ votes'[p] = vote /\ attestations'[p] = [list EXCEPT ![p] = 0]
        /\ \A q \in Participant \ {p} :
             votes'[q] = votes[q] /\ attestations'[q] = attestations[q]
    <3> HIDE DEF vote
    <3> QED BY <2>1, <2>2, ReportReplaces
  <2>5. HonestReports'
    <3>1. ASSUME NEW r \in Honest, votes'[r] # 0
          PROVE  /\ votes'[r] = Cardinality(Honest)
                 /\ \A q \in Participant :
                      attestations'[r][q] = IF q \in Honest \ {r} THEN 1 ELSE 0
      <4>1. CASE r = p
        BY <4>1, <2>1, <2>3, <2>4
      <4>2. CASE r # p
        <5>1. r \in Participant \ {p}
          BY <4>2, MeetupAssumption
        <5>2. votes'[r] = votes[r] /\ attestations'[r] = attestations[r]
          BY <5>1, <2>4
        <5> QED BY <3>1, <5>2 DEF HonestReports
      <4> QED BY <4>1, <4>2
    <3> QED BY <3>1 DEF HonestReports
  <2>6. EarlyMajority'
    BY <2>2 DEF attest_attendees, EarlyMajority
  <2> QED BY <2>4, <2>5, <2>6 DEF MeetupInv
<1>2. ASSUME NEW p \in Participant \ Honest, AttestAnything(p)
      PROVE  MeetupInv'
  <2>1. PICK vote \in Votes, list \in Lists : attest_attendees(p, vote, list)
    BY <1>2 DEF AttestAnything
  <2>2. vote \in Nat /\ list \in [Participant -> Nat]
    BY MeetupAssumption
  <2>3. /\ Reports'
        /\ \A q \in Participant \ {p} :
             votes'[q] = votes[q] /\ attestations'[q] = attestations[q]
    BY <2>1, <2>2, ReportReplaces
  <2>4. HonestReports'
    <3>1. \A q \in Honest : votes'[q] = votes[q] /\ attestations'[q] = attestations[q]
      BY <2>3, MeetupAssumption
    <3> QED BY <3>1 DEF HonestReports
  <2>5. EarlyMajority'
    BY <2>1 DEF attest_attendees, EarlyMajority
  <2> QED BY <2>3, <2>4, <2>5 DEF MeetupInv
<1>3. CASE claim_early
  <2>1. Dependable /\ EarlyRewardsPossible /\ paid' = Legit
    BY <1>3 DEF claim_early
  <2>2. Agree(Legit)
    BY <2>1, EarlyIsMajority
  <2>3. EarlyMajority'
    BY <2>1, <2>2 DEF EarlyMajority, Agree
  <2>4. Reports' /\ HonestReports'
    BY <1>3 DEF claim_early, Reports, HonestReports
  <2> QED BY <2>3, <2>4 DEF MeetupInv
<1>4. CASE claim_late
  BY <1>4 DEF claim_late, MeetupInv, Reports, HonestReports, EarlyMajority
<1>5. CASE EndAttesting
  BY <1>5 DEF EndAttesting, MeetupInv, Reports, HonestReports, EarlyMajority
<1>6. CASE UNCHANGED vars
  BY <1>6 DEF vars, MeetupInv, Reports, HonestReports, EarlyMajority
<1> QED BY <1>1, <1>2, <1>3, <1>4, <1>5, <1>6 DEF Next

THEOREM MeetupStaysInvariant == Spec => []MeetupInv
BY MeetupInvInit, MeetupInvStep, PTL DEF Spec

\* An honest majority decides, in meetups of every size and whatever the
\* others vote and attest: get_participant_judgements, once all honest
\* reports are in, counts the honest participants as legit and nobody else.
THEOREM HonestMajorityAlwaysDecides == Spec => []HonestMajorityDecides
<1>1. MeetupInv => HonestMajorityDecides
  <2> SUFFICES ASSUME MeetupInv, 2 * Cardinality(Honest) > NumParticipants,
                      Cardinality(Honest) >= 3, HaveReported(Honest)
               PROVE  Dependable /\ Legit = Honest
    BY DEF HonestMajorityDecides
  <2>1. Agree(Honest)
    BY MeetupAssumption DEF MeetupInv, HonestReports, HaveReported, Agree
  <2> QED BY <2>1, MajorityDecides DEF MeetupInv
<1> QED BY <1>1, MeetupStaysInvariant, PTL

\* Early rewards are final: claim_rewards in the Attesting phase pays whom the
\* judgement at the end of the phase would reward, as long as those who were
\* paid keep to their reports, whatever the others submit in the meantime.
THEOREM EarlyPayoutStaysFinal == Spec => []EarlyPayoutIsFinal
<1>1. MeetupInv => EarlyPayoutIsFinal
  <2> SUFFICES ASSUME MeetupInv, settled = "early",
                      \A p \in paid : votes[p] = Cardinality(paid),
                      \A p \in paid, q \in Participant :
                        attestations[p][q] = IF q \in paid \ {p} THEN 1 ELSE 0
               PROVE  Dependable /\ Legit = paid
    BY DEF EarlyPayoutIsFinal
  <2>1. Agree(paid)
    BY DEF MeetupInv, EarlyMajority, Agree
  <2> QED BY <2>1, MajorityDecides DEF MeetupInv
<1> QED BY <1>1, MeetupStaysInvariant, PTL

-----------------------------------------------------------------------------
(* What the late judgement asks for.                                        *)

\* Nobody is left whom another round would take out.
LEMMA RemainingHaveEnough ==
    ASSUME Reports, NEW S \in SUBSET Participant, Exclude(S) = S, NEW p \in S
    PROVE  Outgoing(p, S) >= Threshold(Cardinality(S))
<1> DEFINE limit == Threshold(Cardinality(S))
<1>1. PICK least \in Nat :
             /\ \A q \in S : least <= Outgoing(q, S) /\ least <= Incoming(q)
             /\ \E q \in S : least = Outgoing(q, S) \/ least = Incoming(q)
             /\ IF least < limit
                THEN \/ /\ Exclude(S) = {q \in S : Outgoing(q, S) # least}
                        /\ \E q \in S : least = Outgoing(q, S)
                     \/ /\ Exclude(S) = {q \in S : Incoming(q) # least}
                        /\ \E q \in S : least = Incoming(q)
                ELSE Exclude(S) = S
  <2>1. S # {}
    OBVIOUS
  <2> QED BY <2>1, RoundOf
<1>2. limit \in Nat
  <2>1. Cardinality(S) \in Nat
    BY Participants
  <2> QED BY <2>1 DEF Threshold
<1>3. Outgoing(p, S) \in Nat /\ least <= Outgoing(p, S)
  BY <1>1, CountsAreNatural
<1> HIDE DEF limit
<1>4. ~ (least < limit)
  BY <1>1
<1>5. Outgoing(p, S) >= limit
  BY <1>2, <1>3, <1>4
<1> QED BY <1>5 DEF limit

\* No stored list names anybody twice.
NamedOnce == \A p \in Participant, q \in Participant : attestations[p][q] \in {0, 1}

\* Once the meetup is settled late, the phase has ended and its reports stand.
LateJudgement == settled = "late" => CurrentPhase = "Registering" /\ PaidHaveMet

LateInv == Reports /\ NamedOnce /\ LateJudgement

\* The judgement rewards those who attested enough of the others.
LEMMA LegitHaveMet ==
    ASSUME Reports, NamedOnce
    PROVE  \A p \in Legit :
             Cardinality({q \in Legit : attestations[p][q] > 0}) >= Threshold(Cardinality(Legit))
<1> DEFINE V == Supporters(Majority)
<1> DEFINE L == Remaining(V)
<1>1. V \in SUBSET Participant
  BY DEF Supporters, Voters
<1>2. L \subseteq V /\ Exclude(L) = L
  <2> DEFINE K == SUBSET Participant
  <2>1. V \in K /\ \A T \in SUBSET V : T \in K => Exclude(T) \in K
    BY <1>1, RoundShrinks
  <2> HIDE DEF V, K
  <2> QED BY <1>1, <2>1, RemainingSettles
<1>3. Legit = L
  BY DEF Legit
<1> HIDE DEF V, L
<1>4. L \in SUBSET Participant
  BY <1>1, <1>2
<1>5. ASSUME NEW p \in L
      PROVE  Cardinality({q \in L : attestations[p][q] > 0}) >= Threshold(Cardinality(L))
  <2> DEFINE T == {q \in L : attestations[p][q] > 0}
  <2> DEFINE f == attestations[p]
  <2>1. T \in SUBSET L /\ \A q \in L : f[q] = IF q \in T THEN 1 ELSE 0
    BY <1>4 DEF NamedOnce
  <2>2. SumFunctionOnSet(f, L) = Cardinality(T)
    <3> HIDE DEF T, f
    <3> QED BY <1>4, <2>1, SumOfNames
  <2>3. Outgoing(p, L) >= Threshold(Cardinality(L))
    BY <1>2, <1>4, RemainingHaveEnough
  <2> QED BY <2>2, <2>3 DEF Outgoing
<1> QED BY <1>3, <1>5

LEMMA LateInvInit == Init => LateInv
<1> SUFFICES ASSUME Init PROVE LateInv
  OBVIOUS
<1>1. Reports /\ NamedOnce
  BY DEF Init, Reports, NoList, NamedOnce
<1>2. LateJudgement
  BY DEF Init, LateJudgement
<1> QED BY <1>1, <1>2 DEF LateInv

LEMMA LateInvStep ==
    ASSUME \A list \in Lists : \A q \in Participant : list[q] \in {0, 1}
    PROVE  LateInv /\ [Next]_vars => LateInv'
<1> SUFFICES ASSUME Reports, NamedOnce, LateJudgement, [Next]_vars
             PROVE  LateInv'
  BY DEF LateInv
<1>1. ASSUME NEW p \in Participant, NEW vote \in Nat, NEW list \in [Participant -> Nat],
             attest_attendees(p, vote, list), \A q \in Participant : list[q] \in {0, 1}
      PROVE  LateInv'
  <2>1. /\ Reports'
        /\ attestations'[p] = [list EXCEPT ![p] = 0]
        /\ \A q \in Participant \ {p} : attestations'[q] = attestations[q]
    BY <1>1, ReportReplaces
  <2>2. NamedOnce'
    <3> SUFFICES ASSUME NEW r \in Participant, NEW q \in Participant
                 PROVE  attestations'[r][q] \in {0, 1}
      BY DEF NamedOnce
    <3>1. CASE r = p
      <4>1. [list EXCEPT ![p] = 0][q] \in {0, 1}
        BY <1>1
      <4> QED BY <2>1, <3>1, <4>1
    <3>2. CASE r # p
      BY <2>1, <3>2 DEF NamedOnce
    <3> QED BY <3>1, <3>2
  <2>3. LateJudgement'
    BY <1>1 DEF attest_attendees, LateJudgement
  <2> QED BY <2>1, <2>2, <2>3 DEF LateInv
<1>2. ASSUME NEW p \in Honest, AttestHonestly(p)
      PROVE  LateInv'
  <2> DEFINE list == [q \in Participant |-> IF q \in Honest \ {p} THEN 1 ELSE 0]
  <2> DEFINE vote == Cardinality(Honest)
  <2>1. p \in Participant /\ vote \in Nat /\ list \in [Participant -> Nat]
    BY HonestList
  <2>2. attest_attendees(p, vote, list) /\ \A q \in Participant : list[q] \in {0, 1}
    BY <1>2 DEF AttestHonestly
  <2> HIDE DEF list, vote
  <2> QED BY <1>1, <2>1, <2>2
<1>3. ASSUME NEW p \in Participant \ Honest, AttestAnything(p)
      PROVE  LateInv'
  <2>1. PICK vote \in Votes, list \in Lists : attest_attendees(p, vote, list)
    BY <1>3 DEF AttestAnything
  <2>2. vote \in Nat /\ list \in [Participant -> Nat] /\ \A q \in Participant : list[q] \in {0, 1}
    BY MeetupAssumption
  <2> QED BY <1>1, <2>1, <2>2
<1>4. CASE claim_early
  BY <1>4 DEF claim_early, LateInv, Reports, NamedOnce, LateJudgement
<1>5. CASE claim_late
  <2>1. Reports' /\ NamedOnce'
    BY <1>5 DEF claim_late, Reports, NamedOnce
  <2>2. LateJudgement'
    <3> SUFFICES ASSUME settled' = "late" PROVE CurrentPhase' = "Registering" /\ PaidHaveMet'
      BY DEF LateJudgement
    <3>1. CurrentPhase' = "Registering" /\ paid' = Legit /\ attestations' = attestations
      BY <1>5 DEF claim_late
    <3>2. \A p \in Legit :
            Cardinality({q \in Legit : attestations[p][q] > 0}) >= Threshold(Cardinality(Legit))
      BY LegitHaveMet
    <3>3. PICK L, a : L = Legit /\ a = attestations
      OBVIOUS
    <3>4. /\ paid' = L /\ attestations' = a
          /\ \A p \in L : Cardinality({q \in L : a[p][q] > 0}) >= Threshold(Cardinality(L))
      BY <3>1, <3>2, <3>3
    <3> QED BY <3>1, <3>4 DEF PaidHaveMet, Threshold
  <2> QED BY <2>1, <2>2 DEF LateInv
<1>6. CASE EndAttesting
  <2>1. Reports' /\ NamedOnce'
    BY <1>6 DEF EndAttesting, Reports, NamedOnce
  <2>2. LateJudgement'
    BY <1>6 DEF EndAttesting, LateJudgement
  <2> QED BY <2>1, <2>2 DEF LateInv
<1>7. CASE UNCHANGED vars
  BY <1>7 DEF vars, LateInv, Reports, NamedOnce, LateJudgement, PaidHaveMet, Threshold
<1> QED BY <1>2, <1>3, <1>4, <1>5, <1>6, <1>7 DEF Next

\* Whoever the late judgement rewards attested as many of the others it
\* rewards as the threshold asks for, in meetups of every size, provided no
\* list that is submitted names anybody twice.  Without this it is false:
\* group_participants_by_num_outgoing_attestations counts a repeated name anew.
THEOREM PaidHaveAlwaysMet ==
    ASSUME \A list \in Lists : \A q \in Participant : list[q] \in {0, 1}
    PROVE  Spec => []PaidHaveMet
<1>1. Init => LateInv
  BY LateInvInit
<1>2. LateInv /\ [Next]_vars => LateInv'
  BY LateInvStep
<1>3. LateInv => PaidHaveMet
  BY DEF LateInv, LateJudgement, PaidHaveMet
<1> QED BY <1>1, <1>2, <1>3, PTL DEF Spec

-----------------------------------------------------------------------------
(* The numbers of the assignment: coprime numbers, inverses and primes.     *)

\* get_greatest_common_denominator returns a combination of its arguments.
LEMMA GcdCombines ==
    ASSUME NEW a \in Nat \ {0}, NEW b \in Nat \ {0}
    PROVE  Combines(Gcd(a, b), a, b)
<1> DEFINE P == Nat \ {0}
<1> DEFINE D == {ab \in P \X P : Combines(ab[1], a, b) /\ Combines(ab[2], a, b)}
<1> DEFINE step == [ab \in D |-> GcdStep(ab)]
<1> DEFINE mu == [ab \in D |-> ab[1] + ab[2]]
<1> DEFINE s == <<a, b>>
<1> DEFINE n == a + b
<1>1. s \in D
  BY CombineSelf
<1>2. ASSUME NEW ab \in D
      PROVE  /\ GcdStep(ab) \in D
             /\ ab[1] + ab[2] \in Nat
             /\ GcdStep(ab) = ab \/ GcdStep(ab)[1] + GcdStep(ab)[2] < ab[1] + ab[2]
             /\ GcdStep(ab) = ab => ab[1] = ab[2]
  <2>1. PICK u \in P, v \in P : ab = <<u, v>>
    OBVIOUS
  <2>2. Combines(u, a, b) /\ Combines(v, a, b)
    BY <2>1
  <2>3. Combines(u - v, a, b) /\ Combines(v - u, a, b)
    <3>1. PICK k \in Int : k = 1
      OBVIOUS
    <3>2. Combines(u - k * v, a, b) /\ Combines(v - k * u, a, b)
      <4>1. a \in Int /\ b \in Int
        OBVIOUS
      <4> HIDE DEF D
      <4> QED BY <2>2, <4>1, CombineDifference, Zenon
    <3>3. k * v = v /\ k * u = u
      BY <3>1
    <3> QED BY <3>2, <3>3
  <2>4. CASE u > v
    <3>1. GcdStep(ab) = <<u - v, v>> /\ u - v \in P
      BY <2>1, <2>4 DEF GcdStep
    <3> QED BY <2>1, <2>2, <2>3, <3>1
  <2>5. CASE u < v
    <3>1. GcdStep(ab) = <<u, v - u>> /\ v - u \in P
      BY <2>1, <2>5 DEF GcdStep
    <3> QED BY <2>1, <2>2, <2>3, <3>1
  <2>6. CASE u = v
    <3>1. GcdStep(ab) = ab
      BY <2>1, <2>6 DEF GcdStep
    <3> QED BY <2>1, <2>6, <3>1
  <2> QED BY <2>4, <2>5, <2>6
<1>3. step \in [D -> D] /\ mu \in [D -> Nat] /\ n \in Nat /\ mu[s] <= n
  <2>1. step \in [D -> D]
    BY <1>2
  <2>2. mu \in [D -> Nat]
    BY <1>2
  <2>3. mu[s] = n /\ n \in Nat
    BY <1>1
  <2> QED BY <2>1, <2>2, <2>3
<1>4. \A x \in D : step[x] = x \/ mu[step[x]] < mu[x]
  <2> TAKE x \in D
  <2>1. step[x] = GcdStep(x) /\ GcdStep(x) \in D
    BY <1>2
  <2>2. mu[x] = x[1] + x[2] /\ mu[GcdStep(x)] = GcdStep(x)[1] + GcdStep(x)[2]
    BY <2>1
  <2> QED BY <1>2, <2>1, <2>2
<1> DEFINE Table(l) == l = [i \in 0 .. n |-> IF i = 0 THEN s ELSE GcdStep(l[i - 1])]
<1> DEFINE pair == CHOOSE l : Table(l)
<1>5. Gcd(a, b) = pair[n][1]
  BY DEF Gcd
<1>6. \E l : Table(l)
  <2> HIDE DEF step, D, s, n
  <2>1. PICK l \in [0 .. n -> D] : Iterates(l, step, s, n)
    BY <1>1, <1>3, IteratesExist
  <2>2. l = [i \in 0 .. n |-> l[i]]
    OBVIOUS
  <2>3. \A i \in 0 .. n : l[i] = IF i = 0 THEN s ELSE GcdStep(l[i - 1])
    <3> TAKE i \in 0 .. n
    <3>1. CASE i = 0
      BY <2>1, <3>1 DEF Iterates
    <3>2. CASE i # 0
      <4>1. i - 1 \in 0 .. n
        BY <1>3, <3>2
      <4>2. l[i - 1] \in D /\ l[i] = step[l[i - 1]]
        BY <2>1, <3>2, <4>1 DEF Iterates
      <4>3. l[i] = GcdStep(l[i - 1])
        BY <4>2 DEF step
      <4> QED BY <3>2, <4>3
    <3> QED BY <3>1, <3>2
  <2>4. Table(l)
    BY <2>2, <2>3
  <2> QED BY <2>4
<1>7. Table(pair)
  BY <1>6
<1> HIDE DEF pair
<1>8. pair[0] = s /\ \A i \in 0 .. n : i # 0 /\ pair[i - 1] \in D => pair[i] = step[pair[i - 1]]
  <2> HIDE DEF D, s, n
  <2>1. pair[0] = s
    BY <1>3, <1>7
  <2>2. \A i \in 0 .. n : i # 0 => pair[i] = GcdStep(pair[i - 1])
    BY <1>7
  <2> QED BY <2>1, <2>2
<1>9. pair[n] \in D /\ step[pair[n]] = pair[n]
  <2> HIDE DEF D, s, n, step, mu
  <2> QED BY <1>1, <1>3, <1>4, <1>8, IterationEnds
<1> QED BY <1>5, <1>9
\* and m, those of a with the factors x and y, and no common divisor is lost.
EuclidStates(a, m) ==
    {e \in [m : Nat \ {0}, n : Nat, x : Int, y : Int] :
        /\ \E q \in Int : e.m = e.x * a + q * m
        /\ \E q \in Int : e.n = e.y * a + q * m
        /\ \A d \in Nat : Divides(d, e.m) /\ Divides(d, e.n) => Divides(d, m) /\ Divides(d, a)}

\* An iteration leads from one such state to another.
LEMMA EuclidIterates ==
    ASSUME NEW a \in Nat, NEW m \in Nat, NEW e \in EuclidStates(a, m)
    PROVE  /\ EuclidStep(e) \in EuclidStates(a, m)
           /\ EuclidStep(e) = e \/ EuclidStep(e).n < e.n
           /\ EuclidStep(e) = e => e.n = 0
<1> DEFINE u == e.m
<1> DEFINE v == e.n
<1> DEFINE x == e.x
<1> DEFINE y == e.y
<1>1. u \in Nat \ {0} /\ v \in Nat /\ x \in Int /\ y \in Int
  BY DEF EuclidStates
<1>2. PICK q1 \in Int : u = x * a + q1 * m
  BY DEF EuclidStates
<1>3. PICK q2 \in Int : v = y * a + q2 * m
  BY DEF EuclidStates
<1>4. \A d \in Nat : Divides(d, u) /\ Divides(d, v) => Divides(d, m) /\ Divides(d, a)
  BY DEF EuclidStates
<1>5. CASE v = 0
  BY <1>5 DEF EuclidStep
<1>6. CASE v # 0
  <2> DEFINE k == u \div v
  <2> DEFINE r == u % v
  <2> DEFINE z == x - k * y
  <2>1. k \in Int /\ r = u - k * v /\ r \in Nat /\ r < v
    BY <1>1, <1>6, RemainderDifference
  <2>2. EuclidStep(e) = [m |-> v, n |-> r, x |-> y, y |-> z]
    BY <1>6 DEF EuclidStep
  <2> HIDE DEF k, r, u, v, x, y
  <2>3. z \in Int
    BY <1>1, <2>1, SMTT(30)
  <2>4. r = z * a + (q1 - k * q2) * m
    <3>1. k * v = (k * y) * a + (k * q2) * m
      BY <1>1, <1>3, <2>1, SMTT(30)
    <3>2. z * a = x * a - (k * y) * a /\ (q1 - k * q2) * m = q1 * m - (k * q2) * m
      BY <1>1, <2>1, SMTT(30)
    <3>3. x * a \in Int /\ q1 * m \in Int /\ (k * y) * a \in Int /\ (k * q2) * m \in Int
      BY <1>1, <2>1, SMTT(30)
    <3> DEFINE c1 == x * a
    <3> DEFINE c2 == q1 * m
    <3> DEFINE c3 == (k * y) * a
    <3> DEFINE c4 == (k * q2) * m
    <3>4. c1 \in Int /\ c2 \in Int /\ c3 \in Int /\ c4 \in Int
      BY <3>3
    <3>5. u - k * v = (c1 + c2) - (c3 + c4)
      BY <1>2, <3>1
    <3>6. z * a + (q1 - k * q2) * m = (c1 - c3) + (c2 - c4)
      BY <3>2
    <3> HIDE DEF c1, c2, c3, c4
    <3>7. (c1 + c2) - (c3 + c4) = (c1 - c3) + (c2 - c4)
      BY <3>4
    <3> QED BY <2>1, <3>5, <3>6, <3>7
  <2>5. q1 - k * q2 \in Int
    BY <2>1, SMTT(30)
  <2> HIDE DEF z
  <2>6. ASSUME NEW d \in Nat, Divides(d, v), Divides(d, r)
        PROVE  Divides(d, m) /\ Divides(d, a)
    <3>1. Divides(d, u)
      <4>1. Divides(d, u - k * v) /\ d \in Int /\ u \in Int /\ v \in Int
        BY <1>1, <2>1, <2>6
      <4>2. Divides(d, v) /\ k \in Int
        BY <2>1, <2>6
      <4> QED BY <4>1, <4>2, DividesWhole, Zenon
    <3> QED BY <1>4, <2>6, <3>1
  <2> DEFINE f == [m |-> v, n |-> r, x |-> y, y |-> z]
  <2>7. f \in EuclidStates(a, m)
    <3>1. f \in [m : Nat \ {0}, n : Nat, x : Int, y : Int]
      BY <1>1, <1>6, <2>1, <2>3
    <3>2. f.m = v /\ f.n = r /\ f.x = y /\ f.y = z
      OBVIOUS
    <3> HIDE DEF f
    <3>3. \E q \in Int : f.m = f.x * a + q * m
      BY <1>3, <3>2
    <3>4. \E q \in Int : f.n = f.y * a + q * m
      BY <2>4, <2>5, <3>2
    <3> QED BY <2>6, <3>1, <3>2, <3>3, <3>4 DEF EuclidStates
  <2>8. f.n < e.n /\ f # e
    <3>1. f.n = r /\ e.n = v
      BY DEF v
    <3>2. r # v
      BY <1>1, <2>1
    <3> QED BY <2>1, <3>1, <3>2
  <2> QED BY <2>2, <2>7, <2>8
<1> QED BY <1>5, <1>6

\* checked_mod_inv finds the inverse of a modulo m if they have no common
\* divisor.
LEMMA InverseFound ==
    ASSUME NEW m \in Nat \ {0}, NEW a \in Nat \ {0},
           \A d \in Nat : Divides(d, m) /\ Divides(d, a) => d = 1
    PROVE  CheckedModInv(a, m) \in Int /\ Inverts(CheckedModInv(a, m), a, m)
<1> DEFINE D == EuclidStates(a, m)
<1> DEFINE step == [e \in D |-> EuclidStep(e)]
<1> DEFINE mu == [e \in D |-> e.n]
<1> DEFINE s == [m |-> m, n |-> a, x |-> 0, y |-> 1]
<1>1. s \in D
  <2>1. m = 0 * a + 1 * m /\ a = 1 * a + 0 * m
    BY SMTT(30)
  <2>2. s.m = m /\ s.n = a /\ s.x = 0 /\ s.y = 1 /\ s \in [m : Nat \ {0}, n : Nat, x : Int, y : Int]
    OBVIOUS
  <2> HIDE DEF s
  <2>3. \E q \in Int : s.m = s.x * a + q * m
    BY <2>1, <2>2
  <2>4. \E q \in Int : s.n = s.y * a + q * m
    BY <2>1, <2>2
  <2> QED BY <2>2, <2>3, <2>4 DEF EuclidStates
<1>2. step \in [D -> D] /\ mu \in [D -> Nat] /\ mu[s] <= a /\ a \in Nat
  <2>1. step \in [D -> D]
    BY EuclidIterates
  <2>2. mu \in [D -> Nat]
    BY DEF EuclidStates
  <2>3. mu[s] = a
    BY <1>1
  <2> QED BY <2>1, <2>2, <2>3
<1>3. \A x \in D : step[x] = x \/ mu[step[x]] < mu[x]
  <2> TAKE x \in D
  <2>1. step[x] = EuclidStep(x) /\ EuclidStep(x) \in D
    BY EuclidIterates
  <2>2. mu[x] = x.n /\ mu[EuclidStep(x)] = EuclidStep(x).n
    BY <2>1
  <2> QED BY <2>1, <2>2, EuclidIterates
<1> DEFINE Table(l) == l = [i \in 0 .. a |-> IF i = 0 THEN s ELSE EuclidStep(l[i - 1])]
<1> DEFINE at == CHOOSE l : Table(l)
<1>4. CheckedModInv(a, m) = at[a].x % m
  BY DEF CheckedModInv
<1>5. \E l : Table(l)
  <2> HIDE DEF step, D, s
  <2>1. PICK l \in [0 .. a -> D] : Iterates(l, step, s, a)
    BY <1>1, <1>2, IteratesExist
  <2>2. l = [i \in 0 .. a |-> l[i]]
    OBVIOUS
  <2>3. \A i \in 0 .. a : l[i] = IF i = 0 THEN s ELSE EuclidStep(l[i - 1])
    <3> TAKE i \in 0 .. a
    <3>1. CASE i = 0
      BY <2>1, <3>1 DEF Iterates
    <3>2. CASE i # 0
      <4>1. i - 1 \in 0 .. a
        BY <3>2
      <4>2. l[i - 1] \in D /\ l[i] = step[l[i - 1]]
        BY <2>1, <3>2, <4>1 DEF Iterates
      <4>3. l[i] = EuclidStep(l[i - 1])
        BY <4>2 DEF step
      <4> QED BY <3>2, <4>3
    <3> QED BY <3>1, <3>2
  <2>4. Table(l)
    BY <2>2, <2>3
  <2> QED BY <2>4
<1>6. Table(at)
  BY <1>5
<1> HIDE DEF at
<1>7. at[0] = s /\ \A i \in 0 .. a : i # 0 /\ at[i - 1] \in D => at[i] = step[at[i - 1]]
  <2> HIDE DEF D, s
  <2>1. at[0] = s
    BY <1>6
  <2>2. \A i \in 0 .. a : i # 0 => at[i] = EuclidStep(at[i - 1])
    BY <1>6
  <2> QED BY <2>1, <2>2
<1>8. at[a] \in D /\ step[at[a]] = at[a]
  <2> HIDE DEF D, s, step, mu
  <2> QED BY <1>1, <1>2, <1>3, <1>7, IterationEnds
<1>9. PICK e \in D : e = at[a] /\ EuclidStep(e) = e
  BY <1>8
<1>10. e.n = 0 /\ e.m \in Nat /\ e.x \in Int
  <2>1. e.n = 0
    BY <1>9, EuclidIterates
  <2> QED BY <2>1 DEF EuclidStates
<1>11. e.m = 1
  <2>1. Divides(e.m, e.m) /\ Divides(e.m, e.n)
    <3>1. e.m = e.m * 1 /\ 0 = e.m * 0
      BY <1>10
    <3> QED BY <1>10, <3>1 DEF Divides
  <2>2. Divides(e.m, m) /\ Divides(e.m, a)
    BY <1>10, <2>1 DEF EuclidStates
  <2> QED BY <1>10, <2>2
<1>12. PICK q \in Int : 1 = e.x * a + q * m
  BY <1>11 DEF EuclidStates
<1> DEFINE t == e.x % m
<1> DEFINE f == e.x \div m
<1> DEFINE x == e.x
<1>13. t \in 0 .. m - 1 /\ f \in Int /\ x = m * f + t /\ x \in Int
  BY <1>10, IntDivision
<1>14. CheckedModInv(a, m) = t
  BY <1>4, <1>9
<1>15. 1 = x * a + q * m
  BY <1>12
<1> HIDE DEF t, f, x
<1>16. a * t = 1 + m * (- q - a * f)
  <2>1. x * a = m * (a * f) + a * t
    BY <1>13, SMTT(30)
  <2>2. m * (- q - a * f) = - (q * m) - m * (a * f)
    BY <1>13, SMTT(30)
  <2>3. m * (a * f) \in Int /\ a * t \in Int /\ q * m \in Int
    BY <1>13, SMTT(30)
  <2> DEFINE c1 == m * (a * f)
  <2> DEFINE c2 == a * t
  <2> DEFINE c3 == q * m
  <2>4. c1 \in Int /\ c2 \in Int /\ c3 \in Int /\ 1 = (c1 + c2) + c3
    BY <1>15, <2>1, <2>3
  <2> HIDE DEF c1, c2, c3
  <2>5. c2 = 1 + (- c3 - c1)
    BY <2>4
  <2> QED BY <2>2, <2>5 DEF c1, c2, c3
<1>17. - q - a * f \in Int
  BY <1>13, SMTT(30)
<1>18. Inverts(t, a, m)
  BY <1>16, <1>17 DEF Inverts
<1> QED BY <1>13, <1>14, <1>18

\* is_prime, which tries 2, 3 and the numbers next to multiples of six, finds
\* exactly the primes.
LEMMA IsPrimeRight ==
    ASSUME NEW n \in Nat
    PROVE  IsPrime(n) <=> Prime(n)
<1> DEFINE Steps == {i \in 5 .. n : (i - 5) % 6 = 0 /\ i * i <= n}
<1>0. IsPrime(n) <=> IF n <= 3 THEN n > 1
                     ELSE /\ n % 2 # 0
                          /\ n % 3 # 0
                          /\ \A i \in Steps : n % i # 0 /\ n % (i + 2) # 0
  BY DEF IsPrime
<1>1. ASSUME n <= 3
      PROVE  n > 1 <=> Prime(n)
  <2>1. CASE n > 1
    <3>1. ASSUME NEW d \in Nat, Divides(d, n)
          PROVE  d = 1 \/ d = n
      <4>1. PICK k \in Int : n = d * k
        BY <3>1 DEF Divides
      <4>2. d # 0
        BY <2>1, <4>1
      <4>3. d <= n
        <5> SUFFICES ASSUME d > n PROVE FALSE
          OBVIOUS
        <5>1. - d < d * k /\ d * k < d
          BY <2>1, <4>1
        <5>2. k = 0
          BY <4>2, <5>1, SmallMultiple
        <5> QED BY <2>1, <4>1, <5>2
      <4>4. ~ (n = 3 /\ d = 2)
        <5> SUFFICES ASSUME n = 3, d = 2 PROVE FALSE
          OBVIOUS
        <5>1. 3 = 2 * k
          BY <4>1
        <5> QED BY <5>1
      <4> QED BY <1>1, <2>1, <4>2, <4>3, <4>4
    <3> QED BY <2>1, <3>1 DEF Prime
  <2>2. CASE ~ (n > 1)
    BY <2>2 DEF Prime
  <2> QED BY <2>1, <2>2
<1>2. ASSUME n > 3, Prime(n)
      PROVE  IsPrime(n)
  <2>1. \A d \in Nat : d >= 2 /\ d # n => n % d # 0
    <3> TAKE d \in Nat
    <3> HAVE d >= 2 /\ d # n
    <3>1. ~ Divides(d, n)
      BY <1>2 DEF Prime
    <3> QED BY <3>1, ModZero
  <2>2. ASSUME NEW i \in Steps
        PROVE  n % i # 0 /\ n % (i + 2) # 0
    <3>1. i \in Nat /\ i >= 5 /\ i * i <= n
      OBVIOUS
    <3>2. 5 * i <= i * i
      <4>1. i * 5 <= i * i /\ i * 5 = 5 * i
        BY <3>1, ProductGrows
      <4> QED BY <4>1
    <3>3. i # n /\ i + 2 # n
      <4> DEFINE c == i * i
      <4>1. 5 * i <= c /\ c <= n
        BY <3>1, <3>2
      <4>2. c \in Int
        BY <3>1, SMTT(30)
      <4> HIDE DEF c, Steps
      <4> QED BY <3>1, <4>1, <4>2
    <3>4. PICK j \in Nat : j = i + 2
      BY <3>1
    <3>5. j >= 2 /\ j # n /\ i >= 2
      BY <3>1, <3>3, <3>4
    <3> HIDE DEF Steps
    <3>6. n % j # 0 /\ n % i # 0
      BY <2>1, <3>1, <3>3, <3>5
    <3> QED BY <3>4, <3>6
  <2>3. n % 2 # 0 /\ n % 3 # 0
    BY <1>2, <2>1
  <2> HIDE DEF Steps
  <2> QED BY <1>0, <1>2, <2>2, <2>3
<1>3. ASSUME n > 3, IsPrime(n), ~ Prime(n)
      PROVE  FALSE
  <2> DEFINE Bad == {d \in Nat : d >= 2 /\ d < n /\ Divides(d, n)}
  <2>0. n % 2 # 0 /\ n % 3 # 0 /\ \A i \in Steps : n % i # 0 /\ n % (i + 2) # 0
    <3> HIDE DEF Steps
    <3> QED BY <1>0, <1>3
  <2>1. Bad # {}
    <3>1. PICK d \in Nat : Divides(d, n) /\ d # 1 /\ d # n
      BY <1>3 DEF Prime
    <3>2. PICK k \in Int : n = d * k
      BY <3>1 DEF Divides
    <3>3. d # 0
      BY <1>3, <3>2
    <3>4. d <= n
      <4> SUFFICES ASSUME d > n PROVE FALSE
        OBVIOUS
      <4>1. - d < d * k /\ d * k < d
        BY <1>3, <3>2
      <4>2. k = 0
        BY <3>3, <4>1, SmallMultiple
      <4> QED BY <1>3, <3>2, <4>2
    <3>5. d \in Bad
      BY <3>1, <3>3, <3>4
    <3> QED BY <3>5
  <2>2. PICK q \in Bad : \A d \in Bad : q <= d
    <3>1. Bad \subseteq Nat
      OBVIOUS
    <3> HIDE DEF Bad
    <3> QED BY <2>1, <3>1, LeastNumber
  <2>3. q \in Nat /\ q >= 2 /\ q < n /\ Divides(q, n)
    OBVIOUS
  <2>4. q * q <= n
    <3>1. PICK k \in Nat : k >= 2 /\ k < n /\ n = q * k /\ Divides(k, n)
      BY <1>3, <2>3, Cofactor
    <3>2. q <= k
      BY <2>2, <3>1
    <3> QED BY <2>3, <3>1, <3>2, ProductGrows
  <2>5. ASSUME NEW c \in Nat \ {0}, n % c # 0, NEW h \in Nat, q = c * h
        PROVE  FALSE
    <3>1. PICK k \in Int : n = q * k
      BY <2>3 DEF Divides
    <3>2. n = c * (h * k) /\ h * k \in Int
      BY <2>5, <3>1, SMTT(30)
    <3>3. Divides(c, n)
      BY <3>2 DEF Divides
    <3> QED BY <2>5, <3>3, ModZero
  <2>6. n % q = 0
    BY <2>3, ModZero
  <2> DEFINE h == q \div 6
  <2> DEFINE t == q % 6
  <2>7. h \in Nat /\ t \in 0 .. 5 /\ q = 6 * h + t
    BY <2>3
  <2> HIDE DEF h, t, Bad, Steps
  <2>8. t # 0 /\ t # 2 /\ t # 4
    <3>1. t = 0 \/ t = 2 \/ t = 4 => \E i \in Nat : q = 2 * i
      <4>1. t = 0 => q = 2 * (3 * h) /\ 3 * h \in Nat
        BY <2>7
      <4>2. t = 2 => q = 2 * (3 * h + 1) /\ 3 * h + 1 \in Nat
        BY <2>7
      <4>3. t = 4 => q = 2 * (3 * h + 2) /\ 3 * h + 2 \in Nat
        BY <2>7
      <4> QED BY <4>1, <4>2, <4>3
    <3> QED BY <2>0, <2>5, <3>1
  <2>9. t # 3
    <3>1. t = 3 => q = 3 * (2 * h + 1) /\ 2 * h + 1 \in Nat
      BY <2>7
    <3> QED BY <2>0, <2>5, <3>1
  <2>10. CASE t = 5
    <3>1. q \in 5 .. n /\ (q - 5) % 6 = 0
      BY <2>3, <2>7, <2>10
    <3>2. q \in Steps
      BY <2>4, <3>1 DEF Steps
    <3> QED BY <2>0, <2>6, <3>2
  <2>11. CASE t = 1
    <3> DEFINE i == q - 2
    <3>1. h # 0
      BY <2>3, <2>7, <2>11
    <3>2. i \in 5 .. n /\ i \in Nat /\ i <= q /\ (i - 5) % 6 = 0 /\ i + 2 = q
      BY <2>3, <2>7, <2>11, <3>1
    <3> HIDE DEF i
    <3>3. i * i <= q * q
      BY <2>3, <3>2, ProductGrows
    <3>4. i * i <= n
      <4>1. i * i \in Int /\ q * q \in Int
        BY <2>3, <3>2, SMTT(30)
      <4> DEFINE c == i * i
      <4> DEFINE f == q * q
      <4>2. c \in Int /\ f \in Int /\ c <= f /\ f <= n
        BY <2>4, <3>3, <4>1
      <4> HIDE DEF c, f
      <4>3. c <= n
        BY <4>2
      <4> QED BY <4>3 DEF c
    <3>5. i \in Steps
      BY <3>2, <3>4 DEF Steps
    <3> QED BY <2>0, <2>6, <3>2, <3>5
  <2> QED BY <2>7, <2>8, <2>9, <2>10, <2>11
<1> QED BY <1>0, <1>1, <1>2, <1>3

\* Among finitely many numbers there is a largest one.
LEMMA MaxIsGreatest ==
    ASSUME NEW B, B \subseteq Nat, B # {}, NEW b \in Nat, \A x \in B : x <= b
    PROVE  Max(B) \in B /\ \A x \in B : x <= Max(B)
<1> DEFINE C == {b - x : x \in B}
<1>1. PICK c \in C : \A y \in C : c <= y
  <2>1. C \subseteq Nat
    <3>1. \A x \in B : b - x \in Nat
      OBVIOUS
    <3> QED BY <3>1
  <2>2. C # {}
    <3>1. PICK x \in B : TRUE
      OBVIOUS
    <3>2. b - x \in C
      OBVIOUS
    <3> QED BY <3>2
  <2> HIDE DEF C
  <2> QED BY <2>1, <2>2, LeastNumber
<1>2. PICK x \in B : c = b - x
  OBVIOUS
<1>3. \A y \in B : x >= y
  <2> TAKE y \in B
  <2>1. b - x <= b - y
    BY <1>1, <1>2
  <2> QED BY <2>1
<1>4. Max(B) \in B /\ \A y \in B : Max(B) >= y
  BY <1>3 DEF Max
<1> QED BY <1>4

\* find_prime_below returns a prime, not above its argument if that is at
\* least two, and no smaller than any other one.
LEMMA PrimeBelow ==
    ASSUME NEW n \in Nat
    PROVE  /\ Prime(FindPrimeBelow(n))
           /\ n >= 2 => FindPrimeBelow(n) <= n
           /\ \A p \in Nat : Prime(p) /\ p <= n => p <= FindPrimeBelow(n)
<1>1. Prime(2)
  <2>1. PICK k \in Nat : k = 2
    OBVIOUS
  <2>2. IsPrime(k)
    BY <2>1 DEF IsPrime
  <2> QED BY <2>1, <2>2, IsPrimeRight
<1>2. CASE n <= 2
  <2>1. FindPrimeBelow(n) = 2
    BY <1>2 DEF FindPrimeBelow
  <2> QED BY <1>1, <1>2, <2>1
<1>3. CASE n > 2
  <2> DEFINE start == IF n % 2 = 0 THEN n - 1 ELSE n
  <2> DEFINE B == {p \in 3 .. start : (start - p) % 2 = 0 /\ IsPrime(p)} \cup {2}
  <2>1. FindPrimeBelow(n) = Max(B)
    BY <1>3 DEF FindPrimeBelow
  <2>2. start \in Nat /\ start <= n /\ start % 2 = 1 /\ start >= 3
    BY <1>3
  <2>3. B \subseteq Nat /\ B # {} /\ \A x \in B : x <= n
    BY <1>3, <2>2
  <2>4. Max(B) \in B /\ \A x \in B : x <= Max(B)
    <3> HIDE DEF B
    <3> QED BY <2>3, MaxIsGreatest
  <2>5. \A p \in B : Prime(p)
    BY <1>1, <2>2, IsPrimeRight
  <2>6. ASSUME NEW p \in Nat, Prime(p), p <= n
        PROVE  p \in B
    <3>1. CASE p = 2
      BY <3>1
    <3>2. CASE p # 2
      <4>1. p >= 3
        BY <2>6, <3>2 DEF Prime
      <4>2. p % 2 = 1
        <5>1. PICK c \in Nat \ {0} : c = 2
          OBVIOUS
        <5>2. ~ Divides(c, p)
          BY <2>6, <3>2, <5>1 DEF Prime
        <5>3. p % c # 0
          BY <5>2, ModZero
        <5> QED BY <5>1, <5>3
      <4>3. p <= start
        <5>1. CASE n % 2 = 0
          BY <2>6, <4>2, <5>1
        <5>2. CASE n % 2 # 0
          BY <2>6, <5>2
        <5> QED BY <5>1, <5>2
      <4>4. (start - p) % 2 = 0
        <5> HIDE DEF start
        <5> QED BY <2>2, <4>2, <4>3
      <4>5. IsPrime(p)
        BY <2>6, IsPrimeRight
      <4> QED BY <4>1, <4>3, <4>4, <4>5
    <3> QED BY <3>1, <3>2
  <2> QED BY <2>1, <2>3, <2>4, <2>5, <2>6
<1> QED BY <1>2, <1>3

\* So the prime is more than half of the number.
LEMMA PrimeAboveHalf ==
    ASSUME Bertrand, NEW n \in Nat
    PROVE  n < 2 * FindPrimeBelow(n)
<1> DEFINE m == FindPrimeBelow(n)
<1>1. m \in Nat /\ m >= 2
  BY PrimeBelow DEF Prime
<1>2. CASE n < 2
  BY <1>1, <1>2
<1>3. CASE n >= 2
  <2> DEFINE h == n \div 2
  <2>1. h \in Nat \ {0} /\ 2 * h <= n /\ n < 2 * h + 2
    BY <1>3
  <2> HIDE DEF h, m
  <2>2. PICK p \in Nat : h < p /\ p <= 2 * h /\ Prime(p)
    BY <2>1 DEF Bertrand
  <2>3. p <= m
    BY <2>1, <2>2, PrimeBelow DEF m
  <2>4. n < 2 * m
    BY <1>1, <2>1, <2>2, <2>3
  <2> QED BY <2>4 DEF m
<1> QED BY <1>2, <1>3

\* Modulo a prime every number has an inverse, and checked_mod_inv finds it.
LEMMA InverseModPrime ==
    ASSUME NEW m, Prime(m), NEW a \in 1 .. m - 1
    PROVE  CheckedModInv(a, m) \in Int /\ Inverts(CheckedModInv(a, m), a, m)
<1>1. m \in Nat \ {0} /\ a \in Nat \ {0} /\ a < m
  BY DEF Prime
<1>2. ASSUME NEW d \in Nat, Divides(d, m), Divides(d, a)
      PROVE  d = 1
  <2> SUFFICES ASSUME d = m PROVE FALSE
    BY <1>2 DEF Prime
  <2>1. PICK k \in Int : a = m * k
    BY <1>2 DEF Divides
  <2>2. - m < m * k /\ m * k < m
    BY <1>1, <2>1
  <2>3. k = 0
    BY <1>1, <2>2, SmallMultiple
  <2> QED BY <1>1, <2>1, <2>3
<1> QED BY <1>1, <1>2, InverseFound

-----------------------------------------------------------------------------
(* The seating function and its inverse.                                    *)

\* checked_ceil_division counts the multiples below its first argument.
LEMMA CeilCounts ==
    ASSUME NEW x \in Nat, NEW c \in Nat \ {0}
    PROVE  /\ CeilDivision(x, c) \in Nat
           /\ \A i \in Nat : i < CeilDivision(x, c) <=> c * i < x
<1> DEFINE y == x + c - 1
<1> DEFINE q == y \div c
<1>1. y \in Nat
  OBVIOUS
<1>2. q \in Nat /\ c * q \in Nat /\ c * q <= y
  <2> HIDE DEF y
  <2> QED BY <1>1, QuotientBounds
<1>3. CeilDivision(x, c) = q
  BY DEF CeilDivision
<1>4. ASSUME NEW i \in Nat, i < q
      PROVE  c * i < x
  <2> HIDE DEF q
  <2>1. c * i + c <= c * q /\ c * i \in Nat
    <3>1. c * i + c <= c * q
      BY <1>2, <1>4, TimesGrows
    <3>2. c * i \in Nat
      BY SMTT(30)
    <3> QED BY <3>1, <3>2
  <2> DEFINE a == c * i
  <2> DEFINE b == c * q
  <2>2. a \in Nat /\ b \in Nat /\ a + c <= b /\ b <= x + c - 1
    BY <1>2, <2>1
  <2> HIDE DEF a, b
  <2>3. a < x
    BY <2>2
  <2> QED BY <2>3 DEF a
<1>5. ASSUME NEW i \in Nat, c * i < x
      PROVE  i < q
  <2> DEFINE j == i + 1
  <2>1. c * j = c * i + c /\ c * i \in Nat
    BY SMTT(30)
  <2> DEFINE a == c * i
  <2>2. a \in Nat /\ a < x /\ c * j = a + c
    BY <1>5, <2>1
  <2> HIDE DEF a
  <2>3. c * j <= y /\ j \in Nat
    BY <2>2
  <2> HIDE DEF y, j
  <2>4. j <= q
    BY <1>1, <2>3, QuotientAtLeast
  <2> HIDE DEF q
  <2> QED BY <1>2, <2>4 DEF j
<1> HIDE DEF q
<1> QED BY <1>2, <1>3, <1>4, <1>5

\* What generate_assignment_function_params draws.
ValidParams(pa) == Prime(pa.m) /\ pa.s1 \in 1 .. pa.m - 1 /\ pa.s2 \in 1 .. pa.m - 1

\* The assignment function before it is reduced to the number of meetups, and
\* what t3 makes of its value.
Mixed(p, pa) == (p * pa.s1 + pa.s2) % pa.m

Unmixed(r, pa) == Unmix(r, pa.s2, CheckedModInv(pa.s1, pa.m), pa.m)

\* Mixing is a permutation of the numbers below the prime, and t3 undoes it.
LEMMA UnmixingInverts ==
    ASSUME NEW pa, ValidParams(pa)
    PROVE  /\ pa.m \in Nat \ {0}
           /\ \A p \in Nat : Mixed(p, pa) \in 0 .. pa.m - 1 /\ Mixed(p + pa.m, pa) = Mixed(p, pa)
           /\ \A r \in 0 .. pa.m - 1 : /\ Unmixed(r, pa) \in 0 .. pa.m - 1
                                       /\ Mixed(Unmixed(r, pa), pa) = r
           /\ \A p \in 0 .. pa.m - 1 : Unmixed(Mixed(p, pa), pa) = p
<1> DEFINE m == pa.m
<1> DEFINE s == pa.s1
<1> DEFINE b == pa.s2
<1> DEFINE t == CheckedModInv(s, m)
<1>1. Prime(m) /\ m \in Nat \ {0} /\ s \in 1 .. m - 1 /\ s \in Int /\ b \in Int
  BY DEF ValidParams, Prime
<1>2. t \in Int /\ Inverts(t, s, m)
  <2> HIDE DEF m, s
  <2> QED BY <1>1, InverseModPrime
<1>3. \A p : Mixed(p, pa) = (p * s + b) % m
  BY DEF Mixed
<1>4. \A r : Unmixed(r, pa) = Unmix(r, b, t, m)
  BY DEF Unmixed
<1> HIDE DEF m, s, b, t
<1>5. ASSUME NEW p \in Nat
      PROVE  Mixed(p, pa) \in 0 .. m - 1 /\ Mixed(p + m, pa) = Mixed(p, pa)
  <2>1. p * s + b \in Int
    BY <1>1, SMTT(30)
  <2> DEFINE n == p * s + b
  <2>2. n \in Int
    BY <2>1
  <2> HIDE DEF n
  <2>3. n % m \in 0 .. m - 1
    BY <1>1, <2>2, IntDivision
  <2>4. ((p + m) * s + b) % m = (p * s + b) % m
    <3>1. p \in Int
      OBVIOUS
    <3> QED BY <1>1, <3>1, Shifted
  <2> QED BY <1>3, <2>3, <2>4 DEF n
<1>6. ASSUME NEW r \in 0 .. m - 1
      PROVE  Unmixed(r, pa) \in 0 .. m - 1 /\ Mixed(Unmixed(r, pa), pa) = r
  <2>1. PICK p : p = Unmix(r, b, t, m)
    OBVIOUS
  <2>2. p \in 0 .. m - 1 /\ (p * s + b) % m = r
    <3>1. /\ m \in Nat \ {0} /\ s \in Int /\ t \in Int /\ b \in Int /\ r \in 0 .. m - 1
          /\ Inverts(t, s, m)
      BY <1>1, <1>2
    <3>2. r \in Int
      BY <3>1
    <3>3. p \in 0 .. m - 1
      BY <2>1, <3>1, <3>2, UnmixType
    <3>4. p \in Int
      BY <3>1, <3>3
    <3>5. Mix(p, s, b, m) = r
      <4>1. r \in Int /\ 0 <= r /\ r < m
        BY <3>1
      <4>2. Unmixes(p, r, s, t, b, m)
        BY <2>1, <3>1, <3>4, <4>1 DEF Unmixes
      <4> QED BY <4>2, MixingInverse
    <3> QED BY <3>3, <3>5 DEF Mix
  <2>3. Unmixed(r, pa) = p
    BY <1>4, <2>1
  <2> QED BY <1>3, <2>2, <2>3
<1>7. ASSUME NEW p \in 0 .. m - 1
      PROVE  Unmixed(Mixed(p, pa), pa) = p
  <2>1. PICK q, r : r = Mixed(p, pa) /\ q = Unmixed(r, pa)
    OBVIOUS
  <2>2. p \in Nat /\ p \in Int
    BY <1>1
  <2>3. r \in 0 .. m - 1
    BY <1>5, <2>1, <2>2
  <2>4. q \in 0 .. m - 1 /\ Mixed(q, pa) = r
    BY <1>6, <2>1, <2>3
  <2>5. (p * s + b) % m = (q * s + b) % m
    BY <1>3, <2>1, <2>4
  <2>6. q \in Int /\ - m < p - q /\ p - q < m
    BY <1>1, <2>4
  <2>7. p = q
    BY <1>1, <1>2, <2>2, <2>5, <2>6, MixingInjective
  <2> QED BY <2>1, <2>7
<1> QED BY <1>1, <1>5, <1>6, <1>7 DEF m

\* The values that belong to meetup k of count ones.
Values(k, m, count) == {r \in 0 .. m - 1 : r % count = k}

\* How many iterations assignment_fn_inverse makes.
Iterations(k, m, count) == CeilDivision(IF m > k THEN m - k ELSE 0, count)

\* Its iterations go through these values, each once.
LEMMA IterationsFindValues ==
    ASSUME NEW m \in Nat \ {0}, NEW count \in Nat \ {0}, NEW k \in 0 .. count - 1
    PROVE  /\ Iterations(k, m, count) \in Nat
           /\ \A i \in 0 .. Iterations(k, m, count) - 1 : count * i + k \in Values(k, m, count)
           /\ \A r \in Values(k, m, count) :
                /\ r \div count \in 0 .. Iterations(k, m, count) - 1
                /\ r = count * (r \div count) + k
<1> DEFINE rest == IF m > k THEN m - k ELSE 0
<1> DEFINE n == Iterations(k, m, count)
<1>1. rest \in Nat
  OBVIOUS
<1>2. n \in Nat /\ \A i \in Nat : i < n <=> count * i < rest
  <2>1. n = CeilDivision(rest, count)
    BY DEF Iterations
  <2> HIDE DEF rest, n
  <2> QED BY <1>1, <2>1, CeilCounts
<1>3. ASSUME NEW i \in 0 .. n - 1
      PROVE  count * i + k \in Values(k, m, count)
  <2>1. i \in Nat /\ i < n
    BY <1>2
  <2>2. count * i < rest /\ count * i \in Nat
    <3>1. count * i \in Nat
      BY <2>1, SMTT(30)
    <3> QED BY <1>2, <2>1, <3>1
  <2> DEFINE a == count * i
  <2> DEFINE r == a + k
  <2>3. a \in Nat /\ a < rest
    BY <2>2
  <2> HIDE DEF a
  <2>4. r \in 0 .. m - 1 /\ r \in Int
    BY <2>3
  <2>5. r = count * i + k /\ i \in Int
    BY <2>1 DEF a
  <2> HIDE DEF r
  <2>6. r % count = k
    BY <2>4, <2>5, RemainderUnique
  <2> QED BY <2>4, <2>5, <2>6 DEF Values
<1>4. ASSUME NEW r \in Values(k, m, count)
      PROVE  r \div count \in 0 .. n - 1 /\ r = count * (r \div count) + k
  <2>1. r \in 0 .. m - 1 /\ r % count = k /\ r \in Nat
    BY DEF Values
  <2> DEFINE i == r \div count
  <2>2. i \in Nat /\ r = count * i + k
    BY <2>1, Division
  <2> HIDE DEF i
  <2>3. count * i \in Nat
    BY <2>2, SMTT(30)
  <2> DEFINE a == count * i
  <2>4. a \in Nat /\ r = a + k
    BY <2>2, <2>3
  <2> HIDE DEF a
  <2>5. a < rest
    BY <2>1, <2>4
  <2>6. i < n
    BY <1>2, <2>2, <2>5 DEF a
  <2> HIDE DEF n
  <2> QED BY <1>2, <2>2, <2>6 DEF i
<1> QED BY <1>2, <1>3, <1>4

\* assignment_fn_inverse returns exactly the participants whom assignment_fn
\* seats in the meetup, provided there are fewer than twice the prime.
LEMMA InverseIsPreimage ==
    ASSUME NEW pa, ValidParams(pa), NEW count \in Nat \ {0}, NEW k \in 0 .. count - 1,
           NEW n \in Nat, n < 2 * pa.m
    PROVE  AssignmentFnInverse(k, pa, count, n)
             = {p \in 0 .. n - 1 : AssignmentFn(p, pa, count) = k}
<1> DEFINE m == pa.m
<1> DEFINE V == Values(k, m, count)
<1> DEFINE t2 == CheckedModInv(pa.s1, pa.m)
<1> DEFINE t3(i) == ((((count * i + k - pa.s2) % pa.m) * t2) % pa.m)
<1> DEFINE N == Iterations(k, m, count)
<1> DEFINE found == {t3(i) : i \in 0 .. N - 1} \cap 0 .. n - 1
<1>1. AssignmentFnInverse(k, pa, count, n)
        = found \cup {p \in {x + m : x \in found} : p < n}
  BY DEF AssignmentFnInverse, Iterations
<1>2. /\ m \in Nat \ {0}
      /\ \A p \in Nat : Mixed(p, pa) \in 0 .. m - 1 /\ Mixed(p + m, pa) = Mixed(p, pa)
      /\ \A r \in 0 .. m - 1 : Unmixed(r, pa) \in 0 .. m - 1 /\ Mixed(Unmixed(r, pa), pa) = r
      /\ \A p \in 0 .. m - 1 : Unmixed(Mixed(p, pa), pa) = p
  BY UnmixingInverts
<1>3. \A i \in Nat : t3(i) = Unmixed(count * i + k, pa)
  <2> TAKE i \in Nat
  <2>1. count * i \in Int /\ pa.s2 \in Int
    BY SMTT(30) DEF ValidParams
  <2> DEFINE a == count * i
  <2> DEFINE b == pa.s2
  <2>2. a \in Int /\ b \in Int
    BY <2>1
  <2> HIDE DEF a, b
  <2>3. (a + k - b) = (a + k) - b
    BY <2>2
  <2> QED BY <2>3 DEF a, b, Unmixed, Unmix
<1>4. \A p : AssignmentFn(p, pa, count) = Mixed(p, pa) % count
  BY DEF AssignmentFn, Mixed
<1> HIDE DEF m, t3
<1>5. /\ N \in Nat
      /\ \A i \in 0 .. N - 1 : count * i + k \in V
      /\ \A r \in V : r \div count \in 0 .. N - 1 /\ r = count * (r \div count) + k
  <2>1. m \in Nat \ {0} /\ count \in Nat \ {0} /\ k \in 0 .. count - 1
    BY <1>2
  <2> QED BY <2>1, IterationsFindValues, Zenon
<1>6. \A r \in V : r \in 0 .. m - 1 /\ r % count = k
  BY DEF Values
<1>7. \A r \in 0 .. m - 1 : r % count = k => r \in V
  BY DEF Values
<1> HIDE DEF V, N
<1>8. \A x \in found : x \in 0 .. m - 1 /\ x \in 0 .. n - 1 /\ Mixed(x, pa) % count = k
  <2> TAKE x \in found
  <2>1. PICK i \in 0 .. N - 1 : x = t3(i)
    OBVIOUS
  <2>2. PICK r \in V : x = Unmixed(r, pa)
    <3>1. i \in Nat
      BY <1>5
    <3> QED BY <1>3, <1>5, <2>1, <3>1
  <2> QED BY <1>2, <1>6, <2>2
<1>9. ASSUME NEW x \in 0 .. m - 1, x < n, Mixed(x, pa) % count = k
      PROVE  x \in found
  <2>1. PICK r : r = Mixed(x, pa)
    OBVIOUS
  <2>2. x \in Nat /\ x \in 0 .. n - 1
    BY <1>9
  <2>3. r \in V
    BY <1>2, <1>7, <1>9, <2>1, <2>2
  <2>4. PICK i \in 0 .. N - 1 : r = count * i + k
    BY <1>5, <2>3
  <2>5. t3(i) = x
    <3>1. i \in Nat
      BY <1>5
    <3> QED BY <1>2, <1>3, <2>1, <2>4, <3>1
  <2> QED BY <2>2, <2>5
<1> HIDE DEF found
<1>10. ASSUME NEW p \in 0 .. n - 1, Mixed(p, pa) % count = k
       PROVE  p \in found \/ \E x \in found : p = x + m /\ p < n
  <2>1. p \in Nat /\ p < n
    OBVIOUS
  <2>2. CASE p < m
    <3>1. p \in 0 .. m - 1
      BY <1>2, <2>1, <2>2
    <3> QED BY <1>9, <1>10, <2>1, <3>1
  <2>3. CASE p >= m
    <3>1. PICK x : x = p - m
      OBVIOUS
    <3>2. x \in Nat /\ x \in 0 .. m - 1 /\ x < n /\ p = x + m
      BY <1>2, <2>1, <2>3, <3>1 DEF m
    <3>3. Mixed(x, pa) = Mixed(p, pa)
      BY <1>2, <3>2
    <3>4. x \in found
      BY <1>9, <1>10, <3>2, <3>3
    <3> QED BY <2>1, <3>2, <3>4
  <2> QED BY <1>2, <2>1, <2>2, <2>3
<1>11. ASSUME NEW x \in found, x + m < n
       PROVE  x + m \in 0 .. n - 1 /\ Mixed(x + m, pa) % count = k
  <2>1. x \in Nat
    BY <1>8
  <2> QED BY <1>2, <1>8, <1>11, <2>1
<1> QED BY <1>1, <1>4, <1>8, <1>10, <1>11

-----------------------------------------------------------------------------
(* Locations.                                                               *)

\* What find_random_coprime_below returns has an inverse.
LEMMA CoprimesInvert ==
    ASSUME NEW n \in Nat, n >= 2, NEW s \in RandomCoprimesBelow(n)
    PROVE  s \in Int /\ \E t \in Int : Inverts(t, s, n)
<1>1. CASE n = 2
  <2>1. s = 1
    BY <1>1 DEF RandomCoprimesBelow
  <2>2. s * 1 = 1 + n * 0
    BY <1>1, <2>1
  <2> QED BY <2>1, <2>2 DEF Inverts
<1>2. CASE n # 2
  <2>1. s \in 1 .. n - 1 /\ Gcd(n, s) = 1
    BY <1>2 DEF RandomCoprimesBelow
  <2>2. Combines(1, n, s)
    <3>1. n \in Nat \ {0} /\ s \in Nat \ {0}
      BY <2>1
    <3>2. Combines(Gcd(n, s), n, s)
      BY <3>1, GcdCombines
    <3> QED BY <2>1, <3>2
  <2>3. PICK x \in Int, y \in Int : 1 = x * n + y * s
    BY <2>2 DEF Combines
  <2>4. s \in Int /\ - x \in Int
    BY <2>1
  <2>5. s * y = 1 + n * (- x)
    BY <2>3, <2>4, SMTT(30)
  <2> QED BY <2>3, <2>4, <2>5 DEF Inverts
<1> QED BY <1>1, <1>2

\* So the locations of different meetups differ.
LEMMA LocationsApart ==
    ASSUME NEW n \in Nat \ {0}, NEW s \in RandomCoprimesBelow(n), NEW b \in Int,
           NEW j \in 1 .. n, NEW k \in 1 .. n, j # k
    PROVE  AssignmentFn(j, Params(n, s, b), n) # AssignmentFn(k, Params(n, s, b), n)
<1>1. n >= 2 /\ j \in Int /\ k \in Int /\ - n < j - k /\ j - k < n
  OBVIOUS
<1>2. s \in Int
  BY <1>1, CoprimesInvert
<1>3. PICK t \in Int : Inverts(t, s, n)
  BY <1>1, CoprimesInvert
<1> DEFINE u == j * s + b
<1> DEFINE v == k * s + b
<1>4. u \in Int /\ v \in Int
  BY <1>1, <1>2, SMTT(30)
<1>5. u % n # v % n
  BY <1>1, <1>2, <1>3, MixingInjective
<1>6. /\ AssignmentFn(j, Params(n, s, b), n) = (u % n) % n
      /\ AssignmentFn(k, Params(n, s, b), n) = (v % n) % n
  BY DEF AssignmentFn, Params
<1> HIDE DEF u, v
<1>7. u % n \in 0 .. n - 1 /\ v % n \in 0 .. n - 1
  BY <1>4, IntDivision
<1>8. (u % n) % n = u % n /\ (v % n) % n = v % n
  BY <1>7, SmallMod
<1> QED BY <1>5, <1>6, <1>8

-----------------------------------------------------------------------------
(* Seats.                                                                   *)

\* What is registered, and what generate_meetup_assignment_params computed from
\* it: as long as it is assigned nothing else is registered.
AssignmentInv ==
    /\ registered \in [ParticipantTypes -> Nat]
    /\ registered["bootstrappers"] <= MaxRegistered["bootstrappers"]
    /\ num_locations \in Nat
    /\ MeetupCount \in Nat
    /\ MeetupCount # 0 =>
           /\ num_locations # 0
           /\ AssignmentCounts = Allowance
           /\ MeetupCount = CeilDivision(Total(Allowance), MeetupSizeTarget)
           /\ \A g \in Groups : Assignments[g] \in Draws(GroupSize(Allowance, g))
           /\ Assignments["locations"] \in LocationParams
           /\ \A g \in Groups \ skipped :
                  ValidateEqualMapping(GroupSize(Allowance, g), Assignments[g], MeetupCount)

\* compute_assignment_allowance neither underflows nor gives more seats than
\* there are, and leaves out reputables only when all seats are taken.
LEMMA AllowanceFits ==
    ASSUME AssignmentInv, num_locations # 0
    PROVE  LET c     == Allowance
               T     == registered["bootstrappers"] + registered["reputables"]
               seats == MaxNumMeetups(T) * MeetupSizeTarget
           IN  /\ \A t \in ParticipantTypes : c[t] \in Nat
               /\ Total(c) \in Nat /\ seats \in Nat /\ Total(c) <= seats
               /\ \/ c["bootstrappers"] + c["reputables"] = T
                  \/ c["bootstrappers"] + c["reputables"] = seats
               /\ T \in Nat
               /\ MaxNumMeetups(T) \in Nat \ {0}
               /\ MaxNumMeetups(T) <= num_locations
               /\ MaxNumMeetups(T) <= FindPrimeBelow(T)
               /\ 2 * MaxNumMeetups(T) <= seats
<1> DEFINE b == registered["bootstrappers"]
<1> DEFINE r == registered["reputables"]
<1> DEFINE e == registered["endorsees"]
<1> DEFINE w == registered["newbies"]
<1> DEFINE T == b + r
<1> DEFINE M == MaxNumMeetups(T)
<1> DEFINE seats == M * MeetupSizeTarget
<1>1. b \in Nat /\ r \in Nat /\ e \in Nat /\ w \in Nat /\ b <= MeetupSizeTarget
  BY AssignmentAssumption DEF AssignmentInv, ParticipantTypes
<1>2. M \in Nat \ {0} /\ M <= num_locations /\ M <= FindPrimeBelow(T)
  <2>1. T \in Nat
    BY <1>1
  <2> HIDE DEF T
  <2>2. FindPrimeBelow(T) \in Nat /\ FindPrimeBelow(T) >= 2
    BY <2>1, PrimeBelow DEF Prime
  <2>3. num_locations \in Nat \ {0}
    BY DEF AssignmentInv
  <2>4. M = IF num_locations < FindPrimeBelow(T) THEN num_locations ELSE FindPrimeBelow(T)
    BY DEF MaxNumMeetups, MinOf
  <2> HIDE DEF M
  <2> QED BY <2>2, <2>3, <2>4
<1>3. MeetupSizeTarget \in Nat /\ MeetupSizeTarget >= 2
  BY AssignmentAssumption
<1> HIDE DEF M
<1>4. seats \in Nat /\ MeetupSizeTarget <= seats /\ 2 * M <= seats
  <2>1. PICK x \in Nat, y \in Nat : M = 1 + x /\ MeetupSizeTarget = 2 + y
    <3>1. M - 1 \in Nat /\ M = 1 + (M - 1)
      BY <1>2
    <3>2. MeetupSizeTarget - 2 \in Nat /\ MeetupSizeTarget = 2 + (MeetupSizeTarget - 2)
      BY <1>3
    <3> QED BY <3>1, <3>2
  <2>2. seats = 2 + y + 2 * x + x * y
    BY <2>1, SMTT(30)
  <2>3. x * y \in Nat
    BY SMTT(30)
  <2> DEFINE xy == x * y
  <2>4. xy \in Nat /\ seats = 2 + y + 2 * x + xy
    BY <2>2, <2>3
  <2> HIDE DEF xy, seats
  <2> QED BY <2>1, <2>4
<1> DEFINE left0 == seats - b
<1> DEFINE rep == MinOf(r, left0)
<1> DEFINE end == MinOf(e, left0 - rep)
<1> DEFINE half == (b + rep + end) \div MeetupNewbieLimitDivider
<1> DEFINE new == MinOf(MinOf(w, left0 - rep - end), half)
<1>5. Allowance = [bootstrappers |-> b, reputables |-> rep, endorsees |-> end, newbies |-> new]
  BY DEF Allowance, M
<1> HIDE DEF b, r, e, w, seats
<1>6. left0 \in Nat /\ left0 = seats - b
  BY <1>1, <1>3, <1>4
<1> HIDE DEF left0
<1>7. rep \in Nat /\ rep <= left0 /\ (rep = r \/ rep = left0)
  BY <1>1, <1>6 DEF MinOf
<1> HIDE DEF rep
<1>8. end \in Nat /\ end <= left0 - rep
  BY <1>1, <1>6, <1>7 DEF MinOf
<1> HIDE DEF end
<1>9. half \in Nat
  <2>1. b + rep + end \in Nat
    BY <1>1, <1>7, <1>8
  <2>2. MeetupNewbieLimitDivider \in Nat \ {0}
    BY AssignmentAssumption
  <2> QED BY <2>1, <2>2, Division
<1> HIDE DEF half
<1>10. new \in Nat /\ new <= left0 - rep - end
  BY <1>1, <1>6, <1>7, <1>8, <1>9 DEF MinOf
<1> HIDE DEF new
<1> DEFINE c == Allowance
<1>11. /\ c["bootstrappers"] = b /\ c["reputables"] = rep
       /\ c["endorsees"] = end /\ c["newbies"] = new
  BY <1>5
<1> HIDE DEF c
<1>12. \A t \in ParticipantTypes : c[t] \in Nat
  BY <1>1, <1>7, <1>8, <1>10, <1>11 DEF ParticipantTypes
<1>13. Total(c) = b + rep + end + new
  BY <1>11 DEF Total
<1>14. Total(c) \in Nat /\ Total(c) <= seats
  BY <1>1, <1>4, <1>6, <1>7, <1>8, <1>10, <1>13
<1>15. T \in Nat /\ (b + rep = T \/ b + rep = seats)
  BY <1>1, <1>4, <1>6, <1>7
<1> QED BY <1>2, <1>4, <1>11, <1>12, <1>14, <1>15 DEF c, M, seats, b, r

\* There are no more meetups than this allows.
LEMMA CountFits ==
    ASSUME AssignmentInv, MeetupCount # 0
    PROVE  MeetupCount <= MaxNumMeetups(registered["bootstrappers"] + registered["reputables"])
<1> DEFINE T == registered["bootstrappers"] + registered["reputables"]
<1> DEFINE M == MaxNumMeetups(T)
<1> DEFINE c == MeetupSizeTarget
<1> DEFINE x == Total(Allowance)
<1>1. num_locations # 0 /\ MeetupCount = CeilDivision(x, c)
  BY DEF AssignmentInv
<1>2. M \in Nat \ {0} /\ x \in Nat /\ M * c \in Nat /\ x <= M * c
  BY <1>1, AllowanceFits
<1>3. c \in Nat \ {0}
  BY AssignmentAssumption
<1> DEFINE y == x + c - 1
<1> DEFINE q == M + 1
<1>4. MeetupCount = y \div c
  BY <1>1 DEF CeilDivision
<1> HIDE DEF M, c, x
<1>5. y \in Nat /\ q \in Nat /\ y < c * q
  <2>1. c * q = M * c + c
    BY <1>2, <1>3, SMTT(30)
  <2> DEFINE z == M * c
  <2>2. z \in Nat /\ x <= z /\ c * q = z + c
    BY <1>2, <2>1
  <2> HIDE DEF z
  <2> QED BY <1>2, <1>3, <2>2
<1> HIDE DEF y, q
<1>6. y \div c < q /\ y \div c \in Nat
  BY <1>3, <1>5, QuotientBelow, QuotientBounds
<1> QED BY <1>2, <1>4, <1>6 DEF q, M

\* Every group is seated by valid parameters, whose prime is more than half of
\* the group, so that get_meetup_participants returns those whom
\* get_meetup_index sends to the meetup.
LEMMA GroupSeated ==
    ASSUME Bertrand, AssignmentInv, MeetupCount # 0, NEW g \in Groups
    PROVE  LET n  == GroupSize(AssignmentCounts, g)
               pa == Assignments[g]
           IN  /\ n \in Nat
               /\ ValidParams(pa)
               /\ pa.m = FindPrimeBelow(n)
               /\ n < 2 * pa.m
               /\ n >= 2 => pa.m <= n
               /\ \A k \in Meetups : MeetupParticipants(g, k)
                      = {p \in 0 .. n - 1 : AssignmentFn(p, pa, MeetupCount) = k - 1}
<1> DEFINE n == GroupSize(AssignmentCounts, g)
<1> DEFINE pa == Assignments[g]
<1> DEFINE m == FindPrimeBelow(n)
<1>1. num_locations # 0 /\ AssignmentCounts = Allowance /\ pa \in Draws(n)
  BY DEF AssignmentInv
<1>2. n \in Nat
  <2>1. \A t \in ParticipantTypes : Allowance[t] \in Nat
    BY <1>1, AllowanceFits
  <2> DEFINE c == Allowance
  <2>2. c["bootstrappers"] \in Nat /\ c["reputables"] \in Nat /\ c["endorsees"] \in Nat
        /\ c["newbies"] \in Nat
    BY <2>1 DEF ParticipantTypes
  <2> HIDE DEF c
  <2>3. n = GroupSize(c, g)
    BY <1>1 DEF c
  <2> QED BY <2>2, <2>3 DEF GroupSize, Groups
<1> HIDE DEF n
<1>3. PICK s1 \in 1 .. m - 1, s2 \in 1 .. m - 1 : pa = Params(m, s1, s2)
  BY <1>1 DEF Draws
<1>4. pa.m = m /\ pa.s1 = s1 /\ pa.s2 = s2
  BY <1>3 DEF Params
<1>5. Prime(m) /\ (n >= 2 => m <= n) /\ n < 2 * m
  BY <1>2, PrimeBelow, PrimeAboveHalf
<1> HIDE DEF m, pa
<1>6. ValidParams(pa)
  BY <1>3, <1>4, <1>5 DEF ValidParams
<1>7. ASSUME NEW k \in Meetups
      PROVE  MeetupParticipants(g, k)
                 = {p \in 0 .. n - 1 : AssignmentFn(p, pa, MeetupCount) = k - 1}
  <2>1. PICK j : j = k - 1
    OBVIOUS
  <2>2. MeetupCount \in Nat \ {0} /\ j \in 0 .. MeetupCount - 1
    BY <2>1 DEF AssignmentInv, Meetups
  <2>3. AssignmentFnInverse(j, pa, MeetupCount, n)
          = {p \in 0 .. n - 1 : AssignmentFn(p, pa, MeetupCount) = j}
    BY <1>2, <1>4, <1>5, <1>6, <2>2, InverseIsPreimage
  <2> QED BY <2>1, <2>3 DEF MeetupParticipants, n, pa
<1> QED BY <1>2, <1>4, <1>5, <1>6, <1>7 DEF m, n, pa

\* The function and its inverse agree, and locations differ.
LEMMA SeatingFromInv ==
    ASSUME Bertrand, AssignmentInv
    PROVE  SeatingConsistent
<1>1. CASE MeetupCount = 0
  <2>1. Meetups = {}
    BY <1>1 DEF Meetups
  <2> QED BY <2>1 DEF SeatingConsistent
<1>2. CASE MeetupCount # 0
  <2>1. ASSUME NEW g \in Groups, NEW k \in Meetups
        PROVE  MeetupParticipants(g, k) =
                   {p \in 0 .. GroupSize(AssignmentCounts, g) - 1 : MeetupIndex(g, p) = k}
    <3> DEFINE n == GroupSize(AssignmentCounts, g)
    <3>1. MeetupParticipants(g, k)
            = {p \in 0 .. n - 1 : AssignmentFn(p, Assignments[g], MeetupCount) = k - 1}
      BY <1>2, GroupSeated
    <3>2. n \in Nat /\ ValidParams(Assignments[g])
      BY <1>2, GroupSeated
    <3> HIDE DEF n
    <3>3. ASSUME NEW p \in 0 .. n - 1
          PROVE  AssignmentFn(p, Assignments[g], MeetupCount) \in Int
      <4> DEFINE pa == Assignments[g]
      <4>1. p \in Nat
        BY <3>2
      <4>2. Mixed(p, pa) \in 0 .. pa.m - 1 /\ pa.m \in Nat
        BY <3>2, <4>1, UnmixingInverts
      <4>3. AssignmentFn(p, pa, MeetupCount) = Mixed(p, pa) % MeetupCount
        BY DEF AssignmentFn, Mixed
      <4> HIDE DEF pa
      <4>4. Mixed(p, pa) \in Int /\ MeetupCount \in Nat \ {0}
        BY <1>2, <4>2 DEF AssignmentInv
      <4>5. Mixed(p, pa) % MeetupCount \in 0 .. MeetupCount - 1
        BY <4>4, IntDivision
      <4> QED BY <4>3, <4>4, <4>5 DEF pa
    <3>4. k \in Int
      BY DEF Meetups
    <3>5. \A p \in 0 .. n - 1 :
              MeetupIndex(g, p) = k <=> AssignmentFn(p, Assignments[g], MeetupCount) = k - 1
      <4> TAKE p \in 0 .. n - 1
      <4>1. PICK x : x = AssignmentFn(p, Assignments[g], MeetupCount)
        OBVIOUS
      <4>2. x \in Int /\ MeetupIndex(g, p) = x + 1
        BY <3>3, <4>1 DEF MeetupIndex
      <4> QED BY <3>4, <4>1, <4>2
    <3>6. MeetupParticipants(g, k) = {p \in 0 .. n - 1 : MeetupIndex(g, p) = k}
      BY <3>1, <3>5
    <3> QED BY <3>6 DEF n
  <2>2. ASSUME NEW j \in Meetups, NEW k \in Meetups, j # k
        PROVE  MeetupLocationIndex(j) # MeetupLocationIndex(k)
    <3>1. num_locations \in Nat \ {0} /\ Assignments["locations"] \in LocationParams
      BY <1>2 DEF AssignmentInv
    <3>2. PICK s \in RandomCoprimesBelow(num_locations) :
              Assignments["locations"] = Params(num_locations, s, FindPrimeBelow(num_locations))
      BY <3>1 DEF LocationParams
    <3>3. PICK b : b = FindPrimeBelow(num_locations)
      OBVIOUS
    <3>4. b \in Int
      BY <3>1, <3>3, PrimeBelow DEF Prime
    <3>5. j \in 1 .. num_locations /\ k \in 1 .. num_locations
      <4> DEFINE M == MaxNumMeetups(registered["bootstrappers"] + registered["reputables"])
      <4>1. M \in Nat /\ M <= num_locations
        BY <3>1, AllowanceFits
      <4>2. MeetupCount <= M
        BY <1>2, CountFits
      <4> HIDE DEF M
      <4> QED BY <3>1, <4>1, <4>2 DEF Meetups, AssignmentInv
    <3>6. AssignmentFn(j, Params(num_locations, s, b), num_locations)
            # AssignmentFn(k, Params(num_locations, s, b), num_locations)
      BY <2>2, <3>1, <3>4, <3>5, LocationsApart
    <3> QED BY <3>2, <3>3, <3>6 DEF MeetupLocationIndex
  <2> QED BY <2>1, <2>2 DEF SeatingConsistent
<1> QED BY <1>1, <1>2

\* The prime of the bootstrappers and reputables that are seated is not smaller
\* than the number of meetups: either all of them are seated, or two for every
\* meetup at least.
LEMMA PrimeCoversMeetups ==
    ASSUME Bertrand, AssignmentInv, MeetupCount # 0,
           registered["bootstrappers"] + registered["reputables"] >= 2
    PROVE  LET n == GroupSize(AssignmentCounts, "bootstrappers_reputables")
           IN  n \in Nat /\ n >= 2 /\ MeetupCount <= FindPrimeBelow(n)
<1> DEFINE n == GroupSize(AssignmentCounts, "bootstrappers_reputables")
<1> DEFINE T == registered["bootstrappers"] + registered["reputables"]
<1> DEFINE M == MaxNumMeetups(T)
<1> DEFINE seats == M * MeetupSizeTarget
<1>1. num_locations # 0 /\ AssignmentCounts = Allowance
  BY DEF AssignmentInv
<1>2. n = Allowance["bootstrappers"] + Allowance["reputables"]
  BY <1>1 DEF GroupSize
<1>3. /\ T \in Nat /\ M \in Nat \ {0} /\ seats \in Nat
      /\ M <= FindPrimeBelow(T) /\ 2 * M <= seats
      /\ n = T \/ n = seats
  BY <1>1, <1>2, AllowanceFits
<1>4. MeetupCount <= M /\ MeetupCount \in Nat /\ T >= 2
  BY CountFits DEF AssignmentInv
<1> HIDE DEF n, T, M, seats
<1>5. n \in Nat /\ n >= 2
  BY <1>3, <1>4
<1>6. FindPrimeBelow(n) \in Nat /\ n < 2 * FindPrimeBelow(n)
  BY <1>5, PrimeBelow, PrimeAboveHalf DEF Prime
<1>7. MeetupCount <= FindPrimeBelow(n)
  <2>1. CASE n = T
    BY <1>3, <1>4, <1>6, <2>1
  <2>2. CASE n = seats
    BY <1>3, <1>4, <1>6, <2>2
  <2> QED BY <1>3, <2>1, <2>2
<1> QED BY <1>5, <1>7 DEF n

\* So each meetup has one of them: the one whom the inverse finds first.
LEMMA EveryMeetupTrusted ==
    ASSUME Bertrand, AssignmentInv,
           registered["bootstrappers"] + registered["reputables"] >= 2,
           NEW k \in Meetups
    PROVE  MeetupParticipants("bootstrappers_reputables", k) # {}
<1>1. MeetupCount \in Nat /\ MeetupCount # 0 /\ k \in 1 .. MeetupCount
  BY DEF AssignmentInv, Meetups
<1> DEFINE g == "bootstrappers_reputables"
<1> DEFINE n == GroupSize(AssignmentCounts, g)
<1> DEFINE pa == Assignments[g]
<1> DEFINE m == pa.m
<1>2. g \in Groups
  BY DEF Groups
<1>3. n \in Nat /\ n >= 2 /\ MeetupCount <= FindPrimeBelow(n)
  BY <1>1, PrimeCoversMeetups
<1>4. /\ ValidParams(pa) /\ m = FindPrimeBelow(n) /\ (n >= 2 => m <= n)
      /\ MeetupParticipants(g, k)
           = {p \in 0 .. n - 1 : AssignmentFn(p, pa, MeetupCount) = k - 1}
  BY <1>1, <1>2, GroupSeated
<1>5. m \in Nat /\ \A r \in 0 .. m - 1 : /\ Unmixed(r, pa) \in 0 .. m - 1
                                         /\ Mixed(Unmixed(r, pa), pa) = r
  BY <1>4, UnmixingInverts
<1>6. \A p : AssignmentFn(p, pa, MeetupCount) = Mixed(p, pa) % MeetupCount
  BY DEF AssignmentFn, Mixed
<1> HIDE DEF g, n, pa, m
<1>7. PICK r : r = k - 1
  OBVIOUS
<1>8. r \in 0 .. MeetupCount - 1 /\ r \in 0 .. m - 1 /\ MeetupCount \in Nat \ {0}
  BY <1>1, <1>3, <1>4, <1>5, <1>7
<1>9. r % MeetupCount = r
  BY <1>8, SmallMod
<1>10. PICK p : p = Unmixed(r, pa)
  OBVIOUS
<1>11. p \in 0 .. m - 1 /\ Mixed(p, pa) = r
  BY <1>5, <1>8, <1>10
<1>12. p \in 0 .. n - 1
  BY <1>3, <1>4, <1>5, <1>11
<1>13. p \in MeetupParticipants(g, k)
  BY <1>4, <1>6, <1>7, <1>9, <1>11, <1>12
<1> QED BY <1>13 DEF g

\* The participants below the prime who are seated in meetup k, as many as
\* there are iterations.
Below(k, pa, count) == {p \in 0 .. pa.m - 1 : Mixed(p, pa) % count = k}

LEMMA BelowCounted ==
    ASSUME NEW pa, ValidParams(pa), NEW count \in Nat \ {0}, NEW k \in 0 .. count - 1
    PROVE  /\ IsFiniteSet(Below(k, pa, count))
           /\ Cardinality(Below(k, pa, count)) = Iterations(k, pa.m, count)
<1> DEFINE m == pa.m
<1> DEFINE N == Iterations(k, m, count)
<1> DEFINE V == Values(k, m, count)
<1> DEFINE B == Below(k, pa, count)
<1>1. /\ m \in Nat \ {0}
      /\ \A p \in Nat : Mixed(p, pa) \in 0 .. m - 1
      /\ \A r \in 0 .. m - 1 : Unmixed(r, pa) \in 0 .. m - 1 /\ Mixed(Unmixed(r, pa), pa) = r
      /\ \A p \in 0 .. m - 1 : Unmixed(Mixed(p, pa), pa) = p
  BY UnmixingInverts
<1>2. \A p : p \in B <=> p \in 0 .. m - 1 /\ Mixed(p, pa) % count = k
  BY DEF Below
<1> HIDE DEF m, B
<1>3. /\ N \in Nat
      /\ \A i \in 0 .. N - 1 : count * i + k \in V
      /\ \A r \in V : r \div count \in 0 .. N - 1 /\ r = count * (r \div count) + k
  <2>1. m \in Nat \ {0} /\ count \in Nat \ {0} /\ k \in 0 .. count - 1
    BY <1>1
  <2> QED BY <2>1, IterationsFindValues, Zenon
<1>4. \A r : r \in V <=> r \in 0 .. m - 1 /\ r % count = k
  BY DEF Values
<1> HIDE DEF V, N
<1>5. IsFiniteSet(0 .. N - 1) /\ Cardinality(0 .. N - 1) = N
  <2>1. N - 1 \in Int /\ 0 \in Int /\ (IF 0 > N - 1 THEN 0 ELSE N - 1 - 0 + 1) = N
    BY <1>3
  <2> QED BY <2>1, FS_Interval
<1> DEFINE f == [i \in 0 .. N - 1 |-> Unmixed(count * i + k, pa)]
<1>6. \A i \in 0 .. N - 1 : f[i] \in B
  <2> TAKE i \in 0 .. N - 1
  <2>1. PICK r : r = count * i + k
    OBVIOUS
  <2>2. r \in 0 .. m - 1 /\ r % count = k /\ f[i] = Unmixed(r, pa)
    BY <1>3, <1>4, <2>1
  <2> QED BY <1>1, <1>2, <2>2
<1>7. ASSUME NEW i \in 0 .. N - 1, NEW j \in 0 .. N - 1, f[i] = f[j]
      PROVE  i = j
  <2>1. PICK r, v : r = count * i + k /\ v = count * j + k
    OBVIOUS
  <2>2. r \in 0 .. m - 1 /\ v \in 0 .. m - 1 /\ f[i] = Unmixed(r, pa) /\ f[j] = Unmixed(v, pa)
    BY <1>3, <1>4, <2>1
  <2>3. r = v
    BY <1>1, <1>7, <2>2
  <2>4. i \in Nat /\ j \in Nat /\ r \in Nat /\ v \in Nat
    BY <1>1, <1>3, <2>2
  <2>5. r \div count = i /\ v \div count = j
    BY <2>1, <2>4, DivisionUnique
  <2> QED BY <2>3, <2>5
<1>8. ASSUME NEW p \in B
      PROVE  \E i \in 0 .. N - 1 : f[i] = p
  <2>1. PICK r : r = Mixed(p, pa)
    OBVIOUS
  <2>2. p \in 0 .. m - 1 /\ p \in Nat /\ r % count = k
    BY <1>1, <1>2, <2>1
  <2>3. r \in V /\ Unmixed(r, pa) = p
    BY <1>1, <1>4, <2>1, <2>2
  <2>4. PICK i \in 0 .. N - 1 : r = count * i + k
    BY <1>3, <2>3
  <2> QED BY <2>3, <2>4
<1>9. f \in Bijection(0 .. N - 1, B)
  <2>1. f \in [0 .. N - 1 -> B]
    BY <1>6
  <2> HIDE DEF f
  <2> QED BY <1>7, <1>8, <2>1 DEF Bijection, Injection, Surjection, IsInjective
<1>10. ExistsBijection(0 .. N - 1, B)
  BY <1>9 DEF ExistsBijection
<1>11. IsFiniteSet(B) /\ Cardinality(B) = N
  BY <1>5, <1>10, FS_Bijection
<1> QED BY <1>11 DEF B, N, m

\* No meetup gets two iterations more than another.
LEMMA IterationsEven ==
    ASSUME NEW m \in Nat \ {0}, NEW count \in Nat \ {0},
           NEW j \in 0 .. count - 1, NEW k \in 0 .. count - 1
    PROVE  Iterations(j, m, count) <= Iterations(k, m, count) + 1
<1> DEFINE restj == IF m > j THEN m - j ELSE 0
<1> DEFINE restk == IF m > k THEN m - k ELSE 0
<1> DEFINE J == Iterations(j, m, count)
<1> DEFINE K == Iterations(k, m, count)
<1>1. restj \in Nat /\ restk \in Nat /\ restj < restk + count
  OBVIOUS
<1>2. J = CeilDivision(restj, count) /\ K = CeilDivision(restk, count)
  BY DEF Iterations
<1> HIDE DEF restj, restk, J, K
<1>4. J \in Nat /\ \A i \in Nat : i < J <=> count * i < restj
  BY <1>1, <1>2, CeilCounts
<1>5. K \in Nat /\ \A i \in Nat : i < K <=> count * i < restk
  BY <1>1, <1>2, CeilCounts
<1> SUFFICES ASSUME J > K + 1 PROVE FALSE
  BY <1>4, <1>5 DEF J, K
<1> DEFINE i == K + 1
<1>6. i \in Nat /\ i < J
  BY <1>4, <1>5
<1>7. count * i = count * K + count /\ count * K \in Nat
  BY <1>5, SMTT(30)
<1> HIDE DEF i
<1>8. count * i < restj
  BY <1>4, <1>6
<1> DEFINE a == count * K
<1>9. a \in Nat /\ a + count < restj
  BY <1>7, <1>8
<1> HIDE DEF a
<1>10. a < restk
  BY <1>1, <1>9
<1>11. K < K
  BY <1>5, <1>10 DEF a
<1> QED BY <1>5, <1>11

\* Of a group without members the meetups get none, of a single one at most
\* this one, and of a larger one the iterations of the inverse and a part of
\* those beyond the prime.
LEMMA ParticipantsCounted ==
    ASSUME Bertrand, AssignmentInv, NEW g \in Groups, NEW k \in Meetups
    PROVE  LET n == GroupSize(AssignmentCounts, g)
               m == Assignments[g].m
               s == MeetupParticipants(g, k)
               b == {p \in m .. n - 1 : AssignmentFn(p, Assignments[g], MeetupCount) = k - 1}
           IN  /\ Cardinality(s) \in Nat /\ Cardinality(b) \in Nat
               /\ n < 2 => Cardinality(s) <= 1
               /\ n >= 2 => Cardinality(s) = Iterations(k - 1, m, MeetupCount) + Cardinality(b)
               /\ n <= m => Cardinality(b) = 0
<1> DEFINE n == GroupSize(AssignmentCounts, g)
<1> DEFINE pa == Assignments[g]
<1> DEFINE m == pa.m
<1> DEFINE count == MeetupCount
<1> DEFINE s == MeetupParticipants(g, k)
<1> DEFINE b == {p \in m .. n - 1 : AssignmentFn(p, pa, count) = k - 1}
<1>1. count \in Nat \ {0} /\ MeetupCount # 0 /\ k \in 1 .. count
  BY DEF AssignmentInv, Meetups
<1>2. /\ n \in Nat /\ ValidParams(pa) /\ (n >= 2 => m <= n)
      /\ s = {p \in 0 .. n - 1 : AssignmentFn(p, pa, count) = k - 1}
  BY <1>1, GroupSeated
<1>3. m \in Nat \ {0}
  BY <1>2, UnmixingInverts
<1>4. \A p : AssignmentFn(p, pa, count) = Mixed(p, pa) % count
  BY DEF AssignmentFn, Mixed
<1>5. PICK j : j = k - 1
  OBVIOUS
<1>6. j \in 0 .. count - 1
  BY <1>1, <1>5
<1> HIDE DEF n, pa, count, s
<1>7. n < 2 => Cardinality(0 .. n - 1) <= 1
  <2>1. 0 \in Int /\ n - 1 \in Int
    BY <1>2
  <2>2. IsFiniteSet(0 .. n - 1) /\ Cardinality(0 .. n - 1) = IF 0 > n - 1 THEN 0 ELSE n - 1 - 0 + 1
    BY <2>1, FS_Interval
  <2> QED BY <1>2, <2>2
<1>8. IsFiniteSet(0 .. n - 1) /\ IsFiniteSet(m .. n - 1)
  <2>1. 0 \in Int /\ n - 1 \in Int /\ m \in Int
    BY <1>2, <1>3
  <2> HIDE DEF m
  <2> QED BY <2>1, FS_Interval
<1>9. IsFiniteSet(s) /\ Cardinality(s) \in Nat /\ Cardinality(s) <= Cardinality(0 .. n - 1)
  <2>1. s \in SUBSET (0 .. n - 1)
    BY <1>2
  <2> QED BY <1>8, <2>1, FS_Subset, FS_CardinalityType
<1>10. IsFiniteSet(b) /\ Cardinality(b) \in Nat
  <2>1. b \in SUBSET (m .. n - 1)
    OBVIOUS
  <2> HIDE DEF b
  <2> QED BY <1>8, <2>1, FS_Subset, FS_CardinalityType
<1>11. ASSUME n < 2
       PROVE  Cardinality(s) <= 1
  <2>1. Cardinality(0 .. n - 1) \in Nat
    BY <1>8, FS_CardinalityType
  <2> QED BY <1>7, <1>8, <1>9, <1>11, <2>1
<1>12. ASSUME n >= 2
       PROVE  Cardinality(s) = Iterations(j, m, count) + Cardinality(b)
  <2> DEFINE a == Below(j, pa, count)
  <2>1. IsFiniteSet(a) /\ Cardinality(a) = Iterations(j, m, count)
    BY <1>1, <1>2, <1>6, BelowCounted
  <2>2. s = a \cup b /\ a \cap b = {}
    BY <1>2, <1>3, <1>4, <1>5, <1>12 DEF Below
  <2>3. Cardinality(a) \in Nat
    BY <2>1, FS_CardinalityType
  <2> HIDE DEF a, b
  <2>4. Cardinality(a \cup b) = Cardinality(a) + Cardinality(b) - Cardinality(a \cap b)
    BY <1>10, <2>1, FS_Union
  <2>5. Cardinality(a \cap b) = 0
    BY <2>2, FS_EmptySet
  <2> QED BY <1>10, <2>1, <2>2, <2>3, <2>4, <2>5
<1>13. ASSUME n <= m
       PROVE  Cardinality(b) = 0
  <2>1. b = {}
    BY <1>2, <1>3, <1>13
  <2> QED BY <2>1, FS_EmptySet
<1> QED BY <1>5, <1>9, <1>10, <1>11, <1>12, <1>13 DEF n, pa, count, s

\* The meetups share a group evenly, as far as its validation says so.
LEMMA GroupShared ==
    ASSUME Bertrand, AssignmentInv, NEW g \in Groups \ skipped, NEW j \in Meetups,
           NEW k \in Meetups
    PROVE  Cardinality(MeetupParticipants(g, j)) <=
               Cardinality(MeetupParticipants(g, k)) + 1 + ShareBeyondPrime(g)
<1> DEFINE n == GroupSize(AssignmentCounts, g)
<1> DEFINE pa == Assignments[g]
<1> DEFINE m == pa.m
<1> DEFINE count == MeetupCount
<1> DEFINE beyond(i) == {p \in m .. n - 1 : AssignmentFn(p, pa, count) = i - 1}
<1> DEFINE cs(i) == Cardinality(MeetupParticipants(g, i))
<1> DEFINE cb(i) == Cardinality(beyond(i))
<1> DEFINE it(i) == Iterations(i - 1, m, count)
<1> DEFINE share == ShareBeyondPrime(g)
<1>1. count \in Nat \ {0} /\ MeetupCount # 0 /\ j \in 1 .. count /\ k \in 1 .. count
  BY DEF AssignmentInv, Meetups
<1>2. n \in Nat /\ ValidParams(pa) /\ g \in Groups
  BY <1>1, GroupSeated
<1>3. m \in Nat \ {0}
  BY <1>2, UnmixingInverts
<1>4. \A i \in Meetups : /\ cs(i) \in Nat /\ cb(i) \in Nat
                         /\ n < 2 => cs(i) <= 1
                         /\ n >= 2 => cs(i) = it(i) + cb(i)
                         /\ n <= m => cb(i) = 0
  BY <1>2, ParticipantsCounted
<1>5. ValidateEqualMapping(n, pa, count)
  BY <1>1 DEF AssignmentInv
<1>6. share = IF n - m > 0 THEN CeilDivision(n - m, count) ELSE 0
  BY DEF ShareBeyondPrime
<1>7. n >= 2 => cb(j) <= CeilDivision(n - m, count)
  <2> SUFFICES ASSUME n >= 2 PROVE cb(j) <= CeilDivision(n - m, count)
    OBVIOUS
  <2>1. j - 1 \in 0 .. count - 1
    BY <1>1
  <2>2. ~ (n < 2)
    BY <1>2
  <2> QED BY <1>5, <2>1, <2>2 DEF ValidateEqualMapping
<1>8. it(j) \in Nat /\ it(k) \in Nat /\ it(j) <= it(k) + 1
  <2>1. PICK x, y : x = j - 1 /\ y = k - 1
    OBVIOUS
  <2>2. x \in 0 .. count - 1 /\ y \in 0 .. count - 1
    BY <1>1, <2>1
  <2> HIDE DEF m, count
  <2>3. Iterations(x, m, count) \in Nat /\ Iterations(y, m, count) \in Nat
    BY <1>1, <1>3, <2>2, IterationsFindValues
  <2>4. Iterations(x, m, count) <= Iterations(y, m, count) + 1
    BY <1>1, <1>3, <2>2, IterationsEven
  <2> QED BY <2>1, <2>3, <2>4
<1>9. share \in Nat
  <2>1. CASE n - m > 0
    <3>1. n - m \in Nat
      BY <1>2, <1>3, <2>1
    <3> DEFINE x == n - m
    <3>2. x \in Nat
      BY <3>1
    <3> HIDE DEF x, count
    <3>3. CeilDivision(x, count) \in Nat
      BY <1>1, <3>2, CeilCounts
    <3> QED BY <1>6, <2>1, <3>3 DEF x
  <2>2. CASE ~ (n - m > 0)
    BY <1>6, <2>2
  <2> QED BY <2>1, <2>2
<1> HIDE DEF n, m, cs, cb, it, share
<1>10. cs(j) <= cs(k) + 1 + share
  <2>1. CASE n < 2
    BY <1>4, <1>9, <2>1
  <2>2. CASE n >= 2
    <3>1. cb(j) <= share
      BY <1>2, <1>3, <1>4, <1>6, <1>7, <1>9, <2>2
    <3>2. cs(j) = it(j) + cb(j) /\ cs(k) = it(k) + cb(k) /\ cb(j) \in Nat /\ cb(k) \in Nat
      BY <1>4, <2>2
    <3> QED BY <1>8, <1>9, <3>1, <3>2
  <2> QED BY <1>2, <2>1, <2>2
<1> QED BY <1>10 DEF cs, share

\* Registrations and locations end when seats are counted.
LEMMA AssignmentInvInductive == AssignmentSpec => []AssignmentInv
<1>1. AssignmentInit => AssignmentInv
  BY AssignmentAssumption DEF AssignmentInit, AssignmentInv, ParticipantTypes
<1>2. ASSUME AssignmentInv, [AssignmentNext]_assignmentVars
      PROVE  AssignmentInv'
  <2>1. ASSUME NEW type \in ParticipantTypes, register(type)
        PROVE  AssignmentInv'
    <3>1. /\ registered' = [registered EXCEPT ![type] = @ + 1] /\ MeetupCount' = 0
          /\ registered[type] < MaxRegistered[type] /\ num_locations' = num_locations
      BY <2>1 DEF register
    <3>2. registered' \in [ParticipantTypes -> Nat]
      BY <1>2, <3>1 DEF AssignmentInv
    <3>3. registered'["bootstrappers"] <= MaxRegistered["bootstrappers"]
      <4>1. "bootstrappers" \in ParticipantTypes
        BY DEF ParticipantTypes
      <4>2. /\ registered[type] \in Nat /\ registered["bootstrappers"] \in Nat
            /\ MaxRegistered["bootstrappers"] \in Nat
            /\ registered["bootstrappers"] <= MaxRegistered["bootstrappers"]
            /\ registered \in [ParticipantTypes -> Nat]
        BY <1>2, <4>1, AssignmentAssumption DEF AssignmentInv
      <4>3. CASE type = "bootstrappers"
        BY <3>1, <4>1, <4>2, <4>3
      <4>4. CASE type # "bootstrappers"
        BY <3>1, <4>1, <4>2, <4>4
      <4> QED BY <4>3, <4>4
    <3> QED BY <1>2, <3>1, <3>2, <3>3 DEF AssignmentInv
  <2>2. CASE add_location
    BY <1>2, <2>2 DEF add_location, AssignmentInv
  <2>3. CASE generate_meetup_assignment_params
    <3>1. /\ registered' = registered /\ num_locations' = num_locations /\ num_locations > 0
          /\ AssignmentCounts' = Allowance
          /\ MeetupCount' = CeilDivision(Total(Allowance), MeetupSizeTarget)
      BY <2>3 DEF generate_meetup_assignment_params
    <3>2. Allowance' = Allowance /\ LocationParams' = LocationParams
      BY <3>1 DEF Allowance, MaxNumMeetups, LocationParams
    <3>3. MeetupCount' \in Nat
      <4>1. Total(Allowance) \in Nat
        BY <1>2, <3>1, AllowanceFits DEF AssignmentInv
      <4>2. MeetupSizeTarget \in Nat \ {0}
        BY AssignmentAssumption
      <4> QED BY <3>1, <4>1, <4>2, CeilCounts
    <3>4. PICK br \in Draws(GroupSize(Allowance, "bootstrappers_reputables")),
               en \in Draws(GroupSize(Allowance, "endorsees")),
               ne \in Draws(GroupSize(Allowance, "newbies")),
               lo \in LocationParams :
            /\ Assignments' = [bootstrappers_reputables |-> br, endorsees |-> en,
                               newbies |-> ne, locations |-> lo]
            /\ skipped' = {g \in Groups : ~ValidateEqualMapping(GroupSize(Allowance, g),
                                                               Assignments'[g], MeetupCount')}
      BY <2>3 DEF generate_meetup_assignment_params
    <3>5. /\ \A g \in Groups : Assignments'[g] \in Draws(GroupSize(Allowance, g))
          /\ Assignments'["locations"] \in LocationParams
      BY <3>4 DEF Groups
    <3>6. \A g \in Groups \ skipped' :
              ValidateEqualMapping(GroupSize(Allowance, g), Assignments'[g], MeetupCount')
      BY <3>4
    <3>7. /\ registered \in [ParticipantTypes -> Nat] /\ num_locations \in Nat
          /\ registered["bootstrappers"] <= MaxRegistered["bootstrappers"]
      BY <1>2 DEF AssignmentInv
    <3>8. (\A g \in Groups \ skipped : ValidateEqualMapping(GroupSize(Allowance, g),
                                                           Assignments[g], MeetupCount))'
      BY <3>2, <3>6 DEF ValidateEqualMapping, GroupSize
    <3>9. (\A g \in Groups : Assignments[g] \in Draws(GroupSize(Allowance, g)))'
      BY <3>2, <3>5 DEF Draws, GroupSize
    <3> QED BY <3>1, <3>2, <3>3, <3>5, <3>7, <3>8, <3>9 DEF AssignmentInv, Total
  <2>4. CASE UNCHANGED assignmentVars
    <3>1. /\ registered' = registered /\ num_locations' = num_locations
          /\ AssignmentCounts' = AssignmentCounts /\ MeetupCount' = MeetupCount
          /\ Assignments' = Assignments /\ skipped' = skipped
      BY <2>4 DEF assignmentVars
    <3>2. Allowance' = Allowance /\ LocationParams' = LocationParams
      BY <3>1 DEF Allowance, MaxNumMeetups, LocationParams
    <3> QED BY <1>2, <3>1, <3>2 DEF AssignmentInv, Total, Draws, GroupSize, ValidateEqualMapping
  <2> QED BY <1>2, <2>1, <2>2, <2>3, <2>4 DEF AssignmentNext
<1> QED BY <1>1, <1>2, PTL DEF AssignmentSpec

\* Seats are given consistently, for any numbers of participants and locations
\* and all parameters that can be drawn: assignment_fn_inverse returns those
\* whom assignment_fn sends to the meetup, and no location is used twice.
\* Bertrand's postulate says that nobody is a second prime above the prime,
\* where the inverse does not look.
THEOREM SeatingStaysConsistent ==
    ASSUME Bertrand
    PROVE  AssignmentSpec => []SeatingConsistent
<1>1. AssignmentInv => SeatingConsistent
  BY SeatingFromInv
<1> QED BY <1>1, AssignmentInvInductive, PTL

\* Every meetup has a bootstrapper or a reputable once there are two, and the
\* meetups share each group evenly but for one and what validate_equal_mapping
\* allows.
THEOREM MeetupsStayTrusted ==
    ASSUME Bertrand
    PROVE  AssignmentSpec => []MeetupsTrusted
<1>1. AssignmentInv => MeetupsTrusted
  BY EveryMeetupTrusted, GroupShared DEF MeetupsTrusted
<1> QED BY <1>1, AssignmentInvInductive, PTL

====
