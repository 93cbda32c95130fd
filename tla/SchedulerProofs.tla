---- MODULE SchedulerProofs ----
(***************************************************************************)
(* What the scheduler guarantees for every value of its constants.         *)
(***************************************************************************)
EXTENDS Scheduler, TLAPS

(* Facts about the clock arithmetic.                                        *)

\* Division by a positive cycle leaves a remainder below the cycle.
LEMMA DivisionBounds ==
    ASSUME NEW a \in Nat, NEW c \in Nat \ {0}
    PROVE  /\ a \div c \in Nat
           /\ c * (a \div c) <= a
           /\ a < c * (a \div c) + c
  BY SMTT(30)

\* A product with a successor.
LEMMA TimesSuccessor ==
    ASSUME NEW c \in Nat, NEW n \in Nat
    PROVE  c * (n + 1) = c * n + c
  BY SMTT(30)

\* Whatever timestamp the pallet starts from, the resynchronised one lies in
\* the window of one cycle that begins now (resync_and_set_next_phase_timestamp).
LEMMA ResyncWindow ==
    ASSUME NEW t \in Nat, NEW now \in Nat, NEW c \in Nat \ {0},
           now + c <= MaxMoment
    PROVE  /\ ResyncTarget(t, now, c) \in Nat
           /\ now <= ResyncTarget(t, now, c)
           /\ ResyncTarget(t, now, c) <= now + c
  <1>m. MaxMoment \in Nat
    BY MomentsAssumption
  <1>1. CASE t < now
    <2> DEFINE g == now - t
               n == g \div c
    <2>1. g \in Nat
      BY <1>1
    <2>2. n \in Nat /\ c * n <= g /\ g < c * n + c
      BY <2>1, DivisionBounds
    <2>3. c * (n + 1) = c * n + c
      BY <2>2, TimesSuccessor
    <2>4. c * n \in Nat
      BY <2>2
    <2> HIDE DEF n
    <2>5. t + c * (n + 1) > now /\ t + c * (n + 1) <= now + c
      BY <2>1, <2>2, <2>3, <2>4
    <2>6. ResyncTarget(t, now, c) = t + c * (n + 1)
      BY <1>1, <1>m, <2>5, <2>3, <2>4 DEF ResyncTarget, SaturatingAdd, n
    <2> QED
      BY <2>3, <2>4, <2>5, <2>6
  <1>2. CASE ~ (t < now)
    <2> DEFINE g == t - now
               n == g \div c
    <2>1. g \in Nat
      BY <1>2
    <2>2. n \in Nat /\ c * n <= g /\ g < c * n + c
      BY <2>1, DivisionBounds
    <2>3. c * n \in Nat
      BY <2>2
    <2>4. ResyncTarget(t, now, c) = t - c * n
      BY <1>2 DEF ResyncTarget
    <2> HIDE DEF n
    <2> QED
      BY <1>2, <2>1, <2>2, <2>3, <2>4
  <1> QED
    BY <1>1, <1>2

\* A cycle that is not empty fits between any block timestamp and the end of
\* the range of moments.
LEMMA CycleFits ==
    ASSUME TypeOK
    PROVE  /\ CycleDuration \in Nat
           /\ \A now \in 0 .. MaxNow : now + CycleDuration <= MaxMoment
  <1>1. /\ PhaseDurations["Registering"] \in Durations
        /\ PhaseDurations["Assigning"] \in Durations
        /\ PhaseDurations["Attesting"] \in Durations
    BY DEF TypeOK, Phases, PC!Phases
  <1>2. \A d \in Durations : d \in Nat
    BY RangeAssumption
  <1> DEFINE a == PhaseDurations["Registering"]
             b == PhaseDurations["Assigning"]
             d == PhaseDurations["Attesting"]
  <1>3. MaxNow + a + b + d <= MaxMoment
    BY <1>1, RangeAssumption
  <1> QED
    BY <1>1, <1>2, <1>3, MomentsAssumption DEF CycleDuration

\* saturating_add stays in the range of moments.
LEMMA SaturatingAddRange ==
    ASSUME NEW a \in Nat, NEW b \in Nat
    PROVE  SaturatingAdd(a, b) \in 0 .. MaxMoment
  BY MomentsAssumption DEF SaturatingAdd

-----------------------------------------------------------------------------
(* Type correctness.                                                        *)

\* The phase order stays within the three phases.
LEMMA FollowingPhaseType ==
    \A p \in Phases : PC!FollowingPhase(p) \in Phases /\ PC!FollowingPhase(p) # p
  BY DEF Phases, PC!Phases, PC!FollowingPhase

\* progress_phase() at a block time keeps the storage well typed and puts the
\* next timestamp into the window of one cycle that begins now.
LEMMA ProgressPhaseStep ==
    ASSUME TypeOK, NEW now \in 0 .. MaxNow, ProgressPhase(now)
    PROVE  /\ CurrentCeremonyIndex' \in Nat
           /\ CurrentPhase' \in Phases
           /\ NextPhaseTimestamp' \in 0 .. MaxMoment
           /\ now <= NextPhaseTimestamp'
           /\ NextPhaseTimestamp' <= now + CycleDuration
  <1> DEFINE following == PC!FollowingPhase(CurrentPhase)
             next      == SaturatingAdd(NextPhaseTimestamp, PhaseDurations[following])
  <1>1. following \in Phases
    BY FollowingPhaseType DEF TypeOK
  <1>2. PhaseDurations[following] \in Nat
    BY <1>1, RangeAssumption DEF TypeOK
  <1>3. next \in Nat
    BY <1>2, MomentsAssumption DEF TypeOK, SaturatingAdd
  <1>4. /\ CycleDuration \in Nat \ {0}
        /\ now + CycleDuration <= MaxMoment
    BY CycleFits DEF ProgressPhase
  <1>5. now \in Nat /\ MaxMoment \in Nat
    BY MomentsAssumption
  <1>6. NextPhaseTimestamp' = ResyncTarget(next, now, CycleDuration)
    BY DEF ProgressPhase
  <1> HIDE DEF next
  <1>7. /\ NextPhaseTimestamp' \in Nat
        /\ now <= NextPhaseTimestamp'
        /\ NextPhaseTimestamp' <= now + CycleDuration
    BY <1>3, <1>4, <1>5, <1>6, ResyncWindow
  <1>8. CurrentPhase' \in Phases
    BY <1>1 DEF ProgressPhase
  <1>9. CurrentCeremonyIndex' \in Nat
    BY DEF ProgressPhase, WriteIndex, PC!FollowingIndex, TypeOK
  <1> QED
    BY <1>4, <1>5, <1>7, <1>8, <1>9

\* The first block schedules the end of the first phase within a cycle.
LEMMA BootstrapStep ==
    ASSUME TypeOK, NEW now \in 1 .. MaxNow, Bootstrap(now)
    PROVE  /\ NextPhaseTimestamp' \in 0 .. MaxMoment
           /\ CycleDuration # 0 => now <= NextPhaseTimestamp'
  <1> DEFINE next == SaturatingAdd(now - (now % MomentsPerDay), PhaseDurations["Registering"])
  <1>1. PhaseDurations["Registering"] \in Nat
    BY RangeAssumption DEF TypeOK, Phases, PC!Phases
  <1>2. now \in Nat /\ now \in 0 .. MaxNow /\ MaxMoment \in Nat
    BY MomentsAssumption
  <1>3. now - (now % MomentsPerDay) \in Nat
    <2> DEFINE r == now % MomentsPerDay
    <2>1. MomentsPerDay \in Nat \ {0}
      BY MomentsAssumption
    <2>2. r \in Nat /\ r <= now
      BY <1>2, <2>1, SMTT(30)
    <2> HIDE DEF r
    <2> QED
      BY <1>2, <2>2 DEF r
  <1>4. next \in Nat
    BY <1>1, <1>3, <1>2 DEF SaturatingAdd
  <1>5. CycleDuration \in Nat /\ now + CycleDuration <= MaxMoment
    BY <1>2, CycleFits
  <1>6. NextPhaseTimestamp' =
          IF CycleDuration = 0 THEN 0 ELSE ResyncTarget(next, now, CycleDuration)
    BY DEF Bootstrap
  <1> HIDE DEF next
  <1>7. CASE CycleDuration = 0
    BY <1>2, <1>6, <1>7
  <1>8. CASE CycleDuration # 0
    <2>1. /\ ResyncTarget(next, now, CycleDuration) \in Nat
          /\ now <= ResyncTarget(next, now, CycleDuration)
          /\ ResyncTarget(next, now, CycleDuration) <= now + CycleDuration
      BY <1>2, <1>4, <1>5, <1>8, ResyncWindow
    <2> QED
      BY <1>2, <1>5, <1>6, <1>8, <2>1
  <1> QED
    BY <1>7, <1>8

\* Every step of the pallet keeps its storage well typed.
LEMMA TypeStep ==
    ASSUME TypeOK, [Next]_vars
    PROVE  TypeOK'
  <1> USE MomentsAssumption
  <1>1. ASSUME NEW now \in 1 .. MaxNow, Bootstrap(now)
        PROVE  TypeOK'
    BY <1>1, BootstrapStep DEF Bootstrap, NewTimestamp, TypeOK
  <1>2. ASSUME NEW now \in 1 .. MaxNow, AutoProgress(now)
        PROVE  TypeOK'
    <2>1. now \in 0 .. MaxNow /\ Now' = now
      BY <1>2 DEF AutoProgress, NewTimestamp
    <2>2. CASE ProgressPhase(now)
      BY <2>1, <2>2, ProgressPhaseStep DEF ProgressPhase, TypeOK
    <2>3. CASE ProgressPhaseFails
      BY <2>1, <2>3 DEF ProgressPhaseFails, WriteIndex, PC!FollowingIndex, TypeOK
    <2> QED
      BY <1>2, <2>2, <2>3 DEF AutoProgress
  <1>3. ASSUME NEW now \in 1 .. MaxNow, QuietBlock(now)
        PROVE  TypeOK'
    BY <1>3 DEF QuietBlock, NewTimestamp, TypeOK
  <1>4. CASE next_phase
    BY <1>4, ProgressPhaseStep DEF next_phase, ProgressPhase, TypeOK
  <1>5. CASE push_by_one_day
    BY <1>5, SaturatingAddRange DEF push_by_one_day, TypeOK
  <1>6. CASE set_phase_duration
    BY <1>6 DEF set_phase_duration, TypeOK
  <1>7. CASE set_next_phase_timestamp
    BY <1>7 DEF set_next_phase_timestamp, TypeOK
  <1>8. CASE UNCHANGED vars
    BY <1>8 DEF vars, TypeOK
  <1> QED
    BY <1>1, <1>2, <1>3, <1>4, <1>5, <1>6, <1>7, <1>8
    DEF Next, OnTimestampSet, CeremonyMaster

\* The storage of the scheduler is always well typed; in particular the next
\* timestamp never leaves the range of moments, whatever the CeremonyMaster sets.
THEOREM TypeCorrect == Spec => []TypeOK
  <1>1. Init => TypeOK
    BY MomentsAssumption DEF Init, TypeOK, Phases, PC!Phases
  <1>2. TypeOK /\ [Next]_vars => TypeOK'
    BY TypeStep
  <1> QED
    BY <1>1, <1>2, PTL DEF Spec

-----------------------------------------------------------------------------
(* The schedule.                                                            *)

\* A phase change can only be a successful progress_phase() at block time.
LEMMA PhaseChangeIsProgress ==
    ASSUME TypeOK, [Next]_vars, CurrentPhase' # CurrentPhase
    PROVE  Now' \in 0 .. MaxNow /\ ProgressPhase(Now')
  <1> USE MomentsAssumption
  <1>1. ASSUME NEW now \in 1 .. MaxNow, AutoProgress(now)
        PROVE  Now' \in 0 .. MaxNow /\ ProgressPhase(Now')
    BY <1>1 DEF AutoProgress, NewTimestamp, ProgressPhaseFails
  <1>2. CASE next_phase
    BY <1>2 DEF next_phase, TypeOK
  <1> QED
    BY <1>1, <1>2
    DEF Next, OnTimestampSet, CeremonyMaster, Bootstrap, QuietBlock, push_by_one_day,
        set_phase_duration, set_next_phase_timestamp, vars

\* After a phase change the following one is due within one cycle.
THEOREM IdlePhaseBound == Spec => NoIdlePhase
  <1>1. ASSUME TypeOK, [Next]_vars
        PROVE  [CurrentPhase' # CurrentPhase =>
                  /\ Now' <= NextPhaseTimestamp'
                  /\ NextPhaseTimestamp' <= Now' + CycleDuration]_vars
    BY <1>1, PhaseChangeIsProgress, ProgressPhaseStep
  <1> QED
    BY <1>1, TypeCorrect, PTL DEF Spec, NoIdlePhase

\* No block leaves a phase change in the past behind it.
THEOREM BacklogFree == Spec => NoBacklogAfterBlock
  <1>1. ASSUME TypeOK, [Next]_vars, Now' # Now, CycleDuration # 0
        PROVE  NextPhaseTimestamp' >= Now'
    <2> USE MomentsAssumption
    <2>1. ASSUME NEW now \in 1 .. MaxNow, Bootstrap(now)
          PROVE  NextPhaseTimestamp' >= Now'
      BY <1>1, <2>1, BootstrapStep DEF Bootstrap, NewTimestamp
    <2>2. ASSUME NEW now \in 1 .. MaxNow, AutoProgress(now)
          PROVE  NextPhaseTimestamp' >= Now'
      <3>1. Now' = now /\ ProgressPhase(now) /\ now \in 0 .. MaxNow
        BY <1>1, <2>2 DEF AutoProgress, NewTimestamp, ProgressPhaseFails
      <3>2. now <= NextPhaseTimestamp' /\ NextPhaseTimestamp' \in 0 .. MaxMoment
        BY <1>1, <3>1, ProgressPhaseStep
      <3> QED
        BY <3>1, <3>2
    <2>3. ASSUME NEW now \in 1 .. MaxNow, QuietBlock(now)
          PROVE  NextPhaseTimestamp' >= Now'
      BY <1>1, <2>3 DEF QuietBlock, NewTimestamp, Due, TypeOK
    <2> QED
      BY <1>1, <2>1, <2>2, <2>3
      DEF Next, OnTimestampSet, CeremonyMaster, next_phase, push_by_one_day,
          set_phase_duration, set_next_phase_timestamp, vars
  <1>2. TypeOK /\ [Next]_vars
          => [Now' # Now /\ CycleDuration # 0 => NextPhaseTimestamp' >= Now']_vars
    BY <1>1
  <1> QED
    BY <1>2, TypeCorrect, PTL DEF Spec, NoBacklogAfterBlock

-----------------------------------------------------------------------------
(* The rhythm.                                                              *)

\* A multiple of c strictly between -c and c is zero.
LEMMA SmallMultiple ==
    ASSUME NEW c \in Nat \ {0}, NEW m \in Int, c * m < c, 0 - c < c * m
    PROVE  m = 0
  <1>1. ASSUME m >= 1 PROVE FALSE
    <2>1. PICK n \in Nat : m = n + 1
      BY <1>1
    <2>2. c * m = c * n + c /\ c * n >= 0
      BY <2>1, TimesSuccessor
    <2> QED
      BY <2>2
  <1>2. ASSUME m <= -1 PROVE FALSE
    <2>1. PICK n \in Nat : m = 0 - (n + 1)
      <3>1. (0 - m) - 1 \in Nat /\ m = 0 - (((0 - m) - 1) + 1)
        BY <1>2
      <3> QED
        BY <3>1
    <2>2. c * (n + 1) = c * n + c /\ c * n >= 0
      BY TimesSuccessor
    <2>3. c * m = 0 - (c * (n + 1))
      BY <2>1
    <2>4. c * n \in Int /\ c * m \in Int
      BY <2>1
    <2> QED
      BY <2>2, <2>3, <2>4
  <1> QED
    BY <1>1, <1>2

\* Remainders do not see whole cycles.
LEMMA RemainderShift ==
    ASSUME NEW c \in Nat \ {0}, NEW x \in Int, NEW y \in Int, NEW k \in Int,
           y = x + c * k
    PROVE  y % c = x % c
  <1>1. /\ x \div c \in Int /\ x % c \in Int
        /\ x = c * (x \div c) + (x % c) /\ 0 <= x % c /\ x % c < c
    BY SMTT(30)
  <1>2. /\ y \div c \in Int /\ y % c \in Int
        /\ y = c * (y \div c) + (y % c) /\ 0 <= y % c /\ y % c < c
    BY SMTT(30)
  <1>3. PICK q \in Int, r \in Int :
          x = c * q + r /\ 0 <= r /\ r < c /\ r = x % c
    BY <1>1
  <1>4. PICK p \in Int, s \in Int :
          y = c * p + s /\ 0 <= s /\ s < c /\ s = y % c
    BY <1>2
  <1>5. PICK m \in Int : m = (q + k) - p
    OBVIOUS
  <1>6. c * m = c * q + c * k - c * p
    BY <1>5, SMTT(30)
  <1>7. PICK cq \in Int, ck \in Int, cp \in Int : cq = c * q /\ ck = c * k /\ cp = c * p
    OBVIOUS
  <1>8. c * m = s - r
    <2>1. y = x + ck /\ x = cq + r /\ y = cp + s /\ c * m = cq + ck - cp
      BY <1>3, <1>4, <1>6, <1>7
    <2> QED
      BY <2>1
  <1>9. c * m < c /\ 0 - c < c * m
    BY <1>3, <1>4, <1>8
  <1>10. m = 0
    BY <1>9, SmallMultiple
  <1>11. s = r
    <2>1. c * m = 0
      BY <1>10
    <2>2. s - r = 0
      BY <1>8, <2>1
    <2> QED
      BY <2>2
  <1> QED
    BY <1>3, <1>4, <1>11, Zenon

\* Resynchronising moves a timestamp by whole cycles.
LEMMA ResyncByCycles ==
    ASSUME NEW t \in Nat, NEW now \in Nat, NEW c \in Nat \ {0},
           now + c <= MaxMoment
    PROVE  \E k \in Int : ResyncTarget(t, now, c) = t + c * k
  <1>m. MaxMoment \in Nat
    BY MomentsAssumption
  <1>1. CASE t < now
    <2> DEFINE g == now - t
               n == g \div c
    <2>1. g \in Nat
      BY <1>1
    <2>2. n \in Nat /\ c * n <= g /\ g < c * n + c
      BY <2>1, DivisionBounds
    <2>3. c * (n + 1) = c * n + c /\ c * n \in Nat
      BY <2>2, TimesSuccessor
    <2> HIDE DEF n
    <2>4. t + c * (n + 1) <= now + c
      BY <2>1, <2>2, <2>3
    <2>5. ResyncTarget(t, now, c) = t + c * (n + 1)
      BY <1>1, <1>m, <2>4, <2>3 DEF ResyncTarget, SaturatingAdd, n
    <2>6. n + 1 \in Int
      BY <2>2
    <2> QED
      BY <2>5, <2>6
  <1>2. CASE ~ (t < now)
    <2> DEFINE n == (t - now) \div c
    <2>1. t - now \in Nat
      BY <1>2
    <2>2. n \in Nat
      BY <2>1, DivisionBounds
    <2>3. ResyncTarget(t, now, c) = t - c * n
      BY <1>2 DEF ResyncTarget
    <2> HIDE DEF n
    <2>4. t - c * n = t + c * (0 - n) /\ 0 - n \in Int
      BY <2>2
    <2> QED
      BY <2>3, <2>4
  <1> QED
    BY <1>1, <1>2

\* Phase changes keep the origin of the ceremony cycle modulo whole cycles.
THEOREM RhythmPreserved == Spec => RhythmKept
  <1>1. ASSUME TypeOK, [Next]_vars, CurrentPhase' # CurrentPhase,
               NextPhaseTimestamp + CycleDuration <= MaxMoment
        PROVE  CycleOrigin' = CycleOrigin
    <2> DEFINE R == PhaseDurations["Registering"]
               A == PhaseDurations["Assigning"]
               T == PhaseDurations["Attesting"]
               c == CycleDuration
               following == PC!FollowingPhase(CurrentPhase)
               N == NextPhaseTimestamp
               M == NextPhaseTimestamp'
    <2>1. Now' \in 0 .. MaxNow /\ ProgressPhase(Now')
      BY <1>1, PhaseChangeIsProgress
    <2>2. R \in Nat /\ A \in Nat /\ T \in Nat /\ N \in Nat /\ c = R + A + T
      <3>1. R \in Durations /\ A \in Durations /\ T \in Durations
        BY <1>1 DEF TypeOK, Phases, PC!Phases
      <3>2. N \in Nat
        BY <1>1, MomentsAssumption DEF TypeOK
      <3> QED
        BY <3>1, <3>2, RangeAssumption DEF CycleDuration
    <2>3. c \in Nat \ {0} /\ c' = c /\ Now' + c <= MaxMoment
      BY <1>1, <2>1, CycleFits DEF ProgressPhase, CycleDuration
    <2>4. PhaseEnd' = PhaseEnd /\ CurrentPhase' = following
      BY <2>1 DEF ProgressPhase, PhaseEnd, CycleDuration
    <2>5. \E j \in Int :
            SaturatingAdd(N, PhaseDurations[following]) + c - PhaseEnd[following]
              = (N + c - PhaseEnd[CurrentPhase]) + c * j
      <3>0. N + c <= MaxMoment /\ MaxMoment \in Nat /\ c \in Nat
        BY <1>1, <2>3, MomentsAssumption
      <3>e. /\ PhaseEnd["Registering"] = R
            /\ PhaseEnd["Assigning"] = R + A
            /\ PhaseEnd["Attesting"] = c
        BY DEF PhaseEnd, Phases, PC!Phases
      <3>d. /\ PhaseDurations["Registering"] = R
            /\ PhaseDurations["Assigning"] = A
            /\ PhaseDurations["Attesting"] = T
        OBVIOUS
      <3>p. CurrentPhase \in {"Registering", "Assigning", "Attesting"}
        BY <1>1 DEF TypeOK, Phases, PC!Phases
      <3> HIDE DEF c, N, R, A, T
      <3>l. /\ N + A <= MaxMoment /\ N + T <= MaxMoment /\ N + R <= MaxMoment
            /\ N + A + c - (R + A) = N + c - R
            /\ N + T + c - c = N + c - (R + A)
            /\ N + R + c - R = (N + c - c) + c
        BY <2>2, <3>0
      <3>z. /\ (N + c - R) + c * 0 = N + c - R
            /\ (N + c - (R + A)) + c * 0 = N + c - (R + A)
            /\ (N + c - c) + c * 1 = (N + c - c) + c
        BY <2>2, <3>0
      <3>1. CASE CurrentPhase = "Registering"
        <4>1. following = "Assigning"
          BY <3>1 DEF PC!FollowingPhase
        <4>2. SaturatingAdd(N, A) = N + A
          BY <2>2, <3>0, <3>l DEF SaturatingAdd
        <4> QED
          BY <3>1, <3>d, <3>e, <3>l, <3>z, <4>1, <4>2
      <3>2. CASE CurrentPhase = "Assigning"
        <4>1. following = "Attesting"
          BY <3>2 DEF PC!FollowingPhase
        <4>2. SaturatingAdd(N, T) = N + T
          BY <2>2, <3>0, <3>l DEF SaturatingAdd
        <4> QED
          BY <3>2, <3>d, <3>e, <3>l, <3>z, <4>1, <4>2
      <3>3. CASE CurrentPhase = "Attesting"
        <4>1. following = "Registering"
          BY <3>3 DEF PC!FollowingPhase
        <4>2. SaturatingAdd(N, R) = N + R
          BY <2>2, <3>0, <3>l DEF SaturatingAdd
        <4> QED
          BY <3>3, <3>d, <3>e, <3>l, <3>z, <4>1, <4>2
      <3> QED
        BY <3>p, <3>1, <3>2, <3>3
    <2> DEFINE t == SaturatingAdd(N, PhaseDurations[following])
               x == N + c - PhaseEnd[CurrentPhase]
               y == M + c - PhaseEnd[following]
    <2>6. following \in Phases /\ PhaseDurations[following] \in Nat
      BY <1>1, FollowingPhaseType, RangeAssumption DEF TypeOK
    <2>7. t \in Nat /\ M = ResyncTarget(t, Now', c) /\ Now' \in Nat
      BY <2>1, <2>2, <2>6, MomentsAssumption DEF ProgressPhase, SaturatingAdd
    <2>8. PhaseEnd[CurrentPhase] \in Nat /\ PhaseEnd[following] \in Nat
      BY <1>1, <2>2, <2>6 DEF PhaseEnd, TypeOK, Phases, PC!Phases
    <2> HIDE DEF t, c
    <2>9. PICK i \in Int : M = t + c * i
      BY <2>3, <2>7, ResyncByCycles
    <2>10. PICK j \in Int : t + c - PhaseEnd[following] = x + c * j
      BY <2>5 DEF t
    <2>11. PICK k \in Int : k = i + j
      OBVIOUS
    <2>12. x \in Int /\ M \in Int /\ y \in Int
      BY <2>2, <2>3, <2>7, <2>8, <2>9
    <2>13. y = x + c * k
      <3>1. PICK ci \in Int, cj \in Int, ck \in Int : ci = c * i /\ cj = c * j /\ ck = c * k
        BY <2>3
      <3>2. ck = ci + cj
        BY <2>3, <2>11, <3>1, SMTT(30)
      <3>3. M = t + ci /\ t + c - PhaseEnd[following] = x + cj
        BY <2>9, <2>10, <3>1
      <3> HIDE DEF x
      <3>4. M + c - PhaseEnd[following] = x + ck
        BY <2>3, <2>7, <2>8, <2>12, <3>2, <3>3
      <3> QED
        BY <3>1, <3>4
    <2> HIDE DEF x, y
    <2>14. y % c = x % c
      BY <2>3, <2>12, <2>13, RemainderShift
    <2>15. CycleOrigin = x % c /\ CycleOrigin' = y % c
      BY <2>3, <2>4 DEF CycleOrigin, x, y, c
    <2> QED
      BY <2>14, <2>15
  <1>2. TypeOK /\ [Next]_vars
          => [ /\ CurrentPhase' # CurrentPhase
               /\ NextPhaseTimestamp + CycleDuration <= MaxMoment
               => CycleOrigin' = CycleOrigin]_vars
    BY <1>1
  <1> QED
    BY <1>2, TypeCorrect, PTL DEF Spec, RhythmKept

-----------------------------------------------------------------------------
(* The promise to the other pallets.                                        *)

\* Every step taken while the cycle is not empty, those of the CeremonyMaster
\* included, advances the phase cycle or leaves phase and index alone.
LEMMA CycleStep ==
    ASSUME [Next]_vars, CycleDuration # 0
    PROVE  [PC!CycleNext]_(PC!cycleVars)
  <1>1. ASSUME NEW now \in 1 .. MaxNow, Bootstrap(now)
        PROVE  PC!StartIndex \/ UNCHANGED PC!cycleVars
    BY <1>1 DEF Bootstrap, PC!StartIndex, PC!cycleVars
  <1>2. ASSUME NEW now, ProgressPhase(now)
        PROVE  PC!AdvancePhase
    BY <1>2 DEF ProgressPhase, WriteIndex, PC!AdvancePhase
  <1>3. ~ ProgressPhaseFails
    BY DEF ProgressPhaseFails
  <1> QED
    BY <1>1, <1>2, <1>3
    DEF Next, OnTimestampSet, CeremonyMaster, AutoProgress, QuietBlock, next_phase,
        push_by_one_day, set_phase_duration, set_next_phase_timestamp, vars,
        PC!CycleNext, PC!cycleVars

\* The clock starts in an initial state of the cycle.
LEMMA CycleStart == Init => PC!CycleInit
  BY DEF Init, PC!CycleInit, PC!Phases

\* The scheduler keeps the promise of PhaseCycle wherever the cycle is not empty.
THEOREM KeepsPhaseCycle == Spec => ImplementsPhaseCycle
  <1>1. [Next]_vars => [CycleDuration # 0 => [PC!CycleNext]_(PC!cycleVars)]_vars
    BY CycleStep
  <1> QED
    BY <1>1, CycleStart, PTL DEF Spec, ImplementsPhaseCycle

\* With durations that are not zero the cycle never is empty, and every
\* behaviour of the scheduler is one of PhaseCycle.
THEOREM RefinesPhaseCycle ==
    ASSUME 0 \notin Durations
    PROVE  Spec => PC!CycleSpec
  <1>1. ASSUME TypeOK
        PROVE  CycleDuration # 0
    <2>1. /\ PhaseDurations["Registering"] \in Durations
          /\ PhaseDurations["Assigning"] \in Durations
          /\ PhaseDurations["Attesting"] \in Durations
      BY <1>1 DEF TypeOK, Phases, PC!Phases
    <2>2. \A d \in Durations : d \in Nat /\ d > 0
      BY RangeAssumption
    <2> QED
      BY <2>1, <2>2 DEF CycleDuration
  <1>2. TypeOK /\ [Next]_vars => [PC!CycleNext]_(PC!cycleVars)
    BY <1>1, CycleStep
  <1> QED
    BY <1>2, CycleStart, TypeCorrect, PTL DEF Spec, PC!CycleSpec

====
