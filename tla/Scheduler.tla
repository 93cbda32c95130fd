---- MODULE Scheduler ----
(***************************************************************************)
(* pallet_encointer_scheduler: the ceremony clock.                         *)
(*                                                                         *)
(* One ceremony is a cycle Registering -> Assigning -> Attesting.  The     *)
(* timestamp inherent of every block calls on_timestamp_set, which moves   *)
(* to the next phase once NextPhaseTimestamp has passed.  The              *)
(* CeremonyMaster may interfere with four extrinsics.  An extrinsic that   *)
(* returns an error is rolled back; the inherent's hook swallows the error *)
(* and keeps whatever was written before it.                               *)
(*                                                                         *)
(* Moments are milliseconds (u64) in the code and small naturals here.     *)
(***************************************************************************)
EXTENDS Integers

CONSTANTS
    MomentsPerDay,      \* T::MomentsPerDay
    Durations,          \* phase durations that genesis and the CeremonyMaster use
    Timestamps,         \* arguments the CeremonyMaster gives set_next_phase_timestamp
    MaxMoment,          \* u64::MAX, where saturating_add stops
    MaxNow,             \* bound: last block timestamp considered
    MaxGap,             \* bound: longest gap between two block timestamps
    MaxIndex            \* bound: last ceremony index considered

ASSUME MomentsAssumption ==
    /\ MomentsPerDay \in Nat \ {0}
    /\ MaxMoment \in Nat
    /\ MaxNow \in Nat
    /\ MaxGap \in Nat
    /\ MaxIndex \in Nat
    /\ Timestamps \subseteq 0 .. MaxMoment

\* The clock is far from the end of the u64 range: no sum of a block
\* timestamp and a whole cycle overflows.
ASSUME RangeAssumption ==
    /\ Durations \subseteq Nat
    /\ \A a, b, c \in Durations : MaxNow + a + b + c <= MaxMoment

VARIABLES
    CurrentCeremonyIndex,
    CurrentPhase,
    NextPhaseTimestamp,
    PhaseDurations,
    Now                 \* pallet_timestamp::Now

vars == <<CurrentCeremonyIndex, CurrentPhase, NextPhaseTimestamp, PhaseDurations, Now>>

PC == INSTANCE PhaseCycle

Phases == PC!Phases

\* Mutant: sums of moments are not saturated.
PlainAdd(a, b) == a + b

\* Moment is u64 and every sum in this pallet but get_cycle_duration saturates.
SaturatingAdd(a, b) == IF a + b > MaxMoment THEN MaxMoment ELSE a + b

\* get_cycle_duration()
CycleDuration ==
    PhaseDurations["Registering"] + PhaseDurations["Assigning"] + PhaseDurations["Attesting"]

\* Mutant: a target in the past is moved by whole cycles up to now, not beyond.
ResyncTargetShort(tnext, now, cycle) ==
    IF tnext < now
    THEN SaturatingAdd(tnext, cycle * ((now - tnext) \div cycle))
    ELSE tnext - cycle * ((tnext - now) \div cycle)

\* Mutant: a target in the past is restarted from now.
ResyncTargetRestart(tnext, now, cycle) ==
    IF tnext < now
    THEN SaturatingAdd(now, cycle)
    ELSE tnext - cycle * ((tnext - now) \div cycle)

\* Mutant: a target more than one cycle ahead is not pulled back.
ResyncTargetFar(tnext, now, cycle) ==
    IF tnext < now
    THEN SaturatingAdd(tnext, cycle * ((now - tnext) \div cycle + 1))
    ELSE tnext

\* resync_and_set_next_phase_timestamp(tnext) for a cycle that is not zero:
\* the timestamp moves by whole cycles into the window that starts at now.
ResyncTarget(tnext, now, cycle) ==
    IF tnext < now
    THEN SaturatingAdd(tnext, cycle * ((now - tnext) \div cycle + 1))
    ELSE tnext - cycle * ((tnext - now) \div cycle)

Init ==
    /\ CurrentCeremonyIndex \in {0, 1}
    /\ CurrentPhase = "Registering"
    /\ NextPhaseTimestamp = 0
    /\ PhaseDurations \in [Phases -> Durations]
    /\ Now = 0

\* Mutant: the index counts phases, not ceremonies.
WriteIndexAlways == CurrentCeremonyIndex' = CurrentCeremonyIndex + 1

\* progress_phase() up to its early return: the index is written before the
\* resync can fail.
WriteIndex ==
    CurrentCeremonyIndex' = PC!FollowingIndex(CurrentPhase, CurrentCeremonyIndex)

\* progress_phase() succeeds at time now: the end of the new phase is counted
\* from the scheduled end of the old one, then resynchronised.
ProgressPhase(now) ==
    /\ CycleDuration # 0
    /\ WriteIndex
    /\ LET following == PC!FollowingPhase(CurrentPhase)
           next      == SaturatingAdd(NextPhaseTimestamp, PhaseDurations[following])
       IN  /\ NextPhaseTimestamp' = ResyncTarget(next, now, CycleDuration)
           /\ CurrentPhase' = following
    /\ UNCHANGED PhaseDurations

\* progress_phase() returns DivisionByZero to a caller that ignores it.
ProgressPhaseFails ==
    /\ CycleDuration = 0
    /\ WriteIndex
    /\ UNCHANGED <<CurrentPhase, NextPhaseTimestamp, PhaseDurations>>

-----------------------------------------------------------------------------
(* The timestamp inherent.                                                  *)

\* A block with timestamp now; pallet_timestamp only moves forward.
NewTimestamp(now) ==
    /\ now > Now
    /\ now <= Now + MaxGap
    /\ now <= MaxNow
    /\ Now' = now

\* on_timestamp_set, nothing scheduled yet: phase zero starts at midnight.
Bootstrap(now) ==
    /\ NextPhaseTimestamp = 0
    /\ NewTimestamp(now)
    /\ CurrentCeremonyIndex' =
         IF CurrentCeremonyIndex = 0 THEN 1 ELSE CurrentCeremonyIndex
    /\ LET next == SaturatingAdd(now - (now % MomentsPerDay), PhaseDurations["Registering"])
       IN  NextPhaseTimestamp' =
             IF CycleDuration = 0 THEN 0 ELSE ResyncTarget(next, now, CycleDuration)
    /\ UNCHANGED <<CurrentPhase, PhaseDurations>>

\* Mutant: a phase that is overdue by a whole cycle is skipped.
DueUnlessLate(now) ==
    /\ NextPhaseTimestamp # 0
    /\ NextPhaseTimestamp < now
    /\ now <= NextPhaseTimestamp + CycleDuration

\* The scheduled end of the phase lies before this block.
Due(now) == NextPhaseTimestamp # 0 /\ NextPhaseTimestamp < now

\* on_timestamp_set, the phase is over.
AutoProgress(now) ==
    /\ Due(now)
    /\ CurrentPhase = "Attesting" => CurrentCeremonyIndex < MaxIndex
    /\ NewTimestamp(now)
    /\ ProgressPhase(now) \/ ProgressPhaseFails

\* on_timestamp_set, nothing to do.
QuietBlock(now) ==
    /\ NextPhaseTimestamp # 0
    /\ ~ Due(now)
    /\ NewTimestamp(now)
    /\ UNCHANGED <<CurrentCeremonyIndex, CurrentPhase, NextPhaseTimestamp, PhaseDurations>>

OnTimestampSet ==
    \E now \in 1 .. MaxNow : Bootstrap(now) \/ AutoProgress(now) \/ QuietBlock(now)

-----------------------------------------------------------------------------
(* Extrinsics of the CeremonyMaster; a failing one changes nothing.         *)

next_phase ==
    /\ CurrentPhase = "Attesting" => CurrentCeremonyIndex < MaxIndex
    /\ ProgressPhase(Now)
    /\ UNCHANGED Now

push_by_one_day ==
    /\ NextPhaseTimestamp' = SaturatingAdd(NextPhaseTimestamp, MomentsPerDay)
    /\ UNCHANGED <<CurrentCeremonyIndex, CurrentPhase, PhaseDurations, Now>>

set_phase_duration ==
    /\ \E ceremony_phase \in Phases, duration \in Durations :
         PhaseDurations' = [PhaseDurations EXCEPT ![ceremony_phase] = duration]
    /\ UNCHANGED <<CurrentCeremonyIndex, CurrentPhase, NextPhaseTimestamp, Now>>

set_next_phase_timestamp ==
    /\ \E timestamp \in Timestamps : NextPhaseTimestamp' = timestamp
    /\ UNCHANGED <<CurrentCeremonyIndex, CurrentPhase, PhaseDurations, Now>>

CeremonyMaster ==
    \/ next_phase
    \/ push_by_one_day
    \/ set_phase_duration
    \/ set_next_phase_timestamp

-----------------------------------------------------------------------------

Next == OnTimestampSet \/ CeremonyMaster

Spec == Init /\ [][Next]_vars

-----------------------------------------------------------------------------
(* Properties.                                                              *)

\* Type correctness of the pallet's storage.
TypeOK ==
    /\ CurrentCeremonyIndex \in Nat
    /\ CurrentPhase \in Phases
    /\ NextPhaseTimestamp \in 0 .. MaxMoment
    /\ PhaseDurations \in [Phases -> Durations]
    /\ Now \in 0 .. MaxNow

\* The scheduler keeps the promise of module PhaseCycle: phases in order, and
\* the index bumped exactly when Attesting gives way to Registering.  It does
\* so as long as the cycle is not empty: see ProgressPhaseFails.
ImplementsPhaseCycle ==
    /\ PC!CycleInit
    /\ [][CycleDuration # 0 => [PC!CycleNext]_(PC!cycleVars)]_vars

\* After the timestamp inherent of a block, the next phase change is never in
\* the past: however long the chain stood still and whatever timestamp was
\* set before, at most one phase change per block is ever outstanding, and
\* phases do not "cycle with every block until catched up" (comment on
\* resync_and_set_next_phase_timestamp).  Only an empty cycle defeats it.
NoBacklogAfterBlock ==
    [][Now' # Now /\ CycleDuration # 0 => NextPhaseTimestamp' >= Now']_vars

\* A phase change never schedules the following one more than a cycle ahead,
\* so next_phase() used repeatedly introduces no long idle phase (second case
\* of the comment on resync_and_set_next_phase_timestamp).
NoIdlePhase ==
    [][CurrentPhase' # CurrentPhase =>
         /\ Now' <= NextPhaseTimestamp'
         /\ NextPhaseTimestamp' <= Now' + CycleDuration]_vars

\* The time at which the scheduled cycle began, up to whole cycles.
PhaseEnd ==
    [p \in Phases |->
       IF p = "Registering" THEN PhaseDurations["Registering"]
       ELSE IF p = "Assigning" THEN PhaseDurations["Registering"] + PhaseDurations["Assigning"]
       ELSE CycleDuration]

CycleOrigin == (NextPhaseTimestamp + CycleDuration - PhaseEnd[CurrentPhase]) % CycleDuration

\* A phase change, scheduled or by next_phase(), keeps the ceremony rhythm
\* ("without affecting the ceremony rhythm"): the origin of the cycle stays
\* the same modulo whole cycles, however many of them were skipped.
RhythmKept ==
    [][ /\ CurrentPhase' # CurrentPhase
        /\ NextPhaseTimestamp + CycleDuration <= MaxMoment
        => CycleOrigin' = CycleOrigin]_vars

====
