---- MODULE MCScheduler ----
(***************************************************************************)
(* Instances of Scheduler for TLC.  The durations are not multiples of one *)
(* another or of the day, so that cycles and days drift apart.             *)
(*                                                                         *)
(* The CeremonyMaster of Scheduler can postpone a phase for ever.  Here he *)
(* may at any moment stop to interfere for good, so that liveness can be   *)
(* stated of the state he leaves the clock in.                             *)
(***************************************************************************)
EXTENDS Scheduler

VARIABLE Attended       \* the CeremonyMaster may still interfere

mcVars == <<vars, Attended>>

MCDurations == {0, 1, 4}
MCTimestamps == {0, 1, 6, 26}

Block == OnTimestampSet /\ UNCHANGED Attended

Interfere == Attended /\ CeremonyMaster /\ UNCHANGED Attended

\* The CeremonyMaster makes no further calls.
LeaveAlone == Attended /\ Attended' = FALSE /\ UNCHANGED vars

MCInit == Init /\ Attended = TRUE

MCNext == Block \/ Interfere \/ LeaveAlone

\* A chain that keeps producing blocks: the timestamp inherent is mandatory
\* in every one of them.
MCSpec == MCInit /\ [][MCNext]_mcVars /\ WF_mcVars(Block)

\* Left alone, the ceremony clock never stops, whatever the CeremonyMaster did
\* to the durations and the next timestamp before: the phase ends.  The bounds
\* of the model leave time for it, and the cycle is not empty.
PhasesKeepChanging ==
    \A p \in Phases :
        (/\ ~ Attended
         /\ CurrentPhase = p
         /\ CycleDuration # 0
         /\ CurrentCeremonyIndex < MaxIndex
         /\ NextPhaseTimestamp < MaxNow
         /\ Now + MaxGap + CycleDuration < MaxNow) ~> (CurrentPhase # p)

====
