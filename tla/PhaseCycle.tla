---- MODULE PhaseCycle ----
(***************************************************************************)
(* What the scheduler promises to every pallet that listens to             *)
(* OnCeremonyPhaseChange: the phases follow one another in a fixed order   *)
(* and the ceremony index grows by one exactly when a new Registering      *)
(* phase begins.  Ceremonies, reputation commitments, democracy and the    *)
(* reputation rings are written against this promise, not against the      *)
(* clock arithmetic that implements it (module Scheduler).                 *)
(***************************************************************************)
EXTENDS Naturals

VARIABLES CurrentPhase, CurrentCeremonyIndex

cycleVars == <<CurrentPhase, CurrentCeremonyIndex>>

\* enum CeremonyPhaseType of primitives/src/scheduler.rs
Phases == {"Registering", "Assigning", "Attesting"}

\* The phase that follows p in progress_phase().
FollowingPhase(p) ==
    IF p = "Registering" THEN "Assigning"
    ELSE IF p = "Assigning" THEN "Attesting"
    ELSE "Registering"

\* The index that goes with the phase after p: bumped on leaving Attesting.
FollowingIndex(p, i) == IF p = "Attesting" THEN i + 1 ELSE i

CycleInit ==
    /\ CurrentPhase \in Phases
    /\ CurrentCeremonyIndex \in Nat

AdvancePhase ==
    /\ CurrentPhase' = FollowingPhase(CurrentPhase)
    /\ CurrentCeremonyIndex' = FollowingIndex(CurrentPhase, CurrentCeremonyIndex)

\* A chain whose genesis left the index at zero starts counting at one.
StartIndex ==
    /\ CurrentCeremonyIndex = 0
    /\ CurrentCeremonyIndex' = 1
    /\ UNCHANGED CurrentPhase

CycleNext == AdvancePhase \/ StartIndex

CycleSpec == CycleInit /\ [][CycleNext]_cycleVars

====
