SPECIFICATION MCSpec
CONSTANTS
    MomentsPerDay = 3
    Durations <- MCDurations
    Timestamps <- MCTimestamps
    MaxMoment = 28
    MaxNow = 15
    MaxGap = 7
    MaxIndex = 2
INVARIANT TypeOK
PROPERTIES
    NoBacklogAfterBlock
    NoIdlePhase
    RhythmKept
    ImplementsPhaseCycle
    PhasesKeepChanging
CHECK_DEADLOCK FALSE
