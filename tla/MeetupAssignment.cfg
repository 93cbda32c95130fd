SPECIFICATION AssignmentSpec
CONSTANTS
    MeetupSizeTarget = 3
    MeetupMinSize = 3
    MeetupNewbieLimitDivider = 2
    MaxBootstrappers = 2
    MaxRegistered <- MCMaxRegistered
    MaxLocations = 4
INVARIANTS
    SeatingConsistent
    MeetupsTrusted
CHECK_DEADLOCK FALSE
