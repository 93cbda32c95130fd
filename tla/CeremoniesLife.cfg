SPECIFICATION Spec
CONSTANTS
    founder = founder
    x = x
    y = y
    c1 = c1
    Account = {founder, x}
    Community <- OneCommunity
    Bootstrappers <- OneBootstrapper
    NumLocations = 2
    MeetupSizeTarget = 2
    MeetupMinSize = 1
    MeetupNewbieLimitDivider = 1
    BootstrapperTickets = {1}
    ReputableTickets = {0}
    Timeouts = {0, 1}
    Lifetimes = {2}
    MaxIndex = 4
    Endorsable = {x}
    PurgeIndices = {}
INVARIANTS
    CountsVerified
    NoStaleHistory
PROPERTIES
    MeetupsFrozen
    WindowKept
    IdlePurge
CHECK_DEADLOCK FALSE
