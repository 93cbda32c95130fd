SPECIFICATION EstablishedSpec
CONSTANTS
    founder = founder
    x = x
    y = y
    c1 = c1
    Account = {founder, x, y}
    Community <- OneCommunity
    Bootstrappers <- OneBootstrapper
    NumLocations = 2
    MeetupSizeTarget = 2
    MeetupMinSize = 1
    MeetupNewbieLimitDivider = 1
    BootstrapperTickets = {0}
    ReputableTickets = {0, 1}
    Timeouts = {1}
    Lifetimes = {0, 1}
    MaxIndex = 3
    Endorsable = {x, y}
    PurgeIndices = {2}
INVARIANTS
    RegistriesContinuous
    OneRegistration
    SeatsResolve
SYMMETRY Newcomers
CHECK_DEADLOCK FALSE
