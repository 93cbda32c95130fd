SPECIFICATION FairSpec
CONSTANTS
    c1 = c1
    Account = {1, 2, 3}
    Community = {c1}
    Queue <- MCQueue
    Keys <- OneKey
    Meetups <- MCMeetups
    Initiable = {1}
    MaxLevels = 2
    MaxRingSize = 2
    ReputationLifetime = 2
    MaxIndex = 4
INVARIANTS
    RingsNested
    RingsSound
PROPERTIES
    RingsComplete
    QueueDrains
CHECK_DEADLOCK FALSE
