SPECIFICATION FairSpec
CONSTANTS
    a1 = a1
    a2 = a2
    c1 = c1
    c2 = c2
    Global = Global
    Account = {a1, a2}
    Community = {c1}
    Actions <- MCActions
    MinTurnout = 500
    TieApproves = FALSE
    ConfirmationPeriod = 1
    ProposalLifetime = 3
    QueueLimit = 1
    ReputationLifetime = 3
    PhaseDurations <- MCPhaseDurations
    FirstIndex = 4
    Past <- MCPast
    Meetups <- MCMeetups
    InactivityTimeout = 1
    Ballots <- MCBallots
    Committable <- MCCommittable
    MaxProposals = 2
    MaxPurposes = 2
    MaxNow = 4
INVARIANTS
    OneVotePerReputation
    TurnoutWithinElectorate
    ElectorateConstant
PROPERTIES
    ApprovalConfirmed
    QueuedSettles
CHECK_DEADLOCK FALSE
