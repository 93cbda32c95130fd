SPECIFICATION Spec
CONSTANTS
    NumParticipants = 7
    Honest <- Four
    Lists <- OtherLists
    Votes <- OtherVotes
INVARIANTS
    HonestMajorityDecides
    EarlyPayoutIsFinal
    PaidHaveMet
CHECK_DEADLOCK FALSE
