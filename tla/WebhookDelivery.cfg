SPECIFICATION FairSpec
CONSTANTS
    NumEvents = 3
    Blank = {1}
    Broken = {2}
    Dispatchers = {d1, d2}
    MaxAttempts = 2
    Limit = 2
    MaxRollbacks = 1
INVARIANTS AttemptsBounded RepeatsHaveACause
PROPERTIES GivenUpIsFinal EveryDispatchSettles
CHECK_DEADLOCK FALSE
