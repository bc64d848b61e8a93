SPECIFICATION RouterFairSpec
CONSTANTS
    TriggerEvents = {e1, e2}
    Rejected = {e2}
    Workers = {w1, w2}
    ManualFire = TRUE
    SelectLimit = 2
    Window = 2
    MaxTime = 2
PROPERTIES NoRunAfterAnswer EventIsAnswered
CHECK_DEADLOCK FALSE
