SPECIFICATION FairSpec
CONSTANTS
    Triggers = {g1}
    Workers = {w1, w2}
    Clients = {c1}
    Period = 2
    Skew = 0
    Limit = 2
    MaxTime = 4
INVARIANTS OncePerSlot
PROPERTY DueTriggerFires
CHECK_DEADLOCK FALSE
