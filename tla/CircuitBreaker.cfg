SPECIFICATION FairSpec
CONSTANTS
    Nodes = {n1, n2, n3, n4, n5}
    FailureThreshold = 3
    Silent = {n4, n5}
    NoNode = NoNode
INVARIANTS CountTellsState
PROPERTY RefusalIsTemporary
CHECK_DEADLOCK FALSE
