SPECIFICATION Spec
CONSTANTS
    Workers = {w1, w2}
    Pinned = {w1, w2}
    MaxSlots = 2
    Target = 1
    BatchSize = 3
    MaxEvents = 1
    MaxAsked = 1
    Health = Health
    NoWorker = NoWorker
    NoTx = NoTx
INVARIANTS OneWorkerPerExit RouteAsRecorded
PROPERTIES EvictorHadParted
CHECK_DEADLOCK FALSE
SYMMETRY Symmetry
