SPECIFICATION DriveSpec
CONSTANTS
    Workers = {n1, n2, n3}
    NoWorker = NoWorker
    Threads = {h1, h2}
SYMMETRY WorkersAndThreadsAlike
INVARIANTS ServerLockExclusion
PROPERTIES RenamesOwnData DriveImplementsLockService
CHECK_DEADLOCK FALSE
