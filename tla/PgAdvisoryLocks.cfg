SPECIFICATION Spec
CONSTANTS
    Nodes = {n1, n2}
    Procs = {p1, p2}
    Handlers = {h1, h2, h3}
    Conns = {c1, c2, c3}
    NoConn = NoConn
    NoNode = NoNode
    Faults = {"drop", "restart", "resend"}
INVARIANTS MutualExclusion NoOrphanLock
PROPERTIES ImplementsLockService
CHECK_DEADLOCK FALSE
