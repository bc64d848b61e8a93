SPECIFICATION Spec
CONSTANTS
    Sessions = {s1, s2}
    MaxLaunches = 2
    MaxSessions = 1
    Threshold = 2
    MaxEvents = 2
INVARIANTS CapacityIsKept OneChromePerSession OwnGuardRuns
PROPERTIES RemovedForACause ProxyLossEndsSession
CHECK_DEADLOCK FALSE
