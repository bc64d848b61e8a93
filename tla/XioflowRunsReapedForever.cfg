SPECIFICATION FairSpec
CONSTANTS
    Runs = {r1}
    Tasks = {t1, t2}
    Dispatchers = {d1}
    Clients = {c1}
    Reapers = {p1}
    LastChance = {t2}
    MaxRetries <- MCMaxRetries
    MaxSevered = 1
    AnyKind = {r1}
    KindsOf <- MCKindsOf
    SchemaGaps = {}
    NoRun = NoRun
    NoTask = NoTask
PROPERTY RequeuedTaskIsRetried
CHECK_DEADLOCK FALSE
