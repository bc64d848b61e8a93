SPECIFICATION DispatcherSpec
CONSTANTS
    Runs = {r1, r2}
    Tasks = {t1, t2}
    Dispatchers = {d1, d2}
    Clients = {c1}
    Reapers = {p1}
    LastChance = {t2}
    MaxRetries <- MCMaxRetries
    MaxSevered = 1
    AnyKind = {r1}
    KindsOf <- MCKindsOf
    SchemaGaps = {}
    NoRun = NoRun
    NoTask = NoTask
INVARIANTS TypeOK AtMostOneTask OnlySeveredDuplicates NoLostUpdate OutcomeAgrees FailureIsDeadLettered DeadLetterIsFinal
PROPERTIES TerminalImmutable ImplementsLifecycle UntracedRunEnds
CHECK_DEADLOCK FALSE
