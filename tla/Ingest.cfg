SPECIFICATION Spec
CONSTANTS
    r1 = r1
    r2 = r2
    r3 = r3
    Requests = {r1, r2, r3}
    Workers = {w1}
    Depth = 1
    MaxRestarts = 1
    NoFile = NoFile
    NoTask = NoTask
    InCap = 1
    WriteBatchSize = 2
    Kind <- MCKind
    NStacks <- MCNStacks
    HasMetrics <- MCHasMetrics
INVARIANTS
    TypeOK
    NoSilentLoss
    MetricsBelowLimit
PROPERTIES
    ImplementsDelivery
