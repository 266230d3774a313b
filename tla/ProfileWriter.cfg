SPECIFICATION Spec
CONSTANTS
    b1 = b1
    b2 = b2
    b3 = b3
    Blocks = {b1, b2, b3}
    NStacks <- MCNStacks
    HasMetrics <- MCHasMetrics
    InCap = 2
    WriteBatchSize = 2
    Cancellable = TRUE
INVARIANTS
    TypeOK
    BatchBelowLimit
    InsertedAtMostOnce
    ReceivedRowsAccounted
    ClosedInputIsDrained
    ReturnLeavesNoRow
PROPERTIES
    SentIsWritten
