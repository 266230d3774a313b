SPECIFICATION Spec
CONSTANTS
    r1 = r1
    r2 = r2
    r3 = r3
    n1 = n1
    n2 = n2
    Requests = {r1, r2, r3}
    Workers = {w1, w2}
    Names = {n1, n2}
    FileOf <- MCFileOf
    Depth = 1
    MaxRestarts = 1
    Shutdown = {"cancel", "close"}
    NoFile = NoFile
    NoTask = NoTask
PROPERTIES
    UndoRemovesOwnFile
