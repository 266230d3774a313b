SPECIFICATION Spec
CONSTANTS
    Hashes = {1, 2, 3, 4}
    Chunks = {c1, c2}
    MaxSelf = 1
    ChunkLimit = 2
    StacksNum = 3
    MaxIters = 1
SYMMETRY ChunkSymmetry
INVARIANTS
    TypeOK
    NeverOvercounts
    ChildWithinParent
    AncestorsComplete
    ExactWhenUncut
