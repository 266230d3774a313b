SPECIFICATION StreamSpec
CONSTANTS
    Frames = {"main", "read", "write", "flush"}
    NoFrame = ""
    Parent <- MCParent
    MaxSamples = 3
INVARIANTS
    AnswerAddsUp
PROPERTIES
    StreamSettles
CHECK_DEADLOCK FALSE
