SPECIFICATION Spec
CONSTANTS
    Hour = 2
    Day = 4
    MaxTime = 11
    MaxInserts = 1
    MaxHorizon = 1
    Asked = {"multi", "hour"}
INVARIANTS
    TypeOK
    NoSampleTwice
    NoSampleMissed
    FramesAreNamed
