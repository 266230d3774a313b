SPECIFICATION Spec
CONSTANTS
    Hour = 2
    Day = 4
    MaxTime = 5
    MaxInserts = 1
    MaxHorizon = 2
    Asked = {"multi"}
INVARIANTS
    DataLastsSevenDays
