SPECIFICATION Spec
CONSTANTS
    Hour = 3600
    Day = 86400
    Rows <- MCRows
    Readings <- MCReadings
    Services = {"shop"}
    Instants <- MCInstants
    Conditions <- MCConditions
    Intervals <- MCIntervals
    Asked = {"multi", "hour"}
    Now = 172920
INVARIANTS
    FlamegraphMatchesSummary
    PartsAddUp
    OfferedValuesMatch
