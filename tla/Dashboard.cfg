SPECIFICATION Spec
CONSTANTS
    Rows <- MCRows
    Filters <- MCFilters
    Group <- MCGroup
    Ranges = {1, 2}
    Stacks = {1000, 10000}
    Opening <- MCOpening
    Views = {"samples", "cpu"}
    Charts = {"graph"}
    MaxEvents = 2
    MaxRuns = 6
INVARIANTS
    FiltersAreOffered
    RestShowsTheChoice
PROPERTIES
    AnswersOnlyPrune
    ComesToRest
CHECK_DEADLOCK FALSE
