CONSTANTS
    MaxRuns = 2
    MaxKids = 1
    TimedRuns = {1}
    PipeMayBreak = TRUE
SPECIFICATION MCSpec
CHECK_DEADLOCK FALSE
INVARIANTS
    RowsFollowProcesses
    LaunchesAlone
PROPERTIES
    LaunchEnds
    TargetEndNoticed
    EtwStopsAtTheEnd
