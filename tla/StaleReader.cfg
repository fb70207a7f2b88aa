CONSTANTS
    MaxRuns = 2
    MaxKids = 0
    TimedRuns = {}
    PipeMayBreak = FALSE
SPECIFICATION Spec
CHECK_DEADLOCK FALSE
PROPERTY ReportedTargetExited
