CONSTANTS
    Attempts = 2
    Pids = {p1}
    NoPid = NoPid
    Agents = {a1, a2}
    MaxLoad = 3
SPECIFICATION PartSpec
CHECK_DEADLOCK FALSE
INVARIANTS
    CleanOutcome
    NotFreedInUse
    AskedIsListened
    ServedAreConfigured
    ExitDetachesAll
PROPERTIES
    LaunchesEnd
    RegisteredIsServed
    StoppedListenersEnd
