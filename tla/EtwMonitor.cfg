CONSTANTS
    target = target
    child = child
    stranger = stranger
    Pids <- MCPids
    NoPid = NoPid
    Root = target
    Parent <- MCParent
    MaxEvents = 2
    Evicted = 1
    MaxProduced = 3
    MaxStarts = 2
SPECIFICATION MCSpec
CHECK_DEADLOCK FALSE
INVARIANTS
    QuiescentIsStopped
    TargetEventsKept
    AtMostOneStray
PROPERTY StopEnds
