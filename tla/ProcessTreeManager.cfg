CONSTANTS
    p1 = p1
    p2 = p2
    ctl = ctl
    Pids <- MCPids
    NoPid = NoPid
    ControllerPid = ctl
    InstrumentRoot = {TRUE, FALSE}
    Decisions = {"InjectAndMonitor", "LogCommandOnly"}
    MaxNodes = 3
    MaxSaved = 1
    MaxSessions = 2
SYMMETRY MCSymmetry
SPECIFICATION Spec
INVARIANTS
    LivePidsUnique
    DescendsFromRoot
    PendingIsLive
    SetsMatchRows
    OnePrimary
PROPERTY ImplementsHistory
