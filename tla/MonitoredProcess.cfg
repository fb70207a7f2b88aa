CONSTANTS
    Threads = {t1, t2}
    AgentThread = agent
    Nobody = Nobody
    Kinds = {"root", "child"}
    PipeSize = 2
    MaxCalls = 2
    Statuses = 1
    MayFail = TRUE
    Loaders = {u1, u2}
    Pinned = {"kernel32"}
    SslModules = {"libssl", "libssl-3"}
    EarlyApis <- MCEarlyApis
    LateApis <- MCLateApis
    LoadLibrary <- MCLoadLibrary
    Installer = agent
SPECIFICATION HalfSpec
CHECK_DEADLOCK FALSE
INVARIANTS
    WholeMessages
    ServedMeansTracing
    NothingMissed
    HookedIsActive
    RemovalComplete
PROPERTIES
    DetourReturns
    HooksRemoved
