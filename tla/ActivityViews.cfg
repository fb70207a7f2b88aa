SPECIFICATION Spec
CONSTANTS
    Paths = {p, q}
    Handles = {h, k}
    Chunks <- MCChunks
    CaptureLimit = 1
    MaxCalls = 7
    MaxSize = 2
    RowPids = {x, y}
    Window = 1
    MaxClock = 2
    MaxProcesses = 2
    Root = "HKCU"
    Keys <- MCKeys
    KeyHandles = {hk, kk}
    KeyData = {d}
    RegThreads = {t, u}
    MaxRegCalls = 4
SYMMETRY Symmetry
INVARIANTS
    ReconstructionExact
    OneRowPerProcess
    FinalStateTrue
CHECK_DEADLOCK FALSE
