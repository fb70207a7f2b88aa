CONSTANTS
    MaxToken = 2
    NChunks = 1
    ExecutableChunks = {}
    Contents = {"as loaded", "written"}
    Loaded = "as loaded"
    PassLimit = 1
    MaxRows = 2
    Files = {f1, f2}
    None = None
    MaxRequests = 5
    Roots = {r1, r2}
    Keys = {k1, k2}
    MaxItems = 2
    KeepRows = 2
    MaxGaps = 1
SPECIFICATION Spec
CHECK_DEADLOCK FALSE
INVARIANTS
    OneLateMerge
    ShownIsSelected
    CancelledHandlesOpen
    WatchersTellHistory
PROPERTIES
    WhatStandsIsRecovered
    StoppedWorkersEnd
