CONSTANTS
    Threads = {t1}
    AgentThread = agent
    Nobody = Nobody
    Kinds = {"child"}
    PipeSize = 2
    MaxCalls = 1
    Statuses = 1
    MayFail = FALSE
SPECIFICATION Spec
CHECK_DEADLOCK FALSE
PROPERTY ArmedIsMonitored
