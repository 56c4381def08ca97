SPECIFICATION HostSpec
CONSTANTS
    s1 = s1
    Sessions = {s1, s2}
    Requests = {}
    SessionOf <- AllOfFirst
    MaxParallel = 2
    ChannelCap = 2
    ClientStates = {}
    AgentStates = {}
    MaxDispatches = 2
    MaxUpdates = 0
INVARIANTS
    TasksKept
CHECK_DEADLOCK FALSE
