SPECIFICATION HostSpec
CONSTANTS
    s1 = s1
    Sessions = {s1}
    Requests = {r1}
    SessionOf <- AllOfFirst
    MaxParallel = 1
    ChannelCap = 1
    ClientStates = {"Cancelled"}
    AgentStates = {"Running"}
    MaxDispatches = 2
    MaxUpdates = 1
INVARIANTS
    TypeOK AnsweredOnceAsDecided SilenceHasCause CapacityHeldByAgents
PROPERTIES
    MissedOnlyInWindow
CHECK_DEADLOCK FALSE
