SPECIFICATION Spec
CONSTANTS
    t1 = t1
    t2 = t2
    Runners = {1}
    Sessions = {1}
    Approvals = {1, 2}
    Tasks = {t1, t2}
    PullRunners = {1}
    Eligible <- EveryRunner
    Capacity <- OneEach
    LeaseTtl = 1
    MaxTotalSessions = 1
    MaxCommandsPerRunner = 1
    MaxApprovalsPerSession = 2
    MaxDispatchIterations = 1
    ClientStates = {"Completed"}
    Heartbeats = {}
INVARIANTS
    WaitingHasPending
