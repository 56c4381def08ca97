SPECIFICATION FairSpec
CONSTANTS
    Runners = {1, 2}
    Sessions = {1, 2}
    Approvals = {}
    Tasks = {1, 2}
    PullRunners = {1, 2}
    Eligible <- EveryRunner
    Capacity <- TwoEach
    LeaseTtl = 2
    MaxTotalSessions = 2
    MaxCommandsPerRunner = 1
    MaxApprovalsPerSession = 1
    MaxDispatchIterations = 1
    ClientStates = {}
    Heartbeats <- Beats
    Reliable = {2}
PROPERTIES
    PendingDispatched
    SilentRunnerReaped
