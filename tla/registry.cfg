SPECIFICATION Spec
CONSTANTS
    t1 = t1
    t2 = t2
    Runners = {1, 2}
    Sessions = {1}
    Approvals = {1}
    Tasks = {t1, t2}
    PullRunners = {1}
    Eligible <- EveryRunner
    Capacity <- OneEach
    LeaseTtl = 1
    MaxTotalSessions = 1
    MaxCommandsPerRunner = 1
    MaxApprovalsPerSession = 1
    MaxDispatchIterations = 1
    ClientStates = {"Pending"}
    Heartbeats <- Beats
SYMMETRY TaskSymmetry
INVARIANTS
    TypeOK
    IndexMirrorsOwner
    DecisionCommandsAgree
PROPERTIES
    OwnerTakenOnlyFromSilent
    CountsFollowSessions
    ApprovalDecidedOnce
