SPECIFICATION FairTasksSpec
CONSTANTS
    MaxTools = 3
    max_concurrency = 2
    HasTimeout = TRUE
INVARIANTS
    TypeOK
    QueuedHasDriver
    StartedInOrder
    NonSafeInOrder
    AloneUnlessSamePass
    SleepsOnlyIfMissed
PROPERTIES
    NoneLetThroughAfterDiscard
    EveryCallAnswered
