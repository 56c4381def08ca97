SPECIFICATION ExecutorSpec
CONSTANTS
    MaxTools = 3
    max_concurrency = 2
    HasTimeout = FALSE
INVARIANTS
    NonSafeAlone
