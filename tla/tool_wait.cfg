SPECIFICATION FairWaitSpec
CONSTANTS
    MaxTools = 1
    max_concurrency = 1
    HasTimeout = TRUE
PROPERTIES
    WaitReturns
