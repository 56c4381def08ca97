SPECIFICATION FairBufferSpec
CONSTANTS
    Posters = {stdout, exit}
    MaxEvents = 3
    Cap = 2
INVARIANTS
    TypeOK EachEventAccounted OldestDropped
PROPERTIES
    OvertakesOnlyAfterFailedFlush RecoveredFlushed DeliveryImplemented
\* A session whose posters have nothing left to post is at rest.
CHECK_DEADLOCK FALSE
