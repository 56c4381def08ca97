SPECIFICATION Spec
CONSTANTS
    p1 = p1
    p2 = p2
    v1 = v1
    v2 = v2
    Publishers = {p1, p2}
    Savers = {v1}
    Clients = {}
    Topics = {"session"}
    Follows <- FollowsSome
    Afters = {0}
    HistoryLimit = 2
    Buffer = 2
    DiskFails = FALSE
    MaxSequence = 3
    MaxRestarts = 1
INVARIANTS
    AckedStored
