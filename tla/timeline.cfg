SPECIFICATION Spec
CONSTANTS
    p1 = p1
    p2 = p2
    v1 = v1
    v2 = v2
    Publishers = {p1, p2}
    Savers = {v1}
    Clients = {1}
    Topics = {"session", "other"}
    Follows <- FollowsSome
    Afters <- NoneOrEarly
    HistoryLimit = 1
    Buffer = 1
    DiskFails = TRUE
    MaxSequence = 2
    MaxRestarts = 1
SYMMETRY TaskSymmetry
INVARIANTS
    TypeOK
    StreamInOrder
    HistoryContiguous
    MissedOnlyIfOvertaken
