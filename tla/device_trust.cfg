SPECIFICATION Spec
CONSTANTS
    t1 = t1
    t2 = t2
    Tasks = {t1, t2}
    MaxOffers = 1
    OfferTtls = {0}
    AccessTtl = 1
    HasSharedToken = FALSE
    LossyNetwork = TRUE
    DiskFails = TRUE
    MaxMinted = 6
    MaxTime = 1
    MaxRestarts = 1
SYMMETRY TaskSymmetry
INVARIANTS
    TypeOK
    IndicesMirrorDevices
    OwnerIsTheFlagged
    OfferUsedOnce
    HonestNeverReuses
    ClientRemembered
    RevocationSticks
