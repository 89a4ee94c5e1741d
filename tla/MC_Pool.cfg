CONSTANTS
    t1 = t1
    t2 = t2
    Threads <- MCThreads
    BlocksPerSlab = 3
    LocalCacheLimit = 4
    MaxSlabs = 2
    Joined = TRUE
    Torn = FALSE
SYMMETRY ThreadSymmetry
SPECIFICATION PoolSpec
INVARIANTS
    OneOwner
    NoStaleBlock
    CachesBounded
