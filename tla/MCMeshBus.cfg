SPECIFICATION FairSpec
CONSTANTS
    Threads = {1, 2, 3}
    NoThread = NoThread
    NoTx = NoTx
    Max = 2
    JoinUnderLock = TRUE
    SpawnMayFail = FALSE
    Consumers = {c1, c2}
    NoOne = NoOne
    Ctxs = {x1, x2}
    NoCtx = NoCtx
    CloneMayFail = TRUE
    BrokerMayDie = TRUE
    Sends = 2
INVARIANTS
    PoolBounded
    BusOutlivesHolders
    OwnPolicy

    
CHECK_DEADLOCK FALSE
