SPECIFICATION MCSpec
CONSTANTS
    Width = 2
    NOctets = 2
    MaxPort = 3
    Policies <- MCPolicies
    Requests <- MCRequests
    Answers <- MCAnswers
    SpecialUse <- MCSpecialUse
    MaxAddrs = 2
    Nil = Nil
    NPorts = 2
    Conduits = {c1, c2}
    Loopers = {l1, l2}
    None = None
    Cap = 1
    MaxStarts = 2
    Overlap = FALSE
    CloneFails = FALSE
    Rules <- MCRules
    Names <- MCNames
    DstPorts = {53, 443}
    SrcPorts = {1}
    MaxPool = 3
    MaxPerGrant = 2
    MaxFlows = 2
    Burst = 2
    PerSec = 4
    Second = 10
    IdleTimeout = 2
    MaxTick = 4
    MaxTime = 3
    MaxBatch = 2
    MaxDials = 4
    CPUs = {p1, p2}
    RingSize = 3
    Kinds <- MCKinds
    Levels = {"off", "denies", "summary", "full"}
    SinkOrder <- MCSinkOrder
    Failing = {}
    QueueCap = 1
    Limit = 1
    Retain = 1
    SameSecond = FALSE
    MaxEvents = 3
    Nothing = Nothing
INVARIANTS
    DecisionExact
    
    AddressStable
    BooksExact
    
    RingExact
    
SYMMETRY MCSymmetry
CHECK_DEADLOCK FALSE
