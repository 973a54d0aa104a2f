\* Compiles of an entry over two templates and two fragments, and up to two
\* changes of the spawn target afterwards.
SPECIFICATION MCSpec
CONSTANTS
    Inputs <- MCInputs
    Targets <- MCTargets
    RequiredTier <- MCRequiredTier
    NoName = NoName
    NoScalar = NoScalar
    NoTarget = NoTarget
    BaseName = "base-confined"
    Mandatory = meta
    MaxChainDepth = 3
    PatchFields = {"argv", "read", "write"}
    MaxPublishes = 2
    meta = meta
    d1 = d1
    d2 = d2
    k1 = k1
    r1 = r1
    r2 = r2
    f1 = f1
    f2 = f2
    NumIds = 2
    Policies <- MCPolicies
    NoLink = NoLink
    NoKey = NoKey
    Nobody = Nobody
    Tables <- MCTables
    ConsumeLists <- MCConsumeLists
    MaxChanges <- MCMaxChanges
CHECK_DEADLOCK FALSE
INVARIANTS
    FloorsKept
    ReservedByAuthority
    SpawnedAsPinned
    SelectionExact
    
PROPERTY
    IncludesKeepProxy
