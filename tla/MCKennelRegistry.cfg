SPECIFICATION Spec
CONSTANTS
    c1 = c1
    c2 = c2
    q1 = q1
    q2 = q2
    s1 = s1
    a = a
    b = b
    Conns = {c1, c2}
    Spawned = {q1}
    Stops = {}
    PlainNames = {a}
    Ids = {q1, q2}
    OperatorNames <- MCOperatorNames
    MaxCtx = 2
    MaxInstances = 1
    LateLooper = TRUE
    NoRun = NoRun
    NoName = NoName
SYMMETRY RegistrySymmetry
INVARIANTS
    RegistryConsistent
    EntriesAccounted
    OneWorkloadPerCgroup
PROPERTY
    PoolSpec
CHECK_DEADLOCK FALSE
