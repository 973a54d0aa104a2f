SPECIFICATION FairSpec
CONSTANTS
    c1 = c1
    c2 = c2
    q1 = q1
    q2 = q2
    s1 = s1
    a = a
    b = b
    Conns = {c1}
    Spawned = {q1, q2}
    Stops = {s1}
    PlainNames = {a, b}
    Ids = {q1, q2}
    OperatorNames = {a}
    MaxCtx = 2
    MaxInstances = 1
    LateLooper = FALSE
    NoRun = NoRun
    NoName = NoName
INVARIANTS
    
    SlotsExact
PROPERTIES
    
    StopTakesEffect
CHECK_DEADLOCK FALSE
