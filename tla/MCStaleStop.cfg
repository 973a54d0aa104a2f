SPECIFICATION Spec
CONSTANTS
    c1 = c1
    c2 = c2
    q1 = q1
    q2 = q2
    s1 = s1
    a = a
    b = b
    Conns = {c1, c2}
    Spawned = {}
    Stops = {s1}
    PlainNames = {a, b}
    Ids = {q1, q2}
    OperatorNames = {a, b}
    MaxCtx = 2
    MaxInstances = 1
    LateLooper = FALSE
    NoRun = NoRun
    NoName = NoName
PROPERTY
    StopKillsOnlyNamed
CHECK_DEADLOCK FALSE
