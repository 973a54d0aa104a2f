SPECIFICATION Spec
CONSTANTS
    Clients = {c1, c2}
    RunClient = c1
    None = None
    Stalled = {}
    RingCap = 2
    SockCap = 1
    PtyCap = 1
    MaxOut = 3
    Typists = {c1}
    MaxIn = 2
INVARIANTS
    StreamUnbroken
    SupersededIsCut
CHECK_DEADLOCK FALSE
