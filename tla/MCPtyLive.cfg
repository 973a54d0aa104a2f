SPECIFICATION FairSpec
CONSTANTS
    Clients = {c1, c2}
    RunClient = None
    None = None
    Stalled = {}
    RingCap = 2
    SockCap = 1
    PtyCap = 1
    MaxOut = 1
    Typists = {}
    MaxIn = 0
PROPERTIES
    SessionsEnd
    
CHECK_DEADLOCK FALSE
