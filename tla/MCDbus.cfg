SPECIFICATION DbusSpec
CONSTANTS
    s1 = s1
    s2 = s2
    Sessions = {s1, s2}
    Calls <- MCCalls
    Hello <- MCHello
    Signals <- MCSignals
    REFUSE_TO_BROKER <- MCRefused
    Rules <- MCRules
    BigEndian = {}
    Silent = {}
    BusDrops = TRUE
    NCalls <- MCNCalls
    MaxSignals <- MCMaxSignals
    SockCap = 1
    HighWater = 1
    MaxSerial = 3
    None = None
INVARIANTS
    RepliesMatched

    
CHECK_DEADLOCK FALSE
