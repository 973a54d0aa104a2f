SPECIFICATION FairSpec
CONSTANTS
    Threads = {t1, t2}
    Consumers = {c1}
    None = None
    Enablements = {"ondemand", "autorun"}
    Restarts = {"on-failure"}
    MaxAttempts = 1
    MaxOps = 1
INVARIANTS
    GuardHasThread
    ReadyBacked
PROPERTIES
    ConnectAnswered
CHECK_DEADLOCK FALSE
