SPECIFICATION FairSpec
CONSTANTS
    Policies = {"exit", "warn", "renew", "provider"}
    OnChanges = {"warn", "freeze", "kill"}
    MaxRenewals = 2
    MaxCrashes = 1
    FreezerInterrupts = TRUE
    ArmMayFail = TRUE
INVARIANTS
    FrozenWhileDeciding
PROPERTIES
    TtlSettles
CHECK_DEADLOCK FALSE
