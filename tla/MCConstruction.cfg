\* Bring-up of one kennel with up to two faults anywhere.  A kennel ends, so a
\* state without a successor is normal; BringUpSettles catches one that hangs.
SPECIFICATION FairSpec
CONSTANTS
    Policies <- MCPolicies
    MaxFaults = 2
CHECK_DEADLOCK FALSE
INVARIANTS
    ConfinedWorkload
    WorkloadHasItsServices
    CapturedBeforeShadowed
PROPERTIES
    BringUpSettles
