CONSTANTS
    Account = {1, 2, 3, 4}
    op1 = op1
    op2 = op2
    Op = {op1, op2}
    NoPredecessor = none
    Predecessor <- MCPredecessor
    Role <- MCRole
    DEFAULT_ADMIN_ROLE = "default"
    InitialRoles <- MCRoles
    Selector = {0, 7}
    Selectors <- MCSelectors
    Delays = {0, 2}
    RoleChanges <- MCRoleChanges
    StartTime = 2
    MaxUint64 = 5
    MaxTime = 4
    MaxBypass = 1
SPECIFICATION Spec
INVARIANTS
    EveryEntryEnumerable
    ExecutedAsBooked
    ExecutedOnce
    PredecessorsFirst
    BlockedAfterBooking
PROPERTIES
    LifecycleSpec
