SPECIFICATION RolesFairSpec
CONSTANTS
    Addresses = {a1, a2, a3}
    ZeroAddress = ZeroAddress
    HookAddress = HookAddress
    RotationDelay = 2
    MaxTime = 5
INVARIANTS
    RotationNeverStale
    ProposalsAreCurrent
PROPERTIES
    RotationOnlyAfterPausedDelay
    RotationCompletes
CHECK_DEADLOCK FALSE
