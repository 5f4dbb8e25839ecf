SPECIFICATION Spec
CONSTANTS
    Addresses = {a1, a2}
    ZeroAddress = ZeroAddress
    HookAddress = HookAddress
    RotationDelay = 1
    Cycles = {c1, c2}
    Amounts = {51}
    NewLimits = {102}
    Window = 2
    MaxCount = 2
    FirstLimit = 51
    LimitMax = 102
    SwapAmounts = {4800}
    NetAmounts = {4656}
    ClaimAmounts = {}
    Donations = {1}
    MaxVolume = 4800
    MaxBalance = 1
    MaxTime = 2
SYMMETRY HookSymmetry
INVARIANTS
    TreasuryLiabilityClaimable
PROPERTIES
    ProcessOutflowCapped
    ImplementsFees
    ImplementsRoles
    ImplementsClaimWindow
    NoProcessPaymentDuringRotation
CHECK_DEADLOCK FALSE
