SPECIFICATION FairSpec
CONSTANTS
    N = 2
    Window = 2
    MaxRetries = 1
    Faults = {"crash", "drop", "foreign", "reorg"}
    MaxFaults = 2
INVARIANTS
    PaidOnce
    OutcomeFinal
    LiabilityBacked
PROPERTY
    SettlesUnlessWedged
CHECK_DEADLOCK FALSE
