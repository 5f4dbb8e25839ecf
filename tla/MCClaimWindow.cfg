SPECIFICATION WindowSpec
CONSTANTS
    Cycles = {c1, c2, c3, c4}
    Amounts = {1, 2}
    NewLimits = {0, 2, 3, 4}
    Window = 2
    MaxCount = 2
    FirstLimit = 2
    LimitMax = 3
    MaxTime = 6
SYMMETRY CycleSymmetry
INVARIANTS
    TrailingWindowCapped
    UsageIsTrailingWindow
    ViewMatchesClaim
PROPERTY RaiseWaitsAWindow
CHECK_DEADLOCK FALSE
