SPECIFICATION FairSpec
CONSTANTS
    Handles = {h1, h2, h3}
    NoTimer = NoTimer
    MaxBackoff = 2
    MaxChain = 2
INVARIANTS
    NoLostWakeup
PROPERTIES
    TicksKeepComing
CHECK_DEADLOCK FALSE
