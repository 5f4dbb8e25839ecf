SPECIFICATION Spec
CONSTANTS
    c1 = c1
    c2 = c2
    c3 = c3
    Cycle = {c1, c2, c3}
    Cost <- CycleCost
    Policies <- TwoPolicies
    FirstPolicy <- Loose
    Window = 2
    Service = Service
    Operators = {o1}
    NoCycle = NoCycle
    NoLock = NoLock
    Attempts = 2
    CrashPoints <- OneContender
    Restarting = {Service}
    MaxTime = 3
    MaxRevision = 3
    MaxCrashes = 1
    MaxClockSteps = 1
INVARIANTS
    CapsHonoured
    ExecutedOnce
    ReportedKillInForce
PROPERTIES
    KillHolds
CHECK_DEADLOCK FALSE
