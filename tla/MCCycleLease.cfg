SPECIFICATION FairSpec
CONSTANTS
    Process = {p1, p2}
    NoProcess = NoProcess
    NoLease = NoLease
    TTL = 2
    CrashPoints <- OutsideTheLock
    MaxTime = 5
    MaxVersion = 3
    MaxCrashes = 1
INVARIANTS
    AtMostOneLive
PROPERTIES
    LeaseWindowsDisjoint
    ExpiredLeaseIsRecovered
CHECK_DEADLOCK FALSE
