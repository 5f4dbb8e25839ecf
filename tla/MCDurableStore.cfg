SPECIFICATION Spec
CONSTANTS
    Process = {p1}
    NoProcess = NoProcess
    Cycle = {c1, c2}
    NoCycle = NoCycle
    Evidence = {e1}
    GlobalKey = {k1}
    StoreCycles = 2
    FailPoints = {"index", "archiveIndex", "archiveUnlink"}
    MaxJournal = 2
    MaxPending = 2
    MaxFailures = 1
SYMMETRY CycleSymmetry
INVARIANTS
    TypeOK
PROPERTIES
    JournalAppendOnly
