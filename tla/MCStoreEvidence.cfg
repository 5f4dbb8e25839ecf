SPECIFICATION Spec
CONSTANTS
    Process = {p1, p2}
    NoProcess = NoProcess
    Cycle = {c1, c2}
    NoCycle = NoCycle
    Evidence = {e1}
    GlobalKey = {}
    StoreCycles = 2
    FailPoints = {"journal", "archiveIndex", "archiveUnlink"}
    MaxJournal = 1
    MaxPending = 2
    MaxFailures = 1
SYMMETRY StoreSymmetry
INVARIANTS
    EvidenceConsumedOnce
    IndexCoversJournal
