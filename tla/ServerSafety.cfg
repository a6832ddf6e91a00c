SPECIFICATION Spec
CONSTANTS
    Runs = {r1, r2}
    Closers = {c1, c2}
    MaxWorkers = 2
    StderrLines = 2
    Faults <- AllFaults
SYMMETRY CallSymmetry
INVARIANTS TypeOK OneWorker PendingIsCurrent NoLostRun OwnAnswer
PROPERTY KeepsContract
CHECK_DEADLOCK FALSE
