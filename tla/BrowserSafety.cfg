SPECIFICATION Spec
CONSTANTS
    r1 = r1
    r2 = r2
    r3 = r3
    c1 = c1
    Runs = {r1, r2, r3}
    Closers = {}
    MaxWorkers = 2
    Faults <- AllFaults
SYMMETRY CallSymmetry
INVARIANTS TypeOK HealthyWorkerOwned 
PROPERTIES FailsWithItsWorker
CHECK_DEADLOCK FALSE
