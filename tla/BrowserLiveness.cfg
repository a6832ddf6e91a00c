SPECIFICATION FairSpec
CONSTANTS
    r1 = r1
    r2 = r2
    r3 = r3
    c1 = c1
    Runs = {r1, r2}
    Closers = {c1}
    MaxWorkers = 2
    Faults <- AllFaults
PROPERTIES  KeepsContract
CHECK_DEADLOCK FALSE
