SPECIFICATION FairSpec
CONSTANTS
    r1 = r1
    r2 = r2
    r3 = r3
    c1 = c1
    Runs = {r1, r2, r3}
    Closers = {}
    MaxWorkers = 3
    Faults <- CreateFault
PROPERTIES RunsSettle
CHECK_DEADLOCK FALSE
