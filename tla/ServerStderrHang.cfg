SPECIFICATION FairSpec
CONSTANTS
    Runs = {r1, r2}
    Closers = {}
    MaxWorkers = 2
    StderrLines = 1
    Faults <- NoFaults
PROPERTY RunsSettle
CHECK_DEADLOCK FALSE
