SPECIFICATION FairSpec
CONSTANTS
    Runs = {r1, r2}
    Closers = {c1}
    MaxWorkers = 4
    StderrLines = 2
    Faults <- NoFaults
PROPERTY RunsSettle
CHECK_DEADLOCK FALSE
