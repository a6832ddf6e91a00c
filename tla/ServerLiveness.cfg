SPECIFICATION FairSpec
CONSTANTS
    Runs = {r1, r2}
    Closers = {c1}
    MaxWorkers = 4
    StderrLines = 1
    Faults <- CleanFaults
PROPERTIES  CloseReturns CloseStopsWorker
CHECK_DEADLOCK FALSE
