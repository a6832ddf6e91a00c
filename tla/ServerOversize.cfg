SPECIFICATION Spec
CONSTANTS
    Runs = {r1, r2}
    Closers = {}
    MaxWorkers = 2
    StderrLines = 2
    Faults <- OversizeOnly
INVARIANT OversizedFailsClosed
CHECK_DEADLOCK FALSE
