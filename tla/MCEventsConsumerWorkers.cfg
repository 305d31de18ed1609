CONSTANTS
    j1 = j1
    j2 = j2
    j3 = j3
    w1 = w1
    w2 = w2
    None = None
    Workers = {w1, w2}
    Jobs = {j1, j2}
    Malformed = {j2}
    BatchSize = 2
    Concurrency = 2
    Attempts = 2
    MaxStalledCount = 1
    MaxFaults = 2
    MaxStops = 2
SPECIFICATION Spec
SYMMETRY WorkerSymmetry
INVARIANT ExhaustedIsOver
PROPERTY KeepsPromise
