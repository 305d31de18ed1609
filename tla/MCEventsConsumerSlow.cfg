CONSTANTS
    j1 = j1
    j2 = j2
    j3 = j3
    w1 = w1
    w2 = w2
    None = None
    Workers = {w1}
    Jobs = {j1, j2}
    Malformed = {}
    BatchSize = 2
    Concurrency = 2
    Attempts = 2
    MaxStalledCount = 1
    MaxFaults = 0
    MaxStops = 2
SPECIFICATION Spec
INVARIANT NeverLostInFailedSet
