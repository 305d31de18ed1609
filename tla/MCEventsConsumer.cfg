CONSTANTS
    j1 = j1
    j2 = j2
    j3 = j3
    w1 = w1
    w2 = w2
    None = None
    Workers = {w1}
    Jobs = {j1, j2, j3}
    Malformed = {j3}
    BatchSize = 2
    Concurrency = 2
    Attempts = 2
    MaxStalledCount = 1
    MaxFaults = 1
    MaxStops = 2
SPECIFICATION FairSpec
INVARIANTS
    TypeOK
    AckedIsDurable
    WaitersAreHeld
PROPERTIES
    DrainLeavesNoBatch
    DrainTerminates
    EveryJobSettles
