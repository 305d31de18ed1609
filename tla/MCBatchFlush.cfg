CONSTANTS
    e1 = e1
    e2 = e2
    e3 = e3
    e4 = e4
    e5 = e5
    Events = {e1, e2, e3, e4, e5}
    Poison = {e2, e4}
    Calls = {b1}
    Batches <- OneCallBatches
    MaxAttemptsPerBatch = 2
    MaxPutAttempts = 2
    MaxFaults = 3
    MaxEdits = 1
SPECIFICATION FairSpec
INVARIANTS
    TypeOK
    PoisonCostsOneRow
    PoisonIsProven
PROPERTIES
    LogKeepsEveryEvent
    EveryStepAdvances
    EveryFlushSettles
