CONSTANTS
    e1 = e1
    e2 = e2
    e3 = e3
    e4 = e4
    e5 = e5
    Events = {e1, e2, e3}
    Poison = {e2}
    Calls = {b1, b2}
    Batches <- TwoCallsBatches
    MaxAttemptsPerBatch = 2
    MaxPutAttempts = 2
    MaxFaults = 2
    MaxEdits = 1
SYMMETRY CallSymmetry
SPECIFICATION Spec
INVARIANT RowsAreLogged
PROPERTIES KeepsContract InsertedAsLogged
