SPECIFICATION Spec
SYMMETRY Symmetric
CONSTANTS
    Runners = {p1, p2}
    MonthsAhead = 1
    MaxMonth = 2
    Edited = {3}
    MaxEdits = 1
    Heap <- MCHeap
    Lower <- MCLower
    Forbidden = {"ip", "cookie"}
    MaxDepth = 3
    Sends = {"s1", "s2", "s3"}
    PayloadOf <- MCPayloadOf
    Retention = 2
    CleanLimit = 1
    Throttle = 1
    MaxTime = 3
INVARIANTS DbTypeOK TrackedIsApplied RowsLandInTheirMonth NoForbiddenValueStored KeptForTheWindow
PROPERTY AppliedIsNeverEdited
CHECK_DEADLOCK FALSE
