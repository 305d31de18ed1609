CONSTANTS
    p1 = p1
    p2 = p2
    r1 = r1
    r2 = r2
    v1 = v1
    v2 = v2
    Absent = Absent
    Corrupt = Corrupt
    None = None
    Processes = {p1}
    Lookups = {r1, r2}
    Values = {v1}
    PositiveTtl = 2
    TombstoneTtl = 1
    MemoTtl = 1
    Patience = 0
    MaxLag = 1
    MaxAge = 6
    MaxEdits = 1
SPECIFICATION Spec
INVARIANTS
    ServedFresh
    InvalidationHolds
PROPERTY LookupsEnd
