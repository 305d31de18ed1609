SPECIFICATION Spec
CONSTANTS
    Runs = {r1}
    Requests <- RangeRequests
    Log <- MCLog
    Archived = {1, 3, 4}
    Events = {"e1", "e2", "e3", "e4"}
    DayOf <- MCDayOf
    Hosts = {"h4"}
    TenantOf <- MCTenantOf
    AnyTenant = "any"
    NewHost = "h3"
    PageSize = 1
    MaxBatch = 2
    MaxDays = 2
    MaxLosses = 1
INVARIANT RangeIsRebuilt
CHECK_DEADLOCK FALSE
