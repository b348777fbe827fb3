CONSTANTS
    Events = {v1, v2, v3}
    Requests = {r1, r2}
    Ops <- SomeOps
    Categories = {"all", "account"}
    Searches <- SomeSearches
    PageSize = 1
    MaxClock = 2
SPECIFICATION Spec
INVARIANTS
    TypeOK
    ChangesAreReported
    WalkMissesNothing
SYMMETRY Interchangeable
CHECK_DEADLOCK FALSE
