CONSTANTS
    Keys = {k1, k2, k3}
    NoKey = NoKey
    Requests = {r1, r2, r3}
    Inputs <- SomeInputs
SPECIFICATION Spec
INVARIANTS
    TypeOK
    MissingImageHasCulprit
    StoredBoundedByFaults
    UntouchedFieldKept
SYMMETRY Interchangeable
CHECK_DEADLOCK FALSE
