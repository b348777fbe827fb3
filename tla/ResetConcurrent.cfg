CONSTANTS
    Users = {u1}
    Links = {k1, k2, k3, k4}
    Requests = {r1, r2, r3}
    NoLink = NoLink
SPECIFICATION Spec
INVARIANTS
    TypeOK
    LinksBoundedByOverlap
    UsesBoundedByOverlap
SYMMETRY Interchangeable
