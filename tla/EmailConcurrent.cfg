CONSTANTS
    Users = {u1, u2}
    Emails = {e1, e2}
    Links = {k1, k2, k3, k4}
    Requests = {r1, r2}
    NoLink = NoLink
    MaxResend = 2
SPECIFICATION Spec
INVARIANTS
    TypeOK
    VerifiedUnlessOverlapped
    LockedHasFreshLink
SYMMETRY Interchangeable
CHECK_DEADLOCK FALSE
