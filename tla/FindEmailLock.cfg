CONSTANTS
    Users = {u1}
    Emails = {e1, e2, e3}
    Links = {k1, k2, k3}
    Requests = {r1, r2}
    NoLink = NoLink
    MaxResend = 2
SPECIFICATION Spec
INVARIANTS
    VerifiedAddressProven
CHECK_DEADLOCK FALSE
