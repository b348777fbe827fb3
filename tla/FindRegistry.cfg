CONSTANTS
    Nids = {n1}
    Fins = {f1}
    Emails = {e1, e2}
    Pids = {p1, p2}
    NoPid = NoPid
    Requests = {r1, r2}
SPECIFICATION Spec
INVARIANT NotFoundMeansAbsent
