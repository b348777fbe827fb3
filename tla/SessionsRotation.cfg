CONSTANTS
    Users = {u1}
    Tokens = {t1, t2, t3}
    Requests = {r1, r2}
    NoToken = NoToken
    NoRequest = NoRequest
    MaxPassword = 0
    Calls = {"login", "refresh", "upgrade"}
SPECIFICATION Spec
INVARIANTS
    SingleFlight
    SingleSuccessor
    ParentSpent
    SameAnswer
    UpgradeAnswersFull
    ReplayRefused
PROPERTIES
    ImplementsLedger
SYMMETRY Interchangeable
