CONSTANTS
    Users = {u1}
    Tokens = {t1, t2}
    Requests = {r1, r2}
    NoToken = NoToken
    NoRequest = NoRequest
    MaxPassword = 1
    Calls = {"verifyEmail", "refresh", "upgrade", "resetPassword"}
SPECIFICATION FairSpec
PROPERTIES
    EveryRequestAnswered
CHECK_DEADLOCK FALSE
