CONSTANTS
    Users = {u1}
    Tokens = {t1, t2}
    Requests = {r1}
    NoToken = NoToken
    NoRequest = NoRequest
    MaxPassword = 0
    Calls = {"login", "refresh", "logout"}
SPECIFICATION Spec
INVARIANTS
    LogoutEndsSession
