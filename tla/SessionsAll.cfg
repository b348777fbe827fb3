CONSTANTS
    Users = {u1}
    Tokens = {t1, t2}
    Requests = {r1, r2}
    NoToken = NoToken
    NoRequest = NoRequest
    MaxPassword = 1
    Calls = {"login", "refresh", "verifyEmail", "verifyIdentity", "changePassword", "logout", "logoutAll", "resetPassword", "changeEmail"}
SPECIFICATION Spec
INVARIANTS
    TypeOK
    FullOnlyForIdVerified
    
PROPERTIES
    RevocationIsFinal
SYMMETRY Interchangeable
