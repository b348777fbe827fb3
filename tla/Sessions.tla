------------------------------ MODULE Sessions ------------------------------
(***************************************************************************)
(* Refresh-token sessions of the authentication service: login, refresh,   *)
(* session upgrade, logout, the account changes that revoke sessions and   *)
(* the two handlers that hand out a session as a side effect (e-mail and   *)
(* identity verification).                                                 *)
(*                                                                         *)
(* The database executes one statement at a time; between two statements   *)
(* of a handler every other handler may run.  A request is a record that   *)
(* holds the step it is at and what it captured before its last await.     *)
(* The transaction that sets a password is open for a while: it has        *)
(* revoked the rows its updateMany saw and locked, nobody sees it before   *)
(* COMMIT, and who writes what it locked waits (READ COMMITTED).           *)
(* One Node.js process serves all requests: pending is its in-memory map.  *)
(***************************************************************************)
EXTENDS Naturals, FiniteSets

CONSTANTS
    Users,          \* accounts
    Tokens,         \* refresh tokens that can ever be generated
    Requests,       \* concurrent HTTP requests
    NoToken,        \* no refresh token
    NoRequest,      \* no request
    MaxPassword,    \* bound on the password changes of an account
    Calls           \* the calls that clients make (in service: all of them)

ASSUME TokensAssumption == NoToken \notin Tokens /\ IsFiniteSet(Tokens)
ASSUME RequestsAssumption == NoRequest \notin Requests
ASSUME PasswordAssumption == MaxPassword \in Nat

VARIABLES
    user,       \* the users table: flags and password version
    row,        \* the refresh_tokens table, with the history of deleted rows
    held,       \* refresh tokens that were delivered to a client
    pending,    \* pendingRefreshes: the request leading the flight of a token
    req         \* the requests

vars == <<user, row, held, pending, req>>

-----------------------------------------------------------------------------
TokenTypes == {"full", "limited"}
FlightOps == {"refresh", "upgrade"}
PasswordOps == {"changePassword", "resetPassword"}
Ops == FlightOps \cup PasswordOps \cup {"login", "verifyEmail", "verifyIdentity"}
AllCalls == Ops \cup {"logout", "logoutAll", "changeEmail"}

(* Steps of a request.  "lookup" to "issue" name the statement awaited or  *)
(* about to be sent; "open": the transaction of a new password waits for   *)
(* its COMMIT; "answer": the handler has its outcome; "done": sent.        *)
Working == {"compare", "read", "gates", "issue", "commit", "verdict", "upgrade",
            "open", "answer"}
InFlight == Working \cup {"joined"}

Codes == {"none", "ok", "badRequest", "unauthorized", "forbidden", "notFound", "error"}
Replies == [code : Codes, token : Tokens \cup {NoToken}]
NoReply == [code |-> "none", token |-> NoToken]
Refusal(c) == [code |-> c, token |-> NoToken]

UserRows == [isVerified : BOOLEAN, isActive : BOOLEAN,
             isIdVerified : BOOLEAN, password : 0..MaxPassword]

Causes == {"none", "rotation", "logout", "other"}

(* A row of refresh_tokens.  History, not columns: parent (the token it    *)
(* replaced), cause (of its revocation), auth (the password version with   *)
(* which its session was authenticated) and overlapped (a password change  *)
(* came in while the row, or one it descends from, was being issued).      *)
Rows == [status : {"live", "revoked", "deleted"}, owner : Users,
         type : TokenTypes, expired : BOOLEAN,
         parent : Tokens \cup {NoToken}, cause : Causes,
         auth : 0..MaxPassword, overlapped : BOOLEAN]
Unissued == [status |-> "unissued"]

(* found and seen: the token row and the user row as the handler read them; *)
(* right: the presented password matched; locked: the rows its open        *)
(* transaction has revoked; replay (history): the request leads a flight   *)
(* of a token that was already revoked or deleted.                         *)
RequestRecords == [op : Ops, step : InFlight \cup {"done"}, user : Users,
                   token : Tokens \cup {NoToken},
                   found : {"live", "revoked", "deleted"}, seen : UserRows,
                   right : BOOLEAN, locked : SUBSET Tokens,
                   replay : BOOLEAN, reply : Replies]
Idle == [step |-> "idle"]
Blank == [isVerified |-> FALSE, isActive |-> FALSE, isIdVerified |-> FALSE, password |-> 0]

-----------------------------------------------------------------------------
Free(r) == req[r].step \in {"idle", "done"}
Live(t) == row[t].status = "live"
Issued(t) == row[t] # Unissued
RowsOf(u) == {t \in Tokens : Issued(t) /\ row[t].owner = u}
LeadsFlight(r) == req[r].step \in Working /\ req[r].op \in FlightOps

(* Bounds: a request that may generate a token arrives only while tokens   *)
(* remain for all of them, and the password versions are bounded.          *)
MayIssue(r) ==
    /\ req[r].step \in Working \ {"answer"}
    /\ ~req[r].replay
    /\ req[r].op \notin PasswordOps
    /\ req[r].op = "login" => req[r].right
Room == Cardinality({t \in Tokens : ~Issued(t)})
            > Cardinality({r \in Requests : MayIssue(r)})
PasswordRoom(u) ==
    user[u].password
      + Cardinality({r \in Requests : /\ req[r].step \in {"compare", "open"}
                                      /\ req[r].op \in PasswordOps
                                      /\ req[r].user = u}) < MaxPassword

(* What the transactions of new passwords hold until they commit. *)
UserLocked(u) == \E r \in Requests : req[r].step = "open" /\ req[r].user = u
Locked(t) == \E r \in Requests : req[r].step = "open" /\ t \in req[r].locked

(* JwtStrategy.validate re-reads the account on every call. *)
Validate(u) == user[u].isActive

(* JwtAuthGuard compares the type in the JWT with the one the route asks   *)
(* for.  An access JWT is delivered with a refresh token; here it stays    *)
(* good until that expires (it really lives for 15 minutes, or 2 hours).   *)
Authorized(u, types) ==
    /\ Validate(u)
    /\ \E t \in held : row[t].owner = u /\ row[t].type \in types /\ ~row[t].expired

Arrive(r, op, step, u, t, seen, right, replay) ==
    /\ op \in Calls
    /\ req' = [req EXCEPT ![r] =
                 [op |-> op, step |-> step, user |-> u, token |-> t,
                  found |-> "live", seen |-> seen, right |-> right, locked |-> {},
                  replay |-> replay, reply |-> NoReply]]

(* The handler of r has its outcome, sent by a later step; what it captured *)
(* is forgotten.                                                           *)
Outcome(r, reply) ==
    req' = [req EXCEPT ![r].step = "answer", ![r].reply = reply,
                       ![r].found = "live", ![r].seen = Blank, ![r].right = FALSE,
                       ![r].locked = {}]

(* updateMany({ where: S and revoked = false, data: { revoked: true } });  *)
(* where others may hold a lock, the actions wait for the rows of S first. *)
Unlocked(S) == \A t \in S : ~Locked(t)
Revoke(S, cause) ==
    row' = [t \in Tokens |->
              IF t \in S /\ Live(t)
              THEN [row[t] EXCEPT !.status = "revoked", !.cause = cause]
              ELSE row[t]]

(* The password was changed since r read the user row, or is about to be,  *)
(* by a transaction whose updateMany did not see what r inserts.           *)
Overlapped(r) ==
    UserLocked(req[r].user) \/ req[r].seen.password # user[req[r].user].password

(* generateTokens: one new row, for a token nobody has seen before.  The   *)
(* foreign key's lock on the user row does not wait for a new password.    *)
GenerateTokens(r, t, type, parent, auth) ==
    /\ ~Issued(t)
    /\ row' = [row EXCEPT ![t] =
                 [status |-> "live", owner |-> req[r].user, type |-> type,
                  expired |-> FALSE, parent |-> parent, cause |-> "none", auth |-> auth,
                  overlapped |-> \/ Overlapped(r)
                                 \/ parent # NoToken /\ row[parent].overlapped]]
    /\ Outcome(r, [code |-> "ok", token |-> t])

Init ==
    /\ user \in [Users -> {u \in UserRows : u.isVerified = u.isActive /\ u.password = 0}]
    /\ row = [t \in Tokens |-> Unissued]
    /\ held = {}
    /\ pending = [t \in Tokens |-> NoRequest]
    /\ req = [r \in Requests |-> Idle]

-----------------------------------------------------------------------------
(* login *)

LoginLookup(r, u, right) ==
    /\ Free(r)
    /\ right => Room
    /\ Arrive(r, "login", "compare", u, NoToken, user[u], right, FALSE)
    /\ UNCHANGED <<user, row, held, pending>>

LoginReject(r) ==
    /\ req[r].step = "compare" /\ req[r].op = "login"
    /\ \/ ~req[r].right /\ Outcome(r, Refusal("unauthorized"))
       \/ /\ req[r].right
          /\ ~req[r].seen.isVerified \/ ~req[r].seen.isActive
          /\ Outcome(r, Refusal("forbidden"))
    /\ UNCHANGED <<user, row, held, pending>>

(* Mutants: the type of the new row is left unset, or left to its default. *)
UnsetType(q) == ""
DefaultType(q) == "full"

LoginType(q) == IF q.seen.isIdVerified THEN "full" ELSE "limited"

LoginIssue(r, t) ==
    /\ req[r].step = "compare" /\ req[r].op = "login"
    /\ req[r].right /\ req[r].seen.isVerified /\ req[r].seen.isActive
    /\ GenerateTokens(r, t, LoginType(req[r]), NoToken, req[r].seen.password)
    /\ UNCHANGED <<user, held, pending>>

-----------------------------------------------------------------------------
(* refreshTokens and upgradeSession, through runSingleFlightRefresh *)

StartFlight(r, op, t) ==
    /\ Free(r)
    /\ Live(t) => Room
    /\ t \in held
    /\ pending[t] = NoRequest
    /\ pending' = [pending EXCEPT ![t] = r]
    /\ Arrive(r, op, "read", row[t].owner, t, Blank, FALSE, ~Live(t))
    /\ UNCHANGED <<user, row, held>>

JoinFlight(r, op, t) ==
    /\ Free(r)
    /\ t \in held
    /\ pending[t] # NoRequest
    /\ Arrive(r, op, "joined", row[t].owner, t, Blank, FALSE, FALSE)
    /\ UNCHANGED <<user, row, held, pending>>

RotateRead(r) ==
    /\ req[r].step = "read"
    /\ req' = [req EXCEPT ![r].step = "gates",
                          ![r].found = row[req[r].token].status,
                          ![r].seen = user[req[r].user]]
    /\ UNCHANGED <<user, row, held, pending>>

(* Mutant: the revoked flag of the row is not looked at. *)
UsableIfRevoked(q) == ~row[q.token].expired /\ q.seen.isActive

(* new Date() > storedToken.expiresAt, when the handler resumes *)
Usable(q) == q.found = "live" /\ ~row[q.token].expired /\ q.seen.isActive
NeedsIdentity(q) == q.op = "upgrade" /\ ~q.seen.isIdVerified

RotateReject(r) ==
    LET q == req[r] IN
    /\ q.step = "gates"
    /\ \/ /\ q.found # "revoked" /\ ~Usable(q)
          /\ Outcome(r, Refusal("unauthorized"))
       \/ /\ Usable(q) /\ NeedsIdentity(q)
          /\ Outcome(r, Refusal("forbidden"))
    /\ UNCHANGED <<user, row, held, pending>>

RotateReuse(r) ==
    /\ req[r].step = "gates" /\ req[r].found = "revoked"
    /\ Unlocked(RowsOf(req[r].user))
    /\ Revoke(RowsOf(req[r].user), "other")
    /\ Outcome(r, Refusal("unauthorized"))
    /\ UNCHANGED <<user, held, pending>>

(* Mutant: the new pair is issued and the old token is left as it is. *)
SpendNothing(t) == UNCHANGED row

Spend(t) == Revoke({t}, "rotation")

(* update({ where: { id } }) fails with P2025 once the clean-up took the row *)
RotateRevoke(r) ==
    LET q == req[r] IN
    /\ q.step = "gates" /\ Usable(q) /\ ~NeedsIdentity(q)
    /\ Unlocked({q.token})
    /\ IF row[q.token].status = "deleted"
       THEN Outcome(r, Refusal("notFound")) /\ UNCHANGED row
       ELSE /\ Spend(q.token)
            /\ req' = [req EXCEPT ![r].step = "issue"]
    /\ UNCHANGED <<user, held, pending>>

RotatedType(q) ==
    IF q.seen.isIdVerified /\ row[q.token].type = "limited"
    THEN "full"
    ELSE row[q.token].type

RotateIssue(r, t) ==
    LET q == req[r] IN
    /\ q.step = "issue" /\ q.op \in FlightOps
    /\ GenerateTokens(r, t, RotatedType(q), q.token, row[q.token].auth)
    /\ UNCHANGED <<user, held, pending>>

(* Mutant: upgradeSession returns whatever the shared flight returned. *)
ReplyAsIs(op, reply) == reply

(* upgradeSession checks the type of whatever the shared flight returned. *)
ReplyTo(op, reply) ==
    IF op = "upgrade" /\ reply.code = "ok" /\ row[reply.token].type # "full"
    THEN Refusal("forbidden")
    ELSE reply

(* Mutant: only the request that started the flight is answered. *)
NoWaiters(r) == {}

Waiters(r) == {q \in Requests : req[q].step = "joined" /\ req[q].token = req[r].token}

Deliver(r) == held' = held \cup ({req[r].reply.token} \ {NoToken})

(* Mutant: the entry of the flight is not deleted. *)
KeepEntry(t) == UNCHANGED pending

DeleteEntry(t) == pending' = [pending EXCEPT ![t] = NoRequest]

SettleFlight(r) ==
    /\ req[r].step = "answer" /\ req[r].op \in FlightOps
    /\ DeleteEntry(req[r].token)
    /\ req' = [q \in Requests |->
                 IF q = r \/ q \in Waiters(r)
                 THEN [req[q] EXCEPT !.step = "done",
                                     !.reply = ReplyTo(req[q].op, req[r].reply)]
                 ELSE req[q]]
    /\ Deliver(r)
    /\ UNCHANGED <<user, row>>

-----------------------------------------------------------------------------
(* verifyEmail: activates the account and hands out a limited session *)

VerifyEmailLookup(r, u) ==
    /\ Free(r) /\ Room
    /\ ~user[u].isVerified
    /\ Arrive(r, "verifyEmail", "commit", u, NoToken, user[u], FALSE, FALSE)
    /\ UNCHANGED <<user, row, held, pending>>

VerifyEmailCommit(r) ==
    /\ req[r].step = "commit" /\ req[r].op = "verifyEmail"
    /\ ~UserLocked(req[r].user)
    /\ user' = [user EXCEPT ![req[r].user].isVerified = TRUE,
                            ![req[r].user].isActive = TRUE]
    /\ IF req[r].seen.isIdVerified
       THEN Outcome(r, Refusal("ok"))
       ELSE req' = [req EXCEPT ![r].step = "issue"]
    /\ UNCHANGED <<row, held, pending>>

VerifyEmailIssue(r, t) ==
    /\ req[r].step = "issue" /\ req[r].op = "verifyEmail"
    /\ GenerateTokens(r, t, "limited", NoToken, req[r].seen.password)
    /\ UNCHANGED <<user, held, pending>>

-----------------------------------------------------------------------------
(* submitVerification, from its gates to upgradeToken *)

VerifyIdentityLookup(r, u) ==
    /\ Free(r) /\ Room
    /\ Authorized(u, TokenTypes) /\ user[u].isVerified
    /\ Arrive(r, "verifyIdentity", "verdict", u, NoToken, user[u], FALSE, FALSE)
    /\ UNCHANGED <<user, row, held, pending>>

(* The engine says no, or an already verified citizen re-verifies. *)
VerifyIdentityNoChange(r) ==
    /\ req[r].step = "verdict"
    /\ Outcome(r, Refusal("ok"))
    /\ UNCHANGED <<user, row, held, pending>>

VerifyIdentityMark(r) ==
    /\ req[r].step = "verdict" /\ req[r].op = "verifyIdentity"
    /\ ~req[r].seen.isIdVerified
    /\ ~UserLocked(req[r].user)
    /\ user' = [user EXCEPT ![req[r].user].isIdVerified = TRUE]
    /\ req' = [req EXCEPT ![r].step = "upgrade"]
    /\ UNCHANGED <<row, held, pending>>

UpgradeRevoke(r) ==
    /\ req[r].step = "upgrade" /\ req[r].op = "verifyIdentity"
    /\ LET S == {t \in RowsOf(req[r].user) : row[t].type = "limited"} IN
          Unlocked(S) /\ Revoke(S, "other")
    /\ req' = [req EXCEPT ![r].step = "issue"]
    /\ UNCHANGED <<user, held, pending>>

UpgradeIssue(r, t) ==
    /\ req[r].step = "issue" /\ req[r].op = "verifyIdentity"
    /\ GenerateTokens(r, t, "full", NoToken, req[r].seen.password)
    /\ UNCHANGED <<user, held, pending>>

-----------------------------------------------------------------------------
(* logout, logoutAllDevices, changePassword, resetPassword, updateProfile *)

Logout(t) ==
    /\ "logout" \in Calls
    /\ \E u \in Users : Authorized(u, {"full"})
    /\ t \in held
    /\ Unlocked({t}) /\ Revoke({t}, "logout")
    /\ UNCHANGED <<user, held, pending, req>>

LogoutAll(u) ==
    /\ "logoutAll" \in Calls
    /\ Authorized(u, {"full"})
    /\ Unlocked(RowsOf(u)) /\ Revoke(RowsOf(u), "logout")
    /\ UNCHANGED <<user, held, pending, req>>

ChangePasswordLookup(r, u, right) ==
    /\ Free(r)
    /\ Authorized(u, {"full"})
    /\ PasswordRoom(u)
    /\ Arrive(r, "changePassword", "compare", u, NoToken, Blank, right, FALSE)
    /\ UNCHANGED <<user, row, held, pending>>

(* 401: the current password is wrong; 400: the new one is the same. *)
ChangePasswordReject(r) ==
    /\ req[r].step = "compare" /\ req[r].op = "changePassword"
    /\ \/ ~req[r].right /\ Outcome(r, Refusal("unauthorized"))
       \/ req[r].right /\ Outcome(r, Refusal("badRequest"))
    /\ UNCHANGED <<user, row, held, pending>>

(* The link was found valid; the transaction follows the bcrypt hash. *)
ResetPassword(r, u) ==
    /\ Free(r)
    /\ PasswordRoom(u)
    /\ Arrive(r, "resetPassword", "compare", u, NoToken, Blank, TRUE, FALSE)
    /\ UNCHANGED <<user, row, held, pending>>

(* Mutant: the sessions of the citizen are not among what is written. *)
NothingToRevoke(u) == {}

(* updateMany({ where: { userId, revoked: false } }): the rows it sees.    *)
RowsToRevoke(u) == {t \in RowsOf(u) : Live(t)}

(* The statements of the transaction.  It waits for another one's lock on  *)
(* the user row; from here on it holds that row and those it revokes.      *)
OpenPassword(r) ==
    /\ req[r].step = "compare" /\ req[r].op \in PasswordOps /\ req[r].right
    /\ ~UserLocked(req[r].user)
    /\ req' = [req EXCEPT ![r].step = "open", ![r].locked = RowsToRevoke(req[r].user)]
    /\ UNCHANGED <<user, row, held, pending>>

CommitPassword(r) ==
    /\ req[r].step = "open"
    /\ user[req[r].user].password < MaxPassword
    /\ user' = [user EXCEPT ![req[r].user].password = @ + 1]
    /\ Revoke(req[r].locked, "other")
    /\ Outcome(r, Refusal("ok"))
    /\ UNCHANGED <<held, pending>>

(* updateProfile with a new address locks the account. *)
ChangeEmail(u) ==
    /\ "changeEmail" \in Calls
    /\ Authorized(u, {"full"})
    /\ ~UserLocked(u)
    /\ user' = [user EXCEPT ![u].isVerified = FALSE, ![u].isActive = FALSE]
    /\ UNCHANGED <<row, held, pending, req>>

-----------------------------------------------------------------------------
(* Answers, failures, time, the nightly clean-up and restarts *)

Answer(r) ==
    /\ req[r].step = "answer" /\ req[r].op \notin FlightOps
    /\ req' = [req EXCEPT ![r] = Idle]
    /\ Deliver(r)
    /\ UNCHANGED <<user, row, pending>>

(* Mutant: a rotation that cannot issue the new pair gives the old token back. *)
FailAndRestore(r) ==
    /\ req[r].step \in Working /\ req[r].reply.code # "error"
    /\ Outcome(r, Refusal("error"))
    /\ row' = IF req[r].step = "issue" /\ req[r].op \in FlightOps
              THEN [row EXCEPT ![req[r].token].status = "live"]
              ELSE row
    /\ UNCHANGED <<user, held, pending>>

(* A statement fails, or its result never reaches the process; an open     *)
(* transaction is rolled back.                                             *)
Fail(r) ==
    /\ req[r].step \in Working /\ req[r].reply.code # "error"
    /\ Outcome(r, Refusal("error"))
    /\ UNCHANGED <<user, row, held, pending>>

(* Whether a dead token is also past its expiry changes no later answer.   *)
TokenExpires(t) ==
    /\ Live(t) /\ ~row[t].expired
    /\ row' = [row EXCEPT ![t].expired = TRUE]
    /\ UNCHANGED <<user, held, pending, req>>

Purgeable(t) == row[t].status = "revoked" \/ (Live(t) /\ row[t].expired)

CleanupExpiredTokens ==
    /\ \E t \in Tokens : Purgeable(t)
    /\ Unlocked({t \in Tokens : Purgeable(t)})
    /\ row' = [t \in Tokens |->
                 IF Purgeable(t) THEN [row[t] EXCEPT !.status = "deleted"] ELSE row[t]]
    /\ UNCHANGED <<user, held, pending, req>>

Restart ==
    /\ \E r \in Requests : req[r].step \in InFlight
    /\ req' = [r \in Requests |-> IF req[r].step \in InFlight THEN Idle ELSE req[r]]
    /\ pending' = [t \in Tokens |-> NoRequest]
    /\ UNCHANGED <<user, row, held>>

-----------------------------------------------------------------------------
(* What the server does for a request that has arrived. *)
Serve(r) ==
    \/ LoginReject(r)
    \/ RotateRead(r) \/ RotateReject(r) \/ RotateReuse(r) \/ RotateRevoke(r)
    \/ SettleFlight(r)
    \/ VerifyEmailCommit(r)
    \/ VerifyIdentityNoChange(r) \/ VerifyIdentityMark(r) \/ UpgradeRevoke(r)
    \/ ChangePasswordReject(r) \/ OpenPassword(r) \/ CommitPassword(r)
    \/ Answer(r)
    \/ \E t \in Tokens :
          LoginIssue(r, t) \/ RotateIssue(r, t) \/ VerifyEmailIssue(r, t) \/ UpgradeIssue(r, t)

(* What the clients ask for. *)
Call(r) ==
    \/ \E t \in Tokens, op \in FlightOps : StartFlight(r, op, t) \/ JoinFlight(r, op, t)
    \/ \E u \in Users, right \in BOOLEAN :
          LoginLookup(r, u, right) \/ ChangePasswordLookup(r, u, right)
    \/ \E u \in Users :
          VerifyEmailLookup(r, u) \/ VerifyIdentityLookup(r, u) \/ ResetPassword(r, u)

(* Requests of a single statement. *)
Direct ==
    \/ \E t \in Tokens : Logout(t)
    \/ \E u \in Users : LogoutAll(u) \/ ChangeEmail(u)

Environment ==
    \/ \E t \in Tokens : TokenExpires(t)
    \/ CleanupExpiredTokens
    \/ Restart

Next ==
    \/ \E r \in Requests : Serve(r) \/ Call(r) \/ Fail(r)
    \/ Direct
    \/ Environment

(* The statements that may have to wait for the lock of another's open     *)
(* transaction.                                                            *)
Queue(r) ==
    \/ RotateReuse(r) \/ RotateRevoke(r)
    \/ VerifyEmailCommit(r) \/ VerifyIdentityMark(r) \/ UpgradeRevoke(r)
    \/ OpenPassword(r)

(* The event loop and the database serve every request that has arrived,   *)
(* and who waits for a row gets its turn: PostgreSQL queues the waiters.   *)
(* Nothing is assumed of the clients, the failures or the clock.           *)
Fairness == \A r \in Requests : WF_vars(Serve(r)) /\ SF_vars(Queue(r))

Spec == Init /\ [][Next]_vars
FairSpec == Spec /\ Fairness

-----------------------------------------------------------------------------
(* Properties *)

(* The request was answered with a new session for the token it presented. *)
Refreshed(r) ==
    req[r].step = "done" /\ req[r].op \in FlightOps /\ req[r].reply.code = "ok"

(* Every variable has the shape of the table, map or request it stands for. *)
TypeOK ==
    /\ user \in [Users -> UserRows]
    /\ row \in [Tokens -> Rows \cup {Unissued}]
    /\ held \subseteq Tokens
    /\ pending \in [Tokens -> Requests \cup {NoRequest}]
    /\ req \in [Requests -> RequestRecords \cup {Idle}]

(* pendingRefreshes names exactly the requests that are rotating, under    *)
(* the token each one rotates: a rotation in progress is always joinable,  *)
(* and an entry never outlives its rotation (finally deletes it).          *)
SingleFlight ==
    /\ \A r \in Requests : LeadsFlight(r) => pending[req[r].token] = r
    /\ \A t \in Tokens : pending[t] # NoRequest =>
          LeadsFlight(pending[t]) /\ req[pending[t]].token = t
    /\ \A r \in Requests : req[r].step = "joined" => pending[req[r].token] # NoRequest

(* rotateRefreshToken gives a refresh token at most one successor, whatever *)
(* duplicates, restarts and clean-ups interleave with it.                  *)
SingleSuccessor ==
    \A s, t \in Tokens :
        Issued(s) /\ Issued(t) /\ row[s].parent = row[t].parent /\ row[s].parent # NoToken
            => s = t

(* A rotated token is dead before its successor exists: along a chain of   *)
(* rotations at most the last token can be used.                           *)
ParentSpent ==
    \A t \in Tokens : Issued(t) /\ row[t].parent # NoToken => ~Live(row[t].parent)

(* A full session belongs to a citizen whose identity is verified, although *)
(* every handler decides from a user row it read some steps earlier.       *)
FullOnlyForIdVerified ==
    \A t \in Tokens : Issued(t) /\ row[t].type = "full" => user[row[t].owner].isIdVerified

(* Two requests that presented the same refresh token and succeeded hold   *)
(* the same new token: a duplicated call never splits a session in two.    *)
SameAnswer ==
    \A q, r \in Requests :
        Refreshed(q) /\ Refreshed(r) /\ req[q].token = req[r].token
            => req[q].reply = req[r].reply

(* upgradeSession succeeds only with a full session, also when it joined a *)
(* flight that an ordinary refresh had started.                            *)
UpgradeAnswersFull ==
    \A r \in Requests :
        Refreshed(r) /\ req[r].op = "upgrade"
            => row[req[r].reply.token].type = "full"

(* A request that leads a rotation of a token revoked or deleted before it *)
(* arrived never succeeds.                                                 *)
ReplayRefused ==
    \A r \in Requests : req[r].step = "done" /\ req[r].replay => req[r].reply.code # "ok"

(* A session that was authenticated with an earlier password is usable     *)
(* only if it was issued, or replaces one that was issued, while the       *)
(* password was being changed: what the updateMany of changePassword or    *)
(* resetPassword could not see, or a handler resumed with what it had read *)
(* before.  No other session survives its password.                        *)
OldSessionsOverlapped ==
    \A t \in Tokens :
        Live(t) /\ row[t].auth # user[row[t].owner].password => row[t].overlapped

(* A revoked or deleted token is never usable again, and a row keeps its   *)
(* owner, type and parent: no write of a stale row brings a session back.  *)
RevocationIsFinal ==
    [][\A t \in Tokens :
          Issued(t) =>
            /\ Live(t)' => Live(t)
            /\ Issued(t)'
            /\ row'[t].owner = row[t].owner /\ row'[t].type = row[t].type
            /\ row'[t].parent = row[t].parent]_vars

(* What a promise in the documentation says, and the code does not keep.   *)

(* "Revokes the submitted refresh token, ending the session for the device *)
(* that holds it": nothing replaces a token that was logged out.           *)
LogoutEndsSession ==
    \A t \in Tokens :
        Issued(t) /\ row[t].parent # NoToken => row[row[t].parent].cause # "logout"

(* "This ensures old sessions cannot be used after a password change".     *)
SessionsEndWithPassword ==
    \A t \in Tokens : Live(t) => row[t].auth = user[row[t].owner].password

(* "All limited tokens are revoked" when a verification passes.            *)
NoLimitedAfterUpgrade ==
    \A r \in Requests :
        req[r].step = "answer" /\ req[r].op = "verifyIdentity" /\ req[r].reply.token # NoToken
            => \A t \in RowsOf(req[r].user) : Live(t) => row[t].type = "full"

(* A refresh is answered with a new pair or with 401, the only refusal its *)
(* documentation lists (failures of the database apart).                   *)
RefreshRefusedWith401 ==
    \A r \in Requests :
        req[r].step = "done" /\ req[r].op = "refresh"
            => req[r].reply.code \in {"ok", "unauthorized", "error"}

(* "If a token that has already been revoked is submitted, all refresh     *)
(* tokens for that user are immediately invalidated."                      *)
ReplayEndsAllSessions ==
    \A r \in Requests :
        /\ req[r].step = "answer" /\ req[r].replay /\ req[r].reply.code = "unauthorized"
        /\ row[req[r].token].cause # "none"
        => \A t \in RowsOf(req[r].user) : ~Live(t)

(* "Refresh rotation should revoke the used token and issue a new one":    *)
(* once its flight is over, a spent token has a successor.                 *)
SpentHasSuccessor ==
    \A s \in Tokens :
        Issued(s) /\ row[s].cause = "rotation" /\ pending[s] = NoRequest
            => \E t \in Tokens : Issued(t) /\ row[t].parent = s

(* Every request that arrives is answered, the joiners of a flight too, or *)
(* dropped by a restart.                                                   *)
EveryRequestAnswered ==
    \A r \in Requests : req[r].step \in InFlight ~> Free(r)

(* The table, seen by its rows alone, is a token ledger. *)
Ledger == INSTANCE TokenLedger WITH
    ledger <- [t \in Tokens |->
                 IF Issued(t)
                 THEN [status |-> row[t].status, owner |-> row[t].owner,
                       type |-> row[t].type, parent |-> row[t].parent]
                 ELSE [status |-> "none"]]

(* Whatever the handlers interleave, rows appear, die and vanish only as   *)
(* the ledger allows: one successor per dead token, of the same citizen.   *)
ImplementsLedger == Ledger!Spec
=============================================================================
