---------------------------- MODULE PasswordReset ----------------------------
(***************************************************************************)
(* Password reset: requestReset retires the old links of an account and    *)
(* mails a new one; resetPassword checks a link and, in a transaction that *)
(* does not look at the link again, stores the new password.               *)
(*                                                                         *)
(* The database executes one statement (or one transaction) at a time;     *)
(* between two of them every other request may run.  Sessions.tla models   *)
(* what the transaction does to the refresh tokens.                        *)
(***************************************************************************)
EXTENDS Naturals, FiniteSets

CONSTANTS
    Users,          \* accounts
    Links,          \* reset tokens that can ever be generated
    Requests,       \* concurrent HTTP requests
    NoLink          \* no reset token

ASSUME LinksAssumption == NoLink \notin Links /\ IsFiniteSet(Links)
ASSUME RequestsFinite == IsFiniteSet(Requests) /\ Requests # {}

VARIABLES
    active,     \* isActive of each account
    link,       \* the password_reset_tokens table
    mailed,     \* links that reached a mailbox
    uses,       \* history: the passwords set with each link
    req         \* the requests

vars == <<active, link, mailed, uses, req>>

-----------------------------------------------------------------------------
Rows == [owner : Users, used : BOOLEAN, expired : BOOLEAN]
Unissued == [used |-> TRUE]

(* The statement a request is about to send. *)
Steps == {"idle", "retire", "create", "mail", "find", "commit"}
RequestRecords == [step : Steps, user : Users, link : Links \cup {NoLink}]

Issued(k) == link[k] # Unissued
Usable(k) == Issued(k) /\ ~link[k].used /\ ~link[k].expired
Unused(u) == {k \in Links : Issued(k) /\ link[k].owner = u /\ ~link[k].used}
AtStep(step) == {r \in Requests : req[r].step = step}

Go(r, step) == req' = [req EXCEPT ![r].step = step]
Finish(r) == req' = [req EXCEPT ![r].step = "idle", ![r].link = NoLink]

Init ==
    /\ active \in [Users -> BOOLEAN]
    /\ link = [k \in Links |-> Unissued]
    /\ mailed = {}
    /\ uses = [k \in Links |-> 0]
    /\ req \in [Requests -> [step : {"idle"}, user : Users, link : {NoLink}]]

-----------------------------------------------------------------------------
(* requestReset; links are bounded, so a request arrives while one is left. *)

RequestReset(r, u) ==
    /\ req[r].step = "idle"
    /\ Cardinality({k \in Links : ~Issued(k)})
          > Cardinality(AtStep("retire") \cup AtStep("create"))
    /\ active[u]
    /\ req' = [req EXCEPT ![r] = [step |-> "retire", user |-> u, link |-> NoLink]]
    /\ UNCHANGED <<active, link, mailed, uses>>

(* Mutant: the old links stay good. *)
RetireNothing(u) == UNCHANGED link

(* updateMany({ where: { userId, used: false }, data: { used: true } }) *)
RetireLinks(u) == link' = [k \in Links |->
                             IF k \in Unused(u) THEN [link[k] EXCEPT !.used = TRUE] ELSE link[k]]

Retire(r) ==
    /\ req[r].step = "retire"
    /\ RetireLinks(req[r].user)
    /\ Go(r, "create")
    /\ UNCHANGED <<active, mailed, uses>>

Create(r, k) ==
    /\ req[r].step = "create"
    /\ ~Issued(k)
    /\ link' = [link EXCEPT ![k] = [owner |-> req[r].user, used |-> FALSE, expired |-> FALSE]]
    /\ req' = [req EXCEPT ![r].step = "mail", ![r].link = k]
    /\ UNCHANGED <<active, mailed, uses>>

(* The mailer logs a failure and never throws. *)
Mail(r) ==
    /\ req[r].step = "mail"
    /\ mailed' \in {mailed, mailed \cup {req[r].link}}
    /\ Finish(r)
    /\ UNCHANGED <<active, link, uses>>

-----------------------------------------------------------------------------
(* resetPassword *)

ResetPassword(r, k) ==
    /\ req[r].step = "idle"
    /\ k \in mailed
    /\ req' = [req EXCEPT ![r] = [step |-> "find", user |-> link[k].owner, link |-> k]]
    /\ UNCHANGED <<active, link, mailed, uses>>

(* Mutant: the used flag of the record is not looked at. *)
ValidIfUsed(k) == Issued(k) /\ ~link[k].expired

Valid(k) == Usable(k)

FindValidToken(r) ==
    /\ req[r].step = "find"
    /\ IF Valid(req[r].link) THEN Go(r, "commit") ELSE Finish(r)
    /\ UNCHANGED <<active, link, mailed, uses>>

(* Mutant: the used link is deleted while its mail is still around. *)
DeleteLink(k) == link' = [link EXCEPT ![k] = Unissued]

MarkUsed(k) == link' = [link EXCEPT ![k].used = TRUE]

(* The transaction: the password, the link and the refresh tokens. *)
Commit(r) ==
    /\ req[r].step = "commit"
    /\ MarkUsed(req[r].link)
    /\ uses' = [uses EXCEPT ![req[r].link] = @ + 1]
    /\ Finish(r)
    /\ UNCHANGED <<active, mailed>>

-----------------------------------------------------------------------------
(* A statement fails (a transaction leaves no trace), or its process dies. *)
Fail(r) ==
    /\ req[r].step # "idle"
    /\ Finish(r)
    /\ UNCHANGED <<active, link, mailed, uses>>

(* An hour passes. *)
Expire(k) ==
    /\ Usable(k)
    /\ link' = [link EXCEPT ![k].expired = TRUE]
    /\ UNCHANGED <<active, mailed, uses, req>>

(* E-mail verification and e-mail changes switch an account on and off. *)
Switch(u) ==
    /\ active' = [active EXCEPT ![u] = ~@]
    /\ UNCHANGED <<link, mailed, uses, req>>

Serve(r) ==
    \/ Retire(r) \/ Mail(r) \/ FindValidToken(r) \/ Commit(r)
    \/ \E k \in Links : Create(r, k)

Next ==
    \/ \E r \in Requests :
          \/ Serve(r) \/ Fail(r)
          \/ \E u \in Users : RequestReset(r, u)
          \/ \E k \in Links : ResetPassword(r, k)
    \/ \E k \in Links : Expire(k)
    \/ \E u \in Users : Switch(u)

Spec == Init /\ [][Next]_vars

-----------------------------------------------------------------------------
(* Properties *)

(* Every row, every request and every counter has the shape of its table,  *)
(* record or number; a link was mailed only if it exists.                  *)
TypeOK ==
    /\ active \in [Users -> BOOLEAN]
    /\ link \in [Links -> Rows \cup {Unissued}]
    /\ mailed \subseteq {k \in Links : Issued(k)}
    /\ uses \in [Links -> Nat]
    /\ req \in [Requests -> RequestRecords]

(* An account has no more unused links than requests that could have       *)
(* overlapped: served one at a time, requestReset keeps a single active    *)
(* link, and a burst of them at most one for each.                         *)
LinksBoundedByOverlap ==
    \A u \in Users : Cardinality(Unused(u)) <= Cardinality(Requests)

(* A link sets no more passwords than requests that could have overlapped: *)
(* served one at a time, resetPassword takes each link once.               *)
UsesBoundedByOverlap ==
    \A k \in Links : uses[k] <= Cardinality(Requests)

(* What the comments promise, and overlapping requests break.              *)

(* "Only one active reset token at a time". *)
OneActiveLink == \A u \in Users : Cardinality(Unused(u)) <= 1

(* "Token is marked as used (can never be replayed)". *)
LinkUsedOnce == \A k \in Links : uses[k] <= 1
=============================================================================
