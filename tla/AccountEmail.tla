---------------------------- MODULE AccountEmail ----------------------------
(***************************************************************************)
(* The address of an account and its verification link: register,          *)
(* verifyEmail, resendVerificationEmail and updateProfile.                 *)
(*                                                                         *)
(* A citizen (one identity number) has at most one account, and an account *)
(* one row in email_verification_tokens, overwritten by every new link.    *)
(* The database executes one statement or one transaction at a time;       *)
(* between two statements of a handler every other request may run.        *)
(***************************************************************************)
EXTENDS Naturals, FiniteSets

CONSTANTS
    Users,          \* citizens
    Emails,         \* addresses
    Links,          \* verification links that can ever be generated
    Requests,       \* concurrent HTTP requests
    NoLink,         \* no link
    MaxResend       \* MAX_RESEND_PER_HOUR

ASSUME LinksAssumption == NoLink \notin Links
ASSUME MaxResendAssumption == MaxResend \in Nat \ {0}

VARIABLES
    account,    \* the users table, each user with its link row
    made,       \* links generated so far
    mailbox,    \* the links that reached each address
    proven,     \* history: the addresses whose mail each citizen has followed
    resent,     \* history: links made by resend within the hour
    lost,       \* history: accounts whose last e-mail change made no link
    overlapped, \* history: citizens two of whose requests were under way at once
    req         \* the requests

vars == <<account, made, mailbox, proven, resent, lost, overlapped, req>>

-----------------------------------------------------------------------------
(* recent: the row was created less than an hour ago. *)
Accounts == [email : Emails, isVerified : BOOLEAN, isActive : BOOLEAN,
             link : Links, used : BOOLEAN, expired : BOOLEAN, recent : BOOLEAN]
NoAccount == [isActive |-> FALSE]

Ops == {"register", "verify", "resend", "update"}
Steps == {"email", "identity", "insert", "activate", "count", "taken", "write", "relink", "mail"}

(* step: the statement about to be sent.  email: the address the request   *)
(* brought, or read from the account; link: the one it brought or made.    *)
RequestRecords == [op : Ops, step : Steps, user : Users, email : Emails,
                   link : Links \cup {NoLink}]
Idle == [step |-> "idle"]

Registered(u) == account[u] # NoAccount
Claimed(e, u) == \E v \in Users \ {u} : Registered(v) /\ account[v].email = e

(* Bound: a request that makes a link arrives while one is left for it. *)
MakesLink(r) == req[r].step \in Steps \ {"activate", "mail"}
Room == Cardinality(Links \ made) > Cardinality({r \in Requests : MakesLink(r)})

Arrive(r, op, step, u, e, k) ==
    /\ req[r] = Idle
    /\ req' = [req EXCEPT ![r] = [op |-> op, step |-> step, user |-> u, email |-> e, link |-> k]]
    /\ overlapped' = IF \E o \in Requests : req[o] # Idle /\ req[o].user = u
                     THEN overlapped \cup {u} ELSE overlapped
Go(r, step) == req' = [req EXCEPT ![r].step = step]
Finish(r) == req' = [req EXCEPT ![r] = Idle]

(* The new link k is in the row of u; its mail is about to be sent. *)
MakeLink(r, k) ==
    /\ k \notin made
    /\ made' = made \cup {k}
    /\ req' = [req EXCEPT ![r].step = "mail", ![r].link = k]

Init ==
    /\ account = [u \in Users |-> NoAccount]
    /\ made = {}
    /\ mailbox = [e \in Emails |-> {}]
    /\ proven = [u \in Users |-> {}]
    /\ resent = [u \in Users |-> 0]
    /\ lost = {}
    /\ overlapped = {}
    /\ req = [r \in Requests |-> Idle]

-----------------------------------------------------------------------------
(* register *)

Register(r, u, e) ==
    /\ Room
    /\ Arrive(r, "register", "email", u, e, NoLink)
    /\ UNCHANGED <<account, made, mailbox, proven, resent, lost>>

CheckEmail(r) ==
    /\ req[r].step = "email"
    /\ IF \E u \in Users : Registered(u) /\ account[u].email = req[r].email
       THEN Finish(r)
       ELSE Go(r, "identity")
    /\ UNCHANGED <<account, made, mailbox, proven, resent, lost, overlapped>>

CheckIdentity(r) ==
    /\ req[r].step = "identity"
    /\ IF Registered(req[r].user) THEN Finish(r) ELSE Go(r, "insert")
    /\ UNCHANGED <<account, made, mailbox, proven, resent, lost, overlapped>>

(* The unique constraint on users.email (P2002). *)
Taken(e, u) == Claimed(e, u)

(* The transaction of register, or its unique constraint violation. *)
Insert(r, k) ==
    LET u == req[r].user  e == req[r].email IN
    /\ req[r].step = "insert"
    /\ IF Registered(u) \/ Taken(e, u)
       THEN Finish(r) /\ UNCHANGED <<account, made>>
       ELSE /\ MakeLink(r, k)
            /\ account' = [account EXCEPT ![u] =
                             [email |-> e, isVerified |-> FALSE, isActive |-> FALSE, link |-> k,
                              used |-> FALSE, expired |-> FALSE, recent |-> TRUE]]
    /\ UNCHANGED <<mailbox, proven, resent, lost, overlapped>>

-----------------------------------------------------------------------------
(* verifyEmail; a link that fails a check changes nothing. *)

(* Mutant: any link that was mailed for the account is accepted. *)
AnyLink(u, k) == Registered(u) /\ ~account[u].isVerified /\ ~account[u].expired

Acceptable(u, k) ==
    /\ Registered(u)
    /\ ~account[u].isVerified /\ ~account[u].used /\ ~account[u].expired
    /\ account[u].link = k

VerifyEmail(r, u, k) ==
    /\ \E e \in Emails : k \in mailbox[e]
    /\ Acceptable(u, k)
    /\ Arrive(r, "verify", "activate", u, account[u].email, k)
    /\ UNCHANGED <<account, made, mailbox, proven, resent, lost>>

(* The transaction: both updates go by id, and look at nothing else. *)
Activate(r) ==
    LET u == req[r].user IN
    /\ req[r].step = "activate"
    /\ account' = [account EXCEPT ![u].isVerified = TRUE, ![u].isActive = TRUE, ![u].used = TRUE]
    /\ proven' = [proven EXCEPT ![u] = @ \cup {e \in Emails : req[r].link \in mailbox[e]}]
    /\ Finish(r)
    /\ UNCHANGED <<made, mailbox, resent, lost, overlapped>>

-----------------------------------------------------------------------------
(* resendVerificationEmail *)

Resend(r, u) ==
    /\ Room
    /\ Registered(u) /\ ~account[u].isVerified
    /\ Arrive(r, "resend", "count", u, account[u].email, NoLink)
    /\ UNCHANGED <<account, made, mailbox, proven, resent, lost>>

(* count of the rows of the account created within the hour: it has one *)
RecentTokenCount(u) == IF account[u].recent THEN 1 ELSE 0

CountRecent(r) ==
    /\ req[r].step = "count"
    /\ IF RecentTokenCount(req[r].user) >= MaxResend THEN Finish(r) ELSE Go(r, "relink")
    /\ UNCHANGED <<account, made, mailbox, proven, resent, lost, overlapped>>

(* Mutant: the upsert of a new link leaves used as it was. *)
ReplaceKeepUsed(u, k) ==
    account' = [account EXCEPT ![u].link = k, ![u].expired = FALSE, ![u].recent = TRUE]

(* Mutant: the upsert stores no token. *)
ReplaceUnset(u, k) == account' = [account EXCEPT ![u].link = NoLink, ![u].used = FALSE]

Replace(u, k) ==
    account' = [account EXCEPT ![u].link = k, ![u].used = FALSE,
                               ![u].expired = FALSE, ![u].recent = TRUE]

(* The upsert of resend and of updateProfile. *)
Relink(r, k) ==
    LET u == req[r].user IN
    /\ req[r].step = "relink"
    /\ Replace(u, k)
    /\ MakeLink(r, k)
    /\ resent' = IF req[r].op = "resend" THEN [resent EXCEPT ![u] = @ + 1] ELSE resent
    /\ lost' = lost \ {u}
    /\ UNCHANGED <<mailbox, proven, overlapped>>

(* The mailer logs a failure and never throws. *)
Mail(r) ==
    /\ req[r].step = "mail"
    /\ \/ mailbox' = [mailbox EXCEPT ![req[r].email] = @ \cup {req[r].link}]
       \/ UNCHANGED mailbox
    /\ Finish(r)
    /\ UNCHANGED <<account, made, proven, resent, lost, overlapped>>

-----------------------------------------------------------------------------
(* updateProfile with a new address; the guards let an active account in. *)

UpdateProfile(r, u, e) ==
    /\ Room
    /\ Registered(u) /\ account[u].isActive
    /\ e # account[u].email
    /\ Arrive(r, "update", "taken", u, e, NoLink)
    /\ UNCHANGED <<account, made, mailbox, proven, resent, lost>>

CheckTaken(r) ==
    /\ req[r].step = "taken"
    /\ IF Claimed(req[r].email, req[r].user) THEN Finish(r) ELSE Go(r, "write")
    /\ UNCHANGED <<account, made, mailbox, proven, resent, lost, overlapped>>

SetEmail(u, e) ==
    account' = [account EXCEPT ![u].email = e, ![u].isVerified = FALSE, ![u].isActive = FALSE]

WriteEmail(r) ==
    /\ req[r].step = "write"
    /\ IF Taken(req[r].email, req[r].user)
       THEN Finish(r) /\ UNCHANGED account
       ELSE SetEmail(req[r].user, req[r].email) /\ Go(r, "relink")
    /\ UNCHANGED <<made, mailbox, proven, resent, lost, overlapped>>

-----------------------------------------------------------------------------
(* A statement fails, or the process dies before it is sent. *)
Fail(r) ==
    /\ req[r] # Idle
    /\ Finish(r)
    /\ lost' = IF req[r].op = "update" /\ req[r].step = "relink" THEN lost \cup {req[r].user} ELSE lost
    /\ UNCHANGED <<account, made, mailbox, proven, resent, overlapped>>

HourPasses(u) ==
    /\ Registered(u) /\ account[u].recent
    /\ account' = [account EXCEPT ![u].recent = FALSE]
    /\ resent' = [resent EXCEPT ![u] = 0]
    /\ UNCHANGED <<made, mailbox, proven, lost, overlapped, req>>

LinkExpires(u) ==
    /\ Registered(u) /\ ~account[u].recent /\ ~account[u].expired
    /\ account' = [account EXCEPT ![u].expired = TRUE]
    /\ UNCHANGED <<made, mailbox, proven, resent, lost, overlapped, req>>

Serve(r) ==
    \/ CheckEmail(r) \/ CheckIdentity(r)
    \/ Activate(r)
    \/ CountRecent(r) \/ Mail(r)
    \/ CheckTaken(r) \/ WriteEmail(r)
    \/ \E k \in Links : Insert(r, k) \/ Relink(r, k)

Call(r, u) ==
    \/ \E e \in Emails : Register(r, u, e) \/ UpdateProfile(r, u, e)
    \/ \E k \in Links : VerifyEmail(r, u, k)
    \/ Resend(r, u)

Next ==
    \/ \E r \in Requests : Serve(r) \/ Fail(r) \/ \E u \in Users : Call(r, u)
    \/ \E u \in Users : HourPasses(u) \/ LinkExpires(u)

Spec == Init /\ [][Next]_vars

-----------------------------------------------------------------------------
(* Properties *)

(* Every account, mailbox and request has the shape of the row or record   *)
(* it stands for, and only links that were made are in a row or a mailbox. *)
TypeOK ==
    /\ account \in [Users -> Accounts \cup {NoAccount}]
    /\ made \subseteq Links
    /\ mailbox \in [Emails -> SUBSET made]
    /\ proven \in [Users -> SUBSET Emails]
    /\ resent \in [Users -> Nat]
    /\ lost \subseteq Users
    /\ overlapped \subseteq Users
    /\ req \in [Requests -> RequestRecords \cup {Idle}]

(* A locked account has a link that was not used yet, unless its e-mail    *)
(* change is still making one or broke off before it did: a citizen is     *)
(* never locked out behind a spent link by what others do meanwhile.       *)
LockedHasFreshLink ==
    \A u \in Users :
        Registered(u) /\ ~account[u].isVerified /\ account[u].used
            => \/ u \in lost
               \/ \E r \in Requests : /\ req[r] # Idle
                                      /\ req[r].op = "update" /\ req[r].step = "relink"
                                      /\ req[r].user = u

(* "Lock the account until the new email is verified": a verified account  *)
(* has an address whose mail the citizen followed.  It holds as long as    *)
(* requests of the citizen do not overlap, and not otherwise.              *)
VerifiedAddressProven ==
    \A u \in Users : Registered(u) /\ account[u].isVerified => account[u].email \in proven[u]

(* Only requests of the same citizen that overlap can break it: what other  *)
(* citizens do, failures and expiry never verify an address unproven.      *)
VerifiedUnlessOverlapped ==
    \A u \in Users :
        Registered(u) /\ account[u].isVerified /\ u \notin overlapped
            => account[u].email \in proven[u]

(* "A maximum of 3 resend requests are allowed per hour per email address". *)
ResendLimited == \A u \in Users : resent[u] <= MaxResend
=============================================================================
