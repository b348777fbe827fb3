------------------------- MODULE AccountEmailProofs -------------------------
(***************************************************************************)
(* Proofs about AccountEmail, for any sets of citizens, addresses, links   *)
(* and requests: addresses are unique, a locked account has a fresh link,  *)
(* and only overlapping requests of one citizen can verify an address that *)
(* was not proven.                                                         *)
(***************************************************************************)
EXTENDS AccountEmail, TLAPS

Open(r) == req[r] # Idle

(* What a request q is at depends on its operation; only register runs     *)
(* without a row in table ac, and a mail carries a link that was made.     *)
Fit(q, ac, md) ==
    /\ q.step \in {"email", "identity", "insert"} => q.op = "register"
    /\ q.step = "activate" => q.op = "verify"
    /\ q.step = "count" => q.op = "resend"
    /\ q.step \in {"taken", "write"} => q.op = "update"
    /\ q.step = "relink" => q.op \in {"resend", "update"}
    /\ q.step \notin {"email", "identity", "insert"} => ac[q.user] # NoAccount
    /\ q.step = "mail" => q.link \in md

(* The link of a row was made, and only the account's own mails carry it. *)
RowFits(u) ==
    /\ account[u].link \in made
    /\ account[u].isActive => account[u].isVerified
    /\ \A v \in Users : Registered(v) /\ account[v].link = account[u].link => v = u
    /\ \A r \in Requests :
        req[r].step = "mail" /\ req[r].link = account[u].link => req[r].user = u

RequestsFit == \A r \in Requests : Open(r) => Fit(req[r], account, made)
RowsFit == \A u \in Users : Registered(u) => RowFits(u)

TInv == TypeOK /\ RequestsFit /\ RowsFit

(* A citizen whose requests never overlapped has one request at a time. *)
Alone(u) ==
    \A r, o \in Requests : Open(r) /\ Open(o) /\ req[r].user = u /\ req[o].user = u => r = o

(* Until it is used, a link went to no other address than the account's. *)
LinkPrivate(u) ==
    ~account[u].used => \A e \in Emails : account[u].link \in mailbox[e] => e = account[u].email

VerifiedSound(u) ==
    account[u].isVerified => account[u].used /\ account[u].email \in proven[u]

(* What a request that is alone knows of its account a is still true. *)
Knows(q, a, mb) ==
    /\ q.step \in {"count", "relink"} => ~a.isVerified /\ q.email = a.email
    /\ q.step \in {"taken", "write"} => a.used
    /\ q.step = "activate" => ~a.used /\ q.link \in mb[a.email]
    /\ q.step = "mail" => q.link = a.link /\ q.email = a.email

Calm(u) ==
    /\ Alone(u)
    /\ Registered(u) => LinkPrivate(u) /\ VerifiedSound(u)
    /\ \A r \in Requests : Open(r) /\ req[r].user = u => Knows(req[r], account[u], mailbox)

CalmInv == \A u \in Users \ overlapped : Calm(u)

-----------------------------------------------------------------------------
(* Shapes *)

(* An open request is a full record, and it is open if it is at a step. *)
LEMMA OpenShape ==
    ASSUME TypeOK, NEW r \in Requests
    PROVE  /\ Open(r) <=> req[r].step # "idle"
           /\ Open(r) => req[r] \in RequestRecords
           /\ Idle \notin RequestRecords
BY DEF TypeOK, Open, RequestRecords, Idle, Steps

(* A registered citizen has a full row, and no full row is NoAccount. *)
LEMMA RowShape ==
    /\ NoAccount \notin Accounts
    /\ TypeOK => \A u \in Users : Registered(u) => account[u] \in Accounts
<1>1. NoAccount \notin Accounts
  <2>1. DOMAIN NoAccount = {"isActive"}
    BY DEF NoAccount
  <2>2. \A a \in Accounts : "email" \in DOMAIN a
    BY DEF Accounts
  <2>3. QED
    BY <2>1, <2>2
<1>2. QED
  BY <1>1 DEF TypeOK, Registered

(* A request that goes a step on keeps the rest of its record. *)
LEMMA GoShape ==
    ASSUME TypeOK, NEW r \in Requests, Open(r), NEW step \in Steps, Go(r, step)
    PROVE  /\ req'[r] \in RequestRecords
           /\ req'[r].step = step /\ req'[r].op = req[r].op /\ req'[r].user = req[r].user
           /\ req'[r].email = req[r].email /\ req'[r].link = req[r].link
           /\ \A o \in Requests \ {r} : req'[o] = req[o]
           /\ req' \in [Requests -> RequestRecords \cup {Idle}]
<1>1. req[r] \in RequestRecords
  BY OpenShape
<1>2. req' = [req EXCEPT ![r] = [req[r] EXCEPT !.step = step]]
  BY DEF Go
<1>3. [req[r] EXCEPT !.step = step] \in RequestRecords
  BY <1>1 DEF RequestRecords
<1>4. QED
  BY <1>1, <1>2, <1>3 DEF TypeOK, RequestRecords

(* A request that ends. *)
LEMMA FinishShape ==
    ASSUME TypeOK, NEW r \in Requests, Finish(r)
    PROVE  /\ req'[r] = Idle
           /\ \A o \in Requests \ {r} : req'[o] = req[o]
           /\ req' \in [Requests -> RequestRecords \cup {Idle}]
BY DEF Finish, TypeOK

(* A request that comes in. *)
LEMMA ArriveShape ==
    ASSUME TypeOK, NEW r \in Requests, NEW op \in Ops, NEW step \in Steps, NEW u \in Users,
           NEW e \in Emails, NEW k \in Links \cup {NoLink}, Arrive(r, op, step, u, e, k)
    PROVE  /\ req'[r] = [op |-> op, step |-> step, user |-> u, email |-> e, link |-> k]
           /\ req'[r] \in RequestRecords /\ ~Open(r)
           /\ \A o \in Requests \ {r} : req'[o] = req[o]
           /\ req' \in [Requests -> RequestRecords \cup {Idle}]
           /\ overlapped' \subseteq Users /\ overlapped \subseteq overlapped'
           /\ u \notin overlapped' => \A o \in Requests : Open(o) => req[o].user # u
<1>1. [op |-> op, step |-> step, user |-> u, email |-> e, link |-> k] \in RequestRecords
  BY DEF RequestRecords
<1>2. QED
  BY <1>1 DEF Arrive, TypeOK, Open

(* A request that has a new link made. *)
LEMMA MakeShape ==
    ASSUME TypeOK, NEW r \in Requests, Open(r), NEW k \in Links, MakeLink(r, k)
    PROVE  /\ req'[r] \in RequestRecords
           /\ req'[r].step = "mail" /\ req'[r].link = k
           /\ req'[r].user = req[r].user /\ req'[r].email = req[r].email /\ req'[r].op = req[r].op
           /\ \A o \in Requests \ {r} : req'[o] = req[o]
           /\ req' \in [Requests -> RequestRecords \cup {Idle}]
           /\ made' = made \cup {k} /\ k \notin made
<1>1. req[r] \in RequestRecords
  BY OpenShape
<1>2. req' = [req EXCEPT ![r] = [req[r] EXCEPT !.step = "mail", !.link = k]]
  BY DEF MakeLink
<1>3. [req[r] EXCEPT !.step = "mail", !.link = k] \in RequestRecords
  BY <1>1 DEF RequestRecords, Steps
<1>4. QED
  BY <1>1, <1>2, <1>3 DEF MakeLink, TypeOK, RequestRecords

-----------------------------------------------------------------------------
(* Typing: TInv is inductive *)

(* As long as no link is made, requests that go on have to fit, and rows   *)
(* have to keep their links.                                               *)
LEMMA QuietFits ==
    ASSUME TInv, made' = made, req' \in [Requests -> RequestRecords \cup {Idle}],
           \A o \in Requests :
              \/ req'[o] = req[o] \/ req'[o] = Idle
              \/ req'[o].step # "mail" /\ Fit(req'[o], account', made),
           \A v \in Users :
              \/ account'[v] = account[v]
              \/ /\ Registered(v) /\ account'[v] \in Accounts
                 /\ account'[v].link = account[v].link
                 /\ account'[v].isActive => account'[v].isVerified
    PROVE  RequestsFit' /\ RowsFit'
<1>1. \A v \in Users : Registered(v) <=> account'[v] # NoAccount
  BY RowShape DEF Registered
<1>2. RequestsFit'
  <2> SUFFICES ASSUME NEW o \in Requests, req'[o] # Idle
               PROVE  Fit(req'[o], account', made)
    BY DEF RequestsFit, Open
  <2>1. CASE req'[o] = req[o]
    <3>1. Fit(req[o], account, made) /\ req[o].user \in Users
      BY <2>1, OpenShape DEF TInv, RequestsFit, Open, RequestRecords
    <3>2. QED
      BY <1>1, <2>1, <3>1 DEF Fit, Registered
  <2>2. QED
    BY <2>1
<1>3. RowsFit'
  <2>1. \A v \in Users : Registered(v) => account'[v].link = account[v].link
    OBVIOUS
  <2>2. \A o \in Requests : req'[o].step = "mail" => req'[o] = req[o]
    BY DEF Idle
  <2>3. ASSUME NEW u \in Users, account'[u] # NoAccount
        PROVE  RowFits(u)'
    <3>1. Registered(u) /\ RowFits(u)
      BY <1>1, <2>3 DEF TInv, RowsFit
    <3>2. QED
      BY <1>1, <2>1, <2>2, <3>1 DEF RowFits, Registered
  <2>4. QED
    BY <2>3 DEF RowsFit, Registered
<1>4. QED
  BY <1>2, <1>3

(* A new link goes into one row and one mail. *)
LEMMA NewLinkFits ==
    ASSUME TInv, NEW r \in Requests, Open(r), NEW k \in Links, MakeLink(r, k),
           NEW a \in Accounts, a.link = k, a.isActive => a.isVerified,
           account' = [account EXCEPT ![req[r].user] = a]
    PROVE  RequestsFit' /\ RowsFit'
<1> DEFINE u == req[r].user
<1>1. /\ req'[r] \in RequestRecords /\ req'[r].step = "mail" /\ req'[r].link = k
      /\ req'[r].user = u
      /\ \A o \in Requests \ {r} : req'[o] = req[o]
      /\ made' = made \cup {k} /\ k \notin made
  BY MakeShape DEF TInv
<1>2. u \in Users /\ account'[u] = a /\ a # NoAccount
      /\ \A v \in Users \ {u} : account'[v] = account[v]
  BY OpenShape, RowShape DEF TInv, TypeOK, RequestRecords
<1>3. RequestsFit'
  <2>1. ASSUME NEW o \in Requests \ {r}, Open(o)
        PROVE  Fit(req[o], account', made')
    <3>1. Fit(req[o], account, made) /\ req[o].user \in Users
      BY <2>1, OpenShape DEF TInv, RequestsFit, RequestRecords
    <3>2. QED
      BY <1>1, <1>2, <3>1 DEF Fit
  <2>2. Fit(req'[r], account', made')
    BY <1>1, <1>2 DEF Fit
  <2>3. QED
    BY <1>1, <2>1, <2>2 DEF RequestsFit, Open
<1>4. RowsFit'
  <2>1. ASSUME NEW v \in Users \ {u}, Registered(v)
        PROVE  account[v].link \in made /\ RowFits(v)
    BY <2>1 DEF TInv, RowsFit, RowFits
  <2>2. \A o \in Requests \ {r} : req[o].step = "mail" => req[o].link \in made
    BY OpenShape DEF TInv, RequestsFit, Fit, Open, Idle
  <2>3. ASSUME NEW v \in Users, account'[v] # NoAccount
        PROVE  RowFits(v)'
    <3>1. CASE v = u
      BY <1>1, <1>2, <2>1, <2>2, <3>1 DEF RowFits, Registered
    <3>2. CASE v # u
      BY <1>1, <1>2, <2>1, <2>3, <3>2 DEF RowFits, Registered
    <3>3. QED
      BY <3>1, <3>2
  <2>4. QED
    BY <2>3 DEF RowsFit, Registered
<1>5. QED
  BY <1>3, <1>4

(* The requests that come in. *)
LEMMA CallTyped ==
    ASSUME TInv, NEW r \in Requests, NEW u \in Users, Call(r, u)
    PROVE  TInv'
<1> USE DEF TInv
<1>1. ASSUME NEW op \in Ops, NEW step \in Steps, NEW e \in Emails, NEW k \in Links \cup {NoLink},
             Arrive(r, op, step, u, e, k), step # "mail",
             UNCHANGED <<account, made, mailbox, proven, resent, lost>>,
             Fit([op |-> op, step |-> step, user |-> u, email |-> e, link |-> k], account, made)
      PROVE  TInv'
  <2>1. /\ req'[r] = [op |-> op, step |-> step, user |-> u, email |-> e, link |-> k]
        /\ \A o \in Requests \ {r} : req'[o] = req[o]
        /\ req' \in [Requests -> RequestRecords \cup {Idle}]
        /\ overlapped' \subseteq Users
    BY <1>1, ArriveShape
  <2>2. RequestsFit' /\ RowsFit'
    BY <1>1, <2>1, QuietFits
  <2>3. TypeOK'
    BY <1>1, <2>1 DEF TypeOK
  <2>4. QED
    BY <2>2, <2>3
<1>2. Registered(u) => account[u].email \in Emails
  BY RowShape DEF Accounts
<1>3. ASSUME NEW e \in Emails, Register(r, u, e)
      PROVE  TInv'
  BY <1>1, <1>3 DEF Register, Fit, Ops, Steps
<1>4. ASSUME NEW e \in Emails, UpdateProfile(r, u, e)
      PROVE  TInv'
  BY <1>1, <1>4 DEF UpdateProfile, Fit, Ops, Steps, Registered
<1>5. ASSUME NEW k \in Links, VerifyEmail(r, u, k)
      PROVE  TInv'
  BY <1>1, <1>2, <1>5 DEF VerifyEmail, Acceptable, Fit, Ops, Steps, Registered
<1>6. ASSUME Resend(r, u)
      PROVE  TInv'
  BY <1>1, <1>2, <1>6 DEF Resend, Fit, Ops, Steps, Registered
<1>7. QED
  BY <1>3, <1>4, <1>5, <1>6 DEF Call

(* The checks, which end a request or let it go on. *)
LEMMA CheckTyped ==
    ASSUME TInv, NEW r \in Requests,
           CheckEmail(r) \/ CheckIdentity(r) \/ CountRecent(r) \/ CheckTaken(r) \/ Fail(r)
    PROVE  TInv'
<1> USE DEF TInv
<1>1. Open(r)
  BY OpenShape DEF CheckEmail, CheckIdentity, CountRecent, CheckTaken, Fail, Open
<1>2. Fit(req[r], account, made) /\ req[r] \in RequestRecords
  BY <1>1, OpenShape DEF RequestsFit
<1>3. UNCHANGED <<account, made, mailbox, proven, resent, overlapped>> /\ lost' \subseteq Users
  BY <1>2 DEF CheckEmail, CheckIdentity, CountRecent, CheckTaken, Fail, TypeOK, RequestRecords
<1>4. CASE Finish(r)
  <2>1. req' \in [Requests -> RequestRecords \cup {Idle}] /\ RequestsFit' /\ RowsFit'
    BY <1>3, <1>4, FinishShape, QuietFits
  <2>2. QED
    BY <1>3, <2>1 DEF TypeOK
<1>5. ASSUME NEW step \in Steps \ {"mail"}, Go(r, step),
             \A x : x.step = step /\ x.op = req[r].op /\ x.user = req[r].user
                      => Fit(x, account, made)
      PROVE  TInv'
  <2>1. /\ req' \in [Requests -> RequestRecords \cup {Idle}]
        /\ req'[r].step = step /\ Fit(req'[r], account, made)
        /\ \A o \in Requests \ {r} : req'[o] = req[o]
    BY <1>1, <1>5, GoShape
  <2>2. RequestsFit' /\ RowsFit'
    BY <1>3, <1>5, <2>1, QuietFits
  <2>3. QED
    BY <1>3, <2>1, <2>2 DEF TypeOK
<1>6. CASE req[r].step = "email" /\ Go(r, "identity")
  BY <1>2, <1>5, <1>6 DEF Fit, Steps
<1>7. CASE req[r].step = "identity" /\ Go(r, "insert")
  BY <1>2, <1>5, <1>7 DEF Fit, Steps
<1>8. CASE req[r].step = "count" /\ Go(r, "relink")
  BY <1>2, <1>5, <1>8 DEF Fit, Steps
<1>9. CASE req[r].step = "taken" /\ Go(r, "write")
  BY <1>2, <1>5, <1>9 DEF Fit, Steps
<1>10. QED
  BY <1>4, <1>6, <1>7, <1>8, <1>9 DEF CheckEmail, CheckIdentity, CountRecent, CheckTaken, Fail

(* A new link and the row it goes into keep the tables in shape. *)
LEMMA MakeTyped ==
    ASSUME TypeOK, NEW r \in Requests, Open(r), NEW k \in Links, MakeLink(r, k),
           NEW a \in Accounts, account' = [account EXCEPT ![req[r].user] = a],
           UNCHANGED <<mailbox, proven, overlapped>>,
           lost' \subseteq Users, resent' \in [Users -> Nat]
    PROVE  TypeOK'
<1>1. /\ req' \in [Requests -> RequestRecords \cup {Idle}]
      /\ made' = made \cup {k}
  BY MakeShape
<1>2. mailbox' \in [Emails -> SUBSET made']
  <2>1. \A e \in Emails : mailbox[e] \subseteq made'
    BY <1>1 DEF TypeOK
  <2>2. QED
    BY <2>1 DEF TypeOK
<1>3. account' \in [Users -> Accounts \cup {NoAccount}]
  BY DEF TypeOK
<1>4. proven' \in [Users -> SUBSET Emails] /\ overlapped' \subseteq Users /\ made' \subseteq Links
  BY <1>1 DEF TypeOK
<1>5. QED
  BY <1>1, <1>2, <1>3, <1>4 DEF TypeOK

(* The transaction of register. *)
LEMMA InsertTyped ==
    ASSUME TInv, NEW r \in Requests, NEW k \in Links, Insert(r, k)
    PROVE  TInv'
<1> USE DEF TInv
<1> DEFINE u == req[r].user
           a == [email |-> req[r].email, isVerified |-> FALSE, isActive |-> FALSE, link |-> k,
                 used |-> FALSE, expired |-> FALSE, recent |-> TRUE]
<1>1. Open(r) /\ req[r] \in RequestRecords
  BY OpenShape DEF Insert
<1>2. CASE Registered(u) \/ Taken(req[r].email, u)
  <2>1. Finish(r) /\ UNCHANGED <<account, made, mailbox, proven, resent, lost, overlapped>>
    BY <1>2 DEF Insert
  <2>2. req' \in [Requests -> RequestRecords \cup {Idle}] /\ RequestsFit' /\ RowsFit'
    BY <2>1, FinishShape, QuietFits
  <2>3. QED
    BY <2>1, <2>2 DEF TypeOK
<1>3. CASE ~(Registered(u) \/ Taken(req[r].email, u))
  <2>1. /\ MakeLink(r, k) /\ account' = [account EXCEPT ![u] = a]
        /\ UNCHANGED <<mailbox, proven, resent, lost, overlapped>>
    BY <1>3 DEF Insert
  <2>2. a \in Accounts /\ a.link = k /\ ~a.isActive
    BY <1>1 DEF Accounts, RequestRecords
  <2>3. RequestsFit' /\ RowsFit'
    BY <1>1, <2>1, <2>2, NewLinkFits
  <2>4. lost' \subseteq Users /\ resent' \in [Users -> Nat]
    BY <2>1 DEF TypeOK
  <2>5. TypeOK'
    BY <1>1, <2>1, <2>2, <2>4, MakeTyped
  <2>6. QED
    BY <2>3, <2>5
<1>4. QED
  BY <1>2, <1>3

(* The row of u becomes a, and no other one changes. *)
RowBecomes(u, a) ==
    /\ u \in Users /\ a \in Accounts
    /\ account' = [account EXCEPT ![u] = a] /\ account'[u] = a
    /\ \A v \in Users \ {u} : account'[v] = account[v]

(* The upsert of a new link. *)
LEMMA RelinkRow ==
    ASSUME TInv, NEW r \in Requests, NEW k \in Links, Relink(r, k)
    PROVE  /\ Open(r) /\ req[r] \in RequestRecords /\ Registered(req[r].user) /\ MakeLink(r, k)
           /\ account[req[r].user] \in Accounts
           /\ \E a \in Accounts :
                /\ RowBecomes(req[r].user, a)
                /\ a.link = k /\ ~a.used
                /\ a.email = account[req[r].user].email
                /\ a.isVerified = account[req[r].user].isVerified
                /\ a.isActive = account[req[r].user].isActive
<1> USE DEF TInv
<1> DEFINE u == req[r].user
           a == [account[u] EXCEPT !.link = k, !.used = FALSE, !.expired = FALSE, !.recent = TRUE]
<1>1. Open(r) /\ req[r] \in RequestRecords
  BY OpenShape DEF Relink
<1>2. Registered(u) /\ u \in Users
  BY <1>1 DEF Relink, RequestsFit, Fit, Registered, RequestRecords
<1>3. account[u] \in Accounts
  BY <1>2, RowShape
<1>4. /\ a \in Accounts /\ a.link = k /\ ~a.used /\ a.email = account[u].email
      /\ a.isVerified = account[u].isVerified /\ a.isActive = account[u].isActive
  BY <1>3 DEF Accounts
<1>5. account' = [account EXCEPT ![u] = a] /\ MakeLink(r, k)
  BY DEF Relink, Replace
<1>6. RowBecomes(u, a)
  BY <1>2, <1>4, <1>5 DEF RowBecomes, TypeOK
<1>7. QED
  BY <1>1, <1>2, <1>3, <1>4, <1>5, <1>6

(* What verifyEmail, updateProfile and time write into a row. *)
LEMMA ActivateRow ==
    ASSUME TInv, NEW r \in Requests, Activate(r)
    PROVE  /\ Open(r) /\ req[r] \in RequestRecords /\ Registered(req[r].user)
           /\ account[req[r].user] \in Accounts
           /\ \E a \in Accounts :
                /\ RowBecomes(req[r].user, a)
                /\ a.isVerified /\ a.used
                /\ a.link = account[req[r].user].link /\ a.email = account[req[r].user].email
<1> USE DEF TInv
<1> DEFINE u == req[r].user
           a == [account[u] EXCEPT !.isVerified = TRUE, !.isActive = TRUE, !.used = TRUE]
<1>1. Open(r) /\ req[r] \in RequestRecords
  BY OpenShape DEF Activate
<1>2. Registered(u) /\ u \in Users
  BY <1>1 DEF Activate, RequestsFit, Fit, Registered, RequestRecords
<1>3. account[u] \in Accounts
  BY <1>2, RowShape
<1>4. /\ a \in Accounts /\ a.isVerified /\ a.used
      /\ a.link = account[u].link /\ a.email = account[u].email
  BY <1>3 DEF Accounts
<1>5. account' = [account EXCEPT ![u] = a]
  BY DEF Activate
<1>6. RowBecomes(u, a)
  BY <1>2, <1>4, <1>5 DEF RowBecomes, TypeOK
<1>7. QED
  BY <1>1, <1>2, <1>3, <1>4, <1>6

(* The write of an address ends in a conflict or goes on to its link. *)
LEMMA WriteRow ==
    ASSUME TInv, NEW r \in Requests, WriteEmail(r)
    PROVE  /\ Open(r) /\ req[r] \in RequestRecords /\ Registered(req[r].user)
           /\ account[req[r].user] \in Accounts /\ req[r].op = "update"
           /\ \/ Finish(r) /\ UNCHANGED account
              \/ \E a \in Accounts :
                   /\ ~Taken(req[r].email, req[r].user) /\ Go(r, "relink")
                   /\ RowBecomes(req[r].user, a)
                   /\ ~a.isVerified /\ ~a.isActive /\ a.email = req[r].email
                   /\ a.link = account[req[r].user].link /\ a.used = account[req[r].user].used
<1> USE DEF TInv
<1> DEFINE u == req[r].user
           a == [account[u] EXCEPT !.email = req[r].email, !.isVerified = FALSE, !.isActive = FALSE]
<1>1. Open(r) /\ req[r] \in RequestRecords
  BY OpenShape DEF WriteEmail
<1>2. Registered(u) /\ u \in Users /\ req[r].op = "update" /\ req[r].email \in Emails
  BY <1>1 DEF WriteEmail, RequestsFit, Fit, Registered, RequestRecords
<1>3. account[u] \in Accounts
  BY <1>2, RowShape
<1>4. /\ a \in Accounts /\ ~a.isVerified /\ ~a.isActive /\ a.email = req[r].email
      /\ a.link = account[u].link /\ a.used = account[u].used
  BY <1>2, <1>3 DEF Accounts
<1>5. ASSUME SetEmail(u, req[r].email)
      PROVE  RowBecomes(u, a)
  <2>1. account' = [account EXCEPT ![u] = a]
    BY <1>5 DEF SetEmail
  <2>2. QED
    BY <1>2, <1>4, <2>1 DEF RowBecomes, TypeOK
<1>6. QED
  BY <1>1, <1>2, <1>3, <1>4, <1>5 DEF WriteEmail

LEMMA TimeRow ==
    ASSUME TInv, NEW u \in Users, HourPasses(u) \/ LinkExpires(u)
    PROVE  /\ Registered(u) /\ account[u] \in Accounts
           /\ \E a \in Accounts :
                /\ RowBecomes(u, a)
                /\ a.link = account[u].link /\ a.email = account[u].email /\ a.used = account[u].used
                /\ a.isVerified = account[u].isVerified /\ a.isActive = account[u].isActive
<1> USE DEF TInv
<1>1. Registered(u) /\ account[u] \in Accounts
  BY RowShape DEF HourPasses, LinkExpires
<1>2. ASSUME NEW a \in Accounts, account' = [account EXCEPT ![u] = a]
      PROVE  RowBecomes(u, a)
  BY <1>2 DEF RowBecomes, TypeOK
<1>3. CASE HourPasses(u)
  <2> DEFINE a == [account[u] EXCEPT !.recent = FALSE]
  <2>1. /\ a \in Accounts
        /\ a.link = account[u].link /\ a.email = account[u].email /\ a.used = account[u].used
        /\ a.isVerified = account[u].isVerified /\ a.isActive = account[u].isActive
    BY <1>1 DEF Accounts
  <2>2. account' = [account EXCEPT ![u] = a]
    BY <1>3 DEF HourPasses
  <2>3. QED
    BY <1>1, <1>2, <2>1, <2>2
<1>4. CASE LinkExpires(u)
  <2> DEFINE a == [account[u] EXCEPT !.expired = TRUE]
  <2>1. /\ a \in Accounts
        /\ a.link = account[u].link /\ a.email = account[u].email /\ a.used = account[u].used
        /\ a.isVerified = account[u].isVerified /\ a.isActive = account[u].isActive
    BY <1>1 DEF Accounts
  <2>2. account' = [account EXCEPT ![u] = a]
    BY <1>4 DEF LinkExpires
  <2>3. QED
    BY <1>1, <1>2, <2>1, <2>2
<1>5. QED
  BY <1>3, <1>4

LEMMA RelinkTyped ==
    ASSUME TInv, NEW r \in Requests, NEW k \in Links, Relink(r, k)
    PROVE  TInv'
<1> USE DEF TInv
<1>1. /\ Open(r) /\ req[r] \in RequestRecords /\ Registered(req[r].user) /\ MakeLink(r, k)
  BY RelinkRow
<1>2. PICK a \in Accounts :
         /\ account' = [account EXCEPT ![req[r].user] = a] /\ a.link = k
         /\ a.isVerified = account[req[r].user].isVerified
         /\ a.isActive = account[req[r].user].isActive
  BY RelinkRow DEF RowBecomes
<1>3. a.isActive => a.isVerified
  BY <1>1, <1>2 DEF RowsFit, RowFits, RequestRecords
<1>4. RequestsFit' /\ RowsFit'
  BY <1>1, <1>2, <1>3, NewLinkFits
<1>5. UNCHANGED <<mailbox, proven, overlapped>> /\ lost' \subseteq Users /\ resent' \in [Users -> Nat]
  BY <1>1 DEF Relink, TypeOK, RequestRecords
<1>6. TypeOK'
  BY <1>1, <1>2, <1>5, MakeTyped
<1>7. QED
  BY <1>4, <1>6

(* A row that keeps its link stays fit. *)
LEMMA BecomesFits ==
    ASSUME TInv, NEW u, NEW a, RowBecomes(u, a), Registered(u), a.link = account[u].link,
           a.isActive => a.isVerified, made' = made,
           req' \in [Requests -> RequestRecords \cup {Idle}],
           \A o \in Requests :
              \/ req'[o] = req[o] \/ req'[o] = Idle
              \/ req'[o].step # "mail" /\ Fit(req'[o], account', made)
    PROVE  RequestsFit' /\ RowsFit' /\ account' \in [Users -> Accounts \cup {NoAccount}]
<1>1. \A v \in Users :
         \/ account'[v] = account[v]
         \/ /\ Registered(v) /\ account'[v] \in Accounts
            /\ account'[v].link = account[v].link
            /\ account'[v].isActive => account'[v].isVerified
  BY DEF RowBecomes
<1>2. account' \in [Users -> Accounts \cup {NoAccount}]
  BY DEF RowBecomes, TInv, TypeOK
<1>3. QED
  BY <1>1, <1>2, QuietFits

LEMMA ActivateTyped ==
    ASSUME TInv, NEW r \in Requests, Activate(r)
    PROVE  TInv'
<1> USE DEF TInv
<1>1. Open(r) /\ req[r] \in RequestRecords /\ Registered(req[r].user)
  BY ActivateRow
<1>2. PICK a \in Accounts :
         RowBecomes(req[r].user, a) /\ a.isVerified /\ a.link = account[req[r].user].link
  BY ActivateRow
<1>3. Finish(r) /\ UNCHANGED <<made, mailbox, resent, lost, overlapped>>
  BY DEF Activate
<1>4. RequestsFit' /\ RowsFit' /\ account' \in [Users -> Accounts \cup {NoAccount}]
  BY <1>1, <1>2, <1>3, FinishShape, BecomesFits
<1>5. proven' \in [Users -> SUBSET Emails]
  BY DEF Activate, TypeOK
<1>6. QED
  BY <1>3, <1>4, <1>5, FinishShape DEF TypeOK

LEMMA WriteTyped ==
    ASSUME TInv, NEW r \in Requests, WriteEmail(r)
    PROVE  TInv'
<1> USE DEF TInv
<1>1. Open(r) /\ req[r] \in RequestRecords /\ Registered(req[r].user) /\ req[r].op = "update"
  BY WriteRow
<1>2. UNCHANGED <<made, mailbox, proven, resent, lost, overlapped>>
  BY DEF WriteEmail
<1>3. CASE Finish(r) /\ UNCHANGED account
  BY <1>2, <1>3, FinishShape, QuietFits DEF TypeOK
<1>4. ASSUME NEW a \in Accounts, Go(r, "relink"), RowBecomes(req[r].user, a), ~a.isActive,
             a.link = account[req[r].user].link
      PROVE  TInv'
  <2>1. /\ req' \in [Requests -> RequestRecords \cup {Idle}]
        /\ req'[r].step = "relink" /\ req'[r].op = "update" /\ req'[r].user = req[r].user
        /\ \A o \in Requests \ {r} : req'[o] = req[o]
    BY <1>1, <1>4, GoShape DEF Steps
  <2>2. Fit(req'[r], account', made)
    BY <1>4, <2>1, RowShape DEF Fit, RowBecomes
  <2>3. RequestsFit' /\ RowsFit' /\ account' \in [Users -> Accounts \cup {NoAccount}]
    BY <1>1, <1>2, <1>4, <2>1, <2>2, BecomesFits
  <2>4. QED
    BY <1>2, <2>1, <2>3 DEF TypeOK
<1>5. QED
  BY <1>3, <1>4, WriteRow

LEMMA MailTyped ==
    ASSUME TInv, NEW r \in Requests, Mail(r)
    PROVE  TInv'
<1> USE DEF TInv
<1>1. req[r] \in RequestRecords /\ req[r].link \in made
  BY OpenShape DEF Mail, RequestsFit, Fit
<1>2. mailbox' \in [Emails -> SUBSET made]
  BY <1>1 DEF Mail, TypeOK, RequestRecords
<1>3. Finish(r) /\ UNCHANGED <<account, made, proven, resent, lost, overlapped>>
  BY DEF Mail
<1>4. RequestsFit' /\ RowsFit'
  BY <1>3, FinishShape, QuietFits
<1>5. QED
  BY <1>2, <1>3, <1>4, FinishShape DEF TypeOK

(* An hour passes, or a link expires. *)
LEMMA TimeTyped ==
    ASSUME TInv, NEW u \in Users, HourPasses(u) \/ LinkExpires(u)
    PROVE  TInv'
<1> USE DEF TInv
<1>1. UNCHANGED <<made, mailbox, proven, lost, overlapped, req>> /\ resent' \in [Users -> Nat]
  BY DEF HourPasses, LinkExpires, TypeOK
<1>2. Registered(u)
  BY TimeRow
<1>3. PICK a \in Accounts : /\ RowBecomes(u, a) /\ a.link = account[u].link
                            /\ a.isVerified = account[u].isVerified
                            /\ a.isActive = account[u].isActive
  BY TimeRow
<1>4. a.isActive => a.isVerified
  BY <1>2, <1>3 DEF RowsFit, RowFits
<1>5. RequestsFit' /\ RowsFit' /\ account' \in [Users -> Accounts \cup {NoAccount}]
  BY <1>1, <1>2, <1>3, <1>4, BecomesFits DEF TypeOK
<1>6. QED
  BY <1>1, <1>5 DEF TypeOK

LEMMA TInvStep == TInv /\ [Next]_vars => TInv'
<1>1. TInv /\ UNCHANGED vars => TInv'
  BY DEF TInv, TypeOK, RequestsFit, RowsFit, RowFits, Open, Registered, vars
<1>2. QED
  BY <1>1, CallTyped, CheckTyped, InsertTyped, RelinkTyped, ActivateTyped, WriteTyped,
     MailTyped, TimeTyped DEF Next, Serve

LEMMA TInvHolds == Spec => []TInv
<1>1. Init => TInv
  BY DEF Init, TInv, TypeOK, RequestsFit, RowsFit, Open, Registered
<1>2. QED
  BY <1>1, TInvStep, PTL DEF Spec

(* Rows, mailboxes and requests of register, verifyEmail,                  *)
(* resendVerificationEmail and updateProfile keep their shape.             *)
THEOREM TypeCorrect == Spec => []TypeOK
<1>1. TInv => TypeOK
  BY DEF TInv
<1>2. QED
  BY <1>1, TInvHolds, PTL

-----------------------------------------------------------------------------
(* A locked account has a fresh link *)

Locked(u) == Registered(u) /\ ~account[u].isVerified /\ account[u].used
Relinking(r, u) ==
    Open(r) /\ req[r].op = "update" /\ req[r].step = "relink" /\ req[r].user = u
Excused(u) == u \in lost \/ \E r \in Requests : Relinking(r, u)

(* A request changes by its own steps only. *)
LEMMA RequestStep ==
    ASSUME TInv, [Next]_vars, NEW o \in Requests
    PROVE  req'[o] = req[o] \/ Serve(o) \/ Fail(o) \/ \E u \in Users : Call(o, u)
<1> USE DEF TInv, TypeOK
<1>1. ASSUME NEW r \in Requests, r # o, Serve(r)
      PROVE  req'[o] = req[o]
  BY <1>1 DEF Serve, CheckEmail, CheckIdentity, Insert, Activate, CountRecent, Relink, Mail,
              CheckTaken, WriteEmail, MakeLink, Go, Finish
<1>2. ASSUME NEW r \in Requests, r # o, Fail(r)
      PROVE  req'[o] = req[o]
  BY <1>2 DEF Fail, Finish
<1>3. ASSUME NEW r \in Requests, r # o, NEW u \in Users, Call(r, u)
      PROVE  req'[o] = req[o]
  BY <1>3 DEF Call, Register, VerifyEmail, Resend, UpdateProfile, Arrive
<1>4. QED
  BY <1>1, <1>2, <1>3 DEF Next, HourPasses, LinkExpires, vars

(* An excuse ends only with a new link. *)
LEMMA ExcuseStep ==
    ASSUME TInv, [Next]_vars, NEW u \in Users, Excused(u)
    PROVE  Excused(u)' \/ \E r \in Requests, k \in Links : Relink(r, k) /\ req[r].user = u
<1>1. u \in lost => u \in lost' \/ \E r \in Requests, k \in Links : Relink(r, k) /\ req[r].user = u
  BY DEF Next, Serve, Call, vars, CheckEmail, CheckIdentity, Insert, Activate, CountRecent, Relink,
         CheckTaken, WriteEmail, Mail, Fail, Register, VerifyEmail, Resend, UpdateProfile,
         HourPasses, LinkExpires
<1>2. ASSUME NEW o \in Requests, Relinking(o, u)
      PROVE  Excused(u)' \/ \E r \in Requests, k \in Links : Relink(r, k) /\ req[r].user = u
  <2>1. CASE req'[o] = req[o]
    BY <1>2, <2>1 DEF Excused, Relinking, Open
  <2>2. CASE Fail(o)
    BY <1>2, <2>2 DEF Fail, Excused, Relinking
  <2>3. ASSUME NEW v \in Users
        PROVE  ~Call(o, v)
    BY <1>2 DEF Relinking, Open, Call, Register, VerifyEmail, Resend, UpdateProfile, Arrive
  <2>4. CASE Serve(o)
    BY <1>2, <2>4 DEF Relinking, Serve, CheckEmail, CheckIdentity, Insert, Activate, CountRecent,
                      CheckTaken, WriteEmail, Mail
  <2>5. QED
    BY <2>1, <2>2, <2>3, <2>4, RequestStep
<1>3. QED
  BY <1>1, <1>2 DEF Excused

(* An account gets into the lock behind a spent link only by a change of   *)
(* its address, and a new link ends it.                                    *)
LEMMA LockedStep ==
    ASSUME TInv, [Next]_vars, NEW u \in Users, Locked(u)'
    PROVE  /\ Locked(u) \/ \E r \in Requests : Relinking(r, u)'
           /\ \A r \in Requests, k \in Links : Relink(r, k) => req[r].user # u
<1> USE DEF TInv
<1>1. UNCHANGED account => Locked(u)
  BY DEF Locked, Registered
<1>2. ASSUME NEW r \in Requests, NEW k \in Links, Insert(r, k)
      PROVE  Locked(u)
  <2>1. req[r] \in RequestRecords
    BY <1>2, OpenShape DEF Insert
  <2>2. QED
    BY <1>1, <1>2, <2>1 DEF Insert, Locked, Registered, TypeOK, RequestRecords
<1>3. ASSUME NEW r \in Requests, NEW k \in Links, Relink(r, k)
      PROVE  Locked(u) /\ req[r].user # u
  BY <1>3, RelinkRow DEF RowBecomes, Locked, Registered
<1>4. ASSUME NEW r \in Requests, Activate(r)
      PROVE  Locked(u)
  BY <1>4, ActivateRow DEF RowBecomes, Locked, Registered
<1>5. ASSUME NEW r \in Requests, WriteEmail(r)
      PROVE  Locked(u) \/ \E o \in Requests : Relinking(o, u)'
  <2>1. Open(r) /\ req[r].op = "update"
    BY <1>5, WriteRow
  <2>2. CASE UNCHANGED account
    BY <1>1, <2>2
  <2>3. ASSUME NEW a, RowBecomes(req[r].user, a), Go(r, "relink")
        PROVE  Locked(u) \/ \E o \in Requests : Relinking(o, u)'
    <3>1. /\ req'[r] \in RequestRecords /\ req'[r].step = "relink" /\ req'[r].op = "update"
          /\ req'[r].user = req[r].user
      BY <2>1, <2>3, GoShape DEF Steps
    <3>2. CASE req[r].user = u
      BY <3>1, <3>2, OpenShape DEF Relinking, Open
    <3>3. CASE req[r].user # u
      BY <2>3, <3>3 DEF RowBecomes, Locked, Registered
    <3>4. QED
      BY <3>2, <3>3
  <2>4. QED
    BY <1>5, <2>2, <2>3, WriteRow
<1>6. ASSUME NEW v \in Users, HourPasses(v) \/ LinkExpires(v)
      PROVE  Locked(u)
  BY <1>6, TimeRow DEF RowBecomes, Locked, Registered
<1>7. Locked(u) \/ \E r \in Requests : Relinking(r, u)'
  BY <1>1, <1>2, <1>3, <1>4, <1>5, <1>6
     DEF Next, Serve, Call, vars, CheckEmail, CheckIdentity, CountRecent, CheckTaken, Mail, Fail,
         Register, VerifyEmail, Resend, UpdateProfile
<1>8. QED
  BY <1>3, <1>7

(* No account is locked behind a link that was used, except while          *)
(* updateProfile is about to make one, or after it broke off before that.  *)
THEOREM LockedCanUnlock == Spec => []LockedHasFreshLink
<1>1. LockedHasFreshLink <=> \A u \in Users : Locked(u) => Excused(u)
  BY DEF LockedHasFreshLink, Locked, Excused, Relinking, Open
<1>2. Init => LockedHasFreshLink
  BY DEF Init, LockedHasFreshLink, Registered
<1>3. ASSUME TInv, LockedHasFreshLink, [Next]_vars
      PROVE  LockedHasFreshLink'
  <2>1. ASSUME NEW u \in Users, Locked(u)'
        PROVE  Excused(u)'
    <3>1. CASE \E r \in Requests : Relinking(r, u)'
      BY <3>1 DEF Excused
    <3>2. CASE Locked(u)
      BY <1>1, <1>3, <2>1, <3>2, LockedStep, ExcuseStep
    <3>3. QED
      BY <1>3, <2>1, <3>1, <3>2, LockedStep
  <2>2. QED
    BY <2>1 DEF LockedHasFreshLink, Locked, Excused, Relinking, Open
<1>4. QED
  BY <1>2, <1>3, TInvHolds, PTL DEF Spec

-----------------------------------------------------------------------------
(* A verified address was proven, unless requests of its citizen overlapped *)

(* What Calm looks at in a row. *)
SameRow(u) ==
    \/ account'[u] = account[u]
    \/ /\ Registered(u) /\ account'[u] # NoAccount
       /\ account'[u].link = account[u].link /\ account'[u].email = account[u].email
       /\ account'[u].used = account[u].used /\ account'[u].isVerified = account[u].isVerified

(* A calm citizen stays so when the row stays and no request of theirs goes *)
(* on, whatever others do.                                                 *)
LEMMA CalmOthers ==
    ASSUME TInv, NEW u \in Users, Calm(u), SameRow(u), proven'[u] = proven[u],
           \A o \in Requests : req'[o] # Idle /\ req'[o].user = u => req'[o] = req[o],
           \A e \in Emails : mailbox[e] \subseteq mailbox'[e],
           Registered(u) => \A e \in Emails :
              account[u].link \in mailbox'[e] => account[u].link \in mailbox[e] \/ e = account[u].email
    PROVE  Calm(u)'
<1> USE DEF TInv
<1>1. Alone(u)'
  BY DEF Calm, Alone, Open
<1>2. (Registered(u) => LinkPrivate(u) /\ VerifiedSound(u))'
  <2>1. ASSUME account'[u] # NoAccount
        PROVE  Registered(u) /\ LinkPrivate(u)' /\ VerifiedSound(u)'
    BY <2>1 DEF Calm, SameRow, Registered, LinkPrivate, VerifiedSound
  <2>2. QED
    BY <2>1 DEF Registered
<1>3. ASSUME NEW o \in Requests, req'[o] # Idle, req'[o].user = u
      PROVE  Knows(req'[o], account'[u], mailbox')
  <2>1. req'[o] = req[o] /\ Open(o) /\ Knows(req[o], account[u], mailbox)
    BY <1>3 DEF Open, Calm
  <2>2. req[o].step \in {"count", "relink", "taken", "write", "activate", "mail"} => Registered(u)
    BY <1>3, <2>1 DEF RequestsFit, Fit, Registered
  <2>3. Registered(u) => account[u].email \in Emails
    BY RowShape DEF Accounts
  <2>4. QED
    BY <2>1, <2>2, <2>3 DEF Knows, SameRow
<1>4. QED
  BY <1>1, <1>2, <1>3 DEF Calm, Open

(* The only request of a calm citizen takes a step, or comes in. *)
LEMMA CalmMine ==
    ASSUME TInv, NEW u \in Users, Calm(u), NEW r \in Requests,
           \A o \in Requests \ {r} : ~(Open(o) /\ req[o].user = u) /\ req'[o] = req[o],
           req'[r] = Idle \/ (req'[r].user = u /\ Knows(req'[r], account'[u], mailbox')),
           account'[u] # NoAccount => LinkPrivate(u)' /\ VerifiedSound(u)'
    PROVE  Calm(u)'
<1>1. \A o \in Requests : req'[o] # Idle /\ req'[o].user = u => o = r
  BY DEF Open
<1>2. Alone(u)'
  BY <1>1 DEF Alone, Open
<1>3. QED
  BY <1>1, <1>2 DEF Calm, Open, Registered

(* While a request of a calm citizen is open, it is the only one. *)
LEMMA CalmOnly ==
    ASSUME NEW u \in Users, Calm(u), NEW r \in Requests, Open(r), req[r].user = u
    PROVE  /\ \A o \in Requests \ {r} : ~(Open(o) /\ req[o].user = u)
           /\ Knows(req[r], account[u], mailbox)
BY DEF Calm, Alone

LEMMA CalmCall ==
    ASSUME TInv, NEW u \in Users, Calm(u), NEW r \in Requests, NEW v \in Users, Call(r, v),
           u \notin overlapped'
    PROVE  Calm(u)'
<1> USE DEF TInv
<1>1. Registered(v) => account[v].email \in Emails
  BY RowShape DEF Accounts
<1>2. ASSUME NEW op \in Ops, NEW step \in Steps, NEW e \in Emails, NEW k \in Links \cup {NoLink},
             Arrive(r, op, step, v, e, k), UNCHANGED <<account, mailbox, proven>>,
             v = u => Knows([op |-> op, step |-> step, user |-> v, email |-> e, link |-> k],
                            account[u], mailbox)
      PROVE  Calm(u)'
  <2>1. /\ req'[r] = [op |-> op, step |-> step, user |-> v, email |-> e, link |-> k]
        /\ \A o \in Requests \ {r} : req'[o] = req[o]
        /\ v \notin overlapped' => \A o \in Requests : Open(o) => req[o].user # v
    BY <1>2, ArriveShape
  <2>2. CASE v # u
    BY <1>2, <2>1, <2>2, CalmOthers DEF SameRow
  <2>3. CASE v = u
    <3>1. account'[u] # NoAccount => LinkPrivate(u)' /\ VerifiedSound(u)'
      BY <1>2 DEF Calm, Registered, LinkPrivate, VerifiedSound
    <3>2. Knows(req'[r], account'[u], mailbox') /\ req'[r].user = u
      BY <1>2, <2>1, <2>3
    <3>3. \A o \in Requests \ {r} : ~(Open(o) /\ req[o].user = u) /\ req'[o] = req[o]
      BY <2>1, <2>3
    <3>4. QED
      BY <3>1, <3>2, <3>3, CalmMine
  <2>4. QED
    BY <2>2, <2>3
<1>3. ASSUME NEW e \in Emails, Register(r, v, e)
      PROVE  Calm(u)'
  BY <1>2, <1>3 DEF Register, Knows, Ops, Steps
<1>4. ASSUME NEW e \in Emails, UpdateProfile(r, v, e)
      PROVE  Calm(u)'
  <2>1. v = u => account[u].used
    BY <1>4 DEF UpdateProfile, RowsFit, RowFits, Calm, VerifiedSound
  <2>2. QED
    BY <1>2, <1>4, <2>1 DEF UpdateProfile, Knows, Ops, Steps
<1>5. ASSUME NEW k \in Links, VerifyEmail(r, v, k)
      PROVE  Calm(u)'
  <2>1. v = u => ~account[u].used /\ k \in mailbox[account[u].email]
    BY <1>5 DEF VerifyEmail, Acceptable, Calm, LinkPrivate
  <2>2. QED
    BY <1>1, <1>2, <1>5, <2>1 DEF VerifyEmail, Acceptable, Knows, Ops, Steps
<1>6. ASSUME Resend(r, v)
      PROVE  Calm(u)'
  BY <1>1, <1>2, <1>6 DEF Resend, Knows, Ops, Steps
<1>7. QED
  BY <1>3, <1>4, <1>5, <1>6 DEF Call

(* A check ends the request, or leaves what it knows true. *)
LEMMA CalmCheck ==
    ASSUME TInv, NEW u \in Users, Calm(u), NEW r \in Requests,
           CheckEmail(r) \/ CheckIdentity(r) \/ CountRecent(r) \/ CheckTaken(r) \/ Fail(r)
    PROVE  Calm(u)'
<1> USE DEF TInv
<1>1. Open(r)
  BY OpenShape DEF CheckEmail, CheckIdentity, CountRecent, CheckTaken, Fail, Open
<1>2. UNCHANGED <<account, mailbox, proven>>
  BY DEF CheckEmail, CheckIdentity, CountRecent, CheckTaken, Fail
<1>3. CASE Finish(r)
  BY <1>2, <1>3, FinishShape, CalmOthers DEF SameRow
<1>4. ASSUME NEW step \in Steps, Go(r, step),
             req[r].user = u => \A x : x.step = step /\ x.email = req[r].email
                                   => Knows(x, account[u], mailbox)
      PROVE  Calm(u)'
  <2>1. /\ req'[r].step = step /\ req'[r].email = req[r].email /\ req'[r].user = req[r].user
        /\ \A o \in Requests \ {r} : req'[o] = req[o]
    BY <1>1, <1>4, GoShape
  <2>2. CASE req[r].user # u
    BY <1>2, <2>1, <2>2, CalmOthers DEF SameRow
  <2>3. CASE req[r].user = u
    <3>1. account'[u] # NoAccount => LinkPrivate(u)' /\ VerifiedSound(u)'
      BY <1>2 DEF Calm, Registered, LinkPrivate, VerifiedSound
    <3>2. Knows(req'[r], account'[u], mailbox') /\ req'[r].user = u
      BY <1>2, <1>4, <2>1, <2>3
    <3>3. \A o \in Requests \ {r} : ~(Open(o) /\ req[o].user = u) /\ req'[o] = req[o]
      BY <1>1, <2>1, <2>3, CalmOnly
    <3>4. QED
      BY <3>1, <3>2, <3>3, CalmMine
  <2>4. QED
    BY <2>2, <2>3
<1>5. req[r].user = u => Knows(req[r], account[u], mailbox)
  BY <1>1, CalmOnly
<1>6. CASE req[r].step = "email" /\ Go(r, "identity")
  BY <1>4, <1>6 DEF Knows, Steps
<1>7. CASE req[r].step = "identity" /\ Go(r, "insert")
  BY <1>4, <1>7 DEF Knows, Steps
<1>8. CASE req[r].step = "count" /\ Go(r, "relink")
  BY <1>4, <1>5, <1>8 DEF Knows, Steps
<1>9. CASE req[r].step = "taken" /\ Go(r, "write")
  BY <1>4, <1>5, <1>9 DEF Knows, Steps
<1>10. QED
  BY <1>3, <1>6, <1>7, <1>8, <1>9 DEF CheckEmail, CheckIdentity, CountRecent, CheckTaken, Fail

(* A new link is in no mailbox yet, and its account is not verified. *)
LEMMA CalmNewLink ==
    ASSUME TInv, NEW u \in Users, Calm(u), NEW r \in Requests, Open(r), NEW k \in Links,
           MakeLink(r, k), NEW a, RowBecomes(req[r].user, a), UNCHANGED <<mailbox, proven>>,
           a.link = k,
           req[r].user = u => ~a.isVerified /\ a.email = req[r].email
    PROVE  Calm(u)'
<1> USE DEF TInv
<1>1. /\ req'[r].step = "mail" /\ req'[r].link = k
      /\ req'[r].user = req[r].user /\ req'[r].email = req[r].email
      /\ \A o \in Requests \ {r} : req'[o] = req[o]
      /\ k \notin made
  BY MakeShape
<1>2. CASE req[r].user # u
  BY <1>1, <1>2, CalmOthers DEF SameRow, RowBecomes
<1>3. CASE req[r].user = u
  <2>1. account'[u] = a
    BY <1>3 DEF RowBecomes
  <2>2. LinkPrivate(u)' /\ VerifiedSound(u)'
    BY <1>1, <1>3, <2>1 DEF LinkPrivate, VerifiedSound, TypeOK
  <2>3. Knows(req'[r], account'[u], mailbox') /\ req'[r].user = u
    BY <1>1, <1>3, <2>1 DEF Knows
  <2>4. \A o \in Requests \ {r} : ~(Open(o) /\ req[o].user = u) /\ req'[o] = req[o]
    BY <1>1, <1>3, CalmOnly
  <2>5. QED
    BY <2>2, <2>3, <2>4, CalmMine
<1>4. QED
  BY <1>2, <1>3

LEMMA CalmInsert ==
    ASSUME TInv, NEW u \in Users, Calm(u), NEW r \in Requests, NEW k \in Links, Insert(r, k)
    PROVE  Calm(u)'
<1> USE DEF TInv
<1>1. Open(r) /\ req[r] \in RequestRecords /\ UNCHANGED <<mailbox, proven>>
  BY OpenShape DEF Insert
<1>2. CASE Finish(r) /\ UNCHANGED account
  BY <1>1, <1>2, FinishShape, CalmOthers DEF SameRow
<1>3. CASE ~(Finish(r) /\ UNCHANGED account)
  <2> DEFINE a == [email |-> req[r].email, isVerified |-> FALSE, isActive |-> FALSE, link |-> k,
                   used |-> FALSE, expired |-> FALSE, recent |-> TRUE]
  <2>1. MakeLink(r, k) /\ account' = [account EXCEPT ![req[r].user] = a]
    BY <1>3 DEF Insert
  <2>2. a \in Accounts /\ a.link = k /\ ~a.isVerified /\ a.email = req[r].email
    BY <1>1 DEF Accounts, RequestRecords
  <2>3. RowBecomes(req[r].user, a)
    BY <1>1, <2>1, <2>2 DEF RowBecomes, TypeOK, RequestRecords
  <2>4. QED
    BY <1>1, <2>1, <2>2, <2>3, CalmNewLink
<1>4. QED
  BY <1>2, <1>3

LEMMA CalmRelink ==
    ASSUME TInv, NEW u \in Users, Calm(u), NEW r \in Requests, NEW k \in Links, Relink(r, k)
    PROVE  Calm(u)'
<1>1. Open(r) /\ MakeLink(r, k) /\ UNCHANGED <<mailbox, proven>> /\ req[r].step = "relink"
  BY RelinkRow DEF Relink
<1>2. PICK a : /\ RowBecomes(req[r].user, a) /\ a.link = k
               /\ a.email = account[req[r].user].email
               /\ a.isVerified = account[req[r].user].isVerified
  BY RelinkRow
<1>3. req[r].user = u => ~account[u].isVerified /\ req[r].email = account[u].email
  BY <1>1, CalmOnly DEF Knows
<1>4. QED
  BY <1>1, <1>2, <1>3, CalmNewLink

(* The address that is verified is the one the link was sent to. *)
LEMMA CalmActivate ==
    ASSUME TInv, NEW u \in Users, Calm(u), NEW r \in Requests, Activate(r)
    PROVE  Calm(u)'
<1> USE DEF TInv
<1>1. /\ Open(r) /\ Finish(r) /\ UNCHANGED mailbox /\ req[r].step = "activate"
      /\ req[r].user \in Users /\ account[req[r].user] \in Accounts
  BY ActivateRow DEF Activate, RequestRecords
<1>2. PICK a : /\ RowBecomes(req[r].user, a) /\ a.used
               /\ a.email = account[req[r].user].email
  BY ActivateRow
<1>3. req'[r] = Idle /\ \A o \in Requests \ {r} : req'[o] = req[o]
  BY <1>1, FinishShape
<1>4. CASE req[r].user # u
  <2>1. proven'[u] = proven[u]
    BY <1>4 DEF Activate, TypeOK
  <2>2. QED
    BY <1>1, <1>2, <1>3, <1>4, <2>1, CalmOthers DEF SameRow, RowBecomes
<1>5. CASE req[r].user = u
  <2>1. account'[u] = a
    BY <1>2, <1>5 DEF RowBecomes
  <2>2. req[r].link \in mailbox[account[u].email]
    BY <1>1, <1>5, CalmOnly DEF Knows
  <2>3. account[u].email \in proven'[u]
    BY <1>1, <1>5, <2>2 DEF Activate, TypeOK, Accounts
  <2>4. LinkPrivate(u)' /\ VerifiedSound(u)'
    BY <1>2, <1>5, <2>1, <2>3 DEF LinkPrivate, VerifiedSound
  <2>5. \A o \in Requests \ {r} : ~(Open(o) /\ req[o].user = u) /\ req'[o] = req[o]
    BY <1>1, <1>3, <1>5, CalmOnly
  <2>6. QED
    BY <1>3, <2>4, <2>5, CalmMine
<1>6. QED
  BY <1>4, <1>5

(* A new address makes the account unverified, behind a spent link. *)
LEMMA CalmWrite ==
    ASSUME TInv, NEW u \in Users, Calm(u), NEW r \in Requests, WriteEmail(r)
    PROVE  Calm(u)'
<1> USE DEF TInv
<1>1. Open(r) /\ UNCHANGED <<mailbox, proven>> /\ req[r].step = "write"
  BY WriteRow DEF WriteEmail
<1>2. CASE Finish(r) /\ UNCHANGED account
  BY <1>1, <1>2, FinishShape, CalmOthers DEF SameRow
<1>3. ASSUME NEW a, Go(r, "relink"), RowBecomes(req[r].user, a), ~a.isVerified,
             a.email = req[r].email, a.used = account[req[r].user].used
      PROVE  Calm(u)'
  <2>1. /\ req'[r].step = "relink" /\ req'[r].email = req[r].email /\ req'[r].user = req[r].user
        /\ \A o \in Requests \ {r} : req'[o] = req[o]
    BY <1>1, <1>3, GoShape DEF Steps
  <2>2. CASE req[r].user # u
    BY <1>1, <1>3, <2>1, <2>2, CalmOthers DEF SameRow, RowBecomes
  <2>3. CASE req[r].user = u
    <3>1. account'[u] = a /\ account[u].used
      BY <1>1, <1>3, <2>3, CalmOnly DEF RowBecomes, Knows
    <3>2. LinkPrivate(u)' /\ VerifiedSound(u)'
      BY <1>3, <2>3, <3>1 DEF LinkPrivate, VerifiedSound
    <3>3. Knows(req'[r], account'[u], mailbox') /\ req'[r].user = u
      BY <1>3, <2>1, <2>3, <3>1 DEF Knows
    <3>4. \A o \in Requests \ {r} : ~(Open(o) /\ req[o].user = u) /\ req'[o] = req[o]
      BY <1>1, <2>1, <2>3, CalmOnly
    <3>5. QED
      BY <3>2, <3>3, <3>4, CalmMine
  <2>4. QED
    BY <2>2, <2>3
<1>4. QED
  BY <1>2, <1>3, WriteRow

(* A mail goes to the address of its own account, and carries nobody       *)
(* else's link.                                                            *)
LEMMA CalmMail ==
    ASSUME TInv, NEW u \in Users, Calm(u), NEW r \in Requests, Mail(r)
    PROVE  Calm(u)'
<1> USE DEF TInv
<1>1. /\ Open(r) /\ req[r].step = "mail" /\ req[r] \in RequestRecords
      /\ Finish(r) /\ UNCHANGED <<account, proven>>
  BY OpenShape DEF Mail
<1>2. \A e \in Emails : /\ mailbox[e] \subseteq mailbox'[e]
                        /\ mailbox'[e] \subseteq mailbox[e] \cup {req[r].link}
                        /\ e # req[r].email => mailbox'[e] = mailbox[e]
  BY <1>1 DEF Mail, TypeOK
<1>3. ASSUME Registered(u), account[u].link = req[r].link
      PROVE  req[r].email = account[u].email
  <2>1. req[r].user = u
    BY <1>1, <1>3 DEF RowsFit, RowFits
  <2>2. QED
    BY <1>1, <2>1, CalmOnly DEF Knows
<1>4. QED
  BY <1>1, <1>2, <1>3, FinishShape, CalmOthers DEF SameRow

LEMMA CalmTime ==
    ASSUME TInv, NEW u \in Users, Calm(u), NEW v \in Users, HourPasses(v) \/ LinkExpires(v)
    PROVE  Calm(u)'
<1>1. UNCHANGED <<mailbox, proven, req>>
  BY DEF HourPasses, LinkExpires
<1>2. SameRow(u)
  BY TimeRow, RowShape DEF SameRow, RowBecomes
<1>3. QED
  BY <1>1, <1>2, CalmOthers

LEMMA CalmStep ==
    ASSUME TInv, CalmInv, [Next]_vars
    PROVE  CalmInv'
<1>1. overlapped \subseteq overlapped'
  BY ArriveShape
     DEF Next, Serve, Call, vars, CheckEmail, CheckIdentity, Insert, Activate, CountRecent, Relink,
         CheckTaken, WriteEmail, Mail, Fail, Register, VerifyEmail, Resend, UpdateProfile, Arrive,
         HourPasses, LinkExpires
<1>2. ASSUME NEW u \in Users, u \notin overlapped'
      PROVE  Calm(u)'
  <2>1. Calm(u)
    BY <1>1, <1>2 DEF CalmInv
  <2>2. CASE UNCHANGED vars
    BY <2>1, <2>2, CalmOthers DEF vars, SameRow
  <2>3. QED
    BY <1>2, <2>1, <2>2, CalmCall, CalmCheck, CalmInsert, CalmRelink, CalmActivate, CalmWrite,
       CalmMail, CalmTime DEF Next, Serve
<1>3. QED
  BY <1>2 DEF CalmInv

(* An address is verified only after its mail was followed, whatever other *)
(* citizens, failures and expiry do: it takes overlapping requests of the  *)
(* citizen themselves to break that.                                       *)
THEOREM VerifiedIsProven == Spec => []VerifiedUnlessOverlapped
<1>1. Init => CalmInv
  BY DEF Init, CalmInv, Calm, Alone, Open, Registered
<1>2. CalmInv => VerifiedUnlessOverlapped
  BY DEF CalmInv, Calm, VerifiedSound, VerifiedUnlessOverlapped
<1>3. QED
  BY <1>1, <1>2, CalmStep, TInvHolds, PTL DEF Spec
=============================================================================
