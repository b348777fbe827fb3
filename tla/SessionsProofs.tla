--------------------------- MODULE SessionsProofs ---------------------------
(***************************************************************************)
(* Proofs about Sessions, for any sets of users, tokens and requests.      *)
(***************************************************************************)
EXTENDS Sessions, TLAPS

ReqTypeOK == req \in [Requests -> RequestRecords \cup {Idle}]

(* A request at a step of its own is a full request record. *)
LEMMA RequestShape ==
    ASSUME TypeOK, NEW r \in Requests, req[r].step # "idle"
    PROVE  req[r] \in RequestRecords
BY DEF TypeOK, Idle

(* A row that is not unissued is a full row. *)
LEMMA RowShape ==
    ASSUME TypeOK, NEW t \in Tokens, row[t].status # "unissued"
    PROVE  row[t] \in Rows /\ Issued(t)
BY DEF TypeOK, Unissued, Issued

(* A row of the table is a full row. *)
LEMMA IssuedShape ==
    ASSUME TypeOK, NEW t \in Tokens, Issued(t)
    PROVE  row[t] \in Rows
BY DEF TypeOK, Issued

(* A request record stays one when its step, outcome and captures change. *)
LEMMA OutcomeType ==
    ASSUME TypeOK, NEW r \in Requests, req[r].step # "idle",
           NEW reply \in Replies, Outcome(r, reply)
    PROVE  ReqTypeOK'
<1>1. req[r] \in RequestRecords
  BY RequestShape
<1>2. [req[r] EXCEPT !.step = "answer", !.reply = reply, !.found = "live",
                     !.seen = Blank, !.right = FALSE, !.locked = {}] \in RequestRecords
  <2>1. Blank \in UserRows
    BY PasswordAssumption DEF Blank, UserRows
  <2>2. "answer" \in InFlight
    BY DEF InFlight, Working
  <2>3. QED
    BY <1>1, <2>1, <2>2 DEF RequestRecords
<1>3. QED
  BY <1>2 DEF Outcome, ReqTypeOK, TypeOK

(* An arriving request is a full request record. *)
LEMMA ArriveType ==
    ASSUME TypeOK, NEW r \in Requests, NEW op \in Ops, NEW step \in InFlight,
           NEW u \in Users, NEW t \in Tokens \cup {NoToken}, NEW seen \in UserRows,
           NEW right \in BOOLEAN, NEW replay \in BOOLEAN,
           Arrive(r, op, step, u, t, seen, right, replay)
    PROVE  ReqTypeOK'
<1>1. [op |-> op, step |-> step, user |-> u, token |-> t, found |-> "live",
       seen |-> seen, right |-> right, locked |-> {}, replay |-> replay, reply |-> NoReply]
         \in RequestRecords
  BY DEF RequestRecords, NoReply, Replies, Codes
<1>2. QED
  BY <1>1 DEF Arrive, ReqTypeOK, TypeOK

(* The next step of a handler. *)
LEMMA StepType ==
    ASSUME TypeOK, NEW r \in Requests, req[r].step # "idle",
           NEW step \in InFlight, req' = [req EXCEPT ![r].step = step]
    PROVE  ReqTypeOK'
<1>1. req[r] \in RequestRecords
  BY RequestShape
<1>2. [req[r] EXCEPT !.step = step] \in RequestRecords
  BY <1>1 DEF RequestRecords
<1>3. QED
  BY <1>2 DEF ReqTypeOK, TypeOK

(* Revoking rows keeps the table in shape. *)
LEMMA RevokeType ==
    ASSUME TypeOK, NEW S, NEW cause \in Causes, Revoke(S, cause)
    PROVE  row' \in [Tokens -> Rows \cup {Unissued}]
<1>1. ASSUME NEW t \in Tokens, Live(t)
      PROVE  [row[t] EXCEPT !.status = "revoked", !.cause = cause] \in Rows
  BY <1>1, RowShape DEF Live, Rows, Causes
<1>2. QED
  BY <1>1 DEF Revoke, TypeOK

(* A new row, and the answer that carries it, are in shape. *)
LEMMA GenerateType ==
    ASSUME TypeOK, NEW r \in Requests, req[r].step # "idle", NEW t \in Tokens,
           NEW type \in TokenTypes, NEW parent \in Tokens \cup {NoToken},
           NEW auth \in 0..MaxPassword, GenerateTokens(r, t, type, parent, auth)
    PROVE  ReqTypeOK' /\ row' \in [Tokens -> Rows \cup {Unissued}]
<1>1. req[r] \in RequestRecords
  BY RequestShape
<1>2. ReqTypeOK'
  <2>1. [code |-> "ok", token |-> t] \in Replies
    BY DEF Replies, Codes
  <2>2. QED
    BY <2>1, OutcomeType DEF GenerateTokens
<1>3. req[r].user \in Users
  BY <1>1 DEF RequestRecords
<1>4. ASSUME NEW o \in BOOLEAN
      PROVE  [status |-> "live", owner |-> req[r].user, type |-> type, expired |-> FALSE,
              parent |-> parent, cause |-> "none", auth |-> auth, overlapped |-> o] \in Rows
  BY <1>3 DEF Rows, Causes
<1>5. QED
  BY <1>2, <1>4 DEF GenerateTokens, TypeOK

(* Request q fits table rw: the token it presented, the token it was       *)
(* answered with and those its transaction locked are rows of its user.    *)
Linked(q, rw) ==
    /\ q.step # "idle" /\ q.op \in FlightOps =>
          q.token \in Tokens /\ rw[q.token] # Unissued /\ rw[q.token].owner = q.user
    /\ q.step \in {"joined", "read", "gates"} => q.op \in FlightOps
    /\ q.step # "idle" /\ q.reply.token # NoToken =>
          rw[q.reply.token] # Unissued /\ rw[q.reply.token].owner = q.user
    /\ q.step = "open" =>
          /\ q.op \in PasswordOps
          /\ \A t \in q.locked : rw[t] # Unissued /\ rw[t].owner = q.user

(* Delivered tokens have rows, and every request fits the table. *)
Delivered ==
    /\ \A t \in held : Issued(t)
    /\ \A r \in Requests : Linked(req[r], row)

TInv == TypeOK /\ Delivered

(* A refusal is a reply. *)
LEMMA RefusalType ==
    ASSUME NEW c \in Codes PROVE Refusal(c) \in Replies
BY DEF Refusal, Replies

(* What clients hold are tokens. *)
LEMMA DeliverType ==
    ASSUME TypeOK, NEW r \in Requests, req[r].step # "idle", Deliver(r)
    PROVE  held' \subseteq Tokens
<1>1. req[r].reply.token \in Tokens \cup {NoToken}
  BY RequestShape DEF RequestRecords, Replies
<1>2. QED
  BY <1>1 DEF Deliver, TypeOK

-----------------------------------------------------------------------------
(* Every handler, and everything around the handlers, keeps the shapes.    *)
LEMMA TypeStep ==
    ASSUME TInv, [Next]_vars
    PROVE  TypeOK'
<1> USE DEF TInv
<1>1. ASSUME NEW r \in Requests, NEW u \in Users, NEW right \in BOOLEAN,
             LoginLookup(r, u, right)
      PROVE  TypeOK'
  <2>1. ReqTypeOK'
    BY <1>1, ArriveType DEF LoginLookup, TypeOK, Ops, InFlight, Working
  <2>2. QED
    BY <1>1, <2>1 DEF LoginLookup, TypeOK, ReqTypeOK
<1>2. ASSUME NEW r \in Requests, LoginReject(r)
      PROVE  TypeOK'
  <2>1. ReqTypeOK'
    <3>1. req[r].step # "idle" /\ Refusal("unauthorized") \in Replies
                               /\ Refusal("forbidden") \in Replies
      BY <1>2 DEF LoginReject, Refusal, Replies, Codes
    <3>2. QED
      BY <1>2, <3>1, OutcomeType DEF LoginReject
  <2>2. QED
    BY <1>2, <2>1 DEF LoginReject, TypeOK, ReqTypeOK
<1>3. ASSUME NEW r \in Requests, NEW t \in Tokens, LoginIssue(r, t)
      PROVE  TypeOK'
  <2>1. req[r].step # "idle" /\ req[r] \in RequestRecords
    BY <1>3, RequestShape DEF LoginIssue
  <2>2. LoginType(req[r]) \in TokenTypes /\ req[r].seen.password \in 0..MaxPassword
    BY <2>1 DEF LoginType, TokenTypes, RequestRecords, UserRows
  <2>3. ReqTypeOK' /\ row' \in [Tokens -> Rows \cup {Unissued}]
    BY <1>3, <2>1, <2>2, GenerateType DEF LoginIssue
  <2>4. QED
    BY <1>3, <2>3 DEF LoginIssue, TypeOK, ReqTypeOK
<1>4. ASSUME NEW r \in Requests, NEW t \in Tokens, NEW op \in FlightOps, StartFlight(r, op, t)
      PROVE  TypeOK'
  <2>1. row[t].owner \in Users /\ (~Live(t)) \in BOOLEAN /\ Blank \in UserRows
    BY <1>4, IssuedShape, PasswordAssumption
       DEF StartFlight, Delivered, Rows, Blank, UserRows
  <2>2. ReqTypeOK'
    BY <1>4, <2>1, ArriveType DEF StartFlight, Ops, InFlight, Working
  <2>3. QED
    BY <1>4, <2>2 DEF StartFlight, TypeOK, ReqTypeOK
<1>5. ASSUME NEW r \in Requests, NEW t \in Tokens, NEW op \in FlightOps, JoinFlight(r, op, t)
      PROVE  TypeOK'
  <2>1. row[t].owner \in Users /\ Blank \in UserRows
    BY <1>5, IssuedShape, PasswordAssumption
       DEF JoinFlight, Delivered, Rows, Blank, UserRows
  <2>2. ReqTypeOK'
    BY <1>5, <2>1, ArriveType DEF JoinFlight, Ops, InFlight
  <2>3. QED
    BY <1>5, <2>2 DEF JoinFlight, TypeOK, ReqTypeOK
<1>6. ASSUME NEW r \in Requests, RotateRead(r)
      PROVE  TypeOK'
  <2>1. req[r] \in RequestRecords
    BY <1>6, RequestShape DEF RotateRead
  <2>2. row[req[r].token].status \in {"live", "revoked", "deleted"} /\ user[req[r].user] \in UserRows
    BY <1>6, <2>1, IssuedShape DEF RotateRead, Delivered, Linked, Issued, Rows, RequestRecords, TypeOK
  <2>3. [req[r] EXCEPT !.step = "gates", !.found = row[req[r].token].status,
                       !.seen = user[req[r].user]] \in RequestRecords
    BY <2>1, <2>2 DEF RequestRecords, InFlight, Working
  <2>4. QED
    BY <1>6, <2>3 DEF RotateRead, TypeOK
<1>7. ASSUME NEW r \in Requests, RotateReject(r)
      PROVE  TypeOK'
  <2>1. req[r].step # "idle"
    BY <1>7 DEF RotateReject, Working
  <2>2. ReqTypeOK'
    BY <1>7, <2>1, OutcomeType, RefusalType DEF RotateReject, Codes
  <2>3. QED
    BY <1>7, <2>2 DEF RotateReject, TypeOK, ReqTypeOK
<1>8. ASSUME NEW r \in Requests, RotateReuse(r)
      PROVE  TypeOK'
  <2>1. req[r].step # "idle"
    BY <1>8 DEF RotateReuse
  <2>2. ReqTypeOK'
    BY <1>8, <2>1, OutcomeType, RefusalType DEF RotateReuse, Codes
  <2>3. row' \in [Tokens -> Rows \cup {Unissued}]
    BY <1>8, RevokeType DEF RotateReuse, Causes
  <2>4. QED
    BY <1>8, <2>2, <2>3 DEF RotateReuse, TypeOK, ReqTypeOK
<1>9. ASSUME NEW r \in Requests, RotateRevoke(r)
      PROVE  TypeOK'
  <2>1. req[r].step # "idle"
    BY <1>9 DEF RotateRevoke
  <2>2. CASE row[req[r].token].status = "deleted"
    <3>1. ReqTypeOK' /\ UNCHANGED row
      BY <1>9, <2>1, <2>2, OutcomeType, RefusalType DEF RotateRevoke, Codes
    <3>2. QED
      BY <1>9, <3>1 DEF RotateRevoke, TypeOK, ReqTypeOK
  <2>3. CASE row[req[r].token].status # "deleted"
    <3>1. ReqTypeOK'
      BY <1>9, <2>1, <2>3, StepType DEF RotateRevoke, InFlight, Working
    <3>2. row' \in [Tokens -> Rows \cup {Unissued}]
      BY <1>9, <2>3, RevokeType DEF RotateRevoke, Spend, Causes
    <3>3. QED
      BY <1>9, <3>1, <3>2 DEF RotateRevoke, TypeOK, ReqTypeOK
  <2>4. QED
    BY <2>2, <2>3
<1>10. ASSUME NEW r \in Requests, NEW t \in Tokens, RotateIssue(r, t)
      PROVE  TypeOK'
  <2>1. req[r].step # "idle" /\ req[r] \in RequestRecords
    BY <1>10, RequestShape DEF RotateIssue
  <2>2. /\ req[r].token \in Tokens
        /\ RotatedType(req[r]) \in TokenTypes
        /\ row[req[r].token].auth \in 0..MaxPassword
    BY <1>10, <2>1, IssuedShape
       DEF RotateIssue, Delivered, Linked, Issued, RotatedType, TokenTypes, Rows
  <2>3. ReqTypeOK' /\ row' \in [Tokens -> Rows \cup {Unissued}]
    BY <1>10, <2>1, <2>2, GenerateType DEF RotateIssue, TokenTypes
  <2>4. QED
    BY <1>10, <2>3 DEF RotateIssue, TypeOK, ReqTypeOK
<1>11. ASSUME NEW r \in Requests, SettleFlight(r)
      PROVE  TypeOK'
  <2>1. req[r].step # "idle" /\ req[r] \in RequestRecords
    BY <1>11, RequestShape DEF SettleFlight
  <2>2. ASSUME NEW q \in Requests, q = r \/ q \in Waiters(r)
        PROVE  [req[q] EXCEPT !.step = "done", !.reply = ReplyTo(req[q].op, req[r].reply)]
                  \in RequestRecords
    <3>1. req[q] \in RequestRecords
      BY <2>1, <2>2, RequestShape DEF Waiters
    <3>2. ReplyTo(req[q].op, req[r].reply) \in Replies
      BY <2>1, RefusalType DEF ReplyTo, RequestRecords, Codes
    <3>3. QED
      BY <3>1, <3>2 DEF RequestRecords
  <2>3. ReqTypeOK'
    BY <1>11, <2>2 DEF SettleFlight, ReqTypeOK, TypeOK
  <2>4. held' \subseteq Tokens
    BY <1>11, <2>1, DeliverType DEF SettleFlight
  <2>5. QED
    BY <1>11, <2>3, <2>4 DEF SettleFlight, DeleteEntry, TypeOK, ReqTypeOK
<1>12. ASSUME NEW r \in Requests, NEW u \in Users, VerifyEmailLookup(r, u)
      PROVE  TypeOK'
  <2>1. ReqTypeOK'
    BY <1>12, ArriveType DEF VerifyEmailLookup, TypeOK, Ops, InFlight, Working
  <2>2. QED
    BY <1>12, <2>1 DEF VerifyEmailLookup, TypeOK, ReqTypeOK
<1>13. ASSUME NEW r \in Requests, VerifyEmailCommit(r)
      PROVE  TypeOK'
  <2>1. req[r].step # "idle" /\ req[r] \in RequestRecords
    BY <1>13, RequestShape DEF VerifyEmailCommit
  <2>2. ReqTypeOK'
    <3>1. CASE req[r].seen.isIdVerified
      BY <1>13, <2>1, <3>1, OutcomeType, RefusalType DEF VerifyEmailCommit, Codes
    <3>2. CASE ~req[r].seen.isIdVerified
      BY <1>13, <2>1, <3>2, StepType DEF VerifyEmailCommit, InFlight, Working
    <3>3. QED
      BY <3>1, <3>2
  <2>3. user' \in [Users -> UserRows]
    BY <1>13, <2>1 DEF VerifyEmailCommit, TypeOK, UserRows, RequestRecords
  <2>4. QED
    BY <1>13, <2>2, <2>3 DEF VerifyEmailCommit, TypeOK, ReqTypeOK
<1>14. ASSUME NEW r \in Requests, NEW t \in Tokens, VerifyEmailIssue(r, t)
      PROVE  TypeOK'
  <2>1. req[r].step # "idle" /\ req[r] \in RequestRecords
    BY <1>14, RequestShape DEF VerifyEmailIssue
  <2>2. req[r].seen.password \in 0..MaxPassword
    BY <2>1 DEF RequestRecords, UserRows
  <2>3. ReqTypeOK' /\ row' \in [Tokens -> Rows \cup {Unissued}]
    BY <1>14, <2>1, <2>2, GenerateType DEF VerifyEmailIssue, TokenTypes
  <2>4. QED
    BY <1>14, <2>3 DEF VerifyEmailIssue, TypeOK, ReqTypeOK
<1>15. ASSUME NEW r \in Requests, NEW u \in Users, VerifyIdentityLookup(r, u)
      PROVE  TypeOK'
  <2>1. ReqTypeOK'
    BY <1>15, ArriveType DEF VerifyIdentityLookup, TypeOK, Ops, InFlight, Working
  <2>2. QED
    BY <1>15, <2>1 DEF VerifyIdentityLookup, TypeOK, ReqTypeOK
<1>16. ASSUME NEW r \in Requests, VerifyIdentityNoChange(r)
      PROVE  TypeOK'
  <2>1. req[r].step # "idle"
    BY <1>16 DEF VerifyIdentityNoChange, Working
  <2>2. ReqTypeOK'
    BY <1>16, <2>1, OutcomeType, RefusalType DEF VerifyIdentityNoChange, Codes
  <2>3. QED
    BY <1>16, <2>2 DEF VerifyIdentityNoChange, TypeOK, ReqTypeOK
<1>17. ASSUME NEW r \in Requests, VerifyIdentityMark(r)
      PROVE  TypeOK'
  <2>1. req[r].step # "idle"
    BY <1>17 DEF VerifyIdentityMark
  <2>2. ReqTypeOK'
    BY <1>17, <2>1, StepType DEF VerifyIdentityMark, InFlight, Working
  <2>3. user' \in [Users -> UserRows]
    BY <1>17 DEF VerifyIdentityMark, TypeOK, UserRows
  <2>4. QED
    BY <1>17, <2>2, <2>3 DEF VerifyIdentityMark, TypeOK, ReqTypeOK
<1>18. ASSUME NEW r \in Requests, UpgradeRevoke(r)
      PROVE  TypeOK'
  <2>1. req[r].step # "idle"
    BY <1>18 DEF UpgradeRevoke
  <2>2. ReqTypeOK'
    BY <1>18, <2>1, StepType DEF UpgradeRevoke, InFlight, Working
  <2>3. row' \in [Tokens -> Rows \cup {Unissued}]
    <3> DEFINE S == {t \in RowsOf(req[r].user) : row[t].type = "limited"}
    <3>1. Revoke(S, "other")
      BY <1>18 DEF UpgradeRevoke
    <3> HIDE DEF S
    <3>2. QED
      BY <3>1, RevokeType DEF Causes
  <2>4. QED
    BY <1>18, <2>2, <2>3 DEF UpgradeRevoke, TypeOK, ReqTypeOK
<1>19. ASSUME NEW r \in Requests, NEW t \in Tokens, UpgradeIssue(r, t)
      PROVE  TypeOK'
  <2>1. req[r].step # "idle" /\ req[r] \in RequestRecords
    BY <1>19, RequestShape DEF UpgradeIssue
  <2>2. req[r].seen.password \in 0..MaxPassword
    BY <2>1 DEF RequestRecords, UserRows
  <2>3. ReqTypeOK' /\ row' \in [Tokens -> Rows \cup {Unissued}]
    BY <1>19, <2>1, <2>2, GenerateType DEF UpgradeIssue, TokenTypes
  <2>4. QED
    BY <1>19, <2>3 DEF UpgradeIssue, TypeOK, ReqTypeOK
<1>20. ASSUME NEW t \in Tokens, Logout(t)
      PROVE  TypeOK'
  <2>1. row' \in [Tokens -> Rows \cup {Unissued}]
    BY <1>20, RevokeType DEF Logout, Causes
  <2>2. QED
    BY <1>20, <2>1 DEF Logout, TypeOK
<1>21. ASSUME NEW u \in Users, LogoutAll(u)
      PROVE  TypeOK'
  <2>1. row' \in [Tokens -> Rows \cup {Unissued}]
    BY <1>21, RevokeType DEF LogoutAll, Causes
  <2>2. QED
    BY <1>21, <2>1 DEF LogoutAll, TypeOK
<1>22. ASSUME NEW r \in Requests, NEW u \in Users, NEW right \in BOOLEAN, ChangePasswordLookup(r, u, right)
      PROVE  TypeOK'
  <2>1. Blank \in UserRows
    BY PasswordAssumption DEF Blank, UserRows
  <2>2. ReqTypeOK'
    BY <1>22, <2>1, ArriveType DEF ChangePasswordLookup, Ops, PasswordOps, InFlight, Working
  <2>3. QED
    BY <1>22, <2>2 DEF ChangePasswordLookup, TypeOK, ReqTypeOK
<1>23. ASSUME NEW r \in Requests, ChangePasswordReject(r)
      PROVE  TypeOK'
  <2>1. req[r].step # "idle"
    BY <1>23 DEF ChangePasswordReject, Working
  <2>2. ReqTypeOK'
    BY <1>23, <2>1, OutcomeType, RefusalType DEF ChangePasswordReject, Codes
  <2>3. QED
    BY <1>23, <2>2 DEF ChangePasswordReject, TypeOK, ReqTypeOK
<1>24. ASSUME NEW r \in Requests, OpenPassword(r)
      PROVE  TypeOK'
  <2>1. req[r] \in RequestRecords
    BY <1>24, RequestShape DEF OpenPassword
  <2>2. [req[r] EXCEPT !.step = "open", !.locked = RowsToRevoke(req[r].user)]
           \in RequestRecords
    BY <2>1 DEF RequestRecords, RowsToRevoke, RowsOf, InFlight, Working
  <2>3. QED
    BY <1>24, <2>2 DEF OpenPassword, TypeOK
<1>25. ASSUME NEW r \in Requests, CommitPassword(r)
      PROVE  TypeOK'
  <2>1. req[r].step # "idle" /\ req[r] \in RequestRecords
    BY <1>25, RequestShape DEF CommitPassword
  <2>2. ReqTypeOK'
    BY <1>25, <2>1, OutcomeType, RefusalType DEF CommitPassword, Codes
  <2>3. row' \in [Tokens -> Rows \cup {Unissued}]
    BY <1>25, RevokeType DEF CommitPassword, Causes
  <2>4. user' \in [Users -> UserRows]
    <3>1. req[r].user \in Users /\ user[req[r].user] \in UserRows
      BY <2>1 DEF RequestRecords, TypeOK
    <3>2. user[req[r].user].password + 1 \in 0..MaxPassword
      BY <1>25, <3>1, PasswordAssumption DEF CommitPassword, UserRows
    <3>3. \A n \in 0..MaxPassword : [user[req[r].user] EXCEPT !.password = n] \in UserRows
      BY <3>1 DEF UserRows
    <3>4. QED
      BY <1>25, <3>1, <3>2, <3>3 DEF CommitPassword, TypeOK
  <2>5. QED
    BY <1>25, <2>2, <2>3, <2>4 DEF CommitPassword, TypeOK, ReqTypeOK
<1>26. ASSUME NEW r \in Requests, NEW u \in Users, ResetPassword(r, u)
      PROVE  TypeOK'
  <2>1. Blank \in UserRows
    BY PasswordAssumption DEF Blank, UserRows
  <2>2. ReqTypeOK'
    BY <1>26, <2>1, ArriveType DEF ResetPassword, Ops, PasswordOps, InFlight, Working
  <2>3. QED
    BY <1>26, <2>2 DEF ResetPassword, TypeOK, ReqTypeOK
<1>27. ASSUME NEW u \in Users, ChangeEmail(u)
      PROVE  TypeOK'
  BY <1>27 DEF ChangeEmail, TypeOK, UserRows
<1>28. ASSUME NEW r \in Requests, Answer(r)
      PROVE  TypeOK'
  <2>1. held' \subseteq Tokens
    BY <1>28, DeliverType DEF Answer
  <2>2. QED
    BY <1>28, <2>1 DEF Answer, TypeOK
<1>29. ASSUME NEW r \in Requests, Fail(r)
      PROVE  TypeOK'
  <2>1. req[r].step # "idle"
    BY <1>29 DEF Fail, Working
  <2>2. ReqTypeOK'
    BY <1>29, <2>1, OutcomeType, RefusalType DEF Fail, Codes
  <2>3. QED
    BY <1>29, <2>2 DEF Fail, TypeOK, ReqTypeOK
<1>30. ASSUME NEW t \in Tokens, TokenExpires(t)
      PROVE  TypeOK'
  <2>1. [row[t] EXCEPT !.expired = TRUE] \in Rows
    BY <1>30, RowShape DEF TokenExpires, Live, Rows
  <2>2. QED
    BY <1>30, <2>1 DEF TokenExpires, TypeOK
<1>31. ASSUME CleanupExpiredTokens
      PROVE  TypeOK'
  <2>1. ASSUME NEW t \in Tokens, Purgeable(t)
        PROVE  [row[t] EXCEPT !.status = "deleted"] \in Rows
    BY <2>1, RowShape DEF Purgeable, Live, Rows
  <2>2. QED
    BY <1>31, <2>1 DEF CleanupExpiredTokens, TypeOK
<1>32. ASSUME Restart
      PROVE  TypeOK'
  BY <1>32 DEF Restart, TypeOK
<1>33. ASSUME UNCHANGED vars
      PROVE  TypeOK'
  BY <1>33 DEF vars, TypeOK
<1>34. QED
  BY <1>1, <1>2, <1>3, <1>4, <1>5, <1>6, <1>7, <1>8, <1>9, <1>10,
     <1>11, <1>12, <1>13, <1>14, <1>15, <1>16, <1>17, <1>18, <1>19,
     <1>20, <1>21, <1>22, <1>23, <1>24, <1>25, <1>26, <1>27, <1>28,
     <1>29, <1>30, <1>31, <1>32, <1>33
     DEF Next, Serve, Call, Direct, Environment

-----------------------------------------------------------------------------
(* How the table changes: nothing, a revocation, one new row, an expiry or *)
(* the clean-up.                                                           *)
Issues(r, t) ==
    LoginIssue(r, t) \/ RotateIssue(r, t) \/ VerifyEmailIssue(r, t) \/ UpgradeIssue(r, t)
Created == \E r \in Requests, t \in Tokens : Issues(r, t)
Revoked == \E u \in Users, cause \in Causes : \E S \in SUBSET RowsOf(u) : Revoke(S, cause)

(* Every session that is handed out is one well-formed new row. *)
LEMMA IssuesGenerate ==
    ASSUME TInv, NEW r \in Requests, NEW t \in Tokens, Issues(r, t)
    PROVE  /\ req[r] \in RequestRecords
           /\ \E type \in TokenTypes, p \in Tokens \cup {NoToken}, auth \in 0..MaxPassword :
                 GenerateTokens(r, t, type, p, auth)
<1> USE DEF TInv
<1>1. req[r] \in RequestRecords
  BY RequestShape DEF Issues, LoginIssue, RotateIssue, VerifyEmailIssue, UpgradeIssue
<1>2. LoginType(req[r]) \in TokenTypes /\ req[r].seen.password \in 0..MaxPassword
  BY <1>1 DEF LoginType, TokenTypes, RequestRecords, UserRows
<1>3. CASE LoginIssue(r, t)
  BY <1>1, <1>2, <1>3 DEF LoginIssue
<1>4. CASE RotateIssue(r, t)
  <2>1. /\ req[r].token \in Tokens
        /\ RotatedType(req[r]) \in TokenTypes
        /\ row[req[r].token].auth \in 0..MaxPassword
    BY <1>4, IssuedShape
       DEF RotateIssue, Delivered, Linked, Issued, RotatedType, TokenTypes, Rows
  <2>2. QED
    BY <1>1, <1>4, <2>1 DEF RotateIssue
<1>5. CASE VerifyEmailIssue(r, t)
  BY <1>1, <1>2, <1>5 DEF VerifyEmailIssue, TokenTypes
<1>6. CASE UpgradeIssue(r, t)
  BY <1>1, <1>2, <1>6 DEF UpgradeIssue, TokenTypes
<1>7. QED
  BY <1>3, <1>4, <1>5, <1>6 DEF Issues

(* A new row belongs to the user of the request. *)
LEMMA IssuesRow ==
    ASSUME TInv, NEW r \in Requests, NEW t \in Tokens, Issues(r, t)
    PROVE  /\ ~Issued(t) /\ req[r] \in RequestRecords
           /\ \A s \in Tokens \ {t} : row'[s] = row[s]
           /\ row'[t].status = "live" /\ row'[t].owner = req[r].user
<1>1. PICK type \in TokenTypes, p \in Tokens \cup {NoToken}, auth \in 0..MaxPassword :
         GenerateTokens(r, t, type, p, auth)
  BY IssuesGenerate
<1>2. QED
  BY <1>1, IssuesGenerate DEF GenerateTokens, TInv, TypeOK

(* Every step leaves the table alone, revokes rows of one citizen, creates,   *)
(* expires or cleans up.                                                      *)
LEMMA RowStep ==
    ASSUME TInv, [Next]_vars
    PROVE  \/ UNCHANGED row
           \/ Revoked
           \/ Created
           \/ \E t \in Tokens : TokenExpires(t)
           \/ CleanupExpiredTokens
<1> USE DEF TInv
<1>0. ASSUME NEW r \in Requests, req[r].step # "idle"
      PROVE  req[r].user \in Users
  BY <1>0, RequestShape DEF RequestRecords
<1>2. ASSUME NEW r \in Requests, Serve(r)
      PROVE  UNCHANGED row \/ Revoked \/ Created
  <2>1. CASE RotateReuse(r)
    <3>1. req[r].user \in Users /\ Revoke(RowsOf(req[r].user), "other")
      BY <1>0, <2>1 DEF RotateReuse
    <3>2. QED
      BY <3>1 DEF Revoked, Causes
  <2>2. CASE RotateRevoke(r)
    <3>1. req[r].user \in Users /\ {req[r].token} \in SUBSET RowsOf(req[r].user)
      BY <1>0, <2>2 DEF RotateRevoke, Delivered, Linked, RowsOf, Issued
    <3>2. UNCHANGED row \/ Revoke({req[r].token}, "rotation")
      BY <2>2 DEF RotateRevoke, Spend
    <3>3. QED
      BY <3>1, <3>2 DEF Revoked, Causes
  <2>3. CASE UpgradeRevoke(r)
    <3> DEFINE S == {t \in RowsOf(req[r].user) : row[t].type = "limited"}
    <3>1. req[r].user \in Users /\ Revoke(S, "other") /\ S \in SUBSET RowsOf(req[r].user)
      BY <1>0, <2>3 DEF UpgradeRevoke
    <3> HIDE DEF S
    <3>2. QED
      BY <3>1 DEF Revoked, Causes
  <2>4. CASE CommitPassword(r)
    <3>1. req[r] \in RequestRecords /\ Revoke(req[r].locked, "other")
      BY <2>4, RequestShape DEF CommitPassword
    <3>2. req[r].user \in Users /\ req[r].locked \in SUBSET RowsOf(req[r].user)
      BY <2>4, <3>1 DEF CommitPassword, Delivered, Linked, RequestRecords, RowsOf, Issued
    <3>3. QED
      BY <3>1, <3>2 DEF Revoked, Causes
  <2>5. CASE UNCHANGED row
    BY <2>5
  <2>6. QED
    BY <1>2, <2>1, <2>2, <2>3, <2>4, <2>5
       DEF Serve, Created, Issues, LoginReject, RotateRead, RotateReject, SettleFlight,
           VerifyEmailCommit, VerifyIdentityNoChange, VerifyIdentityMark,
           ChangePasswordReject, OpenPassword, Answer
<1>3. ASSUME Direct
      PROVE  UNCHANGED row \/ Revoked
  <2>1. ASSUME NEW t \in Tokens, Logout(t)
        PROVE  Revoked
    <3>1. Issued(t) /\ Revoke({t}, "logout")
      BY <2>1 DEF Logout, Delivered
    <3>2. row[t].owner \in Users /\ {t} \in SUBSET RowsOf(row[t].owner)
      BY <3>1, IssuedShape DEF Rows, RowsOf
    <3>3. QED
      BY <3>1, <3>2 DEF Revoked, Causes
  <2>2. ASSUME NEW u \in Users, LogoutAll(u)
        PROVE  Revoked
    BY <2>2 DEF LogoutAll, Revoked, Causes
  <2>3. QED
    BY <1>3, <2>1, <2>2 DEF Direct, ChangeEmail
<1>4. ASSUME NEW r \in Requests, Call(r) \/ Fail(r)
      PROVE  UNCHANGED row
  BY <1>4 DEF Call, Fail, StartFlight, JoinFlight, LoginLookup, ChangePasswordLookup,
              ResetPassword, VerifyEmailLookup, VerifyIdentityLookup
<1>5. QED
  BY <1>2, <1>3, <1>4 DEF Next, Environment, Restart, vars

(* A row that exists stays, keeps what it was created with, and is never   *)
(* live again once dead.                                                   *)
Kept(t) ==
    /\ Issued(t)'
    /\ Live(t)' => Live(t)
    /\ row'[t].owner = row[t].owner /\ row'[t].type = row[t].type
    /\ row'[t].parent = row[t].parent
    /\ row'[t].auth = row[t].auth /\ row'[t].overlapped = row[t].overlapped

(* No step rewrites what an issued row was created with, or revives it. *)
LEMMA RowsKept ==
    ASSUME TInv, [Next]_vars, NEW t \in Tokens, Issued(t)
    PROVE  Kept(t)
<1>1. row[t] \in Rows
  BY IssuedShape DEF TInv
<1>2. CASE UNCHANGED row
  BY <1>2 DEF Kept, Issued, Live
<1>3. CASE Revoked
  <2>1. PICK u \in Users, cause \in Causes : \E S \in SUBSET RowsOf(u) : Revoke(S, cause)
    BY <1>3 DEF Revoked
  <2>2. \/ row'[t] = row[t]
        \/ row'[t] = [row[t] EXCEPT !.status = "revoked", !.cause = cause]
    BY <2>1 DEF Revoke
  <2>3. QED
    BY <1>1, <2>2 DEF Kept, Issued, Unissued, Live, Rows
<1>4. CASE Created
  BY <1>4, IssuesGenerate DEF Created, GenerateTokens, Kept, Issued, Live, TInv, TypeOK
<1>5. ASSUME NEW s \in Tokens, TokenExpires(s)
      PROVE  Kept(t)
  BY <1>1, <1>5 DEF TokenExpires, Kept, Issued, Unissued, Live, Rows, TInv, TypeOK
<1>6. CASE CleanupExpiredTokens
  BY <1>1, <1>6 DEF CleanupExpiredTokens, Purgeable, Kept, Issued, Unissued, Live, Rows
<1>7. QED
  BY <1>2, <1>3, <1>4, <1>5, <1>6, RowStep

(* What a request knows of the table stays true whatever the table does. *)
LEMMA LinkedKept ==
    ASSUME TInv, [Next]_vars, NEW r \in Requests
    PROVE  Linked(req[r], row')
<1>1. \A t \in Tokens : Issued(t) => Issued(t)' /\ row'[t].owner = row[t].owner
  BY RowsKept DEF Kept
<1>2. Linked(req[r], row)
  BY DEF TInv, Delivered
<1>3. req[r].step # "idle" => req[r].reply.token \in Tokens \cup {NoToken}
  BY RequestShape DEF TInv, RequestRecords, Replies
<1>4. req[r].step = "open" => req[r].locked \subseteq Tokens
  BY RequestShape DEF TInv, RequestRecords
<1>5. QED
  BY <1>1, <1>2, <1>3, <1>4 DEF Linked, Issued

(* When one request changes, only that one has to be looked at. *)
LEMMA OthersLinked ==
    ASSUME TInv, [Next]_vars, NEW r \in Requests, NEW X,
           req' = [req EXCEPT ![r] = X], Linked(X, row')
    PROVE  \A q \in Requests : Linked(req'[q], row')
BY LinkedKept DEF TInv, TypeOK

(* Every step keeps what the requests and the clients know of the table. *)
LEMMA DeliveredStep ==
    ASSUME TInv, [Next]_vars
    PROVE  Delivered'
<1> USE DEF TInv
<1>1. \A t \in Tokens : Issued(t) => Issued(t)' /\ row'[t].owner = row[t].owner
  BY RowsKept DEF Kept
<1>2. \A r \in Requests : Linked(req[r], row')
  BY LinkedKept
<1>3. \A t \in held' : Issued(t)'
  <2>1. ASSUME NEW r \in Requests, req[r].step # "idle", Deliver(r)
        PROVE  \A t \in held' : Issued(t)'
    <3>1. req[r].reply.token \in Tokens \cup {NoToken}
      BY <2>1, RequestShape DEF RequestRecords, Replies
    <3>2. QED
      BY <2>1, <3>1, <1>1, <1>2 DEF Deliver, Delivered, TypeOK, Linked, Issued
  <2>2. CASE UNCHANGED held
    BY <1>1, <2>2 DEF Delivered, TypeOK
  <2>3. QED
    BY <2>1, <2>2
       DEF Next, Serve, Call, Direct, Environment, vars, LoginReject, RotateRead,
           RotateReject, RotateReuse, RotateRevoke, SettleFlight, VerifyEmailCommit,
           VerifyIdentityNoChange, VerifyIdentityMark, UpgradeRevoke,
           ChangePasswordReject, OpenPassword, CommitPassword, Answer, LoginIssue, RotateIssue,
           VerifyEmailIssue, UpgradeIssue, StartFlight, JoinFlight, LoginLookup,
           ChangePasswordLookup, VerifyEmailLookup, VerifyIdentityLookup, Fail, Logout,
           LogoutAll, ResetPassword, ChangeEmail, TokenExpires, CleanupExpiredTokens, Restart
<1>4. ASSUME NEW r \in Requests, NEW op \in Ops, NEW step, NEW u \in Users,
             NEW t \in Tokens \cup {NoToken}, NEW seen, NEW right, NEW replay,
             Arrive(r, op, step, u, t, seen, right, replay),
             op \in FlightOps => t \in held /\ u = row[t].owner,
             step \in {"joined", "read", "gates"} => op \in FlightOps, step # "open"
      PROVE  \A q \in Requests : Linked(req'[q], row')
  <2> DEFINE X == [op |-> op, step |-> step, user |-> u, token |-> t, found |-> "live",
                   seen |-> seen, right |-> right, locked |-> {}, replay |-> replay,
                   reply |-> NoReply]
  <2>1. Linked(X, row')
    BY <1>1, <1>4 DEF Linked, NoReply, Delivered, TypeOK, Issued
  <2>2. req' = [req EXCEPT ![r] = X]
    BY <1>4 DEF Arrive
  <2> HIDE DEF X
  <2>3. QED
    BY <2>1, <2>2, OthersLinked
<1>5. ASSUME NEW r \in Requests, Call(r)
      PROVE  \A q \in Requests : Linked(req'[q], row')
  <2>1. ASSUME NEW t \in Tokens, NEW op \in FlightOps, StartFlight(r, op, t) \/ JoinFlight(r, op, t)
        PROVE  \A q \in Requests : Linked(req'[q], row')
    <3>1. row[t].owner \in Users
      BY <2>1, IssuedShape DEF StartFlight, JoinFlight, Delivered, Rows
    <3>2. QED
      BY <2>1, <3>1, <1>4 DEF StartFlight, JoinFlight, Ops
  <2>2. ASSUME NEW u \in Users, NEW right \in BOOLEAN,
               LoginLookup(r, u, right) \/ ChangePasswordLookup(r, u, right)
        PROVE  \A q \in Requests : Linked(req'[q], row')
    BY <2>2, <1>4 DEF LoginLookup, ChangePasswordLookup, Ops, PasswordOps, FlightOps
  <2>3. ASSUME NEW u \in Users,
               VerifyEmailLookup(r, u) \/ VerifyIdentityLookup(r, u) \/ ResetPassword(r, u)
        PROVE  \A q \in Requests : Linked(req'[q], row')
    BY <2>3, <1>4 DEF VerifyEmailLookup, VerifyIdentityLookup, ResetPassword, Ops,
                      PasswordOps, FlightOps
  <2>4. QED
    BY <1>5, <2>1, <2>2, <2>3 DEF Call
<1>6. ASSUME NEW r \in Requests, NEW reply \in Replies, Outcome(r, reply),
             req[r].step # "idle",
             reply.token # NoToken =>
                row'[reply.token] # Unissued /\ row'[reply.token].owner = req[r].user
      PROVE  \A q \in Requests : Linked(req'[q], row')
  <2> DEFINE X == [req[r] EXCEPT !.step = "answer", !.reply = reply, !.found = "live",
                                 !.seen = Blank, !.right = FALSE, !.locked = {}]
  <2>1. req[r] \in RequestRecords /\ Linked(req[r], row')
    BY <1>2, <1>6, RequestShape
  <2>2. Linked(X, row')
    BY <1>6, <2>1 DEF Linked, RequestRecords
  <2>3. req' = [req EXCEPT ![r] = X]
    BY <1>6 DEF Outcome
  <2> HIDE DEF X
  <2>4. QED
    BY <2>2, <2>3, OthersLinked
<1>7. ASSUME NEW r \in Requests, NEW c \in Codes, Outcome(r, Refusal(c)),
             req[r].step # "idle"
      PROVE  \A q \in Requests : Linked(req'[q], row')
  BY <1>6, <1>7, RefusalType DEF Refusal
<1>8. ASSUME NEW r \in Requests, NEW t \in Tokens, NEW type, NEW p, NEW auth,
             GenerateTokens(r, t, type, p, auth), req[r].step # "idle"
      PROVE  \A q \in Requests : Linked(req'[q], row')
  <2>1. row'[t] # Unissued /\ row'[t].owner = req[r].user
    BY <1>8 DEF GenerateTokens, Unissued, TypeOK
  <2>2. [code |-> "ok", token |-> t] \in Replies
    BY DEF Replies, Codes
  <2>3. QED
    BY <1>6, <1>8, <2>1, <2>2 DEF GenerateTokens
<1>9. ASSUME NEW r \in Requests, NEW step \in {"upgrade", "issue"},
             req' = [req EXCEPT ![r].step = step], req[r].step # "idle"
      PROVE  \A q \in Requests : Linked(req'[q], row')
  <2> DEFINE X == [req[r] EXCEPT !.step = step]
  <2>1. req[r] \in RequestRecords /\ Linked(req[r], row')
    BY <1>2, <1>9, RequestShape
  <2>2. Linked(X, row')
    BY <1>9, <2>1 DEF Linked, RequestRecords
  <2>3. req' = [req EXCEPT ![r] = X]
    BY <1>9
  <2> HIDE DEF X
  <2>4. QED
    BY <2>2, <2>3, OthersLinked
<1>10. ASSUME NEW r \in Requests, RotateRead(r)
       PROVE  \A q \in Requests : Linked(req'[q], row')
  <2> DEFINE X == [req[r] EXCEPT !.step = "gates", !.found = row[req[r].token].status,
                                 !.seen = user[req[r].user]]
  <2>1. req[r] \in RequestRecords /\ Linked(req[r], row')
    BY <1>2, <1>10, RequestShape DEF RotateRead
  <2>2. Linked(X, row')
    BY <1>10, <2>1 DEF Linked, RequestRecords, RotateRead
  <2>3. req' = [req EXCEPT ![r] = X]
    BY <1>10 DEF RotateRead
  <2> HIDE DEF X
  <2>4. QED
    BY <2>2, <2>3, OthersLinked
<1>11. ASSUME NEW r \in Requests, SettleFlight(r)
       PROVE  \A q \in Requests : Linked(req'[q], row')
  <2> SUFFICES ASSUME NEW q \in Requests
               PROVE  Linked(req'[q], row')
    OBVIOUS
  <2>1. Linked(req[q], row') /\ Linked(req[r], row')
    BY <1>2
  <2>2. CASE q = r \/ q \in Waiters(r)
    <3>1. /\ req[q] \in RequestRecords /\ req[r] \in RequestRecords
          /\ req[q].op \in FlightOps /\ req[q].token = req[r].token
          /\ req[q].step # "idle" /\ req[r].step # "idle"
      BY <1>11, <2>1, <2>2, RequestShape DEF SettleFlight, Waiters, Linked
    <3>2. req[q].user = req[r].user
      BY <1>11, <2>1, <3>1 DEF SettleFlight, Linked
    <3>3. req'[q] = [req[q] EXCEPT !.step = "done",
                                   !.reply = ReplyTo(req[q].op, req[r].reply)]
      BY <1>11, <2>2 DEF SettleFlight
    <3>4. \/ ReplyTo(req[q].op, req[r].reply).token = NoToken
          \/ ReplyTo(req[q].op, req[r].reply) = req[r].reply
      BY DEF ReplyTo, Refusal
    <3>5. QED
      BY <1>11, <2>1, <3>1, <3>2, <3>3, <3>4 DEF Linked, RequestRecords, SettleFlight
  <2>3. CASE ~(q = r \/ q \in Waiters(r))
    BY <1>11, <2>1, <2>3 DEF SettleFlight
  <2>4. QED
    BY <2>2, <2>3
<1>12. ASSUME NEW r \in Requests, Serve(r)
       PROVE  \A q \in Requests : Linked(req'[q], row')
  <2>1. CASE \/ LoginReject(r) \/ RotateReject(r) \/ RotateReuse(r)
             \/ VerifyIdentityNoChange(r) \/ ChangePasswordReject(r) \/ CommitPassword(r)
    BY <1>7, <2>1 DEF LoginReject, RotateReject, RotateReuse, VerifyIdentityNoChange,
                      ChangePasswordReject, CommitPassword, Codes
  <2>2. CASE RotateRevoke(r)
    BY <1>7, <1>9, <2>2 DEF RotateRevoke, Codes
  <2>3. CASE VerifyEmailCommit(r)
    <3>1. CASE Outcome(r, Refusal("ok"))
      BY <1>7, <2>3, <3>1 DEF VerifyEmailCommit, Codes
    <3>2. CASE req' = [req EXCEPT ![r].step = "issue"]
      <4>1. req[r].step # "idle"
        BY <2>3 DEF VerifyEmailCommit
      <4>2. QED
        BY <1>9, <3>2, <4>1
    <3>3. QED
      BY <2>3, <3>1, <3>2 DEF VerifyEmailCommit
  <2>4. CASE VerifyIdentityMark(r) \/ UpgradeRevoke(r)
    BY <1>9, <2>4 DEF VerifyIdentityMark, UpgradeRevoke
  <2>5. CASE Answer(r)
    BY <1>2, <2>5 DEF Answer, Idle, Linked, TypeOK
  <2>8. CASE OpenPassword(r)
    <3> DEFINE X == [req[r] EXCEPT !.step = "open", !.locked = RowsToRevoke(req[r].user)]
    <3>1. req[r] \in RequestRecords /\ Linked(req[r], row') /\ UNCHANGED row
      BY <1>2, <2>8, RequestShape DEF OpenPassword
    <3>2. Linked(X, row')
      BY <2>8, <3>1 DEF Linked, RequestRecords, OpenPassword, RowsToRevoke, RowsOf, Issued
    <3>3. req' = [req EXCEPT ![r] = X]
      BY <2>8 DEF OpenPassword
    <3> HIDE DEF X
    <3>4. QED
      BY <3>2, <3>3, OthersLinked
  <2>6. ASSUME NEW t \in Tokens, \/ LoginIssue(r, t) \/ RotateIssue(r, t)
                                 \/ VerifyEmailIssue(r, t) \/ UpgradeIssue(r, t)
        PROVE  \A q \in Requests : Linked(req'[q], row')
    BY <1>8, <2>6 DEF LoginIssue, RotateIssue, VerifyEmailIssue, UpgradeIssue
  <2>7. QED
    BY <1>10, <1>11, <1>12, <2>1, <2>2, <2>3, <2>4, <2>5, <2>6, <2>8 DEF Serve
<1>13. ASSUME UNCHANGED req
       PROVE  \A q \in Requests : Linked(req'[q], row')
  BY <1>2, <1>13
<1>14. ASSUME Restart
       PROVE  \A q \in Requests : Linked(req'[q], row')
  BY <1>2, <1>14 DEF Restart, Idle, Linked
<1>15. ASSUME NEW r \in Requests, Fail(r)
       PROVE  \A q \in Requests : Linked(req'[q], row')
  BY <1>7, <1>15 DEF Fail, Working, Codes
<1>16. \A q \in Requests : Linked(req'[q], row')
  BY <1>5, <1>12, <1>13, <1>14, <1>15
     DEF Next, Direct, Environment, vars, Logout, LogoutAll, ChangeEmail,
         TokenExpires, CleanupExpiredTokens
<1>17. QED
  BY <1>3, <1>16 DEF Delivered

(* The shapes, with what the requests know of the table, hold always. *)
LEMMA TInvHolds == Spec => []TInv
<1>1. Init => TInv
  BY PasswordAssumption DEF Init, TInv, TypeOK, UserRows, Unissued, Idle, Delivered, Linked
<1>2. TInv /\ [Next]_vars => TInv'
  BY TypeStep, DeliveredStep DEF TInv
<1>3. QED
  BY <1>1, <1>2, PTL DEF Spec

(* Every table, map and request always has its shape. *)
THEOREM TypeCorrect == Spec => []TypeOK
BY TInvHolds, PTL DEF TInv

-----------------------------------------------------------------------------
(* What a request record has to do with the flights: it leads one, it has  *)
(* joined one, or neither.                                                 *)
Leads(q) == q.step \in Working /\ q.op \in FlightOps
Joined(q) == q.step = "joined"

(* The steps in which flights neither start, nor end, nor are joined. *)
Unconcerned(r) ==
    /\ UNCHANGED pending
    /\ \A q \in Requests \ {r} : req'[q] = req[q]
    /\ Leads(req'[r]) <=> Leads(req[r])
    /\ Leads(req[r]) => req'[r].token = req[r].token
    /\ ~Joined(req'[r])

(* A served request that settles no flight does not concern the flights. *)
LEMMA ServeUnconcerned ==
    ASSUME TInv, NEW r \in Requests, Serve(r) \/ Fail(r), ~SettleFlight(r)
    PROVE  Unconcerned(r)
<1> USE DEF TInv
<1>1. ASSUME NEW reply \in Replies, Outcome(r, reply), req[r].step \in Working,
             UNCHANGED pending
      PROVE  Unconcerned(r)
  <2>1. req[r] \in RequestRecords
    BY <1>1, RequestShape DEF Working
  <2>2. req'[r] = [req[r] EXCEPT !.step = "answer", !.reply = reply, !.found = "live",
                                 !.seen = Blank, !.right = FALSE, !.locked = {}]
    BY <1>1 DEF Outcome, TypeOK
  <2>3. /\ req'[r].step = "answer" /\ req'[r].op = req[r].op
        /\ req'[r].token = req[r].token
    BY <2>1, <2>2 DEF RequestRecords
  <2>4. QED
    BY <1>1, <2>3 DEF Outcome, Unconcerned, Leads, Joined, Working, TypeOK
<1>2. ASSUME NEW c \in Codes, Outcome(r, Refusal(c)), req[r].step \in Working,
             UNCHANGED pending
      PROVE  Unconcerned(r)
  BY <1>1, <1>2, RefusalType
<1>3. ASSUME NEW step \in Working, req' = [req EXCEPT ![r].step = step],
             req[r].step \in Working, UNCHANGED pending
      PROVE  Unconcerned(r)
  <2>1. req[r] \in RequestRecords
    BY <1>3, RequestShape DEF Working
  <2>2. req'[r] = [req[r] EXCEPT !.step = step]
    BY <1>3 DEF TypeOK
  <2>3. req'[r].step = step /\ req'[r].op = req[r].op /\ req'[r].token = req[r].token
    BY <2>1, <2>2 DEF RequestRecords
  <2>4. QED
    BY <1>3, <2>3 DEF Unconcerned, Leads, Joined, Working, TypeOK
<1>4. ASSUME NEW t \in Tokens, \/ LoginIssue(r, t) \/ RotateIssue(r, t)
                              \/ VerifyEmailIssue(r, t) \/ UpgradeIssue(r, t)
      PROVE  Unconcerned(r)
  <2>1. [code |-> "ok", token |-> t] \in Replies
    BY DEF Replies, Codes
  <2>2. QED
    BY <1>1, <1>4, <2>1 DEF LoginIssue, RotateIssue, VerifyEmailIssue, UpgradeIssue,
                            GenerateTokens, Working
<1>5. CASE RotateRead(r)
  <2>1. req[r] \in RequestRecords
    BY <1>5, RequestShape DEF RotateRead
  <2>2. req'[r] = [req[r] EXCEPT !.step = "gates", !.found = row[req[r].token].status,
                                 !.seen = user[req[r].user]]
    BY <1>5 DEF RotateRead, TypeOK
  <2>3. req'[r].step = "gates" /\ req'[r].op = req[r].op /\ req'[r].token = req[r].token
    BY <2>1, <2>2 DEF RequestRecords
  <2>4. QED
    BY <1>5, <2>3 DEF RotateRead, Unconcerned, Leads, Joined, Working, TypeOK
<1>6. CASE Answer(r)
  BY <1>6 DEF Answer, Unconcerned, Leads, Joined, Working, Idle, TypeOK
<1>7. CASE \/ LoginReject(r) \/ RotateReject(r) \/ RotateReuse(r)
           \/ VerifyIdentityNoChange(r) \/ ChangePasswordReject(r) \/ CommitPassword(r)
           \/ Fail(r)
  BY <1>2, <1>7 DEF LoginReject, RotateReject, RotateReuse, VerifyIdentityNoChange,
                    ChangePasswordReject, CommitPassword, Fail, Codes, Working
<1>8. CASE RotateRevoke(r) \/ VerifyEmailCommit(r)
  BY <1>2, <1>3, <1>8 DEF RotateRevoke, VerifyEmailCommit, Codes, Working
<1>9. CASE VerifyIdentityMark(r) \/ UpgradeRevoke(r)
  BY <1>3, <1>9 DEF VerifyIdentityMark, UpgradeRevoke, Working
<1>10. CASE OpenPassword(r)
  <2>1. req[r] \in RequestRecords
    BY <1>10, RequestShape DEF OpenPassword
  <2>2. req'[r] = [req[r] EXCEPT !.step = "open", !.locked = RowsToRevoke(req[r].user)]
    BY <1>10 DEF OpenPassword, TypeOK
  <2>3. req'[r].step = "open" /\ req'[r].op = req[r].op
    BY <2>1, <2>2 DEF RequestRecords
  <2>4. req[r].op \notin FlightOps
    BY <1>10 DEF OpenPassword, PasswordOps, FlightOps
  <2>5. QED
    BY <1>10, <2>3, <2>4 DEF OpenPassword, Unconcerned, Leads, Joined, TypeOK
<1>11. QED
  BY <1>4, <1>5, <1>6, <1>7, <1>8, <1>9, <1>10 DEF Serve

(* An arriving request leads or joins a flight only through the map. *)
LEMMA CallFlight ==
    ASSUME TInv, NEW r \in Requests, Call(r)
    PROVE  /\ Free(r)
           /\ \A q \in Requests \ {r} : req'[q] = req[q]
           /\ \/ UNCHANGED pending /\ ~Leads(req'[r]) /\ ~Joined(req'[r])
              \/ /\ UNCHANGED pending /\ ~Leads(req'[r])
                 /\ req'[r].token \in Tokens /\ pending[req'[r].token] # NoRequest
              \/ /\ Leads(req'[r]) /\ ~Joined(req'[r])
                 /\ req'[r].token \in Tokens /\ pending[req'[r].token] = NoRequest
                 /\ pending' = [pending EXCEPT ![req'[r].token] = r]
<1> USE DEF TInv
<1>1. ASSUME NEW t \in Tokens, NEW op \in FlightOps, StartFlight(r, op, t)
      PROVE  /\ Free(r)
             /\ \A q \in Requests \ {r} : req'[q] = req[q]
             /\ Leads(req'[r]) /\ ~Joined(req'[r])
             /\ req'[r].token = t /\ pending[t] = NoRequest
             /\ pending' = [pending EXCEPT ![t] = r]
  BY <1>1 DEF StartFlight, Arrive, Leads, Joined, Working, TypeOK
<1>2. ASSUME NEW t \in Tokens, NEW op \in FlightOps, JoinFlight(r, op, t)
      PROVE  /\ Free(r)
             /\ \A q \in Requests \ {r} : req'[q] = req[q]
             /\ UNCHANGED pending /\ ~Leads(req'[r])
             /\ req'[r].token = t /\ pending[t] # NoRequest
  BY <1>2 DEF JoinFlight, Arrive, Leads, Working, TypeOK
<1>3. ASSUME NEW u \in Users, NEW right \in BOOLEAN,
             \/ LoginLookup(r, u, right) \/ ChangePasswordLookup(r, u, right)
             \/ VerifyEmailLookup(r, u) \/ VerifyIdentityLookup(r, u) \/ ResetPassword(r, u)
      PROVE  /\ Free(r)
             /\ \A q \in Requests \ {r} : req'[q] = req[q]
             /\ UNCHANGED pending /\ ~Leads(req'[r]) /\ ~Joined(req'[r])
  BY <1>3 DEF LoginLookup, ChangePasswordLookup, VerifyEmailLookup, VerifyIdentityLookup,
              ResetPassword, Arrive, Leads, Joined, FlightOps, TypeOK
<1>4. QED
  BY <1>1, <1>2, <1>3 DEF Call

(* Every step keeps the map of flights and the rotating requests in agreement. *)
LEMMA SingleFlightStep ==
    ASSUME TInv, SingleFlight, [Next]_vars
    PROVE  SingleFlight'
<1> USE DEF TInv
<1>1. ASSUME NEW r \in Requests, Unconcerned(r)
      PROVE  SingleFlight'
  BY <1>1 DEF Unconcerned, SingleFlight, LeadsFlight, Leads, Joined, TypeOK
<1>2. ASSUME NEW r \in Requests, Call(r)
      PROVE  SingleFlight'
  <2>1. ~LeadsFlight(r) /\ \A q \in Requests \ {r} : req'[q] = req[q]
    BY <1>2, CallFlight DEF Free, LeadsFlight, Working
  <2>2. \A t \in Tokens : pending[t] # r
    BY <2>1, RequestsAssumption DEF SingleFlight
  <2>3. CASE UNCHANGED pending /\ ~Leads(req'[r]) /\ ~Joined(req'[r])
    BY <2>1, <2>2, <2>3 DEF SingleFlight, LeadsFlight, Leads, Joined, TypeOK
  <2>4. CASE /\ UNCHANGED pending /\ ~Leads(req'[r])
             /\ req'[r].token \in Tokens /\ pending[req'[r].token] # NoRequest
    BY <2>1, <2>2, <2>4 DEF SingleFlight, LeadsFlight, Leads, TypeOK
  <2>5. CASE /\ Leads(req'[r]) /\ ~Joined(req'[r])
             /\ req'[r].token \in Tokens /\ pending[req'[r].token] = NoRequest
             /\ pending' = [pending EXCEPT ![req'[r].token] = r]
    <3>1. \A q \in Requests \ {r} : LeadsFlight(q) => req[q].token # req'[r].token
      BY <2>5, RequestsAssumption DEF SingleFlight
    <3>2. \A q \in Requests \ {r} : Joined(req[q]) => req[q].token # req'[r].token
      BY <2>5 DEF SingleFlight, Joined
    <3>3. \A q \in Requests : LeadsFlight(q)' => pending'[req'[q].token] = q
      BY <2>1, <2>5, <3>1 DEF SingleFlight, LeadsFlight, TypeOK
    <3>4. \A t \in Tokens : pending'[t] # NoRequest =>
              LeadsFlight(pending[t])' /\ req'[pending'[t]].token = t
      BY <2>1, <2>2, <2>5, RequestsAssumption DEF SingleFlight, LeadsFlight, Leads, TypeOK
    <3>5. \A q \in Requests : Joined(req'[q]) => pending'[req'[q].token] # NoRequest
      BY <2>1, <2>5, <3>2, RequestsAssumption DEF SingleFlight, Joined, TypeOK
    <3>6. QED
      BY <3>3, <3>4, <3>5 DEF SingleFlight, Joined
  <2>6. QED
    BY <1>2, <2>3, <2>4, <2>5, CallFlight
<1>3. ASSUME NEW r \in Requests, SettleFlight(r)
      PROVE  SingleFlight'
  <2>1. req[r].token \in Tokens
    BY <1>3 DEF SettleFlight, Delivered, Linked
  <2>2. \A q \in Requests : IF q = r \/ q \in Waiters(r)
                             THEN req'[q].step = "done"
                             ELSE req'[q] = req[q]
    <3>1. \A q \in Requests : q = r \/ q \in Waiters(r) => req[q] \in RequestRecords
      BY <1>3, RequestShape DEF SettleFlight, Waiters
    <3>2. QED
      BY <1>3, <3>1 DEF SettleFlight, RequestRecords
  <2>3. pending' = [pending EXCEPT ![req[r].token] = NoRequest] /\ LeadsFlight(r)
    BY <1>3 DEF SettleFlight, DeleteEntry, LeadsFlight, Working
  <2>4. QED
    BY <2>1, <2>2, <2>3, RequestsAssumption
       DEF SingleFlight, LeadsFlight, Waiters, Working, TypeOK
<1>4. CASE Restart
  BY <1>4, RequestsAssumption
     DEF Restart, SingleFlight, LeadsFlight, InFlight, Working, Idle, TypeOK
<1>5. CASE UNCHANGED <<pending, req>>
  BY <1>5 DEF SingleFlight, LeadsFlight
<1>6. QED
  BY <1>1, <1>2, <1>3, <1>4, <1>5, ServeUnconcerned
     DEF Next, Direct, Environment, vars, Logout, LogoutAll, ChangeEmail,
         TokenExpires, CleanupExpiredTokens

(* The map of flights and the requests that rotate always agree: at most   *)
(* one request rotates a given refresh token at any time.                  *)
THEOREM FlightsAreSingle == Spec => []SingleFlight
<1>1. Init => SingleFlight
  BY DEF Init, SingleFlight, LeadsFlight, Idle, Working
<1>2. TInv /\ SingleFlight /\ [Next]_vars => SingleFlight'
  BY SingleFlightStep
<1>3. QED
  BY <1>1, <1>2, TInvHolds, PTL DEF Spec

(* No step, of any handler or of the clean-up, brings a dead session back  *)
(* or rewrites what a row was created with.                                *)
THEOREM DeadForGood == Spec => RevocationIsFinal
<1>1. TInv /\ [Next]_vars =>
         [\A t \in Tokens :
             Issued(t) =>
               /\ Live(t)' => Live(t)
               /\ Issued(t)'
               /\ row'[t].owner = row[t].owner /\ row'[t].type = row[t].type
               /\ row'[t].parent = row[t].parent]_vars
  BY RowsKept DEF Kept
<1>2. QED
  BY <1>1, TInvHolds, PTL DEF Spec, RevocationIsFinal

-----------------------------------------------------------------------------
(* How accounts change: identity verification is never taken back, and a   *)
(* password changes only when a transaction that set it commits.           *)
LEMMA UserStep ==
    ASSUME TInv, [Next]_vars
    PROVE  /\ \A u \in Users : user[u].isIdVerified => user'[u].isIdVerified
           /\ \/ \A u \in Users : user'[u].password = user[u].password
              \/ \E r \in Requests :
                    /\ CommitPassword(r)
                    /\ \A u \in Users \ {req[r].user} : user'[u].password = user[u].password
<1> USE DEF TInv
<1> DEFINE Goal == /\ \A u \in Users : user[u].isIdVerified => user'[u].isIdVerified
                   /\ \/ \A u \in Users : user'[u].password = user[u].password
                      \/ \E r \in Requests :
                            /\ CommitPassword(r)
                            /\ \A u \in Users \ {req[r].user} :
                                  user'[u].password = user[u].password
<1>2. ASSUME NEW r \in Requests, VerifyEmailCommit(r)
      PROVE  Goal
  BY <1>2 DEF VerifyEmailCommit, TypeOK, UserRows
<1>3. ASSUME NEW r \in Requests, VerifyIdentityMark(r)
      PROVE  Goal
  BY <1>3 DEF VerifyIdentityMark, TypeOK, UserRows
<1>4. ASSUME NEW r \in Requests, CommitPassword(r)
      PROVE  Goal
  <2>1. req[r].user \in Users
    BY <1>4, RequestShape DEF CommitPassword, RequestRecords
  <2>2. QED
    BY <1>4, <2>1 DEF CommitPassword, TypeOK, UserRows
<1>5. ASSUME NEW u \in Users, ChangeEmail(u)
      PROVE  Goal
  BY <1>5 DEF ChangeEmail, TypeOK, UserRows
<1>6. CASE UNCHANGED user
  BY <1>6
<1>7. QED
  BY <1>2, <1>3, <1>4, <1>5, <1>6
     DEF Next, Serve, Call, Direct, Environment, vars, LoginReject, RotateRead,
         RotateReject, RotateReuse, RotateRevoke, SettleFlight,
         VerifyIdentityNoChange, UpgradeRevoke, ChangePasswordReject, OpenPassword, Answer,
         LoginIssue, RotateIssue, VerifyEmailIssue, UpgradeIssue, StartFlight, JoinFlight,
         LoginLookup, ChangePasswordLookup, ResetPassword, VerifyEmailLookup,
         VerifyIdentityLookup, Fail,
         Logout, LogoutAll, TokenExpires, CleanupExpiredTokens, Restart

(* A row that did not exist has just been issued. *)
LEMMA NewRowIssued ==
    ASSUME TInv, [Next]_vars, NEW t \in Tokens, ~Issued(t), Issued(t)'
    PROVE  \E r \in Requests : Issues(r, t)
<1>1. row'[t] # row[t] /\ ~Live(t) /\ row[t].status # "revoked"
  BY DEF Issued, Unissued, Live
<1>2. Created
  BY <1>1, RowStep
     DEF Revoked, Revoke, TokenExpires, CleanupExpiredTokens, Purgeable, TInv, TypeOK
<1>3. PICK r \in Requests, s \in Tokens : Issues(r, s)
  BY <1>2 DEF Created
<1>4. s = t
  BY <1>1, <1>3, IssuesRow
<1>5. QED
  BY <1>3, <1>4

-----------------------------------------------------------------------------
(* What the handlers may rely on, although they decide from user rows they *)
(* read earlier: an identity seen verified still is, and so is the one of  *)
(* a request that is past the flag.                                        *)
Known(q, us) ==
    /\ q.step # "idle" /\ q.seen.isIdVerified => us[q.user].isIdVerified
    /\ q.step \in {"upgrade", "issue"} /\ q.op = "verifyIdentity" => us[q.user].isIdVerified

IdInv ==
    /\ FullOnlyForIdVerified
    /\ \A r \in Requests : Known(req[r], user)

(* Every step issues full rows to verified citizens only. *)
LEMMA FullOnlyStep ==
    ASSUME TInv, IdInv, [Next]_vars
    PROVE  FullOnlyForIdVerified'
<1> USE DEF TInv
<1> SUFFICES ASSUME NEW t \in Tokens, Issued(t)', row'[t].type = "full"
             PROVE  user'[row'[t].owner].isIdVerified
  BY DEF FullOnlyForIdVerified
<1>1. CASE Issued(t)
  <2>1. Kept(t) /\ row[t].owner \in Users
    BY <1>1, RowsKept, IssuedShape DEF Rows
  <2>2. user[row[t].owner].isIdVerified
    BY <1>1, <2>1 DEF IdInv, FullOnlyForIdVerified, Kept
  <2>3. QED
    BY <2>1, <2>2, UserStep DEF Kept
<1>2. CASE ~Issued(t)
  <2>1. PICK r \in Requests : Issues(r, t)
    BY <1>2, NewRowIssued
  <2>2. /\ req[r] \in RequestRecords
        /\ row'[t].owner = req[r].user
        /\ req[r].user \in Users
    BY <2>1, IssuesRow DEF RequestRecords
  <2>3. user[req[r].user].isIdVerified
    <3>1. Known(req[r], user) /\ Linked(req[r], row)
      BY DEF IdInv, Delivered
    <3>2. CASE LoginIssue(r, t)
      BY <3>1, <3>2 DEF LoginIssue, GenerateTokens, LoginType, Known, TypeOK
    <3>3. CASE RotateIssue(r, t)
      <4>1. row'[t].type = RotatedType(req[r])
        BY <3>3 DEF RotateIssue, GenerateTokens, TypeOK
      <4>2. req[r].seen.isIdVerified \/ row[req[r].token].type = "full"
        BY <4>1 DEF RotatedType
      <4>3. req[r].token \in Tokens /\ Issued(req[r].token)
              /\ row[req[r].token].owner = req[r].user
        BY <3>1, <3>3 DEF Linked, RotateIssue, Issued
      <4>4. QED
        BY <3>1, <3>3, <4>2, <4>3 DEF Known, IdInv, FullOnlyForIdVerified, RotateIssue
    <3>4. CASE VerifyEmailIssue(r, t)
      BY <3>4 DEF VerifyEmailIssue, GenerateTokens, TypeOK
    <3>5. CASE UpgradeIssue(r, t)
      BY <3>1, <3>5 DEF UpgradeIssue, Known
    <3>6. QED
      BY <2>1, <3>2, <3>3, <3>4, <3>5 DEF Issues
  <2>4. QED
    BY <2>2, <2>3, UserStep
<1>3. QED
  BY <1>1, <1>2

(* Every step keeps true what requests know about the verification. *)
LEMMA KnownStep ==
    ASSUME TInv, IdInv, [Next]_vars
    PROVE  \A r \in Requests : Known(req'[r], user')
<1> USE DEF TInv
<1>1. \A u \in Users : user[u].isIdVerified => user'[u].isIdVerified
  BY UserStep
<1>2. \A r \in Requests : Known(req[r], user')
  BY <1>1, RequestShape DEF IdInv, Known, RequestRecords
<1>3. ASSUME NEW r \in Requests, NEW X, req' = [req EXCEPT ![r] = X], Known(X, user')
      PROVE  \A q \in Requests : Known(req'[q], user')
  BY <1>2, <1>3 DEF TypeOK
<1>4. ASSUME NEW r \in Requests, NEW u \in Users,
             \A q \in Requests \ {r} : req'[q] = req[q],
             req'[r].user = u, req'[r].seen = Blank \/ req'[r].seen = user[u],
             req'[r].step \notin {"upgrade", "issue"}
      PROVE  \A q \in Requests : Known(req'[q], user')
  BY <1>1, <1>2, <1>4 DEF Known, Blank
<1>5. ASSUME NEW r \in Requests, Call(r)
      PROVE  \A q \in Requests : Known(req'[q], user')
  <2>1. ASSUME NEW t \in Tokens, NEW op \in FlightOps, StartFlight(r, op, t) \/ JoinFlight(r, op, t)
        PROVE  \A q \in Requests : Known(req'[q], user')
    <3>1. row[t].owner \in Users
      BY <2>1, IssuedShape DEF StartFlight, JoinFlight, Delivered, Rows
    <3>2. /\ \A q \in Requests \ {r} : req'[q] = req[q]
          /\ req'[r].user = row[t].owner /\ req'[r].seen = Blank
          /\ req'[r].step \notin {"upgrade", "issue"}
      BY <2>1 DEF StartFlight, JoinFlight, Arrive, TypeOK
    <3>3. QED
      BY <3>1, <3>2, <1>4
  <2>2. ASSUME NEW u \in Users, NEW right \in BOOLEAN,
               \/ LoginLookup(r, u, right) \/ ChangePasswordLookup(r, u, right)
               \/ VerifyEmailLookup(r, u) \/ VerifyIdentityLookup(r, u) \/ ResetPassword(r, u)
        PROVE  \A q \in Requests : Known(req'[q], user')
    <3>1. /\ \A q \in Requests \ {r} : req'[q] = req[q]
          /\ req'[r].user = u /\ (req'[r].seen = Blank \/ req'[r].seen = user[u])
          /\ req'[r].step \notin {"upgrade", "issue"}
      BY <2>2 DEF LoginLookup, ChangePasswordLookup, VerifyEmailLookup,
                  VerifyIdentityLookup, ResetPassword, Arrive, TypeOK
    <3>2. QED
      BY <3>1, <1>4
  <2>3. QED
    BY <1>5, <2>1, <2>2 DEF Call
<1>6. ASSUME NEW r \in Requests, NEW reply, Outcome(r, reply), req[r].step # "idle"
      PROVE  \A q \in Requests : Known(req'[q], user')
  <2> DEFINE X == [req[r] EXCEPT !.step = "answer", !.reply = reply, !.found = "live",
                                 !.seen = Blank, !.right = FALSE, !.locked = {}]
  <2>1. Known(X, user')
    BY <1>6, RequestShape DEF Known, RequestRecords, Blank
  <2>2. req' = [req EXCEPT ![r] = X]
    BY <1>6 DEF Outcome
  <2> HIDE DEF X
  <2>3. QED
    BY <1>3, <2>1, <2>2
<1>7. ASSUME NEW r \in Requests, NEW step, req' = [req EXCEPT ![r].step = step],
             req[r].step # "idle",
             step \in {"upgrade", "issue"} /\ req[r].op = "verifyIdentity"
                => user'[req[r].user].isIdVerified
      PROVE  \A q \in Requests : Known(req'[q], user')
  <2> DEFINE X == [req[r] EXCEPT !.step = step]
  <2>1. Known(X, user')
    BY <1>2, <1>7, RequestShape DEF Known, RequestRecords
  <2>2. req' = [req EXCEPT ![r] = X]
    BY <1>7
  <2> HIDE DEF X
  <2>3. QED
    BY <1>3, <2>1, <2>2
<1>8. ASSUME NEW r \in Requests, RotateRead(r)
      PROVE  \A q \in Requests : Known(req'[q], user')
  <2> DEFINE X == [req[r] EXCEPT !.step = "gates", !.found = row[req[r].token].status,
                                 !.seen = user[req[r].user]]
  <2>1. req[r] \in RequestRecords
    BY <1>8, RequestShape DEF RotateRead
  <2>2. Known(X, user')
    BY <1>1, <2>1 DEF Known, RequestRecords
  <2>3. req' = [req EXCEPT ![r] = X]
    BY <1>8 DEF RotateRead
  <2> HIDE DEF X
  <2>4. QED
    BY <1>3, <2>2, <2>3
<1>9. ASSUME NEW r \in Requests, SettleFlight(r)
      PROVE  \A q \in Requests : Known(req'[q], user')
  <2> SUFFICES ASSUME NEW q \in Requests
               PROVE  Known(req'[q], user')
    OBVIOUS
  <2>1. CASE q = r \/ q \in Waiters(r)
    <3>1. req[q] \in RequestRecords
      BY <1>9, <2>1, RequestShape DEF SettleFlight, Waiters
    <3>2. req'[q] = [req[q] EXCEPT !.step = "done",
                                   !.reply = ReplyTo(req[q].op, req[r].reply)]
      BY <1>9, <2>1 DEF SettleFlight
    <3>3. /\ req'[q].step = "done" /\ req'[q].seen = req[q].seen
          /\ req'[q].user = req[q].user /\ req[q].step # "idle"
      BY <1>9, <2>1, <3>1, <3>2 DEF RequestRecords, SettleFlight, Waiters
    <3>4. QED
      BY <1>2, <3>3 DEF Known
  <2>2. CASE ~(q = r \/ q \in Waiters(r))
    BY <1>2, <1>9, <2>2 DEF SettleFlight
  <2>3. QED
    BY <2>1, <2>2
<1>10. ASSUME NEW r \in Requests, Serve(r) \/ Fail(r)
       PROVE  \A q \in Requests : Known(req'[q], user')
  <2>1. CASE \/ LoginReject(r) \/ RotateReject(r) \/ RotateReuse(r) \/ Fail(r)
             \/ VerifyIdentityNoChange(r) \/ ChangePasswordReject(r) \/ CommitPassword(r)
    BY <1>6, <2>1 DEF LoginReject, RotateReject, RotateReuse, VerifyIdentityNoChange,
                      ChangePasswordReject, CommitPassword, Fail, Working
  <2>2. CASE RotateRevoke(r)
    <3>1. req[r].op \in FlightOps
      BY <2>2 DEF RotateRevoke, Delivered, Linked
    <3>2. QED
      BY <1>6, <1>7, <2>2, <3>1 DEF RotateRevoke, FlightOps
  <2>3. CASE VerifyEmailCommit(r)
    BY <1>6, <1>7, <2>3 DEF VerifyEmailCommit
  <2>4. CASE VerifyIdentityMark(r)
    <3>1. user'[req[r].user].isIdVerified
      BY <2>4, RequestShape DEF VerifyIdentityMark, RequestRecords, TypeOK, UserRows
    <3>2. QED
      BY <1>7, <2>4, <3>1 DEF VerifyIdentityMark
  <2>5. CASE UpgradeRevoke(r)
    BY <1>2, <1>7, <2>5 DEF UpgradeRevoke, Known
  <2>6. CASE Answer(r)
    BY <1>2, <2>6 DEF Answer, Idle, Known, TypeOK
  <2>7. ASSUME NEW t \in Tokens, Issues(r, t)
        PROVE  \A q \in Requests : Known(req'[q], user')
    <3>1. PICK type \in TokenTypes, p \in Tokens \cup {NoToken}, auth \in 0..MaxPassword :
             GenerateTokens(r, t, type, p, auth)
      BY <2>7, IssuesGenerate
    <3>2. req[r].step # "idle"
      BY <2>7 DEF Issues, LoginIssue, RotateIssue, VerifyEmailIssue, UpgradeIssue
    <3>3. QED
      BY <1>6, <3>1, <3>2 DEF GenerateTokens
  <2>8. CASE OpenPassword(r)
    <3> DEFINE X == [req[r] EXCEPT !.step = "open", !.locked = RowsToRevoke(req[r].user)]
    <3>1. req[r] \in RequestRecords
      BY <2>8, RequestShape DEF OpenPassword
    <3>2. Known(X, user')
      BY <1>2, <2>8, <3>1 DEF Known, RequestRecords, OpenPassword
    <3>3. req' = [req EXCEPT ![r] = X]
      BY <2>8 DEF OpenPassword
    <3> HIDE DEF X
    <3>4. QED
      BY <1>3, <3>2, <3>3
  <2>9. QED
    BY <1>8, <1>9, <1>10, <2>1, <2>2, <2>3, <2>4, <2>5, <2>6, <2>7, <2>8 DEF Serve, Issues
<1>11. ASSUME UNCHANGED req \/ Restart
       PROVE  \A q \in Requests : Known(req'[q], user')
  BY <1>2, <1>11 DEF Restart, Idle, Known
<1>12. QED
  BY <1>5, <1>10, <1>11
     DEF Next, Direct, Environment, vars, Logout, LogoutAll, ChangeEmail,
         TokenExpires, CleanupExpiredTokens

(* No interleaving gives a full session to a citizen whose identity has    *)
(* not been verified.                                                      *)
THEOREM FullSessionsVerified == Spec => []FullOnlyForIdVerified
<1>1. Init => IdInv
  BY DEF Init, IdInv, FullOnlyForIdVerified, Issued, Known, Idle
<1>2. TInv /\ IdInv /\ [Next]_vars => IdInv'
  BY FullOnlyStep, KnownStep DEF IdInv
<1>3. IdInv => FullOnlyForIdVerified
  BY DEF IdInv
<1>4. QED
  BY <1>1, <1>2, <1>3, TInvHolds, PTL DEF Spec

-----------------------------------------------------------------------------
(* A request that read its token alive, or has spent it, and has not issued *)
(* the successor yet.                                                      *)
Entitled(q) ==
    /\ q.step # "idle" /\ q.op \in FlightOps
    /\ q.step = "issue" \/ (q.step = "gates" /\ q.found = "live")

Childless(t, rw) == \A s \in Tokens : rw[s] # Unissued => rw[s].parent # t

(* Parents exist and are dead; who is entitled to a successor leads the    *)
(* flight of a token that has none, and has spent it before it issues one. *)
ParentsDead ==
    \A t \in Tokens : Issued(t) /\ row[t].parent # NoToken =>
        Issued(row[t].parent) /\ ~Live(row[t].parent)

RotInv ==
    /\ SingleFlight
    /\ SingleSuccessor
    /\ ParentsDead
    /\ \A r \in Requests : Entitled(req[r]) =>
          /\ Childless(req[r].token, row)
          /\ req[r].step = "issue" => ~Live(req[r].token)

(* A new row has no parent, or replaces the token of the flight. *)
LEMMA IssuesParent ==
    ASSUME TInv, NEW r \in Requests, NEW t \in Tokens, Issues(r, t)
    PROVE  \/ row'[t].parent = NoToken
           \/ /\ row'[t].parent = req[r].token
              /\ Entitled(req[r]) /\ req[r].step = "issue"
BY DEF Issues, LoginIssue, RotateIssue, VerifyEmailIssue, UpgradeIssue, GenerateTokens,
       Entitled, TInv, TypeOK

(* Who issues a row is no longer entitled to one. *)
LEMMA IssuesAnswers ==
    ASSUME TInv, NEW r \in Requests, NEW t \in Tokens, Issues(r, t)
    PROVE  ~Entitled(req'[r]) /\ \A q \in Requests \ {r} : req'[q] = req[q]
<1>1. req[r] \in RequestRecords
  BY IssuesRow
<1>2. Outcome(r, [code |-> "ok", token |-> t])
  BY IssuesGenerate DEF GenerateTokens
<1>3. req'[r].step = "answer"
  BY <1>1, <1>2 DEF Outcome, RequestRecords, TInv, TypeOK
<1>4. QED
  BY <1>2, <1>3 DEF Outcome, Entitled, TInv, TypeOK

(* A request becomes entitled only by reading its token alive, and reaches *)
(* "issue" only by spending it.                                            *)
LEMMA EntitledStep ==
    ASSUME TInv, [Next]_vars, NEW q \in Requests, Entitled(req'[q])
    PROVE  /\ req'[q].token = req[q].token /\ req'[q].op = req[q].op
           /\ \/ RotateRead(q) /\ row[req[q].token].status = "live" /\ req'[q].step = "gates"
              \/ Entitled(req[q]) /\ req'[q] = req[q]
              \/ Entitled(req[q]) /\ RotateRevoke(q) /\ req'[q].seen = req[q].seen
<1> USE DEF TInv
<1> DEFINE Goal ==
       /\ req'[q].token = req[q].token /\ req'[q].op = req[q].op
       /\ \/ RotateRead(q) /\ row[req[q].token].status = "live" /\ req'[q].step = "gates"
          \/ Entitled(req[q]) /\ req'[q] = req[q]
          \/ Entitled(req[q]) /\ RotateRevoke(q) /\ req'[q].seen = req[q].seen
<1>1. CASE req'[q] = req[q]
  BY <1>1
<1>2. ASSUME NEW r \in Requests, NEW reply, Outcome(r, reply), req[r].step # "idle"
      PROVE  Goal
  <2>1. req[r] \in RequestRecords
    BY <1>2, RequestShape
  <2>2. req'[r].step = "answer" /\ (q # r => req'[q] = req[q])
    BY <1>2, <2>1 DEF Outcome, RequestRecords, TypeOK
  <2>3. QED
    BY <1>1, <2>2 DEF Entitled
<1>3. ASSUME NEW r \in Requests, req[r].op \notin FlightOps, req[r].step # "idle",
             NEW step \in Working, req' = [req EXCEPT ![r].step = step]
      PROVE  Goal
  <2>1. req[r] \in RequestRecords
    BY <1>3, RequestShape
  <2>2. req'[r].op = req[r].op /\ (q # r => req'[q] = req[q])
    BY <1>3, <2>1 DEF RequestRecords, TypeOK
  <2>3. QED
    BY <1>1, <1>3, <2>2 DEF Entitled
<1>4. ASSUME NEW r \in Requests, Call(r)
      PROVE  Goal
  <2>1. /\ req'[r].step \notin {"gates", "issue"}
        /\ \A p \in Requests \ {r} : req'[p] = req[p]
    BY <1>4 DEF Call, StartFlight, JoinFlight, LoginLookup, ChangePasswordLookup,
                ResetPassword, VerifyEmailLookup, VerifyIdentityLookup, Arrive, TypeOK
  <2>2. QED
    BY <1>1, <2>1 DEF Entitled
<1>5. ASSUME NEW r \in Requests, RotateRead(r)
      PROVE  Goal
  <2>1. req[r] \in RequestRecords
    BY <1>5, RequestShape DEF RotateRead
  <2>2. /\ req'[r].step = "gates" /\ req'[r].token = req[r].token
        /\ req'[r].op = req[r].op /\ req'[r].found = row[req[r].token].status
        /\ q # r => req'[q] = req[q]
    BY <1>5, <2>1 DEF RotateRead, RequestRecords, TypeOK
  <2>3. QED
    BY <1>1, <1>5, <2>2 DEF Entitled
<1>6. ASSUME NEW r \in Requests, RotateRevoke(r)
      PROVE  Goal
  <2>1. req[r] \in RequestRecords /\ req[r].op \in FlightOps /\ Entitled(req[r])
    BY <1>6, RequestShape DEF RotateRevoke, Usable, Entitled, Delivered, Linked
  <2>2. CASE req' = [req EXCEPT ![r].step = "issue"]
    <3>1. /\ req'[r].token = req[r].token /\ req'[r].op = req[r].op
          /\ req'[r].seen = req[r].seen
          /\ q # r => req'[q] = req[q]
      BY <2>1, <2>2 DEF RequestRecords, TypeOK
    <3>2. QED
      BY <1>1, <1>6, <2>1, <3>1
  <2>3. QED
    BY <1>2, <1>6, <2>2 DEF RotateRevoke
<1>7. ASSUME NEW r \in Requests, SettleFlight(r)
      PROVE  Goal
  <2>1. \A p \in Requests : p = r \/ p \in Waiters(r) => req[p] \in RequestRecords
    BY <1>7, RequestShape DEF SettleFlight, Waiters
  <2>2. req'[q].step = "done" \/ req'[q] = req[q]
    BY <1>7, <2>1 DEF SettleFlight, RequestRecords
  <2>3. QED
    BY <1>1, <2>2 DEF Entitled
<1>8. ASSUME NEW r \in Requests, VerifyEmailCommit(r) \/ VerifyIdentityMark(r) \/ UpgradeRevoke(r)
      PROVE  Goal
  <2>1. req[r].op \notin FlightOps /\ req[r].step # "idle"
    BY <1>8 DEF VerifyEmailCommit, VerifyIdentityMark, UpgradeRevoke, FlightOps
  <2>2. CASE Outcome(r, Refusal("ok"))
    BY <1>2, <2>1, <2>2
  <2>3. ASSUME NEW step \in {"issue", "upgrade"}, req' = [req EXCEPT ![r].step = step]
        PROVE  Goal
    BY <1>3, <2>1, <2>3 DEF Working
  <2>4. QED
    BY <1>8, <2>2, <2>3 DEF VerifyEmailCommit, VerifyIdentityMark, UpgradeRevoke
<1>9. ASSUME NEW r \in Requests,
             \/ LoginReject(r) \/ RotateReject(r) \/ RotateReuse(r) \/ Fail(r)
             \/ VerifyIdentityNoChange(r) \/ ChangePasswordReject(r) \/ CommitPassword(r)
      PROVE  Goal
  BY <1>2, <1>9 DEF LoginReject, RotateReject, RotateReuse, VerifyIdentityNoChange,
                    ChangePasswordReject, CommitPassword, Fail, Working
<1>10. ASSUME NEW r \in Requests, NEW t \in Tokens, Issues(r, t)
       PROVE  Goal
  BY <1>1, <1>10, IssuesAnswers
<1>11. ASSUME NEW r \in Requests, Answer(r)
       PROVE  Goal
  BY <1>1, <1>11 DEF Answer, Idle, Entitled, TypeOK
<1>12. CASE Restart \/ UNCHANGED req
  BY <1>1, <1>12 DEF Restart, Idle, Entitled
<1>13. ASSUME NEW r \in Requests, OpenPassword(r)
       PROVE  Goal
  <2>1. req[r] \in RequestRecords
    BY <1>13, RequestShape DEF OpenPassword
  <2>2. req'[r].step = "open" /\ (q # r => req'[q] = req[q])
    BY <1>13, <2>1 DEF OpenPassword, RequestRecords, TypeOK
  <2>3. QED
    BY <1>1, <2>2 DEF Entitled
<1>14. QED
  BY <1>4, <1>5, <1>6, <1>7, <1>8, <1>9, <1>10, <1>11, <1>12, <1>13
     DEF Next, Serve, Issues, Direct, Environment, vars, Logout, LogoutAll, ChangeEmail, TokenExpires, CleanupExpiredTokens

(* Only the request that leads a flight can give its token a successor. *)
LEMMA ChildlessStep ==
    ASSUME TInv, RotInv, [Next]_vars, NEW q \in Requests,
           Entitled(req[q]), Entitled(req'[q])
    PROVE  Childless(req[q].token, row')
<1> USE DEF TInv
<1> SUFFICES ASSUME NEW s \in Tokens, Issued(s)', row'[s].parent = req[q].token
             PROVE  FALSE
  BY DEF Childless, Issued
<1>1. req[q].token \in Tokens /\ Childless(req[q].token, row)
  BY DEF Delivered, Linked, Entitled, RotInv
<1>2. ~Issued(s)
  BY <1>1, RowsKept DEF Kept, Childless, Issued
<1>3. PICK r \in Requests : Issues(r, s)
  BY <1>2, NewRowIssued
<1>4. req[r].token = req[q].token /\ Entitled(req[r])
  BY <1>1, <1>3, IssuesParent, TokensAssumption
<1>5. r = q
  BY <1>4 DEF RotInv, SingleFlight, LeadsFlight, Entitled, Working
<1>6. QED
  BY <1>3, <1>5, IssuesAnswers

(* Every step keeps the invariant of rotations. *)
LEMMA RotationStep ==
    ASSUME TInv, RotInv, [Next]_vars
    PROVE  RotInv'
<1> USE DEF TInv
<1>1. SingleFlight'
  BY SingleFlightStep DEF RotInv
<1>2. ASSUME NEW t \in Tokens, ~Issued(t), Issued(t)', row'[t].parent # NoToken
      PROVE  \E r \in Requests :
                /\ Issues(r, t) /\ Entitled(req[r]) /\ req[r].step = "issue"
                /\ req[r].token \in Tokens /\ Issued(req[r].token)
                /\ row'[t].parent = req[r].token
  <2>1. PICK r \in Requests : Issues(r, t)
    BY <1>2, NewRowIssued
  <2>2. /\ row'[t].parent = req[r].token
        /\ Entitled(req[r]) /\ req[r].step = "issue"
    BY <1>2, <2>1, IssuesParent
  <2>3. QED
    BY <2>1, <2>2 DEF Delivered, Linked, Entitled, Issued
<1>3. SingleSuccessor'
  <2> SUFFICES ASSUME NEW s \in Tokens, NEW t \in Tokens, Issued(s)', Issued(t)',
                      row'[s].parent = row'[t].parent, row'[s].parent # NoToken, s # t
               PROVE  FALSE
    BY DEF SingleSuccessor
  <2>1. ASSUME NEW a \in Tokens, NEW b \in Tokens, a # b, Issued(a)', Issued(b)', ~Issued(a),
               row'[a].parent = row'[b].parent, row'[a].parent # NoToken
        PROVE  FALSE
    <3>1. PICK r \in Requests : /\ Issues(r, a) /\ Entitled(req[r])
                                /\ row'[a].parent = req[r].token
      BY <1>2, <2>1
    <3>2. CASE Issued(b)
      <4>1. Childless(req[r].token, row)
        BY <3>1 DEF RotInv
      <4>2. row[b].parent = req[r].token
        BY <2>1, <3>1, <3>2, RowsKept DEF Kept
      <4>3. QED
        BY <3>2, <4>1, <4>2 DEF Childless, Issued
    <3>3. CASE ~Issued(b)
      BY <2>1, <3>1, <3>3, IssuesRow DEF Issued
    <3>4. QED
      BY <3>2, <3>3
  <2>2. CASE Issued(s) /\ Issued(t)
    BY <2>2, RowsKept DEF RotInv, SingleSuccessor, Kept
  <2>3. QED
    BY <2>1, <2>2
<1>4. ParentsDead'
  <2> SUFFICES ASSUME NEW t \in Tokens, Issued(t)', row'[t].parent # NoToken
               PROVE  row'[row'[t].parent] # Unissued /\ row'[row'[t].parent].status # "live"
    BY DEF ParentsDead, Issued, Live
  <2>1. \E p \in Tokens : row'[t].parent = p /\ Issued(p) /\ ~Live(p)
    <3>1. CASE Issued(t)
      <4>1. row[t].parent \in Tokens \cup {NoToken} /\ row'[t].parent = row[t].parent
        BY <3>1, IssuedShape, RowsKept DEF Rows, Kept
      <4>2. QED
        BY <3>1, <4>1 DEF RotInv, ParentsDead
    <3>2. CASE ~Issued(t)
      BY <1>2, <3>2 DEF RotInv
    <3>3. QED
      BY <3>1, <3>2
  <2>2. PICK p \in Tokens : row'[t].parent = p /\ Issued(p) /\ ~Live(p)
    BY <2>1
  <2>3. Kept(p)
    BY <2>2, RowsKept
  <2>4. QED
    BY <2>2, <2>3 DEF Kept, Issued, Live
<1>5. ASSUME NEW q \in Requests, Entitled(req'[q])
      PROVE  /\ Childless(req'[q].token, row')
             /\ req'[q].step = "issue" => row'[req'[q].token].status # "live"
  <2>1. req'[q].token = req[q].token
    BY <1>5, EntitledStep
  <2>2. CASE RotateRead(q) /\ row[req[q].token].status = "live" /\ req'[q].step = "gates"
    <3>1. req[q].token \in Tokens /\ Live(req[q].token)
      BY <2>2 DEF RotateRead, Delivered, Linked, Live
    <3>2. Childless(req[q].token, row)
      BY <3>1, TokensAssumption DEF RotInv, ParentsDead, Childless, Issued
    <3>3. QED
      BY <2>1, <2>2, <3>2 DEF Childless, RotateRead
  <2>3. CASE Entitled(req[q]) /\ req'[q] = req[q]
    <3>1. Childless(req[q].token, row')
      BY <1>5, <2>3, ChildlessStep
    <3>2. ASSUME req[q].step = "issue"
          PROVE  row'[req[q].token].status # "live"
      <4>1. req[q].token \in Tokens /\ Issued(req[q].token) /\ ~Live(req[q].token)
        BY <2>3, <3>2 DEF Delivered, Linked, Entitled, RotInv, Issued
      <4>2. QED
        BY <4>1, RowsKept DEF Kept, Live
    <3>3. QED
      BY <2>1, <2>3, <3>1, <3>2
  <2>4. CASE Entitled(req[q]) /\ RotateRevoke(q)
    <3>1. Childless(req[q].token, row')
      BY <1>5, <2>4, ChildlessStep
    <3>2. row'[req[q].token].status # "live"
      <4>1. req[q].token \in Tokens
        BY <2>4 DEF Entitled, Delivered, Linked
      <4>2. CASE row[req[q].token].status = "deleted"
        BY <2>4, <4>1, <4>2 DEF RotateRevoke, Live
      <4>3. CASE Spend(req[q].token)
        <5>1. CASE ~Live(req[q].token)
          BY <4>1, <4>3, <5>1 DEF Spend, Revoke, Live
        <5>2. CASE Live(req[q].token)
          <6>1. row'[req[q].token] =
                   [row[req[q].token] EXCEPT !.status = "revoked", !.cause = "rotation"]
            BY <4>1, <4>3, <5>2 DEF Spend, Revoke
          <6>2. row[req[q].token] \in Rows
            BY <4>1, <5>2, IssuedShape DEF Issued, Unissued, Live
          <6>3. QED
            BY <6>1, <6>2 DEF Live, Rows
        <5>3. QED
          BY <5>1, <5>2
      <4>4. QED
        BY <2>4, <4>2, <4>3 DEF RotateRevoke
    <3>3. QED
      BY <2>1, <3>1, <3>2
  <2>5. QED
    BY <1>5, <2>2, <2>3, <2>4, EntitledStep
<1>6. QED
  BY <1>1, <1>3, <1>4, <1>5 DEF RotInv, Live

(* The invariant of rotations holds always. *)
LEMMA RotInvHolds == Spec => []RotInv
<1>1. Init => RotInv
  BY DEF Init, RotInv, SingleFlight, LeadsFlight, SingleSuccessor, ParentsDead, Issued,
         Entitled, Idle, Working
<1>2. TInv /\ RotInv /\ [Next]_vars => RotInv'
  BY RotationStep
<1>3. QED
  BY <1>1, <1>2, TInvHolds, PTL DEF Spec

(* Whatever duplicates, restarts and clean-ups interleave with rotations,  *)
(* a refresh token has at most one successor.                              *)
THEOREM OneSuccessor == Spec => []SingleSuccessor
<1>1. RotInv => SingleSuccessor
  BY DEF RotInv
<1>2. QED
  BY <1>1, RotInvHolds, PTL

(* A token with a successor can never be used again. *)
THEOREM ParentsAreSpent == Spec => []ParentSpent
<1>1. RotInv => ParentSpent
  BY DEF RotInv, ParentsDead, ParentSpent
<1>2. QED
  BY <1>1, RotInvHolds, PTL

-----------------------------------------------------------------------------
(* Why a session that outlives its password is an overlapped one: an open  *)
(* transaction has locked every live row of its citizen but those issued   *)
(* under its eyes, and who will replace a session has read its citizen's   *)
(* password when that was the one of the session.                          *)
Enclosed(q, rw) ==
    \A t \in Tokens :
        rw[t].status = "live" /\ rw[t].owner = q.user => t \in q.locked \/ rw[t].overlapped

SameAge(q, rw) == rw[q.token].overlapped \/ rw[q.token].auth = q.seen.password

PassInv ==
    /\ OldSessionsOverlapped
    /\ \A r \in Requests : req[r].step = "open" => Enclosed(req[r], row)
    /\ \A r \in Requests : Entitled(req[r]) => SameAge(req[r], row)

(* A new session that no password change overlapped was authenticated with *)
(* the password of the moment, and no transaction is open for its citizen. *)
LEMMA FreshRow ==
    ASSUME TInv, PassInv, NEW r \in Requests, NEW t \in Tokens, Issues(r, t)
    PROVE  row'[t].overlapped
             \/ (row'[t].auth = user[req[r].user].password /\ ~UserLocked(req[r].user))
<1> USE DEF TInv
<1> SUFFICES ASSUME ~row'[t].overlapped
             PROVE  row'[t].auth = user[req[r].user].password /\ ~UserLocked(req[r].user)
  OBVIOUS
<1>1. ASSUME NEW type, NEW p, NEW auth, GenerateTokens(r, t, type, p, auth)
      PROVE  /\ row'[t].auth = auth /\ ~UserLocked(req[r].user)
             /\ req[r].seen.password = user[req[r].user].password
             /\ p # NoToken => ~row[p].overlapped
  BY <1>1 DEF GenerateTokens, Overlapped, TypeOK
<1>2. CASE RotateIssue(r, t)
  <2>1. req[r].token \in Tokens /\ Entitled(req[r])
    BY <1>2 DEF RotateIssue, Entitled, Delivered, Linked
  <2>2. /\ row'[t].auth = row[req[r].token].auth /\ ~UserLocked(req[r].user)
        /\ req[r].seen.password = user[req[r].user].password
        /\ ~row[req[r].token].overlapped
    BY <1>1, <1>2, <2>1, TokensAssumption DEF RotateIssue
  <2>3. QED
    BY <2>1, <2>2 DEF PassInv, SameAge
<1>3. CASE LoginIssue(r, t) \/ VerifyEmailIssue(r, t) \/ UpgradeIssue(r, t)
  BY <1>1, <1>3 DEF LoginIssue, VerifyEmailIssue, UpgradeIssue
<1>4. QED
  BY <1>2, <1>3 DEF Issues

(* A transaction commits: the live rows it leaves were overlapped. *)
LEMMA CommitLeavesOverlapped ==
    ASSUME TInv, PassInv, NEW r \in Requests, CommitPassword(r), NEW t \in Tokens,
           Live(t)', row'[t].owner = req[r].user
    PROVE  row'[t].overlapped
<1>1. row'[t] = row[t] /\ ~(t \in req[r].locked /\ Live(t))
  <2>1. CASE t \in req[r].locked /\ Live(t)
    <3>1. row'[t] = [row[t] EXCEPT !.status = "revoked", !.cause = "other"]
      BY <2>1 DEF CommitPassword, Revoke
    <3>2. row[t] \in Rows
      BY <2>1, RowShape DEF TInv, Live
    <3>3. QED
      BY <3>1, <3>2 DEF Live, Rows
  <2>2. QED
    BY <2>1 DEF CommitPassword, Revoke
<1>2. Enclosed(req[r], row)
  BY DEF CommitPassword, PassInv
<1>3. QED
  BY <1>1, <1>2 DEF Enclosed, Live

(* Every step keeps old sessions overlapped. *)
LEMMA OldSessionsStep ==
    ASSUME TInv, PassInv, [Next]_vars
    PROVE  OldSessionsOverlapped'
<1> SUFFICES ASSUME NEW t \in Tokens, Live(t)', ~row'[t].overlapped
             PROVE  row'[t].auth = user'[row'[t].owner].password
  BY DEF OldSessionsOverlapped
<1>1. CASE Issued(t)
  <2>1. Kept(t) /\ row[t].owner \in Users
    BY <1>1, RowsKept, IssuedShape DEF TInv, Rows
  <2>2. row[t].auth = user[row[t].owner].password
    BY <2>1 DEF Kept, PassInv, OldSessionsOverlapped
  <2>3. user'[row[t].owner].password = user[row[t].owner].password
    <3>1. ASSUME NEW r \in Requests, CommitPassword(r)
          PROVE  row[t].owner # req[r].user
      BY <2>1, <3>1, CommitLeavesOverlapped DEF Kept
    <3>2. QED
      BY <2>1, <3>1, UserStep
  <2>4. QED
    BY <2>1, <2>2, <2>3 DEF Kept
<1>2. CASE ~Issued(t)
  <2>1. PICK r \in Requests : Issues(r, t)
    BY <1>2, NewRowIssued DEF Live, Issued, Unissued
  <2>2. row'[t].owner = req[r].user /\ req[r].user \in Users
    BY <2>1, IssuesRow DEF RequestRecords
  <2>3. row'[t].auth = user[req[r].user].password
    BY <2>1, FreshRow
  <2>4. user'[req[r].user].password = user[req[r].user].password
    <3>1. UNCHANGED user
      BY <2>1 DEF Issues, LoginIssue, RotateIssue, VerifyEmailIssue, UpgradeIssue
    <3>2. QED
      BY <3>1
  <2>5. QED
    BY <2>2, <2>3, <2>4
<1>3. QED
  BY <1>1, <1>2

(* A transaction that is open was open before, or opens in this step. *)
LEMMA OpenStep ==
    ASSUME TInv, [Next]_vars, NEW q \in Requests, req'[q].step = "open"
    PROVE  req'[q] = req[q] \/ OpenPassword(q)
<1> USE DEF TInv
<1> DEFINE Goal == req'[q] = req[q] \/ OpenPassword(q)
<1>1. ASSUME NEW r \in Requests, NEW reply, Outcome(r, reply), req[r].step # "idle"
      PROVE  Goal
  <2>1. req[r] \in RequestRecords
    BY <1>1, RequestShape
  <2>2. req'[r].step = "answer" /\ (q # r => req'[q] = req[q])
    BY <1>1, <2>1 DEF Outcome, RequestRecords, TypeOK
  <2>3. QED
    BY <2>2
<1>2. ASSUME NEW r \in Requests, NEW step \in Working \ {"open"}, req[r].step # "idle",
             req' = [req EXCEPT ![r].step = step]
      PROVE  Goal
  <2>1. req[r] \in RequestRecords
    BY <1>2, RequestShape
  <2>2. req'[r].step # "open" /\ (q # r => req'[q] = req[q])
    BY <1>2, <2>1 DEF RequestRecords, TypeOK
  <2>3. QED
    BY <2>2
<1>3. ASSUME NEW r \in Requests, Call(r)
      PROVE  Goal
  BY <1>3 DEF Call, StartFlight, JoinFlight, LoginLookup, ChangePasswordLookup,
              ResetPassword, VerifyEmailLookup, VerifyIdentityLookup, Arrive, TypeOK
<1>4. ASSUME NEW r \in Requests, RotateRead(r)
      PROVE  Goal
  <2>1. req[r] \in RequestRecords
    BY <1>4, RequestShape DEF RotateRead
  <2>2. req'[r].step = "gates" /\ (q # r => req'[q] = req[q])
    BY <1>4, <2>1 DEF RotateRead, RequestRecords, TypeOK
  <2>3. QED
    BY <2>2
<1>5. ASSUME NEW r \in Requests, RotateRevoke(r) \/ VerifyEmailCommit(r)
      PROVE  Goal
  <2>1. req[r].step # "idle"
    BY <1>5 DEF RotateRevoke, VerifyEmailCommit
  <2>2. CASE req' = [req EXCEPT ![r].step = "issue"]
    BY <1>2, <2>1, <2>2 DEF Working
  <2>3. QED
    BY <1>1, <1>5, <2>1, <2>2 DEF RotateRevoke, VerifyEmailCommit
<1>6. ASSUME NEW r \in Requests, VerifyIdentityMark(r) \/ UpgradeRevoke(r)
      PROVE  Goal
  <2>1. req[r].step # "idle"
    BY <1>6 DEF VerifyIdentityMark, UpgradeRevoke
  <2>2. ASSUME NEW step \in {"upgrade", "issue"}, req' = [req EXCEPT ![r].step = step]
        PROVE  Goal
    BY <1>2, <2>1, <2>2 DEF Working
  <2>3. QED
    BY <1>6, <2>2 DEF VerifyIdentityMark, UpgradeRevoke
<1>7. ASSUME NEW r \in Requests, SettleFlight(r)
      PROVE  Goal
  <2>1. \A p \in Requests : p = r \/ p \in Waiters(r) => req[p] \in RequestRecords
    BY <1>7, RequestShape DEF SettleFlight, Waiters
  <2>2. req'[q].step = "done" \/ req'[q] = req[q]
    BY <1>7, <2>1 DEF SettleFlight, RequestRecords
  <2>3. QED
    BY <2>2
<1>8. ASSUME NEW r \in Requests,
             \/ LoginReject(r) \/ RotateReject(r) \/ RotateReuse(r) \/ Fail(r)
             \/ VerifyIdentityNoChange(r) \/ ChangePasswordReject(r) \/ CommitPassword(r)
      PROVE  Goal
  BY <1>1, <1>8 DEF LoginReject, RotateReject, RotateReuse, VerifyIdentityNoChange,
                    ChangePasswordReject, CommitPassword, Fail, Working
<1>9. ASSUME NEW r \in Requests, NEW t \in Tokens, Issues(r, t)
      PROVE  Goal
  BY <1>1, <1>9, IssuesGenerate
     DEF Issues, LoginIssue, RotateIssue, VerifyEmailIssue, UpgradeIssue, GenerateTokens
<1>10. ASSUME NEW r \in Requests, Answer(r) \/ OpenPassword(r)
       PROVE  Goal
  BY <1>10 DEF Answer, OpenPassword, Idle, TypeOK
<1>11. CASE Restart \/ UNCHANGED req
  BY <1>11 DEF Restart, Idle
<1>12. QED
  BY <1>3, <1>4, <1>5, <1>6, <1>7, <1>8, <1>9, <1>10, <1>11
     DEF Next, Serve, Issues, Direct, Environment, vars, Logout, LogoutAll, ChangeEmail,
         TokenExpires, CleanupExpiredTokens

(* Every step keeps what open transactions hold. *)
LEMMA EnclosedStep ==
    ASSUME TInv, PassInv, [Next]_vars, NEW q \in Requests, req'[q].step = "open"
    PROVE  Enclosed(req'[q], row')
<1> USE DEF TInv
<1>1. CASE OpenPassword(q)
  <2>1. req[q] \in RequestRecords
    BY <1>1, RequestShape DEF OpenPassword
  <2>2. /\ req'[q].user = req[q].user /\ req'[q].locked = RowsToRevoke(req[q].user)
        /\ UNCHANGED row
    BY <1>1, <2>1 DEF OpenPassword, RequestRecords, TypeOK
  <2>3. QED
    BY <2>2 DEF Enclosed, RowsToRevoke, RowsOf, Issued, Unissued, Live
<1>2. CASE req'[q] = req[q]
  <2> SUFFICES ASSUME NEW t \in Tokens, row'[t].status = "live", row'[t].owner = req[q].user
               PROVE  t \in req[q].locked \/ row'[t].overlapped
    BY <1>2 DEF Enclosed
  <2>1. CASE Issued(t)
    <3>1. /\ row[t].status = "live" /\ row[t].owner = req[q].user
          /\ row'[t].overlapped = row[t].overlapped
      BY <2>1, RowsKept DEF Kept, Live
    <3>2. QED
      BY <1>2, <3>1 DEF PassInv, Enclosed
  <2>2. CASE ~Issued(t)
    <3>1. PICK r \in Requests : Issues(r, t)
      BY <2>2, NewRowIssued DEF Issued, Unissued
    <3>2. UserLocked(req[r].user)
      BY <1>2, <3>1, IssuesRow DEF UserLocked
    <3>3. QED
      BY <3>1, <3>2, FreshRow
  <2>3. QED
    BY <2>1, <2>2
<1>3. QED
  BY <1>1, <1>2, OpenStep

(* Every step keeps what the rotating requests know of their session's age. *)
LEMMA SameAgeStep ==
    ASSUME TInv, PassInv, [Next]_vars, NEW q \in Requests, Entitled(req'[q])
    PROVE  SameAge(req'[q], row')
<1> USE DEF TInv
<1>1. CASE RotateRead(q) /\ row[req[q].token].status = "live" /\ req'[q].step = "gates"
  <2>1. req[q] \in RequestRecords /\ req[q].token \in Tokens
          /\ row[req[q].token].owner = req[q].user
    BY <1>1, RequestShape DEF RotateRead, Delivered, Linked
  <2>2. /\ req'[q].token = req[q].token /\ req'[q].seen = user[req[q].user]
        /\ UNCHANGED row
    BY <1>1, <2>1 DEF RotateRead, RequestRecords, TypeOK
  <2>3. QED
    BY <1>1, <2>1, <2>2 DEF PassInv, OldSessionsOverlapped, SameAge, Live
<1>2. CASE Entitled(req[q]) /\ req'[q].token = req[q].token /\ req'[q].seen = req[q].seen
  <2>1. req[q].token \in Tokens /\ Issued(req[q].token)
    BY <1>2 DEF Entitled, Delivered, Linked, Issued
  <2>2. Kept(req[q].token)
    BY <2>1, RowsKept
  <2>3. QED
    BY <1>2, <2>2 DEF Kept, PassInv, SameAge
<1>3. QED
  BY <1>1, <1>2, EntitledStep

(* A session survives a change of its password only if it was issued, or   *)
(* replaces one that was issued, while the change was under way.           *)
THEOREM OldSessionsExplained == Spec => []OldSessionsOverlapped
<1>1. Init => PassInv
  BY DEF Init, PassInv, OldSessionsOverlapped, Live, Unissued, Idle, Entitled
<1>2. TInv /\ PassInv /\ [Next]_vars => PassInv'
  BY OldSessionsStep, EnclosedStep, SameAgeStep DEF PassInv
<1>3. PassInv => OldSessionsOverlapped
  BY DEF PassInv
<1>4. QED
  BY <1>1, <1>2, <1>3, TInvHolds, PTL DEF Spec
=============================================================================
