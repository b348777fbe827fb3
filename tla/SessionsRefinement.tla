------------------------- MODULE SessionsRefinement -------------------------
(***************************************************************************)
(* Sessions implements TokenLedger, and what the requests of a flight are  *)
(* answered with, for any sets of users, tokens and requests.              *)
(***************************************************************************)
EXTENDS SessionsProofs

-----------------------------------------------------------------------------
(* What a request q of a flight knows of its outcome, in table rw           *)

(* Where a rotation can be; with success comes the row that replaces the    *)
(* presented token, a full one when the answer went to an upgrade.          *)
AnswerFits(q, rw) ==
    q.step # "idle" /\ q.op \in FlightOps =>
        /\ q.step \in {"read", "gates", "issue", "answer", "joined", "done"}
        /\ q.reply.code = "ok" =>
              /\ q.step \in {"answer", "done"}
              /\ q.reply.token \in Tokens
              /\ rw[q.reply.token] # Unissued
              /\ rw[q.reply.token].parent = q.token
              /\ q.step = "done" /\ q.op = "upgrade" => rw[q.reply.token].type = "full"

(* A flight of a dead token reads it dead and stops there. *)
ReplayFits(q, rw) ==
    q.step # "idle" /\ q.replay =>
        /\ q.op \in FlightOps
        /\ q.step \in {"read", "gates", "answer", "done"}
        /\ q.step = "gates" => q.found # "live"
        /\ q.reply.code # "ok"
        /\ rw[q.token].status # "live"

AnswersInv == \A r \in Requests : AnswerFits(req[r], row) /\ ReplayFits(req[r], row)

-----------------------------------------------------------------------------
(* The table as a ledger                                                    *)

(* What the refinement mapping shows of the table. *)
Table == [t \in Tokens |->
            IF Issued(t)
            THEN [status |-> row[t].status, owner |-> row[t].owner,
                  type |-> row[t].type, parent |-> row[t].parent]
            ELSE [status |-> "none"]]

(* The entries of two tables agree when the columns of their rows do.       *)
LEMMA SameTable ==
    ASSUME \A t \in Tokens :
              /\ Issued(t)' <=> Issued(t)
              /\ Issued(t) => /\ row'[t].status = row[t].status /\ row'[t].owner = row[t].owner
                              /\ row'[t].type = row[t].type /\ row'[t].parent = row[t].parent
    PROVE  Table' = Table
BY DEF Table

(* A row that is revoked or deleted changes its entry's status only. *)
LEMMA DeadEntry ==
    ASSUME TInv, NEW t \in Tokens, NEW status \in {"revoked", "deleted"},
           NEW cause \in Causes, Issued(t),
           \/ row'[t] = [row[t] EXCEPT !.status = status]
           \/ row'[t] = [row[t] EXCEPT !.status = status, !.cause = cause]
    PROVE  Table'[t] = [Table[t] EXCEPT !.status = status]
<1>1. row[t] \in Rows
  BY IssuedShape DEF TInv
<1>2. /\ row'[t].status = status /\ row'[t].owner = row[t].owner
      /\ row'[t].type = row[t].type /\ row'[t].parent = row[t].parent
  BY <1>1 DEF Rows
<1>3. Issued(t)'
  BY <1>2 DEF Issued, Unissued
<1>4. QED
  BY <1>2, <1>3 DEF Table

(* Revoking rows of one citizen is a step of the ledger. *)
LEMMA RevokedIsRevokeSome ==
    ASSUME TInv, Revoked
    PROVE  Ledger!Next
<1>1. PICK u \in Users, cause \in Causes : \E S \in SUBSET RowsOf(u) : Revoke(S, cause)
  BY DEF Revoked
<1>2. PICK S \in SUBSET RowsOf(u) : Revoke(S, cause)
  BY <1>1
<1> DEFINE L == {t \in S : Live(t)}
<1>3. L \in SUBSET {t \in Tokens : Table[t].status = "live" /\ Table[t].owner = u}
  BY DEF RowsOf, Table, Live
<1>4. ASSUME NEW t \in Tokens
      PROVE  Table'[t] = IF t \in L THEN [Table[t] EXCEPT !.status = "revoked"] ELSE Table[t]
  <2>1. CASE t \in L
    <3>1. Issued(t) /\ row'[t] = [row[t] EXCEPT !.status = "revoked", !.cause = cause]
      BY <1>2, <2>1 DEF Revoke, RowsOf
    <3>2. QED
      BY <2>1, <3>1, DeadEntry
  <2>2. CASE t \notin L
    <3>1. row'[t] = row[t]
      BY <1>2, <2>2 DEF Revoke
    <3>2. QED
      BY <2>2, <3>1 DEF Table, Issued
  <2>3. QED
    BY <2>1, <2>2
<1>5. Table' = [t \in Tokens |->
                  IF t \in L THEN [Table[t] EXCEPT !.status = "revoked"] ELSE Table[t]]
  BY <1>4 DEF Table
<1> HIDE DEF L
<1>6. Ledger!RevokeSome(u)
  BY <1>3, <1>5 DEF Ledger!RevokeSome, Table
<1>7. QED
  BY <1>6 DEF Ledger!Next

(* The nightly clean-up is the ledger's. *)
LEMMA CleanupIsPurge ==
    ASSUME TInv, CleanupExpiredTokens
    PROVE  Ledger!Next
<1> DEFINE S == {t \in Tokens : Live(t) /\ row[t].expired}
<1>1. S \in SUBSET {t \in Tokens : Table[t].status = "live"}
  <2>1. \A t \in Tokens : Live(t) => Issued(t)
    BY DEF Live, Issued, Unissued
  <2>2. QED
    BY <2>1 DEF Table, Live
<1>2. ASSUME NEW t \in Tokens
      PROVE  Table'[t] = IF t \in S \/ Table[t].status = "revoked"
                         THEN [Table[t] EXCEPT !.status = "deleted"] ELSE Table[t]
  <2>1. Purgeable(t) <=> t \in S \/ Table[t].status = "revoked"
    BY DEF Purgeable, Table, Live, Issued, Unissued
  <2>2. CASE Purgeable(t)
    <3>1. Issued(t) /\ row'[t] = [row[t] EXCEPT !.status = "deleted"]
      BY <2>2 DEF CleanupExpiredTokens, Purgeable, Live, Issued, Unissued
    <3>2. "none" \in Causes
      BY DEF Causes
    <3>3. Table'[t] = [Table[t] EXCEPT !.status = "deleted"]
      BY <3>1, <3>2, DeadEntry
    <3>4. QED
      BY <2>1, <2>2, <3>3
  <2>3. CASE ~Purgeable(t)
    <3>1. row'[t] = row[t]
      BY <2>3 DEF CleanupExpiredTokens
    <3>2. QED
      BY <2>1, <2>3, <3>1 DEF Table, Issued
  <2>4. QED
    BY <2>2, <2>3
<1>3. Table' = [t \in Tokens |->
                  IF t \in S \/ Table[t].status = "revoked"
                  THEN [Table[t] EXCEPT !.status = "deleted"]
                  ELSE Table[t]]
  BY <1>2 DEF Table
<1> HIDE DEF S
<1>4. Ledger!Purge
  BY <1>1, <1>3 DEF Ledger!Purge, Table
<1>5. QED
  BY <1>4 DEF Ledger!Next

(* A new row has no parent, or replaces the token of its flight and keeps   *)
(* its full access.                                                         *)
LEMMA IssuesType ==
    ASSUME TInv, NEW r \in Requests, NEW t \in Tokens, Issues(r, t)
    PROVE  \/ row'[t].parent = NoToken
           \/ /\ row'[t].parent = req[r].token
              /\ row[req[r].token].type = "full" => row'[t].type = "full"
BY DEF Issues, LoginIssue, RotateIssue, VerifyEmailIssue, UpgradeIssue, GenerateTokens,
       RotatedType, TInv, TypeOK

(* A session is handed out as the ledger issues one. *)
LEMMA CreatedIsIssue ==
    ASSUME TInv, RotInv, Created
    PROVE  Ledger!Next
<1>1. PICK r \in Requests, t \in Tokens : Issues(r, t)
  BY DEF Created
<1>2. PICK u \in Users, type \in TokenTypes, p \in Tokens \cup {NoToken} :
         /\ u = req[r].user /\ type = row'[t].type /\ p = row'[t].parent
         /\ row'[t].status = "live" /\ row'[t].owner = u
  <2>1. req[r].user \in Users
    BY <1>1, IssuesRow DEF RequestRecords
  <2>2. PICK ty \in TokenTypes, pa \in Tokens \cup {NoToken}, auth \in 0..MaxPassword :
           GenerateTokens(r, t, ty, pa, auth)
    BY <1>1, IssuesGenerate
  <2>3. /\ row'[t].type = ty /\ row'[t].parent = pa
        /\ row'[t].status = "live" /\ row'[t].owner = req[r].user
    BY <2>2 DEF GenerateTokens, TInv, TypeOK
  <2>4. QED
    BY <2>1, <2>3
<1>3. ~Issued(t) /\ \A s \in Tokens \ {t} : row'[s] = row[s]
  BY <1>1, IssuesRow
<1>4. Issued(t)'
  BY <1>2 DEF Issued, Unissued
<1>5. Table[t] = [status |-> "none"]
  BY <1>3 DEF Table
<1>6. Table' = [Table EXCEPT ![t] = [status |-> "live", owner |-> u, type |-> type, parent |-> p]]
  <2>1. Table'[t] = [status |-> "live", owner |-> u, type |-> type, parent |-> p]
    BY <1>2, <1>4 DEF Table
  <2>2. \A s \in Tokens \ {t} : Table'[s] = Table[s]
    BY <1>3 DEF Table, Issued
  <2>3. QED
    BY <2>1, <2>2 DEF Table
<1>7. p = NoToken \/ Ledger!Exchangeable(p, u, type)
  <2> SUFFICES ASSUME p # NoToken PROVE Ledger!Exchangeable(p, u, type)
    OBVIOUS
  <2>1. /\ p = req[r].token /\ Entitled(req[r]) /\ req[r].step = "issue"
        /\ row[p].type = "full" => type = "full"
    BY <1>1, <1>2, IssuesParent, IssuesType
  <2>2. p \in Tokens /\ Issued(p) /\ row[p].owner = u /\ ~Live(p) /\ Childless(p, row)
    BY <1>2, <2>1 DEF TInv, Delivered, Linked, Entitled, RotInv, Issued
  <2>3. row[p].status \in {"revoked", "deleted"}
    BY <2>2, IssuedShape DEF TInv, Rows, Live
  <2>4. /\ Table[p].status \in {"revoked", "deleted"} /\ Table[p].owner = u
        /\ Table[p].type = "full" => type = "full"
    BY <2>1, <2>2, <2>3 DEF Table
  <2>5. ASSUME NEW s \in Tokens, Table[s] # [status |-> "none"]
        PROVE  Table[s].parent # p
    BY <2>2, <2>5 DEF Table, Childless, Issued
  <2>6. QED
    BY <2>4, <2>5 DEF Ledger!Exchangeable, Ledger!Dead, Ledger!None, Table
<1>8. Ledger!Issue(t, u, type, p)
  BY <1>5, <1>6, <1>7 DEF Ledger!Issue, Ledger!None, Table
<1>9. type \in Ledger!TokenTypes
  BY DEF Ledger!TokenTypes, TokenTypes
<1>10. QED
  BY <1>8, <1>9 DEF Ledger!Next

(* Whether a token has expired is no matter of the ledger. *)
LEMMA ExpiryUnseen ==
    ASSUME TInv, NEW s \in Tokens, TokenExpires(s)
    PROVE  Table' = Table
<1>1. row[s] \in Rows /\ Issued(s)
  BY RowShape DEF TokenExpires, Live, TInv
<1>2. row'[s] = [row[s] EXCEPT !.expired = TRUE] /\ \A t \in Tokens \ {s} : row'[t] = row[t]
  BY DEF TokenExpires, TInv, TypeOK
<1>3. /\ row'[s].status = row[s].status /\ row'[s].owner = row[s].owner
      /\ row'[s].type = row[s].type /\ row'[s].parent = row[s].parent
  BY <1>1, <1>2 DEF Rows
<1>4. Issued(s)'
  BY <1>1, <1>3 DEF Issued, Unissued, TokenExpires, Live
<1>5. QED
  BY <1>1, <1>2, <1>3, <1>4, SameTable DEF Issued

LEMMA LedgerStep ==
    ASSUME TInv, RotInv, [Next]_vars
    PROVE  Ledger!Next \/ Table' = Table
<1>1. CASE UNCHANGED row
  BY <1>1, SameTable DEF Issued
<1>2. QED
  BY <1>1, RowStep, RevokedIsRevokeSome, CreatedIsIssue, CleanupIsPurge, ExpiryUnseen

(* Whatever the handlers interleave, rows appear, die and vanish only as    *)
(* the ledger allows: one successor per dead token, of the same citizen,    *)
(* that keeps its full access.                                              *)
THEOREM SessionsImplementLedger == Spec => ImplementsLedger
<1>1. Init => Ledger!Init
  BY DEF Init, Ledger!Init, Ledger!None, Issued
<1>2. TInv /\ RotInv /\ [Next]_vars => [Ledger!Next]_Table
  BY LedgerStep
<1>3. TInv /\ RotInv /\ [Next]_vars => [Ledger!Next]_([t \in Tokens |->
            IF Issued(t)
            THEN [status |-> row[t].status, owner |-> row[t].owner,
                  type |-> row[t].type, parent |-> row[t].parent]
            ELSE [status |-> "none"]])
  BY <1>2 DEF Table
<1>4. QED
  BY <1>1, <1>3, TInvHolds, RotInvHolds, PTL DEF Spec, ImplementsLedger, Ledger!Spec

-----------------------------------------------------------------------------
(* The answers                                                              *)

(* What a request knows of rows stays true whatever the table does.         *)
LEMMA FitsKept ==
    ASSUME TInv, AnswersInv, [Next]_vars, NEW q \in Requests
    PROVE  AnswerFits(req[q], row') /\ ReplayFits(req[q], row')
<1> USE DEF TInv
<1>1. AnswerFits(req[q], row')
  <2> SUFFICES ASSUME req[q].step # "idle", req[q].op \in FlightOps, req[q].reply.code = "ok"
               PROVE  /\ row'[req[q].reply.token] # Unissued
                      /\ row'[req[q].reply.token].parent = row[req[q].reply.token].parent
                      /\ row'[req[q].reply.token].type = row[req[q].reply.token].type
    BY DEF AnswersInv, AnswerFits
  <2>1. req[q].reply.token \in Tokens /\ Issued(req[q].reply.token)
    BY DEF AnswersInv, AnswerFits, Issued
  <2>2. QED
    BY <2>1, RowsKept DEF Kept, Issued
<1>2. ReplayFits(req[q], row')
  <2> SUFFICES ASSUME req[q].step # "idle", req[q].replay
               PROVE  row'[req[q].token].status # "live"
    BY DEF AnswersInv, ReplayFits
  <2>1. req[q].token \in Tokens /\ Issued(req[q].token) /\ ~Live(req[q].token)
    BY DEF AnswersInv, ReplayFits, Delivered, Linked, Issued, Live
  <2>2. QED
    BY <2>1, RowsKept DEF Kept, Live
<1>3. QED
  BY <1>1, <1>2

(* A handler that comes to its outcome. *)
LEMMA OutcomeShape ==
    ASSUME TypeOK, NEW r \in Requests, req[r].step # "idle",
           NEW reply, Outcome(r, reply)
    PROVE  /\ req'[r].step = "answer" /\ req'[r].reply = reply
           /\ req'[r].op = req[r].op /\ req'[r].token = req[r].token
           /\ req'[r].replay = req[r].replay
           /\ \A q \in Requests \ {r} : req'[q] = req[q]
<1>1. req[r] \in RequestRecords
  BY RequestShape
<1>2. QED
  BY <1>1 DEF Outcome, RequestRecords, TypeOK

(* A refused request fits; one without a flight may be answered anything.   *)
LEMMA RefusedFits ==
    ASSUME TInv, AnswersInv, [Next]_vars, NEW r \in Requests, req[r].step # "idle",
           NEW c \in Codes, Outcome(r, Refusal(c)), c = "ok" => req[r].op \notin FlightOps
    PROVE  AnswerFits(req'[r], row') /\ ReplayFits(req'[r], row')
<1>1. /\ req'[r].step = "answer" /\ req'[r].reply = Refusal(c)
      /\ req'[r].op = req[r].op /\ req'[r].token = req[r].token
      /\ req'[r].replay = req[r].replay
  BY OutcomeShape DEF TInv
<1>2. Refusal(c).code = c
  BY DEF Refusal
<1>3. AnswerFits(req[r], row') /\ ReplayFits(req[r], row')
  BY FitsKept
<1>4. QED
  BY <1>1, <1>2, <1>3 DEF AnswerFits, ReplayFits

(* A new session is the successor of the token its flight was given.        *)
LEMMA IssuedFits ==
    ASSUME TInv, AnswersInv, [Next]_vars, NEW r \in Requests, NEW t \in Tokens, Issues(r, t)
    PROVE  AnswerFits(req'[r], row') /\ ReplayFits(req'[r], row')
<1> USE DEF TInv
<1>1. req[r] \in RequestRecords /\ Outcome(r, [code |-> "ok", token |-> t])
  BY IssuesGenerate DEF GenerateTokens
<1>2. req[r].step \in {"compare", "issue"}
  BY DEF Issues, LoginIssue, RotateIssue, VerifyEmailIssue, UpgradeIssue
<1>3. /\ req'[r].step = "answer" /\ req'[r].reply = [code |-> "ok", token |-> t]
      /\ req'[r].op = req[r].op /\ req'[r].token = req[r].token
      /\ req'[r].replay = req[r].replay
  BY <1>1, <1>2, OutcomeShape
<1>4. ~req[r].replay
  BY <1>1, <1>2 DEF AnswersInv, ReplayFits, RequestRecords
<1>5. CASE req[r].op \in FlightOps
  <2>1. RotateIssue(r, t)
    BY <1>5 DEF Issues, LoginIssue, VerifyEmailIssue, UpgradeIssue, FlightOps
  <2>2. row'[t].parent = req[r].token /\ row'[t].status = "live"
    BY <2>1 DEF RotateIssue, GenerateTokens, TypeOK
  <2>3. row'[t] # Unissued
    BY <2>2 DEF Unissued
  <2>4. QED
    BY <1>3, <1>4, <2>2, <2>3 DEF AnswerFits, ReplayFits
<1>6. CASE req[r].op \notin FlightOps
  BY <1>3, <1>4, <1>6 DEF AnswerFits, ReplayFits
<1>7. QED
  BY <1>5, <1>6

(* Everyone in a flight is answered with the leader's outcome; an upgrade   *)
(* only with a full session.                                                *)
LEMMA SettledFits ==
    ASSUME TInv, AnswersInv, [Next]_vars, NEW r \in Requests, SettleFlight(r),
           NEW q \in Requests, q = r \/ q \in Waiters(r)
    PROVE  AnswerFits(req'[q], row') /\ ReplayFits(req'[q], row')
<1> USE DEF TInv
<1> DEFINE reply == ReplyTo(req[q].op, req[r].reply)
<1>1. /\ req[q] \in RequestRecords /\ req[r] \in RequestRecords
      /\ req[r].step = "answer" /\ req[r].op \in FlightOps
      /\ req[q].token = req[r].token /\ UNCHANGED row
  BY RequestShape DEF SettleFlight, Waiters
<1>2. req'[q] = [req[q] EXCEPT !.step = "done", !.reply = reply]
  BY DEF SettleFlight
<1> HIDE DEF reply
<1>3. /\ req'[q].step = "done" /\ req'[q].reply = reply
      /\ req'[q].op = req[q].op /\ req'[q].token = req[q].token
      /\ req'[q].replay = req[q].replay
  BY <1>1, <1>2 DEF RequestRecords
<1>4. reply.code = "ok" =>
         /\ reply = req[r].reply
         /\ req[q].op = "upgrade" => row[reply.token].type = "full"
  BY DEF reply, ReplyTo, Refusal
<1>5. reply.code = "ok" =>
         /\ reply.token \in Tokens /\ row[reply.token] # Unissued
         /\ row[reply.token].parent = req[r].token
  BY <1>1, <1>4 DEF AnswersInv, AnswerFits
<1>6. AnswerFits(req'[q], row')
  BY <1>1, <1>3, <1>4, <1>5 DEF AnswerFits
<1>7. ReplayFits(req'[q], row')
  <2>1. CASE q = r
    <3>1. req[r].replay => reply.code # "ok"
      BY <1>1, <1>4, <2>1 DEF AnswersInv, ReplayFits
    <3>2. QED
      BY <1>1, <1>3, <2>1, <3>1 DEF AnswersInv, ReplayFits
  <2>2. CASE q \in Waiters(r)
    <3>1. ~req[q].replay
      BY <1>1, <2>2 DEF Waiters, AnswersInv, ReplayFits
    <3>2. QED
      BY <1>3, <3>1 DEF ReplayFits
  <2>3. QED
    BY <2>1, <2>2
<1>8. QED
  BY <1>6, <1>7

(* The steps within a handler. *)
LEMMA ProgressFits ==
    ASSUME TInv, AnswersInv, [Next]_vars, NEW r \in Requests,
           \/ RotateRead(r) \/ RotateRevoke(r) \/ VerifyEmailCommit(r)
           \/ VerifyIdentityMark(r) \/ UpgradeRevoke(r) \/ OpenPassword(r)
    PROVE  /\ AnswerFits(req'[r], row') /\ ReplayFits(req'[r], row')
           /\ \A q \in Requests \ {r} : req'[q] = req[q]
<1> USE DEF TInv
<1>1. req[r] \in RequestRecords /\ req[r].step # "idle"
  BY RequestShape DEF RotateRead, RotateRevoke, VerifyEmailCommit, VerifyIdentityMark,
                      UpgradeRevoke, OpenPassword
<1>2. AnswerFits(req[r], row') /\ ReplayFits(req[r], row')
  BY FitsKept
<1>3. CASE RotateRead(r)
  <2>1. /\ req'[r].step = "gates" /\ req'[r].found = row[req[r].token].status
        /\ req'[r].op = req[r].op /\ req'[r].token = req[r].token
        /\ req'[r].replay = req[r].replay /\ req'[r].reply = req[r].reply
        /\ \A q \in Requests \ {r} : req'[q] = req[q]
    BY <1>1, <1>3 DEF RotateRead, RequestRecords, TypeOK
  <2>2. req[r].step = "read" /\ UNCHANGED row
    BY <1>3 DEF RotateRead
  <2>3. QED
    BY <1>2, <2>1, <2>2 DEF AnswerFits, ReplayFits
<1>4. ASSUME NEW c \in Codes, Outcome(r, Refusal(c)), c = "ok" => req[r].op \notin FlightOps
      PROVE  /\ AnswerFits(req'[r], row') /\ ReplayFits(req'[r], row')
             /\ \A q \in Requests \ {r} : req'[q] = req[q]
  BY <1>1, <1>4, RefusedFits, OutcomeShape
<1>5. ASSUME NEW step \in {"issue", "upgrade"}, req' = [req EXCEPT ![r].step = step],
             ~req[r].replay,
             req[r].op \in FlightOps => step = "issue" /\ req[r].step = "gates"
      PROVE  /\ AnswerFits(req'[r], row') /\ ReplayFits(req'[r], row')
             /\ \A q \in Requests \ {r} : req'[q] = req[q]
  <2>1. /\ req'[r].step = step /\ req'[r].op = req[r].op
        /\ req'[r].replay = req[r].replay /\ req'[r].reply = req[r].reply
        /\ \A q \in Requests \ {r} : req'[q] = req[q]
    BY <1>1, <1>5 DEF RequestRecords, TypeOK
  <2>2. QED
    BY <1>2, <1>5, <2>1 DEF AnswerFits, ReplayFits
<1>6. CASE RotateRevoke(r)
  <2>1. ~req[r].replay /\ req[r].step = "gates"
    BY <1>1, <1>6 DEF RotateRevoke, Usable, AnswersInv, ReplayFits
  <2>2. Outcome(r, Refusal("notFound")) \/ req' = [req EXCEPT ![r].step = "issue"]
    BY <1>6 DEF RotateRevoke
  <2>3. QED
    BY <1>4, <1>5, <2>1, <2>2 DEF Codes
<1>7. CASE VerifyEmailCommit(r) \/ VerifyIdentityMark(r) \/ UpgradeRevoke(r)
  <2>1. req[r].op \notin FlightOps /\ ~req[r].replay
    BY <1>1, <1>7 DEF VerifyEmailCommit, VerifyIdentityMark, UpgradeRevoke, FlightOps,
       AnswersInv, ReplayFits
  <2>2. \/ Outcome(r, Refusal("ok"))
        \/ req' = [req EXCEPT ![r].step = "issue"]
        \/ req' = [req EXCEPT ![r].step = "upgrade"]
    BY <1>7 DEF VerifyEmailCommit, VerifyIdentityMark, UpgradeRevoke
  <2>3. QED
    BY <1>4, <1>5, <2>1, <2>2 DEF Codes
<1>8. CASE OpenPassword(r)
  <2>1. req[r].op \notin FlightOps /\ ~req[r].replay
    BY <1>1, <1>8 DEF OpenPassword, PasswordOps, FlightOps, AnswersInv, ReplayFits
  <2>2. /\ req'[r].step = "open" /\ req'[r].op = req[r].op
        /\ req'[r].replay = req[r].replay /\ req'[r].reply = req[r].reply
        /\ \A q \in Requests \ {r} : req'[q] = req[q]
    BY <1>1, <1>8 DEF OpenPassword, RequestRecords, TypeOK
  <2>3. QED
    BY <1>2, <2>1, <2>2 DEF AnswerFits, ReplayFits
<1>9. QED
  BY <1>3, <1>6, <1>7, <1>8

(* The refusals, and the outcomes of handlers without a flight. *)
LEMMA RefusalFits ==
    ASSUME TInv, AnswersInv, [Next]_vars, NEW r \in Requests,
           \/ LoginReject(r) \/ RotateReject(r) \/ RotateReuse(r) \/ Fail(r)
           \/ VerifyIdentityNoChange(r) \/ ChangePasswordReject(r) \/ CommitPassword(r)
    PROVE  /\ AnswerFits(req'[r], row') /\ ReplayFits(req'[r], row')
           /\ \A q \in Requests \ {r} : req'[q] = req[q]
<1> USE DEF TInv
<1>1. req[r].step # "idle"
  BY DEF LoginReject, RotateReject, RotateReuse, Fail, Working, VerifyIdentityNoChange,
         ChangePasswordReject, CommitPassword
<1>2. PICK c \in Codes : Outcome(r, Refusal(c)) /\ (c = "ok" => req[r].op \notin FlightOps)
  <2>1. VerifyIdentityNoChange(r) => req[r].op \notin FlightOps
    BY DEF VerifyIdentityNoChange, AnswersInv, AnswerFits
  <2>2. CommitPassword(r) => req[r].op \notin FlightOps
    BY DEF CommitPassword, Delivered, Linked, PasswordOps, FlightOps
  <2>3. QED
    BY <2>1, <2>2 DEF LoginReject, RotateReject, RotateReuse, Fail, VerifyIdentityNoChange,
       ChangePasswordReject, CommitPassword, Codes
<1>3. QED
  BY <1>1, <1>2, RefusedFits, OutcomeShape

(* A request that arrives has no answer, and is a replay only as a refresh  *)
(* or upgrade of a dead token.                                              *)
LEMMA ArrivalFits ==
    ASSUME TInv, NEW r \in Requests, Call(r)
    PROVE  /\ AnswerFits(req'[r], row') /\ ReplayFits(req'[r], row')
           /\ \A q \in Requests \ {r} : req'[q] = req[q]
<1> USE DEF TInv
<1>1. ASSUME NEW op, NEW step, NEW u, NEW t, NEW seen, NEW right, NEW replay,
             Arrive(r, op, step, u, t, seen, right, replay), UNCHANGED row,
             op \in FlightOps => step \in {"read", "joined"},
             replay => op \in FlightOps /\ step = "read" /\ ~Live(t)
      PROVE  /\ AnswerFits(req'[r], row') /\ ReplayFits(req'[r], row')
             /\ \A q \in Requests \ {r} : req'[q] = req[q]
  <2>1. /\ req'[r] = [op |-> op, step |-> step, user |-> u, token |-> t, found |-> "live",
                      seen |-> seen, right |-> right, locked |-> {}, replay |-> replay,
                      reply |-> NoReply]
        /\ \A q \in Requests \ {r} : req'[q] = req[q]
    BY <1>1 DEF Arrive, TypeOK
  <2>2. NoReply.code = "none"
    BY DEF NoReply
  <2>3. QED
    BY <1>1, <2>1, <2>2 DEF AnswerFits, ReplayFits, Live
<1>2. ASSUME NEW t \in Tokens, NEW op \in FlightOps, StartFlight(r, op, t)
      PROVE  /\ AnswerFits(req'[r], row') /\ ReplayFits(req'[r], row')
             /\ \A q \in Requests \ {r} : req'[q] = req[q]
  BY <1>1, <1>2 DEF StartFlight
<1>3. ASSUME NEW t \in Tokens, NEW op \in FlightOps, JoinFlight(r, op, t)
      PROVE  /\ AnswerFits(req'[r], row') /\ ReplayFits(req'[r], row')
             /\ \A q \in Requests \ {r} : req'[q] = req[q]
  BY <1>1, <1>3 DEF JoinFlight
<1>4. ASSUME NEW u \in Users, NEW right \in BOOLEAN,
             LoginLookup(r, u, right) \/ ChangePasswordLookup(r, u, right)
      PROVE  /\ AnswerFits(req'[r], row') /\ ReplayFits(req'[r], row')
             /\ \A q \in Requests \ {r} : req'[q] = req[q]
  BY <1>1, <1>4 DEF LoginLookup, ChangePasswordLookup, FlightOps
<1>5. ASSUME NEW u \in Users,
             VerifyEmailLookup(r, u) \/ VerifyIdentityLookup(r, u) \/ ResetPassword(r, u)
      PROVE  /\ AnswerFits(req'[r], row') /\ ReplayFits(req'[r], row')
             /\ \A q \in Requests \ {r} : req'[q] = req[q]
  BY <1>1, <1>5 DEF VerifyEmailLookup, VerifyIdentityLookup, ResetPassword, FlightOps
<1>6. QED
  BY <1>2, <1>3, <1>4, <1>5 DEF Call

LEMMA AnswersStep ==
    ASSUME TInv, AnswersInv, [Next]_vars
    PROVE  AnswersInv'
<1> USE DEF TInv
<1> SUFFICES ASSUME NEW q \in Requests
             PROVE  AnswerFits(req'[q], row') /\ ReplayFits(req'[q], row')
  BY DEF AnswersInv
<1>1. CASE req'[q] = req[q]
  BY <1>1, FitsKept
<1>2. ASSUME NEW r \in Requests, Serve(r) \/ Call(r) \/ Fail(r)
      PROVE  AnswerFits(req'[q], row') /\ ReplayFits(req'[q], row')
  <2>1. CASE SettleFlight(r)
    <3>1. q = r \/ q \in Waiters(r) \/ req'[q] = req[q]
      BY <2>1 DEF SettleFlight
    <3>2. QED
      BY <1>1, <2>1, <3>1, SettledFits
  <2>2. CASE \/ RotateRead(r) \/ RotateRevoke(r) \/ VerifyEmailCommit(r)
             \/ VerifyIdentityMark(r) \/ UpgradeRevoke(r) \/ OpenPassword(r)
    BY <1>1, <2>2, ProgressFits
  <2>3. CASE \/ LoginReject(r) \/ RotateReject(r) \/ RotateReuse(r) \/ Fail(r)
             \/ VerifyIdentityNoChange(r) \/ ChangePasswordReject(r) \/ CommitPassword(r)
    BY <1>1, <2>3, RefusalFits
  <2>4. ASSUME NEW t \in Tokens, Issues(r, t)
        PROVE  AnswerFits(req'[q], row') /\ ReplayFits(req'[q], row')
    <3>1. q # r => req'[q] = req[q]
      BY <2>4, IssuesAnswers
    <3>2. QED
      BY <1>1, <2>4, <3>1, IssuedFits
  <2>5. CASE Answer(r)
    <3>1. q # r => req'[q] = req[q]
      BY <2>5 DEF Answer, TypeOK
    <3>2. req'[r] = Idle
      BY <2>5 DEF Answer, TypeOK
    <3>3. QED
      BY <1>1, <3>1, <3>2 DEF AnswerFits, ReplayFits, Idle
  <2>6. CASE Call(r)
    BY <1>1, <2>6, ArrivalFits
  <2>7. QED
    BY <1>2, <2>1, <2>2, <2>3, <2>4, <2>5, <2>6 DEF Serve, Issues
<1>3. CASE Restart
  <2>1. req'[q] = Idle \/ req'[q] = req[q]
    BY <1>3 DEF Restart
  <2>2. QED
    BY <1>1, <2>1 DEF AnswerFits, ReplayFits, Idle
<1>4. CASE UNCHANGED req
  BY <1>1, <1>4
<1>5. QED
  BY <1>2, <1>3, <1>4
     DEF Next, Direct, Environment, vars, Logout, LogoutAll, ChangeEmail,
         TokenExpires, CleanupExpiredTokens

LEMMA AnswersHold == Spec => []AnswersInv
<1>1. Init => AnswersInv
  BY DEF Init, AnswersInv, AnswerFits, ReplayFits, Idle
<1>2. TInv /\ AnswersInv /\ [Next]_vars => AnswersInv'
  BY AnswersStep
<1>3. QED
  BY <1>1, <1>2, TInvHolds, PTL DEF Spec

(* A rotation of a token revoked or deleted before it arrived never         *)
(* succeeds.                                                                *)
THEOREM ReplaysAreRefused == Spec => []ReplayRefused
<1>1. AnswersInv => ReplayRefused
  BY DEF AnswersInv, ReplayFits, ReplayRefused
<1>2. QED
  BY <1>1, AnswersHold, PTL

(* upgradeSession succeeds only with a full session, also when it joined a  *)
(* flight that an ordinary refresh had started.                             *)
THEOREM UpgradesGetFull == Spec => []UpgradeAnswersFull
<1>1. AnswersInv => UpgradeAnswersFull
  BY DEF AnswersInv, AnswerFits, UpgradeAnswersFull, Refreshed
<1>2. QED
  BY <1>1, AnswersHold, PTL

(* Two requests that presented the same refresh token and succeeded hold    *)
(* the same new token.                                                      *)
THEOREM OneAnswerPerToken == Spec => []SameAnswer
<1>1. TInv /\ RotInv /\ AnswersInv => SameAnswer
  <2> SUFFICES ASSUME TInv, RotInv, AnswersInv, NEW q \in Requests, NEW r \in Requests,
                      Refreshed(q), Refreshed(r), req[q].token = req[r].token
               PROVE  req[q].reply = req[r].reply
    BY DEF SameAnswer
  <2>1. /\ req[q].reply.token \in Tokens /\ Issued(req[q].reply.token)
        /\ req[r].reply.token \in Tokens /\ Issued(req[r].reply.token)
        /\ row[req[q].reply.token].parent = req[q].token
        /\ row[req[r].reply.token].parent = req[q].token
    BY DEF AnswersInv, AnswerFits, Refreshed, Issued
  <2>2. req[q].token \in Tokens
    BY DEF TInv, Delivered, Linked, Refreshed
  <2>3. req[q].reply.token = req[r].reply.token
    BY <2>1, <2>2, TokensAssumption DEF RotInv, SingleSuccessor
  <2>4. req[q].reply \in Replies /\ req[r].reply \in Replies
    BY RequestShape DEF TInv, Refreshed, RequestRecords
  <2>5. QED
    BY <2>3, <2>4 DEF Replies, Refreshed
<1>2. QED
  BY <1>1, TInvHolds, RotInvHolds, AnswersHold, PTL
=============================================================================
