------------------------ MODULE PasswordResetProofs ------------------------
(***************************************************************************)
(* Proofs about PasswordReset, for any sets of accounts, links and         *)
(* requests.  With a single request they say that an account has one       *)
(* active link at most and that a link sets one password at most; with     *)
(* more, that the number of overlapping requests is the exact price.       *)
(***************************************************************************)
EXTENDS PasswordReset, FiniteSetTheorems, TLAPS

(* A request that is past creating or finding its link names one. *)
Holding ==
    \A r \in Requests :
        req[r].step \in {"mail", "find", "commit"} => req[r].link \in Links /\ Issued(req[r].link)

TInv == TypeOK /\ Holding

(* A row is never the absence of a row. *)
LEMMA RowIsIssued ==
    ASSUME NEW x \in Rows
    PROVE  x # Unissued
<1>1. DOMAIN x = {"owner", "used", "expired"}
  BY DEF Rows
<1>2. DOMAIN Unissued = {"used"}
  BY DEF Unissued
<1>3. QED
  BY <1>1, <1>2

(* A row of the table is a full record. *)
LEMMA IssuedRow ==
    ASSUME TypeOK, NEW k \in Links, Issued(k)
    PROVE  link[k] \in Rows
BY DEF TypeOK, Issued

(* A row stays a row when one of its flags changes. *)
LEMMA FlagType ==
    ASSUME NEW x \in Rows, NEW b \in BOOLEAN
    PROVE  /\ [x EXCEPT !.used = b] \in Rows /\ [x EXCEPT !.expired = b] \in Rows
           /\ [x EXCEPT !.used = b].used = b
BY DEF Rows

(* A request is a full record. *)
LEMMA RequestShape ==
    ASSUME TypeOK, NEW r \in Requests
    PROVE  /\ req[r] \in RequestRecords
           /\ req[r].step \in Steps /\ req[r].user \in Users
           /\ req[r].link \in Links \cup {NoLink}
BY DEF TypeOK, RequestRecords

(* Requests keep their shape when one of them goes a step on or ends. *)
LEMMA GoType ==
    ASSUME TypeOK, NEW r \in Requests, NEW step \in Steps, Go(r, step)
    PROVE  req' \in [Requests -> RequestRecords]
<1>1. [req[r] EXCEPT !.step = step] \in RequestRecords
  BY DEF TypeOK, RequestRecords
<1>2. QED
  BY <1>1 DEF Go, TypeOK

(* A request that ends is a request still. *)
LEMMA FinishType ==
    ASSUME TypeOK, NEW r \in Requests, Finish(r)
    PROVE  req' \in [Requests -> RequestRecords]
<1>1. [req[r] EXCEPT !.step = "idle", !.link = NoLink] \in RequestRecords
  BY DEF TypeOK, RequestRecords, Steps
<1>2. QED
  BY <1>1 DEF Finish, TypeOK

-----------------------------------------------------------------------------
(* What each statement does to the table: it stays a table, and no link     *)
(* that exists is lost.                                                     *)
TableOK == link \in [Links -> Rows \cup {Unissued}]
KeepsLinks == TableOK' /\ \A k \in Links : Issued(k) => Issued(k)'

(* Retiring an account's links keeps the table in shape. *)
LEMMA RetireKeeps ==
    ASSUME TypeOK, NEW u \in Users, RetireLinks(u)
    PROVE  KeepsLinks
<1>1. ASSUME NEW k \in Links, k \in Unused(u)
      PROVE  [link[k] EXCEPT !.used = TRUE] \in Rows
  BY <1>1, IssuedRow, FlagType DEF Unused
<1>2. TableOK'
  BY <1>1 DEF RetireLinks, TableOK, TypeOK
<1>3. ASSUME NEW k \in Links, Issued(k)
      PROVE  Issued(k)'
  <2>1. CASE k \in Unused(u)
    <3>1. link'[k] \in Rows
      BY <1>1, <2>1 DEF RetireLinks
    <3>2. QED
      BY <3>1, RowIsIssued DEF Issued, Unissued
  <2>2. CASE k \notin Unused(u)
    BY <1>3, <2>2 DEF RetireLinks, Issued, Unissued
  <2>3. QED
    BY <2>1, <2>2
<1>4. QED
  BY <1>2, <1>3 DEF KeepsLinks

(* One row is written. *)
LEMMA WriteKeeps ==
    ASSUME TypeOK, NEW k \in Links, NEW x \in Rows, link' = [link EXCEPT ![k] = x]
    PROVE  KeepsLinks /\ Issued(k)'
<1>1. TableOK'
  BY DEF TableOK, TypeOK
<1>2. link'[k] = x /\ \A j \in Links \ {k} : link'[j] = link[j]
  BY DEF TypeOK
<1>3. Issued(k)'
  BY <1>2, RowIsIssued DEF Issued, Unissued
<1>4. ASSUME NEW j \in Links, Issued(j)
      PROVE  Issued(j)'
  BY <1>2, <1>3, <1>4 DEF Issued, Unissued
<1>5. QED
  BY <1>1, <1>3, <1>4 DEF KeepsLinks

(* A table that is not written stays in shape. *)
LEMMA SameKeeps ==
    ASSUME TypeOK, UNCHANGED link
    PROVE  KeepsLinks
BY DEF KeepsLinks, TableOK, TypeOK, Issued, Unissued

(* The type invariant, from its parts that a statement can disturb. *)
LEMMA TypeFrom ==
    ASSUME TInv, KeepsLinks, UNCHANGED active,
           mailed' \subseteq mailed \cup {k \in Links : Issued(k)},
           uses' \in [Links -> Nat], req' \in [Requests -> RequestRecords]
    PROVE  TypeOK'
<1>1. mailed' \subseteq {k \in Links : Issued(k)'}
  BY DEF KeepsLinks, TInv, TypeOK
<1>2. QED
  BY <1>1 DEF TypeOK, TInv, KeepsLinks, TableOK, Issued, Unissued

(* Requests other than r hold what they held. *)
LEMMA HoldingFrom ==
    ASSUME TInv, KeepsLinks, NEW r \in Requests,
           \A q \in Requests \ {r} : req'[q] = req[q],
           req'[r].step \in {"mail", "find", "commit"} =>
               req'[r].link \in Links /\ (link'[req'[r].link] # Unissued)
    PROVE  Holding'
<1>1. ASSUME NEW q \in Requests, req'[q].step \in {"mail", "find", "commit"}
      PROVE  req'[q].link \in Links /\ link'[req'[q].link] # Unissued
  <2>1. CASE q = r
    BY <1>1, <2>1
  <2>2. CASE q # r
    BY <1>1, <2>2 DEF TInv, Holding, KeepsLinks, Issued, Unissued
  <2>3. QED
    BY <2>1, <2>2
<1>2. QED
  BY <1>1 DEF Holding, Issued, Unissued

(* A request that goes a step on, or ends, without touching the table.      *)
LEMMA QuietStep ==
    ASSUME TInv, NEW r \in Requests, UNCHANGED <<active, link, uses>>,
           mailed' \subseteq mailed \cup {k \in Links : Issued(k)},
           \/ Finish(r)
           \/ Go(r, "commit") /\ req[r].step = "find"
    PROVE  TInv'
<1>1. KeepsLinks
  BY SameKeeps DEF TInv
<1>2. CASE Finish(r)
  <2>1. req' \in [Requests -> RequestRecords]
    BY <1>2, FinishType DEF TInv
  <2>2. /\ \A q \in Requests \ {r} : req'[q] = req[q]
        /\ req'[r].step = "idle"
    BY <1>2 DEF Finish, TInv, TypeOK, RequestRecords
  <2>3. TypeOK'
    BY <1>1, <2>1, TypeFrom DEF TInv, TypeOK
  <2>4. Holding'
    BY <1>1, <2>2, HoldingFrom
  <2>5. QED
    BY <2>3, <2>4 DEF TInv
<1>3. CASE Go(r, "commit") /\ req[r].step = "find"
  <2>1. req' \in [Requests -> RequestRecords]
    BY <1>3, GoType DEF TInv, Steps
  <2>2. /\ \A q \in Requests \ {r} : req'[q] = req[q]
        /\ req'[r].link = req[r].link
    BY <1>3 DEF Go, TInv, TypeOK, RequestRecords
  <2>3. req[r].link \in Links /\ link'[req[r].link] # Unissued
    BY <1>3 DEF TInv, Holding, Issued
  <2>4. TypeOK'
    BY <1>1, <2>1, TypeFrom DEF TInv, TypeOK
  <2>5. Holding'
    BY <1>1, <2>2, <2>3, HoldingFrom
  <2>6. QED
    BY <2>4, <2>5 DEF TInv
<1>4. QED
  BY <1>2, <1>3

-----------------------------------------------------------------------------
(* Every statement keeps the shapes. *)
LEMMA TInvStep ==
    ASSUME TInv, [Next]_vars
    PROVE  TInv'
<1>1. ASSUME NEW r \in Requests, NEW u \in Users, RequestReset(r, u)
      PROVE  TInv'
  <2>1. KeepsLinks
    BY <1>1, SameKeeps DEF RequestReset, TInv
  <2>2. [step |-> "retire", user |-> u, link |-> NoLink] \in RequestRecords
    BY DEF RequestRecords, Steps
  <2>3. /\ req' \in [Requests -> RequestRecords]
        /\ \A q \in Requests \ {r} : req'[q] = req[q]
        /\ req'[r].step = "retire"
    BY <1>1, <2>2 DEF RequestReset, TInv, TypeOK
  <2>4. TypeOK'
    BY <1>1, <2>1, <2>3, TypeFrom DEF RequestReset, TInv, TypeOK
  <2>5. Holding'
    BY <2>1, <2>3, HoldingFrom
  <2>6. QED
    BY <2>4, <2>5 DEF TInv
<1>2. ASSUME NEW r \in Requests, Retire(r)
      PROVE  TInv'
  <2>1. KeepsLinks
    BY <1>2, RetireKeeps, RequestShape DEF Retire, TInv
  <2>2. req' \in [Requests -> RequestRecords]
    BY <1>2, GoType DEF Retire, TInv, Steps
  <2>3. /\ \A q \in Requests \ {r} : req'[q] = req[q]
        /\ req'[r].step = "create"
    BY <1>2 DEF Retire, Go, TInv, TypeOK, RequestRecords
  <2>4. TypeOK'
    BY <1>2, <2>1, <2>2, TypeFrom DEF Retire, TInv, TypeOK
  <2>5. Holding'
    BY <2>1, <2>3, HoldingFrom
  <2>6. QED
    BY <2>4, <2>5 DEF TInv
<1>3. ASSUME NEW r \in Requests, NEW k \in Links, Create(r, k)
      PROVE  TInv'
  <2> DEFINE x == [owner |-> req[r].user, used |-> FALSE, expired |-> FALSE]
  <2>1. x \in Rows
    BY RequestShape DEF Rows, TInv
  <2>2. link' = [link EXCEPT ![k] = x]
    BY <1>3 DEF Create
  <2>3. KeepsLinks /\ Issued(k)'
    <3> HIDE DEF x
    <3> QED
      BY <2>1, <2>2, WriteKeeps DEF TInv
  <2>4. [req[r] EXCEPT !.step = "mail", !.link = k] \in RequestRecords
    BY DEF TInv, TypeOK, RequestRecords, Steps
  <2>5. /\ req' \in [Requests -> RequestRecords]
        /\ \A q \in Requests \ {r} : req'[q] = req[q]
        /\ req'[r].link = k
    BY <1>3, <2>4 DEF Create, TInv, TypeOK, RequestRecords
  <2>6. link'[k] # Unissued
    BY <2>3 DEF Issued, Unissued
  <2>7. TypeOK'
    BY <1>3, <2>3, <2>5, TypeFrom DEF Create, TInv, TypeOK
  <2>8. Holding'
    BY <2>3, <2>5, <2>6, HoldingFrom
  <2>9. QED
    BY <2>7, <2>8 DEF TInv
<1>4. ASSUME NEW r \in Requests, Mail(r)
      PROVE  TInv'
  <2>1. req[r].link \in Links /\ Issued(req[r].link)
    BY <1>4 DEF Mail, TInv, Holding
  <2>2. QED
    BY <1>4, <2>1, QuietStep DEF Mail
<1>5. ASSUME NEW r \in Requests, NEW k \in Links, ResetPassword(r, k)
      PROVE  TInv'
  <2>1. KeepsLinks
    BY <1>5, SameKeeps DEF ResetPassword, TInv
  <2>2. Issued(k) /\ link[k].owner \in Users
    BY <1>5, IssuedRow DEF ResetPassword, TInv, TypeOK, Rows
  <2>3. [step |-> "find", user |-> link[k].owner, link |-> k] \in RequestRecords
    BY <2>2 DEF RequestRecords, Steps
  <2>4. /\ req' \in [Requests -> RequestRecords]
        /\ \A q \in Requests \ {r} : req'[q] = req[q]
        /\ req'[r].link = k
    BY <1>5, <2>3 DEF ResetPassword, TInv, TypeOK
  <2>5. link'[k] # Unissued
    BY <1>5, <2>2 DEF ResetPassword, Issued
  <2>6. TypeOK'
    BY <1>5, <2>1, <2>4, TypeFrom DEF ResetPassword, TInv, TypeOK
  <2>7. Holding'
    BY <2>1, <2>4, <2>5, HoldingFrom
  <2>8. QED
    BY <2>6, <2>7 DEF TInv
<1>6. ASSUME NEW r \in Requests, FindValidToken(r)
      PROVE  TInv'
  BY <1>6, QuietStep DEF FindValidToken
<1>7. ASSUME NEW r \in Requests, Commit(r)
      PROVE  TInv'
  <2> DEFINE k == req[r].link
             x == [link[k] EXCEPT !.used = TRUE]
  <2>1. k \in Links /\ Issued(k)
    BY <1>7 DEF Commit, TInv, Holding
  <2>2. x \in Rows
    BY <2>1, IssuedRow, FlagType DEF TInv
  <2>3. link' = [link EXCEPT ![k] = x]
    BY <1>7 DEF Commit, MarkUsed
  <2>4. KeepsLinks
    <3> HIDE DEF x
    <3> QED
      BY <2>1, <2>2, <2>3, WriteKeeps DEF TInv
  <2>5. uses' \in [Links -> Nat]
    BY <1>7, <2>1 DEF Commit, TInv, TypeOK
  <2>6. req' \in [Requests -> RequestRecords]
    BY <1>7, FinishType DEF Commit, TInv
  <2>7. /\ \A q \in Requests \ {r} : req'[q] = req[q]
        /\ req'[r].step = "idle"
    BY <1>7 DEF Commit, Finish, TInv, TypeOK, RequestRecords
  <2>8. TypeOK'
    BY <1>7, <2>4, <2>5, <2>6, TypeFrom DEF Commit
  <2>9. Holding'
    BY <2>4, <2>7, HoldingFrom
  <2>10. QED
    BY <2>8, <2>9 DEF TInv
<1>8. ASSUME NEW r \in Requests, Fail(r)
      PROVE  TInv'
  BY <1>8, QuietStep DEF Fail
<1>9. ASSUME NEW k \in Links, Expire(k)
      PROVE  TInv'
  <2> DEFINE x == [link[k] EXCEPT !.expired = TRUE]
  <2>1. Issued(k)
    BY <1>9 DEF Expire, Usable
  <2>2. x \in Rows
    BY <2>1, IssuedRow, FlagType DEF TInv
  <2>3. link' = [link EXCEPT ![k] = x]
    BY <1>9 DEF Expire
  <2>4. KeepsLinks
    <3> HIDE DEF x
    <3> QED
      BY <2>2, <2>3, WriteKeeps DEF TInv
  <2>5. TypeOK'
    BY <1>9, <2>4, TypeFrom DEF Expire, TInv, TypeOK
  <2>6. Holding'
    BY <1>9, <2>4 DEF Expire, TInv, Holding, KeepsLinks, Issued, Unissued
  <2>7. QED
    BY <2>5, <2>6 DEF TInv
<1>10. ASSUME NEW u \in Users, Switch(u)
       PROVE  TInv'
  BY <1>10 DEF Switch, TInv, TypeOK, Holding, Issued, Unissued
<1>11. CASE UNCHANGED vars
  BY <1>11 DEF vars, TInv, TypeOK, Holding, Issued, Unissued
<1>12. QED
  BY <1>1, <1>2, <1>3, <1>4, <1>5, <1>6, <1>7, <1>8, <1>9, <1>10, <1>11 DEF Next, Serve

(* The shapes, with what the requests hold, are kept always. *)
THEOREM TInvHolds == Spec => []TInv
<1>1. Init => TInv
  BY DEF Init, TInv, TypeOK, Holding, Issued, RequestRecords, Steps
<1>2. TInv /\ [Next]_vars => TInv'
  BY TInvStep
<1>3. QED
  BY <1>1, <1>2, PTL DEF Spec

(* Every table, request and counter always has its shape. *)
THEOREM TypeCorrect == Spec => []TypeOK
<1>1. TInv => TypeOK
  BY DEF TInv
<1>2. QED
  BY <1>1, TInvHolds, PTL

-----------------------------------------------------------------------------
(* How often a link is used: what it set already, and the requests that     *)
(* found it and will set a password with it, whatever becomes of it.        *)
Committing(k) == {r \in Requests : req[r].step = "commit" /\ req[r].link = k}

UsesInv ==
    \A k \in Links :
        /\ Usable(k) \/ ~Issued(k) => uses[k] = 0
        /\ uses[k] + Cardinality(Committing(k)) <= Cardinality(Requests)

(* Any set of requests is finite, and has no more elements than Requests.   *)
LEMMA FewRequests ==
    ASSUME NEW S \in SUBSET Requests
    PROVE  /\ IsFiniteSet(S) /\ Cardinality(S) \in Nat
           /\ Cardinality(Requests) \in Nat
           /\ Cardinality(S) <= Cardinality(Requests)
BY RequestsFinite, FS_Subset, FS_CardinalityType

(* A subset has no more elements. *)
LEMMA FewerRequests ==
    ASSUME NEW S \in SUBSET Requests, NEW T \in SUBSET S
    PROVE  /\ Cardinality(S) \in Nat /\ Cardinality(T) \in Nat
           /\ Cardinality(T) <= Cardinality(S)
<1>1. IsFiniteSet(S)
  BY FewRequests
<1>2. QED
  BY <1>1, FS_Subset, FS_CardinalityType

(* Without one of its elements, a set of requests has one less. *)
LEMMA OneRequestLess ==
    ASSUME NEW S \in SUBSET Requests, NEW r \in S
    PROVE  /\ Cardinality(S) \in Nat
           /\ Cardinality(S \ {r}) = Cardinality(S) - 1
<1>1. IsFiniteSet(S)
  BY FewRequests
<1>2. QED
  BY <1>1, FS_RemoveElement, FS_CardinalityType

(* A step that uses no link and lets no further request commit.             *)
LEMMA UsesKept ==
    ASSUME TInv, UsesInv, UNCHANGED uses,
           \A k \in Links : Usable(k)' \/ ~Issued(k)' => Usable(k) \/ ~Issued(k),
           \A k \in Links : Committing(k)' \subseteq Committing(k)
    PROVE  UsesInv'
<1>1. ASSUME NEW k \in Links
      PROVE  uses[k]' + Cardinality(Committing(k)') <= Cardinality(Requests)
  <2>1. Committing(k) \subseteq Requests
    BY DEF Committing
  <2>2. /\ Cardinality(Committing(k)) \in Nat /\ Cardinality(Committing(k)') \in Nat
        /\ Cardinality(Committing(k)') <= Cardinality(Committing(k))
    BY <2>1, FewerRequests
  <2>3. Cardinality(Requests) \in Nat
    BY <2>1, FewRequests
  <2>4. uses[k] \in Nat /\ uses[k] + Cardinality(Committing(k)) <= Cardinality(Requests)
    BY DEF TInv, TypeOK, UsesInv
  <2>5. QED
    BY <2>2, <2>3, <2>4
<1>2. ASSUME NEW k \in Links, Usable(k)' \/ ~Issued(k)'
      PROVE  uses'[k] = 0
  BY <1>2 DEF UsesInv
<1>3. QED
  BY <1>1, <1>2 DEF UsesInv

(* One request moved to a step other than "commit".                         *)
LEMMA CommittingShrinks ==
    ASSUME TInv, NEW r \in Requests, req'[r].step # "commit",
           \A q \in Requests \ {r} : req'[q] = req[q]
    PROVE  \A k \in Links : Committing(k)' \subseteq Committing(k)
BY DEF Committing

(* Every statement keeps UsesInv. *)
LEMMA UsesStep ==
    ASSUME TInv, UsesInv, [Next]_vars
    PROVE  UsesInv'
<1>1. ASSUME NEW r \in Requests, NEW u \in Users, RequestReset(r, u)
      PROVE  UsesInv'
  <2>1. req'[r].step # "commit" /\ \A q \in Requests \ {r} : req'[q] = req[q]
    BY <1>1 DEF RequestReset, TInv, TypeOK
  <2>2. \A k \in Links : Committing(k)' \subseteq Committing(k)
    BY <2>1, CommittingShrinks
  <2>3. QED
    BY <1>1, <2>2, UsesKept DEF RequestReset, Usable, Issued, Unissued
<1>2. ASSUME NEW r \in Requests, Retire(r)
      PROVE  UsesInv'
  <2>1. req'[r].step # "commit" /\ \A q \in Requests \ {r} : req'[q] = req[q]
    BY <1>2 DEF Retire, Go, TInv, TypeOK, RequestRecords
  <2>2. \A k \in Links : Committing(k)' \subseteq Committing(k)
    BY <2>1, CommittingShrinks
  <2>3. ASSUME NEW k \in Links, Usable(k)' \/ ~Issued(k)'
        PROVE  Usable(k) \/ ~Issued(k)
    <3>1. KeepsLinks
      BY <1>2, RetireKeeps, RequestShape DEF Retire, TInv
    <3>2. CASE ~Issued(k)'
      BY <3>1, <3>2 DEF KeepsLinks
    <3>3. CASE Usable(k)' /\ k \in Unused(req[r].user)
      <4>1. link[k] \in Rows
        BY <3>3, IssuedRow DEF Unused, TInv
      <4>2. link'[k].used = TRUE
        BY <1>2, <3>3, <4>1 DEF Retire, RetireLinks, Rows
      <4>3. QED
        BY <3>3, <4>2 DEF Usable
    <3>4. CASE Usable(k)' /\ k \notin Unused(req[r].user)
      BY <1>2, <3>4 DEF Retire, RetireLinks, Usable, Issued, Unissued
    <3>5. QED
      BY <2>3, <3>2, <3>3, <3>4
  <2>4. QED
    BY <1>2, <2>2, <2>3, UsesKept DEF Retire
<1>3. ASSUME NEW r \in Requests, NEW k \in Links, Create(r, k)
      PROVE  UsesInv'
  <2>1. req'[r].step # "commit" /\ \A q \in Requests \ {r} : req'[q] = req[q]
    BY <1>3 DEF Create, TInv, TypeOK, RequestRecords
  <2>2. \A j \in Links : Committing(j)' \subseteq Committing(j)
    BY <2>1, CommittingShrinks
  <2>3. \A j \in Links \ {k} : link'[j] = link[j]
    BY <1>3 DEF Create, TInv, TypeOK
  <2>4. \A j \in Links : Usable(j)' \/ ~Issued(j)' => Usable(j) \/ ~Issued(j)
    BY <1>3, <2>3 DEF Create, Usable, Issued, Unissued
  <2>5. QED
    BY <1>3, <2>2, <2>4, UsesKept DEF Create
<1>4. ASSUME NEW r \in Requests, Mail(r) \/ Fail(r)
      PROVE  UsesInv'
  <2>1. req'[r].step # "commit" /\ \A q \in Requests \ {r} : req'[q] = req[q]
    BY <1>4 DEF Mail, Fail, Finish, TInv, TypeOK, RequestRecords
  <2>2. \A k \in Links : Committing(k)' \subseteq Committing(k)
    BY <2>1, CommittingShrinks
  <2>3. QED
    BY <1>4, <2>2, UsesKept DEF Mail, Fail, Usable, Issued, Unissued
<1>5. ASSUME NEW r \in Requests, NEW k \in Links, ResetPassword(r, k)
      PROVE  UsesInv'
  <2>1. req'[r].step # "commit" /\ \A q \in Requests \ {r} : req'[q] = req[q]
    BY <1>5 DEF ResetPassword, TInv, TypeOK
  <2>2. \A j \in Links : Committing(j)' \subseteq Committing(j)
    BY <2>1, CommittingShrinks
  <2>3. QED
    BY <1>5, <2>2, UsesKept DEF ResetPassword, Usable, Issued, Unissued
<1>6. ASSUME NEW r \in Requests, FindValidToken(r), ~Valid(req[r].link)
      PROVE  UsesInv'
  <2>1. req'[r].step # "commit" /\ \A q \in Requests \ {r} : req'[q] = req[q]
    BY <1>6 DEF FindValidToken, Finish, TInv, TypeOK, RequestRecords
  <2>2. \A k \in Links : Committing(k)' \subseteq Committing(k)
    BY <2>1, CommittingShrinks
  <2>3. QED
    BY <1>6, <2>2, UsesKept DEF FindValidToken, Usable, Issued, Unissued
<1>7. ASSUME NEW r \in Requests, FindValidToken(r), Valid(req[r].link)
      PROVE  UsesInv'
  (* The link is unused, so whoever is about to use it is a set of requests. *)
  <2>1. req[r].link \in Links /\ uses[req[r].link] = 0
    BY <1>7 DEF FindValidToken, Valid, TInv, Holding, UsesInv
  <2>2. \A k \in Links \ {req[r].link} : Committing(k)' \subseteq Committing(k)
    BY <1>7 DEF FindValidToken, Go, Committing, TInv, TypeOK, RequestRecords
  <2>3. \A k \in Links : (Usable(k)' <=> Usable(k)) /\ (Issued(k)' <=> Issued(k)) /\ uses'[k] = uses[k]
    BY <1>7 DEF FindValidToken, Usable, Issued, Unissued
  <2>4. ASSUME NEW k \in Links
        PROVE  uses'[k] + Cardinality(Committing(k)') <= Cardinality(Requests)
    <3>1. CASE k = req[r].link
      <4>1. Committing(k)' \subseteq Requests
        BY DEF Committing
      <4>2. QED
        BY <2>1, <2>3, <3>1, <4>1, FewRequests
    <3>2. CASE k # req[r].link
      <4>1. Committing(k) \subseteq Requests /\ Committing(k)' \subseteq Committing(k)
        BY <2>2, <3>2 DEF Committing
      <4>2. /\ Cardinality(Committing(k)) \in Nat /\ Cardinality(Committing(k)') \in Nat
            /\ Cardinality(Committing(k)') <= Cardinality(Committing(k))
        BY <4>1, FewerRequests
      <4>3. Cardinality(Requests) \in Nat
        BY <4>1, FewRequests
      <4>4. uses[k] \in Nat /\ uses[k] + Cardinality(Committing(k)) <= Cardinality(Requests)
        BY DEF TInv, TypeOK, UsesInv
      <4>5. QED
        BY <2>3, <4>2, <4>3, <4>4
    <3>3. QED
      BY <3>1, <3>2
  <2>5. QED
    BY <2>3, <2>4 DEF UsesInv
<1>8. ASSUME NEW r \in Requests, Commit(r)
      PROVE  UsesInv'
  <2>1. PICK k \in Links : k = req[r].link /\ Issued(k) /\ link[k] \in Rows
    BY <1>8, IssuedRow DEF Commit, TInv, Holding
  <2>2. /\ link'[k] = [link[k] EXCEPT !.used = TRUE]
        /\ \A j \in Links \ {k} : link'[j] = link[j] /\ uses'[j] = uses[j]
        /\ uses'[k] = uses[k] + 1
    BY <1>8, <2>1 DEF Commit, MarkUsed, TInv, TypeOK
  <2>3. Issued(k)' /\ ~Usable(k)'
    <3>1. link'[k] \in Rows /\ link'[k].used = TRUE
      BY <2>1, <2>2, FlagType
    <3>2. QED
      BY <3>1, RowIsIssued DEF Issued, Usable, Unissued
  <2>4. /\ \A j \in Links \ {k} : Committing(j)' = Committing(j)
        /\ r \in Committing(k) /\ Committing(k)' = Committing(k) \ {r}
    BY <1>8, <2>1 DEF Commit, Finish, Committing, TInv, TypeOK, RequestRecords
  <2>5. uses'[k] + Cardinality(Committing(k)') <= Cardinality(Requests)
    <3>1. Committing(k) \subseteq Requests
      BY DEF Committing
    <3>2. /\ Cardinality(Committing(k)) \in Nat
          /\ Cardinality(Committing(k)') = Cardinality(Committing(k)) - 1
      BY <2>4, <3>1, OneRequestLess
    <3>3. uses[k] \in Nat /\ uses[k] + Cardinality(Committing(k)) <= Cardinality(Requests)
      BY <2>1 DEF TInv, TypeOK, UsesInv
    <3>4. Cardinality(Requests) \in Nat
      BY <3>1, FewRequests
    <3>5. QED
      BY <2>2, <3>2, <3>3, <3>4
  <2>6. ASSUME NEW j \in Links \ {k}
        PROVE  /\ Usable(j)' \/ ~Issued(j)' => uses'[j] = 0
               /\ uses'[j] + Cardinality(Committing(j)') <= Cardinality(Requests)
    BY <2>2, <2>4 DEF UsesInv, Usable, Issued, Unissued
  <2>7. QED
    BY <2>3, <2>5, <2>6 DEF UsesInv
<1>9. ASSUME NEW k \in Links, Expire(k)
      PROVE  UsesInv'
  <2>1. link[k] \in Rows
    BY <1>9, IssuedRow DEF Expire, Usable, TInv
  <2>2. /\ link'[k] = [link[k] EXCEPT !.expired = TRUE]
        /\ \A j \in Links \ {k} : link'[j] = link[j]
    BY <1>9 DEF Expire, TInv, TypeOK
  <2>3. \A j \in Links : Usable(j)' \/ ~Issued(j)' => Usable(j) \/ ~Issued(j)
    BY <1>9, <2>2 DEF Expire, Usable, Issued, Unissued
  <2>4. \A j \in Links : Committing(j)' \subseteq Committing(j)
    BY <1>9 DEF Expire, Committing
  <2>5. QED
    BY <1>9, <2>3, <2>4, UsesKept DEF Expire
<1>10. CASE (\E u \in Users : Switch(u)) \/ UNCHANGED vars
  <2>1. UNCHANGED <<link, uses, req>>
    BY <1>10 DEF Switch, vars
  <2>2. \A k \in Links : Committing(k)' \subseteq Committing(k)
    BY <2>1 DEF Committing
  <2>3. QED
    BY <2>1, <2>2, UsesKept DEF Usable, Issued, Unissued
<1>11. QED
  BY <1>1, <1>2, <1>3, <1>4, <1>5, <1>6, <1>7, <1>8, <1>9, <1>10 DEF Next, Serve

(* Every link's uses, and the requests about to use it, stay within the    *)
(* number of requests.                                                     *)
THEOREM UsesInvHolds == Spec => []UsesInv
<1>1. Init => UsesInv
  <2>1. SUFFICES ASSUME Init, NEW k \in Links
                 PROVE  /\ uses[k] = 0
                        /\ uses[k] + Cardinality(Committing(k)) <= Cardinality(Requests)
    BY DEF UsesInv
  <2>2. Committing(k) \subseteq Requests
    BY DEF Committing
  <2>3. QED
    BY <2>1, <2>2, FewRequests DEF Init
<1>2. TInv /\ UsesInv /\ [Next]_vars => UsesInv'
  BY UsesStep
<1>3. QED
  BY <1>1, <1>2, TInvHolds, PTL DEF Spec

(* A link sets at most as many passwords as requests can overlap: with one  *)
(* request at a time, resetPassword takes every link once.                  *)
THEOREM UsesBounded == Spec => []UsesBoundedByOverlap
<1>1. TInv /\ UsesInv => UsesBoundedByOverlap
  <2>1. SUFFICES ASSUME TInv, UsesInv, NEW k \in Links
                 PROVE  uses[k] <= Cardinality(Requests)
    BY DEF UsesBoundedByOverlap
  <2>2. Committing(k) \subseteq Requests
    BY DEF Committing
  <2>3. QED
    BY <2>1, <2>2, FewRequests DEF UsesInv, TInv, TypeOK
<1>2. QED
  BY <1>1, TInvHolds, UsesInvHolds, PTL

-----------------------------------------------------------------------------
(* How many active links an account can have: those it has, and those of    *)
(* the requests that retired the old ones and will create a new one.        *)
Creating(u) == {r \in Requests : req[r].step = "create" /\ req[r].user = u}

Within(u) == Cardinality(Unused(u)) + Cardinality(Creating(u)) <= Cardinality(Requests)
LinksInv == \A u \in Users : Within(u)

(* What both sets of an account lose does not matter.                       *)
LEMMA WithinKept ==
    ASSUME NEW u \in Users, Within(u),
           Unused(u)' \subseteq Unused(u), Creating(u)' \subseteq Creating(u)
    PROVE  Within(u)'
<1>1. Creating(u) \subseteq Requests /\ IsFiniteSet(Unused(u))
  <2>1. Unused(u) \subseteq Links
    BY DEF Unused
  <2>2. QED
    BY <2>1, LinksAssumption, FS_Subset DEF Creating
<1>2. /\ Cardinality(Creating(u)) \in Nat /\ Cardinality(Creating(u)') \in Nat
      /\ Cardinality(Creating(u)') <= Cardinality(Creating(u))
  BY <1>1, FewerRequests
<1>3. /\ Cardinality(Unused(u)) \in Nat /\ Cardinality(Unused(u)') \in Nat
      /\ Cardinality(Unused(u)') <= Cardinality(Unused(u))
  BY <1>1, FS_Subset, FS_CardinalityType
<1>4. Cardinality(Requests) \in Nat
  BY <1>1, FewRequests
<1>5. QED
  BY <1>2, <1>3, <1>4 DEF Within

(* One request moved to a step other than "create".                         *)
LEMMA CreatingShrinks ==
    ASSUME NEW r \in Requests, req'[r].step # "create",
           \A q \in Requests \ {r} : req'[q] = req[q]
    PROVE  \A u \in Users : Creating(u)' \subseteq Creating(u)
BY DEF Creating

(* Every statement keeps LinksInv. *)
LEMMA LinksStep ==
    ASSUME TInv, LinksInv, [Next]_vars
    PROVE  LinksInv'
<1>1. ASSUME NEW r \in Requests,
             req'[r].step # "create", \A q \in Requests \ {r} : req'[q] = req[q],
             \A u \in Users : Unused(u)' \subseteq Unused(u)
      PROVE  LinksInv'
  BY <1>1, CreatingShrinks, WithinKept DEF LinksInv
<1>2. ASSUME NEW r \in Requests, NEW u \in Users, RequestReset(r, u)
      PROVE  LinksInv'
  <2>1. req'[r].step # "create" /\ \A q \in Requests \ {r} : req'[q] = req[q]
    BY <1>2 DEF RequestReset, TInv, TypeOK
  <2>2. \A v \in Users : Unused(v)' \subseteq Unused(v)
    BY <1>2 DEF RequestReset, Unused, Issued, Unissued
  <2>3. QED
    BY <1>1, <2>1, <2>2
<1>3. ASSUME NEW r \in Requests, Retire(r)
      PROVE  LinksInv'
  <2>1. ASSUME NEW u \in Users, NEW k \in Links, k \in Unused(u)'
        PROVE  k \in Unused(u) /\ u # req[r].user
    <3>1. CASE k \in Unused(req[r].user)
      <4>1. link'[k].used = TRUE
        BY <1>3, <3>1, IssuedRow, FlagType DEF Retire, RetireLinks, Unused, TInv
      <4>2. QED
        BY <2>1, <4>1 DEF Unused
    <3>2. CASE k \notin Unused(req[r].user)
      <4>1. link'[k] = link[k]
        BY <1>3, <3>2 DEF Retire, RetireLinks
      <4>2. QED
        BY <2>1, <3>2, <4>1 DEF Unused, Issued, Unissued
    <3>3. QED
      BY <3>1, <3>2
  <2>2. ASSUME NEW u \in Users, u = req[r].user
        PROVE  Within(u)'
    <3>1. Unused(u)' = {}
      BY <2>1, <2>2 DEF Unused
    <3>2. Creating(u)' \subseteq Requests
      BY DEF Creating
    <3>3. Cardinality(Unused(u)') = 0
      BY <3>1, FS_EmptySet
    <3>4. QED
      BY <3>2, <3>3, FewRequests DEF Within
  <2>3. ASSUME NEW u \in Users, u # req[r].user
        PROVE  Within(u)'
    <3>1. Unused(u)' \subseteq Unused(u)
      BY <2>1 DEF Unused
    <3>2. Creating(u)' \subseteq Creating(u)
      BY <1>3, <2>3 DEF Retire, Go, Creating, TInv, TypeOK, RequestRecords
    <3>3. QED
      BY <3>1, <3>2, WithinKept DEF LinksInv
  <2>4. QED
    BY <2>2, <2>3 DEF LinksInv
<1>4. ASSUME NEW r \in Requests, NEW k \in Links, Create(r, k)
      PROVE  LinksInv'
  <2>1. PICK u \in Users : u = req[r].user
    BY RequestShape DEF TInv
  <2>2. /\ \A j \in Links \ {k} : link'[j] = link[j]
        /\ link'[k].owner = u
    BY <1>4, <2>1 DEF Create, TInv, TypeOK
  <2>3. k \notin Unused(u) /\ Unused(u)' \subseteq Unused(u) \cup {k}
    BY <1>4, <2>2 DEF Create, Unused, Issued, Unissued
  <2>4. \A v \in Users \ {u} : Unused(v)' \subseteq Unused(v)
    BY <2>2 DEF Unused, Issued, Unissued
  <2>5. /\ r \in Creating(u) /\ Creating(u)' = Creating(u) \ {r}
        /\ \A v \in Users \ {u} : Creating(v)' \subseteq Creating(v)
    BY <1>4, <2>1 DEF Create, Creating, TInv, TypeOK, RequestRecords
  <2>6. Within(u)'
    <3>1. Creating(u) \subseteq Requests /\ Unused(u) \subseteq Links
      BY DEF Creating, Unused
    <3>2. /\ Cardinality(Creating(u)) \in Nat
          /\ Cardinality(Creating(u)') = Cardinality(Creating(u)) - 1
      BY <2>5, <3>1, OneRequestLess
    <3>3. IsFiniteSet(Unused(u)) /\ Cardinality(Unused(u)) \in Nat
      BY <3>1, LinksAssumption, FS_Subset, FS_CardinalityType
    <3>4. /\ IsFiniteSet(Unused(u) \cup {k})
          /\ Cardinality(Unused(u) \cup {k}) = Cardinality(Unused(u)) + 1
      BY <2>3, <3>3, FS_AddElement
    <3>5. Cardinality(Unused(u)') \in Nat /\ Cardinality(Unused(u)') <= Cardinality(Unused(u)) + 1
      BY <2>3, <3>4, FS_Subset, FS_CardinalityType
    <3>6. Within(u) /\ Cardinality(Requests) \in Nat
      BY <3>1, FewRequests DEF LinksInv
    <3>7. QED
      BY <3>2, <3>3, <3>5, <3>6 DEF Within
  <2>7. \A v \in Users \ {u} : Within(v)'
    BY <2>4, <2>5, WithinKept DEF LinksInv
  <2>8. QED
    BY <2>6, <2>7 DEF LinksInv
<1>5. ASSUME NEW r \in Requests, Mail(r) \/ Fail(r)
      PROVE  LinksInv'
  <2>1. req'[r].step # "create" /\ \A q \in Requests \ {r} : req'[q] = req[q]
    BY <1>5 DEF Mail, Fail, Finish, TInv, TypeOK, RequestRecords
  <2>2. \A v \in Users : Unused(v)' \subseteq Unused(v)
    BY <1>5 DEF Mail, Fail, Unused, Issued, Unissued
  <2>3. QED
    BY <1>1, <2>1, <2>2
<1>6. ASSUME NEW r \in Requests, NEW k \in Links, ResetPassword(r, k)
      PROVE  LinksInv'
  <2>1. req'[r].step # "create" /\ \A q \in Requests \ {r} : req'[q] = req[q]
    BY <1>6 DEF ResetPassword, TInv, TypeOK
  <2>2. \A v \in Users : Unused(v)' \subseteq Unused(v)
    BY <1>6 DEF ResetPassword, Unused, Issued, Unissued
  <2>3. QED
    BY <1>1, <2>1, <2>2
<1>7. ASSUME NEW r \in Requests, FindValidToken(r)
      PROVE  LinksInv'
  <2>1. req'[r].step # "create" /\ \A q \in Requests \ {r} : req'[q] = req[q]
    BY <1>7 DEF FindValidToken, Go, Finish, TInv, TypeOK, RequestRecords
  <2>2. \A v \in Users : Unused(v)' \subseteq Unused(v)
    BY <1>7 DEF FindValidToken, Unused, Issued, Unissued
  <2>3. QED
    BY <1>1, <2>1, <2>2
<1>8. ASSUME NEW r \in Requests, Commit(r)
      PROVE  LinksInv'
  <2>1. req'[r].step # "create" /\ \A q \in Requests \ {r} : req'[q] = req[q]
    BY <1>8 DEF Commit, Finish, TInv, TypeOK, RequestRecords
  <2>2. PICK k \in Links : k = req[r].link /\ link[k] \in Rows
    BY <1>8, IssuedRow DEF Commit, TInv, Holding
  <2>3. /\ link'[k].used = TRUE
        /\ \A j \in Links \ {k} : link'[j] = link[j]
    BY <1>8, <2>2, FlagType DEF Commit, MarkUsed, TInv, TypeOK
  <2>4. \A v \in Users : Unused(v)' \subseteq Unused(v)
    BY <2>3 DEF Unused, Issued, Unissued
  <2>5. QED
    BY <1>1, <2>1, <2>4
<1>9. ASSUME NEW k \in Links, Expire(k)
      PROVE  LinksInv'
  <2>1. link[k] \in Rows
    BY <1>9, IssuedRow DEF Expire, Usable, TInv
  <2>2. /\ link'[k].owner = link[k].owner
        /\ \A j \in Links \ {k} : link'[j] = link[j]
    BY <1>9, <2>1 DEF Expire, TInv, TypeOK, Rows
  <2>3. \A v \in Users : Unused(v)' \subseteq Unused(v)
    BY <1>9, <2>2 DEF Expire, Usable, Unused, Issued, Unissued
  <2>4. \A v \in Users : Creating(v)' \subseteq Creating(v)
    BY <1>9 DEF Expire, Creating
  <2>5. QED
    BY <2>3, <2>4, WithinKept DEF LinksInv
<1>10. CASE (\E u \in Users : Switch(u)) \/ UNCHANGED vars
  <2>1. UNCHANGED <<link, req>>
    BY <1>10 DEF Switch, vars
  <2>2. \A v \in Users : Unused(v)' \subseteq Unused(v) /\ Creating(v)' \subseteq Creating(v)
    BY <2>1 DEF Unused, Issued, Unissued, Creating
  <2>3. QED
    BY <2>2, WithinKept DEF LinksInv
<1>11. QED
  BY <1>2, <1>3, <1>4, <1>5, <1>6, <1>7, <1>8, <1>9, <1>10 DEF Next, Serve

(* Every account's unused links, and the requests about to create one,     *)
(* stay within the number of requests.                                     *)
THEOREM LinksInvHolds == Spec => []LinksInv
<1>1. Init => LinksInv
  <2>1. SUFFICES ASSUME Init, NEW u \in Users
                 PROVE  Within(u)
    BY DEF LinksInv
  <2>2. Unused(u) = {} /\ Creating(u) \subseteq Requests
    BY <2>1 DEF Init, Unused, Issued, Creating
  <2>3. Cardinality(Unused(u)) = 0
    BY <2>2, FS_EmptySet
  <2>4. QED
    BY <2>2, <2>3, FewRequests DEF Within
<1>2. TInv /\ LinksInv /\ [Next]_vars => LinksInv'
  BY LinksStep
<1>3. QED
  BY <1>1, <1>2, TInvHolds, PTL DEF Spec

(* An account has at most as many active links as requests can overlap:     *)
(* with one request at a time, requestReset keeps a single active link.     *)
THEOREM LinksBounded == Spec => []LinksBoundedByOverlap
<1>1. LinksInv => LinksBoundedByOverlap
  <2>1. SUFFICES ASSUME LinksInv, NEW u \in Users
                 PROVE  Cardinality(Unused(u)) <= Cardinality(Requests)
    BY DEF LinksBoundedByOverlap
  <2>2. Creating(u) \subseteq Requests /\ Unused(u) \subseteq Links
    BY DEF Creating, Unused
  <2>3. Cardinality(Unused(u)) \in Nat
    BY <2>2, LinksAssumption, FS_Subset, FS_CardinalityType
  <2>4. QED
    BY <2>1, <2>2, <2>3, FewRequests DEF LinksInv, Within
<1>2. QED
  BY <1>1, LinksInvHolds, PTL
=============================================================================
