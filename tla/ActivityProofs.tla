--------------------------- MODULE ActivityProofs ---------------------------
(***************************************************************************)
(* Proofs about Activity, for any calls, requests, page size and clock:    *)
(* what happened is reported, and a reader who turns the pages misses      *)
(* nothing but in the two cases that the property names.                   *)
(***************************************************************************)
EXTENDS Activity, FiniteSetTheorems, SequenceTheorems, TLAPS

-----------------------------------------------------------------------------
(* The handlers                                                             *)

Only == <<"report">>
First == <<"report", "change">>
Last == <<"change", "report">>

Sent == {"posted", "stored", "lost"}

(* A request q, in table ev with the changes dn made, is at the start or in *)
(* the middle of the program of its call; halfway the change was made, or   *)
(* the report sent.                                                         *)
CallFits(q, e, ev, dn) ==
    /\ e \in Events /\ ev[e] # Fresh
    /\ \/ q = <<e, "report">> /\ Program(ev[e].op) = Only /\ ev[e].status = "called"
       \/ q = <<e, "report", "change">> /\ Program(ev[e].op) = First /\ ev[e].status = "called"
       \/ q = <<e, "change", "report">> /\ Program(ev[e].op) = Last /\ ev[e].status = "called"
       \/ q = <<e, "change">> /\ Program(ev[e].op) = First /\ ev[e].status \in Sent
       \/ q = <<e, "report">> /\ Program(ev[e].op) = Last /\ ev[e].status = "called" /\ e \in dn

RequestsFit ==
    /\ req = [r \in Requests |-> req[r]]
    /\ \A r \in Requests : req[r] # <<>> => CallFits(req[r], req[r][1], event, done)
    /\ \A r, o \in Requests :
          req[r] # <<>> /\ req[o] # <<>> /\ req[r][1] = req[o][1] => r = o

(* Finitely many calls were made, whatever number can be made. *)
Called == {e \in Events : event[e] # Fresh}

(* What the reader has not seen yet is in the table. *)
UnseenStored == Walking => \A e \in walk.unseen : event[e].status = "stored"

TInv == TypeOK /\ RequestsFit /\ IsFiniteSet(Called) /\ UnseenStored

-----------------------------------------------------------------------------
(* The reader                                                               *)

(* The rows of the feed that come strictly before e in the reader's order.  *)
Earlier(e) ==
    {f \in Rows(walk.types) : IF walk.order = "oldest" THEN event[f].at < event[e].at
                                                       ELSE event[f].at > event[e].at}

(* Two rows of the feed have the same time. *)
Tied == \E e, f \in Rows(walk.types) : e # f /\ event[e].at = event[f].at

PagesRead == IF "findMany" \in walk.queries THEN walk.page - 1 ELSE walk.page

(* What was not seen lies behind the pages that were read: rows only come,  *)
(* so they only move it further back.                                       *)
UnseenBehind == ~Tied => \A e \in walk.unseen : Cardinality(Earlier(e)) >= PagesRead * PageSize

(* A count that no row overtook is the number of rows the page is cut from. *)
CountHolds ==
    ~walk.raced /\ walk.queries = {"findMany"} => walk.total = Cardinality(Rows(walk.types))

(* So it tells the reader to go on while something is unseen. *)
CountSuffices ==
    ~Tied /\ ~walk.raced /\ walk.queries = {} /\ walk.unseen # {}
        => walk.total > walk.page * PageSize

WalkInv == Walking => walk.page >= 1 /\ UnseenBehind /\ CountHolds /\ CountSuffices

-----------------------------------------------------------------------------
(* The short sequences that a request can be                                *)

LEMMA PrefixOne ==
    ASSUME NEW e, NEW a
    PROVE  <<e>> \o <<a>> = <<e, a>>
<1> DEFINE S == {e, a}
<1>1. <<e>> \in Seq(S) /\ <<a>> \in Seq(S) /\ <<e, a>> \in Seq(S)
  OBVIOUS
<1>2. /\ <<e>> \o <<a>> \in Seq(S) /\ Len(<<e>> \o <<a>>) = 2
      /\ \A i \in 1..2 : (<<e>> \o <<a>>)[i] = <<e, a>>[i]
  BY <1>1, ConcatProperties
<1> HIDE DEF S
<1>3. QED
  BY <1>1, <1>2, SeqEqual

LEMMA PrefixTwo ==
    ASSUME NEW e, NEW a, NEW b
    PROVE  <<e>> \o <<a, b>> = <<e, a, b>>
<1> DEFINE S == {e, a, b}
<1>1. <<e>> \in Seq(S) /\ <<a, b>> \in Seq(S) /\ <<e, a, b>> \in Seq(S)
  OBVIOUS
<1>2. /\ <<e>> \o <<a, b>> \in Seq(S) /\ Len(<<e>> \o <<a, b>>) = 3
      /\ \A i \in 1..3 : (<<e>> \o <<a, b>>)[i] = <<e, a, b>>[i]
  BY <1>1, ConcatProperties
<1> HIDE DEF S
<1>3. QED
  BY <1>1, <1>2, SeqEqual

LEMMA ThirdAlone ==
    ASSUME NEW e, NEW a, NEW b
    PROVE  SubSeq(<<e, a, b>>, 3, 3) = <<b>>
<1> DEFINE S == {e, a, b}
           rest == SubSeq(<<e, a, b>>, 3, 3)
<1>1. <<e, a, b>> \in Seq(S) /\ <<b>> \in Seq(S)
  OBVIOUS
<1>2. rest \in Seq(S) /\ Len(rest) = 1 /\ \A i \in 1..1 : rest[i] = <<b>>[i]
  BY <1>1, SubSeqProperties
<1>3. Len(<<b>>) = 1
  OBVIOUS
<1> HIDE DEF S, rest
<1>4. rest = <<b>>
  BY <1>1, <1>2, <1>3, SeqEqual
<1>5. QED
  BY <1>4 DEF rest

(* Done takes the step a request is at out of what it still has to do.      *)
LEMMA DoneShape ==
    ASSUME RequestsFit, NEW r \in Requests, Done(r), NEW e, NEW a, NEW b
    PROVE  /\ req[r] = <<e, a>> => req' = [req EXCEPT ![r] = <<>>]
           /\ req[r] = <<e, a, b>> => req' = [req EXCEPT ![r] = <<e, b>>]
<1>1. ASSUME req[r] = <<e, a>> PROVE req' = [req EXCEPT ![r] = <<>>]
  BY <1>1 DEF Done
<1>2. ASSUME req[r] = <<e, a, b>> PROVE req' = [req EXCEPT ![r] = <<e, b>>]
  <2>1. Len(req[r]) = 3 /\ req[r][1] = e
    BY <1>2
  <2>2. SubSeq(req[r], 3, Len(req[r])) = <<b>>
    <3>1. SubSeq(<<e, a, b>>, 3, 3) = <<b>>
      BY ThirdAlone
    <3>2. QED
      BY <1>2, <2>1, <3>1
  <2>3. <<e>> \o <<b>> = <<e, b>>
    BY PrefixOne
  <2>4. (IF Len(req[r]) = 2 THEN <<>> ELSE <<req[r][1]>> \o SubSeq(req[r], 3, Len(req[r])))
           = <<e, b>>
    <3>1. Len(req[r]) # 2 /\ <<req[r][1]>> = <<e>>
      BY <2>1
    <3>2. QED
      BY <2>2, <2>3, <3>1, Zenon
  <2>5. QED
    BY <2>4 DEF Done
<1>3. QED
  BY <1>1, <1>2

(* Which programs there are. *)
LEMMA Programs ==
    ASSUME NEW op
    PROVE  /\ Program(op) \in {Only, First, Last}
           /\ Program(op) = First <=> op \in ReportsFirst
           /\ Only # First /\ Only # Last /\ First # Last
BY DEF Program, ReportsFirst, Only, First, Last

-----------------------------------------------------------------------------
(* What a step leaves alone                                                 *)

LEMMA WalkShape ==
    ASSUME TypeOK
    PROVE  Walking => walk \in WalkRecords
BY DEF TypeOK, Walking

(* A record of the reader is none of the reader that does not read.         *)
LEMMA WalkIsNoNoWalk ==
    ASSUME NEW w \in WalkRecords
    PROVE  w # NoWalk
<1>1. "page" \in DOMAIN w
  BY DEF WalkRecords
<1>2. "page" \notin DOMAIN NoWalk
  BY DEF NoWalk
<1>3. QED
  BY <1>1, <1>2

(* A call that was made has a record. *)
LEMMA CalledShape ==
    ASSUME TypeOK, NEW e \in Events, event[e] # Fresh
    PROVE  event[e] \in EventRecords
BY DEF TypeOK

LEMMA StatusCalled ==
    ASSUME TypeOK, NEW e \in Events, event[e].status # "fresh"
    PROVE  event[e] # Fresh /\ event[e] \in EventRecords
BY DEF TypeOK, Fresh

(* A request's call fits as long as its record keeps its operation, and is  *)
(* as far as it was.                                                        *)
LEMMA FitKept ==
    ASSUME NEW q, NEW e, CallFits(q, e, event, done),
           event'[e] # Fresh, event'[e].op = event[e].op,
           event[e].status = "called" => event'[e].status = "called",
           event[e].status \in Sent => event'[e].status \in Sent,
           done \subseteq done'
    PROVE  CallFits(q, e, event', done')
BY DEF CallFits

(* One request moves. *)
LEMMA RequestMoves ==
    ASSUME RequestsFit, NEW r \in Requests, NEW q, req' = [req EXCEPT ![r] = q],
           \A o \in Requests \ {r} :
              req[o] # <<>> => CallFits(req[o], req[o][1], event', done'),
           q # <<>> =>
              /\ CallFits(q, q[1], event', done')
              /\ \A o \in Requests \ {r} : req[o] # <<>> => req[o][1] # q[1]
    PROVE  RequestsFit' /\ \A o \in Requests : req'[o] = <<>> \/ req'[o][1] \in Events
<1>1. req' = [o \in Requests |-> req'[o]] /\ req'[r] = q
  BY DEF RequestsFit
<1>2. \A o \in Requests \ {r} : req'[o] = req[o]
  BY DEF RequestsFit
<1>3. \A o \in Requests : req'[o] # <<>> => CallFits(req'[o], req'[o][1], event', done')
  BY <1>1, <1>2
<1>4. \A p, o \in Requests : req'[p] # <<>> /\ req'[o] # <<>> /\ req'[p][1] = req'[o][1] => p = o
  BY <1>1, <1>2 DEF RequestsFit
<1>5. RequestsFit'
  BY <1>1, <1>3, <1>4 DEF RequestsFit
<1>6. QED
  BY <1>3, <1>5 DEF CallFits

(* No request moves. *)
LEMMA RequestsStay ==
    ASSUME RequestsFit, UNCHANGED req,
           \A o \in Requests : req[o] # <<>> => CallFits(req[o], req[o][1], event', done')
    PROVE  RequestsFit' /\ \A o \in Requests : req'[o] = <<>> \/ req'[o][1] \in Events
BY DEF RequestsFit, CallFits

(* The reader's unseen rows stay what they are, and where they are.         *)
LEMMA UnseenStay ==
    ASSUME TInv, walk' = walk \/ (Walking /\ walk' = [walk EXCEPT !.raced = TRUE]),
           \A e \in Events : event[e].status = "stored" => event'[e] = event[e]
    PROVE  /\ walk' \in WalkRecords \cup {NoWalk}
           /\ Walking' => \A e \in walk'.unseen : Matches(e)'
           /\ UnseenStored'
<1> USE DEF TInv
<1>1. CASE ~Walking
  BY <1>1 DEF Walking, UnseenStored, TypeOK
<1>2. CASE Walking
  <2>1. walk \in WalkRecords /\ walk.unseen \subseteq Events
    BY <1>2, WalkShape DEF WalkRecords
  <2>2. /\ walk' \in WalkRecords /\ walk'.unseen = walk.unseen
        /\ walk'.types = walk.types
    BY <2>1 DEF WalkRecords
  <2>3. \A e \in walk.unseen : event[e].status = "stored" /\ Matches(e)
    BY <1>2 DEF UnseenStored, TypeOK
  <2>4. \A e \in walk'.unseen : event'[e] = event[e]
    BY <2>1, <2>2, <2>3
  <2>5. QED
    BY <2>2, <2>3, <2>4 DEF Matches, UnseenStored
<1>3. QED
  BY <1>1, <1>2

(* The calls that were made are the same. *)
LEMMA CalledStay ==
    ASSUME TInv, \A e \in Events : event'[e] # Fresh => event[e] # Fresh
    PROVE  IsFiniteSet(Called')
<1>1. Called' \subseteq Called
  BY DEF Called
<1>2. QED
  BY <1>1, FS_Subset DEF TInv

-----------------------------------------------------------------------------
(* Each action keeps TInv                                                   *)

LEMMA BeginKeeps ==
    ASSUME TInv, NEW r \in Requests, NEW e \in Events, NEW op \in Ops, Begin(r, e, op)
    PROVE  TInv'
<1> USE DEF TInv
<1>1. PICK u \in {"citizen", "nobody"} :
         event' = [event EXCEPT ![e] = [status |-> "called", op |-> op, user |-> u, at |-> 0]]
  BY DEF Begin, UsersOf
<1> DEFINE called == [status |-> "called", op |-> op, user |-> u, at |-> 0]
<1>2. called \in EventRecords /\ called # Fresh /\ called.op = op /\ called.status = "called"
  BY MaxClockAssumption DEF EventRecords, Statuses, Fresh
<1> HIDE DEF called
<1>3. /\ event' \in [Events -> EventRecords \cup {Fresh}] /\ event'[e] = called
      /\ \A f \in Events \ {e} : event'[f] = event[f]
  BY <1>1, <1>2 DEF TypeOK, called
<1>4. event[e] = Fresh /\ event[e].status = "fresh"
  BY DEF Begin, Fresh
<1>5. RequestsFit' /\ \A o \in Requests : req'[o] = <<>> \/ req'[o][1] \in Events
  <2> DEFINE q == <<e>> \o Program(op)
  <2>1. \/ q = <<e, "report">> /\ Program(op) = Only
        \/ q = <<e, "report", "change">> /\ Program(op) = First
        \/ q = <<e, "change", "report">> /\ Program(op) = Last
    BY Programs, PrefixOne, PrefixTwo DEF Only, First, Last
  <2>2. CallFits(q, q[1], event', done') /\ q[1] = e
    BY <1>2, <1>3, <2>1 DEF CallFits
  <2>3. ASSUME NEW o \in Requests, req[o] # <<>>
        PROVE  req[o][1] # e /\ CallFits(req[o], req[o][1], event', done')
    <3>1. CallFits(req[o], req[o][1], event, done) /\ req[o][1] \in Events \ {e}
      BY <1>4, <2>3 DEF RequestsFit, CallFits
    <3>2. event[req[o][1]] # Fresh /\ event'[req[o][1]] = event[req[o][1]] /\ done' = done
      BY <1>3, <3>1 DEF CallFits, Begin
    <3>3. QED
      BY <3>1, <3>2, FitKept
  <2>4. req' = [req EXCEPT ![r] = q]
    BY DEF Begin
  <2> HIDE DEF q
  <2>5. QED
    BY <2>2, <2>3, <2>4, RequestMoves
<1>6. IsFiniteSet(Called')
  <2>1. Called' \subseteq Called \cup {e}
    BY <1>3 DEF Called
  <2>2. QED
    BY <2>1, FS_AddElement, FS_Subset
<1>7. \A f \in Events : event[f].status = "stored" => event'[f] = event[f]
  BY <1>3, <1>4
<1>8. QED
  BY <1>3, <1>5, <1>6, <1>7, UnseenStay DEF Begin, TypeOK

(* Who comes to its report has called and not reported yet.                 *)
LEMMA ReportShape ==
    ASSUME TInv, NEW r \in Requests, Report(r)
    PROVE  \E e \in Events :
              /\ req[r] # <<>> /\ req[r][1] = e
              /\ event[e] \in EventRecords /\ event[e].status = "called"
              /\ event' = [event EXCEPT ![e].status = "posted", ![e].at = clock]
              /\ \/ /\ req' = [req EXCEPT ![r] = <<>>]
                    /\ \/ Program(event[e].op) = Only
                       \/ Program(event[e].op) = Last /\ e \in done
                 \/ /\ req' = [req EXCEPT ![r] = <<e, "change">>]
                    /\ Program(event[e].op) = First
<1> USE DEF TInv
<1>1. req[r] # <<>> /\ req[r][2] = "report" /\ Done(r)
  BY DEF Report, Doing
<1>2. PICK e \in Events : req[r][1] = e /\ CallFits(req[r], e, event, done)
  BY <1>1 DEF RequestsFit, CallFits
<1>3. \/ req[r] = <<e, "report">> /\ event[e].status = "called"
             /\ (Program(event[e].op) = Only \/ (Program(event[e].op) = Last /\ e \in done))
      \/ /\ req[r] = <<e, "report", "change">> /\ event[e].status = "called"
         /\ Program(event[e].op) = First
  BY <1>1, <1>2 DEF CallFits
<1>4. event[e] \in EventRecords
  BY <1>2, CalledShape DEF CallFits
<1>5. event' = [event EXCEPT ![e].status = "posted", ![e].at = clock]
  BY <1>2 DEF Report
<1>6. /\ req[r] = <<e, "report">> => req' = [req EXCEPT ![r] = <<>>]
      /\ req[r] = <<e, "report", "change">> => req' = [req EXCEPT ![r] = <<e, "change">>]
  BY <1>1, DoneShape
<1>7. QED
  BY <1>1, <1>2, <1>3, <1>4, <1>5, <1>6

LEMMA ReportKeeps ==
    ASSUME TInv, NEW r \in Requests, Report(r)
    PROVE  TInv'
<1> USE DEF TInv
<1>1. PICK e \in Events :
         /\ req[r] # <<>> /\ req[r][1] = e
         /\ event[e] \in EventRecords /\ event[e].status = "called"
         /\ event' = [event EXCEPT ![e].status = "posted", ![e].at = clock]
         /\ \/ req' = [req EXCEPT ![r] = <<>>]
            \/ /\ req' = [req EXCEPT ![r] = <<e, "change">>]
               /\ Program(event[e].op) = First
  BY ReportShape
<1> DEFINE posted == [event[e] EXCEPT !.status = "posted", !.at = clock]
<1>2. /\ posted \in EventRecords /\ posted.op = event[e].op /\ posted.status = "posted"
      /\ posted # Fresh
  BY <1>1 DEF EventRecords, Statuses, Fresh, TypeOK
<1>3. /\ event' \in [Events -> EventRecords \cup {Fresh}] /\ event'[e] = posted
      /\ \A f \in Events \ {e} : event'[f] = event[f]
  BY <1>1, <1>2 DEF TypeOK
<1> HIDE DEF posted
<1>4. RequestsFit' /\ \A o \in Requests : req'[o] = <<>> \/ req'[o][1] \in Events
  <2>1. ASSUME NEW o \in Requests \ {r}, req[o] # <<>>
        PROVE  req[o][1] # e /\ CallFits(req[o], req[o][1], event', done')
    <3>1. CallFits(req[o], req[o][1], event, done) /\ req[o][1] \in Events \ {e}
      BY <1>1, <2>1 DEF RequestsFit, CallFits
    <3>2. event[req[o][1]] # Fresh /\ event'[req[o][1]] = event[req[o][1]] /\ done' = done
      BY <1>3, <3>1 DEF CallFits, Report
    <3>3. QED
      BY <3>1, <3>2, FitKept
  <2>2. CASE req' = [req EXCEPT ![r] = <<>>]
    BY <2>1, <2>2, RequestMoves
  <2>3. CASE /\ req' = [req EXCEPT ![r] = <<e, "change">>]
             /\ Program(event[e].op) = First
    <3>1. CallFits(<<e, "change">>, e, event', done')
      BY <1>2, <1>3, <2>3 DEF CallFits, Sent
    <3>2. <<e, "change">>[1] = e
      OBVIOUS
    <3>3. QED
      BY <2>1, <2>3, <3>1, <3>2, RequestMoves
  <2>4. QED
    BY <1>1, <2>2, <2>3
<1>5. \A f \in Events : event'[f] # Fresh => event[f] # Fresh
  BY <1>1, <1>3 DEF Fresh
<1>6. \A f \in Events : event[f].status = "stored" => event'[f] = event[f]
  BY <1>1, <1>3
<1>7. QED
  BY <1>3, <1>4, <1>5, <1>6, CalledStay, UnseenStay DEF Report, TypeOK

(* Who comes to its change has not made it before.                          *)
LEMMA ChangeShape ==
    ASSUME TInv, NEW r \in Requests, Change(r)
    PROVE  \E e \in Events :
              /\ req[r] # <<>> /\ req[r][1] = e /\ event[e] # Fresh
              /\ done' = done \cup {e}
              /\ \/ /\ req' = [req EXCEPT ![r] = <<>>]
                    /\ event[e].status \in Sent
                 \/ /\ req' = [req EXCEPT ![r] = <<e, "report">>]
                    /\ Program(event[e].op) = Last /\ event[e].status = "called"
<1> USE DEF TInv
<1>1. req[r] # <<>> /\ req[r][2] = "change" /\ Done(r)
  BY DEF Change, Doing
<1>2. PICK e \in Events : req[r][1] = e /\ CallFits(req[r], e, event, done)
  BY <1>1 DEF RequestsFit, CallFits
<1>3. \/ req[r] = <<e, "change">> /\ event[e].status \in Sent
      \/ /\ req[r] = <<e, "change", "report">> /\ event[e].status = "called"
         /\ Program(event[e].op) = Last
  BY <1>1, <1>2 DEF CallFits
<1>4. event[e] # Fresh /\ done' = done \cup {e}
  BY <1>2 DEF CallFits, Change
<1>5. QED
  BY <1>1, <1>2, <1>3, <1>4, DoneShape

LEMMA ChangeKeeps ==
    ASSUME TInv, NEW r \in Requests, Change(r)
    PROVE  TInv'
<1> USE DEF TInv
<1>1. PICK e \in Events :
         /\ req[r] # <<>> /\ req[r][1] = e /\ event[e] # Fresh
         /\ done' = done \cup {e}
         /\ \/ req' = [req EXCEPT ![r] = <<>>]
            \/ /\ req' = [req EXCEPT ![r] = <<e, "report">>]
               /\ Program(event[e].op) = Last /\ event[e].status = "called"
  BY ChangeShape
<1>2. UNCHANGED event
  BY DEF Change
<1>3. RequestsFit' /\ \A o \in Requests : req'[o] = <<>> \/ req'[o][1] \in Events
  <2>1. ASSUME NEW o \in Requests \ {r}, req[o] # <<>>
        PROVE  req[o][1] # e /\ CallFits(req[o], req[o][1], event', done')
    <3>1. CallFits(req[o], req[o][1], event, done) /\ req[o][1] \in Events \ {e}
      BY <1>1, <2>1 DEF RequestsFit, CallFits
    <3>2. event[req[o][1]] # Fresh
      BY <3>1 DEF CallFits
    <3>3. QED
      BY <1>1, <1>2, <3>1, <3>2, FitKept DEF Sent
  <2>2. CASE req' = [req EXCEPT ![r] = <<>>]
    BY <2>1, <2>2, RequestMoves
  <2>3. CASE /\ req' = [req EXCEPT ![r] = <<e, "report">>]
             /\ Program(event[e].op) = Last /\ event[e].status = "called"
    <3>1. CallFits(<<e, "report">>, e, event', done')
      BY <1>1, <1>2, <2>3 DEF CallFits
    <3>2. <<e, "report">>[1] = e
      OBVIOUS
    <3>3. QED
      BY <2>1, <2>3, <3>1, <3>2, RequestMoves
  <2>4. QED
    BY <1>1, <2>2, <2>3
<1>4. QED
  BY <1>1, <1>2, <1>3, CalledStay, UnseenStay DEF Change, TypeOK

LEMMA BreakOffKeeps ==
    ASSUME TInv, NEW r \in Requests, BreakOff(r)
    PROVE  TInv'
<1> USE DEF TInv
<1>1. /\ req' = [req EXCEPT ![r] = <<>>] /\ UNCHANGED <<event, done, walk, clock>>
      /\ broken' \subseteq Events
  BY DEF BreakOff, RequestsFit, CallFits, TypeOK
<1>2. RequestsFit' /\ \A o \in Requests : req'[o] = <<>> \/ req'[o][1] \in Events
  <2>1. \A o \in Requests \ {r} :
           req[o] # <<>> => CallFits(req[o], req[o][1], event', done')
    BY <1>1 DEF RequestsFit
  <2>2. QED
    BY <1>1, <2>1, RequestMoves
<1>3. QED
  BY <1>1, <1>2, CalledStay, UnseenStay DEF TypeOK

(* A row comes into the table, or is lost, some time after it was posted.   *)
LEMMA LandShape ==
    ASSUME TInv, NEW e \in Events, Store(e) \/ Lose(e)
    PROVE  /\ event[e] \in EventRecords /\ event[e].status = "posted"
           /\ event' \in [Events -> EventRecords \cup {Fresh}]
           /\ event'[e].op = event[e].op /\ event'[e].user = event[e].user
           /\ Store(e) => event'[e].status = "stored" /\ event'[e].at = event[e].at
           /\ Lose(e) => event'[e].status = "lost"
           /\ \A f \in Events \ {e} : event'[f] = event[f]
<1>1. event[e] \in EventRecords /\ event[e].status = "posted"
  BY StatusCalled DEF Store, Lose, TInv
<1>2. CASE Store(e)
  <2>1. [event[e] EXCEPT !.status = "stored"] \in EventRecords
    BY <1>1 DEF EventRecords, Statuses
  <2>2. QED
    BY <1>1, <1>2, <2>1 DEF Store, Lose, EventRecords, TInv, TypeOK
<1>3. CASE Lose(e)
  <2>1. [event[e] EXCEPT !.status = "lost", !.at = 0] \in EventRecords
    <3>1. 0 \in 0..MaxClock
      BY MaxClockAssumption
    <3>2. QED
      BY <1>1, <3>1 DEF EventRecords, Statuses
  <2>2. ~Store(e)
    <3>1. event'[e].status = "lost"
      BY <1>1, <1>3 DEF Lose, EventRecords, TInv, TypeOK
    <3>2. Store(e) => event'[e].status = "stored"
      BY <1>1 DEF Store, EventRecords, TInv, TypeOK
    <3>3. QED
      BY <3>1, <3>2
  <2>3. QED
    BY <1>1, <1>3, <2>1, <2>2 DEF Lose, EventRecords, TInv, TypeOK
<1>4. QED
  BY <1>2, <1>3

LEMMA LandKeeps ==
    ASSUME TInv, NEW e \in Events, Store(e) \/ Lose(e)
    PROVE  TInv'
<1> USE DEF TInv
<1>1. /\ event[e] \in EventRecords /\ event[e].status = "posted"
      /\ event' \in [Events -> EventRecords \cup {Fresh}]
      /\ event'[e].op = event[e].op /\ event'[e].status \in {"stored", "lost"}
      /\ \A f \in Events \ {e} : event'[f] = event[f]
  BY LandShape
<1>2. UNCHANGED <<clock, done, broken, req>>
  BY DEF Store, Lose
<1>3. RequestsFit' /\ \A o \in Requests : req'[o] = <<>> \/ req'[o][1] \in Events
  <2>1. ASSUME NEW o \in Requests, req[o] # <<>>
        PROVE  CallFits(req[o], req[o][1], event', done')
    <3>1. CallFits(req[o], req[o][1], event, done) /\ req[o][1] \in Events
      BY <2>1 DEF RequestsFit, CallFits
    <3>2. event'[e] # Fresh /\ event[req[o][1]] # Fresh
      BY <1>1, <3>1 DEF Fresh, CallFits
    <3>3. QED
      BY <1>1, <1>2, <3>1, <3>2, FitKept DEF Sent
  <2>2. QED
    BY <1>2, <2>1, RequestsStay
<1>4. \A f \in Events : event'[f] # Fresh => event[f] # Fresh
  BY <1>1 DEF Fresh
<1>5. \A f \in Events : event[f].status = "stored" => event'[f] = event[f]
  BY <1>1
<1>6. walk' = walk \/ (Walking /\ walk' = [walk EXCEPT !.raced = TRUE])
  BY DEF Store, Lose
<1>7. QED
  BY <1>1, <1>2, <1>3, <1>4, <1>5, <1>6, CalledStay, UnseenStay DEF TypeOK

LEMMA TickKeeps ==
    ASSUME TInv, Tick
    PROVE  TInv'
<1> USE DEF TInv
<1>1. clock' \in 0..MaxClock /\ UNCHANGED <<event, done, broken, req, walk>>
  BY MaxClockAssumption DEF Tick, TypeOK
<1>2. RequestsFit' /\ \A o \in Requests : req'[o] = <<>> \/ req'[o][1] \in Events
  BY <1>1, RequestsStay DEF RequestsFit
<1>3. QED
  BY <1>1, <1>2, CalledStay, UnseenStay DEF TypeOK

(* A reader who starts has everything before it. *)
LEMMA StartWalkKeeps ==
    ASSUME TInv, NEW category \in Categories, NEW search \in Searches,
           NEW order \in {"newest", "oldest"}, StartWalk(category, search, order)
    PROVE  TInv'
<1> USE DEF TInv
<1> DEFINE types == ResolveEventTypes(category, search)
<1>1. /\ walk' = [types |-> types, order |-> order, page |-> 1, total |-> 0,
                  queries |-> {"count", "findMany"}, unseen |-> Rows(types), raced |-> FALSE]
      /\ UNCHANGED <<clock, event, done, broken, req>>
  BY DEF StartWalk
<1>2. types \subseteq SecurityEvents
  BY InputsAssumption DEF ResolveEventTypes
<1>3. Rows(types) \subseteq Events
  BY DEF Rows
<1> HIDE DEF types
<1>4. walk' \in WalkRecords /\ walk'.unseen = Rows(types) /\ walk'.types = types
  BY <1>1, <1>2, <1>3 DEF WalkRecords
<1>5. \A e \in walk'.unseen : event'[e].status = "stored" /\ Matches(e)'
  BY <1>1, <1>4 DEF Rows, Matches
<1>6. RequestsFit' /\ \A o \in Requests : req'[o] = <<>> \/ req'[o][1] \in Events
  BY <1>1, RequestsStay DEF RequestsFit
<1>7. QED
  BY <1>1, <1>4, <1>5, <1>6, CalledStay DEF TypeOK, UnseenStored

(* Reading and turning pages takes rows out of the unseen. *)
LEMMA WalkMoves ==
    ASSUME TInv, Walking, UNCHANGED <<clock, event, done, broken, req>>,
           \/ walk' = NoWalk
           \/ /\ walk' \in WalkRecords /\ walk'.types = walk.types
              /\ walk'.unseen \subseteq walk.unseen
    PROVE  TInv'
<1> USE DEF TInv
<1>1. RequestsFit' /\ \A o \in Requests : req'[o] = <<>> \/ req'[o][1] \in Events
  BY RequestsStay DEF RequestsFit
<1>2. CASE walk' = NoWalk
  BY <1>1, <1>2, CalledStay DEF TypeOK, UnseenStored, Walking
<1>3. CASE /\ walk' \in WalkRecords /\ walk'.types = walk.types
           /\ walk'.unseen \subseteq walk.unseen
  <2>1. \A e \in walk'.unseen : event'[e].status = "stored" /\ Matches(e)'
    BY <1>3 DEF UnseenStored, Matches, TypeOK
  <2>2. QED
    BY <1>1, <1>3, <2>1, CalledStay DEF TypeOK, UnseenStored
<1>4. QED
  BY <1>2, <1>3

(* What each of the reader's steps changes. *)
LEMMA CountShape ==
    ASSUME TInv, CountRows
    PROVE  /\ Walking /\ walk \in WalkRecords /\ "count" \in walk.queries
           /\ UNCHANGED <<clock, event, done, broken, req>>
           /\ walk' \in WalkRecords /\ walk'.queries = walk.queries \ {"count"}
           /\ walk'.total = Cardinality(Rows(walk.types))
           /\ walk'.types = walk.types /\ walk'.order = walk.order /\ walk'.page = walk.page
           /\ walk'.unseen = walk.unseen /\ walk'.raced = walk.raced
<1>1. /\ Walking /\ walk \in WalkRecords /\ "count" \in walk.queries
      /\ UNCHANGED <<clock, event, done, broken, req>>
      /\ walk' = [walk EXCEPT !.total = Cardinality(Rows(walk.types)), !.queries = @ \ {"count"}]
  BY WalkShape DEF CountRows, TInv
<1>2. Cardinality(Rows(walk.types)) \in Nat
  <2>1. Rows(walk.types) \subseteq Called
    BY DEF Rows, Called, Fresh
  <2>2. QED
    BY <2>1, FS_Subset, FS_CardinalityType DEF TInv
<1>3. QED
  BY <1>1, <1>2 DEF WalkRecords

LEMMA TurnShape ==
    ASSUME TInv, TurnPage
    PROVE  /\ Walking /\ walk \in WalkRecords /\ walk.queries = {} /\ ~LastPage
           /\ UNCHANGED <<clock, event, done, broken, req>>
           /\ walk' \in WalkRecords /\ walk'.queries = {"count", "findMany"}
           /\ walk'.page = walk.page + 1
           /\ walk'.types = walk.types /\ walk'.order = walk.order
           /\ walk'.unseen = walk.unseen /\ walk'.raced = walk.raced
<1>1. /\ Walking /\ walk \in WalkRecords /\ walk.queries = {} /\ ~LastPage
      /\ UNCHANGED <<clock, event, done, broken, req>>
      /\ walk' = [walk EXCEPT !.page = @ + 1, !.queries = {"count", "findMany"}]
  BY WalkShape DEF TurnPage, TInv
<1>2. walk.page + 1 \in Nat /\ {"count", "findMany"} \in SUBSET {"count", "findMany"}
  BY <1>1 DEF WalkRecords
<1>3. walk' \in WalkRecords
  BY <1>1, <1>2 DEF WalkRecords
<1>4. QED
  BY <1>1, <1>2, <1>3 DEF WalkRecords

LEMMA ReadShape ==
    ASSUME TInv, ReadPage
    PROVE  /\ Walking /\ walk \in WalkRecords /\ "findMany" \in walk.queries
           /\ UNCHANGED <<clock, event, done, broken, req>>
           /\ walk' \in WalkRecords /\ walk'.queries = walk.queries \ {"findMany"}
           /\ walk'.types = walk.types /\ walk'.order = walk.order
           /\ walk'.page = walk.page /\ walk'.total = walk.total /\ walk'.raced = walk.raced
           /\ \E before \in SUBSET Rows(walk.types) :
              \E page \in SUBSET (Rows(walk.types) \ before) :
                 /\ Cardinality(before) = Smaller(Skip, Cardinality(Rows(walk.types)))
                 /\ Cardinality(page) =
                       Smaller(PageSize, Cardinality(Rows(walk.types)) - Cardinality(before))
                 /\ Precede(before, Rows(walk.types) \ before)
                 /\ Precede(page, Rows(walk.types) \ (before \cup page))
                 /\ walk'.unseen = walk.unseen \ page
<1>1. /\ Walking /\ walk \in WalkRecords /\ "findMany" \in walk.queries
      /\ UNCHANGED <<clock, event, done, broken, req>>
  BY WalkShape DEF ReadPage, TInv
<1>2. PICK before \in SUBSET Rows(walk.types) :
         \E page \in SUBSET (Rows(walk.types) \ before) :
            /\ Cardinality(before) = Smaller(Skip, Cardinality(Rows(walk.types)))
            /\ Cardinality(page) =
                  Smaller(PageSize, Cardinality(Rows(walk.types)) - Cardinality(before))
            /\ Precede(before, Rows(walk.types) \ before)
            /\ Precede(page, Rows(walk.types) \ (before \cup page))
            /\ walk' = [walk EXCEPT !.unseen = @ \ page, !.queries = @ \ {"findMany"}]
  BY DEF ReadPage
<1>3. PICK page \in SUBSET (Rows(walk.types) \ before) :
         /\ Cardinality(page) =
               Smaller(PageSize, Cardinality(Rows(walk.types)) - Cardinality(before))
         /\ Precede(before, Rows(walk.types) \ before)
         /\ Precede(page, Rows(walk.types) \ (before \cup page))
         /\ walk' = [walk EXCEPT !.unseen = @ \ page, !.queries = @ \ {"findMany"}]
  BY <1>2
<1>4. /\ walk' \in WalkRecords /\ walk'.queries = walk.queries \ {"findMany"}
      /\ walk'.types = walk.types /\ walk'.order = walk.order
      /\ walk'.page = walk.page /\ walk'.total = walk.total /\ walk'.raced = walk.raced
      /\ walk'.unseen = walk.unseen \ page
  BY <1>1, <1>3 DEF WalkRecords
<1>5. QED
  BY <1>1, <1>2, <1>3, <1>4

LEMMA ReaderKeeps ==
    ASSUME TInv, CountRows \/ ReadPage \/ TurnPage \/ EndWalk
    PROVE  TInv'
<1>1. CASE CountRows
  BY <1>1, CountShape, WalkMoves
<1>2. CASE ReadPage
  BY <1>2, ReadShape, WalkMoves
<1>3. CASE TurnPage
  BY <1>3, TurnShape, WalkMoves
<1>4. CASE EndWalk
  BY <1>4, WalkMoves DEF EndWalk, LastPage
<1>5. QED
  BY <1>1, <1>2, <1>3, <1>4

-----------------------------------------------------------------------------
(* TInv is an invariant                                                     *)

LEMMA TInvInit == Init => TInv
<1> SUFFICES ASSUME Init PROVE TInv
  OBVIOUS
<1>1. Called = {}
  BY DEF Init, Called
<1>2. IsFiniteSet(Called)
  BY <1>1, FS_EmptySet
<1>3. RequestsFit
  BY DEF Init, RequestsFit
<1>4. TypeOK /\ UnseenStored
  BY MaxClockAssumption DEF Init, TypeOK, Walking, UnseenStored
<1>5. QED
  BY <1>2, <1>3, <1>4 DEF TInv

LEMMA TInvStep ==
    ASSUME TInv, [Next]_vars
    PROVE  TInv'
<1>1. CASE UNCHANGED vars
  <2>1. RequestsFit' /\ UnseenStored' /\ Called' = Called
    BY <1>1 DEF TInv, vars, RequestsFit, UnseenStored, Called, Walking
  <2>2. TypeOK'
    BY <1>1 DEF TInv, vars, TypeOK, Walking, Matches
  <2>3. QED
    BY <2>1, <2>2 DEF TInv
<1>2. QED
  BY <1>1, BeginKeeps, ReportKeeps, ChangeKeeps, BreakOffKeeps, LandKeeps, TickKeeps,
     StartWalkKeeps, ReaderKeeps DEF Next

LEMMA TInvHolds == Spec => []TInv
<1>1. Init => TInv
  BY TInvInit
<1>2. TInv /\ [Next]_vars => TInv'
  BY TInvStep
<1>3. QED
  BY <1>1, <1>2, PTL DEF Spec

(* The table, the requests and the reader always have their shape, and the  *)
(* reader's unseen rows are rows of the citizen.                            *)
THEOREM TypeCorrect == Spec => []TypeOK
<1>1. TInv => TypeOK
  BY DEF TInv
<1>2. QED
  BY <1>1, TInvHolds, PTL

-----------------------------------------------------------------------------
(* Reports and changes                                                      *)

(* A call under way stays under way as long as its request does not move.   *)
LEMMA UnderwayKept ==
    ASSUME NEW r \in Requests, \A o \in Requests \ {r} : req'[o] = req[o],
           NEW e \in Events, Underway(e), req[r] # <<>> => req[r][1] # e
    PROVE  Underway(e)'
BY DEF Underway

(* Steps that move no handler and report nothing. *)
LEMMA ReportsStay ==
    ASSUME TInv, ChangesAreReported, UNCHANGED <<req, done, broken>>,
           \A e \in Events : /\ Reported(e)' <=> Reported(e)
                             /\ Reported(e) => event'[e].op = event[e].op
    PROVE  ChangesAreReported'
<1>1. \A e \in Events : Underway(e)' <=> Underway(e)
  BY DEF Underway
<1>2. QED
  BY <1>1 DEF ChangesAreReported, TInv, TypeOK

LEMMA BeginReports ==
    ASSUME TInv, ChangesAreReported, NEW r \in Requests, NEW e \in Events, NEW op \in Ops,
           Begin(r, e, op)
    PROVE  ChangesAreReported'
<1> USE DEF TInv
<1>1. /\ req[r] = <<>> /\ event[e] = Fresh /\ UNCHANGED <<done, broken>>
      /\ req' = [req EXCEPT ![r] = <<e>> \o Program(op)]
  BY DEF Begin
<1>2. event'[e].status = "called" /\ \A f \in Events \ {e} : event'[f] = event[f]
  BY DEF Begin, TypeOK
<1>3. req'[r] # <<>> /\ req'[r][1] = e
  <2>1. \/ <<e>> \o Program(op) = <<e, "report">>
        \/ <<e>> \o Program(op) = <<e, "report", "change">>
        \/ <<e>> \o Program(op) = <<e, "change", "report">>
    BY Programs, PrefixOne, PrefixTwo DEF Only, First, Last
  <2>2. req'[r] = <<e>> \o Program(op)
    BY <1>1 DEF RequestsFit
  <2>3. QED
    BY <2>1, <2>2
<1>4. \A o \in Requests \ {r} : req'[o] = req[o]
  BY <1>1 DEF RequestsFit
<1>5. \A f \in Events : Underway(f) => Underway(f)'
  BY <1>1, <1>4, UnderwayKept
<1>6. Underway(e)'
  BY <1>3 DEF Underway
<1>7. /\ ~Reported(e)'
      /\ \A f \in Events \ {e} : /\ Reported(f)' <=> Reported(f)
                                 /\ event'[f].op = event[f].op
  BY <1>2 DEF Reported
<1> SUFFICES ASSUME NEW f \in done' PROVE Reported(f)' \/ Underway(f)' \/ f \in broken'
  BY DEF ChangesAreReported
<1>8. f \in Events /\ (Reported(f) \/ Underway(f) \/ f \in broken)
  BY <1>1 DEF ChangesAreReported, TypeOK
<1>9. QED
  BY <1>1, <1>5, <1>6, <1>7, <1>8

LEMMA ReportReports ==
    ASSUME TInv, ChangesAreReported, NEW r \in Requests, Report(r)
    PROVE  ChangesAreReported'
<1> USE DEF TInv
<1>1. PICK e \in Events :
         /\ req[r] # <<>> /\ req[r][1] = e
         /\ event[e] \in EventRecords /\ event[e].status = "called"
         /\ event' = [event EXCEPT ![e].status = "posted", ![e].at = clock]
         /\ \/ /\ req' = [req EXCEPT ![r] = <<>>]
               /\ \/ Program(event[e].op) = Only
                  \/ Program(event[e].op) = Last /\ e \in done
            \/ /\ req' = [req EXCEPT ![r] = <<e, "change">>]
               /\ Program(event[e].op) = First
  BY ReportShape
<1>2. /\ event'[e].status = "posted" /\ event'[e].op = event[e].op
      /\ \A f \in Events \ {e} : event'[f] = event[f]
  BY <1>1 DEF TypeOK, EventRecords
<1>3. \A o \in Requests \ {r} : req'[o] = req[o]
  BY <1>1 DEF RequestsFit
<1>4. UNCHANGED <<done, broken>>
  BY DEF Report
<1>5. \A f \in Events \ {e} : Underway(f) => Underway(f)'
  BY <1>1, <1>3, UnderwayKept
<1>6. /\ Reported(e)'
      /\ \A f \in Events \ {e} : /\ Reported(f)' <=> Reported(f)
                                 /\ event'[f].op = event[f].op
  BY <1>2 DEF Reported
<1> SUFFICES ASSUME NEW f \in done' PROVE Reported(f)' \/ Underway(f)' \/ f \in broken'
  BY DEF ChangesAreReported
<1>7. f \in Events /\ (Reported(f) \/ Underway(f) \/ f \in broken)
  BY <1>4 DEF ChangesAreReported, TypeOK
<1>8. QED
  BY <1>4, <1>5, <1>6, <1>7

LEMMA ChangeReports ==
    ASSUME TInv, ChangesAreReported, NEW r \in Requests, Change(r)
    PROVE  ChangesAreReported'
<1> USE DEF TInv
<1>1. PICK e \in Events :
         /\ req[r] # <<>> /\ req[r][1] = e /\ event[e] # Fresh
         /\ done' = done \cup {e}
         /\ \/ /\ req' = [req EXCEPT ![r] = <<>>]
               /\ event[e].status \in Sent
            \/ req' = [req EXCEPT ![r] = <<e, "report">>]
  BY ChangeShape
<1>2. UNCHANGED <<event, broken>>
  BY DEF Change
<1>3. \A o \in Requests \ {r} : req'[o] = req[o]
  BY <1>1 DEF RequestsFit
<1>4. \A f \in Events \ {e} : Underway(f) => Underway(f)'
  BY <1>1, <1>3, UnderwayKept
<1>5. Reported(e)' \/ Underway(e)'
  <2>1. CASE event[e].status \in Sent
    BY <1>2, <2>1 DEF Reported, Sent
  <2>2. CASE req' = [req EXCEPT ![r] = <<e, "report">>]
    <3>1. req'[r] # <<>> /\ req'[r][1] = e
      BY <2>2 DEF RequestsFit
    <3>2. QED
      BY <3>1 DEF Underway
  <2>3. QED
    BY <1>1, <2>1, <2>2
<1>6. \A f \in Events : /\ Reported(f)' <=> Reported(f)
                        /\ event'[f].op = event[f].op
  BY <1>2 DEF Reported
<1> SUFFICES ASSUME NEW f \in done' PROVE Reported(f)' \/ Underway(f)' \/ f \in broken'
  BY DEF ChangesAreReported
<1>7. f = e \/ (f \in Events /\ (Reported(f) \/ Underway(f) \/ f \in broken))
  BY <1>1 DEF ChangesAreReported, TypeOK
<1>8. QED
  BY <1>2, <1>4, <1>5, <1>6, <1>7

LEMMA BreakOffReports ==
    ASSUME TInv, ChangesAreReported, NEW r \in Requests, BreakOff(r)
    PROVE  ChangesAreReported'
<1> USE DEF TInv
<1>1. /\ req[r] # <<>> /\ broken' = broken \cup {req[r][1]}
      /\ req' = [req EXCEPT ![r] = <<>>] /\ UNCHANGED <<event, done>>
  BY DEF BreakOff
<1>2. \A o \in Requests \ {r} : req'[o] = req[o]
  BY <1>1 DEF RequestsFit
<1>3. \A f \in Events : Underway(f) \/ f \in broken => Underway(f)' \/ f \in broken'
  BY <1>1, <1>2, UnderwayKept
<1>4. QED
  BY <1>1, <1>3 DEF ChangesAreReported, Reported, TypeOK

LEMMA LandReports ==
    ASSUME TInv, ChangesAreReported, NEW e \in Events, Store(e) \/ Lose(e)
    PROVE  ChangesAreReported'
<1>1. /\ event[e].status = "posted"
      /\ event'[e].op = event[e].op /\ event'[e].status \in {"stored", "lost"}
      /\ \A f \in Events \ {e} : event'[f] = event[f]
  BY LandShape
<1>2. \A f \in Events : /\ Reported(f)' <=> Reported(f)
                        /\ event'[f].op = event[f].op
  BY <1>1 DEF Reported
<1>3. QED
  BY <1>2, ReportsStay DEF Store, Lose

LEMMA ReportsStep ==
    ASSUME TInv, ChangesAreReported, [Next]_vars
    PROVE  ChangesAreReported'
<1>1. CASE UNCHANGED <<event, done, broken, req>>
  BY <1>1, ReportsStay DEF Reported
<1>2. QED
  BY <1>1, BeginReports, ReportReports, ChangeReports, BreakOffReports, LandReports
     DEF Next, vars, Tick, StartWalk, CountRows, ReadPage, TurnPage, EndWalk

(* Every change has its report, unless its handler has not come to it or    *)
(* broke off before.                                                        *)
THEOREM NothingGoesUnreported == Spec => []ChangesAreReported
<1>1. Init => ChangesAreReported
  BY DEF Init, ChangesAreReported, Reported, Fresh
<1>2. TInv /\ ChangesAreReported /\ [Next]_vars => ChangesAreReported'
  BY ReportsStep
<1>3. QED
  BY <1>1, <1>2, TInvHolds, PTL DEF Spec

-----------------------------------------------------------------------------
(* Where the unseen rows lie                                                *)

LEMMA SmallerSet ==
    ASSUME NEW S, IsFiniteSet(S), NEW T \in SUBSET S, NEW x \in S \ T
    PROVE  /\ IsFiniteSet(T) /\ Cardinality(T) \in Nat /\ Cardinality(S) \in Nat
           /\ Cardinality(T) < Cardinality(S)
<1>1. IsFiniteSet(T) /\ Cardinality(T) <= Cardinality(S) /\ Cardinality(S) # Cardinality(T)
  BY FS_Subset
<1>2. QED
  BY <1>1, FS_CardinalityType

(* The page of size rows after the skipped ones: whatever comes after the   *)
(* page has both before it.                                                 *)
LEMMA PageBehind ==
    ASSUME NEW rows, IsFiniteSet(rows), NEW e \in rows,
           NEW earlier \in SUBSET (rows \ {e}),
           NEW before \in SUBSET rows, NEW page \in SUBSET (rows \ before),
           NEW skip \in Nat, NEW size \in Nat,
           Cardinality(earlier) >= skip,
           Cardinality(before) = Smaller(skip, Cardinality(rows)),
           Cardinality(page) = Smaller(size, Cardinality(rows) - Cardinality(before)),
           e \in before => earlier \subseteq before,
           e \notin before => before \subseteq earlier,
           e \notin before \cup page => page \subseteq earlier,
           e \notin page
    PROVE  Cardinality(earlier) >= skip + size
<1>1. /\ IsFiniteSet(earlier) /\ Cardinality(earlier) \in Nat /\ Cardinality(rows) \in Nat
      /\ Cardinality(earlier) < Cardinality(rows)
  BY SmallerSet
<1>2. IsFiniteSet(before) /\ IsFiniteSet(page)
  BY FS_Subset
<1>3. Cardinality(before) \in Nat /\ Cardinality(page) \in Nat
  BY <1>2, FS_CardinalityType
<1>4. Cardinality(before) = skip
  BY <1>1 DEF Smaller
<1>5. e \notin before
  <2> SUFFICES ASSUME e \in before PROVE FALSE
    OBVIOUS
  <2>1. earlier \in SUBSET before /\ e \in before \ earlier
    OBVIOUS
  <2>2. Cardinality(earlier) < Cardinality(before)
    BY <1>2, <2>1, SmallerSet
  <2>3. QED
    BY <1>1, <1>3, <1>4, <2>2
<1>6. before \cup page \in SUBSET earlier
  BY <1>5
<1>7. Cardinality(before \cup page) = Cardinality(before) + Cardinality(page)
  <2>1. before \cap page = {}
    OBVIOUS
  <2>2. Cardinality(before \cap page) = 0
    BY <2>1, FS_EmptySet
  <2>3. Cardinality(before \cup page) =
           Cardinality(before) + Cardinality(page) - Cardinality(before \cap page)
    BY <1>2, FS_Union
  <2>4. QED
    BY <1>3, <2>2, <2>3
<1>8. Cardinality(before \cup page) <= Cardinality(earlier)
  BY <1>1, <1>6, FS_Subset
<1>9. QED
  BY <1>1, <1>3, <1>4, <1>7, <1>8 DEF Smaller

(* The rows are finitely many, each with its time. *)
LEMMA RowsFacts ==
    ASSUME TInv, NEW types
    PROVE  /\ Rows(types) \subseteq Events
           /\ IsFiniteSet(Rows(types)) /\ Cardinality(Rows(types)) \in Nat
           /\ \A e \in Rows(types) : event[e].at \in Nat
<1>1. Rows(types) \in SUBSET Called /\ Rows(types) \subseteq Events
  BY DEF Rows, Called, Fresh
<1>2. IsFiniteSet(Rows(types))
  BY <1>1, FS_Subset DEF TInv
<1>3. \A e \in Rows(types) : event[e] \in EventRecords
  <2> SUFFICES ASSUME NEW e \in Rows(types) PROVE event[e] \in EventRecords
    OBVIOUS
  <2>1. e \in Events /\ event[e].status # "fresh"
    BY DEF Rows
  <2>2. QED
    BY <2>1, StatusCalled DEF TInv
<1>4. QED
  BY <1>1, <1>2, <1>3, FS_CardinalityType, MaxClockAssumption DEF EventRecords

LEMMA EarlierFacts ==
    ASSUME TInv, NEW e
    PROVE  /\ Earlier(e) \in SUBSET Rows(walk.types)
           /\ IsFiniteSet(Earlier(e)) /\ Cardinality(Earlier(e)) \in Nat
           /\ e \in Rows(walk.types) => e \notin Earlier(e)
<1>1. Earlier(e) \in SUBSET Rows(walk.types)
  BY DEF Earlier
<1>2. IsFiniteSet(Earlier(e))
  BY <1>1, RowsFacts, FS_Subset
<1>3. e \in Rows(walk.types) => e \notin Earlier(e)
  BY RowsFacts DEF Earlier
<1>4. QED
  BY <1>1, <1>2, <1>3, FS_CardinalityType

LEMMA UnseenIsRow ==
    ASSUME TInv, Walking, NEW e \in walk.unseen
    PROVE  e \in Rows(walk.types)
<1>1. walk \in WalkRecords
  BY WalkShape DEF TInv
<1>2. QED
  BY <1>1 DEF TInv, TypeOK, UnseenStored, Matches, Rows, WalkRecords

LEMMA PagesReadIsNat ==
    ASSUME Walking, walk \in WalkRecords, walk.page >= 1
    PROVE  PagesRead \in Nat /\ walk.page \in Nat
BY DEF PagesRead, WalkRecords

(* When rows only come, what was behind a row stays behind it, and rows     *)
(* that had the same time have it still.                                    *)
LEMMA RowsGrow ==
    ASSUME TInv, TInv', walk'.types = walk.types, walk'.order = walk.order,
           Rows(walk.types) \subseteq Rows(walk.types)',
           \A e \in Rows(walk.types) : event'[e].at = event[e].at
    PROVE  /\ Tied => Tied'
           /\ \A e \in Rows(walk.types) : Cardinality(Earlier(e)') >= Cardinality(Earlier(e))
<1>1. Tied => Tied'
  BY DEF Tied
<1>2. ASSUME NEW e \in Rows(walk.types)
      PROVE  Cardinality(Earlier(e)') >= Cardinality(Earlier(e))
  <2>1. Earlier(e) \in SUBSET Earlier(e)'
    BY DEF Earlier
  <2>2. IsFiniteSet(Earlier(e)') /\ Cardinality(Earlier(e)') \in Nat
    <3>1. Earlier(e)' \in SUBSET (Rows(walk.types)')
      BY DEF Earlier
    <3>2. IsFiniteSet(Rows(walk.types)')
      <4>1. Rows(walk.types)' \in SUBSET (Called')
        BY DEF Rows, Called, Fresh
      <4>2. QED
        BY <4>1, FS_Subset DEF TInv
    <3>3. QED
      BY <3>1, <3>2, FS_Subset, FS_CardinalityType
  <2>3. QED
    BY <2>1, <2>2, FS_Subset, EarlierFacts
<1>3. QED
  BY <1>1, <1>2

-----------------------------------------------------------------------------
(* Each action keeps WalkInv                                                *)

(* Rows come while the reader waits: one that lands between a count and its *)
(* page is noted.                                                           *)
LEMMA WalkStays ==
    ASSUME TInv, TInv', WalkInv,
           walk' = walk \/ (Walking /\ walk' = [walk EXCEPT !.raced = TRUE]),
           Walking => /\ Rows(walk.types) \subseteq Rows(walk.types)'
                      /\ \A e \in Rows(walk.types) : event'[e].at = event[e].at
                      /\ ~walk'.raced /\ walk.queries = {"findMany"}
                            => Rows(walk.types)' = Rows(walk.types)
    PROVE  WalkInv'
<1> SUFFICES ASSUME Walking'
             PROVE  (walk.page >= 1 /\ UnseenBehind /\ CountHolds /\ CountSuffices)'
  BY DEF WalkInv
<1>1. Walking
  BY DEF Walking
<1>2. walk \in WalkRecords
  BY <1>1, WalkShape DEF TInv
<1>3. /\ walk'.types = walk.types /\ walk'.order = walk.order /\ walk'.page = walk.page
      /\ walk'.queries = walk.queries /\ walk'.unseen = walk.unseen
      /\ walk'.total = walk.total
      /\ ~walk'.raced => ~walk.raced
  BY <1>2 DEF WalkRecords
<1>4. walk.page >= 1 /\ UnseenBehind /\ CountHolds /\ CountSuffices
  BY <1>1 DEF WalkInv
<1>5. /\ Tied => Tied'
      /\ \A e \in Rows(walk.types) : Cardinality(Earlier(e)') >= Cardinality(Earlier(e))
  BY <1>1, <1>3, RowsGrow
<1>6. PagesRead' = PagesRead /\ PagesRead * PageSize \in Nat
  BY <1>1, <1>2, <1>3, <1>4, PagesReadIsNat, PageSizeAssumption DEF PagesRead
<1>7. UnseenBehind'
  <2> SUFFICES ASSUME ~Tied', NEW e \in walk'.unseen
               PROVE  Cardinality(Earlier(e)') >= PagesRead' * PageSize
    BY DEF UnseenBehind
  <2>1. e \in Rows(walk.types) /\ Cardinality(Earlier(e)) >= PagesRead * PageSize
    BY <1>1, <1>3, <1>4, <1>5, UnseenIsRow DEF UnseenBehind
  <2>2. Cardinality(Earlier(e)') >= Cardinality(Earlier(e))
    BY <1>5, <2>1
  <2>3. Cardinality(Earlier(e)) \in Nat /\ Cardinality(Earlier(e)') \in Nat
    <3>1. IsFiniteSet(Earlier(e)')
      <4>1. Earlier(e)' \in SUBSET (Called')
        BY DEF Earlier, Rows, Called, Fresh
      <4>2. QED
        BY <4>1, FS_Subset DEF TInv
    <3>2. QED
      BY <3>1, EarlierFacts, FS_CardinalityType
  <2>4. QED
    BY <1>6, <2>1, <2>2, <2>3
<1>8. CountHolds'
  BY <1>1, <1>3, <1>4 DEF CountHolds
<1>9. CountSuffices'
  BY <1>3, <1>4, <1>5 DEF CountSuffices
<1>10. QED
  BY <1>3, <1>4, <1>7, <1>8, <1>9

(* The steps that leave the reader alone and put no row into the table.     *)
LEMMA HandlerWalks ==
    ASSUME TInv, TInv', WalkInv, UNCHANGED walk,
           \A e \in Events : /\ event'[e].status = "stored" <=> event[e].status = "stored"
                             /\ event[e].status = "stored" => event'[e] = event[e]
    PROVE  WalkInv'
<1>1. \A types : Rows(types)' = Rows(types)
  BY DEF Rows
<1>2. \A e \in Rows(walk.types) : event'[e].at = event[e].at
  BY DEF Rows
<1>3. QED
  BY <1>1, <1>2, WalkStays

LEMMA StoreWalks ==
    ASSUME TInv, TInv', WalkInv, NEW e \in Events, Store(e)
    PROVE  WalkInv'
<1>1. /\ event[e].status = "posted"
      /\ event'[e].op = event[e].op /\ event'[e].user = event[e].user
      /\ event'[e].status = "stored" /\ event'[e].at = event[e].at
      /\ \A f \in Events \ {e} : event'[f] = event[f]
  BY LandShape
<1>2. walk' = walk \/ (Walking /\ walk' = [walk EXCEPT !.raced = TRUE])
  BY DEF Store
<1>3. \A f \in Rows(walk.types) : event'[f].at = event[f].at
  BY <1>1 DEF Rows
<1>4. ASSUME Walking
      PROVE  /\ Rows(walk.types) \subseteq Rows(walk.types)'
             /\ ~walk'.raced /\ walk.queries = {"findMany"}
                   => Rows(walk.types)' = Rows(walk.types)
  <2>1. walk \in WalkRecords
    BY <1>4, WalkShape DEF TInv
  <2>2. walk'.types = walk.types
    BY <1>2, <2>1 DEF WalkRecords
  <2>3. Rows(walk.types) \subseteq Rows(walk.types)'
    BY <1>1, <2>2 DEF Rows
  <2>4. ASSUME ~walk'.raced, walk.queries = {"findMany"}
        PROVE  Rows(walk.types)' = Rows(walk.types)
    <3>1. ~Matches(e)
      <4> SUFFICES ASSUME Matches(e) PROVE FALSE
        OBVIOUS
      <4>1. walk' = [walk EXCEPT !.raced = TRUE]
        BY <1>4, <2>4 DEF Store
      <4>2. walk'.raced
        BY <2>1, <4>1 DEF WalkRecords
      <4>3. QED
        BY <2>4, <4>2
    <3>2. Rows(walk.types)' \subseteq Rows(walk.types)
      BY <1>1, <2>2, <3>1 DEF Rows, Matches
    <3>3. QED
      BY <2>3, <3>2
  <2>5. QED
    BY <2>3, <2>4
<1>5. QED
  BY <1>2, <1>3, <1>4, WalkStays

(* At the start nothing is behind the reader. *)
LEMMA StartWalks ==
    ASSUME TInv, TInv', NEW category \in Categories, NEW search \in Searches,
           NEW order \in {"newest", "oldest"}, StartWalk(category, search, order)
    PROVE  WalkInv'
<1>1. /\ walk'.page = 1 /\ walk'.queries = {"count", "findMany"}
  BY DEF StartWalk
<1>2. PagesRead' = 0
  BY <1>1 DEF PagesRead
<1>3. \A e \in walk'.unseen : Cardinality(Earlier(e)') \in Nat
  <2> SUFFICES ASSUME NEW e \in walk'.unseen PROVE Cardinality(Earlier(e)') \in Nat
    OBVIOUS
  <2>1. Earlier(e)' \in SUBSET (Called')
    BY DEF Earlier, Rows, Called, Fresh
  <2>2. QED
    BY <2>1, FS_Subset, FS_CardinalityType DEF TInv
<1>4. UnseenBehind'
  BY <1>2, <1>3, PageSizeAssumption DEF UnseenBehind
<1>5. "count" \in walk'.queries
  BY <1>1
<1>6. CountHolds' /\ CountSuffices'
  BY <1>5 DEF CountHolds, CountSuffices
<1>7. QED
  BY <1>1, <1>4, <1>6 DEF WalkInv

(* The reader's own steps leave the rows and their order alone. *)
LEMMA ReaderRows ==
    ASSUME UNCHANGED event, walk'.types = walk.types, walk'.order = walk.order
    PROVE  /\ Rows(walk.types)' = Rows(walk.types) /\ (Tied' <=> Tied)
           /\ \A e : Earlier(e)' = Earlier(e)
<1>1. Rows(walk.types)' = Rows(walk.types)
  BY DEF Rows
<1>2. \A e : Earlier(e)' = Earlier(e)
  BY <1>1 DEF Earlier
<1>3. QED
  BY <1>1, <1>2 DEF Tied

(* What lies behind a page is more than the page holds: there is more to    *)
(* read than the pages up to it.                                            *)
LEMMA MoreThanRead ==
    ASSUME TInv, Walking, WalkInv, ~Tied, NEW e \in walk.unseen
    PROVE  Cardinality(Rows(walk.types)) > PagesRead * PageSize
<1>1. walk \in WalkRecords /\ e \in Rows(walk.types)
  BY WalkShape, UnseenIsRow DEF TInv
<1>2. Cardinality(Earlier(e)) >= PagesRead * PageSize /\ walk.page >= 1
  BY DEF WalkInv, UnseenBehind
<1>3. PagesRead * PageSize \in Nat
  BY <1>1, <1>2, PagesReadIsNat, PageSizeAssumption
<1>4. /\ Earlier(e) \in SUBSET Rows(walk.types) /\ e \in Rows(walk.types) \ Earlier(e)
      /\ IsFiniteSet(Rows(walk.types))
  BY <1>1, EarlierFacts, RowsFacts
<1>5. /\ Cardinality(Earlier(e)) < Cardinality(Rows(walk.types))
      /\ Cardinality(Earlier(e)) \in Nat /\ Cardinality(Rows(walk.types)) \in Nat
  BY <1>4, SmallerSet
<1>6. QED
  BY <1>2, <1>3, <1>5

LEMMA CountWalks ==
    ASSUME TInv, WalkInv, CountRows
    PROVE  WalkInv'
<1>1. /\ Walking /\ walk \in WalkRecords /\ "count" \in walk.queries
      /\ UNCHANGED <<clock, event, done, broken, req>>
      /\ walk' \in WalkRecords /\ walk'.queries = walk.queries \ {"count"}
      /\ walk'.total = Cardinality(Rows(walk.types))
      /\ walk'.types = walk.types /\ walk'.order = walk.order /\ walk'.page = walk.page
      /\ walk'.unseen = walk.unseen /\ walk'.raced = walk.raced
  BY CountShape
<1>2. walk.page >= 1 /\ UnseenBehind /\ CountHolds /\ CountSuffices
  BY <1>1 DEF WalkInv
<1>3. /\ Rows(walk.types)' = Rows(walk.types) /\ (Tied' <=> Tied)
      /\ \A e : Earlier(e)' = Earlier(e)
  BY <1>1, ReaderRows
<1>4. PagesRead' = PagesRead
  BY <1>1 DEF PagesRead
<1>5. UnseenBehind'
  BY <1>1, <1>2, <1>3, <1>4 DEF UnseenBehind
<1>6. CountHolds'
  <2>1. Cardinality(Rows(walk.types))' = Cardinality(Rows(walk.types))
    BY <1>3
  <2>2. QED
    BY <1>1, <2>1 DEF CountHolds
<1>7. CountSuffices'
  <2> SUFFICES ASSUME ~Tied, walk'.queries = {}, NEW e \in walk.unseen
               PROVE  walk'.total > walk'.page * PageSize
    BY <1>1, <1>3 DEF CountSuffices
  <2>1. PagesRead = walk.page
    BY <1>1 DEF PagesRead
  <2>2. QED
    BY <1>1, <2>1, MoreThanRead
<1>8. QED
  BY <1>1, <1>2, <1>5, <1>6, <1>7 DEF WalkInv

(* What the page does not show lies behind it. *)
LEMMA ReadWalks ==
    ASSUME TInv, WalkInv, ReadPage
    PROVE  WalkInv'
<1>1. /\ Walking /\ walk \in WalkRecords /\ "findMany" \in walk.queries
      /\ UNCHANGED <<clock, event, done, broken, req>>
      /\ walk' \in WalkRecords /\ walk'.queries = walk.queries \ {"findMany"}
      /\ walk'.types = walk.types /\ walk'.order = walk.order
      /\ walk'.page = walk.page /\ walk'.total = walk.total /\ walk'.raced = walk.raced
  BY ReadShape
<1> DEFINE rows == Rows(walk.types)
<1>2. PICK before \in SUBSET rows : \E page \in SUBSET (rows \ before) :
         /\ Cardinality(before) = Smaller(Skip, Cardinality(rows))
         /\ Cardinality(page) = Smaller(PageSize, Cardinality(rows) - Cardinality(before))
         /\ Precede(before, rows \ before)
         /\ Precede(page, rows \ (before \cup page))
         /\ walk'.unseen = walk.unseen \ page
  BY ReadShape
<1>3. PICK page \in SUBSET (rows \ before) :
         /\ Cardinality(before) = Smaller(Skip, Cardinality(rows))
         /\ Cardinality(page) = Smaller(PageSize, Cardinality(rows) - Cardinality(before))
         /\ Precede(before, rows \ before)
         /\ Precede(page, rows \ (before \cup page))
         /\ walk'.unseen = walk.unseen \ page
  BY <1>2
<1>4. walk.page >= 1 /\ UnseenBehind /\ CountHolds /\ CountSuffices
  BY <1>1 DEF WalkInv
<1>5. /\ Rows(walk.types)' = rows /\ (Tied' <=> Tied)
      /\ \A e : Earlier(e)' = Earlier(e)
  BY <1>1, ReaderRows
<1>6. /\ walk.page \in Nat /\ Skip \in Nat /\ PageSize \in Nat
      /\ PagesRead = walk.page - 1 /\ PagesRead' = walk.page
      /\ Skip + PageSize = walk.page * PageSize
  <2>1. walk.page \in Nat /\ PageSize \in Nat
    BY <1>1, PageSizeAssumption DEF WalkRecords
  <2>2. PagesRead = walk.page - 1 /\ PagesRead' = walk.page
    BY <1>1 DEF PagesRead
  <2>3. Skip \in Nat /\ Skip + PageSize = walk.page * PageSize
    BY <1>4, <2>1 DEF Skip
  <2>4. QED
    BY <2>1, <2>2, <2>3
<1>7. ASSUME ~Tied, NEW e \in walk'.unseen
      PROVE  Cardinality(Earlier(e)) >= walk.page * PageSize
  <2>1. e \in walk.unseen /\ e \notin page /\ e \in rows
    BY <1>1, <1>3, UnseenIsRow
  <2>2. Cardinality(Earlier(e)) >= Skip
    BY <1>4, <1>6, <1>7, <2>1 DEF UnseenBehind, Skip
  <2>3. Earlier(e) \in SUBSET (rows \ {e}) /\ IsFiniteSet(rows)
    BY <2>1, EarlierFacts, RowsFacts
  <2>4. \A f \in rows : /\ event[f].at \in Nat
                        /\ f # e => event[f].at # event[e].at
    BY <1>7, <2>1, RowsFacts DEF Tied
  <2>5. e \in before => Earlier(e) \subseteq before
    BY <1>3, <2>1, <2>4 DEF Precede, Earlier
  <2>6. e \notin before => before \subseteq Earlier(e)
    BY <1>3, <2>1, <2>4 DEF Precede, Earlier
  <2>7. e \notin before \cup page => page \subseteq Earlier(e)
    BY <1>3, <2>1, <2>4 DEF Precede, Earlier
  <2> HIDE DEF rows
  <2>8. Cardinality(Earlier(e)) >= Skip + PageSize
    BY <1>3, <1>6, <2>1, <2>2, <2>3, <2>5, <2>6, <2>7, PageBehind
  <2>9. QED
    BY <1>6, <2>8
<1>8. UnseenBehind'
  BY <1>5, <1>6, <1>7 DEF UnseenBehind
<1>9. CountHolds'
  BY <1>1 DEF CountHolds
<1>10. CountSuffices'
  <2> SUFFICES ASSUME ~Tied, ~walk.raced, walk'.queries = {}, NEW e \in walk'.unseen
               PROVE  walk.total > walk.page * PageSize
    BY <1>1, <1>5 DEF CountSuffices
  <2>1. walk.queries = {"findMany"}
    BY <1>1
  <2>2. walk.total = Cardinality(rows)
    BY <1>4, <2>1 DEF CountHolds
  <2>3. e \in rows /\ e \in walk.unseen
    BY <1>1, <1>3, UnseenIsRow
  <2>4. Cardinality(Earlier(e)) >= walk.page * PageSize
    BY <1>7
  <2>5. /\ Cardinality(Earlier(e)) < Cardinality(rows)
        /\ Cardinality(Earlier(e)) \in Nat /\ Cardinality(rows) \in Nat
    <3>1. Earlier(e) \in SUBSET rows /\ e \in rows \ Earlier(e) /\ IsFiniteSet(rows)
      BY <2>3, EarlierFacts, RowsFacts
    <3> HIDE DEF rows
    <3>2. QED
      BY <3>1, SmallerSet
  <2>6. walk.page * PageSize \in Nat
    BY <1>6
  <2> HIDE DEF rows
  <2>7. QED
    BY <2>2, <2>4, <2>5, <2>6
<1>11. QED
  BY <1>1, <1>4, <1>8, <1>9, <1>10 DEF WalkInv

LEMMA TurnWalks ==
    ASSUME TInv, WalkInv, TurnPage
    PROVE  WalkInv'
<1>1. /\ Walking /\ walk \in WalkRecords /\ walk.queries = {} /\ ~LastPage
      /\ UNCHANGED <<clock, event, done, broken, req>>
      /\ walk' \in WalkRecords /\ walk'.queries = {"count", "findMany"}
      /\ walk'.page = walk.page + 1
      /\ walk'.types = walk.types /\ walk'.order = walk.order
      /\ walk'.unseen = walk.unseen /\ walk'.raced = walk.raced
  BY TurnShape
<1>2. walk.page >= 1 /\ UnseenBehind /\ walk.page \in Nat
  BY <1>1 DEF WalkInv, WalkRecords
<1>3. /\ Rows(walk.types)' = Rows(walk.types) /\ (Tied' <=> Tied)
      /\ \A e : Earlier(e)' = Earlier(e)
  BY <1>1, ReaderRows
<1>4. PagesRead' = PagesRead /\ walk'.page >= 1
  BY <1>1, <1>2 DEF PagesRead
<1>5. UnseenBehind'
  BY <1>1, <1>2, <1>3, <1>4 DEF UnseenBehind
<1>6. "count" \in walk'.queries
  BY <1>1
<1>7. CountHolds' /\ CountSuffices'
  BY <1>6 DEF CountHolds, CountSuffices
<1>8. QED
  BY <1>4, <1>5, <1>7 DEF WalkInv

LEMMA WalkInvStep ==
    ASSUME TInv, TInv', WalkInv, [Next]_vars
    PROVE  WalkInv'
<1>1. CASE UNCHANGED vars
  BY <1>1, HandlerWalks DEF vars
<1>2. ASSUME NEW r \in Requests, NEW e \in Events, NEW op \in Ops, Begin(r, e, op)
      PROVE  WalkInv'
  <2>1. event[e].status = "fresh" /\ event'[e].status = "called"
        /\ \A f \in Events \ {e} : event'[f] = event[f]
    BY <1>2 DEF Begin, Fresh, TInv, TypeOK
  <2>2. UNCHANGED walk
    BY <1>2 DEF Begin
  <2>3. QED
    BY <2>1, <2>2, HandlerWalks
<1>3. ASSUME NEW r \in Requests, Report(r)
      PROVE  WalkInv'
  <2>1. PICK e \in Events :
           /\ event[e] \in EventRecords /\ event[e].status = "called"
           /\ event' = [event EXCEPT ![e].status = "posted", ![e].at = clock]
    BY <1>3, ReportShape
  <2>2. event'[e].status = "posted" /\ \A f \in Events \ {e} : event'[f] = event[f]
    BY <2>1 DEF TInv, TypeOK, EventRecords
  <2>3. UNCHANGED walk
    BY <1>3 DEF Report
  <2>4. QED
    BY <2>1, <2>2, <2>3, HandlerWalks
<1>4. ASSUME NEW r \in Requests, Change(r) \/ BreakOff(r)
      PROVE  WalkInv'
  BY <1>4, HandlerWalks DEF Change, BreakOff
<1>5. ASSUME NEW e \in Events, Lose(e)
      PROVE  WalkInv'
  <2>1. /\ event[e].status = "posted" /\ event'[e].status = "lost"
        /\ \A f \in Events \ {e} : event'[f] = event[f]
    BY <1>5, LandShape
  <2>2. UNCHANGED walk
    BY <1>5 DEF Lose
  <2>3. QED
    BY <2>1, <2>2, HandlerWalks
<1>6. CASE Tick
  BY <1>6, HandlerWalks DEF Tick
<1>7. CASE EndWalk
  BY <1>7 DEF EndWalk, WalkInv, Walking
<1>8. QED
  BY <1>1, <1>2, <1>3, <1>4, <1>5, <1>6, <1>7, StoreWalks, StartWalks, CountWalks,
     ReadWalks, TurnWalks DEF Next

LEMMA WalkInvHolds == Spec => []WalkInv
<1>1. Init => WalkInv
  BY DEF Init, WalkInv, Walking
<1>2. TInv /\ TInv' /\ WalkInv /\ [Next]_vars => WalkInv'
  BY WalkInvStep
<1>3. QED
  BY <1>1, <1>2, TInvHolds, PTL DEF Spec

(* So many pages as the count fills hold no more rows than it counted.      *)
LEMMA PagesHoldAll ==
    ASSUME NEW total \in Nat, NEW page \in Nat, NEW size \in Nat \ {0},
           page >= (total + size - 1) \div size
    PROVE  total <= page * size
OBVIOUS

(* A reader who turns the pages to the end has seen every row that was      *)
(* there at the start, unless a row lands between the count of a page and   *)
(* its rows, or two rows have the same time.                                *)
THEOREM ReaderMissesNothing == Spec => []WalkMissesNothing
<1>1. ASSUME TInv, WalkInv PROVE WalkMissesNothing
  <2> SUFFICES ASSUME LastPage, ~walk.raced, walk.unseen # {}, ~Tied
               PROVE  FALSE
    BY DEF WalkMissesNothing, Tied
  <2>1. Walking /\ walk.queries = {} /\ walk.page >= TotalPages
    BY DEF LastPage
  <2>2. walk.page \in Nat /\ walk.total \in Nat
    BY <1>1, <2>1, WalkShape DEF TInv, WalkRecords
  <2>3. walk.total > walk.page * PageSize
    BY <1>1, <2>1 DEF WalkInv, CountSuffices
  <2>4. walk.total <= walk.page * PageSize
    BY <2>1, <2>2, PageSizeAssumption, PagesHoldAll DEF TotalPages
  <2>5. walk.page * PageSize \in Nat
    BY <2>2, PageSizeAssumption
  <2>6. QED
    BY <2>2, <2>3, <2>4, <2>5
<1>2. TInv /\ WalkInv => WalkMissesNothing
  BY <1>1
<1>3. QED
  BY <1>2, TInvHolds, WalkInvHolds, PTL

=============================================================================
