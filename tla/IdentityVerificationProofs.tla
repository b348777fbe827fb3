--------------------- MODULE IdentityVerificationProofs ---------------------
(***************************************************************************)
(* Proofs about IdentityVerification for any number of submissions, any     *)
(* attempt limit and any number of submissions under way at once.          *)
(*                                                                         *)
(* Three inductive invariants.  TInv speaks of one submission at a time:   *)
(* its shape, where its two images are, and whether its row failed.        *)
(* LimitInv and LogInv count submissions: the ones that went past the      *)
(* limit and have no row yet, and the ones that have a row and are not yet *)
(* counted on the account.                                                 *)
(***************************************************************************)
EXTENDS IdentityVerification, FiniteSetTheorems, TLAPS

-----------------------------------------------------------------------------
(* Where the images of a submission are                                     *)

(* The kinds of the images of s in a set of images. *)
KindsIn(s, images) == {k \in Kinds : <<s, k>> \in images}

(* A submission q with its uploads w on the wire, the kinds here in the     *)
(* bucket and the kinds gone from it.  An upload is on the wire only while  *)
(* the handler waits for it or after it broke, nothing was deleted by then, *)
(* and whoever got past the clean-up left nothing behind.                   *)
ImagesFit(q, w, here, gone) ==
    /\ here \cap gone = {}
    /\ w # {} => q.step \in {"upload", "broken"}
    /\ q.step \in {"new", "limit", "upload"} \/ w # {} => gone = {}
    /\ q.step = "upload" => Kinds \subseteq w \cup here
    /\ q.step = "engine" \/ (q.step \in {"count", "record"} /\ q.verdict # "unavailable")
           => here = Kinds
    /\ q.step \in {"mark", "upgrade", "respond", "answered"} /\ ~q.lingers => here = {}

(* The number was read before the row is written, and a row that failed is  *)
(* in the past of its submission.                                           *)
RowFits(q) ==
    /\ q.step = "record" => q.number # 0
    /\ q.unlogged =>
          /\ q.step \in {"cleanup", "mark", "upgrade", "respond", "answered", "broken"}
          /\ q.step = "cleanup" => q.verdict # "unavailable"

TInv ==
    /\ TypeOK
    /\ \A s \in Submissions :
          /\ ImagesFit(sub[s], put[s], KindsIn(s, bucket), KindsIn(s, deleted))
          /\ RowFits(sub[s])

-----------------------------------------------------------------------------
(* Counting                                                                 *)

(* Past the limit, and without a row. *)
PastLimit(q) ==
    \/ q.step \in {"upload", "engine", "count", "record"}
    \/ q.step = "cleanup" /\ q.verdict = "unavailable"

(* With a row, or a row that failed, and not yet counted. *)
ToCount(q) ==
    \/ q.step = "mark"
    \/ q.step = "cleanup" /\ q.verdict # "unavailable"

Past == {s \in Submissions : PastLimit(sub[s])}
Uncounted == {s \in Submissions : ToCount(sub[s])}
Unlogged == {s \in Submissions : sub[s].unlogged}

(* Whoever is past the limit will write one row at most. *)
LimitInv ==
    /\ Cardinality(Running) <= Concurrency
    /\ AttemptsUsed + Cardinality(Past) <= MaxAttempts - 1 + Concurrency

(* Whoever is still to be counted has a row, or one that failed. *)
LogInv == tally + Cardinality(Uncounted) <= Len(log) + Cardinality(Unlogged)

-----------------------------------------------------------------------------
(* The images of one submission, in a set that changes                      *)

LEMMA ImagesSplit ==
    ASSUME NEW s \in Submissions, NEW images
    PROVE  /\ ImagesOf(s) \subseteq images <=> KindsIn(s, images) = Kinds
           /\ images \cap ImagesOf(s) = {} <=> KindsIn(s, images) = {}
BY DEF ImagesOf, KindsIn

(* Adding an image of s concerns s only. *)
LEMMA ImageAdded ==
    ASSUME NEW s \in Submissions, NEW k \in Kinds, NEW images
    PROVE  /\ KindsIn(s, images \cup {<<s, k>>}) = KindsIn(s, images) \cup {k}
           /\ \A o \in Submissions \ {s} :
                KindsIn(o, images \cup {<<s, k>>}) = KindsIn(o, images)
BY DEF KindsIn

(* The record of one submission changes. *)
LEMMA SubTyped ==
    ASSUME TypeOK, NEW s \in Submissions, NEW q \in SubRecords, sub' = [sub EXCEPT ![s] = q]
    PROVE  /\ sub' \in [Submissions -> SubRecords] /\ sub'[s] = q
           /\ \A o \in Submissions \ {s} : sub'[o] = sub[o]
BY DEF TypeOK

(* The step of one submission changes. *)
LEMMA GoShape ==
    ASSUME TypeOK, NEW s \in Submissions, NEW step \in Steps, Go(s, step)
    PROVE  /\ sub' \in [Submissions -> SubRecords]
           /\ sub'[s] = [sub[s] EXCEPT !.step = step]
           /\ sub'[s].step = step
           /\ sub'[s].verdict = sub[s].verdict /\ sub'[s].number = sub[s].number
           /\ sub'[s].lingers = sub[s].lingers /\ sub'[s].unlogged = sub[s].unlogged
           /\ \A o \in Submissions \ {s} : sub'[o] = sub[o]
BY DEF Go, TypeOK, SubRecords

(* It suffices to look at the submission that moves. *)
LEMMA OneMoves ==
    ASSUME TInv, TypeOK', NEW s \in Submissions,
           \A o \in Submissions \ {s} :
              /\ sub'[o] = sub[o] /\ put'[o] = put[o]
              /\ KindsIn(o, bucket') = KindsIn(o, bucket)
              /\ KindsIn(o, deleted') = KindsIn(o, deleted),
           ImagesFit(sub'[s], put'[s], KindsIn(s, bucket'), KindsIn(s, deleted')),
           RowFits(sub'[s])
    PROVE  TInv'
BY DEF TInv

-----------------------------------------------------------------------------
(* Each action keeps TInv                                                   *)

LEMMA SubmitKeeps ==
    ASSUME TInv, NEW s \in Submissions, NEW mode \in Modes, Submit(s, mode)
    PROVE  TInv'
<1> DEFINE next == IF verified /\ mode # "INVITATION" THEN "refused" ELSE "limit"
           q == [sub[s] EXCEPT !.step = next, !.seen = verified]
<1>1. q \in SubRecords /\ sub' = [sub EXCEPT ![s] = q]
  BY DEF TInv, TypeOK, SubRecords, Steps, UnderWay, Submit
<1> HIDE DEF q
<1>2. /\ sub' \in [Submissions -> SubRecords] /\ sub'[s] = q
      /\ \A o \in Submissions \ {s} : sub'[o] = sub[o]
  BY <1>1, SubTyped DEF TInv
<1>3. TypeOK'
  BY <1>2 DEF TInv, TypeOK, Submit
<1>4. q.step \in {"refused", "limit"} /\ q.unlogged = sub[s].unlogged
  BY DEF q, TInv, TypeOK, SubRecords
<1>5. ImagesFit(q, put[s], KindsIn(s, bucket), KindsIn(s, deleted))
  BY <1>4 DEF TInv, ImagesFit, Submit
<1>6. RowFits(q)
  BY <1>4 DEF TInv, RowFits, Submit
<1>7. QED
  BY <1>2, <1>3, <1>5, <1>6, OneMoves DEF Submit

LEMMA EnforceKeeps ==
    ASSUME TInv, NEW s \in Submissions, EnforceAttemptLimit(s)
    PROVE  TInv'
<1>1. PICK step \in {"refused", "upload"} :
         /\ Go(s, step)
         /\ step = "refused" => UNCHANGED put
         /\ step = "upload" => put' = [put EXCEPT ![s] = Kinds]
  BY DEF EnforceAttemptLimit
<1>2. /\ sub' \in [Submissions -> SubRecords]
      /\ sub'[s] = [sub[s] EXCEPT !.step = step]
      /\ \A o \in Submissions \ {s} : sub'[o] = sub[o]
  BY <1>1, GoShape DEF TInv, Steps, UnderWay
<1>3. sub'[s].step = step /\ sub'[s].unlogged = sub[s].unlogged
  BY <1>2 DEF TInv, TypeOK, SubRecords
<1>4. put' \in [Submissions -> SUBSET Kinds] /\ \A o \in Submissions \ {s} : put'[o] = put[o]
  BY <1>1 DEF TInv, TypeOK
<1>5. TypeOK'
  BY <1>2, <1>4 DEF TInv, TypeOK, EnforceAttemptLimit
<1>6. put[s] = {} /\ KindsIn(s, deleted) = {} /\ ~sub[s].unlogged
  BY DEF TInv, ImagesFit, RowFits, EnforceAttemptLimit, TypeOK, SubRecords
<1>7. put'[s] = IF step = "upload" THEN Kinds ELSE {}
  BY <1>1, <1>6 DEF TInv, TypeOK
<1>8. ImagesFit(sub'[s], put'[s], KindsIn(s, bucket'), KindsIn(s, deleted'))
  BY <1>1, <1>3, <1>6, <1>7 DEF ImagesFit, EnforceAttemptLimit
<1>9. RowFits(sub'[s])
  BY <1>1, <1>3, <1>6 DEF RowFits
<1>10. QED
  BY <1>2, <1>4, <1>5, <1>8, <1>9, OneMoves DEF EnforceAttemptLimit

(* An upload ends, with or without its image. *)
LEMMA PutShape ==
    ASSUME TypeOK, NEW s \in Submissions, NEW k \in put[s],
           put' = [put EXCEPT ![s] = @ \ {k}]
    PROVE  /\ k \in Kinds /\ put' \in [Submissions -> SUBSET Kinds]
           /\ put'[s] = put[s] \ {k}
           /\ \A o \in Submissions \ {s} : put'[o] = put[o]
BY DEF TypeOK

LEMMA UploadDoneKeeps ==
    ASSUME TInv, NEW s \in Submissions, NEW k \in Kinds, UploadDone(s, k)
    PROVE  TInv'
<1>1. /\ k \in Kinds /\ put' \in [Submissions -> SUBSET Kinds]
      /\ put'[s] = put[s] \ {k}
      /\ \A o \in Submissions \ {s} : put'[o] = put[o]
  BY PutShape DEF TInv, UploadDone
<1>2. /\ bucket' \subseteq Submissions \X Kinds
      /\ KindsIn(s, bucket') = KindsIn(s, bucket) \cup {k}
      /\ \A o \in Submissions \ {s} : KindsIn(o, bucket') = KindsIn(o, bucket)
  <2>1. bucket' = bucket \cup {<<s, k>>} /\ bucket \subseteq Submissions \X Kinds
    BY DEF UploadDone, TInv, TypeOK
  <2>2. QED
    BY <2>1, ImageAdded
<1>3. KindsIn(s, deleted) = {} /\ sub[s].step \in {"upload", "broken"}
  BY DEF TInv, ImagesFit, UploadDone
<1>4. CASE sub[s].step = "upload" /\ put[s] = {k}
  <2>1. Go(s, "engine") /\ "engine" \in Steps
    BY <1>4 DEF UploadDone, AllUploaded, Steps, UnderWay
  <2>2. /\ sub' \in [Submissions -> SubRecords]
        /\ sub'[s] = [sub[s] EXCEPT !.step = "engine"]
        /\ \A o \in Submissions \ {s} : sub'[o] = sub[o]
    BY <2>1, GoShape DEF TInv
  <2>3. sub'[s].step = "engine" /\ sub'[s].unlogged = sub[s].unlogged
    BY <2>2 DEF TInv, TypeOK, SubRecords
  <2>4. TypeOK'
    BY <1>1, <1>2, <2>2 DEF UploadDone, TInv, TypeOK
  <2>5. KindsIn(s, bucket') = Kinds /\ put'[s] = {}
    BY <1>1, <1>2, <1>4 DEF TInv, ImagesFit, KindsIn
  <2>6. ImagesFit(sub'[s], put'[s], KindsIn(s, bucket'), KindsIn(s, deleted'))
    BY <1>3, <2>3, <2>5 DEF ImagesFit, UploadDone
  <2>7. RowFits(sub'[s])
    BY <1>4, <2>3 DEF RowFits, TInv, TypeOK, SubRecords
  <2>8. QED
    BY <1>1, <1>2, <2>2, <2>4, <2>6, <2>7, OneMoves DEF UploadDone
<1>5. CASE ~(sub[s].step = "upload" /\ put[s] = {k})
  <2>1. UNCHANGED sub
    BY <1>5 DEF UploadDone, AllUploaded
  <2>2. TypeOK'
    BY <1>1, <1>2, <2>1 DEF UploadDone, TInv, TypeOK
  <2>3. sub[s].step = "upload" => Kinds \subseteq put'[s] \cup KindsIn(s, bucket')
    BY <1>1, <1>2 DEF TInv, ImagesFit
  <2>4. ImagesFit(sub'[s], put'[s], KindsIn(s, bucket'), KindsIn(s, deleted'))
    BY <1>3, <2>1, <2>3 DEF ImagesFit, UploadDone
  <2>5. RowFits(sub'[s])
    BY <2>1 DEF TInv
  <2>6. QED
    BY <1>1, <1>2, <2>1, <2>2, <2>4, <2>5, OneMoves DEF UploadDone
<1>6. QED
  BY <1>4, <1>5

LEMMA UploadFailsKeeps ==
    ASSUME TInv, NEW s \in Submissions, NEW k \in Kinds, UploadFails(s, k)
    PROVE  TInv'
<1>1. /\ k \in Kinds /\ put' \in [Submissions -> SUBSET Kinds]
      /\ put'[s] = put[s] \ {k}
      /\ \A o \in Submissions \ {s} : put'[o] = put[o]
  BY PutShape DEF TInv, UploadFails
<1>2. /\ bucket' \subseteq Submissions \X Kinds /\ deleted' = deleted
      /\ \A o \in Submissions \ {s} : KindsIn(o, bucket') = KindsIn(o, bucket)
  <2>1. /\ bucket' = bucket \/ bucket' = bucket \cup {<<s, k>>}
        /\ bucket \subseteq Submissions \X Kinds /\ deleted' = deleted
    BY DEF UploadFails, GiveUp, TInv, TypeOK
  <2>2. QED
    BY <2>1, ImageAdded
<1>3. KindsIn(s, deleted) = {} /\ sub[s].step \in {"upload", "broken"}
  BY DEF TInv, ImagesFit, UploadFails
<1>4. /\ sub' \in [Submissions -> SubRecords]
      /\ sub'[s].step = "broken" /\ sub'[s].unlogged = sub[s].unlogged
      /\ \A o \in Submissions \ {s} : sub'[o] = sub[o]
  <2>1. CASE sub[s].step = "upload"
    <3>1. Go(s, "broken") /\ "broken" \in Steps
      BY <2>1 DEF UploadFails, Steps
    <3>2. QED
      BY <3>1, GoShape DEF TInv
  <2>2. CASE sub[s].step = "broken"
    BY <2>2 DEF UploadFails, TInv, TypeOK
  <2>3. QED
    BY <1>3, <2>1, <2>2
<1>5. TypeOK'
  BY <1>1, <1>2, <1>4 DEF UploadFails, TInv, TypeOK
<1>6. ImagesFit(sub'[s], put'[s], KindsIn(s, bucket'), KindsIn(s, deleted'))
  BY <1>2, <1>3, <1>4 DEF ImagesFit
<1>7. RowFits(sub'[s])
  BY <1>4 DEF RowFits, TInv
<1>8. QED
  BY <1>1, <1>2, <1>4, <1>5, <1>6, <1>7, OneMoves

LEMMA EngineKeeps ==
    ASSUME TInv, NEW s \in Submissions, NEW verdict \in Verdicts \ {"none"},
           CallEngine(s, verdict)
    PROVE  TInv'
<1> DEFINE next == IF verdict = "unavailable" THEN "cleanup" ELSE "count"
           q == [sub[s] EXCEPT !.verdict = verdict, !.step = next]
<1>1. q \in SubRecords /\ sub' = [sub EXCEPT ![s] = q]
  BY DEF TInv, TypeOK, SubRecords, Steps, UnderWay, CallEngine
<1>2. q.step = next /\ q.verdict = verdict /\ q.unlogged = sub[s].unlogged
  BY DEF TInv, TypeOK, SubRecords
<1> HIDE DEF q
<1>3. /\ sub' \in [Submissions -> SubRecords] /\ sub'[s] = q
      /\ \A o \in Submissions \ {s} : sub'[o] = sub[o]
  BY <1>1, SubTyped DEF TInv
<1>4. TypeOK'
  BY <1>3 DEF TInv, TypeOK, CallEngine
<1>5. /\ put[s] = {} /\ KindsIn(s, bucket) = Kinds
      /\ KindsIn(s, bucket) \cap KindsIn(s, deleted) = {}
      /\ ~sub[s].unlogged
  BY DEF TInv, ImagesFit, RowFits, CallEngine, TypeOK, SubRecords
<1>6. ImagesFit(q, put[s], KindsIn(s, bucket), KindsIn(s, deleted))
  BY <1>2, <1>5 DEF ImagesFit
<1>7. RowFits(q)
  BY <1>2, <1>5 DEF RowFits
<1>8. QED
  BY <1>3, <1>4, <1>6, <1>7, OneMoves DEF CallEngine

LEMMA NumberKeeps ==
    ASSUME TInv, NEW s \in Submissions, GetNextAttemptNumber(s)
    PROVE  TInv'
<1> DEFINE q == [sub[s] EXCEPT !.step = "record", !.number = NextAttemptNumber]
<1>1. NextAttemptNumber \in Nat \ {0}
  BY DEF NextAttemptNumber, TInv, TypeOK
<1>2. q \in SubRecords /\ sub' = [sub EXCEPT ![s] = q]
  BY <1>1 DEF TInv, TypeOK, SubRecords, Steps, UnderWay, GetNextAttemptNumber
<1>3. /\ q.step = "record" /\ q.number # 0
      /\ q.verdict = sub[s].verdict /\ q.unlogged = sub[s].unlogged
  BY <1>1 DEF TInv, TypeOK, SubRecords
<1> HIDE DEF q
<1>4. /\ sub' \in [Submissions -> SubRecords] /\ sub'[s] = q
      /\ \A o \in Submissions \ {s} : sub'[o] = sub[o]
  BY <1>2, SubTyped DEF TInv
<1>5. TypeOK'
  BY <1>4 DEF TInv, TypeOK, GetNextAttemptNumber
<1>6. ImagesFit(q, put[s], KindsIn(s, bucket), KindsIn(s, deleted))
  BY <1>3 DEF TInv, ImagesFit, GetNextAttemptNumber
<1>7. RowFits(q)
  BY <1>3 DEF RowFits, TInv, GetNextAttemptNumber
<1>8. QED
  BY <1>4, <1>5, <1>6, <1>7, OneMoves DEF GetNextAttemptNumber

(* What a row of the log gets, when it is written and when it is lost.      *)
LEMMA RecordShape ==
    ASSUME TInv, NEW s \in Submissions, RecordAttempt(s)
    PROVE  /\ sub' \in [Submissions -> SubRecords]
           /\ sub'[s].step = IF sub[s].verdict = "unavailable" THEN "broken" ELSE "cleanup"
           /\ sub'[s].verdict = sub[s].verdict
           /\ ~sub[s].unlogged
           /\ \A o \in Submissions \ {s} : sub'[o] = sub[o]
           /\ log' \in Seq(Rows)
           /\ \/ Len(log') = Len(log) + 1 /\ ~sub'[s].unlogged
              \/ Len(log') = Len(log) /\ sub'[s].unlogged
<1> DEFINE next == IF sub[s].verdict = "unavailable" THEN "broken" ELSE "cleanup"
           lost == [sub[s] EXCEPT !.step = next, !.unlogged = TRUE]
           row == [by |-> s, number |-> sub[s].number]
<1>1. next \in Steps /\ log \in Seq(Rows)
  BY DEF Steps, UnderWay, TInv, TypeOK
<1>2. ~sub[s].unlogged /\ row \in Rows
  BY DEF TInv, RowFits, RecordAttempt, TypeOK, SubRecords, Rows
<1>3. CASE LogAttempt(s) /\ Go(s, next)
  <2>1. log' \in Seq(Rows) /\ Len(log') = Len(log) + 1
    <3>1. log' = Append(log, row)
      BY <1>3 DEF LogAttempt
    <3>2. QED
      BY <3>1, <1>1, <1>2
  <2>2. QED
    BY <1>1, <1>2, <1>3, <2>1, GoShape DEF TInv
<1>4. CASE UNCHANGED log /\ sub' = [sub EXCEPT ![s].step = next, ![s].unlogged = TRUE]
  <2>1. lost \in SubRecords /\ sub' = [sub EXCEPT ![s] = lost]
    BY <1>1, <1>4 DEF TInv, TypeOK, SubRecords
  <2>2. lost.step = next /\ lost.verdict = sub[s].verdict /\ lost.unlogged
    BY DEF TInv, TypeOK, SubRecords
  <2>3. QED
    BY <1>1, <1>2, <1>4, <2>1, <2>2, SubTyped DEF TInv
<1>5. QED
  BY <1>3, <1>4 DEF RecordAttempt

LEMMA RecordKeeps ==
    ASSUME TInv, NEW s \in Submissions, RecordAttempt(s)
    PROVE  TInv'
<1>1. /\ sub' \in [Submissions -> SubRecords]
      /\ sub'[s].step = IF sub[s].verdict = "unavailable" THEN "broken" ELSE "cleanup"
      /\ sub'[s].verdict = sub[s].verdict
      /\ \A o \in Submissions \ {s} : sub'[o] = sub[o]
      /\ log' \in Seq(Rows) /\ Len(log') >= Len(log)
  <2>1. Len(log) \in Nat
    BY DEF TInv, TypeOK
  <2>2. QED
    BY <2>1, RecordShape
<1>2. aged' \in 0..Len(log')
  <2>1. aged' = aged /\ aged \in 0..Len(log) /\ Len(log) \in Nat /\ Len(log') \in Nat
    BY <1>1 DEF RecordAttempt, TInv, TypeOK
  <2>2. QED
    BY <2>1, <1>1
<1>3. TypeOK'
  BY <1>1, <1>2 DEF TInv, TypeOK, RecordAttempt
<1>4. ImagesFit(sub'[s], put[s], KindsIn(s, bucket), KindsIn(s, deleted))
  BY <1>1 DEF TInv, ImagesFit, RecordAttempt
<1>5. RowFits(sub'[s])
  BY <1>1 DEF RowFits
<1>6. QED
  BY <1>1, <1>3, <1>4, <1>5, OneMoves DEF RecordAttempt

(* The bucket deletes both images, or some of them and the rest lingers.    *)
LEMMA CleanupShape ==
    ASSUME TInv, NEW s \in Submissions, CleanupImages(s)
    PROVE  /\ sub' \in [Submissions -> SubRecords]
           /\ sub'[s].step = IF sub[s].verdict = "unavailable" THEN "count" ELSE "mark"
           /\ sub'[s].verdict = sub[s].verdict /\ sub'[s].unlogged = sub[s].unlogged
           /\ \A o \in Submissions \ {s} : sub'[o] = sub[o]
           /\ \E gone \in SUBSET ImagesOf(s) :
                 /\ bucket' = bucket \ gone /\ deleted' = deleted \cup gone
                 /\ gone = ImagesOf(s) \/ sub'[s].lingers
<1> DEFINE next == IF sub[s].verdict = "unavailable" THEN "count" ELSE "mark"
<1>1. next \in Steps
  BY DEF Steps, UnderWay
<1>2. PICK gone \in SUBSET ImagesOf(s) :
         /\ bucket' = bucket \ gone /\ deleted' = deleted \cup gone
         /\ sub' = [sub EXCEPT ![s].step = next, ![s].lingers = gone # ImagesOf(s)]
  BY DEF CleanupImages, KeysToDelete
<1> DEFINE left == [sub[s] EXCEPT !.step = next, !.lingers = gone # ImagesOf(s)]
<1> HIDE DEF next
<1>3. left \in SubRecords /\ sub' = [sub EXCEPT ![s] = left]
  BY <1>1, <1>2 DEF TInv, TypeOK, SubRecords
<1>4. /\ left.step = next /\ left.verdict = sub[s].verdict
      /\ left.unlogged = sub[s].unlogged /\ (gone = ImagesOf(s) \/ left.lingers)
  BY DEF TInv, TypeOK, SubRecords
<1> HIDE DEF left
<1>5. /\ sub' \in [Submissions -> SubRecords] /\ sub'[s] = left
      /\ \A o \in Submissions \ {s} : sub'[o] = sub[o]
  BY <1>3, SubTyped DEF TInv
<1>6. QED
  BY <1>2, <1>4, <1>5 DEF next

LEMMA CleanupKeeps ==
    ASSUME TInv, NEW s \in Submissions, CleanupImages(s)
    PROVE  TInv'
<1>1. /\ sub' \in [Submissions -> SubRecords]
      /\ sub'[s].step = IF sub[s].verdict = "unavailable" THEN "count" ELSE "mark"
      /\ sub'[s].verdict = sub[s].verdict /\ sub'[s].unlogged = sub[s].unlogged
      /\ \A o \in Submissions \ {s} : sub'[o] = sub[o]
  BY CleanupShape
<1>2. PICK gone \in SUBSET ImagesOf(s) :
         /\ bucket' = bucket \ gone /\ deleted' = deleted \cup gone
         /\ gone = ImagesOf(s) \/ sub'[s].lingers
  BY CleanupShape
<1>3. TypeOK'
  <2>1. bucket' \subseteq Submissions \X Kinds /\ deleted' \subseteq Submissions \X Kinds
    BY <1>2 DEF TInv, TypeOK, ImagesOf
  <2>2. QED
    BY <1>1, <2>1 DEF TInv, TypeOK, CleanupImages
<1>4. \A o \in Submissions \ {s} : /\ KindsIn(o, bucket') = KindsIn(o, bucket)
                                   /\ KindsIn(o, deleted') = KindsIn(o, deleted)
  BY <1>2 DEF KindsIn, ImagesOf
<1>5. put[s] = {} /\ KindsIn(s, bucket) \cap KindsIn(s, deleted) = {}
  BY DEF TInv, ImagesFit, CleanupImages
<1>6. /\ KindsIn(s, bucket') \cap KindsIn(s, deleted') = {}
      /\ sub'[s].lingers \/ KindsIn(s, bucket') = {}
  BY <1>2, <1>5 DEF KindsIn, ImagesOf
<1>7. ImagesFit(sub'[s], put[s], KindsIn(s, bucket'), KindsIn(s, deleted'))
  BY <1>1, <1>5, <1>6 DEF ImagesFit
<1>8. RowFits(sub'[s])
  BY <1>1 DEF RowFits, TInv, CleanupImages
<1>9. QED
  BY <1>1, <1>3, <1>4, <1>7, <1>8, OneMoves DEF CleanupImages

(* From the clean-up on, and when a statement fails, only the step moves.   *)
LEMMA LateKeeps ==
    ASSUME TInv, NEW s \in Submissions, Mark(s) \/ UpgradeToken(s) \/ Respond(s) \/ Fail(s)
    PROVE  TInv'
<1>1. PICK step \in {"upgrade", "respond", "answered", "broken"} :
         /\ Go(s, step)
         /\ step # "broken" => sub[s].step \in {"mark", "upgrade", "respond"}
         /\ sub[s].step \in {"limit", "count", "mark", "upgrade", "respond"}
  BY DEF Mark, UpgradeToken, Respond, Fail
<1>2. UNCHANGED <<log, aged, bucket, deleted, put>> /\ verified' \in BOOLEAN /\ tally' \in Nat
  <2>1. /\ UNCHANGED <<log, aged, bucket, deleted, put>>
        /\ verified' = verified \/ verified' = TRUE
        /\ tally' = tally \/ tally' = tally + 1
    BY DEF Mark, UpgradeToken, Respond, Fail
  <2>2. verified' \in BOOLEAN
    BY <2>1 DEF TInv, TypeOK
  <2>3. tally' \in Nat
    BY <2>1 DEF TInv, TypeOK
  <2>4. QED
    BY <2>1, <2>2, <2>3
<1>3. /\ sub' \in [Submissions -> SubRecords]
      /\ sub'[s].step = step
      /\ sub'[s].lingers = sub[s].lingers /\ sub'[s].unlogged = sub[s].unlogged
      /\ \A o \in Submissions \ {s} : sub'[o] = sub[o]
  BY <1>1, GoShape DEF TInv, Steps, UnderWay
<1>4. TypeOK'
  BY <1>2, <1>3 DEF TInv, TypeOK
<1>5. ImagesFit(sub'[s], put[s], KindsIn(s, bucket), KindsIn(s, deleted))
  BY <1>1, <1>3 DEF TInv, ImagesFit
<1>6. RowFits(sub'[s])
  BY <1>1, <1>3 DEF TInv, RowFits
<1>7. QED
  BY <1>2, <1>3, <1>4, <1>5, <1>6, OneMoves

(* A restart breaks whatever was under way; of the uploads on the wire any  *)
(* part arrives.                                                            *)
LEMMA RestartShape ==
    ASSUME TInv, Restart
    PROVE  /\ UNCHANGED <<verified, tally, log, aged, deleted>>
           /\ sub' \in [Submissions -> SubRecords]
           /\ bucket' \subseteq Submissions \X Kinds
           /\ \A s \in Submissions :
                /\ put'[s] = {}
                /\ sub'[s] = sub[s] \/ sub'[s] = [sub[s] EXCEPT !.step = "broken"]
                /\ sub'[s].step = IF s \in Running THEN "broken" ELSE sub[s].step
                /\ sub'[s].unlogged = sub[s].unlogged
                /\ KindsIn(s, bucket') \subseteq KindsIn(s, bucket) \cup put[s]
                /\ KindsIn(s, bucket) \subseteq KindsIn(s, bucket')
<1>1. PICK arrived \in SUBSET UNION {{s} \X put[s] : s \in Submissions} :
         bucket' = bucket \cup arrived
  BY DEF Restart
<1>2. arrived \subseteq Submissions \X Kinds
  BY DEF TInv, TypeOK
<1>3. ASSUME NEW s \in Submissions
      PROVE  /\ KindsIn(s, bucket') \subseteq KindsIn(s, bucket) \cup put[s]
             /\ KindsIn(s, bucket) \subseteq KindsIn(s, bucket')
  <2>1. \A k \in Kinds : <<s, k>> \in arrived => k \in put[s]
    OBVIOUS
  <2>2. QED
    BY <1>1, <2>1 DEF KindsIn
<1>4. ASSUME NEW s \in Submissions
      PROVE  /\ sub'[s] = sub[s] \/ sub'[s] = [sub[s] EXCEPT !.step = "broken"]
             /\ sub'[s].step = IF s \in Running THEN "broken" ELSE sub[s].step
             /\ sub'[s].unlogged = sub[s].unlogged
             /\ sub'[s] \in SubRecords
  BY DEF Restart, TInv, TypeOK, SubRecords, Steps
<1>5. sub' \in [Submissions -> SubRecords]
  BY <1>4 DEF Restart
<1>6. QED
  BY <1>1, <1>2, <1>3, <1>4, <1>5 DEF Restart, TInv, TypeOK

LEMMA RestartKeeps ==
    ASSUME TInv, Restart
    PROVE  TInv'
<1>1. put' \in [Submissions -> SUBSET Kinds]
  BY DEF Restart
<1>2. TypeOK'
  BY <1>1, RestartShape DEF TInv, TypeOK
<1>3. ASSUME NEW s \in Submissions
      PROVE  /\ ImagesFit(sub'[s], put'[s], KindsIn(s, bucket'), KindsIn(s, deleted'))
             /\ RowFits(sub'[s])
  <2>1. /\ put'[s] = {} /\ deleted' = deleted
        /\ sub'[s] = sub[s] \/ sub'[s] = [sub[s] EXCEPT !.step = "broken"]
        /\ sub'[s].step = IF s \in Running THEN "broken" ELSE sub[s].step
        /\ sub'[s].unlogged = sub[s].unlogged
        /\ KindsIn(s, bucket') \subseteq KindsIn(s, bucket) \cup put[s]
        /\ KindsIn(s, bucket) \subseteq KindsIn(s, bucket')
    BY RestartShape
  <2>2. KindsIn(s, bucket') \cap KindsIn(s, deleted') = {}
    BY <2>1 DEF TInv, ImagesFit
  <2>3. CASE s \in Running
    BY <2>1, <2>2, <2>3 DEF ImagesFit, RowFits, TInv
  <2>4. CASE s \notin Running
    <3>1. sub'[s] = sub[s] /\ sub[s].step \notin UnderWay
      BY <2>1, <2>4 DEF Running, TInv, TypeOK, SubRecords
    <3>2. sub[s].step # "broken" => put[s] = {} /\ KindsIn(s, bucket') = KindsIn(s, bucket)
      BY <2>1, <3>1 DEF TInv, ImagesFit, UnderWay
    <3>3. QED
      BY <2>1, <2>2, <3>1, <3>2 DEF ImagesFit, TInv, UnderWay
  <2>5. QED
    BY <2>3, <2>4
<1>4. QED
  BY <1>2, <1>3 DEF TInv

LEMMA AgesKeeps ==
    ASSUME TInv, AttemptAges
    PROVE  TInv'
<1>1. aged' \in 0..Len(log) /\ log \in Seq(Rows)
  BY DEF AttemptAges, TInv, TypeOK
<1>2. QED
  BY <1>1 DEF AttemptAges, TInv, TypeOK

-----------------------------------------------------------------------------
(* TInv is an invariant                                                     *)

LEMMA TInvInit == Init => TInv
<1> SUFFICES ASSUME Init PROVE TInv
  OBVIOUS
<1>1. New \in SubRecords /\ log \in Seq(Rows) /\ aged \in 0..Len(log)
  BY DEF Init, New, SubRecords, Steps, Verdicts
<1>2. TypeOK
  BY <1>1 DEF Init, TypeOK
<1>3. QED
  BY <1>2 DEF Init, TInv, ImagesFit, RowFits, KindsIn, New

LEMMA TInvStep ==
    ASSUME TInv, [Next]_vars
    PROVE  TInv'
<1>1. ASSUME NEW s \in Submissions, Serve(s)
      PROVE  TInv'
  BY <1>1, EnforceKeeps, UploadDoneKeeps, UploadFailsKeeps, EngineKeeps, NumberKeeps,
     RecordKeeps, CleanupKeeps, LateKeeps DEF Serve
<1>2. ASSUME NEW s \in Submissions, Fail(s)
      PROVE  TInv'
  BY <1>2, LateKeeps
<1>3. CASE UNCHANGED vars
  BY <1>3 DEF vars, TInv, TypeOK
<1>4. QED
  BY <1>1, <1>2, <1>3, SubmitKeeps, RestartKeeps, AgesKeeps DEF Next

LEMMA TInvHolds == Spec => []TInv
<1>1. Init => TInv
  BY TInvInit
<1>2. TInv /\ [Next]_vars => TInv'
  BY TInvStep
<1>3. QED
  BY <1>1, <1>2, PTL DEF Spec

(* Every table, bucket and submission always has its shape. *)
THEOREM TypeCorrect == Spec => []TypeOK
<1>1. TInv => TypeOK
  BY DEF TInv
<1>2. QED
  BY <1>1, TInvHolds, PTL

(* The engine is called, and the row written after its verdict, while both  *)
(* images of the submission are in the bucket.                              *)
THEOREM EngineSeesImages == Spec => []EngineHasImages
<1>1. TInv => EngineHasImages
  BY ImagesSplit DEF TInv, ImagesFit, EngineHasImages
<1>2. QED
  BY <1>1, TInvHolds, PTL

(* A submission that was answered left no image behind, unless the bucket   *)
(* refused the deletion.                                                    *)
THEOREM AnsweredIsClean == Spec => []AnsweredLeavesNoImage
<1>1. TInv => AnsweredLeavesNoImage
  BY ImagesSplit DEF TInv, ImagesFit, AnsweredLeavesNoImage
<1>2. QED
  BY <1>1, TInvHolds, PTL

(* An image that was deleted never returns: no upload is on the wire when   *)
(* its submission cleans up.                                                *)
THEOREM DeletedStaysDeleted == Spec => []DeletedForGood
<1>1. TInv => DeletedForGood
  <2> SUFFICES ASSUME TInv, NEW i \in bucket \cap deleted PROVE FALSE
    BY DEF DeletedForGood
  <2>1. PICK s \in Submissions, k \in Kinds : i = <<s, k>>
    BY DEF TInv, TypeOK
  <2>2. k \in KindsIn(s, bucket) \cap KindsIn(s, deleted)
    BY <2>1 DEF KindsIn
  <2>3. QED
    BY <2>2 DEF TInv, ImagesFit
<1>2. QED
  BY <1>1, TInvHolds, PTL

-----------------------------------------------------------------------------
(* Counting submissions                                                     *)

(* A subset of a set of submissions is finite and has no more elements.     *)
LEMMA FewerSubmissions ==
    ASSUME NEW S \in SUBSET Submissions, NEW T \in SUBSET S
    PROVE  /\ Cardinality(S) \in Nat /\ Cardinality(T) \in Nat
           /\ Cardinality(T) <= Cardinality(S)
<1>1. IsFiniteSet(S)
  BY SubmissionsAssumption, FS_Subset
<1>2. QED
  BY <1>1, FS_Subset, FS_CardinalityType

(* Without one of its elements, it has one less. *)
LEMMA OneSubmissionLess ==
    ASSUME NEW S \in SUBSET Submissions, NEW s \in S
    PROVE  /\ Cardinality(S) \in Nat
           /\ Cardinality(S \ {s}) = Cardinality(S) - 1
<1>1. IsFiniteSet(S)
  BY SubmissionsAssumption, FS_Subset
<1>2. QED
  BY <1>1, FS_RemoveElement, FS_CardinalityType

(* With one more, it has at most one more. *)
LEMMA OneSubmissionMore ==
    ASSUME NEW S \in SUBSET Submissions, NEW s \in Submissions
    PROVE  /\ Cardinality(S) \in Nat /\ Cardinality(S \cup {s}) \in Nat
           /\ Cardinality(S \cup {s}) <= Cardinality(S) + 1
<1>1. IsFiniteSet(S)
  BY SubmissionsAssumption, FS_Subset
<1>2. QED
  BY <1>1, FS_AddElement, FS_CardinalityType

(* Where the submission that moves is counted before and after its step.    *)
LEMMA MoverCounts ==
    ASSUME NEW s \in Submissions, \A o \in Submissions \ {s} : sub'[o] = sub[o]
    PROVE  /\ Running' \subseteq Running \cup {s}
           /\ (sub'[s].step \in UnderWay => sub[s].step \in UnderWay)
                 => Running' \subseteq Running
           /\ (PastLimit(sub'[s]) => PastLimit(sub[s])) => Past' \subseteq Past
           /\ ~PastLimit(sub'[s]) => Past' \subseteq Past \ {s}
           /\ Uncounted' \subseteq Uncounted \cup {s}
           /\ (ToCount(sub'[s]) => ToCount(sub[s])) => Uncounted' \subseteq Uncounted
           /\ ~ToCount(sub'[s]) => Uncounted' \subseteq Uncounted \ {s}
           /\ (sub[s].unlogged => sub'[s].unlogged) => Unlogged \subseteq Unlogged'
BY DEF Running, Past, Uncounted, Unlogged

(* Steps that let nobody further past the limit and write no row keep       *)
(* LimitInv, and steps that count nobody and lose no row keep LogInv.       *)
LEMMA LimitKept ==
    ASSUME TInv, LimitInv, TInv', Running' \subseteq Running, Past' \subseteq Past,
           AttemptsUsed' <= AttemptsUsed
    PROVE  LimitInv'
<1>1. Running \subseteq Submissions /\ Past \subseteq Submissions
  BY DEF Running, Past
<1>2. /\ Cardinality(Running') <= Cardinality(Running)
      /\ Cardinality(Past') <= Cardinality(Past)
      /\ Cardinality(Running) \in Nat /\ Cardinality(Running') \in Nat
      /\ Cardinality(Past) \in Nat /\ Cardinality(Past') \in Nat
  BY <1>1, FewerSubmissions
<1>3. AttemptsUsed \in Int /\ AttemptsUsed' \in Int
  BY DEF TInv, TypeOK, AttemptsUsed
<1>4. QED
  BY <1>2, <1>3, ConcurrencyAssumption, MaxAttemptsAssumption DEF LimitInv

LEMMA LogKept ==
    ASSUME TInv, LogInv, UNCHANGED <<tally, log>>,
           Uncounted' \subseteq Uncounted, Unlogged \subseteq Unlogged'
    PROVE  LogInv'
<1>1. Uncounted \subseteq Submissions /\ Unlogged' \subseteq Submissions
  BY DEF Uncounted, Unlogged
<1>2. /\ Cardinality(Uncounted') <= Cardinality(Uncounted)
      /\ Cardinality(Unlogged) <= Cardinality(Unlogged')
      /\ Cardinality(Uncounted) \in Nat /\ Cardinality(Uncounted') \in Nat
      /\ Cardinality(Unlogged) \in Nat /\ Cardinality(Unlogged') \in Nat
  BY <1>1, FewerSubmissions
<1>3. tally \in Nat /\ Len(log) \in Nat
  BY DEF TInv, TypeOK
<1>4. QED
  BY <1>2, <1>3 DEF LogInv

(* The steps that neither let a submission past the limit, nor write its    *)
(* row, nor count it.                                                       *)
LEMMA QuietShape ==
    ASSUME TInv, NEW s \in Submissions,
           \/ \E k \in Kinds : UploadDone(s, k) \/ UploadFails(s, k)
           \/ \E verdict \in Verdicts \ {"none"} : CallEngine(s, verdict)
           \/ GetNextAttemptNumber(s) \/ CleanupImages(s)
           \/ UpgradeToken(s) \/ Respond(s) \/ Fail(s)
    PROVE  /\ UNCHANGED <<tally, log, aged>>
           /\ \A o \in Submissions \ {s} : sub'[o] = sub[o]
           /\ sub'[s].step \in UnderWay => sub[s].step \in UnderWay
           /\ PastLimit(sub'[s]) => PastLimit(sub[s])
           /\ ToCount(sub'[s]) => ToCount(sub[s])
           /\ sub[s].unlogged => sub'[s].unlogged
<1>1. CASE \E k \in Kinds : UploadDone(s, k) \/ UploadFails(s, k)
  <2>1. CASE UNCHANGED sub
    BY <1>1, <2>1 DEF UploadDone, UploadFails
  <2>2. CASE ~UNCHANGED sub
    <3>1. PICK step \in {"engine", "broken"} : Go(s, step) /\ sub[s].step = "upload"
      BY <1>1, <2>2 DEF UploadDone, UploadFails
    <3>2. /\ sub'[s].step = step /\ sub'[s].unlogged = sub[s].unlogged
          /\ \A o \in Submissions \ {s} : sub'[o] = sub[o]
      BY <3>1, GoShape DEF TInv, Steps, UnderWay
    <3>3. QED
      BY <1>1, <3>1, <3>2 DEF UploadDone, UploadFails, PastLimit, ToCount, UnderWay
  <2>3. QED
    BY <2>1, <2>2
<1>2. CASE \E verdict \in Verdicts \ {"none"} : CallEngine(s, verdict)
  <2>1. PICK verdict \in Verdicts \ {"none"} : CallEngine(s, verdict)
    BY <1>2
  <2> DEFINE next == IF verdict = "unavailable" THEN "cleanup" ELSE "count"
  <2>2. /\ sub'[s].step = next /\ sub'[s].verdict = verdict
        /\ sub'[s].unlogged = sub[s].unlogged
        /\ \A o \in Submissions \ {s} : sub'[o] = sub[o]
    BY <2>1 DEF CallEngine, TInv, TypeOK, SubRecords
  <2>3. sub[s].step = "engine" /\ UNCHANGED <<tally, log, aged>>
    BY <2>1 DEF CallEngine
  <2>4. next \in {"cleanup", "count"} /\ (next = "cleanup" => verdict = "unavailable")
    OBVIOUS
  <2> HIDE DEF next
  <2>5. QED
    BY <2>2, <2>3, <2>4 DEF PastLimit, ToCount, UnderWay
<1>3. CASE GetNextAttemptNumber(s)
  <2>1. /\ sub'[s].step = "record" /\ sub'[s].unlogged = sub[s].unlogged
        /\ \A o \in Submissions \ {s} : sub'[o] = sub[o]
    BY <1>3 DEF GetNextAttemptNumber, TInv, TypeOK, SubRecords
  <2>2. QED
    BY <1>3, <2>1 DEF GetNextAttemptNumber, PastLimit, ToCount, UnderWay
<1>4. CASE CleanupImages(s)
  <2>1. UNCHANGED <<tally, log, aged>> /\ sub[s].step = "cleanup"
    BY <1>4 DEF CleanupImages
  <2>2. /\ sub'[s].step = IF sub[s].verdict = "unavailable" THEN "count" ELSE "mark"
        /\ sub'[s].unlogged = sub[s].unlogged
        /\ \A o \in Submissions \ {s} : sub'[o] = sub[o]
    BY <1>4, CleanupShape
  <2>3. QED
    BY <2>1, <2>2 DEF PastLimit, ToCount, UnderWay
<1>5. CASE UpgradeToken(s) \/ Respond(s) \/ Fail(s)
  <2>1. PICK step \in {"respond", "answered", "broken"} :
           /\ Go(s, step) /\ UNCHANGED <<tally, log, aged>>
           /\ sub[s].step \in UnderWay
    BY <1>5 DEF UpgradeToken, Respond, Fail, UnderWay
  <2>2. /\ sub'[s].step = step /\ sub'[s].unlogged = sub[s].unlogged
        /\ \A o \in Submissions \ {s} : sub'[o] = sub[o]
    BY <2>1, GoShape DEF TInv, Steps, UnderWay
  <2>3. QED
    BY <2>1, <2>2 DEF PastLimit, ToCount
<1>6. QED
  BY <1>1, <1>2, <1>3, <1>4, <1>5

LEMMA QuietCounts ==
    ASSUME TInv, LimitInv, LogInv, TInv', NEW s \in Submissions,
           \/ \E k \in Kinds : UploadDone(s, k) \/ UploadFails(s, k)
           \/ \E verdict \in Verdicts \ {"none"} : CallEngine(s, verdict)
           \/ GetNextAttemptNumber(s) \/ CleanupImages(s)
           \/ UpgradeToken(s) \/ Respond(s) \/ Fail(s)
    PROVE  LimitInv' /\ LogInv'
<1>1. /\ UNCHANGED <<tally, log, aged>>
      /\ \A o \in Submissions \ {s} : sub'[o] = sub[o]
      /\ sub'[s].step \in UnderWay => sub[s].step \in UnderWay
      /\ PastLimit(sub'[s]) => PastLimit(sub[s])
      /\ ToCount(sub'[s]) => ToCount(sub[s])
      /\ sub[s].unlogged => sub'[s].unlogged
  BY QuietShape
<1>2. /\ Running' \subseteq Running /\ Past' \subseteq Past
      /\ Uncounted' \subseteq Uncounted /\ Unlogged \subseteq Unlogged'
  BY <1>1, MoverCounts
<1>3. AttemptsUsed' <= AttemptsUsed
  BY <1>1 DEF AttemptsUsed, TInv, TypeOK
<1>4. QED
  BY <1>1, <1>2, <1>3, LimitKept, LogKept

(* A submission starts while fewer than Concurrency are under way.          *)
LEMMA SubmitCounts ==
    ASSUME TInv, LimitInv, LogInv, TInv', NEW s \in Submissions, NEW mode \in Modes,
           Submit(s, mode)
    PROVE  LimitInv' /\ LogInv'
<1>1. /\ sub'[s].step \in {"refused", "limit"} /\ sub'[s].unlogged = sub[s].unlogged
      /\ \A o \in Submissions \ {s} : sub'[o] = sub[o]
  BY DEF Submit, TInv, TypeOK, SubRecords
<1>2. /\ Running' \subseteq Running \cup {s} /\ Past' \subseteq Past
      /\ Uncounted' \subseteq Uncounted /\ Unlogged \subseteq Unlogged'
  BY <1>1, MoverCounts DEF PastLimit, ToCount
<1>3. Running \subseteq Submissions /\ Past \subseteq Submissions
  BY DEF Running, Past
<1>4. /\ Cardinality(Running') <= Cardinality(Running \cup {s})
      /\ Cardinality(Past') <= Cardinality(Past)
      /\ Cardinality(Running) \in Nat /\ Cardinality(Running') \in Nat
      /\ Cardinality(Running \cup {s}) \in Nat
      /\ Cardinality(Past) \in Nat /\ Cardinality(Past') \in Nat
  BY <1>2, <1>3, FewerSubmissions
<1>5. Cardinality(Running \cup {s}) <= Cardinality(Running) + 1
  BY <1>3, OneSubmissionMore
<1>6. AttemptsUsed' = AttemptsUsed /\ AttemptsUsed \in Int /\ Cardinality(Running) < Concurrency
  BY DEF Submit, AttemptsUsed, TInv, TypeOK
<1>7. LimitInv'
  BY <1>4, <1>5, <1>6, ConcurrencyAssumption, MaxAttemptsAssumption DEF LimitInv
<1>8. QED
  BY <1>2, <1>7, LogKept DEF Submit

(* Whoever passes the limit is one of the running, and found room for one.  *)
LEMMA EnforceCounts ==
    ASSUME TInv, LimitInv, LogInv, TInv', NEW s \in Submissions, EnforceAttemptLimit(s)
    PROVE  LimitInv' /\ LogInv'
<1>1. PICK step \in {"refused", "upload"} :
         Go(s, step) /\ (step = "upload" => ~LimitReached)
  BY DEF EnforceAttemptLimit
<1>2. /\ sub'[s].step = step /\ sub'[s].unlogged = sub[s].unlogged
      /\ \A o \in Submissions \ {s} : sub'[o] = sub[o]
  BY <1>1, GoShape DEF TInv, Steps, UnderWay
<1>3. /\ Running' \subseteq Running
      /\ Uncounted' \subseteq Uncounted /\ Unlogged \subseteq Unlogged'
      /\ step = "refused" => Past' \subseteq Past
  BY <1>1, <1>2, MoverCounts DEF PastLimit, ToCount, UnderWay, EnforceAttemptLimit
<1>4. AttemptsUsed' = AttemptsUsed /\ AttemptsUsed \in Int
  BY DEF EnforceAttemptLimit, AttemptsUsed, TInv, TypeOK
<1>5. LogInv'
  BY <1>3, LogKept DEF EnforceAttemptLimit
<1>6. CASE step = "refused"
  BY <1>3, <1>4, <1>5, <1>6, LimitKept
<1>7. CASE step = "upload"
  <2>1. Past' \subseteq Running' /\ Running' \subseteq Submissions /\ Running \subseteq Submissions
    BY DEF Past, PastLimit, Running, UnderWay
  <2>2. /\ Cardinality(Past') <= Cardinality(Running')
        /\ Cardinality(Past') \in Nat /\ Cardinality(Running') \in Nat
    BY <2>1, FewerSubmissions
  <2>3. Cardinality(Running') <= Cardinality(Running) /\ Cardinality(Running) \in Nat
    BY <1>3, <2>1, FewerSubmissions
  <2>4. AttemptsUsed' <= MaxAttempts - 1
    BY <1>1, <1>4, <1>7, MaxAttemptsAssumption DEF LimitReached
  <2>5. LimitInv'
    BY <1>4, <2>2, <2>3, <2>4, ConcurrencyAssumption, MaxAttemptsAssumption DEF LimitInv
  <2>6. QED
    BY <1>5, <2>5
<1>8. QED
  BY <1>6, <1>7

(* With its row a submission is no longer on its way to one; when the row   *)
(* is lost, the submission is one of the Unlogged instead.                  *)
LEMMA RecordCounts ==
    ASSUME TInv, LimitInv, LogInv, TInv', NEW s \in Submissions, RecordAttempt(s)
    PROVE  LimitInv' /\ LogInv'
<1>1. /\ sub'[s].step = IF sub[s].verdict = "unavailable" THEN "broken" ELSE "cleanup"
      /\ sub'[s].verdict = sub[s].verdict /\ ~sub[s].unlogged
      /\ \A o \in Submissions \ {s} : sub'[o] = sub[o]
      /\ \/ Len(log') = Len(log) + 1 /\ ~sub'[s].unlogged
         \/ Len(log') = Len(log) /\ sub'[s].unlogged
  BY RecordShape
<1>2. sub[s].step = "record" /\ UNCHANGED <<tally, aged>>
  BY DEF RecordAttempt
<1>3. /\ Running' \subseteq Running /\ Past' \subseteq Past \ {s} /\ s \in Past
      /\ Uncounted' \subseteq Uncounted \cup {s} /\ Unlogged \subseteq Unlogged'
  <2>1. sub[s].step \in UnderWay /\ PastLimit(sub[s]) /\ ~PastLimit(sub'[s])
    BY <1>1, <1>2 DEF UnderWay, PastLimit
  <2>2. QED
    BY <1>1, <2>1, MoverCounts DEF Past
<1>4. /\ Running \subseteq Submissions /\ Past \subseteq Submissions
      /\ Uncounted \subseteq Submissions /\ Unlogged' \subseteq Submissions
  BY DEF Running, Past, Uncounted, Unlogged
<1>5. /\ tally \in Nat /\ Len(log) \in Nat /\ Len(log') \in Nat
      /\ AttemptsUsed \in Int /\ AttemptsUsed' \in Int /\ AttemptsUsed' <= AttemptsUsed + 1
  BY <1>1, <1>2 DEF TInv, TypeOK, AttemptsUsed
<1>6. LimitInv'
  <2>1. /\ Cardinality(Running') <= Cardinality(Running)
        /\ Cardinality(Running) \in Nat /\ Cardinality(Running') \in Nat
    BY <1>3, <1>4, FewerSubmissions
  <2>2. /\ Cardinality(Past) \in Nat /\ Cardinality(Past \ {s}) = Cardinality(Past) - 1
    BY <1>3, <1>4, OneSubmissionLess
  <2>3. Cardinality(Past') <= Cardinality(Past \ {s}) /\ Cardinality(Past') \in Nat
    <3>1. Past \ {s} \subseteq Submissions
      BY <1>4
    <3>2. QED
      BY <1>3, <3>1, FewerSubmissions
  <2>4. QED
    BY <1>5, <2>1, <2>2, <2>3, ConcurrencyAssumption, MaxAttemptsAssumption DEF LimitInv
<1>7. LogInv'
  <2>1. /\ Cardinality(Uncounted) \in Nat /\ Cardinality(Uncounted \cup {s}) \in Nat
        /\ Cardinality(Uncounted \cup {s}) <= Cardinality(Uncounted) + 1
    BY <1>4, OneSubmissionMore
  <2>2. Cardinality(Uncounted') <= Cardinality(Uncounted \cup {s}) /\ Cardinality(Uncounted') \in Nat
    <3>1. Uncounted \cup {s} \subseteq Submissions
      BY <1>4
    <3>2. QED
      BY <1>3, <3>1, FewerSubmissions
  <2>3. /\ Cardinality(Unlogged) \in Nat /\ Cardinality(Unlogged') \in Nat
        /\ Cardinality(Unlogged) <= Cardinality(Unlogged')
    BY <1>3, <1>4, FewerSubmissions
  <2>4. sub'[s].unlogged => Cardinality(Unlogged) + 1 <= Cardinality(Unlogged')
    <3> SUFFICES ASSUME sub'[s].unlogged PROVE Cardinality(Unlogged) + 1 <= Cardinality(Unlogged')
      OBVIOUS
    <3>1. s \in Unlogged' /\ Unlogged \subseteq Unlogged' \ {s}
      BY <1>1, <1>3 DEF Unlogged
    <3>2. Cardinality(Unlogged' \ {s}) = Cardinality(Unlogged') - 1
      BY <1>4, <3>1, OneSubmissionLess
    <3>3. Unlogged' \ {s} \subseteq Submissions
      BY <1>4
    <3>4. Cardinality(Unlogged) <= Cardinality(Unlogged' \ {s})
      BY <3>1, <3>3, FewerSubmissions
    <3>5. QED
      BY <2>3, <3>2, <3>4
  <2>5. QED
    BY <1>1, <1>2, <1>5, <2>1, <2>2, <2>3, <2>4 DEF LogInv
<1>8. QED
  BY <1>6, <1>7

(* Counting a submission takes it from the uncounted.                       *)
LEMMA MarkCounts ==
    ASSUME TInv, LimitInv, LogInv, TInv', NEW s \in Submissions, Mark(s)
    PROVE  LimitInv' /\ LogInv'
<1>1. PICK step \in {"upgrade", "respond"} : Go(s, step)
  BY DEF Mark
<1>2. /\ sub[s].step = "mark" /\ UNCHANGED <<log, aged>> /\ tally' = tally + 1
  BY DEF Mark
<1>3. /\ sub'[s].step = step /\ sub'[s].unlogged = sub[s].unlogged
      /\ \A o \in Submissions \ {s} : sub'[o] = sub[o]
  BY <1>1, GoShape DEF TInv, Steps, UnderWay
<1>4. /\ Running' \subseteq Running /\ Past' \subseteq Past
      /\ Uncounted' \subseteq Uncounted \ {s} /\ s \in Uncounted
      /\ Unlogged \subseteq Unlogged'
  <2>1. /\ sub[s].step \in UnderWay /\ ToCount(sub[s])
        /\ ~ToCount(sub'[s]) /\ ~PastLimit(sub'[s])
    BY <1>2, <1>3 DEF UnderWay, PastLimit, ToCount
  <2>2. QED
    BY <1>3, <2>1, MoverCounts DEF Uncounted
<1>5. LimitInv'
  <2>1. AttemptsUsed' <= AttemptsUsed
    BY <1>2 DEF AttemptsUsed, TInv, TypeOK
  <2>2. QED
    BY <1>4, <2>1, LimitKept
<1>6. LogInv'
  <2>1. Uncounted \subseteq Submissions /\ Unlogged' \subseteq Submissions /\ Uncounted \ {s} \subseteq Submissions
    BY DEF Uncounted, Unlogged
  <2>2. Cardinality(Uncounted) \in Nat /\ Cardinality(Uncounted \ {s}) = Cardinality(Uncounted) - 1
    BY <1>4, <2>1, OneSubmissionLess
  <2>3. Cardinality(Uncounted') <= Cardinality(Uncounted \ {s}) /\ Cardinality(Uncounted') \in Nat
    BY <1>4, <2>1, FewerSubmissions
  <2>4. /\ Cardinality(Unlogged) \in Nat /\ Cardinality(Unlogged') \in Nat
        /\ Cardinality(Unlogged) <= Cardinality(Unlogged')
    BY <1>4, <2>1, FewerSubmissions
  <2>5. tally \in Nat /\ Len(log) \in Nat
    BY DEF TInv, TypeOK
  <2>6. QED
    BY <1>2, <2>2, <2>3, <2>4, <2>5 DEF LogInv
<1>7. QED
  BY <1>5, <1>6

(* A restart only takes submissions out of the counted sets.                *)
LEMMA RestartCounts ==
    ASSUME TInv, LimitInv, LogInv, TInv', Restart
    PROVE  LimitInv' /\ LogInv'
<1>1. /\ UNCHANGED <<tally, log, aged>>
      /\ \A s \in Submissions :
            /\ sub'[s] = sub[s] \/ sub'[s].step = "broken"
            /\ sub'[s].unlogged = sub[s].unlogged
  <2>1. \A s \in Submissions : sub'[s] = sub[s] \/ sub'[s].step = "broken"
    BY DEF Restart, TInv, TypeOK, SubRecords
  <2>2. QED
    BY <2>1, RestartShape
<1>2. /\ Running' \subseteq Running /\ Past' \subseteq Past
      /\ Uncounted' \subseteq Uncounted /\ Unlogged \subseteq Unlogged'
  BY <1>1 DEF Running, Past, Uncounted, Unlogged, PastLimit, ToCount, UnderWay
<1>3. AttemptsUsed' <= AttemptsUsed
  BY <1>1 DEF AttemptsUsed, TInv, TypeOK
<1>4. QED
  BY <1>1, <1>2, <1>3, LimitKept, LogKept

(* Time only frees room in the window. *)
LEMMA AgesCounts ==
    ASSUME TInv, LimitInv, LogInv, TInv', AttemptAges
    PROVE  LimitInv' /\ LogInv'
<1>1. /\ Running' \subseteq Running /\ Past' \subseteq Past
      /\ Uncounted' \subseteq Uncounted /\ Unlogged \subseteq Unlogged'
  BY DEF AttemptAges, Running, Past, Uncounted, Unlogged
<1>2. AttemptsUsed' <= AttemptsUsed
  BY DEF AttemptAges, AttemptsUsed, TInv, TypeOK
<1>3. QED
  BY <1>1, <1>2, LimitKept, LogKept DEF AttemptAges

LEMMA CountsInit == Init => LimitInv /\ LogInv
<1> SUFFICES ASSUME Init PROVE LimitInv /\ LogInv
  OBVIOUS
<1>1. Running = {} /\ Past = {} /\ Uncounted = {} /\ Unlogged = {}
  BY DEF Init, New, Running, Past, Uncounted, Unlogged, PastLimit, ToCount, UnderWay
<1>2. Cardinality({}) = 0
  BY FS_EmptySet
<1>3. AttemptsUsed = 0 /\ tally = 0 /\ Len(log) = 0
  BY DEF Init, AttemptsUsed
<1>4. QED
  BY <1>1, <1>2, <1>3, ConcurrencyAssumption, MaxAttemptsAssumption DEF LimitInv, LogInv

LEMMA CountsStep ==
    ASSUME TInv, LimitInv, LogInv, [Next]_vars
    PROVE  LimitInv' /\ LogInv'
<1>1. TInv'
  BY TInvStep
<1>2. ASSUME NEW s \in Submissions, Serve(s)
      PROVE  LimitInv' /\ LogInv'
  BY <1>1, <1>2, EnforceCounts, QuietCounts, RecordCounts, MarkCounts DEF Serve
<1>3. ASSUME NEW s \in Submissions, Fail(s)
      PROVE  LimitInv' /\ LogInv'
  BY <1>1, <1>3, QuietCounts
<1>4. CASE UNCHANGED vars
  BY <1>4 DEF vars, LimitInv, LogInv, Running, Past, Uncounted, Unlogged, AttemptsUsed
<1>5. QED
  BY <1>1, <1>2, <1>3, <1>4, SubmitCounts, RestartCounts, AgesCounts DEF Next

LEMMA CountsHold == Spec => [](LimitInv /\ LogInv)
<1>1. Init => LimitInv /\ LogInv
  BY CountsInit
<1>2. TInv /\ LimitInv /\ LogInv /\ [Next]_vars => LimitInv' /\ LogInv'
  BY CountsStep
<1>3. QED
  BY <1>1, <1>2, TInvHolds, PTL DEF Spec

(* Every overlap of submissions lets at most one attempt more into the      *)
(* window, whatever fails and whenever the process restarts.                *)
THEOREM OverlapBoundsAttempts == Spec => []AttemptsBoundedByOverlap
<1>1. TInv /\ LimitInv => AttemptsBoundedByOverlap
  <2> SUFFICES ASSUME TInv, LimitInv PROVE AttemptsBoundedByOverlap
    OBVIOUS
  <2>1. Past \subseteq Submissions
    BY DEF Past
  <2>2. Cardinality(Past) \in Nat
    BY <2>1, FewerSubmissions
  <2>3. AttemptsUsed \in Int
    BY DEF TInv, TypeOK, AttemptsUsed
  <2>4. QED
    BY <2>2, <2>3, ConcurrencyAssumption, MaxAttemptsAssumption
       DEF LimitInv, AttemptsBoundedByOverlap
<1>2. QED
  BY <1>1, TInvHolds, CountsHold, PTL

(* An attempt counted on the account is in the audit log, unless the log    *)
(* itself failed.                                                           *)
THEOREM CountedHasRow == Spec => []CountedIsLogged
<1>1. TInv /\ LogInv => CountedIsLogged
  <2> SUFFICES ASSUME TInv, LogInv PROVE CountedIsLogged
    OBVIOUS
  <2>1. Uncounted \subseteq Submissions /\ Unlogged \subseteq Submissions
    BY DEF Uncounted, Unlogged
  <2>2. Cardinality(Uncounted) \in Nat /\ Cardinality(Unlogged) \in Nat
    BY <2>1, FewerSubmissions
  <2>3. tally \in Nat /\ Len(log) \in Nat
    BY DEF TInv, TypeOK
  <2>4. tally <= Len(log) + Cardinality(Unlogged)
    BY <2>2, <2>3 DEF LogInv
  <2>5. QED
    BY <2>4 DEF CountedIsLogged, Unlogged
<1>2. QED
  BY <1>1, TInvHolds, CountsHold, PTL

=============================================================================
