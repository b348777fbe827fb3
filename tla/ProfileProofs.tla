--------------------------- MODULE ProfileProofs ---------------------------
(***************************************************************************)
(* Proofs about Profile, for any set of keys, requests and lists a client  *)
(* may submit: no upload touches the object of another one that is still   *)
(* to be saved, so a missing image always has a culprit; the bucket holds  *)
(* no more objects than faults explain; and a preference update keeps what *)
(* it was not given unless it was overtaken.                               *)
(***************************************************************************)
EXTENDS Profile, FiniteSetTheorems, FunctionTheorems, TLAPS

(* What an upload captured was given out before. *)
Captured ==
    \A r \in Requests :
        Uploading(r) => req[r].key \in used /\ req[r].old \in used \cup {NoKey}

(* An upload's key is its own until it is saved. *)
KeysApart ==
    \A r \in Requests :
        Uploading(r) =>
            /\ req[r].key # imageUrl
            /\ \A o \in Requests :
                Uploading(o) => req[o].old # req[r].key /\ (o # r => req[o].key # req[r].key)

(* The object is there when the row is about to name it. *)
StoredFirst == \A r \in Requests : req[r].step = "save" => req[r].key \in bucket

TInv == TypeOK /\ Captured
ImageInv == KeysApart /\ StoredFirst /\ MissingImageHasCulprit

-----------------------------------------------------------------------------
(* The shape of requests *)

(* A request in the middle of an upload is an upload's record. *)
LEMMA UploadShape ==
    ASSUME TypeOK, NEW r \in Requests, Uploading(r)
    PROVE  req[r] \in UploadRecords
BY DEF TypeOK, Uploading, UpsertRecords, Idle

(* A request before its upsert is an update's record. *)
LEMMA UpsertShape ==
    ASSUME TypeOK, NEW r \in Requests, req[r].step = "upsert"
    PROVE  req[r] \in UpsertRecords
BY DEF TypeOK, UploadRecords, Idle

(* An idle request is in the middle of nothing. *)
LEMMA IdleShape ==
    /\ Idle.step = "idle"
    /\ \A r \in Requests : req[r] = Idle => ~Uploading(r) /\ ~Deleted(r) /\ req[r].step # "upsert"
BY DEF Idle, Uploading, Deleted

(* An upload that goes a step on keeps what it captured. *)
LEMMA GoShape ==
    ASSUME TypeOK, NEW r \in Requests, Uploading(r),
           NEW step \in {"delete", "put", "save"}, Go(r, step)
    PROVE  /\ req'[r] \in UploadRecords
           /\ req'[r].step = step /\ req'[r].old = req[r].old /\ req'[r].key = req[r].key
           /\ req'[r].file = req[r].file
           /\ \A o \in Requests \ {r} : req'[o] = req[o]
           /\ req' \in [Requests -> UploadRecords \cup UpsertRecords \cup {Idle}]
<1>1. req[r] \in UploadRecords
  BY UploadShape
<1>2. req' = [req EXCEPT ![r] = [req[r] EXCEPT !.step = step]]
  BY DEF Go
<1>3. /\ [req[r] EXCEPT !.step = step] \in UploadRecords
      /\ [req[r] EXCEPT !.step = step].step = step
      /\ [req[r] EXCEPT !.step = step].old = req[r].old
      /\ [req[r] EXCEPT !.step = step].key = req[r].key
      /\ [req[r] EXCEPT !.step = step].file = req[r].file
  BY <1>1 DEF UploadRecords
<1>4. req \in [Requests -> UploadRecords \cup UpsertRecords \cup {Idle}]
  BY DEF TypeOK
<1>5. QED
  BY <1>2, <1>3, <1>4

(* A request that ends is idle, and the others stay as they are. *)
LEMMA FinishShape ==
    ASSUME TypeOK, NEW r \in Requests, Finish(r)
    PROVE  /\ req'[r] = Idle
           /\ \A o \in Requests \ {r} : req'[o] = req[o]
           /\ req' \in [Requests -> UploadRecords \cup UpsertRecords \cup {Idle}]
BY DEF TypeOK, Finish

-----------------------------------------------------------------------------
(* Type correctness *)

(* What others captured stays captured when the keys given out only grow. *)
LEMMA CapturedKept ==
    ASSUME Captured, NEW r \in Requests,
           \A o \in Requests \ {r} : req'[o] = req[o],
           used \subseteq used',
           Uploading(r)' => req'[r].key \in used' /\ req'[r].old \in used' \cup {NoKey}
    PROVE  Captured'
BY DEF Captured, Uploading

(* The lists of the account are normal, stored or not. *)
LEMMA FormatType ==
    ASSUME TypeOK
    PROVE  FormatUserPreferences \in [Fields -> NormalLists]
<1>1. {"NO_VERIFICATION"} \in NormalLists
  BY DEF NormalLists, Exclusive, Gates
<1>2. CASE prefs = NoRow
  BY <1>1, <1>2 DEF FormatUserPreferences
<1>3. CASE prefs # NoRow
  BY <1>3 DEF FormatUserPreferences, TypeOK
<1>4. QED
  BY <1>2, <1>3

(* A merge that passes the check makes normal lists. *)
LEMMA MergeType ==
    ASSUME TypeOK, NEW dto \in Dtos, \A f \in Fields : Exclusive(Merge(dto)[f])
    PROVE  Merge(dto) \in [Fields -> NormalLists] /\ DOMAIN dto \subseteq Fields
<1>1. PICK given \in SUBSET Fields : dto \in [given -> Inputs]
  BY DEF Dtos
<1>2. DOMAIN dto = given
  BY <1>1
<1>3. ASSUME NEW f \in Fields
      PROVE  Merge(dto)[f] \in NormalLists
  <2>1. CASE f \in DOMAIN dto
    <3>1. dto[f] \in SUBSET Gates
      BY <1>1, <1>2, <2>1, InputsAssumption
    <3>2. Merge(dto)[f] = Normalise(dto[f])
      BY <2>1 DEF Merge
    <3>3. Normalise(dto[f]) \in SUBSET Gates /\ Normalise(dto[f]) # {}
      BY <3>1 DEF Normalise, Gates
    <3>4. QED
      BY <3>2, <3>3 DEF NormalLists
  <2>2. CASE f \notin DOMAIN dto
    BY <2>2, FormatType DEF Merge
  <2>3. QED
    BY <2>1, <2>2
<1>4. QED
  BY <1>1, <1>2, <1>3 DEF Merge

LEMMA TypeInit == Init => TInv
<1>1. ASSUME Init
      PROVE  TypeOK
  BY <1>1 DEF Init, TypeOK
<1>2. ASSUME Init
      PROVE  Captured
  BY <1>2, IdleShape DEF Init, Captured
<1>3. QED
  BY <1>1, <1>2 DEF TInv

(* A new upload captures the current key and a fresh one. *)
LEMMA TypeUpload ==
    ASSUME TInv, NEW r \in Requests, NEW k \in Keys, NEW file \in BOOLEAN,
           UploadProfileImage(r, k, file)
    PROVE  TInv'
<1> DEFINE new == [step |-> IF imageUrl = NoKey THEN "put" ELSE "delete",
                   old |-> imageUrl, key |-> k, file |-> file]
<1>1. new \in UploadRecords
  BY DEF TInv, TypeOK, UploadRecords
<1>2. req'[r] = new /\ \A o \in Requests \ {r} : req'[o] = req[o]
  BY DEF UploadProfileImage, TInv, TypeOK
<1>3. req' \in [Requests -> UploadRecords \cup UpsertRecords \cup {Idle}]
  BY <1>1 DEF UploadProfileImage, TInv, TypeOK
<1>4. TypeOK'
  BY <1>3 DEF UploadProfileImage, TInv, TypeOK
<1>5. Captured'
  <2>1. req'[r].key \in used' /\ req'[r].old \in used' \cup {NoKey}
    BY <1>2 DEF UploadProfileImage, TInv, TypeOK
  <2>2. used \subseteq used'
    BY DEF UploadProfileImage
  <2>3. QED
    BY <1>2, <2>1, <2>2, CapturedKept DEF TInv
<1>6. QED
  BY <1>4, <1>5 DEF TInv

(* An upload that goes a step on. *)
LEMMA TypeGo ==
    ASSUME TInv, NEW r \in Requests, Uploading(r),
           NEW step \in {"delete", "put", "save"}, Go(r, step),
           UNCHANGED <<imageUrl, prefs, used, broken>>,
           bucket' \subseteq bucket \cup {req[r].key}, faults' \in Nat
    PROVE  TInv'
<1>1. req[r].key \in used /\ req[r].old \in used \cup {NoKey}
  BY DEF TInv, Captured
<1>2. TypeOK'
  BY <1>1, GoShape DEF TInv, TypeOK
<1>3. Captured'
  BY <1>1, GoShape, CapturedKept DEF TInv
<1>4. QED
  BY <1>2, <1>3 DEF TInv

(* A request that ends, well or not. *)
LEMMA TypeFinish ==
    ASSUME TInv, NEW r \in Requests, Finish(r), UNCHANGED used,
           imageUrl' \in used \cup {NoKey}, bucket' \subseteq used, broken' \subseteq used,
           prefs' \in [Fields -> NormalLists] \cup {NoRow}, faults' \in Nat
    PROVE  TInv'
<1>1. TypeOK'
  BY FinishShape DEF TInv, TypeOK
<1>2. ~Uploading(r)'
  BY FinishShape DEF Uploading, Idle, TInv
<1>3. Captured'
  BY <1>2, FinishShape, CapturedKept DEF TInv
<1>4. QED
  BY <1>1, <1>3 DEF TInv

(* An upload that breaks off blames only the key it captured. *)
LEMMA BreakOffType ==
    ASSUME TInv, NEW r \in Requests, BreakOff(r)
    PROVE  Finish(r) /\ broken' \subseteq used
<1>1. Deleted(r) => Uploading(r)
  BY DEF Deleted, Uploading
<1>2. QED
  BY <1>1 DEF BreakOff, TInv, TypeOK, Captured

(* An update begins. *)
LEMMA TypeUpdate ==
    ASSUME TInv, NEW r \in Requests, NEW dto \in Dtos, UpdatePreferences(r, dto)
    PROVE  TInv'
<1> DEFINE new == [step |-> "upsert", given |-> DOMAIN dto, lists |-> Merge(dto),
                   overtaken |-> FALSE]
<1>1. new \in UpsertRecords
  BY MergeType DEF UpdatePreferences, TInv, UpsertRecords
<1>2. req'[r] = new /\ \A o \in Requests \ {r} : req'[o] = req[o]
  BY DEF UpdatePreferences, TInv, TypeOK
<1>3. req' \in [Requests -> UploadRecords \cup UpsertRecords \cup {Idle}]
  BY <1>1 DEF UpdatePreferences, TInv, TypeOK
<1>4. TypeOK'
  BY <1>3 DEF UpdatePreferences, TInv, TypeOK, imageVars
<1>5. ~Uploading(r)'
  BY <1>2 DEF Uploading
<1>6. Captured'
  BY <1>2, <1>5, CapturedKept DEF TInv, UpdatePreferences, imageVars
<1>7. QED
  BY <1>4, <1>6 DEF TInv

(* What an upsert does to the requests. *)
LEMMA UpsertShapes ==
    ASSUME TypeOK, NEW r \in Requests, Upsert(r)
    PROVE  /\ req' \in [Requests -> UploadRecords \cup UpsertRecords \cup {Idle}]
           /\ req'[r] = Idle /\ req'[r].step = "idle"
           /\ \A o \in Requests \ {r} :
                IF req[o].step = "upsert"
                THEN req'[o].step = "upsert" /\ req'[o].overtaken = TRUE
                ELSE req'[o] = req[o]
<1>1. ASSUME NEW o \in Requests, req[o].step = "upsert"
      PROVE  /\ [req[o] EXCEPT !.overtaken = TRUE] \in UpsertRecords
             /\ [req[o] EXCEPT !.overtaken = TRUE].step = "upsert"
             /\ [req[o] EXCEPT !.overtaken = TRUE].overtaken = TRUE
  <2>1. req[o] \in UpsertRecords
    BY <1>1, UpsertShape
  <2>2. QED
    BY <1>1, <2>1 DEF UpsertRecords
<1>2. req' = [o \in Requests |->
                 IF o = r THEN Idle
                 ELSE IF req[o].step = "upsert" THEN [req[o] EXCEPT !.overtaken = TRUE] ELSE req[o]]
  BY DEF Upsert
<1>3. req'[r] = Idle /\ req'[r].step = "idle"
  BY <1>2, IdleShape
<1>4. QED
  BY <1>1, <1>2, <1>3 DEF TypeOK

(* Both lists are written. *)
LEMMA TypeUpsert ==
    ASSUME TInv, NEW r \in Requests, Upsert(r)
    PROVE  TInv'
<1>1. req[r].lists \in [Fields -> NormalLists]
  BY UpsertShape DEF Upsert, TInv, UpsertRecords
<1>2. TypeOK'
  BY <1>1, UpsertShapes DEF TInv, TypeOK, Upsert, imageVars
<1>3. Captured'
  <2>1. ASSUME NEW o \in Requests, Uploading(o)'
        PROVE  Uploading(o) /\ req'[o] = req[o]
    <3>1. o # r /\ req'[o].step # "upsert"
      BY <2>1, UpsertShapes DEF Uploading, TInv
    <3>2. req'[o] = req[o]
      BY <3>1, UpsertShapes DEF TInv
    <3>3. QED
      BY <2>1, <3>2 DEF Uploading
  <2>2. used' = used
    BY DEF Upsert, imageVars
  <2>3. QED
    BY <2>1, <2>2 DEF Captured, TInv
<1>4. QED
  BY <1>2, <1>3 DEF TInv

LEMMA TypeStep ==
    ASSUME TInv, [Next]_vars
    PROVE  TInv'
<1>1. CASE UNCHANGED vars
  BY <1>1 DEF vars, TInv, TypeOK, Captured, Uploading
<1>2. CASE Next
  <2> PICK r \in Requests : Serve(r) \/ Fail(r) \/ Call(r)
    BY <1>2 DEF Next
  <2>1. ASSUME Uploading(r)
        PROVE  req[r].key \in used
    BY <2>1 DEF TInv, Captured
  <2>2. CASE DeleteOld(r)
    <3>1. Uploading(r) /\ Go(r, "put")
      BY <2>2 DEF DeleteOld, Uploading
    <3>2. bucket' \subseteq bucket /\ faults' \in Nat
      BY <2>2 DEF DeleteOld, DeleteObject, TInv, TypeOK
    <3>3. QED
      BY <2>2, <3>1, <3>2, TypeGo DEF DeleteOld
  <2>3. CASE PutFails(r)
    <3>1. Finish(r) /\ broken' \subseteq used
      BY <2>3, BreakOffType DEF PutFails
    <3>2. req[r].key \in used
      BY <2>1, <2>3 DEF PutFails, Uploading
    <3>3. bucket' \subseteq used /\ faults' \in Nat
      BY <2>3, <3>2 DEF PutFails, TInv, TypeOK
    <3>4. QED
      BY <2>3, <3>1, <3>3, TypeFinish DEF PutFails, TInv, TypeOK
  <2>4. CASE PutObject(r)
    <3>1. Uploading(r) /\ Go(r, "save")
      BY <2>4 DEF PutObject, Uploading
    <3>2. QED
      BY <2>4, <3>1, TypeGo DEF PutObject, TInv, TypeOK
  <2>5. CASE SaveKey(r)
    <3>1. req[r].key \in used
      BY <2>1, <2>5 DEF SaveKey, Uploading
    <3>2. QED
      BY <2>5, <3>1, TypeFinish DEF SaveKey, TInv, TypeOK
  <2>6. CASE Upsert(r)
    BY <2>6, TypeUpsert
  <2>7. CASE Fail(r)
    <3>1. Finish(r) /\ broken' \subseteq used
      BY <2>7, BreakOffType DEF Fail
    <3>2. faults' \in Nat
      BY <2>7 DEF Fail, TInv, TypeOK
    <3>3. QED
      BY <2>7, <3>1, <3>2, TypeFinish DEF Fail, TInv, TypeOK
  <2>8. CASE Call(r)
    BY <2>8, TypeUpload, TypeUpdate DEF Call
  <2>9. QED
    BY <2>2, <2>3, <2>4, <2>5, <2>6, <2>7, <2>8 DEF Serve
<1>3. QED
  BY <1>1, <1>2

(* Row, bucket, preferences and requests keep their shape in every step of *)
(* uploadProfileImage and updatePreferences; stored lists are normal.      *)
THEOREM TypeCorrect == Spec => []TypeOK
<1>1. TInv => TypeOK
  BY DEF TInv
<1>2. QED
  BY <1>1, TypeInit, TypeStep, PTL DEF Spec

(* The type invariant with what it rests on, for the theorems below. *)
LEMMA TInvHolds == Spec => []TInv
BY TypeInit, TypeStep, PTL DEF Spec

-----------------------------------------------------------------------------
(* The row and the bucket *)

LEMMA ImageInit == Init => ImageInv
<1>1. ASSUME Init
      PROVE  \A r \in Requests : ~Uploading(r) /\ req[r].step # "save"
  BY <1>1 DEF Init, Idle, Uploading
<1>2. QED
  BY <1>1 DEF ImageInv, KeysApart, StoredFirst, MissingImageHasCulprit, Init

(* Keys stay apart when no upload captures anything and the row either     *)
(* keeps its key or takes that of an upload that ends.                     *)
LEMMA ApartKept ==
    ASSUME KeysApart, NEW r \in Requests,
           \A o \in Requests \ {r} : Uploading(o)' => Uploading(o) /\ req'[o] = req[o],
           \/ ~Uploading(r)'
           \/ Uploading(r) /\ req'[r].key = req[r].key /\ req'[r].old = req[r].old,
           \/ imageUrl' = imageUrl
           \/ Uploading(r) /\ ~Uploading(r)' /\ imageUrl' = req[r].key
    PROVE  KeysApart'
<1>1. ASSUME NEW o \in Requests, Uploading(o)'
      PROVE  Uploading(o) /\ req'[o].key = req[o].key /\ req'[o].old = req[o].old
  BY <1>1
<1>2. ASSUME NEW o \in Requests, Uploading(o)'
      PROVE  req'[o].key # imageUrl'
  BY <1>1, <1>2 DEF KeysApart
<1>3. ASSUME NEW o \in Requests, Uploading(o)', NEW p \in Requests, Uploading(p)'
      PROVE  req'[p].old # req'[o].key /\ (p # o => req'[p].key # req'[o].key)
  BY <1>1, <1>3 DEF KeysApart
<1>4. QED
  BY <1>2, <1>3 DEF KeysApart

(* A new upload: its key is fresh, and what it captured was saved before. *)
LEMMA ImageUpload ==
    ASSUME TInv, ImageInv, NEW r \in Requests, NEW k \in Keys, NEW file \in BOOLEAN,
           UploadProfileImage(r, k, file)
    PROVE  ImageInv'
<1>1. /\ req'[r].key = k /\ req'[r].old = imageUrl /\ req'[r].step \in {"put", "delete"}
      /\ \A o \in Requests \ {r} : req'[o] = req[o]
  BY DEF UploadProfileImage, TInv, TypeOK
<1>2. k # imageUrl /\ imageUrl' = imageUrl /\ bucket' = bucket /\ broken' = broken
  BY KeysAssumption DEF UploadProfileImage, TInv, TypeOK
<1>3. ASSUME NEW o \in Requests \ {r}, Uploading(o)
      PROVE  /\ k # req[o].key /\ k # req[o].old /\ imageUrl # req[o].key
  BY <1>3, KeysAssumption DEF UploadProfileImage, TInv, Captured, ImageInv, KeysApart
<1>4. KeysApart'
  <2>1. \A o \in Requests \ {r} : Uploading(o)' => Uploading(o)
    BY <1>1 DEF Uploading
  <2>2. QED
    BY <1>1, <1>2, <1>3, <2>1 DEF KeysApart, ImageInv
<1>5. StoredFirst'
  BY <1>1, <1>2 DEF StoredFirst, ImageInv
<1>6. MissingImageHasCulprit'
  <2>1. ~Deleted(r)
    BY IdleShape DEF UploadProfileImage
  <2>2. QED
    BY <1>1, <1>2, <2>1 DEF MissingImageHasCulprit, ImageInv, Deleted
<1>7. QED
  BY <1>4, <1>5, <1>6 DEF ImageInv

(* A deletion takes the old object only, and the upload is its culprit. *)
LEMMA ImageDelete ==
    ASSUME TInv, ImageInv, NEW r \in Requests, DeleteOld(r)
    PROVE  ImageInv'
<1>1. Uploading(r) /\ Go(r, "put") /\ ~Deleted(r)
  BY DEF DeleteOld, Uploading, Deleted
<1>2. /\ req'[r].step = "put" /\ req'[r].old = req[r].old /\ req'[r].key = req[r].key
      /\ \A o \in Requests \ {r} : req'[o] = req[o]
  BY <1>1, GoShape DEF TInv
<1>3. /\ bucket' \subseteq bucket /\ bucket \ {req[r].old} \subseteq bucket'
      /\ imageUrl' = imageUrl /\ broken' = broken
  BY DEF DeleteOld, DeleteObject
<1>4. KeysApart'
  BY <1>1, <1>2, <1>3, ApartKept DEF ImageInv, Uploading
<1>5. StoredFirst'
  <2>1. ASSUME NEW o \in Requests, req'[o].step = "save"
        PROVE  req'[o].key \in bucket'
    <3>1. o # r /\ req'[o] = req[o]
      BY <1>2, <2>1
    <3>2. Uploading(o) /\ req[o].key \in bucket
      BY <2>1, <3>1 DEF Uploading, ImageInv, StoredFirst
    <3>3. req[o].key # req[r].old
      BY <1>1, <3>2 DEF ImageInv, KeysApart
    <3>4. QED
      BY <1>3, <3>1, <3>2, <3>3
  <2>2. QED
    BY <2>1 DEF StoredFirst
<1>6. MissingImageHasCulprit'
  <2>1. CASE imageUrl = req[r].old
    BY <1>2, <1>3, <2>1 DEF MissingImageHasCulprit, Deleted
  <2>2. CASE imageUrl # req[r].old
    BY <1>1, <1>2, <1>3, <2>2 DEF MissingImageHasCulprit, ImageInv, Deleted
  <2>3. QED
    BY <2>1, <2>2
<1>7. QED
  BY <1>4, <1>5, <1>6 DEF ImageInv

(* An upload that breaks off takes the blame for the key it captured. *)
LEMMA ImageBreakOff ==
    ASSUME TInv, ImageInv, NEW r \in Requests, BreakOff(r),
           imageUrl' = imageUrl, bucket \subseteq bucket'
    PROVE  ImageInv'
<1>1. Finish(r)
  BY DEF BreakOff
<1>2. req'[r] = Idle /\ \A o \in Requests \ {r} : req'[o] = req[o]
  BY <1>1, FinishShape DEF TInv
<1>3. ~Uploading(r)' /\ req'[r].step # "save"
  BY <1>2 DEF Uploading, Idle
<1>4. KeysApart'
  BY <1>2, <1>3, ApartKept DEF ImageInv, Uploading
<1>5. StoredFirst'
  BY <1>2, <1>3 DEF StoredFirst, ImageInv
<1>6. MissingImageHasCulprit'
  <2>1. broken \subseteq broken'
    BY DEF BreakOff
  <2>2. CASE Deleted(r) /\ req[r].old = imageUrl
    BY <2>2 DEF BreakOff, MissingImageHasCulprit
  <2>3. CASE ~(Deleted(r) /\ req[r].old = imageUrl)
    BY <1>2, <2>1, <2>3 DEF MissingImageHasCulprit, ImageInv, Deleted
  <2>4. QED
    BY <2>2, <2>3
<1>7. QED
  BY <1>4, <1>5, <1>6 DEF ImageInv

(* The object is stored; the upload stays the culprit it was. *)
LEMMA ImagePut ==
    ASSUME TInv, ImageInv, NEW r \in Requests, PutObject(r)
    PROVE  ImageInv'
<1>1. Uploading(r) /\ Deleted(r) /\ Go(r, "save")
  BY DEF PutObject, Uploading, Deleted
<1>2. /\ req'[r].step = "save" /\ req'[r].old = req[r].old /\ req'[r].key = req[r].key
      /\ \A o \in Requests \ {r} : req'[o] = req[o]
  BY <1>1, GoShape DEF TInv
<1>3. /\ bucket' = bucket \cup {req[r].key} /\ imageUrl' = imageUrl /\ broken' = broken
  BY DEF PutObject
<1>4. KeysApart'
  BY <1>1, <1>2, <1>3, ApartKept DEF ImageInv, Uploading
<1>5. StoredFirst'
  BY <1>2, <1>3 DEF StoredFirst, ImageInv
<1>6. MissingImageHasCulprit'
  BY <1>1, <1>2, <1>3 DEF MissingImageHasCulprit, ImageInv, Deleted
<1>7. QED
  BY <1>4, <1>5, <1>6 DEF ImageInv

(* The row takes a key whose object is there. *)
LEMMA ImageSave ==
    ASSUME TInv, ImageInv, NEW r \in Requests, SaveKey(r)
    PROVE  ImageInv'
<1>1. Uploading(r) /\ Finish(r) /\ imageUrl' = req[r].key /\ bucket' = bucket
  BY DEF SaveKey, Uploading
<1>2. req'[r] = Idle /\ \A o \in Requests \ {r} : req'[o] = req[o]
  BY <1>1, FinishShape DEF TInv
<1>3. ~Uploading(r)' /\ req'[r].step # "save"
  BY <1>2 DEF Uploading, Idle
<1>4. KeysApart'
  BY <1>1, <1>2, <1>3, ApartKept DEF ImageInv, Uploading
<1>5. StoredFirst'
  BY <1>1, <1>2, <1>3 DEF StoredFirst, ImageInv
<1>6. imageUrl' \in bucket'
  BY <1>1 DEF SaveKey, StoredFirst, ImageInv
<1>7. QED
  BY <1>4, <1>5, <1>6 DEF ImageInv, MissingImageHasCulprit

(* The requests that update preferences play no part. *)
LEMMA ImageUntouched ==
    ASSUME ImageInv, UNCHANGED <<imageUrl, bucket, broken>>,
           \A o \in Requests : Uploading(o) \/ Uploading(o)' => req'[o] = req[o]
    PROVE  ImageInv'
<1>1. \A o \in Requests :
        /\ Uploading(o)' <=> Uploading(o)
        /\ Deleted(o)' <=> Deleted(o)
        /\ (req'[o].step = "save") <=> (req[o].step = "save")
        /\ Uploading(o) => req'[o].old = req[o].old /\ req'[o].key = req[o].key
        /\ Deleted(o) => Uploading(o)
        /\ req[o].step = "save" => Uploading(o)
  BY DEF Uploading, Deleted
<1>2. KeysApart'
  BY <1>1 DEF ImageInv, KeysApart
<1>3. StoredFirst'
  BY <1>1 DEF ImageInv, StoredFirst
<1>4. MissingImageHasCulprit'
  BY <1>1 DEF ImageInv, MissingImageHasCulprit
<1>5. QED
  BY <1>2, <1>3, <1>4 DEF ImageInv

LEMMA ImageStep ==
    ASSUME TInv, ImageInv, [Next]_vars
    PROVE  ImageInv'
<1>1. CASE UNCHANGED vars
  BY <1>1, ImageUntouched DEF vars
<1>2. CASE Next
  <2> PICK r \in Requests : Serve(r) \/ Fail(r) \/ Call(r)
    BY <1>2 DEF Next
  <2>1. CASE DeleteOld(r)
    BY <2>1, ImageDelete
  <2>2. CASE PutFails(r)
    <3>1. bucket \subseteq bucket'
      BY <2>2 DEF PutFails
    <3>2. QED
      BY <2>2, <3>1, ImageBreakOff DEF PutFails
  <2>3. CASE PutObject(r)
    BY <2>3, ImagePut
  <2>4. CASE SaveKey(r)
    BY <2>4, ImageSave
  <2>5. CASE Upsert(r)
    <3>1. \A o \in Requests : Uploading(o) \/ Uploading(o)' => req'[o] = req[o]
      BY <2>5, UpsertShapes DEF Uploading, TInv, Idle, Upsert
    <3>2. QED
      BY <2>5, <3>1, ImageUntouched DEF Upsert, imageVars
  <2>6. CASE Fail(r)
    BY <2>6, ImageBreakOff DEF Fail
  <2>7. ASSUME NEW k \in Keys, NEW file \in BOOLEAN, UploadProfileImage(r, k, file)
        PROVE  ImageInv'
    BY <2>7, ImageUpload
  <2>8. ASSUME NEW dto \in Dtos, UpdatePreferences(r, dto)
        PROVE  ImageInv'
    <3>1. /\ ~Uploading(r) /\ req'[r].step = "upsert"
          /\ \A o \in Requests \ {r} : req'[o] = req[o]
      BY <2>8, IdleShape DEF UpdatePreferences, TInv, TypeOK
    <3>2. \A o \in Requests : Uploading(o) \/ Uploading(o)' => req'[o] = req[o]
      BY <3>1 DEF Uploading
    <3>3. QED
      BY <2>8, <3>2, ImageUntouched DEF UpdatePreferences, imageVars
  <2>9. QED
    BY <2>1, <2>2, <2>3, <2>4, <2>5, <2>6, <2>7, <2>8 DEF Serve, Call
<1>3. QED
  BY <1>1, <1>2

(* uploadProfileImage: if the row names an object that is not there, an    *)
(* upload that replaces it is under way, or one that deleted it broke off. *)
THEOREM MissingImagesExplained == Spec => []MissingImageHasCulprit
<1>1. ImageInv => MissingImageHasCulprit
  BY DEF ImageInv
<1>2. QED
  BY <1>1, ImageInit, ImageStep, TInvHolds, PTL DEF Spec

-----------------------------------------------------------------------------
(* The objects in the bucket                                               *)

(* The keys an upload is about to delete. *)
Doomed == {k \in Keys : \E r \in Requests : req[r].step = "delete" /\ req[r].old = k}

(* Objects that are neither the row's image nor about to go. *)
Stray == bucket \ (Doomed \cup {imageUrl})

(* Uploads that may still store their object. *)
Pending == {r \in Requests : req[r].step \in {"delete", "put"}}

(* The row's image is gone or about to go, and one that replaces it is     *)
(* under way: that one may store its object for nothing.                   *)
Replacing ==
    /\ imageUrl \notin bucket \ Doomed
    /\ \E r \in Requests : Uploading(r) /\ req[r].old = imageUrl

(* Each stray object, and each upload that may leave one more, is paid for *)
(* by a fault, but for the upload that replaces the row's image.           *)
StorageInv ==
    /\ IsFiniteSet(Pending)
    /\ Cardinality(Stray) + Cardinality(Pending) <= faults + (IF Replacing THEN 1 ELSE 0)

LEMMA CardFewer ==
    ASSUME NEW S, IsFiniteSet(S), NEW T \in SUBSET S
    PROVE  /\ IsFiniteSet(T) /\ Cardinality(S) \in Nat /\ Cardinality(T) \in Nat
           /\ Cardinality(T) <= Cardinality(S)
BY FS_Subset, FS_CardinalityType

LEMMA CardWithout ==
    ASSUME NEW S, IsFiniteSet(S), NEW x \in S, NEW T \in SUBSET (S \ {x})
    PROVE  /\ IsFiniteSet(T) /\ Cardinality(S) \in Nat /\ Cardinality(T) \in Nat
           /\ Cardinality(T) + 1 <= Cardinality(S)
<1>1. IsFiniteSet(S \ {x}) /\ Cardinality(S \ {x}) = Cardinality(S) - 1
  BY FS_RemoveElement
<1>2. QED
  BY <1>1, FS_Subset, FS_CardinalityType

LEMMA CardWith ==
    ASSUME NEW S, IsFiniteSet(S), NEW x, NEW T \in SUBSET (S \cup {x})
    PROVE  /\ IsFiniteSet(T) /\ Cardinality(S) \in Nat /\ Cardinality(T) \in Nat
           /\ Cardinality(T) <= Cardinality(S) + 1
<1>1. Cardinality(S) \in Nat
  BY FS_CardinalityType
<1>2. /\ IsFiniteSet(S \cup {x})
      /\ Cardinality(S \cup {x}) = IF x \in S THEN Cardinality(S) ELSE Cardinality(S) + 1
  BY FS_AddElement
<1>3. Cardinality(S \cup {x}) <= Cardinality(S) + 1
  BY <1>1, <1>2
<1>4. QED
  BY <1>1, <1>2, <1>3, FS_Subset, FS_CardinalityType

LEMMA StrayFinite ==
    ASSUME TInv
    PROVE  IsFiniteSet(Stray)
<1>1. Stray \in SUBSET Keys
  BY DEF Stray, TInv, TypeOK
<1>2. QED
  BY <1>1, KeysAssumption, FS_Subset

(* What each step of an upload may do to the balance. *)
LEMMA NothingLeft ==
    ASSUME TInv, StorageInv, Stray' \subseteq Stray, Pending' \subseteq Pending,
           faults' \in Nat, faults' >= faults,
           (Replacing => Replacing') \/ faults' >= faults + 1
    PROVE  StorageInv'
<1>1. IsFiniteSet(Stray) /\ IsFiniteSet(Pending) /\ faults \in Nat
  BY StrayFinite DEF StorageInv, TInv, TypeOK
<1>2. /\ Cardinality(Stray) \in Nat /\ Cardinality(Stray') \in Nat
      /\ Cardinality(Stray') <= Cardinality(Stray)
  BY <1>1, CardFewer
<1>3. /\ IsFiniteSet(Pending') /\ Cardinality(Pending) \in Nat /\ Cardinality(Pending') \in Nat
      /\ Cardinality(Pending') <= Cardinality(Pending)
  BY <1>1, CardFewer
<1>4. QED
  BY <1>1, <1>2, <1>3 DEF StorageInv

LEMMA OneLeft ==
    ASSUME TInv, StorageInv, NEW k, Stray' \subseteq Stray \cup {k}, Pending' \subseteq Pending,
           faults' \in Nat, faults' >= faults + 1, Replacing => Replacing'
    PROVE  StorageInv'
<1>1. IsFiniteSet(Stray) /\ IsFiniteSet(Pending) /\ faults \in Nat
  BY StrayFinite DEF StorageInv, TInv, TypeOK
<1>2. /\ Cardinality(Stray) \in Nat /\ Cardinality(Stray') \in Nat
      /\ Cardinality(Stray') <= Cardinality(Stray) + 1
  BY <1>1, CardWith
<1>3. /\ IsFiniteSet(Pending') /\ Cardinality(Pending) \in Nat /\ Cardinality(Pending') \in Nat
      /\ Cardinality(Pending') <= Cardinality(Pending)
  BY <1>1, CardFewer
<1>4. QED
  BY <1>1, <1>2, <1>3 DEF StorageInv

LEMMA PendingEnds ==
    ASSUME TInv, StorageInv, NEW r \in Pending, Pending' \subseteq Pending \ {r},
           NEW k, faults' \in Nat, faults' >= faults,
           \/ Stray' \subseteq Stray
           \/ Stray' \subseteq Stray \cup {k} /\ (Replacing => Replacing')
           \/ Stray' \subseteq Stray \cup {k} /\ faults' >= faults + 1
    PROVE  StorageInv'
<1>1. IsFiniteSet(Stray) /\ IsFiniteSet(Pending) /\ faults \in Nat
  BY StrayFinite DEF StorageInv, TInv, TypeOK
<1>2. /\ IsFiniteSet(Pending') /\ Cardinality(Pending) \in Nat /\ Cardinality(Pending') \in Nat
      /\ Cardinality(Pending') + 1 <= Cardinality(Pending)
  BY <1>1, CardWithout
<1>3. Stray' \subseteq Stray => /\ Cardinality(Stray) \in Nat /\ Cardinality(Stray') \in Nat
                                /\ Cardinality(Stray') <= Cardinality(Stray)
  BY <1>1, CardFewer
<1>4. Stray' \subseteq Stray \cup {k} => /\ Cardinality(Stray) \in Nat /\ Cardinality(Stray') \in Nat
                                         /\ Cardinality(Stray') <= Cardinality(Stray) + 1
  BY <1>1, CardWith
<1>5. QED
  BY <1>1, <1>2, <1>3, <1>4 DEF StorageInv

(* Who has deleted nothing yet gives its key back to what stays. *)
LEMMA DoomedShrinks ==
    ASSUME TInv, NEW r \in Requests, \A o \in Requests \ {r} : req'[o] = req[o]
    PROVE  /\ Doomed \ {req[r].old} \subseteq Doomed'
           /\ req[r].step # "delete" => Doomed \subseteq Doomed'
           /\ req'[r].step # "delete" => Doomed' \subseteq Doomed
BY DEF Doomed

LEMMA StorageDelete ==
    ASSUME TInv, ImageInv, StorageInv, NEW r \in Requests, DeleteOld(r)
    PROVE  StorageInv'
<1>1. Uploading(r) /\ Go(r, "put") /\ req[r].step = "delete"
  BY DEF DeleteOld, Uploading
<1>2. /\ req'[r].step = "put" /\ req'[r].old = req[r].old
      /\ \A o \in Requests \ {r} : req'[o] = req[o]
  BY <1>1, GoShape DEF TInv
<1>3. Pending' \subseteq Pending
  BY <1>1, <1>2 DEF Pending
<1>4. Doomed \ {req[r].old} \subseteq Doomed' /\ imageUrl' = imageUrl /\ faults \in Nat
  BY <1>2, DoomedShrinks DEF DeleteOld, TInv, TypeOK
<1>5. (\E o \in Requests : Uploading(o) /\ req[o].old = imageUrl)
         => \E o \in Requests : Uploading(o)' /\ req'[o].old = imageUrl'
  BY <1>1, <1>2, <1>4 DEF Uploading
<1>6. CASE bucket' = bucket \ {req[r].old} /\ UNCHANGED faults
  <2>1. Stray' \subseteq Stray
    BY <1>4, <1>6 DEF Stray
  <2>2. Replacing => Replacing'
    BY <1>4, <1>5, <1>6 DEF Replacing
  <2>3. QED
    BY <1>3, <1>4, <1>6, <2>1, <2>2, NothingLeft
<1>7. CASE bucket' = bucket /\ faults' = faults + 1
  <2>1. CASE req[r].old = imageUrl
    <3>1. Stray' \subseteq Stray
      BY <1>4, <1>7, <2>1 DEF Stray
    <3>2. QED
      BY <1>3, <1>4, <1>7, <3>1, NothingLeft
  <2>2. CASE req[r].old # imageUrl
    <3>1. Stray' \subseteq Stray \cup {req[r].old}
      BY <1>4, <1>7 DEF Stray
    <3>2. Replacing => Replacing'
      BY <1>4, <1>5, <1>7, <2>2 DEF Replacing
    <3>3. QED
      BY <1>3, <1>4, <1>7, <3>1, <3>2, OneLeft
  <2>3. QED
    BY <2>1, <2>2
<1>8. QED
  BY <1>6, <1>7 DEF DeleteOld, DeleteObject

(* An upload that ends before its object is stored, or when it is.         *)
LEMMA StorageBreakOff ==
    ASSUME TInv, ImageInv, StorageInv, NEW r \in Requests, Uploading(r), Finish(r),
           imageUrl' = imageUrl, faults' \in Nat, faults' >= faults,
           \/ bucket' = bucket /\ (req[r].step = "save" => faults' >= faults + 1)
           \/ /\ req[r].step = "put" /\ bucket' = bucket \cup {req[r].key}
              /\ faults' >= faults + 1
    PROVE  StorageInv'
<1>1. /\ req'[r].step = "idle" /\ \A o \in Requests \ {r} : req'[o] = req[o]
  BY FinishShape DEF TInv, Idle
<1>2. Pending' \subseteq Pending \ {r}
  BY <1>1 DEF Pending
<1>3. /\ Doomed \ {req[r].old} \subseteq Doomed'
      /\ req[r].step # "delete" => Doomed \subseteq Doomed'
  BY <1>1, DoomedShrinks
<1>4. CASE req[r].step = "save"
  <2>1. Stray' \subseteq Stray
    BY <1>3, <1>4 DEF Stray
  <2>2. QED
    BY <1>2, <1>4, <2>1, NothingLeft
<1>5. CASE req[r].step = "put"
  <2>1. r \in Pending
    BY <1>5 DEF Pending
  <2>2. \/ Stray' \subseteq Stray
        \/ Stray' \subseteq Stray \cup {req[r].key} /\ faults' >= faults + 1
    BY <1>3, <1>5 DEF Stray
  <2>3. QED
    BY <1>2, <2>1, <2>2, PendingEnds
<1>6. CASE req[r].step = "delete"
  <2>1. r \in Pending
    BY <1>6 DEF Pending
  <2>2. CASE req[r].old = imageUrl
    <3>1. Stray' \subseteq Stray
      BY <1>3, <1>6, <2>2 DEF Stray
    <3>2. QED
      BY <1>2, <2>1, <3>1, PendingEnds
  <2>3. CASE req[r].old # imageUrl
    <3>1. Stray' \subseteq Stray \cup {req[r].old}
      BY <1>3, <1>6 DEF Stray
    <3>2. Replacing => Replacing'
      BY <1>1, <1>3, <1>6, <2>3 DEF Replacing, Uploading
    <3>3. QED
      BY <1>2, <2>1, <3>1, <3>2, PendingEnds
  <2>4. QED
    BY <2>2, <2>3
<1>7. QED
  BY <1>4, <1>5, <1>6 DEF Uploading

LEMMA StoragePut ==
    ASSUME TInv, ImageInv, StorageInv, NEW r \in Requests, PutObject(r)
    PROVE  StorageInv'
<1>1. Uploading(r) /\ Go(r, "save") /\ req[r].step = "put"
  BY DEF PutObject, Uploading
<1>2. /\ req'[r].step = "save" /\ req'[r].old = req[r].old
      /\ \A o \in Requests \ {r} : req'[o] = req[o]
  BY <1>1, GoShape DEF TInv
<1>3. /\ bucket' = bucket \cup {req[r].key} /\ imageUrl' = imageUrl /\ faults' = faults
      /\ faults \in Nat /\ req[r].key # imageUrl
  BY <1>1 DEF PutObject, TInv, TypeOK, ImageInv, KeysApart
<1>4. r \in Pending /\ Pending' \subseteq Pending \ {r}
  BY <1>1, <1>2 DEF Pending
<1>5. Doomed \subseteq Doomed'
  BY <1>1, <1>2, DoomedShrinks
<1>6. Stray' \subseteq Stray \cup {req[r].key}
  BY <1>3, <1>5 DEF Stray
<1>7. Replacing => Replacing'
  <2>1. (\E o \in Requests : Uploading(o) /\ req[o].old = imageUrl)
           => \E o \in Requests : Uploading(o)' /\ req'[o].old = imageUrl'
    BY <1>1, <1>2, <1>3 DEF Uploading
  <2>2. QED
    BY <1>3, <1>5, <2>1 DEF Replacing
<1>8. QED
  BY <1>3, <1>4, <1>6, <1>7, PendingEnds

(* The new image is no stray object any more; the one before it is, unless *)
(* it is gone or about to go.                                              *)
LEMMA StorageSave ==
    ASSUME TInv, ImageInv, StorageInv, NEW r \in Requests, SaveKey(r)
    PROVE  StorageInv'
<1>1. Uploading(r) /\ Finish(r) /\ req[r].step = "save"
  BY DEF SaveKey, Uploading
<1>2. /\ req'[r].step = "idle" /\ \A o \in Requests \ {r} : req'[o] = req[o]
  BY <1>1, FinishShape DEF TInv, Idle
<1>3. /\ bucket' = bucket /\ imageUrl' = req[r].key /\ faults' = faults
      /\ faults \in Nat /\ req[r].key # imageUrl
  BY <1>1 DEF SaveKey, TInv, TypeOK, ImageInv, KeysApart
<1>4. Pending' \subseteq Pending
  BY <1>1, <1>2 DEF Pending
<1>5. Doomed \subseteq Doomed'
  BY <1>1, <1>2, DoomedShrinks
<1>6. req[r].key \in bucket /\ req[r].key \notin Doomed
  <2>1. req[r].key \in bucket
    BY <1>1 DEF ImageInv, StoredFirst
  <2>2. \A o \in Requests : req[o].step = "delete" => req[o].old # req[r].key
    BY <1>1 DEF ImageInv, KeysApart, Uploading
  <2>3. QED
    BY <2>1, <2>2 DEF Doomed
<1>7. req[r].key \in Stray
  BY <1>3, <1>6 DEF Stray
<1> DEFINE rest == Stray \ {req[r].key}
<1>8. /\ IsFiniteSet(Stray) /\ IsFiniteSet(rest) /\ Cardinality(Stray) \in Nat
      /\ Cardinality(rest) \in Nat /\ Cardinality(rest) + 1 <= Cardinality(Stray)
  BY <1>7, StrayFinite, CardWithout
<1>9. /\ IsFiniteSet(Pending') /\ Cardinality(Pending) \in Nat /\ Cardinality(Pending') \in Nat
      /\ Cardinality(Pending') <= Cardinality(Pending)
  BY <1>4, CardFewer DEF StorageInv
<1>10. CASE Replacing
  <2>1. Stray' \in SUBSET rest
    BY <1>3, <1>5, <1>10 DEF Stray, Replacing
  <2> HIDE DEF rest
  <2>2. Cardinality(Stray') \in Nat /\ Cardinality(Stray') <= Cardinality(rest)
    BY <1>8, <2>1, CardFewer
  <2>3. QED
    BY <1>3, <1>8, <1>9, <1>10, <2>2 DEF StorageInv
<1>11. CASE ~Replacing
  <2>1. Stray' \in SUBSET (rest \cup {imageUrl})
    BY <1>3, <1>5 DEF Stray
  <2> HIDE DEF rest
  <2>2. Cardinality(Stray') \in Nat /\ Cardinality(Stray') <= Cardinality(rest) + 1
    BY <1>8, <2>1, CardWith
  <2>3. QED
    BY <1>3, <1>8, <1>9, <1>11, <2>2 DEF StorageInv
<1>12. QED
  BY <1>10, <1>11

(* An upload that starts alone replaces the row's image; one that overlaps *)
(* another is a fault itself.                                              *)
LEMMA StorageUpload ==
    ASSUME TInv, ImageInv, StorageInv, NEW r \in Requests, NEW k \in Keys, NEW file \in BOOLEAN,
           UploadProfileImage(r, k, file)
    PROVE  StorageInv'
<1>1. /\ req'[r].old = imageUrl /\ req'[r].step \in {"put", "delete"} /\ Uploading(r)'
      /\ imageUrl # NoKey => req'[r].step = "delete"
      /\ \A o \in Requests \ {r} : req'[o] = req[o]
  BY DEF UploadProfileImage, TInv, TypeOK, Uploading
<1>2. imageUrl' = imageUrl /\ bucket' = bucket /\ faults \in Nat /\ ~Uploading(r)
  BY IdleShape DEF UploadProfileImage, TInv, TypeOK
<1>3. Pending' = Pending \cup {r} /\ IsFiniteSet(Pending)
  BY <1>1 DEF Pending, StorageInv
<1>4. /\ IsFiniteSet(Pending') /\ Cardinality(Pending) \in Nat /\ Cardinality(Pending') \in Nat
      /\ Cardinality(Pending') <= Cardinality(Pending) + 1
  BY <1>3, CardWith
<1>5. Doomed \subseteq Doomed'
  BY <1>1, <1>2 DEF Doomed, Uploading
<1>6. Stray' \subseteq Stray
  BY <1>2, <1>5 DEF Stray
<1>7. /\ Cardinality(Stray) \in Nat /\ Cardinality(Stray') \in Nat
      /\ Cardinality(Stray') <= Cardinality(Stray)
  BY <1>6, StrayFinite, CardFewer
<1>8. Replacing'
  <2>1. imageUrl \notin bucket \ Doomed'
    BY <1>1, KeysAssumption DEF Doomed, TInv, TypeOK
  <2>2. QED
    BY <1>1, <1>2, <2>1 DEF Replacing
<1>9. CASE \E o \in Requests : Uploading(o)
  <2>1. faults' = faults + 1
    BY <1>9 DEF UploadProfileImage
  <2>2. QED
    BY <1>2, <1>4, <1>7, <1>8, <2>1 DEF StorageInv
<1>10. CASE ~\E o \in Requests : Uploading(o)
  <2>1. faults' = faults /\ ~Replacing
    BY <1>10 DEF UploadProfileImage, Replacing
  <2>2. QED
    BY <1>2, <1>4, <1>7, <1>8, <2>1 DEF StorageInv
<1>11. QED
  BY <1>9, <1>10

(* The requests that update preferences play no part. *)
LEMMA StorageUntouched ==
    ASSUME TInv, StorageInv, UNCHANGED <<imageUrl, bucket>>,
           faults' \in Nat, faults' >= faults,
           \A o \in Requests : Uploading(o) \/ Uploading(o)' => req'[o] = req[o]
    PROVE  StorageInv'
<1>1. \A o \in Requests : Uploading(o)' <=> Uploading(o)
  BY DEF Uploading
<1>2. \A o \in Requests : (req'[o].step = "delete" <=> req[o].step = "delete")
                       /\ (req'[o].step = "put" <=> req[o].step = "put")
  BY DEF Uploading
<1>3. Pending' \subseteq Pending
  BY <1>2 DEF Pending
<1>4. Doomed' = Doomed
  BY <1>2 DEF Doomed, Uploading
<1>5. Stray' \subseteq Stray
  BY <1>4 DEF Stray
<1>6. Replacing => Replacing'
  BY <1>1, <1>4 DEF Replacing
<1>7. QED
  BY <1>3, <1>5, <1>6, NothingLeft

LEMMA StorageStep ==
    ASSUME TInv, ImageInv, StorageInv, [Next]_vars
    PROVE  StorageInv'
<1>1. faults \in Nat
  BY DEF TInv, TypeOK
<1>2. CASE UNCHANGED vars
  BY <1>1, <1>2, StorageUntouched DEF vars
<1>3. CASE Next
  <2> PICK r \in Requests : Serve(r) \/ Fail(r) \/ Call(r)
    BY <1>3 DEF Next
  <2>1. CASE DeleteOld(r)
    BY <2>1, StorageDelete
  <2>2. CASE PutFails(r)
    <3>1. /\ Uploading(r) /\ req[r].step = "put" /\ Finish(r) /\ imageUrl' = imageUrl
          /\ \/ UNCHANGED <<bucket, faults>>
             \/ bucket' = bucket \cup {req[r].key} /\ faults' = faults + 1
      BY <2>2 DEF PutFails, BreakOff, Uploading
    <3>2. QED
      BY <1>1, <3>1, StorageBreakOff
  <2>3. CASE PutObject(r)
    BY <2>3, StoragePut
  <2>4. CASE SaveKey(r)
    BY <2>4, StorageSave
  <2>5. CASE Upsert(r)
    <3>1. \A o \in Requests : Uploading(o) \/ Uploading(o)' => req'[o] = req[o]
      BY <2>5, UpsertShapes DEF Uploading, TInv, Idle, Upsert
    <3>2. QED
      BY <1>1, <2>5, <3>1, StorageUntouched DEF Upsert, imageVars
  <2>6. CASE Fail(r)
    <3>1. /\ Finish(r) /\ imageUrl' = imageUrl /\ bucket' = bucket
          /\ faults' = IF req[r].step = "save" THEN faults + 1 ELSE faults
      BY <2>6 DEF Fail, BreakOff
    <3>2. CASE Uploading(r)
      BY <1>1, <3>1, <3>2, StorageBreakOff
    <3>3. CASE ~Uploading(r)
      <4>1. \A o \in Requests : Uploading(o) \/ Uploading(o)' => req'[o] = req[o]
        BY <3>1, <3>3, FinishShape DEF Uploading, TInv, Idle
      <4>2. QED
        BY <1>1, <3>1, <4>1, StorageUntouched
    <3>4. QED
      BY <3>2, <3>3
  <2>7. ASSUME NEW k \in Keys, NEW file \in BOOLEAN, UploadProfileImage(r, k, file)
        PROVE  StorageInv'
    BY <2>7, StorageUpload
  <2>8. ASSUME NEW dto \in Dtos, UpdatePreferences(r, dto)
        PROVE  StorageInv'
    <3>1. /\ ~Uploading(r) /\ req'[r].step = "upsert"
          /\ \A o \in Requests \ {r} : req'[o] = req[o]
      BY <2>8, IdleShape DEF UpdatePreferences, TInv, TypeOK
    <3>2. \A o \in Requests : Uploading(o) \/ Uploading(o)' => req'[o] = req[o]
      BY <3>1 DEF Uploading
    <3>3. UNCHANGED <<imageUrl, bucket, faults>>
      BY <2>8 DEF UpdatePreferences, imageVars
    <3>4. QED
      BY <1>1, <3>2, <3>3, StorageUntouched
  <2>9. QED
    BY <2>1, <2>2, <2>3, <2>4, <2>5, <2>6, <2>7, <2>8 DEF Serve, Call
<1>4. QED
  BY <1>2, <1>3

LEMMA StorageInit == Init => StorageInv
<1> SUFFICES ASSUME Init PROVE StorageInv
  OBVIOUS
<1>1. Pending = {} /\ Stray = {} /\ faults = 0
  BY IdleShape DEF Init, Pending, Stray
<1>2. IsFiniteSet({}) /\ Cardinality({}) = 0
  BY FS_EmptySet
<1>3. QED
  BY <1>1, <1>2 DEF StorageInv

(* No more keys are about to go than uploads are about to delete one.      *)
LEMMA DoomedPending ==
    ASSUME IsFiniteSet(Pending)
    PROVE  /\ IsFiniteSet(Doomed) /\ Cardinality(Doomed) \in Nat
           /\ Cardinality(Doomed) <= Cardinality(Pending)
<1> DEFINE D == {r \in Requests : req[r].step = "delete" /\ req[r].old \in Keys}
           f == [r \in D |-> req[r].old]
<1>1. D \in SUBSET Pending
  BY DEF Pending
<1>2. IsFiniteSet(D) /\ Cardinality(D) \in Nat /\ Cardinality(Pending) \in Nat
      /\ Cardinality(D) <= Cardinality(Pending)
  BY <1>1, CardFewer
<1>3. f \in Surjection(D, Doomed)
  <2>1. f \in [D -> Doomed]
    BY DEF Doomed
  <2>2. \A k \in Doomed : \E r \in D : f[r] = k
    BY DEF Doomed
  <2>3. QED
    BY <2>1, <2>2, Fun_IsSurj
<1> HIDE DEF D, f
<1>4. IsFiniteSet(Doomed) /\ Cardinality(Doomed) <= Cardinality(D)
  BY <1>2, <1>3, FS_Surjection
<1>5. QED
  BY <1>2, <1>4, FS_CardinalityType

(* uploadProfileImage: every call of the bucket that fails, and every      *)
(* overlap of two uploads, leaves at most one object too many.             *)
THEOREM StorageBounded == Spec => []StoredBoundedByFaults
<1>1. ASSUME TInv, StorageInv
      PROVE  StoredBoundedByFaults
  <2>1. /\ IsFiniteSet(Stray) /\ IsFiniteSet(Pending) /\ IsFiniteSet(Doomed)
        /\ Cardinality(Doomed) \in Nat /\ Cardinality(Doomed) <= Cardinality(Pending)
        /\ faults \in Nat
    BY <1>1, StrayFinite, DoomedPending DEF StorageInv, TInv, TypeOK
  <2> DEFINE all == Stray \cup Doomed
  <2>2. /\ IsFiniteSet(all) /\ Cardinality(all) \in Nat
        /\ Cardinality(all) <= Cardinality(Stray) + Cardinality(Doomed)
    <3>1. IsFiniteSet(Stray \cap Doomed)
      BY <2>1, FS_Subset
    <3>2. /\ IsFiniteSet(all)
          /\ Cardinality(all) =
                Cardinality(Stray) + Cardinality(Doomed) - Cardinality(Stray \cap Doomed)
      BY <2>1, FS_Union
    <3>3. /\ Cardinality(Stray \cap Doomed) \in Nat /\ Cardinality(all) \in Nat
          /\ Cardinality(Stray) \in Nat
      BY <2>1, <3>1, <3>2, FS_CardinalityType
    <3> HIDE DEF all
    <3>4. QED
      BY <2>1, <3>2, <3>3
  <2>3. Cardinality(Stray) \in Nat /\ Cardinality(Pending) \in Nat
    BY <2>1, FS_CardinalityType
  <2>4. Cardinality(Stray) + Cardinality(Pending) <= faults + (IF Replacing THEN 1 ELSE 0)
    BY <1>1 DEF StorageInv
  <2>5. CASE Replacing
    <3>1. bucket \in SUBSET all
      BY <2>5 DEF Replacing, Stray
    <3> HIDE DEF all
    <3>2. Cardinality(bucket) \in Nat /\ Cardinality(bucket) <= Cardinality(all)
      BY <2>2, <3>1, CardFewer
    <3>3. QED
      BY <2>1, <2>2, <2>3, <2>4, <2>5, <3>2 DEF StoredBoundedByFaults
  <2>6. CASE ~Replacing
    <3>1. bucket \in SUBSET (all \cup {imageUrl})
      BY DEF Stray
    <3> HIDE DEF all
    <3>2. Cardinality(bucket) \in Nat /\ Cardinality(bucket) <= Cardinality(all) + 1
      BY <2>2, <3>1, CardWith
    <3>3. QED
      BY <2>1, <2>2, <2>3, <2>4, <2>6, <3>2 DEF StoredBoundedByFaults
  <2>7. QED
    BY <2>5, <2>6
<1>2. TInv /\ StorageInv => StoredBoundedByFaults
  BY <1>1
<1>3. TInv /\ ImageInv /\ StorageInv /\ [Next]_vars => StorageInv'
  BY StorageStep
<1>4. Spec => []ImageInv
  BY ImageInit, ImageStep, TInvHolds, PTL DEF Spec
<1>5. QED
  BY <1>2, <1>3, <1>4, StorageInit, TInvHolds, PTL DEF Spec

-----------------------------------------------------------------------------
(* Preferences *)

LEMMA KeptInit == Init => UntouchedFieldKept
BY DEF Init, UntouchedFieldKept, Idle

LEMMA KeptStep ==
    ASSUME TInv, UntouchedFieldKept, [Next]_vars
    PROVE  UntouchedFieldKept'
<1>1. ASSUME prefs' = prefs,
             \A o \in Requests : req'[o].step = "upsert" => req'[o] = req[o]
      PROVE  UntouchedFieldKept'
  BY <1>1 DEF UntouchedFieldKept, FormatUserPreferences
<1>2. CASE UNCHANGED vars
  BY <1>1, <1>2 DEF vars
<1>3. CASE Next
  <2> PICK r \in Requests : Serve(r) \/ Fail(r) \/ Call(r)
    BY <1>3 DEF Next
  <2>1. ASSUME Uploading(r), NEW step \in {"put", "save"}, Go(r, step), prefs' = prefs
        PROVE  UntouchedFieldKept'
    BY <1>1, <2>1, GoShape DEF TInv
  <2>2. ASSUME Finish(r), prefs' = prefs
        PROVE  UntouchedFieldKept'
    BY <1>1, <2>2, FinishShape DEF TInv, Idle
  <2>3. CASE DeleteOld(r) \/ PutObject(r)
    BY <2>1, <2>3 DEF DeleteOld, PutObject, Uploading
  <2>4. CASE PutFails(r) \/ SaveKey(r) \/ Fail(r)
    BY <2>2, <2>4 DEF PutFails, SaveKey, Fail, BreakOff
  <2>5. CASE Upsert(r)
    <3>1. ASSUME NEW o \in Requests, req'[o].step = "upsert"
          PROVE  req'[o].overtaken
      <4>1. o # r
        BY <2>5, <3>1, UpsertShapes DEF TInv
      <4>2. req[o].step = "upsert"
        BY <2>5, <3>1, <4>1, UpsertShapes DEF TInv
      <4>3. QED
        BY <2>5, <4>1, <4>2, UpsertShapes DEF TInv
    <3>2. QED
      BY <3>1 DEF UntouchedFieldKept
  <2>6. ASSUME NEW k \in Keys, NEW file \in BOOLEAN, UploadProfileImage(r, k, file)
        PROVE  UntouchedFieldKept'
    <3>1. /\ prefs' = prefs /\ req'[r].step # "upsert"
          /\ \A o \in Requests \ {r} : req'[o] = req[o]
      BY <2>6 DEF UploadProfileImage, TInv, TypeOK
    <3>2. QED
      BY <1>1, <3>1
  <2>7. ASSUME NEW dto \in Dtos, UpdatePreferences(r, dto)
        PROVE  UntouchedFieldKept'
    <3>1. /\ prefs' = prefs
          /\ req'[r].given = DOMAIN dto /\ req'[r].lists = Merge(dto)
          /\ \A o \in Requests \ {r} : req'[o] = req[o]
      BY <2>7 DEF UpdatePreferences, TInv, TypeOK
    <3>2. \A f \in Fields \ DOMAIN dto : Merge(dto)[f] = FormatUserPreferences[f]
      BY DEF Merge
    <3>3. FormatUserPreferences' = FormatUserPreferences
      BY <3>1 DEF FormatUserPreferences
    <3>4. QED
      BY <3>1, <3>2, <3>3 DEF UntouchedFieldKept
  <2>8. QED
    BY <2>3, <2>4, <2>5, <2>6, <2>7 DEF Serve, Call
<1>4. QED
  BY <1>2, <1>3

(* updatePreferences: what a request was not given it writes back as it    *)
(* is, unless another one was saved since it read the row.                 *)
THEOREM PartialUpdatesKeep == Spec => []UntouchedFieldKept
BY KeptInit, KeptStep, TInvHolds, PTL DEF Spec
=============================================================================
