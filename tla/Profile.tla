------------------------------ MODULE Profile ------------------------------
(***************************************************************************)
(* What an account's owner edits without a check against other accounts:   *)
(* the profile image (uploadProfileImage, over the database and the        *)
(* bucket) and the invitation preferences (getPreferences,                 *)
(* updatePreferences).                                                     *)
(*                                                                         *)
(* One account: the rows and keys of two accounts are disjoint.  A request *)
(* is a record that holds what it read before its last await.              *)
(***************************************************************************)
EXTENDS Naturals, FiniteSets

CONSTANTS
    Keys,       \* object keys, one for every upload that can ever be made
    NoKey,      \* users.imageUrl is null
    Requests,   \* concurrent HTTP requests
    Inputs      \* the lists a client may submit, as sets of gates

Gates == {"NO_VERIFICATION", "EMAIL_OTP", "IDENTITY_VERIFICATION"}

ASSUME KeysAssumption == NoKey \notin Keys /\ IsFiniteSet(Keys)
ASSUME InputsAssumption == Inputs \subseteq SUBSET Gates

VARIABLES
    imageUrl,   \* the key in the user's row
    bucket,     \* the keys of the objects stored under profile-images/
    prefs,      \* the user_preferences row of the account
    used,       \* keys given to an upload so far
    broken,     \* history: keys deleted by an upload that stored no other key
    faults,     \* history: calls of the bucket that failed, uploads that overlapped
    req         \* the requests

vars == <<imageUrl, bucket, prefs, used, broken, faults, req>>
imageVars == <<imageUrl, bucket, used, broken, faults>>

-----------------------------------------------------------------------------
(* A list of gates is the set of its members: the DTO admits no duplicate, *)
(* and a list is always returned in one fixed order.                       *)
Fields == {"document", "meeting"}
NoRow == [f \in {} |-> {}]

(* "NO_VERIFICATION is exclusive". *)
Exclusive(l) == "NO_VERIFICATION" \in l => l = {"NO_VERIFICATION"}
NormalLists == {l \in SUBSET Gates : l # {} /\ Exclusive(l)}

(* Mutant: [] is stored as it is. *)
KeepEmpty(l) == l

(* undefined and [] stand for the default *)
Normalise(l) == IF l = {} THEN {"NO_VERIFICATION"} ELSE l

(* The lists of the row, or the defaults when there is none. *)
FormatUserPreferences == [f \in Fields |-> IF prefs = NoRow THEN {"NO_VERIFICATION"} ELSE prefs[f]]

(* The DTO is a function on the fields the client provided.                *)
Dtos == UNION {[given -> Inputs] : given \in SUBSET Fields}

(* Mutant: a field that was not provided falls back to its default. *)
MergeDefault(dto) == [f \in Fields |-> Normalise(IF f \in DOMAIN dto THEN dto[f] ELSE {})]

(* dto.x ?? current.x *)
Merge(dto) ==
    [f \in Fields |-> IF f \in DOMAIN dto THEN Normalise(dto[f]) ELSE FormatUserPreferences[f]]

UploadRecords == [step : {"delete", "put", "save"}, old : Keys \cup {NoKey}, key : Keys,
                  file : BOOLEAN]
UpsertRecords == [step : {"upsert"}, given : SUBSET Fields, lists : [Fields -> NormalLists],
                  overtaken : BOOLEAN]
Idle == [step |-> "idle"]

Uploading(r) == req[r].step \in {"delete", "put", "save"}
Deleted(r) == req[r].step \in {"put", "save"}
Finish(r) == req' = [req EXCEPT ![r] = Idle]
Go(r, step) == req' = [req EXCEPT ![r].step = step]

Init ==
    /\ imageUrl = NoKey
    /\ bucket = {}
    /\ prefs = NoRow
    /\ used = {}
    /\ broken = {}
    /\ faults = 0
    /\ req = [r \in Requests |-> Idle]

-----------------------------------------------------------------------------
(* uploadProfileImage *)

(* The read of the row.  file: a file is attached; the controller does not *)
(* ask for one, and multer has refused the wrong types and sizes before.   *)
(* The random key is made later, but nobody sees it before the put.        *)
UploadProfileImage(r, k, file) ==
    /\ req[r] = Idle
    /\ k \notin used
    /\ used' = used \cup {k}
    /\ req' = [req EXCEPT ![r] = [step |-> IF imageUrl = NoKey THEN "put" ELSE "delete",
                                  old |-> imageUrl, key |-> k, file |-> file]]
    /\ faults' = IF \E o \in Requests : Uploading(o) THEN faults + 1 ELSE faults
    /\ UNCHANGED <<imageUrl, bucket, prefs, broken>>

(* Mutant: the old object is left where it is. *)
KeepObject(k) == bucket

DeleteObject(k) == bucket \ {k}

(* deleteObject logs an error of the bucket and returns. *)
DeleteOld(r) ==
    /\ req[r].step = "delete"
    /\ Go(r, "put")
    /\ \/ bucket' = DeleteObject(req[r].old) /\ UNCHANGED faults
       \/ faults' = faults + 1 /\ UNCHANGED bucket
    /\ UNCHANGED <<imageUrl, prefs, used, broken>>

(* The upload ends here; its old image is gone if deleteObject worked. *)
BreakOff(r) ==
    /\ broken' = IF Deleted(r) THEN broken \cup ({req[r].old} \ {NoKey}) ELSE broken
    /\ Finish(r)

(* Mutant: an error of the bucket is swallowed, as deleteObject does. *)
SwallowPut(r) ==
    /\ req[r].step = "put"
    /\ Go(r, "save")
    /\ UNCHANGED <<imageUrl, bucket, prefs, used, broken, faults>>

(* validateFile refuses a missing file, or the bucket answers with an      *)
(* error after it has stored the object or without storing it.             *)
PutFails(r) ==
    /\ req[r].step = "put"
    /\ BreakOff(r)
    /\ \/ UNCHANGED <<bucket, faults>>
       \/ /\ req[r].file
          /\ bucket' = bucket \cup {req[r].key}
          /\ faults' = faults + 1
    /\ UNCHANGED <<imageUrl, prefs, used>>

PutObject(r) ==
    /\ req[r].step = "put" /\ req[r].file
    /\ bucket' = bucket \cup {req[r].key}
    /\ Go(r, "save")
    /\ UNCHANGED <<imageUrl, prefs, used, broken, faults>>

(* The update of the row; signing the URL afterwards changes nothing. *)
SaveKey(r) ==
    /\ req[r].step = "save"
    /\ imageUrl' = req[r].key
    /\ Finish(r)
    /\ UNCHANGED <<bucket, prefs, used, broken, faults>>

-----------------------------------------------------------------------------
(* updatePreferences *)

(* The read of the row and the merge.  A list that combines                *)
(* NO_VERIFICATION with another gate is refused, and nothing changes.      *)
UpdatePreferences(r, dto) ==
    /\ req[r] = Idle
    /\ \A f \in Fields : Exclusive(Merge(dto)[f])
    /\ req' = [req EXCEPT ![r] = [step |-> "upsert", given |-> DOMAIN dto, lists |-> Merge(dto),
                                  overtaken |-> FALSE]]
    /\ UNCHANGED <<imageVars, prefs>>

(* Both lists are written.  history: the others were overtaken. *)
Upsert(r) ==
    /\ req[r].step = "upsert"
    /\ prefs' = req[r].lists
    /\ req' = [o \in Requests |->
                 IF o = r THEN Idle
                 ELSE IF req[o].step = "upsert" THEN [req[o] EXCEPT !.overtaken = TRUE] ELSE req[o]]
    /\ UNCHANGED imageVars

-----------------------------------------------------------------------------
(* A statement fails or the process dies; a "save" that never happens      *)
(* leaves the new object behind.                                           *)
Fail(r) ==
    /\ req[r] # Idle
    /\ BreakOff(r)
    /\ faults' = IF req[r].step = "save" THEN faults + 1 ELSE faults
    /\ UNCHANGED <<imageUrl, bucket, prefs, used>>

Serve(r) == DeleteOld(r) \/ PutFails(r) \/ PutObject(r) \/ SaveKey(r) \/ Upsert(r)

Call(r) ==
    \/ \E k \in Keys, file \in BOOLEAN : UploadProfileImage(r, k, file)
    \/ \E dto \in Dtos : UpdatePreferences(r, dto)

Next == \E r \in Requests : Serve(r) \/ Fail(r) \/ Call(r)

Spec == Init /\ [][Next]_vars

-----------------------------------------------------------------------------
(* Properties *)

(* The row, the bucket and the requests have the shape of what they stand  *)
(* for; every stored preference list is normal, whoever wrote it.          *)
TypeOK ==
    /\ imageUrl \in used \cup {NoKey}
    /\ bucket \subseteq used
    /\ prefs \in [Fields -> NormalLists] \cup {NoRow}
    /\ used \subseteq Keys
    /\ broken \subseteq used
    /\ faults \in Nat
    /\ req \in [Requests -> UploadRecords \cup UpsertRecords \cup {Idle}]

(* The row names an object that is not there only while an upload that     *)
(* replaces it is under way, or after one broke off: no interleaving of    *)
(* uploads that succeed leaves the account with a dead image.              *)
MissingImageHasCulprit ==
    imageUrl \notin bucket \cup broken \cup {NoKey} =>
        \E r \in Requests : Deleted(r) /\ req[r].old = imageUrl

(* Every fault or overlap of uploads leaves at most one object too many.   *)
StoredBoundedByFaults == Cardinality(bucket) <= 1 + faults

(* "Only provided fields are replaced": a field that was not provided is   *)
(* about to be rewritten with its own value, unless another update was     *)
(* saved since this one read the row.                                      *)
UntouchedFieldKept ==
    \A r \in Requests :
        req[r].step = "upsert" =>
            \/ req[r].overtaken
            \/ \A f \in Fields \ req[r].given : req[r].lists[f] = FormatUserPreferences[f]

(* "There is never more than one profile image per user in storage". *)
OneStoredImage == Cardinality(bucket) <= 1

(* "Only provided fields are replaced", without the exception. *)
OnlyProvidedReplaced ==
    [][\A r \in Requests : Upsert(r) =>
          \A f \in Fields \ req[r].given : prefs'[f] = FormatUserPreferences[f]]_vars
=============================================================================
