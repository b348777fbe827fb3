------------------------ MODULE IdentityVerification ------------------------
(***************************************************************************)
(* submitVerification of one citizen with a National ID: the attempt limit, *)
(* the images in the bucket, the engine's verdict, the audit log and the   *)
(* account.                                                                *)
(*                                                                         *)
(* Every statement of the handler goes by the citizen's id, so one citizen *)
(* is enough; several submissions may be under way at once.  The two image *)
(* uploads run in parallel, and outlive a handler that gives up on them.   *)
(* Sessions.tla models the session upgrade that follows a pass.            *)
(***************************************************************************)
EXTENDS Naturals, Sequences, FiniteSets

CONSTANTS
    Submissions,    \* the calls of submitVerification, each made once
    MaxAttempts,    \* MAX_ATTEMPTS, with the attempt window switched on
    Concurrency     \* bound on the submissions under way at the same time

ASSUME SubmissionsAssumption == IsFiniteSet(Submissions)
ASSUME MaxAttemptsAssumption == MaxAttempts \in Nat \ {0}
ASSUME ConcurrencyAssumption == Concurrency \in Nat \ {0}

VARIABLES
    verified,   \* isIdVerified of the citizen
    tally,      \* verificationAttempts of the citizen
    log,        \* the id_verifications rows, oldest first
    aged,       \* how many of them are older than the attempt window
    bucket,     \* the images in S3
    deleted,    \* history: the images that were deleted
    put,        \* the uploads of each submission that are under way
    sub         \* the submissions

vars == <<verified, tally, log, aged, bucket, deleted, put, sub>>

-----------------------------------------------------------------------------
Kinds == {"id-card", "selfie"}
ImagesOf(s) == {s} \X Kinds

Modes == {"STANDARD", "INVITATION"}
Verdicts == {"none", "passed", "failed", "unavailable"}

(* The await the handler is at. *)
UnderWay == {"limit", "upload", "engine", "count", "record", "cleanup", "mark", "upgrade", "respond"}
Steps == {"new", "answered", "refused", "broken"} \cup UnderWay

(* seen: isIdVerified as the handler read it; number: attemptNumber.       *)
(* lingers and unlogged are history: deleting its images, in whole or in   *)
(* part, or writing its audit row failed.                                  *)
SubRecords == [step : Steps, seen : BOOLEAN, verdict : Verdicts, number : Nat,
               lingers : BOOLEAN, unlogged : BOOLEAN]
New == [step |-> "new", seen |-> FALSE, verdict |-> "none", number |-> 0,
        lingers |-> FALSE, unlogged |-> FALSE]
Rows == [by : Submissions, number : Nat \ {0}]

AttemptsUsed == Len(log) - aged
Running == {s \in Submissions : sub[s].step \in UnderWay}

Go(s, step) == sub' = [sub EXCEPT ![s].step = step]

Init ==
    /\ verified \in BOOLEAN
    /\ tally = 0
    /\ log = <<>>
    /\ aged = 0
    /\ bucket = {}
    /\ deleted = {}
    /\ put = [s \in Submissions |-> {}]
    /\ sub = [s \in Submissions |-> New]

-----------------------------------------------------------------------------
(* The gates *)

Submit(s, mode) ==
    /\ sub[s].step = "new"
    /\ Cardinality(Running) < Concurrency
    /\ sub' = [sub EXCEPT ![s].step = IF verified /\ mode # "INVITATION" THEN "refused" ELSE "limit",
                          ![s].seen = verified]
    /\ UNCHANGED <<verified, tally, log, aged, bucket, deleted, put>>

(* Mutant: the limit lets one attempt too many through. *)
LimitOffByOne == AttemptsUsed > MaxAttempts

LimitReached == AttemptsUsed >= MaxAttempts

EnforceAttemptLimit(s) ==
    /\ sub[s].step = "limit"
    /\ IF LimitReached
       THEN Go(s, "refused") /\ UNCHANGED put
       ELSE Go(s, "upload") /\ put' = [put EXCEPT ![s] = Kinds]
    /\ UNCHANGED <<verified, tally, log, aged, bucket, deleted>>

-----------------------------------------------------------------------------
(* Promise.all of the two uploads *)

(* Mutant: the handler goes on when the first upload is done. *)
AnyUploaded(s, k) == TRUE

AllUploaded(s, k) == put[s] = {k}

UploadDone(s, k) ==
    /\ k \in put[s]
    /\ put' = [put EXCEPT ![s] = @ \ {k}]
    /\ bucket' = bucket \cup {<<s, k>>}
    /\ IF sub[s].step = "upload" /\ AllUploaded(s, k) THEN Go(s, "engine") ELSE UNCHANGED sub
    /\ UNCHANGED <<verified, tally, log, aged, deleted>>

(* Mutant: the handler deletes what it can when an upload fails. *)
DeleteUploaded(s) ==
    /\ bucket' = bucket \ ImagesOf(s)
    /\ deleted' = deleted \cup ImagesOf(s)

GiveUp(s) == UNCHANGED <<bucket, deleted>>

(* The call fails at once or after the object was stored; the first        *)
(* failure ends the handler, and the other upload goes on without it.      *)
UploadFails(s, k) ==
    /\ k \in put[s]
    /\ put' = [put EXCEPT ![s] = @ \ {k}]
    /\ IF sub[s].step = "upload" THEN Go(s, "broken") ELSE UNCHANGED sub
    /\ \/ GiveUp(s)
       \/ bucket' = bucket \cup {<<s, k>>} /\ UNCHANGED deleted
    /\ UNCHANGED <<verified, tally, log, aged>>

-----------------------------------------------------------------------------
(* The engine, the audit log and the clean-up.  After a verdict the row is *)
(* written first; when the engine is unavailable the images go first.      *)

CallEngine(s, verdict) ==
    /\ sub[s].step = "engine"
    /\ sub' = [sub EXCEPT ![s].verdict = verdict,
                          ![s].step = IF verdict = "unavailable" THEN "cleanup" ELSE "count"]
    /\ UNCHANGED <<verified, tally, log, aged, bucket, deleted, put>>

(* Mutant: the row is written without its number. *)
UnsetNumber == 0

NextAttemptNumber == Len(log) + 1

GetNextAttemptNumber(s) ==
    /\ sub[s].step = "count"
    /\ sub' = [sub EXCEPT ![s].step = "record", ![s].number = NextAttemptNumber]
    /\ UNCHANGED <<verified, tally, log, aged, bucket, deleted, put>>

(* Mutant: only a passed verification is written to the log. *)
LogPasses(s) ==
    log' = IF sub[s].verdict = "passed"
           THEN Append(log, [by |-> s, number |-> sub[s].number])
           ELSE log

LogAttempt(s) == log' = Append(log, [by |-> s, number |-> sub[s].number])

(* An error of the audit log is swallowed. *)
RecordAttempt(s) ==
    /\ sub[s].step = "record"
    /\ LET next == IF sub[s].verdict = "unavailable" THEN "broken" ELSE "cleanup" IN
       \/ LogAttempt(s) /\ Go(s, next)
       \/ UNCHANGED log /\ sub' = [sub EXCEPT ![s].step = next, ![s].unlogged = TRUE]
    /\ UNCHANGED <<verified, tally, aged, bucket, deleted, put>>

(* Mutant: one of the two keys is filtered out. *)
OneImageOf(s) == {<<s, "id-card">>}

KeysToDelete(s) == ImagesOf(s)

(* One DeleteObjects for both keys: it may fail, or delete one and report  *)
(* an error for the other.  An error of the bucket is swallowed.           *)
CleanupImages(s) ==
    /\ sub[s].step = "cleanup"
    /\ \E gone \in SUBSET KeysToDelete(s) :
          /\ bucket' = bucket \ gone
          /\ deleted' = deleted \cup gone
          /\ sub' = [sub EXCEPT
                 ![s].step = IF sub[s].verdict = "unavailable" THEN "count" ELSE "mark",
                 ![s].lingers = gone # KeysToDelete(s)]
    /\ UNCHANGED <<verified, tally, log, aged, put>>

Passes(s) == sub[s].verdict = "passed"

Mark(s) ==
    /\ sub[s].step = "mark"
    /\ tally' = tally + 1
    /\ IF Passes(s) /\ ~sub[s].seen
       THEN verified' = TRUE /\ Go(s, "upgrade")
       ELSE UNCHANGED verified /\ Go(s, "respond")
    /\ UNCHANGED <<log, aged, bucket, deleted, put>>

UpgradeToken(s) ==
    /\ sub[s].step = "upgrade"
    /\ Go(s, "respond")
    /\ UNCHANGED <<verified, tally, log, aged, bucket, deleted, put>>

(* The window is read once more for the answer. *)
Respond(s) ==
    /\ sub[s].step = "respond"
    /\ Go(s, "answered")
    /\ UNCHANGED <<verified, tally, log, aged, bucket, deleted, put>>

-----------------------------------------------------------------------------
(* Failures and time *)

(* A statement whose error the handler does not catch. *)
Fail(s) ==
    /\ sub[s].step \in {"limit", "count", "mark", "upgrade", "respond"}
    /\ Go(s, "broken")
    /\ UNCHANGED <<verified, tally, log, aged, bucket, deleted, put>>

(* Uploads on the wire arrive or not. *)
Restart ==
    /\ \E s \in Submissions : s \in Running \/ put[s] # {}
    /\ sub' = [s \in Submissions |->
                 IF s \in Running THEN [sub[s] EXCEPT !.step = "broken"] ELSE sub[s]]
    /\ put' = [s \in Submissions |-> {}]
    /\ \E arrived \in SUBSET UNION {{s} \X put[s] : s \in Submissions} :
          bucket' = bucket \cup arrived
    /\ UNCHANGED <<verified, tally, log, aged, deleted>>

(* The oldest attempt of the window leaves it. *)
AttemptAges ==
    /\ aged < Len(log)
    /\ aged' = aged + 1
    /\ UNCHANGED <<verified, tally, log, bucket, deleted, put, sub>>

Serve(s) ==
    \/ EnforceAttemptLimit(s)
    \/ \E k \in Kinds : UploadDone(s, k) \/ UploadFails(s, k)
    \/ \E verdict \in Verdicts \ {"none"} : CallEngine(s, verdict)
    \/ GetNextAttemptNumber(s) \/ RecordAttempt(s) \/ CleanupImages(s)
    \/ Mark(s) \/ UpgradeToken(s) \/ Respond(s)

Next ==
    \/ \E s \in Submissions :
          \/ Serve(s) \/ Fail(s)
          \/ \E mode \in Modes : Submit(s, mode)
    \/ Restart
    \/ AttemptAges

Spec == Init /\ [][Next]_vars

-----------------------------------------------------------------------------
(* Properties *)

(* Every table, bucket and submission has its shape. *)
TypeOK ==
    /\ verified \in BOOLEAN
    /\ tally \in Nat
    /\ log \in Seq(Rows)
    /\ aged \in 0..Len(log)
    /\ bucket \subseteq Submissions \X Kinds
    /\ deleted \subseteq Submissions \X Kinds
    /\ put \in [Submissions -> SUBSET Kinds]
    /\ sub \in [Submissions -> SubRecords]

(* enforceAttemptLimit counts rows that are written much later: the limit  *)
(* is exact for submissions made one after the other, and every overlap    *)
(* lets at most one attempt more into the window.                          *)
AttemptsBoundedByOverlap == AttemptsUsed <= MaxAttempts - 1 + Concurrency

(* An attempt that is counted on the account is in the audit log, unless   *)
(* the log itself failed.                                                  *)
CountedIsLogged ==
    tally <= Len(log) + Cardinality({s \in Submissions : sub[s].unlogged})

(* The engine is called, and the row written after its verdict, while both *)
(* images of the submission are in the bucket.                             *)
EngineHasImages ==
    \A s \in Submissions :
        sub[s].step = "engine"
            \/ (sub[s].step \in {"count", "record"} /\ sub[s].verdict # "unavailable")
            => ImagesOf(s) \subseteq bucket

(* A submission that was answered left no image, unless the bucket refused *)
(* the deletion, whatever its parallel uploads do.                         *)
AnsweredLeavesNoImage ==
    \A s \in Submissions :
        sub[s].step = "answered" /\ ~sub[s].lingers => bucket \cap ImagesOf(s) = {}

(* An image that was deleted is never in the bucket again: no upload is    *)
(* still on the wire when its submission cleans up.                        *)
DeletedForGood == bucket \cap deleted = {}

(* What the documentation promises, and the code does not keep.            *)

(* "max 3 attempts" in the window. *)
AttemptsWithinLimit == AttemptsUsed <= MaxAttempts

(* "Used in the audit log -- attempt 1, 2, or 3." *)
NumberInRange == \A i \in 1..Len(log) : log[i].number \in 1..MaxAttempts

(* "Called in both success and failure paths -- images never linger". *)
ImagesNeverLinger ==
    \A s \in Submissions :
        sub[s].step \in {"answered", "broken"} /\ put[s] = {} /\ ~sub[s].lingers
            => bucket \cap ImagesOf(s) = {}
=============================================================================
