---------------------------- MODULE Registration ----------------------------
(***************************************************************************)
(* lookupCitizen and register: the two identity registries, the cache of   *)
(* citizens, and the interactive transaction that creates an account.      *)
(*                                                                         *)
(* The registries are other services, reached over HTTP: they change when  *)
(* they like, and they answer late, wrongly or not at all.  The rows of a  *)
(* transaction are inserted by a statement each; a statement whose unique  *)
(* key was inserted by a transaction that is still open waits for its end. *)
(***************************************************************************)
EXTENDS Naturals, FiniteSets

CONSTANTS
    Nids,       \* national identity numbers
    Fins,       \* foreign identity numbers
    Emails,     \* addresses
    Pids,       \* the platform ids the generator may return
    NoPid,      \* none generated yet
    Requests    \* concurrent HTTP requests

Identities == Nids \cup Fins

ASSUME IdentitiesAssumption == Nids \cap Fins = {}
ASSUME PidsAssumption == NoPid \notin Pids
ASSUME EmailsAssumption == Emails # {}

VARIABLES
    registry,   \* what the registry of each number has for it
    confirmed,  \* history: numbers that were active at their registry
    cache,      \* NIDs whose record is in the cache
    accounts,   \* the accounts, each as the unique keys of its rows
    req         \* the requests

vars == <<registry, confirmed, cache, accounts, req>>

-----------------------------------------------------------------------------
(* The tables with a unique key a new account can collide in.  The row of  *)
(* email_verification_tokens comes last and has a random key.  The phone   *)
(* number is taken not to be unique: no statement looks one up.            *)
Tables == {"users", "citizen_identities", "platform_ids"}
Keys == [users : Emails, citizen_identities : Identities, platform_ids : Pids]
Wanted == [users : Emails, citizen_identities : Identities, platform_ids : Pids \cup {NoPid}]

Standings == {"active", "inactive", "absent"}
Steps == {"cache", "registry", "store", "email", "identity", "transaction"}

(* late: another request filled the cache while this one was waiting for   *)
(* the registry.                                                           *)
RequestRecords ==
    [op : {"lookup", "register"}, step : Steps, email : Emails, number : Identities,
     pid : Pids \cup {NoPid}, rows : SUBSET Tables, late : BOOLEAN]
Idle == [step |-> "idle"]

(* The answers a property speaks about: a 404 with what the registry had   *)
(* done, a 409 with the keys the request had asked for.  After any other   *)
(* answer the request is idle again.                                       *)
NotFound == [step : {"answered"}, code : {404}, heard : Standings \cup {"error"}]
Conflict == [step : {"answered"}, code : {409}, keys : Wanted]

Busy(r) == req[r].step \in Steps
At(r, step) == req[r].step = step
IsCitizen(r) == req[r].number \in Nids
KeysOf(r) == [users |-> req[r].email, citizen_identities |-> req[r].number,
              platform_ids |-> req[r].pid]
Taken(t, k) == \E a \in accounts : a[t] = k

Go(r, step) == req' = [req EXCEPT ![r].step = step]
Finish(r, answer) == req' = [req EXCEPT ![r] = answer]
Refuse(r, heard) == Finish(r, [step |-> "answered", code |-> 404, heard |-> heard])
Collide(r) == Finish(r, [step |-> "answered", code |-> 409, keys |-> KeysOf(r)])
Answer(r, code) == code \notin {404, 409} /\ Finish(r, Idle)

(* The identity is resolved: lookupCitizen returns to its caller. *)
Resolved(r) == IF req[r].op = "lookup" THEN Answer(r, 200) ELSE Go(r, "email")

Init ==
    /\ registry \in [Identities -> Standings]
    /\ \A n \in Nids : registry[n] # "inactive"
    /\ confirmed = {i \in Identities : registry[i] = "active"}
    /\ cache = {}
    /\ accounts = {}
    /\ req = [r \in Requests |-> Idle]

-----------------------------------------------------------------------------
(* The endpoints *)

Arrive(r, op, step, e, i) ==
    /\ ~Busy(r)
    /\ req' = [req EXCEPT ![r] = [op |-> op, step |-> step, email |-> e, number |-> i,
                                  pid |-> NoPid, rows |-> {}, late |-> FALSE]]
    /\ UNCHANGED <<registry, confirmed, cache, accounts>>

(* The address plays no part in a lookup. *)
Lookup(r, n) == Arrive(r, "lookup", "cache", CHOOSE e \in Emails : TRUE, n)

(* A body with both numbers, or with none, is refused and changes nothing. *)
Register(r, e, i) == Arrive(r, "register", IF i \in Nids THEN "cache" ELSE "registry", e, i)

-----------------------------------------------------------------------------
(* lookupCitizen and getByFin *)

(* Mutant: the cache is never asked. *)
NeverHit(n) == FALSE

Hit(n) == n \in cache

CheckCache(r) ==
    /\ At(r, "cache")
    /\ IF Hit(req[r].number) THEN Resolved(r) ELSE Go(r, "registry")
    /\ UNCHANGED <<registry, confirmed, cache, accounts>>

(* Mutant: the profile's isActive is not looked at. *)
AnyProfile(i) == registry[i] # "absent"

Accepted(i) == registry[i] = "active"

(* The registry answers, about the number it was asked for.  A record      *)
(* without a readable date of birth is refused: 400 for a citizen, 500 for *)
(* a foreigner.                                                            *)
RegistryAnswers(r) ==
    LET i == req[r].number IN
    /\ At(r, "registry")
    /\ \/ ~Accepted(i) /\ Refuse(r, registry[i])
       \/ Accepted(i) /\ Answer(r, IF IsCitizen(r) THEN 400 ELSE 500)
       \/ /\ Accepted(i)
          /\ req' = [req EXCEPT ![r].step = IF IsCitizen(r) THEN "store" ELSE "email",
                                ![r].late = FALSE]
    /\ UNCHANGED <<registry, confirmed, cache, accounts>>

(* The registry refuses the service or breaks down.  For the citizen API   *)
(* validateStatus lets every HTTP status through, and a body without       *)
(* status "ok" counts as not found; only a broken connection is a 503.     *)
RegistryFails(r) ==
    /\ At(r, "registry")
    /\ \/ IsCitizen(r) /\ Refuse(r, "error")
       \/ Answer(r, IF IsCitizen(r) THEN 503 ELSE 500)
    /\ UNCHANGED <<registry, confirmed, cache, accounts>>

(* 10 s for a citizen (rxjs timeout), 12 s for a foreigner (HttpModule). *)
TimeOut(r) ==
    /\ At(r, "registry")
    /\ Answer(r, IF IsCitizen(r) THEN 504 ELSE 500)
    /\ UNCHANGED <<registry, confirmed, cache, accounts>>

(* history: calls that are still out were sent before this entry was there *)
Overtaken(o, n) ==
    IF At(o, "registry") /\ req[o].number = n THEN [req[o] EXCEPT !.late = TRUE] ELSE req[o]

StoreInCache(r) ==
    LET n == req[r].number IN
    /\ At(r, "store")
    /\ cache' = cache \cup {n}
    /\ req' = [[o \in Requests |-> Overtaken(o, n)] EXCEPT ![r] =
                 IF @.op = "lookup" THEN Idle ELSE [@ EXCEPT !.step = "email"]]
    /\ UNCHANGED <<registry, confirmed, accounts>>

-----------------------------------------------------------------------------
(* register, once the identity is resolved *)

CheckEmail(r) ==
    /\ At(r, "email")
    /\ IF Taken("users", req[r].email) THEN Collide(r) ELSE Go(r, "identity")
    /\ UNCHANGED <<registry, confirmed, cache, accounts>>

(* Mutant: the platform id is made too late for the transaction. *)
NotYet == {NoPid}

(* The birth year, six random digits and a 1. *)
Generate == Pids

(* The identity is free; the password is hashed and a platform id made. *)
CheckIdentity(r) ==
    /\ At(r, "identity")
    /\ \/ Taken("citizen_identities", req[r].number) /\ Collide(r)
       \/ /\ ~Taken("citizen_identities", req[r].number)
          /\ \E p \in Generate : req' = [req EXCEPT ![r].step = "transaction", ![r].pid = p]
    /\ UNCHANGED <<registry, confirmed, cache, accounts>>

(* Mutant: the rows are inserted by parallel statements. *)
AnyRow(r) == Tables \ req[r].rows

(* The rows are inserted one after the other. *)
NextRow(r) ==
    CASE "users" \notin req[r].rows -> {"users"}
      [] "users" \in req[r].rows /\ "citizen_identities" \notin req[r].rows -> {"citizen_identities"}
      [] OTHER -> {"platform_ids"} \ req[r].rows

(* Another open transaction has inserted the same key. *)
Locked(r, t) ==
    \E o \in Requests \ {r} :
        At(o, "transaction") /\ t \in req[o].rows /\ KeysOf(o)[t] = KeysOf(r)[t]

(* Mutant: the identity hashes have no unique constraint. *)
OtherKeysTaken(r, t) == t # "citizen_identities" /\ Taken(t, KeysOf(r)[t])

(* Mutant: a key of an open transaction counts as taken. *)
TakenOrLocked(r, t) == Taken(t, KeysOf(r)[t]) \/ Locked(r, t)

Violates(r, t) == Taken(t, KeysOf(r)[t])

(* P2002 rolls the transaction back and is answered 409. *)
InsertRow(r, t) ==
    /\ At(r, "transaction") /\ t \in NextRow(r)
    /\ IF Violates(r, t)
       THEN Collide(r)
       ELSE ~Locked(r, t) /\ req' = [req EXCEPT ![r].rows = @ \cup {t}]
    /\ UNCHANGED <<registry, confirmed, cache, accounts>>

Commit(r) ==
    /\ At(r, "transaction") /\ req[r].rows = Tables
    /\ accounts' = accounts \cup {KeysOf(r)}
    /\ Answer(r, 201)
    /\ UNCHANGED <<registry, confirmed, cache>>

-----------------------------------------------------------------------------
(* A statement fails, or the process dies: an open transaction is undone. *)
Fail(r) ==
    /\ Busy(r)
    /\ Answer(r, 500)
    /\ UNCHANGED <<registry, confirmed, cache, accounts>>

(* The registries are someone else's; a citizen's record is never inactive. *)
RegistryChanges(i) ==
    /\ \E s \in Standings :
        /\ s # registry[i]
        /\ (i \in Nids => s # "inactive")
        /\ registry' = [registry EXCEPT ![i] = s]
        /\ confirmed' = IF s = "active" THEN confirmed \cup {i} ELSE confirmed
    /\ UNCHANGED <<cache, accounts, req>>

(* After 5 minutes, or when 500 newer entries came in. *)
EntryExpires(n) ==
    /\ n \in cache
    /\ cache' = cache \ {n}
    /\ UNCHANGED <<registry, confirmed, accounts, req>>

(* What the service does by itself. *)
Serve(r) ==
    \/ CheckCache(r) \/ TimeOut(r) \/ StoreInCache(r)
    \/ CheckEmail(r) \/ CheckIdentity(r)
    \/ \E t \in Tables : InsertRow(r, t)
    \/ Commit(r)

Call(r) ==
    \/ \E n \in Nids : Lookup(r, n)
    \/ \E e \in Emails, i \in Identities : Register(r, e, i)

Next ==
    \/ \E r \in Requests : Serve(r) \/ RegistryAnswers(r) \/ RegistryFails(r) \/ Fail(r) \/ Call(r)
    \/ \E i \in Identities : RegistryChanges(i)
    \/ \E n \in Nids : EntryExpires(n)

Spec == Init /\ [][Next]_vars

(* The event loop and the database serve every request, and a statement    *)
(* that waits for a transaction is woken when that ends.  The registries   *)
(* owe no answer: only the timeout ends a call.                            *)
FairSpec ==
    /\ Spec
    /\ \A r \in Requests : WF_vars(Serve(r)) /\ SF_vars(\E t \in Tables : InsertRow(r, t))

-----------------------------------------------------------------------------
(* Properties *)

(* Every table and request has the shape of the rows or the record it      *)
(* stands for; only citizens are cached, and only after an answer.         *)
TypeOK ==
    /\ registry \in [Identities -> Standings]
    /\ confirmed \subseteq Identities
    /\ cache \subseteq Nids \cap confirmed
    /\ accounts \subseteq Keys
    /\ req \in [Requests -> RequestRecords \cup NotFound \cup Conflict \cup {Idle}]

(* No two accounts share an address, an identity or a platform id, however *)
(* the checks of their registrations interleaved.                          *)
KeysUnique == \A t \in Tables : \A a, b \in accounts : a[t] = b[t] => a = b

(* Every account belongs to a number its registry had as active: neither   *)
(* the cache nor a failing registry lets an unknown or deactivated number  *)
(* in.                                                                     *)
IdentityConfirmed == \A a \in accounts : a.citizen_identities \in confirmed

(* A registration is refused as a conflict only if an account really has   *)
(* one of its keys: a rival whose transaction was undone leaves nothing.   *)
ConflictIsReal ==
    \A r \in Requests :
        req[r].step = "answered" /\ req[r].code = 409 =>
            \E t \in Tables : Taken(t, req[r].keys[t])

(* "Prevents hammering the external API for the same NID repeatedly": a    *)
(* call that is out while the cache has the record was sent before.        *)
CacheSparesCalls ==
    \A r \in Requests : At(r, "registry") /\ req[r].number \in cache => req[r].late

(* Whatever the registries do, every request is answered: the timeouts end *)
(* the calls, and open transactions never wait for each other in a circle. *)
EveryRequestAnswered == \A r \in Requests : Busy(r) ~> ~Busy(r)

(* 404 says that the number is not registered or was deactivated. *)
NotFoundMeansAbsent ==
    \A r \in Requests :
        req[r].step = "answered" /\ req[r].code = 404 => req[r].heard \in {"absent", "inactive"}

(* "Either the email address or the supplied NID/FIN is already linked". *)
ConflictNamesItsCause ==
    \A r \in Requests :
        req[r].step = "answered" /\ req[r].code = 409 =>
            \E t \in {"users", "citizen_identities"} : Taken(t, req[r].keys[t])
=============================================================================
