------------------------- MODULE RegistrationProofs -------------------------
(***************************************************************************)
(* Proofs about Registration, for any sets of numbers, addresses, platform *)
(* ids and requests, and whatever the registries answer: keys stay unique, *)
(* accounts belong to confirmed numbers, conflicts are real and the cache  *)
(* spares calls.                                                           *)
(***************************************************************************)
EXTENDS Registration, TLAPS

Shapes == RequestRecords \cup NotFound \cup Conflict \cup {Idle}

(* KeysOf, of a request's record. *)
KeysIn(q) == [users |-> q.email, citizen_identities |-> q.number, platform_ids |-> q.pid]

(* What is known of a number once it is resolved, and of a platform id     *)
(* once it is made.                                                        *)
ResolvedSound(q) ==
    /\ q.step = "cache" => q.number \in Nids
    /\ q.step = "store" => q.number \in Nids
    /\ q.step \in {"store", "email", "identity", "transaction"} => q.number \in confirmed
    /\ q.step = "transaction" => q.pid \in Pids

(* A call that is out while the cache has its record was sent before. *)
CallSound(q) == q.step = "registry" /\ q.number \in cache => q.late

(* Rows are inserted in the transaction only, and no account has them. *)
RowsSound(q) ==
    /\ q.step \in Steps \ {"transaction"} => q.rows = {}
    /\ q.step = "transaction" => \A t \in q.rows : ~Taken(t, KeysIn(q)[t])

(* A conflict names a key that is taken. *)
AnswerSound(q) ==
    q.step = "answered" /\ q.code = 409 => \E t \in Tables : Taken(t, q.keys[t])

Sound(q) == ResolvedSound(q) /\ CallSound(q) /\ RowsSound(q) /\ AnswerSound(q)

(* Two open transactions never hold the same key. *)
Apart(p, q) ==
    p.step = "transaction" /\ q.step = "transaction" =>
        \A t \in p.rows \cap q.rows : KeysIn(p)[t] # KeysIn(q)[t]

ActiveConfirmed == \A i \in Identities : registry[i] = "active" => i \in confirmed
RequestsSound == \A r \in Requests : Sound(req[r])
RequestsApart == \A r, o \in Requests : r # o => Apart(req[r], req[o])

IInv ==
    /\ TypeOK /\ ActiveConfirmed /\ RequestsSound /\ RequestsApart
    /\ KeysUnique /\ IdentityConfirmed

-----------------------------------------------------------------------------
(* Records and their shapes *)

(* A busy request is a full record. *)
LEMMA BusyShape ==
    ASSUME TypeOK, NEW r \in Requests, Busy(r)
    PROVE  req[r] \in RequestRecords
BY DEF TypeOK, Busy, Steps, NotFound, Conflict, Idle

(* The keys of a request are those of its record. *)
LEMMA KeysOfIsIn ==
    ASSUME NEW r
    PROVE  KeysOf(r) = KeysIn(req[r])
BY DEF KeysOf, KeysIn

(* Sound requests stay sound when nothing they rest on changes. *)
LEMMA OneRequest ==
    ASSUME IInv, NEW r \in Requests, NEW x \in Shapes,
           req' = [req EXCEPT ![r] = x], UNCHANGED <<registry, confirmed, cache, accounts>>,
           Sound(x), \A o \in Requests \ {r} : Apart(x, req[o])
    PROVE  IInv'
<1>1. req'[r] = x /\ \A o \in Requests \ {r} : req'[o] = req[o]
  BY DEF IInv, TypeOK
<1>2. TypeOK'
  BY DEF IInv, TypeOK, Shapes
<1>3. ActiveConfirmed' /\ KeysUnique' /\ IdentityConfirmed'
  BY DEF IInv, ActiveConfirmed, KeysUnique, IdentityConfirmed
<1>4. RequestsSound'
  BY <1>1 DEF IInv, RequestsSound, Sound, ResolvedSound, CallSound, RowsSound, AnswerSound, Taken
<1>5. RequestsApart'
  <2>1. ASSUME NEW o \in Requests \ {r}
        PROVE  Apart(x, req[o]) /\ Apart(req[o], x)
    BY DEF Apart
  <2>2. QED
    BY <1>1, <2>1 DEF IInv, RequestsApart
<1>6. QED
  BY <1>2, <1>3, <1>4, <1>5 DEF IInv

(* A request that ends without a conflict. *)
LEMMA EndRequest ==
    ASSUME IInv, NEW r \in Requests, NEW x \in NotFound \cup {Idle}, Finish(r, x),
           UNCHANGED <<registry, confirmed, cache, accounts>>
    PROVE  IInv'
<1>1. x \in Shapes /\ req' = [req EXCEPT ![r] = x]
  BY DEF Shapes, Finish
<1>2. x.step \in {"answered", "idle"} /\ (x.step = "answered" => x.code = 404)
  BY DEF NotFound, Idle
<1>3. Sound(x)
  BY <1>2 DEF Sound, ResolvedSound, CallSound, RowsSound, AnswerSound, Steps
<1>4. \A o \in Requests \ {r} : Apart(x, req[o])
  BY <1>2 DEF Apart
<1>5. QED
  BY <1>1, <1>3, <1>4, OneRequest

(* A request that ends with a conflict, over a key that is taken. *)
LEMMA EndConflict ==
    ASSUME IInv, NEW r \in Requests, Busy(r), Collide(r),
           NEW t \in Tables, Taken(t, KeysIn(req[r])[t]),
           UNCHANGED <<registry, confirmed, cache, accounts>>
    PROVE  IInv'
<1> DEFINE x == [step |-> "answered", code |-> 409, keys |-> KeysIn(req[r])]
<1>1. req' = [req EXCEPT ![r] = x]
  BY KeysOfIsIn DEF Collide, Finish
<1>2. x \in Shapes
  <2>1. req[r] \in RequestRecords
    BY BusyShape DEF IInv
  <2>2. KeysIn(req[r]) \in Wanted
    BY <2>1 DEF KeysIn, RequestRecords, Wanted
  <2>3. QED
    BY <2>2 DEF Conflict, Shapes
<1>3. Sound(x)
  BY DEF Sound, ResolvedSound, CallSound, RowsSound, AnswerSound, Steps
<1>4. \A o \in Requests \ {r} : Apart(x, req[o])
  BY DEF Apart
<1>5. QED
  BY <1>1, <1>2, <1>3, <1>4, OneRequest

(* A request that goes a step on, before its transaction. *)
LEMMA GoOn ==
    ASSUME IInv, NEW r \in Requests, Busy(r), ~At(r, "transaction"),
           NEW step \in Steps \ {"transaction"}, Go(r, step),
           step # "cache",
           step \in {"store", "email", "identity"} => req[r].number \in confirmed,
           step = "store" => req[r].number \in Nids,
           step = "registry" => req[r].number \notin cache,
           UNCHANGED <<registry, confirmed, cache, accounts>>
    PROVE  IInv'
<1> DEFINE x == [req[r] EXCEPT !.step = step]
<1>1. req[r] \in RequestRecords
  BY BusyShape DEF IInv
<1>2. x \in RequestRecords /\ x.step = step /\ x.number = req[r].number /\ x.rows = req[r].rows
  BY <1>1 DEF RequestRecords
<1>3. req' = [req EXCEPT ![r] = x]
  BY DEF Go
<1>4. req[r].rows = {}
  BY DEF IInv, RequestsSound, Sound, RowsSound, At, Busy
<1>5. Sound(x)
  BY <1>2, <1>4 DEF Sound, ResolvedSound, CallSound, RowsSound, AnswerSound, Steps
<1>6. \A o \in Requests \ {r} : Apart(x, req[o])
  BY <1>2 DEF Apart
<1>7. QED
  BY <1>2, <1>3, <1>5, <1>6, OneRequest DEF Shapes

(* An answer that is neither 404 nor 409. *)
LEMMA EndAnswer ==
    ASSUME IInv, NEW r \in Requests, NEW code, Answer(r, code),
           UNCHANGED <<registry, confirmed, cache, accounts>>
    PROVE  IInv'
BY EndRequest DEF Answer

(* A 404. *)
LEMMA EndRefuse ==
    ASSUME IInv, NEW r \in Requests, NEW heard \in Standings \cup {"error"}, Refuse(r, heard),
           UNCHANGED <<registry, confirmed, cache, accounts>>
    PROVE  IInv'
<1>1. [step |-> "answered", code |-> 404, heard |-> heard] \in NotFound
  BY DEF NotFound
<1>2. QED
  BY <1>1, EndRequest DEF Refuse

-----------------------------------------------------------------------------
(* The actions *)

(* Nothing is there yet. *)
LEMMA InitSound == Init => IInv
<1>1. ASSUME Init
      PROVE  TypeOK
  BY <1>1 DEF Init, TypeOK
<1>2. ASSUME Init, NEW r \in Requests
      PROVE  req[r] = Idle /\ Idle.step = "idle"
  BY <1>2 DEF Init, Idle
<1>3. ASSUME Init
      PROVE  RequestsSound /\ RequestsApart
  BY <1>2, <1>3 DEF RequestsSound, RequestsApart, Sound, ResolvedSound, CallSound, RowsSound,
     AnswerSound, Apart, Steps
<1>4. ASSUME Init
      PROVE  ActiveConfirmed /\ KeysUnique /\ IdentityConfirmed
  BY <1>4 DEF Init, ActiveConfirmed, KeysUnique, IdentityConfirmed
<1>5. QED
  BY <1>1, <1>3, <1>4 DEF IInv

(* A number that is not a citizen's goes to its registry at once. *)
LEMMA ArriveSound ==
    ASSUME IInv, NEW r \in Requests, NEW op \in {"lookup", "register"},
           NEW step \in {"cache", "registry"}, NEW e \in Emails, NEW i \in Identities,
           step = "cache" => i \in Nids, step = "registry" => i \notin Nids,
           Arrive(r, op, step, e, i)
    PROVE  IInv'
<1> DEFINE x == [op |-> op, step |-> step, email |-> e, number |-> i,
                 pid |-> NoPid, rows |-> {}, late |-> FALSE]
<1>1. x \in Shapes
  BY DEF Shapes, RequestRecords, Steps
<1>2. req' = [req EXCEPT ![r] = x]
  BY DEF Arrive
<1>3. Sound(x)
  <2>1. i \in cache => i \in Nids
    BY DEF IInv, TypeOK
  <2>2. QED
    BY <2>1 DEF Sound, ResolvedSound, CallSound, RowsSound, AnswerSound, Steps
<1>4. \A o \in Requests \ {r} : Apart(x, req[o])
  BY DEF Apart
<1>5. QED
  BY <1>1, <1>2, <1>3, <1>4, OneRequest DEF Arrive

(* A request comes in. *)
LEMMA CallSoundStep ==
    ASSUME IInv, NEW r \in Requests, Call(r)
    PROVE  IInv'
<1>1. ASSUME NEW n \in Nids, Lookup(r, n)
      PROVE  IInv'
  BY <1>1, EmailsAssumption, ArriveSound DEF Lookup, Identities
<1>2. ASSUME NEW e \in Emails, NEW i \in Identities, Register(r, e, i)
      PROVE  IInv'
  <2>1. CASE i \in Nids
    BY <1>2, <2>1, ArriveSound DEF Register
  <2>2. CASE i \notin Nids
    BY <1>2, <2>2, ArriveSound DEF Register
  <2>3. QED
    BY <2>1, <2>2
<1>3. QED
  BY <1>1, <1>2 DEF Call

(* A hit is a confirmed number; a miss goes to the registry. *)
LEMMA CheckCacheSound ==
    ASSUME IInv, NEW r \in Requests, CheckCache(r)
    PROVE  IInv'
<1>1. Busy(r) /\ ~At(r, "transaction") /\ At(r, "cache")
  BY DEF CheckCache, Busy, At, Steps
<1>2. CASE Hit(req[r].number)
  <2>1. req[r].number \in confirmed
    BY <1>2 DEF Hit, IInv, TypeOK
  <2>2. CASE req[r].op = "lookup"
    BY <1>2, <2>2, EndAnswer DEF CheckCache, Resolved
  <2>3. CASE req[r].op # "lookup"
    BY <1>1, <1>2, <2>1, <2>3, GoOn DEF CheckCache, Resolved, Steps
  <2>4. QED
    BY <2>2, <2>3
<1>3. CASE ~Hit(req[r].number)
  BY <1>1, <1>3, GoOn DEF CheckCache, Hit, Steps
<1>4. QED
  BY <1>2, <1>3

(* An accepted number is active now, so it is confirmed. *)
LEMMA AnswersSound ==
    ASSUME IInv, NEW r \in Requests, RegistryAnswers(r)
    PROVE  IInv'
<1>1. Busy(r) /\ At(r, "registry")
  BY DEF RegistryAnswers, Busy, At, Steps
<1>2. req[r] \in RequestRecords /\ req[r].rows = {}
  BY <1>1, BusyShape DEF IInv, RequestsSound, Sound, RowsSound, At, Steps
<1>3. UNCHANGED <<registry, confirmed, cache, accounts>>
  BY DEF RegistryAnswers
<1>4. ASSUME Refuse(r, registry[req[r].number])
      PROVE  IInv'
  <2>1. registry[req[r].number] \in Standings
    BY <1>2 DEF RequestRecords, IInv, TypeOK
  <2>2. QED
    BY <1>3, <1>4, <2>1, EndRefuse
<1>5. ASSUME NEW code, Answer(r, code)
      PROVE  IInv'
  BY <1>3, <1>5, EndAnswer
<1> DEFINE x == [req[r] EXCEPT !.step = IF IsCitizen(r) THEN "store" ELSE "email", !.late = FALSE]
<1>6. ASSUME Accepted(req[r].number), req' = [req EXCEPT ![r] = x]
      PROVE  IInv'
  <2>1. /\ x \in RequestRecords /\ x.number = req[r].number /\ x.rows = {}
        /\ x.step = IF IsCitizen(r) THEN "store" ELSE "email"
    BY <1>2 DEF RequestRecords, Steps
  <2>2. req[r].number \in confirmed
    BY <1>2, <1>6 DEF Accepted, IInv, ActiveConfirmed, RequestRecords
  <2>3. Sound(x)
    BY <2>1, <2>2 DEF Sound, ResolvedSound, CallSound, RowsSound, AnswerSound, IsCitizen
  <2>4. \A o \in Requests \ {r} : Apart(x, req[o])
    BY <2>1 DEF Apart
  <2>5. QED
    BY <1>3, <1>6, <2>1, <2>3, <2>4, OneRequest DEF Shapes
<1>7. QED
  BY <1>4, <1>5, <1>6 DEF RegistryAnswers

(* The registry fails, or does not answer in time. *)
LEMMA FailsSound ==
    ASSUME IInv, NEW r \in Requests, RegistryFails(r) \/ TimeOut(r)
    PROVE  IInv'
BY EndRefuse, EndAnswer DEF RegistryFails, TimeOut

(* The record is stored: who still calls for it is late from now on. *)
LEMMA StoreSound ==
    ASSUME IInv, NEW r \in Requests, StoreInCache(r)
    PROVE  IInv'
<1> DEFINE n == req[r].number
           x == IF req[r].op = "lookup" THEN Idle ELSE [req[r] EXCEPT !.step = "email"]
<1>1. Busy(r) /\ req[r] \in RequestRecords /\ req[r].rows = {}
  BY BusyShape DEF StoreInCache, IInv, RequestsSound, Sound, RowsSound, At, Busy, Steps
<1>2. n \in Nids /\ n \in confirmed
  BY DEF StoreInCache, IInv, RequestsSound, Sound, ResolvedSound, At
<1>3. /\ x \in Shapes /\ x.step \in {"idle", "email"}
      /\ x.step = "email" => x.number = n /\ x.rows = {}
  BY <1>1 DEF RequestRecords, Shapes, Idle, Steps
<1>4. ASSUME NEW o \in Requests
      PROVE  /\ Overtaken(o, n) \in Shapes
             /\ Overtaken(o, n).step = req[o].step
             /\ At(o, "registry") => /\ Overtaken(o, n) \in RequestRecords
                                     /\ Overtaken(o, n).number = req[o].number
                                     /\ Overtaken(o, n).rows = req[o].rows
                                     /\ req[o].number = n => Overtaken(o, n).late
                                     /\ req[o].late => Overtaken(o, n).late
             /\ ~At(o, "registry") => Overtaken(o, n) = req[o]
  <2>1. CASE ~At(o, "registry")
    BY <2>1 DEF Overtaken, IInv, TypeOK, Shapes
  <2>2. CASE At(o, "registry")
    <3>1. req[o] \in RequestRecords
      BY <2>2, BusyShape DEF At, Busy, Steps, IInv
    <3>2. QED
      BY <2>2, <3>1 DEF Overtaken, RequestRecords, Shapes, At
  <2>3. QED
    BY <2>1, <2>2
<1>5. ~At(r, "registry") /\ Overtaken(r, n) = req[r]
  BY DEF StoreInCache, At, Overtaken
<1>6. /\ req' \in [Requests -> Shapes] /\ req'[r] = x
      /\ \A o \in Requests \ {r} : req'[o] = Overtaken(o, n)
  <2>1. req' = [[o \in Requests |-> Overtaken(o, n)] EXCEPT ![r] =
                  IF Overtaken(r, n).op = "lookup" THEN Idle
                  ELSE [Overtaken(r, n) EXCEPT !.step = "email"]]
    BY DEF StoreInCache
  <2>2. QED
    BY <1>3, <1>4, <1>5, <2>1
<1>7. cache' = cache \cup {n} /\ UNCHANGED <<registry, confirmed, accounts>>
  BY DEF StoreInCache
<1>8. TypeOK'
  BY <1>2, <1>6, <1>7 DEF IInv, TypeOK, Shapes
<1>9. ActiveConfirmed' /\ KeysUnique' /\ IdentityConfirmed'
  BY <1>7 DEF IInv, ActiveConfirmed, KeysUnique, IdentityConfirmed
<1>10. RequestsSound'
  <2>1. ASSUME NEW o \in Requests
        PROVE  Sound(req[o])'
    <3>1. CASE o = r
      BY <1>2, <1>3, <1>6, <1>7, <3>1
         DEF Sound, ResolvedSound, CallSound, RowsSound, AnswerSound, Steps
    <3>2. CASE o # r /\ At(o, "registry")
      <4>1. /\ req'[o].step = "registry" /\ req'[o].number = req[o].number
            /\ req'[o].rows = req[o].rows
            /\ req[o].number = n => req'[o].late
            /\ req[o].late => req'[o].late
        BY <1>4, <1>6, <3>2 DEF At
      <4>2. Sound(req[o])
        BY DEF IInv, RequestsSound
      <4>3. QED
        BY <1>7, <3>2, <4>1, <4>2
           DEF Sound, ResolvedSound, CallSound, RowsSound, AnswerSound, At, Steps
    <3>3. CASE o # r /\ ~At(o, "registry")
      <4>1. req'[o] = req[o] /\ req[o].step # "registry"
        BY <1>4, <1>6, <3>3 DEF At
      <4>2. Sound(req[o])
        BY DEF IInv, RequestsSound
      <4>3. QED
        BY <1>7, <4>1, <4>2
           DEF Sound, ResolvedSound, CallSound, RowsSound, AnswerSound, Taken
    <3>4. QED
      BY <3>1, <3>2, <3>3
  <2>2. QED
    BY <2>1 DEF RequestsSound
<1>11. RequestsApart'
  <2>1. ASSUME NEW o \in Requests, req'[o].step = "transaction"
        PROVE  req'[o] = req[o]
    BY <1>3, <1>4, <1>6, <2>1 DEF At
  <2>2. QED
    BY <2>1 DEF IInv, RequestsApart, Apart
<1>12. QED
  BY <1>8, <1>9, <1>10, <1>11 DEF IInv

(* The address is free, or the conflict is over it. *)
LEMMA CheckEmailSound ==
    ASSUME IInv, NEW r \in Requests, CheckEmail(r)
    PROVE  IInv'
<1>1. Busy(r) /\ ~At(r, "transaction") /\ req[r].number \in confirmed
  BY DEF CheckEmail, Busy, At, Steps, IInv, RequestsSound, Sound, ResolvedSound
<1>2. CASE Taken("users", req[r].email)
  <2>1. Taken("users", KeysIn(req[r])["users"]) /\ "users" \in Tables
    BY <1>2 DEF KeysIn, Tables
  <2>2. QED
    BY <1>1, <1>2, <2>1, EndConflict DEF CheckEmail
<1>3. CASE ~Taken("users", req[r].email)
  BY <1>1, <1>3, GoOn DEF CheckEmail, Steps
<1>4. QED
  BY <1>2, <1>3

(* The identity is free and a transaction opens, or the conflict is over   *)
(* the identity.                                                           *)
LEMMA CheckIdentitySound ==
    ASSUME IInv, NEW r \in Requests, CheckIdentity(r)
    PROVE  IInv'
<1>1. Busy(r) /\ req[r].number \in confirmed /\ req[r].rows = {}
  BY DEF CheckIdentity, Busy, At, Steps, IInv, RequestsSound, Sound, ResolvedSound, RowsSound
<1>2. UNCHANGED <<registry, confirmed, cache, accounts>>
  BY DEF CheckIdentity
<1>3. ASSUME Taken("citizen_identities", req[r].number), Collide(r)
      PROVE  IInv'
  <2>1. /\ Taken("citizen_identities", KeysIn(req[r])["citizen_identities"])
        /\ "citizen_identities" \in Tables
    BY <1>3 DEF KeysIn, Tables
  <2>2. QED
    BY <1>1, <1>2, <1>3, <2>1, EndConflict
<1>4. ASSUME NEW p \in Pids, req' = [req EXCEPT ![r].step = "transaction", ![r].pid = p]
      PROVE  IInv'
  <2> DEFINE x == [req[r] EXCEPT !.step = "transaction", !.pid = p]
  <2>1. req[r] \in RequestRecords
    BY <1>1, BusyShape DEF IInv
  <2>2. /\ x \in RequestRecords /\ x.step = "transaction" /\ x.rows = {}
        /\ x.number = req[r].number /\ x.pid = p
    BY <1>1, <2>1 DEF RequestRecords, Steps
  <2>3. Sound(x)
    BY <1>1, <2>2 DEF Sound, ResolvedSound, CallSound, RowsSound, AnswerSound
  <2>4. \A o \in Requests \ {r} : Apart(x, req[o])
    BY <2>2 DEF Apart
  <2>5. req' = [req EXCEPT ![r] = x]
    BY <1>4
  <2>6. QED
    BY <1>2, <2>2, <2>3, <2>4, <2>5, OneRequest DEF Shapes
<1>5. QED
  BY <1>3, <1>4 DEF CheckIdentity, Generate

(* A row goes in only if neither an account nor an open transaction has    *)
(* its key.                                                                *)
LEMMA InsertRowSound ==
    ASSUME IInv, NEW r \in Requests, NEW t \in Tables, InsertRow(r, t)
    PROVE  IInv'
<1>1. Busy(r) /\ At(r, "transaction")
  BY DEF InsertRow, Busy, At, Steps
<1>2. UNCHANGED <<registry, confirmed, cache, accounts>>
  BY DEF InsertRow
<1>3. CASE Violates(r, t)
  <2>1. Taken(t, KeysIn(req[r])[t])
    BY <1>3, KeysOfIsIn DEF Violates
  <2>2. QED
    BY <1>1, <1>2, <1>3, <2>1, EndConflict DEF InsertRow
<1>4. CASE ~Violates(r, t)
  <2> DEFINE x == [req[r] EXCEPT !.rows = @ \cup {t}]
  <2>1. req' = [req EXCEPT ![r] = x] /\ ~Locked(r, t)
    BY <1>4 DEF InsertRow
  <2>2. req[r] \in RequestRecords
    BY <1>1, BusyShape DEF IInv
  <2>3. /\ x \in RequestRecords /\ x.step = "transaction" /\ x.rows = req[r].rows \cup {t}
        /\ x.number = req[r].number /\ x.pid = req[r].pid /\ x.email = req[r].email
    BY <1>1, <2>2 DEF RequestRecords, At
  <2>4. KeysIn(x) = KeysIn(req[r])
    BY <2>3 DEF KeysIn
  <2>5. Sound(req[r])
    BY DEF IInv, RequestsSound
  <2>6. ~Taken(t, KeysIn(req[r])[t])
    BY <1>4, KeysOfIsIn DEF Violates
  <2>7. Sound(x)
    <3>1. ResolvedSound(x) /\ CallSound(x) /\ AnswerSound(x)
      BY <1>1, <2>3, <2>5 DEF Sound, ResolvedSound, CallSound, AnswerSound, At
    <3>2. RowsSound(x)
      BY <1>1, <2>3, <2>4, <2>5, <2>6 DEF Sound, RowsSound, At
    <3>3. QED
      BY <3>1, <3>2 DEF Sound
  <2>8. ASSUME NEW o \in Requests \ {r}
        PROVE  Apart(x, req[o])
    <3>1. Apart(req[r], req[o])
      BY DEF IInv, RequestsApart
    <3>2. req[o].step = "transaction" /\ t \in req[o].rows =>
            KeysIn(req[o])[t] # KeysIn(req[r])[t]
      BY <2>1, KeysOfIsIn DEF Locked, At
    <3>3. QED
      BY <1>1, <2>3, <2>4, <3>1, <3>2 DEF Apart, At
  <2>9. QED
    BY <1>2, <2>1, <2>3, <2>7, <2>8, OneRequest DEF Shapes
<1>5. QED
  BY <1>3, <1>4

(* The account a transaction leaves shares no key with another account, or *)
(* with a row of another transaction.                                      *)
LEMMA CommitSound ==
    ASSUME IInv, NEW r \in Requests, Commit(r)
    PROVE  IInv'
<1> DEFINE k == KeysIn(req[r])
<1>1. Busy(r) /\ At(r, "transaction") /\ req[r].rows = Tables
  BY DEF Commit, Busy, At, Steps
<1>2. req[r] \in RequestRecords
  BY <1>1, BusyShape DEF IInv
<1>3. /\ req' = [req EXCEPT ![r] = Idle] /\ accounts' = accounts \cup {k}
      /\ UNCHANGED <<registry, confirmed, cache>>
  BY KeysOfIsIn DEF Commit, Answer, Finish
<1>4. /\ req'[r] = Idle /\ Idle.step = "idle"
      /\ \A o \in Requests \ {r} : req'[o] = req[o]
  BY <1>3 DEF IInv, TypeOK, Idle
<1>5. req[r].number \in confirmed /\ req[r].pid \in Pids /\ \A t \in Tables : ~Taken(t, k[t])
  BY <1>1 DEF IInv, RequestsSound, Sound, ResolvedSound, RowsSound, At
<1>6. k \in Keys /\ k.citizen_identities = req[r].number
  BY <1>2, <1>5 DEF KeysIn, Keys, RequestRecords
<1>7. TypeOK'
  BY <1>3, <1>6 DEF IInv, TypeOK, Shapes
<1>8. ActiveConfirmed' /\ IdentityConfirmed'
  BY <1>3, <1>5, <1>6 DEF IInv, ActiveConfirmed, IdentityConfirmed
<1>9. KeysUnique'
  BY <1>3, <1>5 DEF IInv, KeysUnique, Taken
<1>10. ASSUME NEW o \in Requests
       PROVE  Sound(req[o])'
  <2>1. CASE o = r
    BY <1>4, <2>1 DEF Sound, ResolvedSound, CallSound, RowsSound, AnswerSound, Steps
  <2>2. CASE o # r
    <3>1. req'[o] = req[o] /\ Sound(req[o]) /\ Apart(req[r], req[o])
      BY <1>4, <2>2 DEF IInv, RequestsSound, RequestsApart
    <3>2. ResolvedSound(req[o])' /\ CallSound(req[o])'
      BY <1>3, <3>1 DEF Sound, ResolvedSound, CallSound
    <3>3. AnswerSound(req[o])'
      BY <1>3, <3>1 DEF Sound, AnswerSound, Taken
    <3>4. RowsSound(req[o])'
      <4>1. CASE At(o, "transaction")
        <5>1. req[o].rows \subseteq Tables
          BY <4>1, BusyShape DEF IInv, Busy, At, Steps, RequestRecords
        <5>2. \A t \in req[o].rows : k[t] # KeysIn(req[o])[t] /\ ~Taken(t, KeysIn(req[o])[t])
          BY <1>1, <3>1, <4>1, <5>1 DEF Apart, Sound, RowsSound, At
        <5>3. ASSUME NEW t \in req[o].rows, Taken(t, KeysIn(req[o])[t])'
              PROVE  FALSE
          <6>1. PICK a \in accounts' : a[t] = KeysIn(req[o])[t]
            BY <3>1, <5>3 DEF Taken, KeysIn
          <6>2. QED
            BY <1>3, <5>2, <6>1 DEF Taken
        <5>4. QED
          BY <3>1, <4>1, <5>3 DEF RowsSound, At
      <4>2. CASE ~At(o, "transaction")
        BY <3>1, <4>2 DEF Sound, RowsSound, At
      <4>3. QED
        BY <4>1, <4>2
    <3>5. QED
      BY <3>2, <3>3, <3>4 DEF Sound
  <2>3. QED
    BY <2>1, <2>2
<1>11. RequestsApart'
  BY <1>4 DEF IInv, RequestsApart, Apart
<1>12. QED
  BY <1>7, <1>8, <1>9, <1>10, <1>11 DEF IInv, RequestsSound

(* What the registries and the cache do alone. *)
LEMMA OutsideSound ==
    ASSUME IInv,
           \/ \E i \in Identities : RegistryChanges(i)
           \/ \E n \in Nids : EntryExpires(n)
           \/ UNCHANGED vars
    PROVE  IInv'
<1>1. /\ UNCHANGED <<accounts, req>> /\ confirmed \subseteq confirmed' /\ cache' \subseteq cache
      /\ registry' \in [Identities -> Standings] /\ confirmed' \subseteq Identities
      /\ ActiveConfirmed'
  <2>1. ASSUME NEW i \in Identities, RegistryChanges(i)
        PROVE  <1>1
    BY <2>1 DEF RegistryChanges, IInv, TypeOK, ActiveConfirmed
  <2>2. ASSUME NEW n \in Nids, EntryExpires(n)
        PROVE  <1>1
    BY <2>2 DEF EntryExpires, IInv, TypeOK, ActiveConfirmed
  <2>3. ASSUME UNCHANGED vars
        PROVE  <1>1
    BY <2>3 DEF vars, IInv, TypeOK, ActiveConfirmed
  <2>4. QED
    BY <2>1, <2>2, <2>3
<1>2. TypeOK' /\ KeysUnique' /\ IdentityConfirmed' /\ RequestsApart'
  BY <1>1 DEF IInv, TypeOK, KeysUnique, IdentityConfirmed, RequestsApart
<1>3. RequestsSound'
  BY <1>1 DEF IInv, RequestsSound, Sound, ResolvedSound, CallSound, RowsSound, AnswerSound, Taken
<1>4. QED
  BY <1>1, <1>2, <1>3 DEF IInv

LEMMA StepSound == IInv /\ [Next]_vars => IInv'
<1>1. ASSUME IInv, NEW r \in Requests, Serve(r)
      PROVE  IInv'
  BY <1>1, CheckCacheSound, FailsSound, StoreSound, CheckEmailSound, CheckIdentitySound,
     InsertRowSound, CommitSound DEF Serve
<1>2. ASSUME IInv, NEW r \in Requests, Fail(r)
      PROVE  IInv'
  BY <1>2, EndAnswer DEF Fail
<1>3. ASSUME IInv, NEW r \in Requests, RegistryAnswers(r) \/ RegistryFails(r) \/ Call(r)
      PROVE  IInv'
  BY <1>3, AnswersSound, FailsSound, CallSoundStep
<1>4. QED
  BY <1>1, <1>2, <1>3, OutsideSound DEF Next

-----------------------------------------------------------------------------
(* The theorems *)

LEMMA AlwaysSound == Spec => []IInv
BY InitSound, StepSound, PTL DEF Spec

(* Registries, cache, accounts and requests keep their shape, and only     *)
(* confirmed citizens are cached, for any numbers, addresses and requests. *)
THEOREM TypeCorrect == Spec => []TypeOK
<1>1. IInv => TypeOK
  BY DEF IInv
<1>2. QED
  BY <1>1, AlwaysSound, PTL

(* register never makes two accounts with the same address, identity or    *)
(* platform id, whatever the interleaving of checks and transactions.      *)
THEOREM KeysStayUnique == Spec => []KeysUnique
<1>1. IInv => KeysUnique
  BY DEF IInv
<1>2. QED
  BY <1>1, AlwaysSound, PTL

(* register makes accounts only for numbers that were active at their      *)
(* registry, be it through the cache.                                      *)
THEOREM AccountsConfirmed == Spec => []IdentityConfirmed
<1>1. IInv => IdentityConfirmed
  BY DEF IInv
<1>2. QED
  BY <1>1, AlwaysSound, PTL

(* A 409 of register is over a key that an account has; an open or undone  *)
(* transaction of a rival is never the cause.                              *)
THEOREM ConflictsReal == Spec => []ConflictIsReal
<1>1. IInv => ConflictIsReal
  BY DEF IInv, RequestsSound, Sound, AnswerSound, ConflictIsReal
<1>2. QED
  BY <1>1, AlwaysSound, PTL

(* lookupCitizen calls the registry for a cached number only if the call   *)
(* was out before the entry.                                               *)
THEOREM CallsSpared == Spec => []CacheSparesCalls
<1>1. IInv => CacheSparesCalls
  BY DEF IInv, RequestsSound, Sound, CallSound, CacheSparesCalls, At
<1>2. QED
  BY <1>1, AlwaysSound, PTL
=============================================================================
