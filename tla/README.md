# TLA+ models of the Gracon user-auth service

The service (NestJS, Prisma/PostgreSQL, S3) keeps the accounts of citizens: registration against a
national registry, e-mail verification, login with rotating refresh tokens, password reset, identity
verification by an external image engine, profile images, preferences and a feed of security events. Its logic is a set of HTTP handlers, each a short sequence of
database statements and external calls with an `await` between any two, and no lock but those PostgreSQL takes. What can go wrong
is what happens *between* those awaits, and this directory models that: every statement is an action, and
every other handler may run between two of them.

Paths below are relative to the service's root; `PROJECT.json` maps every definition to its lines.

## 1. Inventory

| Component | Code | State | Operations | Modelled in |
|---|---|---|---|---|
| Refresh-token sessions | `src/modules/auth/auth.service.ts`, `auth.controller.ts` | `refresh_tokens`; the in-memory map `pendingRefreshes` | login, refresh, upgrade, logout, logout-all, `upgradeToken`, `generateTokens` | `Sessions` |
| Nightly clean-up | `src/common/tasks/token-cleanup.task.ts` | deletes rows of `refresh_tokens` | `cleanupExpiredTokens` (cron) | `Sessions` |
| JWT strategy, guard | `auth/strategies/jwt.strategy.ts`, `common/guards/jwt-auth.guard.ts` | none; re-reads the account on every call | `validate`, `canActivate` | `Authorized` in `Sessions` |
| Password reset | `auth/password-reset.service.ts` | `password_reset_tokens`, `users.passwordHash` | `requestReset`, `validateResetToken`, `resetPassword` | `PasswordReset`; its effect on sessions in `Sessions` |
| Password change | `modules/users/users.service.ts` | `users.passwordHash`, `refresh_tokens` | `changePassword` | `Sessions` |
| Account e-mail | `modules/users/users.service.ts` | `users.email/isVerified/isActive`, `email_verification_tokens` (one row per user) | `register`, `verifyEmail`, `resendVerificationEmail`, `updateProfile` | `AccountEmail`; the session that `verifyEmail` returns in `Sessions` |
| Identity verification | `modules/verification/verification.service.ts` | `users.isIdVerified`, `verificationAttempts`, `id_verifications` | `submitVerification`, `getVerificationStatus` | `IdentityVerification`; its session upgrade in `Sessions` |
| Object storage | `common/aws/s3/s3.service.ts` | S3 objects | uploads, `deleteObject(s)`, presigned URLs | the verification images in `IdentityVerification`, the profile images in `Profile` |
| Mailer | `common/mailer/mailer.service.ts` | none | sends, logs failures, never throws | the `Mail` steps |
| Profile image | `users.service.ts` `uploadProfileImage` | `users.imageUrl`, S3 | delete, upload, update | `Profile` |
| Invitation preferences | `users.service.ts`, `user-preferences.helper.ts` | `user_preferences` | read, merge, upsert | `Profile` |
| Citizen lookup | `modules/citizen/citizen.service.ts` | the in-memory cache | `lookupCitizen`: cache, registry call, error classes | `Registration` |
| Foreign identity, platform id | `modules/foreign-identity`, `common/pid` | none | one HTTP call; id generation | `Registration` |
| Registration | `users.service.ts` `register` | `users`, `citizen_identities`, `platform_ids`, `email_verification_tokens` | identity lookup, checks, one transaction | `Registration`; what becomes of the address in `AccountEmail` |
| Security events, activity feed | `common/security/security-event.service.ts`, `users.service.ts` `getActivity` | `security_event_logs` | fire-and-forget inserts, paginated read | `Activity` |
| Throttling, crypto, exception filters, configuration, documentation, seeding | `common/guards/throttler.guard.ts`, `common/crypto`, `common/filters`, `config`, `main.ts`, … | none that a handler's correctness depends on | | not modelled, see section 8 |

How they interact:

- `POST /auth/refresh` and `/auth/session/upgrade` share `runSingleFlightRefresh`: calls with the same token
  that arrive while one is rotating get the promise of the first one.
- `UsersService.verifyEmail` and `VerificationService.submitVerification` write sessions outside
  the login and refresh routes (`generatePostEmailVerificationTokens`, `AuthService.upgradeToken`); `changePassword` and `resetPassword` revoke
  them inside their own transactions; `updateProfile` locks the account, which the JWT strategy notices at the
  next call because it re-reads the account. The transaction of a new password goes by a predicate under READ COMMITTED: a row that a
  login or a rotation inserts after its `updateMany` and before its COMMIT escapes it.
- The clean-up deletes rows that a rotation may have read a moment ago.
- `updateProfile`, `verifyEmail` and `resendVerificationEmail` write the same two rows by id.
- The verification's two uploads run in parallel and outlive a handler that gives up on them.
- `register` reaches the citizen API through `CitizenService`, which `POST /citizen/lookup` calls too: both fill and use one cache.
- Handlers report to `SecurityEventService` without awaiting it; `getActivity` reads the rows.

Hard behaviours: statements of different handlers in any order; a value read before an await and used after
it (password comparison, `isIdVerified`, a link's `used` flag, the attempt count, the revoked flag of a token);
joiners of a shared promise; a failure or a restart between two statements; lost mails; uploads that fail at
the client but arrive; expiry and clean-up at any moment; duplicated calls; registries that change, fail or never answer;
transactions that meet in a unique index; event rows that land late or never; pages of a list that grows. `PROJECT.json` `hazards` lists
them at their lines with the properties aimed at each.

What makes each component correct: a refresh token is rotated once, and duplicates are not taken for theft;
dead sessions stay dead; full sessions belong to verified citizens; password changes end sessions; a link is
used once; a verified address has been proven and a locked account can be unlocked; the
number of attempts is limited; the engine is called with images that exist, and images do not linger; a number that its
registry confirms gets one account at most, and every caller an answer; the row of a user names an image that is there; an update of some preferences
leaves the others alone; events report what was done, and a reader of the feed misses none.

## 2. Modules

```
TokenLedger          what the refresh-token table promises (abstract)
   ^ refined by                                                                   SessionsRefinement
Sessions             all handlers that touch sessions, statement by statement     SessionsProofs
PasswordReset        reset links                                                  PasswordResetProofs
AccountEmail         addresses and verification links                             AccountEmailProofs
IdentityVerification submissions, images, engine, audit log                       IdentityVerificationProofs
Registration         registries, cache, the transaction that creates an account   RegistrationProofs
Profile              profile image and invitation preferences                     ProfileProofs
Activity             security events, their order and the feed                    ActivityProofs
MCxxx                each extends xxx with the symmetry of its model values
```

The state machines are built alike. A request (`req[r]`) is a record that holds the *step* it is at (the
statement it is about to send) and what its handler captured earlier, as its local variables do. One
database statement, or one `$transaction`, is one action; a run of statements that nothing can observe is
still one action each. `Fail(r)` ends a request at any step with an error answer, with or without the effect
of its last statement (`Fail` after the action: the result was lost; `Fail` instead of it: the
statement did not happen). History variables and fields, marked "history", are read by properties only, or by
bounds.

**Sessions.** `user` is the part of `users` that matters (flags, and the *version* of the password), `row` is
`refresh_tokens` with deleted rows kept as `"deleted"`, `held` the tokens that reached a client, `pending` is
`pendingRefreshes`. Tokens are model values: two tokens are equal exactly when their hashes are. `LoginLookup`
captures the user row before `bcrypt.compare`; `LoginIssue` uses that captured row. `StartFlight` and `JoinFlight`
are the two branches of `runSingleFlightRefresh`, `SettleFlight` its `finally` together with the answers of
all joiners, which share the leader's outcome, then pass through their own route's check (`ReplyTo`).
`RotateRead`/`RotateReject`/`RotateReuse`/`RotateRevoke`/`RotateIssue` are `rotateRefreshToken` line by line; a row
that the clean-up took between them makes the update fail (P2025, answered 404). `Logout`, `LogoutAll`
and `ChangeEmail` (together `Direct`) are requests of a single statement as far as sessions can tell. `changePassword` and `resetPassword` end in a transaction
that stays open: `OpenPassword` is its two updates (it takes the lock of the user row and of the rows its `updateMany` sees, `RowsToRevoke`), `CommitPassword` its COMMIT, which
makes them visible; `Fail` in between is the rollback. Who writes a locked row waits (`UserLocked`, `Unlocked`); an insert does not, and the row it adds is not revoked.
History: `auth` is the password version a session was authenticated with, handed down by rotations; `overlapped` says that a password change came in while it was issued. `Restart` loses requests and `pending`.
A client presents only tokens it was given (`held`), of any age, as often as it likes.

**TokenLedger** knows only rows: a token is issued once, dies, never comes back; a token issued in exchange for
another belongs to the same citizen, comes after the death of the other, is the only one, and never loses full
access. `ImplementsLedger` maps `row` to it and forgets requests, flights, users and passwords.

**PasswordReset.** `Retire` and `Create` are the two statements of `requestReset`; `FindValidToken` and `Commit` are
`resetPassword` before and after the bcrypt hash. Calls for an unknown or inactive address change nothing and are not
actions. `Switch` is what other components do to `isActive`.

**AccountEmail.** One identity number is one citizen; `account[u]` is the user with the single row of
`email_verification_tokens` (every new link overwrites it, which is how the code does its upserts). Unique constraints
(`users.email`, the citizen identity) are part of the writing statement. `proven` remembers which addresses' mail a
citizen has followed.

**IdentityVerification.** One citizen, several submissions. `put[s]` are the uploads on the wire: the handler stops at the
first one that fails, the other continues and may still store its object. The order of clean-up and audit row depends on the
engine's answer, as in the code. `CleanupImages` is one call for both keys and deletes both, one or none (`lingers`). `aged` moves the attempt window.

**Registration** stands in front of `AccountEmail`'s `Register`, which begins where the address is checked and treats the transaction as one
statement; here the transaction is open, a statement per row, and `Locked` is PostgreSQL's rule for unique indexes: who inserts a key that an open
transaction has inserted waits for its end. `registry` is what the two registries know, and changes at any time (`RegistryChanges`). `CheckCache`,
`RegistryAnswers`, `RegistryFails`, `TimeOut` and `StoreInCache` are `lookupCitizen` and `getByFin` between their awaits. A 404 and a 409
stay in `req[r]`, with what they rest on, until the next request takes the place; any other answer leaves `Idle`. Left out: a transaction that
Prisma ends after its own timeout is a `Fail`; addresses that `updateProfile` takes are in `AccountEmail`.

**Profile.** One account. `imageUrl` and `bucket` are the two sides an upload keeps in step: `DeleteOld`, `PutObject`/`PutFails`, `SaveKey`. A list of
preferences is the set of its members, `Merge` and `Normalise` are the helper, `Upsert` writes both lists. `faults` and `broken` count what went wrong.

**Activity.** The handlers are reduced to the order in which they report and act (`Program`); `Events` are the calls that can be made, each with the row it may
leave. `createdAt` is taken when the report is made, and `Store` may be as late as it likes: rows land out of order. `walk` is a client that
turns the pages of `getActivity`: count and rows are two queries in either order, rows with one time come in any order (`orderBy` names `createdAt` alone).

## 3. Runs

The runs that pass:

| Run | Question | Bounds |
|---|---|---|
| `sessions_rotation` | Is a token rotated at most once, do duplicates get one answer, replays none, an upgrade a full session; is the table a ledger? | 1 user, 3 tokens, 2 requests; login, refresh, upgrade; failures, expiry, clean-up, restart |
| `sessions_all` | Which sessions survive a new password, is revocation final, are full sessions the verified citizens'? | 1 user, 2 tokens, 2 requests, 1 password change; every call but upgrade |
| `sessions_liveness` | Is every arrived request answered, joiners and those who wait for a lock too? | 1 user, 2 tokens, 2 requests, 1 password change; verifyEmail, refresh, upgrade, resetPassword; no symmetry |
| `reset_concurrent` | What does each overlap cost? | 1 user, 4 links, 3 requests |
| `email_concurrent` | Is nobody locked out, and is a verified address proven unless the citizen's own requests overlapped? | 2 citizens, 2 addresses, 4 links, 2 requests |
| `verification_concurrent` | Attempt limit under overlap, images with failing uploads and clean-ups, audit log | 3 submissions, 2 at a time, limit 1 |
| `profile` | Does the row name a stored image, how many images are left over, does a partial update keep the other field? | 1 account, 3 uploads, 3 requests |
| `registration` | One account per key, only for confirmed numbers, conflicts that are real, a cache that spares calls, an answer to everyone? | 1 citizen, 1 foreigner, 2 addresses, 2 platform ids, 2 requests; no symmetry |
| `activity` | Is every change reported, does turning the pages miss a row? | 3 calls of 3 kinds, 2 requests, page size 1, 3 points in time |

Why these bounds are enough. Every handler goes by one user id or one token, so interference needs two requests on the
*same* user: one user suffices where addresses do not compete, and two where they do. Two requests give every order of two
handlers' statements; requests are reused, so behaviours are long sequences of calls. Three tokens give a chain of two rotations
beside a third session, two give one rotation beside everything else (`upgrade` differs from `refresh` only in the gate and the check of the answer, which
`sessions_rotation` has; `sessions_all` leaves it out for its size); with `Room`, a request that may
need a token (or a link) arrives only while one is left for it, so that a bound never blocks a handler in the middle.
`MaxPassword` bounds password versions. The limits of the code (3 attempts, 3 resends) are constants, set to 1 or 2: a limit is
crossed earlier, nothing else depends on the number. Three uploads let two overlap and a third start from what they left behind.
In `registration` two platform ids make a collision possible and avoidable. In `activity` three rows and a page size of one let a row land before, behind and
on the reader's page while one more page is to come. `IdentityVerification` has the attempt window switched on, which is the
default (`DEFAULT_ATTEMPT_WINDOW_HOURS = 24`); `VERIFICATION_ATTEMPT_WINDOW_HOURS = 0` switches the limit off and is not modelled.

`CHECK_DEADLOCK FALSE` appears with `AccountEmail` (all links of the instance are made, nobody has anything to ask) and
`IdentityVerification` (every submission was made once), `Profile` (every key was used), `Activity` (every call was made) and `sessions_liveness` (its four calls run out of
tokens and password versions): there the instance comes to rest. `registration`, `reset_concurrent` and the other runs of `Sessions` check for deadlock.

**Fairness.** `sessions_liveness` assumes `WF_vars(Serve(r))` for each request, and `SF_vars(Queue(r))` for its statements that may find a row locked. The Node.js event loop and the database
serve a request that has arrived. Nothing is assumed of clients, failures, the clock, the clean-up or restarts, and a request
that a restart drops counts as ended (its connection is closed). `registration` assumes the same, where `Serve` includes the timeout but no answer of a registry: the
timers are the service's own. In both, a statement that waits for another transaction is enabled only between two such transactions, so it gets `SF_vars`: PostgreSQL queues
those who wait and wakes them in turn. The models have no cycle of waits. Where PostgreSQL could run into one (two bulk updates
that meet the same rows in different orders), its deadlock detection ends a statement with an error, which is a `Fail`.

Every property of these runs has at least one *mutant* in `PROJECT.json`: a plausible slip in the code under which TLC finds the property
violated. The alternative definitions stand next to the ones they replace, marked "Mutant".

## 4. What the runs refute

These promises of comments and API documentation are stated as properties that TLC finds violated:

| Run | Promise | What happens |
|---|---|---|
| `find_logout` | "Revokes the submitted refresh token, ending the session for the device that holds it" (`auth.controller.ts:227`) | A rotation that read the token before the logout still issues a successor. |
| `find_email_lock` | "Lock the account until the new email is verified" (`users.service.ts:1089`) | A duplicated `verifyEmail` that passed its checks before the lock undoes it, with the new address. |
| `find_registry` | "5xx — external service is down" (`citizen.service.ts:213`), 503 (`citizen.controller.ts:72`) | `validateStatus` accepts every status, so the branch is dead: a registry that breaks down makes a citizen "not found". |

The modules state more promises that TLC refutes when one of them is put in the place of the properties of the configuration named here; they have no run of their own:

| Property | Where | Promise | What happens |
|---|---|---|---|
| `SessionsEndWithPassword` | `FindLogout.cfg` with login, resetPassword; 2 requests, 1 password change | "old sessions cannot be used after a password change" (`password-reset.service.ts:201`) | A login compared before the change issues after it; or it inserts its row between the transaction's `updateMany` and COMMIT. |
| `NoLimitedAfterUpgrade` | `FindLogout.cfg` with login, verifyIdentity; 2 requests | "All limited tokens are revoked" (`verification.controller.ts:85`) | A login that read `isIdVerified = false` inserts a limited row later. |
| `RefreshRefusedWith401` | same, with login, refresh, upgrade; 2 requests | 401 is the only documented refusal (`auth.controller.ts:157`) | A refresh that joins an upgrade of the same token gets its 403. |
| `ReplayEndsAllSessions` | same, with login, refresh; 3 tokens | reuse invalidates all tokens (`auth.controller.ts:131`) | After the clean-up a replayed token is merely unknown. |
| `SpentHasSuccessor` | same, with login, refresh | "should revoke the used token and issue a new one" (`src/agents/auth-session.md:22`) | A failure between the two statements. |
| `OneActiveLink` | `ResetConcurrent.cfg` | "Only one active reset token at a time" (`password-reset.service.ts:85`) | Two calls retire, then both create. |
| `LinkUsedOnce` | `ResetConcurrent.cfg` | "Token is marked as used (can never be replayed)" (`password-reset.service.ts:163`) | Two overlapping calls both found the link unused, both set a password. |
| `ResendLimited` | `EmailConcurrent.cfg`, `MaxResend = 1` | "A maximum of 3 resend requests are allowed per hour" (`users.controller.ts:223`) | The count is over a table with one row per account and never exceeds 1. |
| `AttemptsWithinLimit` | `VerificationConcurrent.cfg` | "maximum 3 attempts per configured window" (`verification.controller.ts:75`) | Both submissions pass the gate before either is written. |
| `NumberInRange` | `VerificationConcurrent.cfg` | "attempt 1, 2, or 3" (`verification.service.ts:478`) | Numbers count all rows, the limit those of the window. |
| `ImagesNeverLinger` | `VerificationConcurrent.cfg` | "images never linger" (`verification.service.ts:569`) | The path of a failed upload has no clean-up. |
| `OneStoredImage` | `Profile.cfg` | "never more than one profile image per user in storage" (`users.controller.ts:582`) | The bucket refuses a deletion, or two uploads overlap. |
| `OnlyProvidedReplaced` | `Profile.cfg` | "Only provided fields are replaced" (`users.controller.ts:388`) | An update that read the row before another one was saved writes the old list back. |
| `ConflictNamesItsCause` | `Registration.cfg` | 409: "either the email address or the supplied NID/FIN is already linked" (`users.controller.ts:132`) | A colliding platform id is answered the same way. |
| `ReportedIsMade` | `Activity.cfg` | "after the DB update succeeds" (`users.service.ts:1318`) | `changePassword` reports first, then its transaction fails. |
| `PagesShowAll` | `Activity.cfg` | "Total available pages" (`user-activity.dto.ts:170`) | A row lands after the count and pushes an older one off the last page. |

Two more are visible in the models without a property of their own. `uploadProfileImage` deletes the old image (`users.service.ts:1163`) before
`validateFile` (`s3.service.ts:277`) notices that no file is attached: a request that is answered 400 costs the citizen the image
(`PutFails` after `DeleteOld`). A citizen API that does not answer is a 504 in the code and a 503 in the documentation.

`LinksBoundedByOverlap`, `UsesBoundedByOverlap` and `AttemptsBoundedByOverlap` say what *does* hold instead: the number of overlapping requests
is the exact price, and without overlap the promise is kept. `OldSessionsOverlapped`, `VerifiedUnlessOverlapped`, `StoredBoundedByFaults`, `MissingImageHasCulprit`,
`UntouchedFieldKept` and `WalkMissesNothing` do the same for their components.

## 5. What is proved

TLAPS checks these for *every* value of the constants that satisfies the modules' assumptions: any number of accounts, tokens,
links and requests. Every safety property of the passing runs, the action properties and the refinement included, is a theorem; each
invariant below was checked by TLC on the component's instance before it was proved. The assumptions:

- the "no token", "no link", "no request", "no key" and "no platform id" values are not tokens, links, requests, keys or platform ids;
- the sets of tokens, of object keys, of submissions and, in `PasswordReset`, of links and requests are finite (only finitely many are ever made);
  `Requests` is not empty in `PasswordReset`, and there is an address in `Registration`;
- `MaxPassword` and `MaxClock` are natural numbers; the resend limit, the attempt limit, the number of submissions under way at once and the page size are positive;
- the lists a client submits in `Profile` hold gates only, the operations, categories and searches of `Activity` are ones the code knows, and no
  number is both a citizen's and a foreigner's.

TLC evaluates them in every run.

`SessionsProofs`:

- `TypeCorrect`. `TypeOK` is not inductive: that a delivered token is a row of its user, and that a request's captured token
  exists, needs `Delivered` and `Linked` (what requests and clients know of the table stays true, because rows are never
  rewritten). `TInv == TypeOK /\ Delivered` is the inductive invariant everything else stands on. `RowStep` classifies what any step does
  to the table (nothing, revoke, create, expire, clean up); later proofs split on that and not on the handlers.
- `DeadForGood` (`RevocationIsFinal`): straight from `RowStep`.
- `FlightsAreSingle` (`SingleFlight`): inductive given `TInv`. One step concerns at most one request, and only arrivals and `SettleFlight`
  touch the map.
- `OldSessionsExplained` (`OldSessionsOverlapped`): `PassInv` adds what a COMMIT and an insertion rest on. `Enclosed`: while a transaction of a new password is open, every
  live row of its citizen is locked by it or marked as overlapped, so its COMMIT leaves no other row of the old password alive; nobody takes a row out of the lock, since who
  writes it waits. `SameAge`: a request entitled to issue a successor read its citizen's password when it was the one of the session it replaces, so that a change since then is noticed.
- `FullSessionsVerified` (`FullOnlyForIdVerified`): strengthened by `Known`: what a request captured about `isIdVerified` is still
  true, since the flag never goes back.
- `OneSuccessor`, `ParentsAreSpent`: the invariant `RotInv` adds, to `SingleFlight`, that a token with a successor is dead, that a request *entitled* to issue
  a successor (between its revocation and its insertion) leads a flight of a dead token, and that the token of an entitled request has no child
  yet. While a leader is between its read and its insertion, nobody else can give its token a child: the single flight keeps other
  rotations out, and a leader that starts later, after a restart too, reads the revoked flag and is refused.

`SessionsRefinement` stands on these:

- `SessionsImplementLedger` (`ImplementsLedger`): the step simulation. `Table` is the refinement mapping; by `RowStep` a step leaves the rows alone or lets them
  expire (a stutter: the ledger does not know expiry), revokes rows of *one* citizen (`RevokeSome`), cleans up (`Purge`), or inserts one (`Issue`). Only the
  last needs more than the shape of the table: that the parent is dead, has no other child and belongs to the same citizen is what `RotInv` and
  `Linked` say of an entitled request.
- `ReplaysAreRefused` (`ReplayRefused`) and `UpgradesGetFull` (`UpgradeAnswersFull`): `AnswersInv` says of every request of a flight what its outcome means for the
  table: with success comes a row whose parent is the presented token, and a flight of a token that was dead at its start never gets as far as issuing. The joiners
  take over what holds of the leader, and pass their own route's check.
- `OneAnswerPerToken` (`SameAnswer`): both answers are children of one token (`AnswersInv`), which has only one (`OneSuccessor`).

`PasswordResetProofs`:

- `TypeCorrect`, with `Holding`: a request past finding or creating its link names an existing one.
- `UsesBounded`: `UsesInv` says that a link's uses *plus the requests about to use it* never exceed the number of requests, and that a usable link
  has no uses. Finding the link is possible only while its uses are 0; committing moves one request from the second summand to the first.
- `LinksBounded`: `LinksInv` says the same of an account's unused links plus the requests that have retired the old ones and will create one.
  Both are exact: with one request they are the documented promise.

`ProfileProofs`:

- `TypeCorrect`, with `Captured`: the new and the old key an upload holds were given out before, so that a key generated later differs from both.
- `MissingImagesExplained` (`MissingImageHasCulprit`): `ImageInv` adds `KeysApart` (until it is saved, an upload's key is neither the row's, nor
  another upload's, nor what another one is about to delete) and `StoredFirst` (the row names a new object only after it was stored). So the
  only deletion that can hit the row's object is that of an upload that read it.
- `StorageBounded` (`StoredBoundedByFaults`): the count of objects alone is not inductive, since an upload under way will add one and may remove one.
  `StorageInv` balances the *stray* objects (neither the row's image nor about to be deleted) and the uploads that may still store theirs against the faults; one
  upload is free, the one that replaces an image which is gone or about to go (`Replacing`). It must be one that read the *current* image: with any upload
  in its place the invariant is true in every run but not inductive.
- `PartialUpdatesKeep` (`UntouchedFieldKept`): inductive given `TInv`; the field `overtaken` remembers whether the row still is what the request read.

`RegistrationProofs`, all five theorems from one invariant `IInv`:

- `KeysStayUnique` (`KeysUnique`): the checks of `register` prove nothing, since they are made before the transaction. What holds is that a row in an
  open transaction is neither an account's (`RowsSound`) nor another open transaction's (`RequestsApart`): a commit then adds keys nobody has,
  and takes none from a row that is already in.
- `AccountsConfirmed` (`IdentityConfirmed`): `ResolvedSound` carries "was active at its registry" from the answer, or from the cache entry, to the commit.
- `ConflictsReal` (`ConflictIsReal`): an answered conflict names a taken key and accounts are never removed.
- `CallsSpared` (`CacheSparesCalls`), `TypeCorrect`.

`AccountEmailProofs`:

- `TypeCorrect`. `TInv` adds what a request's step says about its operation and its account (`Fit`), and that a row's link is the row's own: it was made, no
  other row has it, and only this account's mails carry it (`RowFits`).
- `LockedCanUnlock` (`LockedHasFreshLink`): a link is used up in the statement that unlocks, and the lock is followed by a new link or by a trace in `lost`.
- `VerifiedIsProven` (`VerifiedUnlessOverlapped`): `CalmInv` speaks of the citizens whose requests never overlapped. Such a citizen has one request at
  a time, so what it captured is still true when it writes (`Knows`), and an unused link went to the account's present address only (`LinkPrivate`). Other
  citizens' requests, in any order, do not disturb that, because links are private.

`IdentityVerificationProofs`, from three invariants:

- `TInv` describes each submission by itself: which images are on the wire, in the bucket and deleted at which step (`ImagesFit`). From it follow `TypeCorrect`,
  `EngineSeesImages` (`EngineHasImages`), `AnsweredIsClean` (`AnsweredLeavesNoImage`) and `DeletedStaysDeleted` (`DeletedForGood`: the uploads that outlive a handler
  are those of a broken one, which deletes nothing).
- `LimitInv` counts the submissions past the limit that have no row yet: with the attempts of the window they stay below the limit plus the overlap. The gate opens only
  while the window has room, and at most `Concurrency` are under way. `OverlapBoundsAttempts` (`AttemptsBoundedByOverlap`) is what is left of it.
- `LogInv` counts the submissions that have a row, or one that failed, and are not yet counted on the account; `CountedHasRow` (`CountedIsLogged`) follows.

`ActivityProofs`:

- `TypeCorrect`. `RequestsFit` ties a request to the program of its call: halfway through, the change was made or the report sent. `TInv` adds that finitely many calls were
  made, although `Events` may be infinite, and that what the reader has not seen is in the table.
- `NothingGoesUnreported` (`ChangesAreReported`): inductive given `TInv`.
- `ReaderMissesNothing` (`WalkMissesNothing`): `WalkInv` says that an unseen row has at least as many rows strictly before it as the pages that were read can hold
  (`UnseenBehind`): rows only come, so they move it further back, never onto a page that was read. A count that no row overtook (`CountHolds`) is then larger
  than those pages, so that the reader goes on (`CountSuffices`). The two exceptions enter where they must: without ties a page is cut at one place only, and a row between the
  count and the page makes the count too small.

Left to TLC is what needs fairness: `EveryRequestAnswered` of `Sessions` and of `Registration` (liveness and `ENABLED` are out of the prover's reach). The promises of
section 4 are refuted, not proved.

## 6. Abstractions a reader should know

- An access JWT is good as long as the refresh token it came with has not expired; in the code it lives 15 minutes or 2 hours. The models
  allow more calls than the service.
- Bcrypt, AES and SHA-256 are equality of model values; `right` says whether a presented password matches.
- Rate limits are left out, which again allows more calls.
- A `prisma.$transaction` whose writes go by id is one atomic action. Two go otherwise and are open for a while: that of `register`, whose inserts wait for each other's unique
  keys (`Registration`, a step per insert), and that of a new password, whose `updateMany` goes by the predicate `{ userId, revoked: false }` under READ COMMITTED (`Sessions`: the
  snapshot with its locks, then the COMMIT). The two statements of the latter are one step: between them it holds the user row alone, and a row inserted
  or revoked there is seen by the `updateMany` as if it had come before. In `PasswordReset`, which has no sessions, the same transaction is the one action `Commit`.
- A statement that finds a row locked waits and is executed when the lock is gone. PostgreSQL re-reads only the rows that were locked; a statement whose snapshot is older would in
  addition miss the rows inserted while it waited. That matters to the bulk updates and the clean-up only (`logoutAllDevices`, the reuse branch, `upgradeToken`): what they
  would miss is a row that a request issued while they ran, which the models have as a row issued right after them.
- Address uniqueness is the unique index on `users.email`: both writers of an address conjoin it, the lookups before them decide only which answer a citizen gets.
  `users.phoneNumber` is taken not to be unique, since no statement looks a number up or refuses one; if the schema had such an index, a collision would
  be one more way into the same 409 of `register`.
- One Node.js process serves all requests. Several processes would each have their own `pendingRefreshes`; the restart in the middle of a
  flight is the part of that situation the model has.
- Loss of a mail, failure of a delete in S3 and failure of the audit insert are swallowed by the code and leave a trace only in history fields
  (`lingers`, `unlogged`, `lost`), so that properties can say "unless the bucket refused".

## 7. Plan

Every component that keeps state has its module, and every safety property of the passing runs its theorem. What is left, in this order:

1. Proofs about the operators by themselves, for any input: that merging preferences twice is merging them once, that normalised lists stay normal; and the
   promises of section 4 that hold under an assumption on the callers (one request at a time), as theorems with that assumption.
2. An abstract specification for reset links, as `TokenLedger` is for refresh tokens, and `PasswordReset` as its implementation.
3. `Registration` composed with `AccountEmail`: `updateProfile` competes for addresses with an open transaction.
4. The verification's `retryAvailableAt` as a function of the window, checked against a reference definition.

## 8. Not modelled, and why

Throttling (its counters are the library's; the event it reports is one of `Activity`'s operations, and as it has no user it is in nobody's feed), encryption and
hashing (pure), the HTTP mapping of exceptions (layout; the models keep the kind of
answer where a property needs it), configuration, bootstrap, CORS/Helmet and the documentation's login (no state that changes at run time),
the Prisma connection, the development seeding script, presigned URLs and the other handlers that only read. The schema is another package's
(`@gracon/database`): that addresses, identity hashes and platform id hashes are unique is read off the code that answers P2002.
