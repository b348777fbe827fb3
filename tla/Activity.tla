------------------------------ MODULE Activity ------------------------------
(***************************************************************************)
(* Security events and the activity feed: the handlers report what they do *)
(* to SecurityEventService, which inserts a row some time later or loses   *)
(* it, and a client walks through the pages of getActivity meanwhile.      *)
(*                                                                         *)
(* The feed is that of one citizen; a handler is reduced to its report and *)
(* the change the report speaks about, in the order the code has them.     *)
(***************************************************************************)
EXTENDS Naturals, FiniteSets, Sequences

CONSTANTS
    Events,     \* the calls that can ever be made, each with its report
    Requests,   \* concurrent HTTP requests
    Ops,        \* the operations that are called
    Categories, \* the categories a client asks for
    Searches,   \* the sets of event types a search text may match
    PageSize,   \* pageSize
    MaxClock    \* bound: the clock's last tick

ASSUME PageSizeAssumption == PageSize \in Nat \ {0}
ASSUME MaxClockAssumption == MaxClock \in Nat

VARIABLES
    clock,      \* milliseconds, as far as they tell reports apart
    event,      \* the security_event_logs table and what is on its way there
    done,       \* history: calls that made the change they report
    broken,     \* history: calls that broke off
    req,        \* the requests
    walk        \* the client that reads the feed

vars == <<clock, event, done, broken, req, walk>>

-----------------------------------------------------------------------------
(* The security event each operation reports. *)
EventOf ==
    [loginFailed |-> "LOGIN_FAILED", login |-> "LOGIN_SUCCESS",
     passChallenge |-> "VERIFICATION_PASSED", failChallenge |-> "VERIFICATION_FAILED",
     requestReset |-> "PASSWORD_RESET_REQUESTED",
     resetPassword |-> "PASSWORD_CHANGED", changePassword |-> "PASSWORD_CHANGED",
     logoutAll |-> "SESSIONS_REVOKED_BY_USER", reuse |-> "REVOKED_TOKEN_REUSE",
     rateLimit |-> "RATE_LIMIT_EXCEEDED"]

EventsByCategory ==
    [authentication |-> {"LOGIN_SUCCESS", "LOGIN_FAILED"},
     verification |-> {"VERIFICATION_PASSED", "VERIFICATION_FAILED"},
     account |-> {"PASSWORD_RESET_REQUESTED", "PASSWORD_CHANGED", "SESSIONS_REVOKED_BY_USER"},
     security |-> {"REVOKED_TOKEN_REUSE", "RATE_LIMIT_EXCEEDED"}]

SecurityEvents == UNION {EventsByCategory[c] : c \in DOMAIN EventsByCategory}

ASSUME InputsAssumption ==
    /\ Ops \subseteq DOMAIN EventOf
    /\ Categories \subseteq DOMAIN EventsByCategory \cup {"all"}
    /\ Searches \subseteq SUBSET SecurityEvents

(* A failed login of an unknown address and a rate limit have no user. *)
UsersOf(op) == CASE op = "loginFailed" -> {"citizen", "nobody"}
                 [] op = "rateLimit" -> {"nobody"}
                 [] OTHER -> {"citizen"}

(* login reports its success before the gates and the session, and         *)
(* changePassword its change before the transaction.                       *)
ReportsFirst == {"login", "changePassword"}

(* Mutant: resetPassword reports nothing. *)
ActSilently(op) ==
    CASE op \in {"loginFailed", "rateLimit"} -> <<"report">>
      [] op \in ReportsFirst -> <<"report", "change">>
      [] op = "resetPassword" -> <<"change">>
      [] OTHER -> <<"change", "report">>

(* What the handler still has to do when its checks have passed: the       *)
(* report, and the database writes that make what it says true.            *)
Program(op) ==
    CASE op \in {"loginFailed", "rateLimit"} -> <<"report">>
      [] op \in ReportsFirst -> <<"report", "change">>
      [] OTHER -> <<"change", "report">>

Statuses == {"fresh", "called", "posted", "stored", "lost"}
EventRecords == [status : Statuses, op : Ops, user : {"citizen", "nobody"}, at : 0..MaxClock]
Fresh == [status |-> "fresh"]

Underway(e) == \E r \in Requests : req[r] # <<>> /\ req[r][1] = e
Reported(e) == event[e].status \in {"posted", "stored", "lost"}

(* Mutant: the rows of every account. *)
AllRows(types) == {e \in Events : event[e].status = "stored" /\ EventOf[event[e].op] \in types}

(* The rows of the citizen's feed. *)
Rows(types) ==
    {e \in Events : /\ event[e].status = "stored"
                    /\ event[e].user = "citizen"
                    /\ EventOf[event[e].op] \in types}

NoWalk == [queries |-> {}]
Walking == walk # NoWalk

Init ==
    /\ clock = 0
    /\ event = [e \in Events |-> Fresh]
    /\ done = {}
    /\ broken = {}
    /\ req = [r \in Requests |-> <<>>]
    /\ walk = NoWalk

-----------------------------------------------------------------------------
(* The handlers.  A request is its call and the steps it still has to do.  *)

Begin(r, e, op) ==
    /\ req[r] = <<>>
    /\ event[e] = Fresh
    /\ \E u \in UsersOf(op) :
        event' = [event EXCEPT ![e] = [status |-> "called", op |-> op, user |-> u, at |-> 0]]
    /\ req' = [req EXCEPT ![r] = <<e>> \o Program(op)]
    /\ UNCHANGED <<clock, done, broken, walk>>

Doing(r, step) == Len(req[r]) > 1 /\ req[r][2] = step
Done(r) == req' = [req EXCEPT ![r] = IF Len(@) = 2 THEN <<>> ELSE <<@[1]>> \o SubSeq(@, 3, Len(@))]

(* The call is not awaited; the row's createdAt is the time it is made. *)
Report(r) ==
    /\ Doing(r, "report")
    /\ event' = [event EXCEPT ![req[r][1]].status = "posted", ![req[r][1]].at = clock]
    /\ Done(r)
    /\ UNCHANGED <<clock, done, broken, walk>>

Change(r) ==
    /\ Doing(r, "change")
    /\ done' = done \cup {req[r][1]}
    /\ Done(r)
    /\ UNCHANGED <<clock, event, broken, walk>>

(* A statement fails, a gate refuses the login, or the process dies. *)
BreakOff(r) ==
    /\ req[r] # <<>>
    /\ broken' = broken \cup {req[r][1]}
    /\ req' = [req EXCEPT ![r] = <<>>]
    /\ UNCHANGED <<clock, event, done, walk>>

-----------------------------------------------------------------------------
(* SecurityEventService.log: an error of the insert is logged and dropped. *)

Matches(e) == event[e].user = "citizen" /\ EventOf[event[e].op] \in walk.types

(* history: a row that lands after the count of a page and before its rows *)
Store(e) ==
    /\ event[e].status = "posted"
    /\ event' = [event EXCEPT ![e].status = "stored"]
    /\ walk' = IF Walking /\ walk.queries = {"findMany"} /\ Matches(e)
               THEN [walk EXCEPT !.raced = TRUE] ELSE walk
    /\ UNCHANGED <<clock, done, broken, req>>

Lose(e) ==
    /\ event[e].status = "posted"
    /\ event' = [event EXCEPT ![e].status = "lost", ![e].at = 0]
    /\ UNCHANGED <<clock, done, broken, req, walk>>

Tick ==
    /\ clock < MaxClock
    /\ clock' = clock + 1
    /\ UNCHANGED <<event, done, broken, req, walk>>

-----------------------------------------------------------------------------
(* getActivity, page after page *)

WalkRecords ==
    [types : SUBSET SecurityEvents, order : {"newest", "oldest"}, page : Nat, total : Nat,
     queries : SUBSET {"count", "findMany"}, unseen : SUBSET Events, raced : BOOLEAN]

(* The types of the category whose texts match the search. *)
ResolveEventTypes(category, search) ==
    (IF category = "all" THEN SecurityEvents ELSE EventsByCategory[category]) \cap search

(* Without a type the answer is empty, and no query is made. *)
(* history: unseen, the rows there were at the start and no page showed yet *)
StartWalk(category, search, order) ==
    LET types == ResolveEventTypes(category, search) IN
    /\ ~Walking
    /\ types # {}
    /\ walk' = [types |-> types, order |-> order, page |-> 1, total |-> 0,
                queries |-> {"count", "findMany"}, unseen |-> Rows(types), raced |-> FALSE]
    /\ UNCHANGED <<clock, event, done, broken, req>>

(* count and findMany are sent in parallel. *)
CountRows ==
    /\ Walking /\ "count" \in walk.queries
    /\ walk' = [walk EXCEPT !.total = Cardinality(Rows(walk.types)), !.queries = @ \ {"count"}]
    /\ UNCHANGED <<clock, event, done, broken, req>>

(* Mutant: the first page is skipped. *)
PageTimesSize == walk.page * PageSize

Skip == (walk.page - 1) * PageSize

Smaller(m, n) == IF m < n THEN m ELSE n

(* orderBy createdAt alone: rows with the same time come in any order. *)
Precede(first, second) ==
    \A e \in first, f \in second :
        IF walk.order = "oldest" THEN event[e].at <= event[f].at ELSE event[e].at >= event[f].at

ReadPage ==
    LET rows == Rows(walk.types)
        n == Cardinality(rows)
        skipped == Smaller(Skip, n)
    IN
    /\ Walking /\ "findMany" \in walk.queries
    /\ \E before \in SUBSET rows : \E page \in SUBSET (rows \ before) :
        /\ Cardinality(before) = skipped
        /\ Cardinality(page) = Smaller(PageSize, n - skipped)
        /\ Precede(before, rows \ before)
        /\ Precede(page, rows \ (before \cup page))
        /\ walk' = [walk EXCEPT !.unseen = @ \ page, !.queries = @ \ {"findMany"}]
    /\ UNCHANGED <<clock, event, done, broken, req>>

TotalPages == (walk.total + PageSize - 1) \div PageSize

(* The client has the page and asks for the next one, if there is any. *)
LastPage == Walking /\ walk.queries = {} /\ walk.page >= TotalPages

TurnPage ==
    /\ Walking /\ walk.queries = {} /\ ~LastPage
    /\ walk' = [walk EXCEPT !.page = @ + 1, !.queries = {"count", "findMany"}]
    /\ UNCHANGED <<clock, event, done, broken, req>>

EndWalk ==
    /\ LastPage
    /\ walk' = NoWalk
    /\ UNCHANGED <<clock, event, done, broken, req>>

-----------------------------------------------------------------------------
Next ==
    \/ \E r \in Requests :
        \/ \E e \in Events, op \in Ops : Begin(r, e, op)
        \/ Report(r) \/ Change(r) \/ BreakOff(r)
    \/ \E e \in Events : Store(e) \/ Lose(e)
    \/ Tick
    \/ \E category \in Categories, search \in Searches, order \in {"newest", "oldest"} :
          StartWalk(category, search, order)
    \/ CountRows \/ ReadPage \/ TurnPage \/ EndWalk

Spec == Init /\ [][Next]_vars

-----------------------------------------------------------------------------
(* Properties *)

(* The table, the requests and the reader have the shape of what they      *)
(* stand for, and the feed is made of rows of the citizen.                 *)
TypeOK ==
    /\ clock \in 0..MaxClock
    /\ event \in [Events -> EventRecords \cup {Fresh}]
    /\ done \subseteq Events /\ broken \subseteq Events
    /\ \A r \in Requests : req[r] = <<>> \/ req[r][1] \in Events
    /\ walk \in WalkRecords \cup {NoWalk}
    /\ Walking => \A e \in walk.unseen : Matches(e)

(* Every change has its report, unless its handler has not come to it or   *)
(* never will: no change of a password goes unreported in a normal run.    *)
ChangesAreReported ==
    \A e \in done : Reported(e) \/ Underway(e) \/ e \in broken

(* A reader who turns the pages to the end has seen every row that was     *)
(* there when he began, although rows come in meanwhile and even behind    *)
(* him, unless one lands after the count of a page and before its rows, or  *)
(* two rows have the same time.                                            *)
WalkMissesNothing ==
    LastPage /\ ~walk.raced =>
        \/ walk.unseen = {}
        \/ \E e, f \in Rows(walk.types) : e # f /\ event[e].at = event[f].at

(* "After the DB update succeeds": a change of a password that is reported *)
(* was made.                                                               *)
ReportedIsMade == \A e \in Events : Reported(e) /\ event[e].op = "changePassword" => e \in done

(* "Total available pages": reading that many shows all the rows. *)
PagesShowAll == LastPage => walk.unseen = {}
=============================================================================
