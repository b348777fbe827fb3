----------------------------- MODULE MCActivity -----------------------------
(* Activity on a small instance: calls and requests are interchangeable.   *)
EXTENDS Activity, TLC

(* one that reports first, one that reports last, one that only reports *)
SomeOps == {"changePassword", "resetPassword", "loginFailed"}
SomeSearches == {SecurityEvents, {"LOGIN_FAILED"}}

Interchangeable == Permutations(Events) \cup Permutations(Requests)
=============================================================================
