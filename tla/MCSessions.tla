----------------------------- MODULE MCSessions -----------------------------
(***************************************************************************)
(* Instances of Sessions for TLC.                                          *)
(***************************************************************************)
EXTENDS Sessions, TLC

Interchangeable == Permutations(Tokens) \cup Permutations(Requests) \cup Permutations(Users)
=============================================================================
