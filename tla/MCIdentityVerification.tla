------------------------ MODULE MCIdentityVerification ------------------------
(* IdentityVerification on a small instance; submissions are interchangeable  *)
(* model values.                                                              *)
EXTENDS IdentityVerification, TLC

Interchangeable == Permutations(Submissions)
===============================================================================
