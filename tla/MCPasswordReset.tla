--------------------------- MODULE MCPasswordReset ---------------------------
(* PasswordReset on a small instance: accounts, links and requests are      *)
(* interchangeable model values.                                            *)
EXTENDS PasswordReset, TLC

Interchangeable == Permutations(Users) \cup Permutations(Links) \cup Permutations(Requests)
=============================================================================
