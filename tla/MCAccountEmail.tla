--------------------------- MODULE MCAccountEmail ---------------------------
(* AccountEmail on a small instance: citizens, addresses, links and         *)
(* requests are interchangeable model values.                               *)
EXTENDS AccountEmail, TLC

Interchangeable ==
    Permutations(Users) \cup Permutations(Emails) \cup Permutations(Links)
        \cup Permutations(Requests)
=============================================================================
