--------------------------- MODULE MCRegistration ---------------------------
(* Registration on a small instance.  Liveness is checked, so no symmetry. *)
EXTENDS Registration, TLC
=============================================================================
