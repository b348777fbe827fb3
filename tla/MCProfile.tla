----------------------------- MODULE MCProfile -----------------------------
(* Profile on a small instance: keys and requests are interchangeable.     *)
EXTENDS Profile, TLC

(* nothing, which stands for the default; two gates; a list that is refused *)
SomeInputs ==
    {{}, {"EMAIL_OTP", "IDENTITY_VERIFICATION"}, {"NO_VERIFICATION", "EMAIL_OTP"}}

Interchangeable == Permutations(Keys) \cup Permutations(Requests)
=============================================================================
