------------------------------ MODULE MCSignIn ------------------------------
(* Instances of SignIn for TLC.  Numbers, codes and requests are each      *)
(* interchangeable.                                                        *)
EXTENDS SignIn, TLC

Symmetry ==
  Permutations(Mobiles) \cup Permutations(Codes) \cup Permutations(Handlers)
=============================================================================
