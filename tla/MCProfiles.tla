----------------------------- MODULE MCProfiles -----------------------------
(* Instance of Profiles for TLC: requests of one customer.                 *)
EXTENDS Profiles, TLC

RequestSymmetry == Permutations(Requests)
=============================================================================
