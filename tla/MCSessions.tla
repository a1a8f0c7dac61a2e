----------------------------- MODULE MCSessions -----------------------------
(* Instances of Sessions for TLC: two devices of one subject, and one of   *)
(* another.                                                                *)
EXTENDS Sessions, TLC

CONSTANTS c1, c2, c3, u1, u2

Devices == c1 :> u1 @@ c2 :> u1 @@ c3 :> u2

Symmetry == Permutations(Handlers) \cup Permutations({c1, c2})
=============================================================================
