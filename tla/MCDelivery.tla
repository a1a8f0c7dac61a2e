----------------------------- MODULE MCDelivery -----------------------------
(* Instances of Delivery for TLC: every application belongs to customer c1 *)
(* and is assigned to s1; d1 is the administrator.                         *)
EXTENDS Delivery, TLC

CONSTANTS c1, s1, d1

OwnedByC1 == [a \in Apps |-> c1]

AssignedToS1 == [a \in Apps |-> s1]

CallerSymmetry == Permutations(Callers)
=============================================================================
