--------------------------- MODULE MCApplications ---------------------------
(* Instances of Applications for TLC: every application belongs to         *)
(* customer c1 and is assigned to s1; s2 is a colleague.                   *)
EXTENDS ApplicationsRefinement, Access, TLC

CONSTANTS h1, h2, c1, s1, s2, d1

OwnedByC1 == [a \in Apps |-> c1]

AssignedToS1 == [a \in Apps |-> s1]

HandlerSymmetry == Permutations(Handlers)
=============================================================================
