----------------------------- MODULE MCRegistry -----------------------------
(* Instances of Registry for TLC: the seed puts in one product, n1; n2 is  *)
(* another name that abbreviates to the same code.  An update sends one    *)
(* field, or a name and that the product is active.                        *)
EXTENDS Registry, TLC

CONSTANTS n1, n2, k1, k2, admin, officer, demo

OneProduct == <<n1>>

SameCode == [n \in Names |-> k1]

NoField == [name |-> None, code |-> None, active |-> None]

FewFields ==
  {d \in Dto : \E f \in DOMAIN d :
                  d[f] # None /\ d = [NoField EXCEPT ![f] = d[f]]}
    \cup {[NoField EXCEPT !.name = n, !.active = TRUE] : n \in Names}

HandlerSymmetry == Permutations(Handlers)
=============================================================================
