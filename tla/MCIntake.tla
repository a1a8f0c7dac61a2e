------------------------------ MODULE MCIntake ------------------------------
(* Instances of Intake for TLC.  Customers, products, staff and requests   *)
(* are interchangeable.                                                    *)
EXTENDS Intake, TLC

Symmetry == Permutations(Customers) \cup Permutations(Products)
              \cup Permutations(Staff) \cup Permutations(Requests)
=============================================================================
