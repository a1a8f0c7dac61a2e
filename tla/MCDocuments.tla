---------------------------- MODULE MCDocuments -----------------------------
(* Instances of Documents for TLC: one uploaded document, pan, and the     *)
(* bank statement.                                                         *)
EXTENDS Documents, TLC

CONSTANTS pan, bank, k1, k2, s1, s2, h1, h2

(* Requests, file keys and reviewers are interchangeable.                  *)
Symmetry ==
  Permutations(Handlers) \cup Permutations(Keys) \cup Permutations(Staff)
=============================================================================
