----------------------------- MODULE MCCompany ------------------------------
(* Small instances of Company for TLC. *)
EXTENDS Company, TLC

Symmetry == Permutations(Requests) \cup Permutations(Phones)
              \cup Permutations(Companies)
=============================================================================
