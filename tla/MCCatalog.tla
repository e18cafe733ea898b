----------------------------- MODULE MCCatalog ------------------------------
(* Small instances of Catalog for TLC. *)
EXTENDS Catalog, TLC

Symmetry == Permutations(Tasks) \cup Permutations(Subs)
              \cup Permutations(Services) \cup Permutations(Prices)
=============================================================================
