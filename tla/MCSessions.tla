----------------------------- MODULE MCSessions -----------------------------
(* Small instances of Sessions. *)
EXTENDS Sessions, TLC

RequestSymmetry == Permutations(Requests)
=============================================================================
