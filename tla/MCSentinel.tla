----------------------------- MODULE MCSentinel -----------------------------
(* Model values and bounds for Sentinel. *)
EXTENDS Sentinel, TLC

Bound(i, e, f, rec, res, l) ==
  [instances |-> i, epoch |-> e, fault |-> f, recovery |-> rec, restart |-> res, loss |-> l]

MCBounds == {Bound(2, 2, 1, 0, 0, 0), Bound(3, 1, 2, 0, 0, 1), Bound(3, 1, 1, 1, 1, 0)}

Symmetry == Permutations(Sentinel) \cup Permutations(Instance)
=============================================================================
