---------------------------- MODULE MCReplication ---------------------------
(* Model values for Replication. *)
EXTENDS Replication, TLC

Symmetry == Permutations(Node)

Setup(procs, rdb, dbs, writes, events) ==
  [procs |-> procs, rdb |-> rdb, dbs |-> dbs, writes |-> writes, events |-> events]

MCSetups == {Setup(2, "disk", {1}, 1, 2), Setup(2, "disk", 0..1, 2, 1),
             Setup(3, "disk", {1}, 1, 1), Setup(2, "socket", 0..1, 2, 1),
             Setup(3, "socket", {1}, 1, 0)}
=============================================================================
