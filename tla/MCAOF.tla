------------------------------- MODULE MCAOF --------------------------------
(* Model values for AOF. *)
EXTENDS AOF

\* The ways a disk may fail: power says that the machine may stop, torn
\* that a write may end inside of an entry.
Setup(policy, no_fsync_on_rewrite, dbs, multi, power, torn, budgets) ==
  [fsync |-> policy, no_fsync_on_rewrite |-> no_fsync_on_rewrite, dbs |-> dbs,
   multi |-> multi, power |-> power, torn |-> torn,
   writes |-> budgets[1], rewrites |-> budgets[2], saves |-> budgets[3],
   switches |-> budgets[4], faults |-> budgets[5], crashes |-> budgets[6]]

MCSetups ==
  {Setup("always", FALSE, {1}, TRUE, TRUE, FALSE, <<2, 1, 0, 0, 0, 2>>),
   Setup("always", FALSE, {0, 1}, FALSE, TRUE, TRUE, <<3, 0, 0, 0, 1, 2>>),
   Setup("everysec", FALSE, {0, 1}, FALSE, TRUE, TRUE, <<2, 0, 0, 0, 2, 1>>),
   Setup("everysec", FALSE, {1}, TRUE, FALSE, FALSE, <<1, 1, 0, 1, 1, 1>>),
   Setup("everysec", TRUE, {1}, FALSE, FALSE, FALSE, <<1, 1, 1, 1, 0, 1>>),
   Setup("everysec", FALSE, {0, 1}, FALSE, FALSE, FALSE, <<2, 1, 0, 0, 1, 0>>),
   Setup("no", FALSE, {0, 1}, FALSE, FALSE, FALSE, <<2, 1, 0, 1, 0, 1>>)}

\* A machine that stops in the first write after a rewrite.
TornSetups == {Setup("always", FALSE, {1}, FALSE, TRUE, TRUE, <<2, 1, 0, 0, 0, 2>>)}
=============================================================================
