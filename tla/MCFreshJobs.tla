---------------------------- MODULE MCFreshJobs ----------------------------
(* The small instances of MCJobs, for FreshJobs. *)
EXTENDS FreshJobs, MCJobs
=============================================================================
