------------------------------- MODULE MCJobs -------------------------------
(* Small instances of Jobs: a company with a worker, an individual. *)
EXTENDS Jobs, TLC

CONSTANTS r1, r2, company, individual, worker

MCuserType == company :> "Company" @@ individual :> "Individual"

SoleUserType == individual :> "Individual"

NoCompanyData == [w \in {} |-> individual]

MCcompanyData == worker :> company

RequestSymmetry == Permutations(Requests)
=============================================================================
