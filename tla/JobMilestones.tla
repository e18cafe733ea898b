--------------------------- MODULE JobMilestones ---------------------------
(***************************************************************************)
(* What the job API promises about the life of a job, whatever requests    *)
(* overlap: each job collects milestones, it never loses one, and it       *)
(* reaches one only after the milestones that must come before it.  The    *)
(* module says nothing of documents, requests or the database; Jobs.tla is *)
(* shown to implement it.                                                  *)
(***************************************************************************)
CONSTANT Jobs

VARIABLE reached        \* reached[j]: the milestones of job j so far

Milestone == {"placed", "assigned", "accepted", "rejected",
              "started", "finished", "reviewed"}

\* A provider's first answer to a placed job.
Answer == {"assigned", "accepted", "rejected"}

\* The milestones `got` allow the milestone m to come next.
MayReach(m, got) ==
  \/ m = "placed"
  \/ m \in Answer /\ "placed" \in got
  \/ m = "started" /\ got \cap Answer # {}
  \/ m = "finished" /\ "started" \in got
  \/ m = "reviewed" /\ "finished" \in got

Init == reached = [j \in Jobs |-> {}]

Reach(j, m) ==
  /\ m \notin reached[j]
  /\ MayReach(m, reached[j])
  /\ reached' = [reached EXCEPT ![j] = @ \cup {m}]

Next == \E j \in Jobs, m \in Milestone : Reach(j, m)

Spec == Init /\ [][Next]_reached
=============================================================================
