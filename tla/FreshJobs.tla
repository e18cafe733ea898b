----------------------------- MODULE FreshJobs -----------------------------
(***************************************************************************)
(* The handlers of jobsController.js read a job, look at its status and    *)
(* await an update; Jobs.tla lets other requests change the job between.   *)
(* Here a history tells which awaited updates are stale, so that what the  *)
(* early returns guarantee can be said of all the others, while stale ones *)
(* are applied as well.                                                    *)
(***************************************************************************)
EXTENDS Jobs

VARIABLE
  stale      \* history: requests whose job has changed since they read it

freshVars == <<jobs, pending, stale>>

Changed(j) == Exists(j) /\ jobs'[j] # jobs[j]

FreshInit == Init /\ stale = {}

FreshNext ==
  /\ Next
  /\ stale' = {r \in DOMAIN pending \cap DOMAIN pending' :
                 r \in stale \/ Changed(pending[r].job)}

FreshSpec == FreshInit /\ [][FreshNext]_freshVars

\* A request ends whose handler would find the job as it found it.
FreshUpdate == \E r \in DOMAIN pending \ stale : r \notin DOMAIN pending'

-----------------------------------------------------------------------------
(* Properties *)

\* Only an open job is rejected, cancelled or rescheduled, and only a
\* started one is completed (the early returns of jobReject,
\* user_cancel_job, user_job_reschedule and jobFinish), unless by an update
\* that is stale.
ClosedJobsStayClosed ==
  [][FreshUpdate => \A j \in DOMAIN jobs :
       LET old == jobs[j]
           new == jobs'[j]
       IN  /\ new.job_status = "Reject" /\ old.job_status # "Reject"
                => old.job_status \in Rejectable
           /\ new.jobRescheduleAt # old.jobRescheduleAt
                => old.job_status \in Rejectable
           /\ new.job_status = "Complete" /\ old.job_status # "Complete"
                => old.job_status = "Start"]_freshVars

Unpaid(doc) == doc.job_status = "Complete" /\ doc.paymentStatus # "Success"

\* A completed job is paid and stays so: jobFinish marks it, and
\* paymentUpdate, which could report a failure, refuses a completed job.
\* Only an update that is stale leaves a completed job unpaid.
CompletedStaysPaid ==
  [][FreshUpdate => \A j \in DOMAIN jobs :
       Unpaid(jobs'[j]) => Unpaid(jobs[j])]_freshVars

\* A provider's reply keeps the feedback that it answers (replyFeedback
\* writes the star, the message and the date back), unless the user has
\* given another one in between.
ReplyKeepsFeedback ==
  [][FreshUpdate => \A j \in DOMAIN jobs :
       /\ jobs'[j].userFeedback.replayAt # Null
       /\ jobs'[j].userFeedback # jobs[j].userFeedback
       => jobs'[j].userFeedback.star = jobs[j].userFeedback.star]_freshVars

=============================================================================
