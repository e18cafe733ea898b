-------------------------------- MODULE Jobs --------------------------------
(***************************************************************************)
(* The job API (order/controllers/jobsController.js): what the requests of *)
(* users, providers and the payment page do to the documents of the jobs   *)
(* collection.                                                             *)
(*                                                                         *)
(* Every handler is an async function.  It reads the job, decides with     *)
(* what it read, builds an updateOption {condition, data} and awaits       *)
(* jobServices.updateData (findOneAndUpdate).  Between the decision and    *)
(* the update, other requests run.  So a handler is an action that reads,  *)
(* checks and leaves its updateOption in pending[r], and one action shared *)
(* by all of them, updateData, that applies it.  A handler whose check     *)
(* fails returns early and changes nothing: it is a stuttering step and    *)
(* needs no action.                                                        *)
(*                                                                         *)
(* Data kept: the fields that some guard or property tells apart.  A       *)
(* timestamp is Null or Now.  revenue_amount is kept in hundredths.        *)
(* userFeedback.star stands for all the user wrote, replayAt for all the   *)
(* provider wrote.  slot stands for location, date and time together.      *)
(***************************************************************************)
EXTENDS Integers

CONSTANTS
  Jobs, Users, Providers, Workers,
  Requests,          \* requests in progress at the same time
  Null,              \* an absent value
  userType,          \* the dqw_providers collection: userType of a provider
  companyData,       \* and the company that a worker belongs to
  Prices, Percentages, \* price and revenue of the sub-services
  Payments, ReportedStatus, \* finalPaidAmount and paymentStatus in a body
  Coupons,           \* coupon codes in a body, besides FIRST30
  Slots, Stars

USERTYPE == {"Company", "Individual", "Worker"}
JOBSTATUS == {"Processing", "Assign", "Accept", "Reject", "Start", "Complete"}
PAYMENTSTATUS == {"Initialize", "Fail", "Cancel", "Success"}

FIRST30 == "FIRST30"

Now == "now"
Timestamp == {Null, Now}

ASSUME ProvidersAssumption ==
  /\ userType \in [Providers -> USERTYPE]
  /\ companyData \in [Workers -> Providers]

ASSUME AmountsAssumption ==
  /\ Prices \subseteq Nat /\ Percentages \subseteq Int
  /\ Payments \subseteq Nat /\ ReportedStatus \subseteq PAYMENTSTATUS

ASSUME NullAssumption ==
  /\ Null \notin Workers /\ Null \notin Stars
  /\ Null # Now /\ Null \notin Int
  /\ Null \notin Coupons /\ FIRST30 \notin Coupons

VARIABLES
  jobs,              \* the collection: the documents by their _id
  pending            \* the updateOption each request in progress awaits

vars == <<jobs, pending>>

-----------------------------------------------------------------------------
(* Documents and updates *)

Feedback == [star : Stars \cup {Null}, replayAt : Timestamp]

NoFeedback == [star |-> Null, replayAt |-> Null]

\* The schema: the values of each field.
Schema ==
  [user_id |-> Users, providerData |-> Providers,
   providerUserType |-> USERTYPE, workerData |-> Workers \cup {Null},
   slot |-> Slots, amount |-> Prices, paidAmount |-> Int, discount |-> {0, 30},
   isCouponUse |-> {0, 1, Null}, couponCode |-> Coupons \cup {FIRST30, Null},
   finalPaidAmount |-> Payments \cup {Null}, revenue_percentage |-> Percentages,
   revenue_amount |-> Int \cup {Null}, paymentStatus |-> PAYMENTSTATUS,
   job_status |-> JOBSTATUS, jobAcceptAt |-> Timestamp, jobRejectAt |-> Timestamp,
   jobStartAt |-> Timestamp, jobFinishAt |-> Timestamp,
   jobRescheduleAt |-> Timestamp,
   userFeedback |-> Feedback]

Fields == DOMAIN Schema

NoCondition == [f \in {} |-> Null]

Put(map, key, value) ==
  [k \in DOMAIN map \cup {key} |-> IF k = key THEN value ELSE map[k]]

Remove(map, key) == [k \in DOMAIN map \ {key} |-> map[k]]

\* findOneAndUpdate: the document meets the condition; data is $set on it.
Matches(doc, condition) ==
  \A f \in DOMAIN condition : doc[f] = condition[f]

Set(doc, data) ==
  [f \in DOMAIN doc |-> IF f \in DOMAIN data THEN data[f] ELSE doc[f]]

Exists(j) == j \in DOMAIN jobs

\* Request r has made its decision about job j and awaits the update.
Await(r, j, condition, data) ==
  /\ r \notin DOMAIN pending
  /\ pending' = Put(pending, r,
                    [job |-> j, condition |-> condition, data |-> data])
  /\ UNCHANGED jobs

-----------------------------------------------------------------------------
(* Mutations: plausible mistakes in the handlers below, each of which breaks *)
(* a property.  They are not part of the specification.                      *)

\* The timestamp is forgotten.
jobStart_NoTimestamp(r, j) ==
  /\ Exists(j)
  /\ jobs[j].job_status # "Processing"
  /\ Await(r, j, NoCondition, [job_status |-> "Start"])

\* The check of the status is forgotten.
jobStart_Unchecked(r, j) ==
  /\ Exists(j)
  /\ Await(r, j, NoCondition, [job_status |-> "Start", jobStartAt |-> Now])

jobFinish_Unchecked(r, j) ==
  /\ Exists(j)
  /\ jobs[j].job_status # "Complete"
  /\ Await(r, j, NoCondition,
           [job_status |-> "Complete", paymentStatus |-> "Success",
            jobFinishAt |-> Now])

user_cancel_job_Unchecked(r, j) ==
  /\ Exists(j)
  /\ jobs[j].job_status # "Reject"
  /\ \E u \in Users :
       Await(r, j, [user_id |-> u],
             [job_status |-> "Reject", jobRejectAt |-> Now])

\* The revenue is taken from the price of the job.
paymentUpdate_OfPrice(r, j) ==
  /\ Exists(j)
  /\ jobs[j].job_status = "Start"
  /\ \E paid \in Payments, status \in ReportedStatus :
       Await(r, j, NoCondition,
             [finalPaidAmount |-> paid, paymentStatus |-> status,
              revenue_amount |-> jobs[j].amount * jobs[j].revenue_percentage])

\* The mark of an earlier coupon is not reset.
noCouponData_KeepsMark(amount) == [paidAmount |-> amount, discount |-> 0]

-----------------------------------------------------------------------------
Init ==
  /\ jobs = [j \in {} |-> Null]
  /\ pending = [r \in {} |-> Null]

\* The document that assignJob creates.  Its checks and its id are in
\* Booking.tla.
addData(u, p, slot, price, percentage) ==
  [user_id |-> u, providerData |-> p, providerUserType |-> userType[p],
   workerData |-> Null, slot |-> slot, amount |-> price, paidAmount |-> price,
   discount |-> 0, isCouponUse |-> Null, couponCode |-> Null,
   finalPaidAmount |-> Null, revenue_percentage |-> percentage,
   revenue_amount |-> Null, paymentStatus |-> "Initialize",
   job_status |-> "Processing", jobAcceptAt |-> Null, jobRejectAt |-> Null,
   jobStartAt |-> Null, jobFinishAt |-> Null, jobRescheduleAt |-> Null,
   userFeedback |-> NoFeedback]

createData(j) ==
  /\ ~Exists(j)
  /\ \E u \in Users, p \in Providers, s \in Slots,
        price \in Prices, percentage \in Percentages :
       jobs' = Put(jobs, j, addData(u, p, s, price, percentage))
  /\ UNCHANGED pending

\* The discount of FIRST30, and of any other code.
discountOf(code) == IF code = FIRST30 THEN 30 ELSE 0

couponData(amount, code) ==
  [paidAmount |-> amount - discountOf(code), discount |-> discountOf(code),
   isCouponUse |-> IF code = FIRST30 THEN 1 ELSE 0, couponCode |-> code]

\* Without a coupon the body leaves couponCode as it is.
noCouponData(amount) ==
  [paidAmount |-> amount, discount |-> 0, isCouponUse |-> 0]

proceedToPay(r, j) ==
  /\ Exists(j)
  /\ \/ Await(r, j, NoCondition, noCouponData(jobs[j].amount))
     \/ \E code \in Coupons \cup {FIRST30} :
          Await(r, j, NoCondition, couponData(jobs[j].amount, code))

\* Updates without a read.
paymentSuccess(r, j) ==
  /\ Exists(j)
  /\ Await(r, j, NoCondition, [paymentStatus |-> "Success"])

\* No look at job_status: only the worker and the company are checked.
assignJobToWorker(r, j) ==
  /\ Exists(j)
  /\ \E w \in Workers :
       Await(r, j,
             [providerData |-> companyData[w], providerUserType |-> "Company"],
             [workerData |-> w, job_status |-> "Assign"])

jobAccept(r, j) ==
  /\ Exists(j)
  /\ Await(r, j, NoCondition, [job_status |-> "Accept", jobAcceptAt |-> Now])

Rejectable == {"Processing", "Assign", "Accept"}

rejectData == [job_status |-> "Reject", jobRejectAt |-> Now]

jobReject(r, j) ==
  /\ Exists(j)
  /\ jobs[j].job_status \in Rejectable
  /\ Await(r, j, NoCondition, rejectData)

user_cancel_job(r, j) ==
  /\ Exists(j)
  /\ jobs[j].job_status \in Rejectable
  /\ \E u \in Users : Await(r, j, [user_id |-> u], rejectData)

\* Only Processing is refused; the right verification code is given.
jobStart(r, j) ==
  /\ Exists(j)
  /\ jobs[j].job_status # "Processing"
  /\ Await(r, j, NoCondition, [job_status |-> "Start", jobStartAt |-> Now])

jobFinish(r, j) ==
  /\ Exists(j)
  /\ jobs[j].job_status = "Start"
  /\ Await(r, j, NoCondition,
           [job_status |-> "Complete", paymentStatus |-> "Success",
            jobFinishAt |-> Now])

\* The platform's share of what was paid, in hundredths.
r_amount(paid, percentage) == IF percentage > 0 THEN paid * percentage ELSE 0

paymentUpdate(r, j) ==
  /\ Exists(j)
  /\ jobs[j].job_status = "Start"
  /\ \E paid \in Payments, status \in ReportedStatus :
       Await(r, j, NoCondition,
             [finalPaidAmount |-> paid, paymentStatus |-> status,
              revenue_amount |->
                r_amount(paid, jobs[j].revenue_percentage)])

user_job_reschedule(r, j) ==
  /\ Exists(j)
  /\ jobs[j].job_status \in Rejectable
  /\ \E u \in Users, s \in Slots :
       Await(r, j, [user_id |-> u],
             [slot |-> s, jobRescheduleAt |-> Now])

\* Replaces the whole userFeedback, an earlier reply included.
submitFeedback(r, j) ==
  /\ Exists(j)
  /\ jobs[j].job_status = "Complete"
  /\ \E u \in Users, s \in Stars :
       Await(r, j, [user_id |-> u],
             [userFeedback |-> [star |-> s, replayAt |-> Null]])

\* Writes back the star it has read.
replyFeedback(r, j) ==
  /\ Exists(j)
  /\ jobs[j].job_status = "Complete"
  /\ \E p \in Providers :
       Await(r, j, [providerData |-> p],
             [userFeedback |->
                [star |-> jobs[j].userFeedback.star, replayAt |-> Now]])

\* The awaited findOneAndUpdate; a document that no longer meets the
\* condition is left alone and the request ends.
updateData(r) ==
  /\ r \in DOMAIN pending
  /\ LET o == pending[r] IN
       jobs' = IF Matches(jobs[o.job], o.condition)
               THEN Put(jobs, o.job, Set(jobs[o.job], o.data))
               ELSE jobs
  /\ pending' = Remove(pending, r)

\* The database call rejects, or the process stops: the catch block answers
\* ERROR_SERVER_ERROR and the update is never made.
serverError(r) ==
  /\ r \in DOMAIN pending
  /\ pending' = Remove(pending, r)
  /\ UNCHANGED jobs

Handler(r, j) ==
  \/ proceedToPay(r, j)
  \/ paymentSuccess(r, j)
  \/ assignJobToWorker(r, j)
  \/ jobAccept(r, j)
  \/ jobReject(r, j)
  \/ user_cancel_job(r, j)
  \/ jobStart(r, j)
  \/ jobFinish(r, j)
  \/ paymentUpdate(r, j)
  \/ user_job_reschedule(r, j)
  \/ submitFeedback(r, j)
  \/ replyFeedback(r, j)

Next ==
  \/ \E j \in Jobs : createData(j)
  \/ \E r \in Requests, j \in Jobs : Handler(r, j)
  \/ \E r \in Requests : updateData(r) \/ serverError(r)

Spec == Init /\ [][Next]_vars

-----------------------------------------------------------------------------
(* Properties *)

IsDocument(doc) ==
  DOMAIN doc = Fields /\ \A f \in Fields : doc[f] \in Schema[f]

IsUpdateOption(o) ==
  /\ DOMAIN o = {"job", "condition", "data"}
  /\ Exists(o.job)
  /\ DOMAIN o.condition \subseteq Fields
  /\ DOMAIN o.data \subseteq Fields
  /\ \A f \in DOMAIN o.data : o.data[f] \in Schema[f]

\* Every stored job has all the fields of the schema with values of their
\* types, and every awaited update sets fields of the schema.
TypeOK ==
  /\ DOMAIN jobs \subseteq Jobs /\ DOMAIN pending \subseteq Requests
  /\ \A j \in DOMAIN jobs : IsDocument(jobs[j])
  /\ \A r \in DOMAIN pending : IsUpdateOption(pending[r])

\* The milestones that the document of a job records.
Milestones(doc) ==
  {"placed"}
  \cup (IF doc.workerData # Null THEN {"assigned"} ELSE {})
  \cup (IF doc.jobAcceptAt # Null THEN {"accepted"} ELSE {})
  \cup (IF doc.jobRejectAt # Null THEN {"rejected"} ELSE {})
  \cup (IF doc.jobStartAt # Null THEN {"started"} ELSE {})
  \cup (IF doc.jobFinishAt # Null THEN {"finished"} ELSE {})
  \cup (IF doc.userFeedback # NoFeedback THEN {"reviewed"} ELSE {})

Contract == INSTANCE JobMilestones
              WITH reached <- [j \in Jobs |-> IF Exists(j) THEN Milestones(jobs[j])
                                              ELSE {}]

\* However requests overlap, a job is started only after a provider's
\* answer, finished only after a start and reviewed only after a finish, and
\* no update erases a milestone: the guards on job_status in jobStart,
\* jobFinish, submitFeedback and replyFeedback are enough for this even
\* though the status they read may have changed when they write.
ImplementsMilestones == Contract!Spec

\* job_status always has its evidence in the document: the timestamp or the
\* worker that the handler writes together with it; and a job still in
\* Processing has no milestone but its creation.
StatusHasEvidence ==
  \A j \in DOMAIN jobs :
    LET doc == jobs[j] IN
    CASE doc.job_status = "Assign"   -> doc.workerData # Null
      [] doc.job_status = "Accept"   -> doc.jobAcceptAt # Null
      [] doc.job_status = "Reject"   -> doc.jobRejectAt # Null
      [] doc.job_status = "Start"    -> doc.jobStartAt # Null
      [] doc.job_status = "Complete" -> doc.jobFinishAt # Null
      [] OTHER -> Milestones(doc) = {"placed"}

\* proceedToPay leaves what the user pays, the discount and the coupon in
\* agreement with the price, for any number of overlapping calls.
PriceConsistent ==
  \A j \in DOMAIN jobs :
    LET doc == jobs[j] IN
    /\ doc.paidAmount + doc.discount = doc.amount
    /\ doc.discount = 30 <=> doc.isCouponUse = 1
    /\ doc.isCouponUse = 1 => doc.couponCode = FIRST30

\* The revenue that paymentUpdate stores is the platform's share of the
\* amount stored with it, at the percentage agreed when the job was placed.
RevenueConsistent ==
  \A j \in DOMAIN jobs : jobs[j].finalPaidAmount # Null =>
    jobs[j].revenue_amount =
      r_amount(jobs[j].finalPaidAmount, jobs[j].revenue_percentage)

\* assignJobToWorker checks the worker against the caller and the caller
\* against the job in different queries: still the worker of a job always
\* belongs to the company that the job was placed with.
WorkerOfTheCompany ==
  \A j \in DOMAIN jobs : jobs[j].workerData # Null =>
    /\ jobs[j].providerUserType = "Company"
    /\ companyData[jobs[j].workerData] = jobs[j].providerData

\* No update takes a job back to Processing, and a job in Processing is
\* never started or completed without an answer in between, stale updates
\* included (jobStart refuses a job it reads in Processing).
StatusOrder ==
  [][\A j \in DOMAIN jobs :
       /\ jobs[j].job_status # "Processing"
            => jobs'[j].job_status # "Processing"
       /\ jobs[j].job_status = "Processing"
            => jobs'[j].job_status \notin {"Start", "Complete"}]_vars

-----------------------------------------------------------------------------
(* What the messages in config/responseMessage.json say, and the code does  *)
(* not keep.                                                                *)

\* "Completed job can not be reject." (REJECT_REASON_FOR_SUCCESS, the answer
\* of jobReject and user_cancel_job to a completed job).
CompletedNotRejected ==
  [][\A j \in DOMAIN jobs : jobs[j].job_status = "Complete"
       => jobs'[j].job_status # "Reject"]_vars

\* "Please accept this job first." (JOB_ACCEPT_ERROR, the answer of jobStart
\* to a job it will not start): a job that starts was accepted, or given to
\* a worker by its company.
AcceptedBeforeStart ==
  \A j \in DOMAIN jobs : jobs[j].jobStartAt # Null
    => jobs[j].jobAcceptAt # Null \/ jobs[j].workerData # Null

=============================================================================
