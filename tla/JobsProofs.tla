----------------------------- MODULE JobsProofs -----------------------------
(***************************************************************************)
(* Proofs about Jobs, for every set of jobs, users, providers, workers and *)
(* simultaneous requests.  The properties are about documents; what makes  *)
(* them inductive is what can be said of an awaited update: which fields   *)
(* it sets together, and which facts about the document, read before the   *)
(* await, still hold when the update is made because no update destroys    *)
(* them.                                                                   *)
(***************************************************************************)
EXTENDS FreshJobs, TLAPS

\* A leaf is left to Zenon unless it names SMTT (or PTL).
USE ZenonT(60)

\* Fields that record a milestone; an update sets at most one of them.
MilestoneFields == {"workerData", "jobAcceptAt", "jobRejectAt",
                    "jobStartAt", "jobFinishAt", "userFeedback"}

\* Fields that no update sets.
FixedFields == {"user_id", "providerData", "providerUserType", "amount",
                "revenue_percentage"}

Evidence(doc) ==
  /\ doc.job_status = "Assign"   => doc.workerData # Null
  /\ doc.job_status = "Accept"   => doc.jobAcceptAt # Null
  /\ doc.job_status = "Reject"   => doc.jobRejectAt # Null
  /\ doc.job_status = "Start"    => doc.jobStartAt # Null
  /\ doc.job_status = "Complete" => doc.jobFinishAt # Null
  /\ doc.job_status = "Processing" =>
       /\ doc.workerData = Null /\ doc.userFeedback = NoFeedback
       /\ doc.jobAcceptAt = Null /\ doc.jobRejectAt = Null
       /\ doc.jobStartAt = Null /\ doc.jobFinishAt = Null

Ordered(doc) ==
  /\ doc.jobStartAt # Null =>
       doc.jobAcceptAt # Null \/ doc.jobRejectAt # Null \/ doc.workerData # Null
  /\ doc.jobFinishAt # Null => doc.jobStartAt # Null
  /\ doc.userFeedback # NoFeedback => doc.jobFinishAt # Null

Priced(doc) ==
  /\ doc.paidAmount + doc.discount = doc.amount
  /\ doc.discount = 30 <=> doc.isCouponUse = 1
  /\ doc.isCouponUse = 1 => doc.couponCode = FIRST30

Shared(doc) ==
  doc.finalPaidAmount # Null =>
    doc.revenue_amount = r_amount(doc.finalPaidAmount, doc.revenue_percentage)

Employed(doc) ==
  doc.workerData # Null =>
    /\ doc.providerUserType = "Company"
    /\ companyData[doc.workerData] = doc.providerData

DocInv(doc) ==
  Evidence(doc) /\ Ordered(doc) /\ Priced(doc) /\ Shared(doc) /\ Employed(doc)

\* What holds of a status update and of the document when it is made.
StatusUpdate(data, doc) ==
  /\ "job_status" \in DOMAIN data =>
       /\ data.job_status # "Processing"
       /\ data.job_status = "Assign"   => "workerData"  \in DOMAIN data
       /\ data.job_status = "Accept"   => "jobAcceptAt" \in DOMAIN data
       /\ data.job_status = "Reject"   => "jobRejectAt" \in DOMAIN data
       /\ data.job_status = "Start"    => "jobStartAt"  \in DOMAIN data
       /\ data.job_status = "Complete" => "jobFinishAt" \in DOMAIN data
  /\ \A f \in {"workerData", "jobAcceptAt", "jobRejectAt",
               "jobStartAt", "jobFinishAt"} :
       f \in DOMAIN data => "job_status" \in DOMAIN data
  /\ "workerData"  \in DOMAIN data => data.workerData # Null
  /\ "jobAcceptAt" \in DOMAIN data => data.jobAcceptAt # Null
  /\ "jobRejectAt" \in DOMAIN data => data.jobRejectAt # Null
  /\ "jobStartAt"  \in DOMAIN data =>
       data.jobStartAt # Null /\ doc.job_status # "Processing"
  /\ "jobFinishAt" \in DOMAIN data =>
       data.jobFinishAt # Null /\ doc.jobStartAt # Null
  /\ "userFeedback" \in DOMAIN data =>
       data.userFeedback # NoFeedback /\ doc.jobFinishAt # Null

PriceUpdate(data, doc) ==
  \/ {"paidAmount", "discount", "isCouponUse", "couponCode"}
        \cap DOMAIN data = {}
  \/ /\ {"paidAmount", "discount", "isCouponUse"} \subseteq DOMAIN data
     /\ data.paidAmount + data.discount = doc.amount
     /\ data.discount = 30 <=> data.isCouponUse = 1
     /\ data.isCouponUse = 1 =>
          "couponCode" \in DOMAIN data /\ data.couponCode = FIRST30

ShareUpdate(data, doc) ==
  \/ {"finalPaidAmount", "revenue_amount"} \cap DOMAIN data = {}
  \/ /\ {"finalPaidAmount", "revenue_amount"} \subseteq DOMAIN data
     /\ data.revenue_amount =
          r_amount(data.finalPaidAmount, doc.revenue_percentage)

WorkerUpdate(condition, data) ==
  "workerData" \in DOMAIN data =>
    /\ {"providerData", "providerUserType"} \subseteq DOMAIN condition
    /\ condition.providerUserType = "Company"
    /\ condition.providerData = companyData[data.workerData]

UpdateInv(condition, data, doc) ==
  /\ DOMAIN data \cap FixedFields = {}
  /\ \A f, g \in MilestoneFields \cap DOMAIN data : f = g
  /\ StatusUpdate(data, doc) /\ PriceUpdate(data, doc)
  /\ ShareUpdate(data, doc) /\ WorkerUpdate(condition, data)

\* An update of document doc that a handler may decide on.
Permitted(condition, data, doc) ==
  /\ DOMAIN condition \subseteq Fields
  /\ DOMAIN data \subseteq Fields
  /\ \A f \in DOMAIN data : data[f] \in Schema[f]
  /\ UpdateInv(condition, data, doc)

\* The inductive invariant.
IInv ==
  /\ TypeOK
  /\ \A j \in DOMAIN jobs : DocInv(jobs[j])
  /\ \A r \in DOMAIN pending :
       UpdateInv(pending[r].condition, pending[r].data, jobs[pending[r].job])

-----------------------------------------------------------------------------
(* Facts about documents *)

\* The fields of the schema, listed.
LEMMA FieldsListed ==
  Fields = {"user_id", "providerData", "providerUserType", "workerData",
            "slot", "amount", "paidAmount", "discount", "isCouponUse",
            "couponCode", "finalPaidAmount", "revenue_percentage",
            "revenue_amount", "paymentStatus", "job_status", "jobAcceptAt",
            "jobRejectAt", "jobStartAt", "jobFinishAt", "jobRescheduleAt",
            "userFeedback"}
BY DEF Fields, Schema

\* An update replaces the fields of its data and no others.
LEMMA SetField ==
  ASSUME NEW doc, NEW data, NEW f \in DOMAIN doc
  PROVE  Set(doc, data)[f] = IF f \in DOMAIN data THEN data[f] ELSE doc[f]
BY DEF Set

\* An update with fields of the schema keeps a document a document.
LEMMA SetTyped ==
  ASSUME NEW doc, IsDocument(doc), NEW data,
         \A f \in DOMAIN data : data[f] \in Schema[f]
  PROVE  IsDocument(Set(doc, data))
BY DEF IsDocument, Set

\* An update that satisfies UpdateInv keeps the invariant of documents.
LEMMA UpdateKeepsDocInv ==
  ASSUME NEW doc, IsDocument(doc), DocInv(doc),
         NEW condition, NEW data, UpdateInv(condition, data, doc),
         Matches(doc, condition)
  PROVE  DocInv(Set(doc, data))
<1> DEFINE new == Set(doc, data)
<1>1. \A f \in Fields :
        new[f] = IF f \in DOMAIN data THEN data[f] ELSE doc[f]
  BY SetField, SMTT(60) DEF IsDocument
<1>2. \A f \in FixedFields : new[f] = doc[f]
  BY <1>1, FieldsListed DEF UpdateInv, FixedFields
<1> HIDE DEF new
<1>3. Evidence(new)
  <2>1. CASE "job_status" \in DOMAIN data
    BY <2>1, <1>1, FieldsListed DEF UpdateInv, StatusUpdate, Evidence
  <2>2. CASE "job_status" \notin DOMAIN data
    BY <2>2, <1>1, FieldsListed
    DEF UpdateInv, StatusUpdate, DocInv, Evidence
  <2> QED BY <2>1, <2>2
<1>4. Ordered(new)
  <2>1. new.jobStartAt # Null =>
          \/ new.jobAcceptAt # Null
          \/ new.jobRejectAt # Null
          \/ new.workerData # Null
    BY <1>1, FieldsListed, SMTT(60)
    DEF UpdateInv, StatusUpdate, DocInv, Evidence, Ordered, IsDocument,
        Schema, JOBSTATUS
  <2>2. new.jobFinishAt # Null => new.jobStartAt # Null
    BY <1>1, FieldsListed DEF UpdateInv, StatusUpdate, DocInv, Ordered
  <2>3. new.userFeedback # NoFeedback => new.jobFinishAt # Null
    BY <1>1, FieldsListed DEF UpdateInv, StatusUpdate, DocInv, Ordered
  <2> QED BY <2>1, <2>2, <2>3 DEF Ordered
<1>5. Priced(new)
  BY <1>1, <1>2, FieldsListed
  DEF UpdateInv, PriceUpdate, DocInv, Priced, FixedFields
<1>6. Shared(new)
  BY <1>1, <1>2, FieldsListed
  DEF UpdateInv, ShareUpdate, DocInv, Shared, FixedFields
<1>7. Employed(new)
  BY <1>1, <1>2, FieldsListed
  DEF UpdateInv, WorkerUpdate, Matches, DocInv, Employed, FixedFields
<1> QED BY <1>3, <1>4, <1>5, <1>6, <1>7 DEF DocInv, new

\* What a request concluded from a document stays true when another
\* request's update changes the document.
LEMMA UpdateKeepsUpdateInv ==
  ASSUME NEW doc, IsDocument(doc),
         NEW condition, NEW data, UpdateInv(condition, data, doc),
         NEW condition2, NEW data2, UpdateInv(condition2, data2, doc)
  PROVE  UpdateInv(condition2, data2, Set(doc, data))
<1> DEFINE new == Set(doc, data)
<1>1. \A f \in Fields :
        new[f] = IF f \in DOMAIN data THEN data[f] ELSE doc[f]
  BY SetField, SMTT(60) DEF IsDocument
<1>2. \A f \in FixedFields : new[f] = doc[f]
  BY <1>1, FieldsListed DEF UpdateInv, FixedFields
<1> HIDE DEF new
<1>3. /\ doc.job_status # "Processing" => new.job_status # "Processing"
      /\ doc.jobStartAt # Null => new.jobStartAt # Null
      /\ doc.jobFinishAt # Null => new.jobFinishAt # Null
  BY <1>1, FieldsListed DEF UpdateInv, StatusUpdate
<1>4. StatusUpdate(data2, new)
  BY <1>3 DEF UpdateInv, StatusUpdate
<1>5. PriceUpdate(data2, new)
  BY <1>2 DEF UpdateInv, PriceUpdate, FixedFields
<1>6. ShareUpdate(data2, new)
  BY <1>2 DEF UpdateInv, ShareUpdate, FixedFields
<1> QED BY <1>4, <1>5, <1>6 DEF UpdateInv, new

-----------------------------------------------------------------------------
(* The inductive invariant *)

\* A document just created satisfies the invariant of documents.
LEMMA CreatedDocInv ==
  ASSUME NEW u \in Users, NEW p \in Providers, NEW s \in Slots,
         NEW price \in Prices, NEW percentage \in Percentages
  PROVE  /\ IsDocument(addData(u, p, s, price, percentage))
         /\ DocInv(addData(u, p, s, price, percentage))
<1> DEFINE doc == addData(u, p, s, price, percentage)
<1>1. DOMAIN doc = Fields
  BY FieldsListed DEF addData
<1>2. doc.userFeedback \in Schema.userFeedback
  BY DEF addData, Schema, Feedback, NoFeedback, Timestamp
<1>3. \A f \in Fields \ {"userFeedback"} : doc[f] \in Schema[f]
  BY FieldsListed, ProvidersAssumption, AmountsAssumption, SMTT(60)
  DEF addData, Schema, USERTYPE, JOBSTATUS, PAYMENTSTATUS, Timestamp
<1>4. IsDocument(doc)
  BY <1>1, <1>2, <1>3 DEF IsDocument
<1>5. Evidence(doc) /\ Ordered(doc) /\ Shared(doc) /\ Employed(doc)
  BY DEF addData, Evidence, Ordered, Shared, Employed
<1>6. Priced(doc)
  BY AmountsAssumption, NullAssumption, SMTT(60) DEF addData, Priced
<1> QED BY <1>4, <1>5, <1>6 DEF DocInv

\* No job and no request: nothing to show.
LEMMA InitIInv == Init => IInv
BY DEF Init, IInv, TypeOK

\* Creating a job disturbs no awaited update: those are about other jobs.
LEMMA CreateIInv ==
  ASSUME IInv, NEW j \in Jobs, createData(j)
  PROVE  IInv'
<1>1. PICK u \in Users, p \in Providers, s \in Slots,
           price \in Prices, percentage \in Percentages :
        jobs' = Put(jobs, j, addData(u, p, s, price, percentage))
  BY DEF createData
<1> DEFINE doc == addData(u, p, s, price, percentage)
<1>2. IsDocument(doc) /\ DocInv(doc)
  BY CreatedDocInv
<1> HIDE DEF doc
<1>3. /\ j \notin DOMAIN jobs /\ pending' = pending
      /\ DOMAIN jobs' = DOMAIN jobs \cup {j}
      /\ jobs'[j] = doc
      /\ \A k \in DOMAIN jobs : jobs'[k] = jobs[k]
  BY <1>1 DEF createData, Exists, Put, doc
<1>4. TypeOK'
  BY <1>2, <1>3 DEF IInv, TypeOK, IsUpdateOption, Exists
<1>5. \A k \in DOMAIN jobs' : DocInv(jobs'[k])
  BY <1>2, <1>3 DEF IInv
<1>6. \A r \in DOMAIN pending' :
        UpdateInv(pending'[r].condition, pending'[r].data,
                  jobs'[pending'[r].job])
  BY <1>3 DEF IInv, TypeOK, IsUpdateOption, Exists
<1> QED BY <1>4, <1>5, <1>6 DEF IInv

\* A handler that decides on an update satisfying UpdateInv keeps IInv.
LEMMA AwaitIInv ==
  ASSUME IInv, NEW r \in Requests, NEW j, Exists(j),
         NEW condition, NEW data, Permitted(condition, data, jobs[j]),
         Await(r, j, condition, data)
  PROVE  IInv'
<1> DEFINE o == [job |-> j, condition |-> condition, data |-> data]
<1>1. /\ jobs' = jobs
      /\ DOMAIN pending' = DOMAIN pending \cup {r}
      /\ pending'[r] = o
      /\ \A q \in DOMAIN pending : pending'[q] = pending[q]
  BY DEF Await, Put
<1>2. IsUpdateOption(o)
  BY DEF IsUpdateOption, Permitted
<1>3. o.job = j /\ o.condition = condition /\ o.data = data
  OBVIOUS
<1> HIDE DEF o
<1>4. TypeOK'
  BY <1>1, <1>2 DEF IInv, TypeOK, IsUpdateOption, Exists
<1>5. ASSUME NEW q \in DOMAIN pending'
      PROVE  UpdateInv(pending'[q].condition, pending'[q].data,
                       jobs'[pending'[q].job])
  <2>1. CASE q = r
    BY <1>1, <1>3, <2>1 DEF Permitted
  <2>2. CASE q # r
    <3>1. q \in DOMAIN pending /\ pending'[q] = pending[q]
      BY <1>1, <2>2
    <3> QED BY <1>1, <3>1 DEF IInv
  <2> QED BY <2>1, <2>2
<1> QED BY <1>1, <1>4, <1>5 DEF IInv

\* proceedToPay with a coupon code: the discount and the rest add up to the price.
LEMMA CouponPermitted ==
  ASSUME NEW doc, doc.amount \in Prices,
         NEW code \in Coupons \cup {FIRST30}
  PROVE  Permitted(NoCondition,
                   [paidAmount |-> doc.amount - discountOf(code),
                    discount |-> discountOf(code),
                    isCouponUse |-> IF code = FIRST30 THEN 1 ELSE 0,
                    couponCode |-> code], doc)
<1> DEFINE d == [paidAmount |-> doc.amount - discountOf(code),
                 discount |-> discountOf(code),
                 isCouponUse |-> IF code = FIRST30 THEN 1 ELSE 0,
                 couponCode |-> code]
<1>1. /\ DOMAIN d = {"paidAmount", "discount", "isCouponUse", "couponCode"}
      /\ d.paidAmount = doc.amount - discountOf(code)
      /\ d.discount = discountOf(code)
      /\ d.isCouponUse = IF code = FIRST30 THEN 1 ELSE 0
      /\ d.couponCode = code
  OBVIOUS
<1> HIDE DEF d
<1>2. DOMAIN d \subseteq Fields /\ DOMAIN NoCondition \subseteq Fields
  BY <1>1, FieldsListed DEF NoCondition
<1>5. doc.amount \in Int
  <2>1. doc.amount \in Nat
    BY AmountsAssumption
  <2> QED BY <2>1, SMTT(60)
<1>3. \A f \in DOMAIN d : d[f] \in Schema[f]
  BY <1>1, <1>5, NullAssumption, SMTT(60) DEF Schema, discountOf
<1>4. UpdateInv(NoCondition, d, doc)
  BY <1>1, <1>5, NullAssumption, SMTT(60)
  DEF UpdateInv, StatusUpdate, PriceUpdate, ShareUpdate, WorkerUpdate,
      FixedFields, MilestoneFields, discountOf
<1> QED BY <1>2, <1>3, <1>4 DEF Permitted, d

\* proceedToPay without a coupon code.
LEMMA NoCouponPermitted ==
  ASSUME NEW doc, doc.amount \in Prices
  PROVE  Permitted(NoCondition,
                   [paidAmount |-> doc.amount,
                    discount |-> 0,
                    isCouponUse |-> 0], doc)
<1> DEFINE d == [paidAmount |-> doc.amount,
                 discount |-> 0,
                 isCouponUse |-> 0]
<1>1. /\ DOMAIN d = {"paidAmount", "discount", "isCouponUse"}
      /\ d.paidAmount = doc.amount
      /\ d.discount = 0
      /\ d.isCouponUse = 0
  OBVIOUS
<1> HIDE DEF d
<1>2. DOMAIN d \subseteq Fields /\ DOMAIN NoCondition \subseteq Fields
  BY <1>1, FieldsListed DEF NoCondition
<1>5. doc.amount \in Int
  <2>1. doc.amount \in Nat
    BY AmountsAssumption
  <2> QED BY <2>1, SMTT(60)
<1>3. \A f \in DOMAIN d : d[f] \in Schema[f]
  BY <1>1, <1>5, NullAssumption, SMTT(60) DEF Schema
<1>4. UpdateInv(NoCondition, d, doc)
  BY <1>1, <1>5, NullAssumption, SMTT(60)
  DEF UpdateInv, StatusUpdate, PriceUpdate, ShareUpdate, WorkerUpdate,
      FixedFields, MilestoneFields
<1> QED BY <1>2, <1>3, <1>4 DEF Permitted, d

\* paymentSuccess: at any time.
LEMMA PaidPermitted ==
  ASSUME NEW doc
  PROVE  Permitted(NoCondition,
                   [paymentStatus |-> "Success"], doc)
<1> DEFINE d == [paymentStatus |-> "Success"]
<1>1. /\ DOMAIN d = {"paymentStatus"}
      /\ d.paymentStatus = "Success"
  OBVIOUS
<1> HIDE DEF d
<1>2. DOMAIN d \subseteq Fields /\ DOMAIN NoCondition \subseteq Fields
  BY <1>1, FieldsListed DEF NoCondition
<1>3. \A f \in DOMAIN d : d[f] \in Schema[f]
  BY <1>1, SMTT(60) DEF Schema, PAYMENTSTATUS
<1>4. UpdateInv(NoCondition, d, doc)
  BY <1>1
  DEF UpdateInv, StatusUpdate, PriceUpdate, ShareUpdate, WorkerUpdate,
      FixedFields, MilestoneFields
<1> QED BY <1>2, <1>3, <1>4 DEF Permitted, d

\* assignJobToWorker: the condition names the company of the worker.
LEMMA AssignPermitted ==
  ASSUME NEW doc, NEW w \in Workers
  PROVE  Permitted([providerData |-> companyData[w], providerUserType |-> "Company"],
                   [workerData |-> w,
                    job_status |-> "Assign"], doc)
<1> DEFINE d == [workerData |-> w,
                 job_status |-> "Assign"]
<1>1. /\ DOMAIN d = {"workerData", "job_status"}
      /\ d.workerData = w
      /\ d.job_status = "Assign"
  OBVIOUS
<1> HIDE DEF d
<1>2. DOMAIN d \subseteq Fields /\ DOMAIN [providerData |-> companyData[w], providerUserType |-> "Company"] \subseteq Fields
  BY <1>1, FieldsListed DEF NoCondition
<1>3. \A f \in DOMAIN d : d[f] \in Schema[f]
  BY <1>1, NullAssumption, SMTT(60) DEF Schema, JOBSTATUS
<1>4. UpdateInv([providerData |-> companyData[w], providerUserType |-> "Company"], d, doc)
  BY <1>1, NullAssumption
  DEF UpdateInv, StatusUpdate, PriceUpdate, ShareUpdate, WorkerUpdate,
      FixedFields, MilestoneFields
<1> QED BY <1>2, <1>3, <1>4 DEF Permitted, d

\* jobAccept: at any time.
LEMMA AcceptPermitted ==
  ASSUME NEW doc
  PROVE  Permitted(NoCondition,
                   [job_status |-> "Accept",
                    jobAcceptAt |-> Now], doc)
<1> DEFINE d == [job_status |-> "Accept",
                 jobAcceptAt |-> Now]
<1>1. /\ DOMAIN d = {"job_status", "jobAcceptAt"}
      /\ d.job_status = "Accept"
      /\ d.jobAcceptAt = Now
  OBVIOUS
<1> HIDE DEF d
<1>2. DOMAIN d \subseteq Fields /\ DOMAIN NoCondition \subseteq Fields
  BY <1>1, FieldsListed DEF NoCondition
<1>3. \A f \in DOMAIN d : d[f] \in Schema[f]
  BY <1>1, NullAssumption, SMTT(60) DEF Schema, JOBSTATUS, Timestamp
<1>4. UpdateInv(NoCondition, d, doc)
  BY <1>1, NullAssumption
  DEF UpdateInv, StatusUpdate, PriceUpdate, ShareUpdate, WorkerUpdate,
      FixedFields, MilestoneFields
<1> QED BY <1>2, <1>3, <1>4 DEF Permitted, d

\* jobReject and user_cancel_job: at any time.
LEMMA RejectPermitted ==
  ASSUME NEW doc, NEW condition, DOMAIN condition \subseteq Fields
  PROVE  Permitted(condition,
                   [job_status |-> "Reject",
                    jobRejectAt |-> Now], doc)
<1> DEFINE d == [job_status |-> "Reject",
                 jobRejectAt |-> Now]
<1>1. /\ DOMAIN d = {"job_status", "jobRejectAt"}
      /\ d.job_status = "Reject"
      /\ d.jobRejectAt = Now
  OBVIOUS
<1> HIDE DEF d
<1>2. DOMAIN d \subseteq Fields /\ DOMAIN condition \subseteq Fields
  BY <1>1, FieldsListed DEF NoCondition
<1>3. \A f \in DOMAIN d : d[f] \in Schema[f]
  BY <1>1, NullAssumption, SMTT(60) DEF Schema, JOBSTATUS, Timestamp
<1>4. UpdateInv(condition, d, doc)
  BY <1>1, NullAssumption
  DEF UpdateInv, StatusUpdate, PriceUpdate, ShareUpdate, WorkerUpdate,
      FixedFields, MilestoneFields
<1> QED BY <1>2, <1>3, <1>4 DEF Permitted, d

\* jobStart: once the job has left Processing.
LEMMA StartPermitted ==
  ASSUME NEW doc, doc.job_status # "Processing"
  PROVE  Permitted(NoCondition,
                   [job_status |-> "Start",
                    jobStartAt |-> Now], doc)
<1> DEFINE d == [job_status |-> "Start",
                 jobStartAt |-> Now]
<1>1. /\ DOMAIN d = {"job_status", "jobStartAt"}
      /\ d.job_status = "Start"
      /\ d.jobStartAt = Now
  OBVIOUS
<1> HIDE DEF d
<1>2. DOMAIN d \subseteq Fields /\ DOMAIN NoCondition \subseteq Fields
  BY <1>1, FieldsListed DEF NoCondition
<1>3. \A f \in DOMAIN d : d[f] \in Schema[f]
  BY <1>1, NullAssumption, SMTT(60) DEF Schema, JOBSTATUS, Timestamp
<1>4. UpdateInv(NoCondition, d, doc)
  BY <1>1, NullAssumption
  DEF UpdateInv, StatusUpdate, PriceUpdate, ShareUpdate, WorkerUpdate,
      FixedFields, MilestoneFields
<1> QED BY <1>2, <1>3, <1>4 DEF Permitted, d

\* jobFinish: once the job has been started.
LEMMA FinishPermitted ==
  ASSUME NEW doc, doc.jobStartAt # Null
  PROVE  Permitted(NoCondition,
                   [job_status |-> "Complete",
                    paymentStatus |-> "Success",
                    jobFinishAt |-> Now], doc)
<1> DEFINE d == [job_status |-> "Complete",
                 paymentStatus |-> "Success",
                 jobFinishAt |-> Now]
<1>1. /\ DOMAIN d = {"job_status", "paymentStatus", "jobFinishAt"}
      /\ d.job_status = "Complete"
      /\ d.paymentStatus = "Success"
      /\ d.jobFinishAt = Now
  OBVIOUS
<1> HIDE DEF d
<1>2. DOMAIN d \subseteq Fields /\ DOMAIN NoCondition \subseteq Fields
  BY <1>1, FieldsListed DEF NoCondition
<1>3. \A f \in DOMAIN d : d[f] \in Schema[f]
  BY <1>1, NullAssumption, SMTT(60) DEF Schema, JOBSTATUS, PAYMENTSTATUS, Timestamp
<1>4. UpdateInv(NoCondition, d, doc)
  BY <1>1, NullAssumption
  DEF UpdateInv, StatusUpdate, PriceUpdate, ShareUpdate, WorkerUpdate,
      FixedFields, MilestoneFields
<1> QED BY <1>2, <1>3, <1>4 DEF Permitted, d

\* paymentUpdate: the amount and the platform's share of it.
LEMMA PaymentPermitted ==
  ASSUME NEW doc, doc.revenue_percentage \in Percentages,
         NEW paid \in Payments, NEW status \in ReportedStatus
  PROVE  Permitted(NoCondition,
                   [finalPaidAmount |-> paid,
                    paymentStatus |-> status,
                    revenue_amount |-> r_amount(paid, doc.revenue_percentage)], doc)
<1> DEFINE d == [finalPaidAmount |-> paid,
                 paymentStatus |-> status,
                 revenue_amount |-> r_amount(paid, doc.revenue_percentage)]
<1>1. /\ DOMAIN d = {"finalPaidAmount", "paymentStatus", "revenue_amount"}
      /\ d.finalPaidAmount = paid
      /\ d.paymentStatus = status
      /\ d.revenue_amount = r_amount(paid, doc.revenue_percentage)
  OBVIOUS
<1> HIDE DEF d
<1>2. DOMAIN d \subseteq Fields /\ DOMAIN NoCondition \subseteq Fields
  BY <1>1, FieldsListed DEF NoCondition
<1>5. r_amount(paid, doc.revenue_percentage) \in Int
  <2>1. paid \in Int
    BY AmountsAssumption, SMTT(60)
  <2>2. doc.revenue_percentage \in Int
    BY AmountsAssumption
  <2> QED BY <2>1, <2>2, SMTT(60) DEF r_amount
<1>3. \A f \in DOMAIN d : d[f] \in Schema[f]
  BY <1>1, <1>5, AmountsAssumption, SMTT(60) DEF Schema
<1>4. UpdateInv(NoCondition, d, doc)
  BY <1>1
  DEF UpdateInv, StatusUpdate, PriceUpdate, ShareUpdate, WorkerUpdate,
      FixedFields, MilestoneFields
<1> QED BY <1>2, <1>3, <1>4 DEF Permitted, d

\* user_job_reschedule: touches nothing that the invariant speaks of.
LEMMA ReschedulePermitted ==
  ASSUME NEW doc, NEW u \in Users, NEW s \in Slots
  PROVE  Permitted([user_id |-> u],
                   [slot |-> s,
                    jobRescheduleAt |-> Now], doc)
<1> DEFINE d == [slot |-> s,
                 jobRescheduleAt |-> Now]
<1>1. /\ DOMAIN d = {"slot", "jobRescheduleAt"}
      /\ d.slot = s
      /\ d.jobRescheduleAt = Now
  OBVIOUS
<1> HIDE DEF d
<1>2. DOMAIN d \subseteq Fields /\ DOMAIN [user_id |-> u] \subseteq Fields
  BY <1>1, FieldsListed DEF NoCondition
<1>3. \A f \in DOMAIN d : d[f] \in Schema[f]
  BY <1>1, SMTT(60) DEF Schema, Timestamp
<1>4. UpdateInv([user_id |-> u], d, doc)
  BY <1>1
  DEF UpdateInv, StatusUpdate, PriceUpdate, ShareUpdate, WorkerUpdate,
      FixedFields, MilestoneFields
<1> QED BY <1>2, <1>3, <1>4 DEF Permitted, d

\* submitFeedback and replyFeedback: once the job has been finished.
LEMMA FeedbackPermitted ==
  ASSUME NEW doc, doc.jobFinishAt # Null,
         NEW condition, DOMAIN condition \subseteq Fields,
         NEW feedback \in Feedback,
         feedback # NoFeedback
  PROVE  Permitted(condition,
                   [userFeedback |-> feedback], doc)
<1> DEFINE d == [userFeedback |-> feedback]
<1>1. /\ DOMAIN d = {"userFeedback"}
      /\ d.userFeedback = feedback
  OBVIOUS
<1> HIDE DEF d
<1>2. DOMAIN d \subseteq Fields /\ DOMAIN condition \subseteq Fields
  BY <1>1, FieldsListed DEF NoCondition
<1>3. \A f \in DOMAIN d : d[f] \in Schema[f]
  BY <1>1, SMTT(60) DEF Schema
<1>4. UpdateInv(condition, d, doc)
  BY <1>1
  DEF UpdateInv, StatusUpdate, PriceUpdate, ShareUpdate, WorkerUpdate,
      FixedFields, MilestoneFields
<1> QED BY <1>2, <1>3, <1>4 DEF Permitted, d

\* The decision of each handler keeps the invariant, one step per handler.
LEMMA HandlerIInv ==
  ASSUME IInv, NEW r \in Requests, NEW j \in Jobs, Handler(r, j)
  PROVE  IInv'
<1> DEFINE doc == jobs[j]
<1>1. Exists(j)
  BY DEF Handler, proceedToPay, paymentSuccess, assignJobToWorker, jobAccept,
         jobReject, user_cancel_job, jobStart, jobFinish, paymentUpdate,
         user_job_reschedule, submitFeedback, replyFeedback
<1>2. IsDocument(doc) /\ DocInv(doc)
  BY <1>1 DEF IInv, TypeOK, Exists
<1>3. /\ doc.amount \in Prices
      /\ doc.revenue_percentage \in Percentages
      /\ doc.userFeedback \in Feedback
  BY <1>2, FieldsListed, SMTT(60) DEF IsDocument, Schema
<1>4. /\ doc.job_status = "Start" => doc.jobStartAt # Null
      /\ doc.job_status = "Complete" => doc.jobFinishAt # Null
  BY <1>2 DEF DocInv, Evidence
<1>5. ASSUME NEW condition, NEW data, Permitted(condition, data, doc),
             Await(r, j, condition, data)
      PROVE  IInv'
  BY <1>1, <1>5, AwaitIInv
<1>6. CASE proceedToPay(r, j)
  BY <1>3, <1>5, <1>6, CouponPermitted, NoCouponPermitted
  DEF proceedToPay, couponData, noCouponData
<1>7. CASE paymentSuccess(r, j)
  BY <1>5, <1>7, PaidPermitted DEF paymentSuccess
<1>8. CASE assignJobToWorker(r, j)
  BY <1>5, <1>8, AssignPermitted DEF assignJobToWorker
<1>9. CASE jobAccept(r, j)
  BY <1>5, <1>9, AcceptPermitted DEF jobAccept
<1>10. CASE jobReject(r, j)
  <2>1. Permitted(NoCondition, rejectData, doc)
    BY RejectPermitted DEF rejectData, NoCondition
  <2> QED BY <1>5, <1>10, <2>1 DEF jobReject
<1>11. CASE user_cancel_job(r, j)
  <2>1. ASSUME NEW u \in Users
        PROVE  Permitted([user_id |-> u], rejectData, doc)
    BY RejectPermitted, FieldsListed DEF rejectData
  <2> QED BY <1>5, <1>11, <2>1 DEF user_cancel_job
<1>12. CASE jobStart(r, j)
  BY <1>5, <1>12, StartPermitted DEF jobStart
<1>13. CASE jobFinish(r, j)
  BY <1>4, <1>5, <1>13, FinishPermitted DEF jobFinish
<1>14. CASE paymentUpdate(r, j)
  BY <1>3, <1>5, <1>14, PaymentPermitted DEF paymentUpdate
<1>15. CASE user_job_reschedule(r, j)
  BY <1>5, <1>15, ReschedulePermitted DEF user_job_reschedule
<1>16. CASE submitFeedback(r, j)
  <2>1. ASSUME NEW u \in Users, NEW s \in Stars
        PROVE  Permitted([user_id |-> u],
                         [userFeedback |-> [star |-> s, replayAt |-> Null]],
                         doc)
    <3>1. /\ [star |-> s, replayAt |-> Null] \in Feedback
          /\ [star |-> s, replayAt |-> Null] # NoFeedback
      BY NullAssumption DEF Feedback, NoFeedback, Timestamp
    <3>2. DOMAIN [user_id |-> u] \subseteq Fields
      BY FieldsListed
    <3> QED BY <1>4, <1>16, <3>1, <3>2, FeedbackPermitted DEF submitFeedback
  <2> QED BY <1>5, <1>16, <2>1 DEF submitFeedback
<1>17. CASE replyFeedback(r, j)
  <2> DEFINE feedback == [star |-> doc.userFeedback.star, replayAt |-> Now]
  <2>1. ASSUME NEW p \in Providers
        PROVE  Permitted([providerData |-> p], [userFeedback |-> feedback], doc)
    <3>1. feedback \in Feedback /\ feedback # NoFeedback
      BY <1>3, NullAssumption DEF Feedback, NoFeedback, Timestamp
    <3>2. DOMAIN [providerData |-> p] \subseteq Fields
      BY FieldsListed
    <3> HIDE DEF feedback
    <3> QED BY <1>4, <1>17, <3>1, <3>2, FeedbackPermitted DEF replyFeedback
  <2> QED BY <1>5, <1>17, <2>1 DEF replyFeedback
<1> QED
  BY <1>6, <1>7, <1>8, <1>9, <1>10, <1>11, <1>12, <1>13, <1>14, <1>15, <1>16,
     <1>17 DEF Handler

\* The update of the database keeps the invariant: of the document it
\* changes, and of the updates of that document still awaited.
LEMMA UpdateIInv ==
  ASSUME IInv, NEW r \in Requests, updateData(r)
  PROVE  IInv'
<1> DEFINE o == pending[r]
           doc == jobs[o.job]
           new == Set(doc, o.data)
<1>1. /\ r \in DOMAIN pending
      /\ DOMAIN pending' = DOMAIN pending \ {r}
      /\ \A q \in DOMAIN pending' : pending'[q] = pending[q]
  BY DEF updateData, Remove
<1>2. IsUpdateOption(o) /\ Exists(o.job) /\ IsDocument(doc) /\ DocInv(doc)
  BY <1>1 DEF IInv, TypeOK, IsUpdateOption, Exists
<1>3. UpdateInv(o.condition, o.data, doc)
  BY <1>1 DEF IInv
<1>4. CASE jobs' = jobs
  BY <1>1, <1>4 DEF IInv, TypeOK, IsUpdateOption, Exists
<1>5. CASE Matches(doc, o.condition) /\ jobs' = Put(jobs, o.job, new)
  <2>1. IsDocument(new) /\ DocInv(new)
    BY <1>2, <1>3, <1>5, SetTyped, UpdateKeepsDocInv DEF IsUpdateOption
  <2>2. /\ DOMAIN jobs' = DOMAIN jobs
        /\ jobs'[o.job] = new
        /\ \A k \in DOMAIN jobs : k # o.job => jobs'[k] = jobs[k]
    BY <1>2, <1>5 DEF Put, Exists
  <2>3. TypeOK'
    BY <1>1, <2>1, <2>2 DEF IInv, TypeOK, IsUpdateOption, Exists
  <2>4. \A k \in DOMAIN jobs' : DocInv(jobs'[k])
    BY <2>1, <2>2 DEF IInv
  <2>5. ASSUME NEW q \in DOMAIN pending'
        PROVE  UpdateInv(pending'[q].condition, pending'[q].data,
                         jobs'[pending'[q].job])
    <3>1. /\ q \in DOMAIN pending /\ pending'[q] = pending[q]
          /\ UpdateInv(pending[q].condition, pending[q].data,
                       jobs[pending[q].job])
          /\ Exists(pending[q].job)
      BY <1>1 DEF IInv, TypeOK, IsUpdateOption
    <3>2. CASE pending[q].job = o.job
      BY <1>2, <1>3, <2>2, <3>1, <3>2, UpdateKeepsUpdateInv, SMTT(60)
    <3>3. CASE pending[q].job # o.job
      BY <2>2, <3>1, <3>3 DEF Exists
    <3> QED BY <3>2, <3>3
  <2> QED BY <2>3, <2>4, <2>5 DEF IInv
<1> QED BY <1>4, <1>5 DEF updateData

\* Every step of the job API preserves the inductive invariant.
LEMMA NextIInv == IInv /\ [Next]_vars => IInv'
<1> SUFFICES ASSUME IInv, [Next]_vars PROVE IInv'
  OBVIOUS
<1>1. ASSUME NEW j \in Jobs, createData(j) PROVE IInv'
  BY <1>1, CreateIInv
<1>2. ASSUME NEW r \in Requests, NEW j \in Jobs, Handler(r, j) PROVE IInv'
  BY <1>2, HandlerIInv
<1>3. ASSUME NEW r \in Requests, updateData(r) PROVE IInv'
  BY <1>3, UpdateIInv, SMTT(60)
<1>4. ASSUME NEW r \in Requests, serverError(r) PROVE IInv'
  BY <1>4 DEF serverError, Remove, IInv, TypeOK, IsUpdateOption, Exists
<1>5. CASE UNCHANGED vars
  BY <1>5 DEF vars, IInv, TypeOK, IsUpdateOption, Exists
<1> QED BY <1>1, <1>2, <1>3, <1>4, <1>5 DEF Next

\* The invariant holds in every state that requests, in any number and in
\* any order, can reach.
THEOREM Inductive == Spec => []IInv
BY InitIInv, NextIInv, PTL DEF Spec

-----------------------------------------------------------------------------
(* The properties *)

\* Every stored job and every awaited update has its type, always.
THEOREM TypeCorrect == Spec => []TypeOK
BY Inductive, PTL DEF IInv

\* The milestones of a document, one by one.
LEMMA MilestonesOf ==
  ASSUME NEW doc
  PROVE  /\ Milestones(doc) \subseteq Contract!Milestone
         /\ "placed" \in Milestones(doc)
         /\ "assigned" \in Milestones(doc) <=> doc.workerData # Null
         /\ "accepted" \in Milestones(doc) <=> doc.jobAcceptAt # Null
         /\ "rejected" \in Milestones(doc) <=> doc.jobRejectAt # Null
         /\ "started"  \in Milestones(doc) <=> doc.jobStartAt # Null
         /\ "finished" \in Milestones(doc) <=> doc.jobFinishAt # Null
         /\ "reviewed" \in Milestones(doc) <=> doc.userFeedback # NoFeedback
BY DEF Milestones, Contract!Milestone

\* job_status never says more than the document records, for any overlap
\* of requests.
THEOREM StatusEvidence == Spec => []StatusHasEvidence
<1>1. IInv => StatusHasEvidence
  <2> SUFFICES ASSUME IInv, NEW j \in DOMAIN jobs
               PROVE  LET doc == jobs[j] IN
                      CASE doc.job_status = "Assign" -> doc.workerData # Null
                        [] doc.job_status = "Accept" -> doc.jobAcceptAt # Null
                        [] doc.job_status = "Reject" -> doc.jobRejectAt # Null
                        [] doc.job_status = "Start" -> doc.jobStartAt # Null
                        [] doc.job_status = "Complete" -> doc.jobFinishAt # Null
                        [] OTHER -> Milestones(doc) = {"placed"}
    BY DEF StatusHasEvidence
  <2> DEFINE doc == jobs[j]
  <2>1. Evidence(doc) /\ doc.job_status \in JOBSTATUS
    BY FieldsListed DEF IInv, DocInv, TypeOK, IsDocument, Schema
  <2>2. doc.job_status = "Processing" => Milestones(doc) = {"placed"}
    BY <2>1, MilestonesOf DEF Evidence, Contract!Milestone
  <2> HIDE DEF doc
  <2>3. CASE doc.job_status = "Processing"
    BY <2>2, <2>3 DEF doc
  <2>4. CASE doc.job_status # "Processing"
    BY <2>1, <2>4 DEF Evidence, JOBSTATUS, doc
  <2> QED BY <2>3, <2>4
<1> QED BY <1>1, Inductive, PTL

\* What is paid, the discount and the coupon agree with the price, always.
THEOREM PriceAgreement == Spec => []PriceConsistent
<1>1. IInv => PriceConsistent
  BY DEF IInv, DocInv, Priced, PriceConsistent
<1> QED BY <1>1, Inductive, PTL

\* The stored revenue is the share of the stored amount, always.
THEOREM RevenueAgreement == Spec => []RevenueConsistent
<1>1. IInv => RevenueConsistent
  BY DEF IInv, DocInv, Shared, RevenueConsistent
<1> QED BY <1>1, Inductive, PTL

\* A job's worker belongs to the company of the job, always.
THEOREM WorkerEmployed == Spec => []WorkerOfTheCompany
<1>1. IInv => WorkerOfTheCompany
  BY DEF IInv, DocInv, Employed, WorkerOfTheCompany
<1> QED BY <1>1, Inductive, PTL

\* The decision of a handler does not change the collection.
LEMMA HandlerReads ==
  ASSUME NEW r, NEW j, Handler(r, j)
  PROVE  jobs' = jobs
BY DEF Handler, proceedToPay, paymentSuccess, assignJobToWorker, jobAccept,
       jobReject, user_cancel_job, jobStart, jobFinish, paymentUpdate,
       user_job_reschedule, submitFeedback, replyFeedback, Await

\* What one step does to a stored job: nothing, or an update that satisfies
\* the invariant of updates.
LEMMA StepOnJob ==
  ASSUME IInv, [Next]_vars, NEW j \in DOMAIN jobs
  PROVE  /\ j \in DOMAIN jobs'
         /\ \/ jobs'[j] = jobs[j]
            \/ \E condition, data :
                 /\ UpdateInv(condition, data, jobs[j])
                 /\ jobs'[j] = Set(jobs[j], data)
<1>1. CASE \E k \in Jobs : createData(k)
  BY <1>1 DEF createData, Put, Exists
<1>2. CASE \E r \in Requests, k \in Jobs : Handler(r, k)
  BY <1>2, HandlerReads
<1>3. CASE \E r \in Requests : updateData(r)
  <2>1. PICK r \in Requests : updateData(r)
    BY <1>3
  <2>2. /\ r \in DOMAIN pending
        /\ UpdateInv(pending[r].condition, pending[r].data,
                     jobs[pending[r].job])
    BY <2>1 DEF updateData, IInv
  <2>3. \/ jobs' = jobs
        \/ jobs' = Put(jobs, pending[r].job,
                       Set(jobs[pending[r].job], pending[r].data))
    BY <2>1 DEF updateData
  <2> QED BY <2>2, <2>3, SMTT(60) DEF Put
<1>4. CASE \E r \in Requests : serverError(r)
  BY <1>4 DEF serverError
<1>5. CASE UNCHANGED vars
  BY <1>5 DEF vars
<1> QED BY <1>1, <1>2, <1>3, <1>4, <1>5 DEF Next

\* No step takes a job back to Processing or past the provider's answer.
THEOREM StatusOrdered == Spec => StatusOrder
<1>1. ASSUME IInv, [Next]_vars, NEW j \in DOMAIN jobs
      PROVE  /\ jobs[j].job_status # "Processing"
                  => jobs'[j].job_status # "Processing"
             /\ jobs[j].job_status = "Processing"
                  => jobs'[j].job_status \notin {"Start", "Complete"}
  <2>1. CASE jobs'[j] = jobs[j]
    BY <2>1
  <2>2. ASSUME NEW condition, NEW data,
               UpdateInv(condition, data, jobs[j]),
               jobs'[j] = Set(jobs[j], data)
        PROVE  /\ jobs[j].job_status # "Processing"
                    => jobs'[j].job_status # "Processing"
               /\ jobs[j].job_status = "Processing"
                    => jobs'[j].job_status \notin {"Start", "Complete"}
    <3>1. Evidence(jobs[j]) /\ IsDocument(jobs[j])
      BY <1>1 DEF IInv, DocInv, TypeOK
    <3>2. jobs'[j].job_status = IF "job_status" \in DOMAIN data
                                THEN data.job_status ELSE jobs[j].job_status
      BY <2>2, <3>1, SetField, FieldsListed, SMTT(60) DEF IsDocument
    <3> QED BY <2>2, <3>1, <3>2 DEF UpdateInv, StatusUpdate, Evidence
  <2> QED BY <1>1, <2>1, <2>2, StepOnJob
<1>2. IInv /\ [Next]_vars =>
        [\A j \in DOMAIN jobs :
           /\ jobs[j].job_status # "Processing"
                => jobs'[j].job_status # "Processing"
           /\ jobs[j].job_status = "Processing"
                => jobs'[j].job_status \notin {"Start", "Complete"}]_vars
  BY <1>1
<1> QED BY <1>2, Inductive, PTL DEF Spec, StatusOrder

-----------------------------------------------------------------------------
(* Jobs implements JobMilestones *)

\* An update adds one milestone that may come next, or none.
LEMMA UpdateReaches ==
  ASSUME NEW doc, IsDocument(doc), DocInv(doc),
         NEW condition, NEW data, UpdateInv(condition, data, doc)
  PROVE  \/ Milestones(Set(doc, data)) = Milestones(doc)
         \/ \E m \in Contract!Milestone :
              /\ m \notin Milestones(doc)
              /\ Contract!MayReach(m, Milestones(doc))
              /\ Milestones(Set(doc, data)) = Milestones(doc) \cup {m}
<1> DEFINE new == Set(doc, data)
           old == Milestones(doc)
<1>1. \A f \in Fields :
        new[f] = IF f \in DOMAIN data THEN data[f] ELSE doc[f]
  BY SetField, SMTT(60) DEF IsDocument
<1>2. /\ \A f \in MilestoneFields : f \notin DOMAIN data => new[f] = doc[f]
      /\ \A f \in MilestoneFields :
           f \in DOMAIN data =>
             /\ new[f] = data[f]
             /\ \A g \in MilestoneFields \ {f} : new[g] = doc[g]
  BY <1>1, FieldsListed, SMTT(60) DEF UpdateInv, MilestoneFields
<1> HIDE DEF new
<1>3. ASSUME NEW m \in Contract!Milestone, Milestones(new) = old \cup {m},
             Contract!MayReach(m, old)
      PROVE  \/ Milestones(new) = old
             \/ \E n \in Contract!Milestone :
                  /\ n \notin old
                  /\ Contract!MayReach(n, old)
                  /\ Milestones(new) = old \cup {n}
  BY <1>3
<1>4. CASE MilestoneFields \cap DOMAIN data = {}
  <2>1. Milestones(new) = old
    BY <1>2, <1>4 DEF Milestones, MilestoneFields
  <2> QED BY <2>1 DEF new
<1>5. CASE "workerData" \in DOMAIN data
  <2>1. Milestones(new) = old \cup {"assigned"}
    BY <1>2, <1>5, SMTT(60) DEF Milestones, MilestoneFields, UpdateInv, StatusUpdate
  <2>2. Contract!MayReach("assigned", old)
    BY MilestonesOf DEF Contract!MayReach, Contract!Answer
  <2> QED BY <1>3, <2>1, <2>2 DEF Contract!Milestone, new
<1>6. CASE "jobAcceptAt" \in DOMAIN data
  <2>1. Milestones(new) = old \cup {"accepted"}
    BY <1>2, <1>6, SMTT(60) DEF Milestones, MilestoneFields, UpdateInv, StatusUpdate
  <2>2. Contract!MayReach("accepted", old)
    BY MilestonesOf DEF Contract!MayReach, Contract!Answer
  <2> QED BY <1>3, <2>1, <2>2 DEF Contract!Milestone, new
<1>7. CASE "jobRejectAt" \in DOMAIN data
  <2>1. Milestones(new) = old \cup {"rejected"}
    BY <1>2, <1>7, SMTT(60) DEF Milestones, MilestoneFields, UpdateInv, StatusUpdate
  <2>2. Contract!MayReach("rejected", old)
    BY MilestonesOf DEF Contract!MayReach, Contract!Answer
  <2> QED BY <1>3, <2>1, <2>2 DEF Contract!Milestone, new
<1>8. CASE "jobStartAt" \in DOMAIN data
  <2>1. Milestones(new) = old \cup {"started"}
    BY <1>2, <1>8, SMTT(60) DEF Milestones, MilestoneFields, UpdateInv, StatusUpdate
  <2>2. /\ doc.job_status \in JOBSTATUS /\ doc.job_status # "Processing"
        /\ Evidence(doc) /\ Ordered(doc)
    BY <1>8, FieldsListed, SMTT(60)
    DEF IsDocument, Schema, UpdateInv, StatusUpdate, DocInv
  <2>3. \/ doc.workerData # Null
        \/ doc.jobAcceptAt # Null
        \/ doc.jobRejectAt # Null
    BY <2>2 DEF Evidence, Ordered, JOBSTATUS
  <2>4. Contract!MayReach("started", old)
    BY <2>3, MilestonesOf DEF Contract!MayReach, Contract!Answer
  <2> QED BY <1>3, <2>1, <2>4 DEF Contract!Milestone, new
<1>9. CASE "jobFinishAt" \in DOMAIN data
  <2>1. Milestones(new) = old \cup {"finished"}
    BY <1>2, <1>9, SMTT(60) DEF Milestones, MilestoneFields, UpdateInv, StatusUpdate
  <2>2. Contract!MayReach("finished", old)
    BY <1>9, MilestonesOf DEF Contract!MayReach, UpdateInv, StatusUpdate
  <2> QED BY <1>3, <2>1, <2>2 DEF Contract!Milestone, new
<1>10. CASE "userFeedback" \in DOMAIN data
  <2>1. Milestones(new) = old \cup {"reviewed"}
    BY <1>2, <1>10, SMTT(60) DEF Milestones, MilestoneFields, UpdateInv, StatusUpdate
  <2>2. Contract!MayReach("reviewed", old)
    BY <1>10, MilestonesOf DEF Contract!MayReach, UpdateInv, StatusUpdate
  <2> QED BY <1>3, <2>1, <2>2 DEF Contract!Milestone, new
<1> QED
  BY <1>4, <1>5, <1>6, <1>7, <1>8, <1>9, <1>10 DEF MilestoneFields

\* The API keeps its contract about milestones: every step of the detailed
\* specification reaches one allowed milestone of one job, or none.
THEOREM MilestonesImplemented == Spec => ImplementsMilestones
<1> DEFINE got(j) == IF Exists(j) THEN Milestones(jobs[j]) ELSE {}
           reached == [j \in Jobs |-> got(j)]
<1>1. Init => Contract!Init
  BY DEF Init, Contract!Init, Exists
<1>2. ASSUME IInv, [Next]_vars
      PROVE  [Contract!Next]_reached
  <2>1. ASSUME jobs' = jobs PROVE reached' = reached
    BY <2>1 DEF Exists
  <2>2. ASSUME NEW j \in Jobs, NEW m \in Contract!Milestone,
               m \notin got(j), Contract!MayReach(m, got(j)),
               got(j)' = got(j) \cup {m},
               \A k \in Jobs \ {j} : got(k)' = got(k)
        PROVE  Contract!Next
    <3>1. reached' = [reached EXCEPT ![j] = @ \cup {m}]
      BY <2>2
    <3>2. reached[j] = got(j)
      OBVIOUS
    <3>3. Contract!Reach(j, m)
      BY <2>2, <3>1, <3>2 DEF Contract!Reach
    <3> QED BY <3>3 DEF Contract!Next
  <2>3. ASSUME NEW j \in Jobs, createData(j) PROVE Contract!Next
    <3>1. PICK u \in Users, p \in Providers, s \in Slots,
               price \in Prices, percentage \in Percentages :
            jobs' = Put(jobs, j, addData(u, p, s, price, percentage))
      BY <2>3 DEF createData
    <3> DEFINE doc == addData(u, p, s, price, percentage)
    <3>2. Milestones(doc) = {"placed"}
      BY MilestonesOf, SMTT(60) DEF addData, Contract!Milestone
    <3> HIDE DEF doc
    <3>3. /\ ~Exists(j) /\ DOMAIN jobs' = DOMAIN jobs \cup {j}
          /\ jobs'[j] = doc /\ \A k \in DOMAIN jobs : jobs'[k] = jobs[k]
      BY <2>3, <3>1 DEF createData, Put, Exists, doc
    <3>4. got(j) = {} /\ got(j)' = {"placed"}
      BY <3>2, <3>3 DEF Exists
    <3>5. \A k \in Jobs \ {j} : got(k)' = got(k)
      BY <3>3 DEF Exists
    <3>6. Contract!MayReach("placed", got(j)) /\ "placed" \in Contract!Milestone
      BY DEF Contract!MayReach, Contract!Milestone
    <3> HIDE DEF got
    <3> QED BY <2>2, <3>4, <3>5, <3>6
  <2>4. ASSUME NEW r \in Requests, updateData(r)
        PROVE  [Contract!Next]_reached
    <3> DEFINE o == pending[r]
               doc == jobs[o.job]
               new == Set(doc, o.data)
    <3>1. /\ o.job \in DOMAIN jobs /\ o.job \in Jobs
          /\ IsDocument(doc) /\ DocInv(doc)
          /\ UpdateInv(o.condition, o.data, doc)
      BY <1>2, <2>4 DEF updateData, IInv, TypeOK, IsUpdateOption, Exists
    <3>2. CASE jobs' = jobs
      BY <2>1, <3>2
    <3>3. CASE jobs' = Put(jobs, o.job, new)
      <4>1. /\ DOMAIN jobs' = DOMAIN jobs /\ jobs'[o.job] = new
            /\ \A k \in DOMAIN jobs \ {o.job} : jobs'[k] = jobs[k]
        BY <3>1, <3>3 DEF Put
      <4>2. got(o.job) = Milestones(doc)
        BY <3>1 DEF Exists
      <4>3. CASE Milestones(new) = Milestones(doc)
        <5>1. \A k \in Jobs : got(k)' = got(k)
          BY <3>1, <4>1, <4>3 DEF Exists
        <5> QED BY <5>1
      <4>4. ASSUME NEW m \in Contract!Milestone,
                   m \notin Milestones(doc),
                   Contract!MayReach(m, Milestones(doc)),
                   Milestones(new) = Milestones(doc) \cup {m}
            PROVE  Contract!Next
        <5>1. PICK i \in Jobs : i = o.job
          BY <3>1
        <5>2. got(i)' = got(i) \cup {m}
          BY <3>1, <4>1, <4>4, <5>1 DEF Exists
        <5>3. \A k \in Jobs \ {i} : got(k)' = got(k)
          BY <4>1, <5>1 DEF Exists
        <5>4. m \notin got(i) /\ Contract!MayReach(m, got(i))
          BY <4>2, <4>4, <5>1
        <5> HIDE DEF got
        <5> QED BY <2>2, <5>2, <5>3, <5>4
      <4> QED BY <3>1, <4>3, <4>4, UpdateReaches
    <3> QED BY <2>4, <3>2, <3>3 DEF updateData
  <2>5. CASE \E r \in Requests, j \in Jobs : Handler(r, j)
    BY <2>1, <2>5, HandlerReads
  <2>6. CASE \E r \in Requests : serverError(r)
    BY <2>1, <2>6 DEF serverError
  <2>7. CASE UNCHANGED vars
    BY <2>1, <2>7 DEF vars
  <2> QED BY <1>2, <2>3, <2>4, <2>5, <2>6, <2>7 DEF Next
<1> QED
  BY <1>1, <1>2, Inductive, PTL DEF Spec, ImplementsMilestones, Contract!Spec

-----------------------------------------------------------------------------
(***************************************************************************)
(* What the early returns of the handlers guarantee of every update that   *)
(* is not stale, for any number of jobs and overlapping requests: the job  *)
(* is still as the handler found it, so the update is still one that the   *)
(* handler would decide on.                                                *)
(***************************************************************************)
\* A handler that finds doc may decide to set data.
Decided(data, doc) ==
  /\ "job_status" \in DOMAIN data =>
       /\ data.job_status = "Reject" => doc.job_status \in Rejectable
       /\ data.job_status = "Complete" =>
            /\ doc.job_status = "Start"
            /\ "paymentStatus" \in DOMAIN data
            /\ data.paymentStatus = "Success"
  /\ "jobRescheduleAt" \in DOMAIN data => doc.job_status \in Rejectable
  /\ "paymentStatus" \in DOMAIN data =>
       \/ data.paymentStatus = "Success"
       \/ doc.job_status # "Complete" /\ "job_status" \notin DOMAIN data
  /\ "userFeedback" \in DOMAIN data =>
       \/ data.userFeedback.replayAt = Null
       \/ data.userFeedback.star = doc.userFeedback.star

\* The inductive invariant.
FInv ==
  /\ IInv
  /\ \A r \in DOMAIN pending \ stale :
       Decided(pending[r].data, jobs[pending[r].job])

\* Every handler awaits an update that the job it has read allows.
LEMMA HandlerDecides ==
  ASSUME NEW r, NEW j, Handler(r, j)
  PROVE  \E condition, data :
           Await(r, j, condition, data) /\ Decided(data, jobs[j])
<1> DEFINE Goal == \E condition, data :
                     Await(r, j, condition, data) /\ Decided(data, jobs[j])
<1>1. CASE proceedToPay(r, j)
  <2>1. CASE Await(r, j, NoCondition, noCouponData(jobs[j].amount))
    <3>1. Decided(noCouponData(jobs[j].amount), jobs[j])
      BY DEF Decided, noCouponData
    <3> QED BY <2>1, <3>1
  <2>2. CASE \E code \in Coupons \cup {FIRST30} :
               Await(r, j, NoCondition, couponData(jobs[j].amount, code))
    <3>1. PICK code \in Coupons \cup {FIRST30} :
            Await(r, j, NoCondition, couponData(jobs[j].amount, code))
      BY <2>2
    <3>2. Decided(couponData(jobs[j].amount, code), jobs[j])
      BY DEF Decided, couponData
    <3> QED BY <3>1, <3>2
  <2> QED BY <1>1, <2>1, <2>2 DEF proceedToPay
<1>2. CASE paymentSuccess(r, j)
  <2>1. Decided([paymentStatus |-> "Success"], jobs[j])
    BY DEF Decided
  <2> QED BY <1>2, <2>1 DEF paymentSuccess
<1>3. CASE assignJobToWorker(r, j)
  <2>1. \A w : Decided([workerData |-> w, job_status |-> "Assign"], jobs[j])
    BY DEF Decided
  <2> QED BY <1>3, <2>1 DEF assignJobToWorker
<1>4. CASE jobAccept(r, j)
  <2>1. Decided([job_status |-> "Accept", jobAcceptAt |-> Now], jobs[j])
    BY DEF Decided
  <2> QED BY <1>4, <2>1 DEF jobAccept
<1>5. CASE jobReject(r, j) \/ user_cancel_job(r, j)
  <2>1. Decided(rejectData, jobs[j])
    BY <1>5 DEF Decided, rejectData, jobReject, user_cancel_job
  <2> QED BY <1>5, <2>1 DEF jobReject, user_cancel_job
<1>6. CASE jobStart(r, j)
  <2>1. Decided([job_status |-> "Start", jobStartAt |-> Now], jobs[j])
    BY DEF Decided
  <2> QED BY <1>6, <2>1 DEF jobStart
<1>7. CASE jobFinish(r, j)
  <2>1. Decided([job_status |-> "Complete", paymentStatus |-> "Success",
                 jobFinishAt |-> Now], jobs[j])
    BY <1>7 DEF Decided, jobFinish
  <2> QED BY <1>7, <2>1 DEF jobFinish
<1>8. CASE paymentUpdate(r, j)
  <2>1. PICK paid \in Payments, status \in ReportedStatus :
          Await(r, j, NoCondition,
                [finalPaidAmount |-> paid, paymentStatus |-> status,
                 revenue_amount |->
                   r_amount(paid, jobs[j].revenue_percentage)])
    BY <1>8 DEF paymentUpdate
  <2>2. jobs[j].job_status # "Complete"
    BY <1>8 DEF paymentUpdate
  <2>3. \A share :
          Decided([finalPaidAmount |-> paid, paymentStatus |-> status,
                   revenue_amount |-> share], jobs[j])
    BY <2>2 DEF Decided
  <2> QED BY <2>1, <2>3
<1>9. CASE user_job_reschedule(r, j)
  <2>1. \A s : Decided([slot |-> s, jobRescheduleAt |-> Now], jobs[j])
    BY <1>9 DEF Decided, user_job_reschedule
  <2> QED BY <1>9, <2>1 DEF user_job_reschedule
<1>10. CASE submitFeedback(r, j)
  <2>1. \A s : Decided([userFeedback |-> [star |-> s, replayAt |-> Null]],
                       jobs[j])
    BY DEF Decided
  <2> QED BY <1>10, <2>1 DEF submitFeedback
<1>11. CASE replyFeedback(r, j)
  <2>1. Decided([userFeedback |-> [star |-> jobs[j].userFeedback.star,
                                   replayAt |-> Now]], jobs[j])
    BY DEF Decided
  <2> QED BY <1>11, <2>1 DEF replyFeedback
<1> QED BY <1>1, <1>2, <1>3, <1>4, <1>5, <1>6, <1>7, <1>8, <1>9, <1>10, <1>11
        DEF Handler

\* A new request is not stale; the others find their jobs as before or are
\* stale from now on.
LEMMA NextFInv == FInv /\ [FreshNext]_freshVars => FInv'
<1> SUFFICES ASSUME FInv, [FreshNext]_freshVars PROVE FInv'
  BY SMTT(60)
<1>1. IInv'
  BY NextIInv DEF FInv, FreshNext, freshVars, vars
<1>2. CASE UNCHANGED freshVars
  BY <1>1, <1>2 DEF freshVars, FInv
<1>3. CASE FreshNext
  <2> SUFFICES ASSUME NEW r \in DOMAIN pending' \ stale'
               PROVE  Decided(pending'[r].data, jobs'[pending'[r].job])
    BY <1>1 DEF FInv
  <2>1. CASE r \in DOMAIN pending /\ pending'[r] = pending[r]
    <3>1. r \notin stale /\ ~Changed(pending[r].job)
      BY <1>3, <2>1 DEF FreshNext
    <3>2. Exists(pending[r].job)
      BY <2>1 DEF FInv, IInv, TypeOK, IsUpdateOption
    <3> QED BY <2>1, <3>1, <3>2 DEF FInv, Changed
  <2>2. CASE ~(r \in DOMAIN pending /\ pending'[r] = pending[r])
    <3>1. PICK q \in Requests, j \in Jobs : Handler(q, j)
      BY <1>3, <2>2 DEF FreshNext, Next, createData, updateData, serverError,
                        Remove
    <3>2. PICK condition, data :
            Await(q, j, condition, data) /\ Decided(data, jobs[j])
      BY <3>1, HandlerDecides
    <3> DEFINE o == [job |-> j, condition |-> condition, data |-> data]
    <3>3. /\ jobs' = jobs /\ q \notin DOMAIN pending
          /\ pending' = Put(pending, q, o)
      BY <3>2 DEF Await
    <3>4. o.job = j /\ o.data = data
      OBVIOUS
    <3> HIDE DEF o
    <3>5. r = q /\ pending'[r] = o
      BY <2>2, <3>3 DEF Put
    <3> QED BY <3>2, <3>3, <3>4, <3>5
  <2> QED BY <2>1, <2>2
<1> QED BY <1>2, <1>3

LEMMA FreshInductive == FreshSpec => []FInv
<1>1. FreshInit => FInv
  BY InitIInv DEF FreshInit, Init, FInv
<1> QED BY <1>1, NextFInv, PTL DEF FreshSpec

\* What an update that is not stale does to the jobs.
LEMMA FreshStep ==
  ASSUME FInv, [FreshNext]_freshVars, FreshUpdate, NEW j \in DOMAIN jobs
  PROVE  \/ jobs'[j] = jobs[j]
         \/ \E data : /\ Decided(data, jobs[j])
                      /\ jobs'[j] = Set(jobs[j], data)
<1>1. PICK r \in DOMAIN pending \ stale : r \notin DOMAIN pending'
  BY DEF FreshUpdate
<1>2. CASE jobs' = jobs
  BY <1>2
<1>3. CASE jobs' # jobs
  <2>1. PICK q \in Requests : updateData(q)
    BY <1>1, <1>3, HandlerReads
    DEF FreshNext, freshVars, Next, createData, serverError
  <2>2. q = r
    BY <1>1, <2>1 DEF updateData, Remove
  <2>3. Decided(pending[r].data, jobs[pending[r].job])
    BY <1>1 DEF FInv
  <2> QED BY <1>1, <1>3, <2>1, <2>2, <2>3 DEF updateData, Put
<1> QED BY <1>2, <1>3

\* The fields of a job after such an update.
LEMMA FreshFields ==
  ASSUME NEW doc, IsDocument(doc), NEW data, NEW f \in Fields
  PROVE  Set(doc, data)[f] = IF f \in DOMAIN data THEN data[f] ELSE doc[f]
BY SetField, SMTT(60) DEF IsDocument

\* Only open jobs are rejected or rescheduled and only started ones are
\* completed, except by stale updates.
THEOREM ClosedStayClosed == FreshSpec => ClosedJobsStayClosed
<1>1. ASSUME FInv, [FreshNext]_freshVars, FreshUpdate, NEW j \in DOMAIN jobs
      PROVE  /\ jobs'[j].job_status = "Reject" /\ jobs[j].job_status # "Reject"
                  => jobs[j].job_status \in Rejectable
             /\ jobs'[j].jobRescheduleAt # jobs[j].jobRescheduleAt
                  => jobs[j].job_status \in Rejectable
             /\ jobs'[j].job_status = "Complete"
                  /\ jobs[j].job_status # "Complete"
                  => jobs[j].job_status = "Start"
  <2>1. CASE jobs'[j] = jobs[j]
    BY <2>1
  <2>2. CASE jobs'[j] # jobs[j]
    <3>1. PICK data : /\ Decided(data, jobs[j])
                      /\ jobs'[j] = Set(jobs[j], data)
      BY <1>1, <2>2, FreshStep
    <3>2. IsDocument(jobs[j])
      BY <1>1 DEF FInv, IInv, TypeOK
    <3>3. \A f \in {"job_status", "jobRescheduleAt"} :
            jobs'[j][f] = IF f \in DOMAIN data THEN data[f] ELSE jobs[j][f]
      BY <3>1, <3>2, FreshFields, FieldsListed, SMTT(60)
    <3> QED BY <3>1, <3>3 DEF Decided
  <2> QED BY <2>1, <2>2
<1>2. FInv /\ [FreshNext]_freshVars =>
        [FreshUpdate => \A j \in DOMAIN jobs :
           LET old == jobs[j]
               new == jobs'[j]
           IN  /\ new.job_status = "Reject" /\ old.job_status # "Reject"
                    => old.job_status \in Rejectable
               /\ new.jobRescheduleAt # old.jobRescheduleAt
                    => old.job_status \in Rejectable
               /\ new.job_status = "Complete" /\ old.job_status # "Complete"
                    => old.job_status = "Start"]_freshVars
  BY <1>1
<1> QED BY <1>2, FreshInductive, PTL DEF FreshSpec, ClosedJobsStayClosed

\* Only a stale update leaves a completed job unpaid.
THEOREM CompletedPaid == FreshSpec => CompletedStaysPaid
<1>1. ASSUME FInv, [FreshNext]_freshVars, FreshUpdate, NEW j \in DOMAIN jobs
      PROVE  Unpaid(jobs'[j]) => Unpaid(jobs[j])
  <2>1. CASE jobs'[j] = jobs[j]
    BY <2>1
  <2>2. CASE jobs'[j] # jobs[j]
    <3>1. PICK data : /\ Decided(data, jobs[j])
                      /\ jobs'[j] = Set(jobs[j], data)
      BY <1>1, <2>2, FreshStep, SMTT(60)
    <3>2. IsDocument(jobs[j])
      BY <1>1, SMTT(60) DEF FInv, IInv, TypeOK
    <3>3. \A f \in {"job_status", "paymentStatus"} :
            jobs'[j][f] = IF f \in DOMAIN data THEN data[f] ELSE jobs[j][f]
      BY <3>1, <3>2, FreshFields, FieldsListed, SMTT(60)
    <3> QED BY <3>1, <3>3 DEF Decided, Unpaid
  <2> QED BY <2>1, <2>2
<1>2. FInv /\ [FreshNext]_freshVars =>
        [FreshUpdate => \A j \in DOMAIN jobs :
           Unpaid(jobs'[j]) => Unpaid(jobs[j])]_freshVars
  BY <1>1
<1> QED BY <1>2, FreshInductive, PTL DEF FreshSpec, CompletedStaysPaid

\* A reply that is not stale keeps the star that it answers.
THEOREM ReplyKeeps == FreshSpec => ReplyKeepsFeedback
<1>1. ASSUME FInv, [FreshNext]_freshVars, FreshUpdate, NEW j \in DOMAIN jobs
      PROVE  /\ jobs'[j].userFeedback.replayAt # Null
             /\ jobs'[j].userFeedback # jobs[j].userFeedback
             => jobs'[j].userFeedback.star = jobs[j].userFeedback.star
  <2>1. CASE jobs'[j] = jobs[j]
    BY <2>1
  <2>2. CASE jobs'[j] # jobs[j]
    <3>1. PICK data : /\ Decided(data, jobs[j])
                      /\ jobs'[j] = Set(jobs[j], data)
      BY <1>1, <2>2, FreshStep, SMTT(60)
    <3>2. IsDocument(jobs[j])
      BY <1>1, SMTT(60) DEF FInv, IInv, TypeOK
    <3>3. jobs'[j].userFeedback = IF "userFeedback" \in DOMAIN data
                                  THEN data.userFeedback
                                  ELSE jobs[j].userFeedback
      BY <3>1, <3>2, FreshFields, FieldsListed, SMTT(60)
    <3> QED BY <3>1, <3>3 DEF Decided
  <2> QED BY <2>1, <2>2
<1>2. FInv /\ [FreshNext]_freshVars =>
        [FreshUpdate => \A j \in DOMAIN jobs :
           /\ jobs'[j].userFeedback.replayAt # Null
           /\ jobs'[j].userFeedback # jobs[j].userFeedback
           => jobs'[j].userFeedback.star = jobs[j].userFeedback.star]_freshVars
  BY <1>1
<1> QED BY <1>2, FreshInductive, PTL DEF FreshSpec, ReplyKeepsFeedback
=============================================================================
