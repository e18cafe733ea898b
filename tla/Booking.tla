------------------------------ MODULE Booking ------------------------------
(***************************************************************************)
(* How a job comes into being: assignJob (jobsController.js) looks for an  *)
(* open order with the same content, takes an id from the counter          *)
(* dqw_users and creates the document, three awaits one after the other.   *)
(* userController.register takes its users_id from the same counter.       *)
(*                                                                         *)
(* An order is the part of the job document that the search for a          *)
(* duplicate reads: content stands for user, provider and service, slot    *)
(* for date and time.  What Jobs.tla does to the document in full is here  *)
(* what it does to these: the status leaves Processing and never returns   *)
(* (JobsProofs, StatusOrdered), and an open job may be moved to another    *)
(* slot.                                                                   *)
(***************************************************************************)
EXTENDS Integers, FiniteSets

CONSTANTS
  MaxOrders,     \* bound: the orders that are stored
  MaxRescheduled, \* bound: the orders that are rescheduled
  Contents, Slots,
  Requests,      \* requests (assignJob, register) in progress together
  MaxId,         \* bound: no id is asked for once the counter is here
  Null

ASSUME BookingAssumption ==
  Null \notin Int /\ Null # "now" /\ IsFiniteSet(Requests)

VARIABLES
  orders,        \* the jobs collection
  placing,       \* assignJob in progress: what it books, and its id or Null
  seq, seen, issued, \* the counter
  overlap,       \* history: requests in progress that another one overlapped
  alone          \* history: orders whose requests nothing overlapped

vars == <<orders, placing, seq, seen, issued, overlap, alone>>

Ids == INSTANCE Counter WITH Callers <- Requests

Put(map, key, value) ==
  [k \in DOMAIN map \cup {key} |-> IF k = key THEN value ELSE map[k]]

Remove(map, key) == [k \in DOMAIN map \ {key} |-> map[k]]

Init ==
  /\ orders = [j \in {} |-> Null]
  /\ placing = [r \in {} |-> Null]
  /\ Ids!CounterInit
  /\ overlap = {}
  /\ alone = {}

\* The _id that the database gives to the next order.
new_id == Cardinality(DOMAIN orders) + 1

\* The requests in progress.
Busy == DOMAIN placing \cup DOMAIN seen

Free(r) == r \notin Busy

\* The histories, when a request begins, ends and stores its order.
Begin(r) ==
  overlap' = IF Busy = {} THEN overlap ELSE overlap \cup Busy \cup {r}

End(r) == overlap' = overlap \ {r}

Stored(r) ==
  alone' = IF r \in overlap THEN alone ELSE alone \cup {new_id}

\* An open order with the same content for the same slot.
orderDetails(content, slot) ==
  {j \in DOMAIN orders : /\ orders[j].content = content
                         /\ orders[j].slot = slot
                         /\ orders[j].job_status = "Processing"}

\* Mutation: the search is forgotten.
assignJob_Unchecked(r) ==
  /\ Free(r)
  /\ \E content \in Contents, slot \in Slots :
       placing' = Put(placing, r, [content |-> content, slot |-> slot,
                                   job_id |-> Null])
  /\ Begin(r)
  /\ UNCHANGED <<orders, seq, seen, issued, alone>>

\* The request has passed its checks and found no duplicate.
assignJob(r) ==
  /\ Free(r)
  /\ \E content \in Contents, slot \in Slots :
       /\ orderDetails(content, slot) = {}
       /\ placing' = Put(placing, r, [content |-> content, slot |-> slot,
                                      job_id |-> Null])
  /\ Begin(r)
  /\ UNCHANGED <<orders, seq, seen, issued, alone>>

\* The two steps of its call of getSequence.
askId(r) ==
  /\ r \in DOMAIN placing
  /\ placing[r].job_id = Null
  /\ seq # Null => seq < MaxId
  /\ Ids!findOne(r)
  /\ UNCHANGED <<orders, placing, overlap, alone>>

getId(r) ==
  /\ r \in DOMAIN placing \cap DOMAIN seen
  /\ placing' = Put(placing, r, [placing[r] EXCEPT !.job_id = Ids!newId(r)])
  /\ Ids!resolve(r)
  /\ UNCHANGED <<orders, overlap, alone>>

\* Mutation: a failed insert is tried again later.
createData_Retried(r) ==
  /\ r \in DOMAIN placing
  /\ placing[r].job_id # Null
  /\ new_id <= MaxOrders
  /\ orders' = Put(orders, new_id,
                   [content |-> placing[r].content, slot |-> placing[r].slot,
                    job_status |-> "Processing", jobRescheduleAt |-> Null,
                    job_id |-> placing[r].job_id])
  /\ Stored(r)
  /\ \/ placing' = Remove(placing, r) /\ End(r)
     \/ UNCHANGED <<placing, overlap>>
  /\ UNCHANGED <<seq, seen, issued>>

createData(r) ==
  /\ r \in DOMAIN placing
  /\ placing[r].job_id # Null
  /\ new_id <= MaxOrders
  /\ orders' = Put(orders, new_id,
                   [content |-> placing[r].content, slot |-> placing[r].slot,
                    job_status |-> "Processing", jobRescheduleAt |-> Null,
                    job_id |-> placing[r].job_id])
  /\ Stored(r)
  /\ placing' = Remove(placing, r)
  /\ End(r)
  /\ UNCHANGED <<seq, seen, issued>>

\* Mutation: the rejection of getSequence is not caught.
serverError_Hangs(r) ==
  /\ r \in DOMAIN placing
  /\ r \notin DOMAIN seen
  /\ placing' = Remove(placing, r)
  /\ End(r)
  /\ UNCHANGED <<orders, seq, seen, issued, alone>>

\* A database operation fails, in getSequence or after it: the catch block
\* answers ERROR_SERVER_ERROR.
serverError(r) ==
  /\ r \in DOMAIN placing
  /\ placing' = Remove(placing, r)
  /\ IF r \in DOMAIN seen THEN Ids!reject(r) ELSE UNCHANGED <<seq, seen, issued>>
  /\ End(r)
  /\ UNCHANGED <<orders, alone>>

\* userController.register, as far as the counter goes.
registerAskId(r) ==
  /\ Free(r)
  /\ seq # Null => seq < MaxId
  /\ Ids!findOne(r)
  /\ Begin(r)
  /\ UNCHANGED <<orders, placing, alone>>

registerGetId(r) ==
  /\ r \in DOMAIN seen \ DOMAIN placing
  /\ Ids!resolve(r)
  /\ End(r)
  /\ UNCHANGED <<orders, placing, alone>>

registerError(r) ==
  /\ r \notin DOMAIN placing
  /\ Ids!reject(r)
  /\ End(r)
  /\ UNCHANGED <<orders, placing, alone>>

\* The life of the order afterwards (Jobs.tla).  It is accepted or rejected
\* and goes on from there; "Left" stands for every status but Processing.
statusUpdate(r, j) ==
  /\ Free(r)
  /\ orders' = [orders EXCEPT ![j].job_status = "Left"]
  /\ UNCHANGED <<placing, seq, seen, issued, overlap, alone>>

user_job_reschedule(r, j) ==
  /\ Free(r)
  /\ Cardinality({k \in DOMAIN orders : orders[k].jobRescheduleAt # Null}
                    \cup {j}) <= MaxRescheduled
  /\ \E slot \in Slots :
       orders' = [orders EXCEPT ![j].slot = slot, ![j].jobRescheduleAt = "now"]
  /\ overlap' = overlap \cup Busy
  /\ UNCHANGED <<placing, seq, seen, issued, alone>>

Step(r) == askId(r) \/ getId(r) \/ createData(r) \/ serverError(r)

Next ==
  \/ \E r \in Requests : assignJob(r) \/ Step(r)
  \/ \E r \in Requests :
       registerAskId(r) \/ registerGetId(r) \/ registerError(r)
  \/ \E r \in Requests, j \in DOMAIN orders :
       statusUpdate(r, j) \/ user_job_reschedule(r, j)

\* The server runs the continuation of every await, and the database answers.
Fairness == \A r \in Requests : WF_vars(Step(r))

Spec == Init /\ [][Next]_vars /\ Fairness

-----------------------------------------------------------------------------
(* Properties *)

\* Orders and requests in progress have their fields, and every job_id is one
\* that getSequence has handed out.
TypeOK ==
  /\ \A j \in DOMAIN orders :
       /\ j \in 1 .. MaxOrders
       /\ orders[j] \in [content : Contents, slot : Slots, job_id : issued,
                        job_status : {"Processing", "Left"},
                        jobRescheduleAt : {"now", Null}]
  /\ \A r \in DOMAIN placing :
       /\ r \in Requests
       /\ placing[r] \in [content : Contents, slot : Slots,
                         job_id : issued \cup {Null}]
  /\ DOMAIN seen \subseteq Requests
  /\ overlap \subseteq Busy
  /\ alone \subseteq DOMAIN orders

\* The ids of users and jobs have no gap below the highest, with any overlap
\* of assignJob and register (getSequence writes one more than it read).
IdsWithoutGaps == Ids!NoGaps

\* assignJob's search for an open order does not exclude duplicates, but it
\* limits them to the number of requests in progress together: once one is
\* stored, only requests that searched before can still add another.
DuplicatesBounded ==
  \A content \in Contents, slot \in Slots :
    Cardinality({j \in orderDetails(content, slot) :
                   orders[j].jobRescheduleAt = Null}) <= Cardinality(Requests)

\* Every assignJob is answered: no failed or lost id leaves it waiting.
Answered ==
  \A r \in Requests : r \in DOMAIN placing ~> r \notin DOMAIN placing

\* The id of a job that was booked while no other request was in progress is
\* never given to a later one.  Overlapping calls of getSequence may put the
\* counter back, but not below what had been written before they began.
AloneIdsStay ==
  \A j \in alone, k \in DOMAIN orders :
    j < k => orders[j].job_id # orders[k].job_id

\* assignJob creates no second open order with the content and the slot of
\* another: it answers "Duplicate Order" instead.
NoDuplicateCreated ==
  [][\A j \in DOMAIN orders' \ DOMAIN orders :
       orderDetails(orders'[j].content, orders'[j].slot) = {}]_vars

\* The same of a booking that nothing overlaps: neither another booking nor
\* the rescheduling of an order onto its slot.
AloneNoDuplicate ==
  [][\A j \in alone' \ alone :
       orderDetails(orders'[j].content, orders'[j].slot) = {}]_vars

=============================================================================
