------------------------------ MODULE Company -------------------------------
(***************************************************************************)
(* Companies and their workers: addWorker, editWorker, delateWorker and    *)
(* updateProfile of providerController.js over providerService.js and      *)
(* removeRecords.js.                                                       *)
(*                                                                         *)
(* That a worker belongs to a company is stored twice: as companyData in   *)
(* the worker's document, and in the company's array `workers`, which      *)
(* company_worker_list shows.  addWorker writes the whole array back as it *)
(* read it before it created the worker.  Each database access is an await *)
(* during which other requests run.                                        *)
(***************************************************************************)
EXTENDS Integers

CONSTANTS
  Companies, Phones,
  Profiles,     \* edited names, addresses and pictures (the first one: Null)
  Requests,
  MaxWorkers,   \* bound: workers ever created
  Null

ASSUME CompanyAssumption == MaxWorkers \in Nat

VARIABLES
  providers,  \* the documents of workers, by _id, numbers in creation order
  workers,    \* for each company, the elements of its array `workers`
  records,    \* removeRecords: the deleted documents, with their _id
  active,     \* the requests in progress, each with the step it awaits next
  hired,      \* history: the documents, kept when they are deleted
  disturbed   \* history: the companies with requests that have overlapped
              \* or failed

vars == <<providers, workers, records, active, hired, disturbed>>

Put(map, key, value) ==
  [k \in DOMAIN map \cup {key} |-> IF k = key THEN value ELSE map[k]]

Remove(map, key) == [k \in DOMAIN map \ {key} |-> map[k]]

Init ==
  /\ providers = [w \in {} |-> Null]
  /\ workers = [c \in Companies |-> {}]
  /\ records = {}
  /\ active = [r \in {} |-> Null]
  /\ hired = [w \in {} |-> Null]
  /\ disturbed = {}

At(r, step) == r \in DOMAIN active /\ active[r].step = step

\* Request r begins.  history: it and the others in progress have overlapped
\* (`alone` is kept for addWorker only).
Begin(r, request) ==
  LET others == DOMAIN active IN
  /\ r \notin DOMAIN active
  /\ active' = [q \in others \cup {r} |->
                  IF q = r THEN [request EXCEPT !.alone = @ /\ others = {}]
                           ELSE [active[q] EXCEPT !.alone = FALSE]]
  /\ disturbed' =
       IF \E q \in others : active[q].company = request.company
       THEN disturbed \cup {request.company} ELSE disturbed

Proceed(r, step) ==
  active' = Put(active, r, [active[r] EXCEPT !.step = step])

End(r) == active' = Remove(active, r)

Fail(r) == End(r) /\ disturbed' = disturbed \cup {active[r].company}

Edit(docs, w, profile) == Put(docs, w, [docs[w] EXCEPT !.profile = profile])

-----------------------------------------------------------------------------
\* addWorker: it reads the company's document.
addWorker(r, c, phone) ==
  /\ Begin(r, [step |-> "count", company |-> c, phone |-> phone,
               profile |-> Null, worker |-> Null,
               workerArr |-> workers[c], alone |-> TRUE])
  /\ UNCHANGED <<providers, workers, records, hired>>

\* Mutation: the providers with the phone are not counted.
countPhone_Unchecked(r) ==
  /\ At(r, "count")
  /\ Proceed(r, "create")
  /\ UNCHANGED <<providers, workers, records, hired, disturbed>>

\* The phone may not be another provider's.
countPhone(r) ==
  /\ At(r, "count")
  /\ IF \A w \in DOMAIN providers : providers[w].phone # active[r].phone
     THEN Proceed(r, "create")
     ELSE End(r)
  /\ UNCHANGED <<providers, workers, records, hired, disturbed>>

\* getSequence and createDataWithoutToken.
createDataWithoutToken(r, w) ==
  /\ At(r, "create")
  /\ w \notin DOMAIN hired /\ \A v \in DOMAIN hired : v < w
  /\ LET addData == [companyData |-> active[r].company,
                     phone |-> active[r].phone,
                     profile |-> active[r].profile, alone |-> active[r].alone]
     IN  /\ providers' = Put(providers, w, addData)
         /\ hired' = Put(hired, w, addData)
  /\ active' = Put(active, r, [active[r] EXCEPT !.worker = w,
                                               !.step = "updateCompany"])
  /\ UNCHANGED <<workers, records, disturbed>>

\* Mutation: the worker is added to the list of every company.
updateCompany_NoCondition(r) ==
  /\ At(r, "updateCompany")
  /\ workers' = [c \in Companies |-> active[r].workerArr \cup {active[r].worker}]
  /\ End(r)
  /\ UNCHANGED <<providers, records, hired, disturbed>>

\* The array that was read, with the new worker.
updateCompany(r) ==
  /\ At(r, "updateCompany")
  /\ workers' = [workers EXCEPT ![active[r].company] =
                   active[r].workerArr \cup {active[r].worker}]
  /\ End(r)
  /\ UNCHANGED <<providers, records, hired, disturbed>>

-----------------------------------------------------------------------------
\* editWorker: the worker is one of the company's.
editWorker(r, c, w, profile) ==
  /\ w \in DOMAIN providers /\ providers[w].companyData = c
  /\ Begin(r, [step |-> "edit", company |-> c, phone |-> Null,
               profile |-> profile, worker |-> w,
               workerArr |-> {}, alone |-> FALSE])
  /\ UNCHANGED <<providers, workers, records, hired>>

\* The update finds no document if the worker was deleted meanwhile: the
\* answer is an error then.
updateData(r) ==
  /\ At(r, "edit")
  /\ LET w == active[r].worker IN
       IF w \in DOMAIN providers
       THEN /\ providers' = Edit(providers, w, active[r].profile)
            /\ hired' = Edit(hired, w, active[r].profile)
            /\ End(r) /\ UNCHANGED disturbed
       ELSE Fail(r) /\ UNCHANGED <<providers, hired>>
  /\ UNCHANGED <<workers, records>>

\* updateProfile: a worker's own update, without a query before it.
updateProfile(w, profile) ==
  /\ w \in DOMAIN providers
  /\ providers' = Edit(providers, w, profile)
  /\ hired' = Edit(hired, w, profile)
  /\ disturbed' = IF \E r \in DOMAIN active : active[r].worker = w
                  THEN disturbed \cup {providers[w].companyData} ELSE disturbed
  /\ UNCHANGED <<workers, records, active>>

-----------------------------------------------------------------------------
\* delateWorker: it reads the worker's document.
delateWorker(r, c, w) ==
  /\ w \in DOMAIN providers /\ providers[w].companyData = c
  /\ Begin(r, [step |-> "record", company |-> c, phone |-> Null,
               profile |-> providers[w].profile, worker |-> w,
               workerArr |-> {}, alone |-> FALSE])
  /\ UNCHANGED <<providers, workers, records, hired>>

\* deleteRecordLog.createData with the document as it was read.
createRecord(r) ==
  /\ At(r, "record")
  /\ records' = records \cup {[worker |-> active[r].worker,
                               profile |-> active[r].profile]}
  /\ Proceed(r, "delete")
  /\ UNCHANGED <<providers, workers, hired, disturbed>>

deleteData(r) ==
  /\ At(r, "delete")
  /\ providers' = Remove(providers, active[r].worker)
  /\ Proceed(r, "pull")
  /\ UNCHANGED <<workers, records, hired, disturbed>>

\* Mutation: the company's list keeps the worker.
updateWorkerList_NoPull(r) ==
  /\ At(r, "pull")
  /\ End(r)
  /\ UNCHANGED <<providers, workers, records, hired, disturbed>>

updateWorkerList(r) ==
  /\ At(r, "pull")
  /\ workers' = [workers EXCEPT ![active[r].company] = @ \ {active[r].worker}]
  /\ End(r)
  /\ UNCHANGED <<providers, records, hired, disturbed>>

\* A database access fails: ERROR_SERVER_ERROR, and what was done stays done.
serverError(r) ==
  /\ r \in DOMAIN active
  /\ Fail(r)
  /\ UNCHANGED <<providers, workers, records, hired>>

-----------------------------------------------------------------------------
Ids == 1 .. MaxWorkers

Step(r) ==
  \/ countPhone(r) \/ (\E w \in Ids : createDataWithoutToken(r, w))
  \/ updateCompany(r) \/ updateData(r)
  \/ createRecord(r) \/ deleteData(r) \/ updateWorkerList(r)
  \/ serverError(r)

Next ==
  \/ \E r \in Requests :
       \/ Step(r)
       \/ \E c \in Companies :
            \/ \E phone \in Phones : addWorker(r, c, phone)
            \/ \E w \in DOMAIN providers :
                 \/ \E profile \in Profiles : editWorker(r, c, w, profile)
                 \/ delateWorker(r, c, w)
  \/ \E w \in DOMAIN providers, profile \in Profiles : updateProfile(w, profile)

Spec == Init /\ [][Next]_vars

-----------------------------------------------------------------------------
(* Properties *)

IsWorker(doc) ==
  /\ DOMAIN doc = {"companyData", "phone", "profile", "alone"}
  /\ doc.companyData \in Companies
  /\ doc.profile \in Profiles \cup {Null}

Steps == {"count", "create", "updateCompany", "edit", "record", "delete", "pull"}

\* From its creation on, a worker that a request has in hand is one of the
\* company's.
IsRequest(request) ==
  /\ DOMAIN request = {"step", "company", "phone", "profile", "worker",
                       "workerArr", "alone"}
  /\ request.step \in Steps
  /\ request.company \in Companies
  /\ request.profile \in Profiles \cup {Null}
  /\ request.step \notin {"count", "create"} =>
       /\ request.worker \in DOMAIN hired
       /\ hired[request.worker].companyData = request.company

\* Documents and requests have their types, and a stored worker is the one
\* that was created.
TypeOK ==
  /\ DOMAIN providers \subseteq DOMAIN hired
  /\ \A w \in DOMAIN providers : providers[w] = hired[w]
  /\ \A w \in DOMAIN hired : IsWorker(hired[w])
  /\ DOMAIN workers = Companies
  /\ \A r \in DOMAIN active : IsRequest(active[r])

\* A company's list never has a worker of another company, whatever arrays
\* overlapping addWorkers write back.
OwnWorkersListed ==
  \A c \in Companies : \A w \in workers[c] :
    w \in DOMAIN hired /\ hired[w].companyData = c

\* A worker that is gone has a record: delateWorker writes it before it
\* deletes the document, so a failure in between cannot lose the worker.
DeletedAreRecorded ==
  \A w \in DOMAIN hired \ DOMAIN providers :
    \E record \in records : record.worker = w

\* The list has exactly the company's workers whenever none of its requests
\* is in progress, if none of them has overlapped with another or failed.
\* Then the record of a deleted worker has the worker's last profile, too.
ListMatches ==
  \A c \in Companies \ disturbed :
    (\A r \in DOMAIN active : active[r].company # c) =>
      /\ workers[c] = {w \in DOMAIN providers : providers[w].companyData = c}
      /\ \A w \in DOMAIN hired \ DOMAIN providers :
           hired[w].companyData = c =>
             [worker |-> w, profile |-> hired[w].profile] \in records

\* Two workers have the same phone only if the later one's addWorker has
\* overlapped with another request.
OnePhonePerWorker ==
  \A v, w \in DOMAIN providers :
    v < w /\ providers[v].phone = providers[w].phone => ~providers[w].alone

\* "Add worker id to Company data": a worker that is in the company's list
\* stays there until it is deleted.
ListedUntilDeleted ==
  [][\A c \in Companies : \A w \in workers[c] \ workers'[c] :
       w \notin DOMAIN providers]_vars
=============================================================================
