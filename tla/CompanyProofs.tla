--------------------------- MODULE CompanyProofs ----------------------------
(***************************************************************************)
(* OwnWorkersListed and DeletedAreRecorded for any companies, workers and  *)
(* requests.  They are inductive together with what the requests in        *)
(* progress hold: an array read earlier has only workers of the company,   *)
(* and a request past its record has one for the worker it deletes.        *)
(***************************************************************************)
EXTENDS Company, TLAPS

\* A leaf is left to Zenon unless it names SMTT (or PTL).
USE ZenonT(60)

\* The workers that c ever hired.
Own(c) == {w \in DOMAIN hired : hired[w].companyData = c}

Recorded(w) == \E record \in records : record.worker = w

CInv ==
  /\ TypeOK
  /\ \A c \in Companies : workers[c] \subseteq Own(c)
  /\ \A w \in DOMAIN hired \ DOMAIN providers : Recorded(w)
  /\ \A r \in DOMAIN active :
       /\ active[r].workerArr \subseteq Own(active[r].company)
       /\ active[r].step \in {"delete", "pull"} => Recorded(active[r].worker)

\* Nobody is hired yet.
LEMMA InitCInv == Init => CInv
BY DEF Init, CInv, TypeOK, Own

\* A step of a request rewrites that request and no other.
LEMMA PutRequest ==
  ASSUME NEW r \in DOMAIN active, NEW new, active' = Put(active, r, new)
  PROVE  /\ DOMAIN active' = DOMAIN active
         /\ active'[r] = new
         /\ \A q \in DOMAIN active : q # r => active'[q] = active[q]
BY DEF Put

\* A request that ends leaves the others as they are.
LEMMA EndRequest ==
  ASSUME NEW r, End(r)
  PROVE  /\ DOMAIN active' \subseteq DOMAIN active
         /\ \A q \in DOMAIN active' : active'[q] = active[q]
BY DEF End, Remove

\* A request that begins: only it is new.
LEMMA BeginCInv ==
  ASSUME CInv, NEW r, NEW request, Begin(r, request), IsRequest(request),
         request.workerArr \subseteq Own(request.company),
         request.step \notin {"delete", "pull"},
         UNCHANGED <<providers, workers, records, hired>>
  PROVE  CInv'
<1>1. DOMAIN active' = DOMAIN active \cup {r} /\ r \notin DOMAIN active
  BY DEF Begin
<1>2. \A q \in DOMAIN active :
        /\ DOMAIN active'[q] = DOMAIN active[q]
        /\ \A f \in DOMAIN active[q] : f # "alone" =>
             active'[q][f] = active[q][f]
  BY <1>1 DEF Begin
<1>3. /\ DOMAIN active'[r] = DOMAIN request
      /\ \A f \in DOMAIN request : f # "alone" => active'[r][f] = request[f]
  BY DEF Begin
<1>4. \A q \in DOMAIN active :
        /\ DOMAIN active[q] = {"step", "company", "phone", "profile", "worker",
                               "workerArr", "alone"}
        /\ active'[q].step = active[q].step
        /\ active'[q].company = active[q].company
        /\ active'[q].profile = active[q].profile
        /\ active'[q].worker = active[q].worker
        /\ active'[q].workerArr = active[q].workerArr
  BY <1>2, SMTT(60) DEF CInv, TypeOK, IsRequest
<1>5. /\ DOMAIN active'[r] = {"step", "company", "phone", "profile", "worker",
                              "workerArr", "alone"}
      /\ active'[r].step = request.step
      /\ active'[r].company = request.company
      /\ active'[r].profile = request.profile
      /\ active'[r].worker = request.worker
      /\ active'[r].workerArr = request.workerArr
  BY <1>3 DEF IsRequest
<1>6. \A q \in DOMAIN active' : IsRequest(active[q])'
  BY <1>1, <1>2, <1>4, <1>5, SMTT(60) DEF CInv, TypeOK, IsRequest
<1>7. TypeOK'
  BY <1>6 DEF CInv, TypeOK, IsWorker
<1>8. \A q \in DOMAIN active' :
        /\ active'[q].workerArr \subseteq Own(active'[q].company)
        /\ active'[q].step \in {"delete", "pull"} => Recorded(active'[q].worker)
  BY <1>1, <1>4, <1>5, SMTT(60) DEF CInv
<1> QED BY <1>7, <1>8 DEF CInv, Own, Recorded

\* A request that ends, with the list of its company changed to own workers.
LEMMA EndCInv ==
  ASSUME CInv, NEW r \in DOMAIN active, End(r),
         NEW c \in Companies, NEW list, list \subseteq Own(c),
         workers' = [workers EXCEPT ![c] = list],
         UNCHANGED <<providers, records, hired>>
  PROVE  CInv'
<1>1. /\ DOMAIN active' \subseteq DOMAIN active
      /\ \A q \in DOMAIN active' : active'[q] = active[q]
  BY EndRequest
<1>2. /\ DOMAIN workers' = Companies
      /\ \A d \in Companies : workers'[d] = IF d = c THEN list ELSE workers[d]
  BY DEF CInv, TypeOK
<1>3. TypeOK'
  BY <1>1, <1>2, SMTT(60) DEF CInv, TypeOK, IsRequest, IsWorker
<1>4. \A d \in Companies : workers'[d] \subseteq Own(d)
  BY <1>2 DEF CInv
<1> QED BY <1>1, <1>3, <1>4, SMTT(60) DEF CInv, Own, Recorded

\* A document edited in place, in the database and in the history.
LEMMA EditCInv ==
  ASSUME CInv, NEW w \in DOMAIN providers,
         NEW profile \in Profiles \cup {Null},
         providers' = Edit(providers, w, profile),
         hired' = Edit(hired, w, profile),
         DOMAIN active' \subseteq DOMAIN active,
         \A q \in DOMAIN active' : active'[q] = active[q],
         UNCHANGED <<workers, records>>
  PROVE  CInv'
<1>1. w \in DOMAIN hired /\ providers[w] = hired[w] /\ IsWorker(hired[w])
  BY DEF CInv, TypeOK
<1>2. /\ DOMAIN providers' = DOMAIN providers /\ DOMAIN hired' = DOMAIN hired
      /\ \A v \in DOMAIN providers : v # w => providers'[v] = providers[v]
      /\ \A v \in DOMAIN hired : v # w => hired'[v] = hired[v]
      /\ providers'[w] = [hired[w] EXCEPT !.profile = profile]
      /\ hired'[w] = [hired[w] EXCEPT !.profile = profile]
  BY <1>1 DEF Edit, Put
<1>3. /\ IsWorker(hired'[w])
      /\ hired'[w].companyData = hired[w].companyData
  BY <1>1, <1>2 DEF IsWorker
<1>4. \A v \in DOMAIN hired :
        IsWorker(hired'[v]) /\ hired'[v].companyData = hired[v].companyData
  BY <1>2, <1>3 DEF CInv, TypeOK
<1>5. \A c : Own(c)' = Own(c)
  BY <1>2, <1>4 DEF Own
<1>6. \A q \in DOMAIN active' : IsRequest(active[q])'
  BY <1>2, <1>4, SMTT(60) DEF CInv, TypeOK, IsRequest
<1>7. TypeOK'
  BY <1>2, <1>4, <1>6, SMTT(60) DEF CInv, TypeOK, IsWorker
<1> QED BY <1>2, <1>5, <1>7, SMTT(60) DEF CInv, Recorded

\* A request that ends without a change of the lists.
LEMMA LeaveCInv ==
  ASSUME CInv, NEW r \in DOMAIN active, End(r),
         UNCHANGED <<providers, workers, records, hired>>
  PROVE  CInv'
<1>1. /\ DOMAIN active' \subseteq DOMAIN active
      /\ \A q \in DOMAIN active' : active'[q] = active[q]
  BY EndRequest
<1>2. TypeOK'
  BY <1>1 DEF CInv, TypeOK, IsRequest, IsWorker
<1> QED BY <1>1, <1>2, SMTT(60) DEF CInv, Own, Recorded

\* The fields of a request that goes on to another step.
LEMMA ProceedRequest ==
  ASSUME CInv, NEW r \in DOMAIN active, NEW step, Proceed(r, step)
  PROVE  /\ DOMAIN active' = DOMAIN active
         /\ \A q \in DOMAIN active : q # r => active'[q] = active[q]
         /\ DOMAIN active'[r] = {"step", "company", "phone", "profile",
                                 "worker", "workerArr", "alone"}
         /\ active'[r].step = step
         /\ active'[r].company = active[r].company
         /\ active'[r].profile = active[r].profile
         /\ active'[r].worker = active[r].worker
         /\ active'[r].workerArr = active[r].workerArr
         /\ active'[r].phone = active[r].phone
         /\ active'[r].alone = active[r].alone
<1>1. DOMAIN active[r] = {"step", "company", "phone", "profile",
                          "worker", "workerArr", "alone"}
  BY DEF CInv, TypeOK, IsRequest
<1> DEFINE new == [active[r] EXCEPT !.step = step]
<1>2. /\ DOMAIN new = DOMAIN active[r] /\ new.step = step
      /\ new.company = active[r].company /\ new.profile = active[r].profile
      /\ new.worker = active[r].worker /\ new.workerArr = active[r].workerArr
      /\ new.phone = active[r].phone /\ new.alone = active[r].alone
  BY <1>1
<1>3. active' = Put(active, r, new)
  BY DEF Proceed
<1> HIDE DEF new
<1> QED BY <1>1, <1>2, <1>3, PutRequest

\* A step changes no request but its own, and keeps that one's type.
LEMMA ProceedTyped ==
  ASSUME CInv, NEW r \in DOMAIN active, NEW step \in Steps, Proceed(r, step),
         step \in {"count", "create"} \/ active[r].step \notin {"count", "create"},
         UNCHANGED hired
  PROVE  \A q \in DOMAIN active' : IsRequest(active[q])'
<1>1. IsRequest(active[r]) /\ \A q \in DOMAIN active : IsRequest(active[q])
  BY DEF CInv, TypeOK
<1>2. IsRequest(active[r])'
  BY <1>1, ProceedRequest, SMTT(60) DEF IsRequest
<1>3. ASSUME NEW q \in DOMAIN active, q # r PROVE IsRequest(active[q])'
  BY <1>1, <1>3, ProceedRequest, SMTT(60) DEF IsRequest
<1> QED BY <1>2, <1>3, ProceedRequest

\* countPhone: nothing is stored.
LEMMA CountCInv ==
  ASSUME CInv, NEW r, countPhone(r)
  PROVE  CInv'
<1>1. r \in DOMAIN active /\ UNCHANGED <<providers, workers, records, hired>>
  BY DEF countPhone, At
<1>2. CASE End(r)
  BY <1>1, <1>2, LeaveCInv
<1>3. CASE Proceed(r, "create")
  <2>1. \A q \in DOMAIN active' : IsRequest(active[q])'
    BY <1>1, <1>3, ProceedTyped DEF Steps
  <2>2. TypeOK'
    BY <1>1, <2>1 DEF CInv, TypeOK, IsWorker
  <2>3. \A q \in DOMAIN active' :
          /\ active'[q].workerArr \subseteq Own(active'[q].company)
          /\ active'[q].step \in {"delete", "pull"} => Recorded(active'[q].worker)
    BY <1>1, <1>3, ProceedRequest, SMTT(60) DEF CInv
  <2> QED BY <1>1, <2>2, <2>3 DEF CInv, Own, Recorded
<1> QED BY <1>2, <1>3 DEF countPhone

\* createDataWithoutToken: the new worker is the company's.
LEMMA CreateCInv ==
  ASSUME CInv, NEW r, NEW w, createDataWithoutToken(r, w)
  PROVE  CInv'
<1> DEFINE new == [active[r] EXCEPT !.worker = w, !.step = "updateCompany"]
           addData == [companyData |-> active[r].company,
                       phone |-> active[r].phone,
                       profile |-> active[r].profile, alone |-> active[r].alone]
<1>1. /\ r \in DOMAIN active /\ w \notin DOMAIN hired
      /\ providers' = Put(providers, w, addData)
      /\ hired' = Put(hired, w, addData)
      /\ active' = Put(active, r, new)
      /\ UNCHANGED <<workers, records>>
  BY DEF createDataWithoutToken, At
<1>2. /\ DOMAIN active[r] = {"step", "company", "phone", "profile",
                             "worker", "workerArr", "alone"}
      /\ active[r].company \in Companies
      /\ active[r].profile \in Profiles \cup {Null}
  BY <1>1 DEF CInv, TypeOK, IsRequest
<1>3. /\ DOMAIN new = DOMAIN active[r] /\ new.step = "updateCompany"
      /\ new.company = active[r].company /\ new.profile = active[r].profile
      /\ new.worker = w /\ new.workerArr = active[r].workerArr
  BY <1>2
<1>4. IsWorker(addData) /\ addData.companyData = active[r].company
  BY <1>2 DEF IsWorker
<1> HIDE DEF new, addData
<1>5. /\ DOMAIN active' = DOMAIN active /\ active'[r] = new
      /\ \A q \in DOMAIN active : q # r => active'[q] = active[q]
  BY <1>1, PutRequest
<1>6. /\ DOMAIN providers' = DOMAIN providers \cup {w}
      /\ DOMAIN hired' = DOMAIN hired \cup {w}
      /\ providers'[w] = addData /\ hired'[w] = addData
      /\ \A v \in DOMAIN hired : hired'[v] = hired[v]
      /\ \A v \in DOMAIN providers : providers'[v] = providers[v]
  BY <1>1 DEF Put, CInv, TypeOK
<1>7. \A c : Own(c) \subseteq Own(c)'
  BY <1>6 DEF Own
<1>8. TypeOK'
  <2>1. \A v \in DOMAIN hired' : IsWorker(hired'[v])
    BY <1>4, <1>6 DEF CInv, TypeOK
  <2>2. IsRequest(active[r])'
    BY <1>2, <1>3, <1>4, <1>5, <1>6 DEF IsRequest, Steps
  <2>3. \A q \in DOMAIN active : q # r => IsRequest(active[q])'
    BY <1>5, <1>6, SMTT(60) DEF CInv, TypeOK, IsRequest
  <2>4. \A v \in DOMAIN providers' : providers'[v] = hired'[v]
    BY <1>6 DEF CInv, TypeOK
  <2> QED BY <1>1, <1>5, <1>6, <2>1, <2>2, <2>3, <2>4 DEF CInv, TypeOK, IsWorker
<1>9. \A q \in DOMAIN active' :
        /\ active'[q].workerArr \subseteq Own(active'[q].company)
        /\ active'[q].step \in {"delete", "pull"} => Recorded(active'[q].worker)
  BY <1>1, <1>3, <1>5, SMTT(60) DEF CInv
<1> QED BY <1>1, <1>6, <1>7, <1>8, <1>9 DEF CInv, Recorded

\* createRecord: now the worker may be deleted.
LEMMA RecordCInv ==
  ASSUME CInv, NEW r, createRecord(r)
  PROVE  CInv'
<1>1. /\ r \in DOMAIN active /\ active[r].step = "record"
      /\ Proceed(r, "delete") /\ UNCHANGED <<providers, workers, hired>>
      /\ records \subseteq records'
  BY DEF createRecord, At
<1>2. \E record \in records' : record.worker = active[r].worker
  <2> DEFINE new == [worker |-> active[r].worker, profile |-> active[r].profile]
  <2>1. new \in records' /\ new.worker = active[r].worker
    BY DEF createRecord
  <2> HIDE DEF new
  <2> QED BY <2>1
<1>3. \A q \in DOMAIN active' : IsRequest(active[q])'
  BY <1>1, ProceedTyped DEF Steps
<1>4. TypeOK'
  BY <1>1, <1>3 DEF CInv, TypeOK, IsWorker
<1>5. \A w : Recorded(w) => Recorded(w)'
  BY <1>1 DEF Recorded
<1>6. ASSUME NEW q \in DOMAIN active'
      PROVE  /\ active'[q].workerArr \subseteq Own(active'[q].company)
             /\ active'[q].step \in {"delete", "pull"} =>
                  \E record \in records' : record.worker = active'[q].worker
  BY <1>1, <1>2, <1>5, ProceedRequest, SMTT(60) DEF CInv, Recorded
<1> QED BY <1>1, <1>4, <1>5, <1>6 DEF CInv, Own, Recorded

\* deleteData: the worker that goes has its record.
LEMMA DeleteCInv ==
  ASSUME CInv, NEW r, deleteData(r)
  PROVE  CInv'
<1>1. /\ r \in DOMAIN active /\ active[r].step = "delete"
      /\ Proceed(r, "pull") /\ UNCHANGED <<records, workers, hired>>
  BY DEF deleteData, At
<1>2. /\ DOMAIN providers' = DOMAIN providers \ {active[r].worker}
      /\ \A w \in DOMAIN providers' : providers'[w] = providers[w]
  BY DEF deleteData, Remove
<1>3. \A q \in DOMAIN active' : IsRequest(active[q])'
  BY <1>1, ProceedTyped DEF Steps
<1>4. TypeOK'
  BY <1>1, <1>2, <1>3 DEF CInv, TypeOK, IsWorker
<1>5. \A q \in DOMAIN active' :
        /\ active'[q].workerArr \subseteq Own(active'[q].company)
        /\ active'[q].step \in {"delete", "pull"} => Recorded(active'[q].worker)
  BY <1>1, ProceedRequest, SMTT(60) DEF CInv
<1> QED BY <1>1, <1>2, <1>4, <1>5, SMTT(60) DEF CInv, Own, Recorded

-----------------------------------------------------------------------------
\* Every step of every request keeps the invariant.
LEMMA NextCInv == CInv /\ [Next]_vars => CInv'
<1> SUFFICES ASSUME CInv, [Next]_vars PROVE CInv'
  OBVIOUS
<1>1. CASE UNCHANGED vars
  BY <1>1, SMTT(60) DEF vars, CInv, TypeOK, IsRequest, IsWorker, Own, Recorded
<1>2. ASSUME NEW r \in Requests, NEW c \in Companies, NEW phone \in Phones,
             addWorker(r, c, phone)
      PROVE  CInv'
  <2> DEFINE request == [step |-> "count", company |-> c, phone |-> phone,
                         profile |-> Null, worker |-> Null,
                         workerArr |-> workers[c], alone |-> TRUE]
  <2>1. IsRequest(request)
    BY DEF IsRequest, Steps
  <2>2. /\ request.workerArr \subseteq Own(request.company)
        /\ request.step \notin {"delete", "pull"}
    BY DEF CInv
  <2>3. Begin(r, request) /\ UNCHANGED <<providers, workers, records, hired>>
    BY <1>2 DEF addWorker
  <2> HIDE DEF request
  <2> QED BY <2>1, <2>2, <2>3, BeginCInv
<1>3. ASSUME NEW r \in Requests, NEW c \in Companies,
             NEW w \in DOMAIN providers,
             \/ \E profile \in Profiles : editWorker(r, c, w, profile)
             \/ delateWorker(r, c, w)
      PROVE  CInv'
  <2>1. /\ providers[w].companyData = c
        /\ UNCHANGED <<providers, workers, records, hired>>
    BY <1>3 DEF editWorker, delateWorker
  <2>2. /\ w \in DOMAIN hired /\ hired[w].companyData = c
        /\ providers[w].profile \in Profiles \cup {Null}
    BY <2>1 DEF CInv, TypeOK, IsWorker
  <2>3. PICK step \in {"edit", "record"}, profile \in Profiles \cup {Null} :
          Begin(r, [step |-> step, company |-> c, phone |-> Null,
                    profile |-> profile, worker |-> w,
                    workerArr |-> {}, alone |-> FALSE])
    BY <1>3, <2>2 DEF editWorker, delateWorker
  <2> DEFINE request == [step |-> step, company |-> c, phone |-> Null,
                         profile |-> profile, worker |-> w,
                         workerArr |-> {}, alone |-> FALSE]
  <2>4. IsRequest(request)
    BY <2>2 DEF IsRequest, Steps
  <2>5. /\ request.workerArr \subseteq Own(request.company)
        /\ request.step \notin {"delete", "pull"}
    OBVIOUS
  <2>6. Begin(r, request)
    BY <2>3
  <2> HIDE DEF request
  <2> QED BY <2>1, <2>4, <2>5, <2>6, BeginCInv
<1>4. ASSUME NEW r \in Requests, updateCompany(r)
      PROVE  CInv'
  <2>1. /\ r \in DOMAIN active /\ active[r].step = "updateCompany" /\ End(r)
        /\ UNCHANGED <<providers, records, hired>>
    BY <1>4 DEF updateCompany, At
  <2>2. /\ active[r].company \in Companies
        /\ active[r].worker \in Own(active[r].company)
    BY <2>1 DEF CInv, TypeOK, IsRequest, Own
  <2>3. active[r].workerArr \cup {active[r].worker} \subseteq Own(active[r].company)
    BY <2>1, <2>2 DEF CInv
  <2> QED BY <1>4, <2>1, <2>2, <2>3, EndCInv DEF updateCompany
<1>5. ASSUME NEW r \in Requests, updateWorkerList(r)
      PROVE  CInv'
  <2>1. /\ r \in DOMAIN active /\ End(r)
        /\ UNCHANGED <<providers, records, hired>>
    BY <1>5 DEF updateWorkerList, At
  <2> DEFINE list == workers[active[r].company] \ {active[r].worker}
  <2>2. active[r].company \in Companies
    BY <2>1 DEF CInv, TypeOK, IsRequest
  <2>3. list \subseteq Own(active[r].company)
    BY <2>2 DEF CInv
  <2>4. workers' = [workers EXCEPT ![active[r].company] = list]
    BY <1>5 DEF updateWorkerList
  <2> HIDE DEF list
  <2> QED BY <2>1, <2>2, <2>3, <2>4, EndCInv
<1>6. ASSUME NEW r \in Requests, updateData(r)
      PROVE  CInv'
  <2>1. r \in DOMAIN active /\ End(r) /\ UNCHANGED <<workers, records>>
    BY <1>6 DEF updateData, At, Fail
  <2>2. active[r].profile \in Profiles \cup {Null}
    BY <2>1 DEF CInv, TypeOK, IsRequest
  <2>3. CASE active[r].worker \in DOMAIN providers
    BY <1>6, <2>1, <2>2, <2>3, EndRequest, EditCInv DEF updateData
  <2>4. CASE active[r].worker \notin DOMAIN providers
    BY <1>6, <2>1, <2>4, LeaveCInv DEF updateData
  <2> QED BY <2>3, <2>4
<1>7. ASSUME NEW w \in DOMAIN providers, NEW profile \in Profiles,
             updateProfile(w, profile)
      PROVE  CInv'
  BY <1>7, EditCInv DEF updateProfile
<1>8. ASSUME NEW r \in Requests, serverError(r)
      PROVE  CInv'
  BY <1>8, LeaveCInv DEF serverError, Fail
<1> QED BY <1>1, <1>2, <1>3, <1>4, <1>5, <1>6, <1>7, <1>8, CountCInv,
           CreateCInv, RecordCInv, DeleteCInv
        DEF Next, Step

\* The invariant holds in every behaviour of the company API.
THEOREM CompanyInductive == Spec => []CInv
BY InitCInv, NextCInv, PTL DEF Spec

\* Documents and requests always have their types.
THEOREM CompanyTypeCorrect == Spec => []TypeOK
<1>1. CInv => TypeOK
  BY DEF CInv
<1> QED BY <1>1, CompanyInductive, PTL

\* No company's list ever has another company's worker, for any number of
\* overlapping addWorker and delateWorker requests.
THEOREM OnlyOwnWorkersListed == Spec => []OwnWorkersListed
<1>1. CInv => OwnWorkersListed
  BY DEF CInv, Own, OwnWorkersListed
<1> QED BY <1>1, CompanyInductive, PTL

\* No worker is ever gone without a record, wherever delateWorker fails.
THEOREM AllDeletedRecorded == Spec => []DeletedAreRecorded
<1>1. CInv => DeletedAreRecorded
  BY DEF CInv, Recorded, DeletedAreRecorded
<1> QED BY <1>1, CompanyInductive, PTL

-----------------------------------------------------------------------------
\* The workers that c has now.
Staff(c) == {w \in DOMAIN providers : providers[w].companyData = c}

\* What request r of company c has left to do: the list lacks the worker that
\* was just created, or still has the one that was just deleted.
InHand(r, c) ==
  LET request == active[r] IN
  /\ request.step \in {"count", "create", "edit", "record", "delete"} => workers[c] = Staff(c)
  /\ request.step \in {"count", "create", "updateCompany"} => request.workerArr = workers[c]
  /\ request.step = "updateCompany" => Staff(c) = workers[c] \cup {request.worker}
  /\ request.step \in {"record", "delete"} =>
       /\ request.worker \in DOMAIN providers
       /\ request.profile = providers[request.worker].profile
  /\ request.step = "delete" =>
       [worker |-> request.worker, profile |-> request.profile] \in records
  /\ request.step = "pull" => Staff(c) = workers[c] \ {request.worker}

\* ListMatches, while requests are in progress as well.
Consistent(c) ==
  /\ \A w \in DOMAIN hired \ DOMAIN providers :
       hired[w].companyData = c =>
         [worker |-> w, profile |-> hired[w].profile] \in records
  /\ \A q, r \in DOMAIN active :
       active[q].company = c /\ active[r].company = c => q = r
  /\ \A r \in DOMAIN active : active[r].company = c => InHand(r, c)
  /\ (\A r \in DOMAIN active : active[r].company # c) => workers[c] = Staff(c)

LInv == \A c \in Companies \ disturbed : Consistent(c)

\* A request that is alone is the only one, and once it has counted the
\* phones no provider has its own.
PInv ==
  /\ DOMAIN hired \subseteq Nat
  /\ \A r \in DOMAIN active : active[r].alone =>
       /\ DOMAIN active = {r}
       /\ active[r].step = "create" =>
            \A w \in DOMAIN providers : providers[w].phone # active[r].phone
  /\ OnePhonePerWorker

\* A request that begins, and what becomes of the others.
SameRequest(q) ==
  /\ active'[q].step = active[q].step /\ active'[q].company = active[q].company
  /\ active'[q].profile = active[q].profile /\ active'[q].worker = active[q].worker
  /\ active'[q].workerArr = active[q].workerArr

LEMMA BeginRequest ==
  ASSUME CInv, NEW r, NEW request, Begin(r, request), IsRequest(request)
  PROVE  /\ DOMAIN active' = DOMAIN active \cup {r} /\ r \notin DOMAIN active
         /\ \A q \in DOMAIN active : SameRequest(q)
         /\ active'[r].step = request.step /\ active'[r].company = request.company
         /\ active'[r].profile = request.profile /\ active'[r].worker = request.worker
         /\ active'[r].workerArr = request.workerArr
<1>1. /\ DOMAIN active' = DOMAIN active \cup {r} /\ r \notin DOMAIN active
      /\ \A q \in DOMAIN active : active'[q] = [active[q] EXCEPT !.alone = FALSE]
      /\ active'[r] = [request EXCEPT !.alone = @ /\ DOMAIN active = {}]
  BY DEF Begin
<1>2. /\ active'[r].step = request.step /\ active'[r].company = request.company
      /\ active'[r].profile = request.profile /\ active'[r].worker = request.worker
      /\ active'[r].workerArr = request.workerArr
  BY <1>1 DEF IsRequest
<1>3. ASSUME NEW q \in DOMAIN active PROVE SameRequest(q)
  BY <1>1, SMTT(60) DEF CInv, TypeOK, IsRequest, SameRequest
<1> QED BY <1>1, <1>2, <1>3

LEMMA BeginAlone ==
  ASSUME CInv, NEW r, NEW request, Begin(r, request), IsRequest(request)
  PROVE  /\ DOMAIN active' = DOMAIN active \cup {r}
         /\ \A q \in DOMAIN active : ~active'[q].alone
         /\ active'[r].step = request.step
         /\ active'[r].alone => DOMAIN active = {}
<1>1. /\ DOMAIN active' = DOMAIN active \cup {r} /\ r \notin DOMAIN active
      /\ \A q \in DOMAIN active : active'[q] = [active[q] EXCEPT !.alone = FALSE]
      /\ active'[r] = [request EXCEPT !.alone = @ /\ DOMAIN active = {}]
  BY SMTT(60) DEF Begin
<1>2. active'[r].step = request.step /\ (active'[r].alone => DOMAIN active = {})
  BY <1>1 DEF IsRequest
<1>3. ASSUME NEW q \in DOMAIN active PROVE ~active'[q].alone
  BY <1>1, SMTT(60) DEF CInv, TypeOK, IsRequest
<1> QED BY <1>1, <1>2, <1>3

\* The requests after a step, as far as PInv goes.
PhonesCounted ==
  \A r \in DOMAIN active : active[r].alone =>
    /\ DOMAIN active = {r}
    /\ active[r].step = "create" =>
         \A w \in DOMAIN providers : providers[w].phone # active[r].phone

\* No worker is added, and the phones stay.
LEMMA KeptPInv ==
  ASSUME PInv, PhonesCounted', DOMAIN hired' = DOMAIN hired,
         DOMAIN providers' \subseteq DOMAIN providers,
         \A w \in DOMAIN providers' : /\ providers'[w].phone = providers[w].phone
                                      /\ providers'[w].alone = providers[w].alone
  PROVE  PInv'
BY SMTT(60) DEF PInv, PhonesCounted, OnePhonePerWorker

\* A request that ends leaves nobody alone behind.
LEMMA EndPInv ==
  ASSUME PInv, NEW r \in DOMAIN active, End(r)
  PROVE  PhonesCounted'
<1>1. DOMAIN active' = DOMAIN active \ {r} /\ \A q \in DOMAIN active' : active'[q] = active[q]
  BY DEF End, Remove
<1> QED BY <1>1 DEF PInv, PhonesCounted

\* A request that goes on and does not create a worker next.
LEMMA ProceedPInv ==
  ASSUME CInv, PInv, NEW r \in DOMAIN active, NEW step, Proceed(r, step), step # "create"
  PROVE  PhonesCounted'
BY ProceedRequest, SMTT(60) DEF PInv, PhonesCounted

\* Edited documents keep their phones.
LEMMA EditPhones ==
  ASSUME CInv, NEW w \in DOMAIN providers, NEW profile,
         providers' = Edit(providers, w, profile), hired' = Edit(hired, w, profile)
  PROVE  /\ DOMAIN providers' = DOMAIN providers /\ DOMAIN hired' = DOMAIN hired
         /\ \A v \in DOMAIN providers : /\ providers'[v].phone = providers[v].phone
                                        /\ providers'[v].alone = providers[v].alone
<1>1. w \in DOMAIN hired /\ IsWorker(providers[w])
  BY DEF CInv, TypeOK
<1> DEFINE new == [providers[w] EXCEPT !.profile = profile]
<1>2. new.phone = providers[w].phone /\ new.alone = providers[w].alone
  BY <1>1 DEF IsWorker
<1>3. providers' = Put(providers, w, new)
  BY DEF Edit
<1> HIDE DEF new
<1>4. DOMAIN hired' = DOMAIN hired
  BY <1>1 DEF Edit, Put
<1> QED BY <1>2, <1>3, <1>4 DEF Put

\* createDataWithoutToken: the new worker is the latest one.
LEMMA CreatePInv ==
  ASSUME CInv, PInv, NEW r, NEW w \in Ids, createDataWithoutToken(r, w)
  PROVE  PInv'
<1> DEFINE addData == [companyData |-> active[r].company,
                       phone |-> active[r].phone,
                       profile |-> active[r].profile, alone |-> active[r].alone]
           new == [active[r] EXCEPT !.worker = w, !.step = "updateCompany"]
<1>1. /\ r \in DOMAIN active /\ active[r].step = "create"
      /\ \A v \in DOMAIN hired : v < w
      /\ providers' = Put(providers, w, addData)
      /\ hired' = Put(hired, w, addData)
      /\ active' = Put(active, r, new)
  BY DEF createDataWithoutToken, At
<1>2. addData.phone = active[r].phone /\ addData.alone = active[r].alone
  OBVIOUS
<1>3. new.step = "updateCompany" /\ new.alone = active[r].alone
  BY <1>1 DEF CInv, TypeOK, IsRequest
<1> HIDE DEF addData, new
<1>4. /\ DOMAIN active' = DOMAIN active /\ active'[r] = new
      /\ \A q \in DOMAIN active : q # r => active'[q] = active[q]
  BY <1>1, PutRequest
<1>5. PhonesCounted'
  BY <1>1, <1>3, <1>4, SMTT(60) DEF PInv, PhonesCounted
<1>6. w \in Nat /\ DOMAIN hired' = DOMAIN hired \cup {w}
  BY <1>1, CompanyAssumption, SMTT(60) DEF Ids, Put
<1>7. /\ DOMAIN providers' = DOMAIN providers \cup {w} /\ providers'[w] = addData
      /\ \A v \in DOMAIN providers : v # w => providers'[v] = providers[v]
  BY <1>1 DEF Put
<1>8. \A v \in DOMAIN providers : v \in Nat /\ v < w
  BY <1>1 DEF CInv, TypeOK, PInv
<1>9. \A v \in DOMAIN providers : providers[v].phone = addData.phone => ~addData.alone
  BY <1>1, <1>2 DEF PInv
<1>10. OnePhonePerWorker'
  <2> SUFFICES ASSUME NEW u \in DOMAIN providers', NEW v \in DOMAIN providers', u < v,
                      providers'[u].phone = providers'[v].phone
               PROVE  ~providers'[v].alone
    BY DEF OnePhonePerWorker
  <2>1. CASE v = w
    <3>1. u \in DOMAIN providers /\ providers'[u] = providers[u]
      BY <1>6, <1>7, <2>1, SMTT(60)
    <3> QED BY <1>7, <1>9, <2>1, <3>1
  <2>2. CASE v # w
    <3>1. v \in DOMAIN providers /\ v \in Nat /\ v < w /\ u # w
      BY <1>6, <1>7, <1>8, <2>2, SMTT(60)
    <3>2. u \in DOMAIN providers
      BY <1>7, <3>1
    <3> QED BY <1>7, <2>2, <3>1, <3>2 DEF PInv, OnePhonePerWorker
  <2> QED BY <2>1, <2>2
<1> QED BY <1>5, <1>6, <1>10 DEF PInv, PhonesCounted

\* The requests as they begin.
LEMMA AddBegins ==
  ASSUME CInv, NEW r, NEW c \in Companies, NEW phone, addWorker(r, c, phone)
  PROVE  \E request : /\ IsRequest(request) /\ Begin(r, request)
                      /\ request.step = "count" /\ request.company = c
                      /\ request.workerArr = workers[c]
<1> DEFINE request == [step |-> "count", company |-> c, phone |-> phone,
                       profile |-> Null, worker |-> Null,
                       workerArr |-> workers[c], alone |-> TRUE]
<1>1. IsRequest(request)
  BY DEF IsRequest, Steps
<1>2. /\ Begin(r, request) /\ request.step = "count" /\ request.company = c
      /\ request.workerArr = workers[c]
  BY DEF addWorker
<1> HIDE DEF request
<1> QED BY <1>1, <1>2

LEMMA WorkerBegins ==
  ASSUME CInv, NEW r, NEW c \in Companies, NEW w \in DOMAIN providers,
         \/ \E profile \in Profiles : editWorker(r, c, w, profile)
         \/ delateWorker(r, c, w)
  PROVE  \E request : /\ IsRequest(request) /\ Begin(r, request)
                      /\ request.step \in {"edit", "record"}
                      /\ request.company = c /\ request.worker = w
                      /\ request.step = "record" => request.profile = providers[w].profile
<1>1. /\ providers[w].companyData = c
      /\ w \in DOMAIN hired /\ hired[w].companyData = c
      /\ providers[w].profile \in Profiles \cup {Null}
  BY DEF editWorker, delateWorker, CInv, TypeOK, IsWorker
<1>2. PICK step \in {"edit", "record"}, profile \in Profiles \cup {Null} :
        /\ Begin(r, [step |-> step, company |-> c, phone |-> Null,
                     profile |-> profile, worker |-> w,
                     workerArr |-> {}, alone |-> FALSE])
        /\ step = "record" => profile = providers[w].profile
  BY <1>1 DEF editWorker, delateWorker
<1> DEFINE request == [step |-> step, company |-> c, phone |-> Null,
                       profile |-> profile, worker |-> w,
                       workerArr |-> {}, alone |-> FALSE]
<1>3. IsRequest(request)
  BY <1>1 DEF IsRequest, Steps
<1>4. /\ Begin(r, request) /\ request.step = step
      /\ request.company = c /\ request.worker = w /\ request.profile = profile
  BY <1>2
<1> HIDE DEF request
<1> QED BY <1>2, <1>3, <1>4

\* A request that begins counts later, and ends what was alone.
LEMMA BeginPInv ==
  ASSUME CInv, PInv, NEW r, NEW request, Begin(r, request), IsRequest(request),
         request.step # "create", UNCHANGED <<providers, hired>>
  PROVE  PInv'
<1>1. /\ DOMAIN active' = DOMAIN active \cup {r}
      /\ \A q \in DOMAIN active : ~active'[q].alone
      /\ active'[r].step # "create"
      /\ active'[r].alone => DOMAIN active = {}
  BY BeginAlone
<1>2. PhonesCounted'
  BY <1>1 DEF PhonesCounted
<1> QED BY <1>2, KeptPInv

LEMMA NextPInv == CInv /\ PInv /\ [Next]_vars => PInv'
<1> SUFFICES ASSUME CInv, PInv, [Next]_vars PROVE PInv'
  OBVIOUS
<1>1. CASE UNCHANGED vars
  BY <1>1 DEF vars, PInv, OnePhonePerWorker
<1>2. ASSUME NEW r \in Requests, NEW c \in Companies, NEW phone \in Phones,
             addWorker(r, c, phone)
      PROVE  PInv'
  <2>1. PICK request : IsRequest(request) /\ Begin(r, request) /\ request.step = "count"
    BY <1>2, AddBegins, SMTT(60)
  <2>2. UNCHANGED <<providers, hired>>
    BY <1>2 DEF addWorker
  <2> QED BY <2>1, <2>2, BeginPInv
<1>3. ASSUME NEW r \in Requests, NEW c \in Companies, NEW w \in DOMAIN providers,
             \/ \E profile \in Profiles : editWorker(r, c, w, profile)
             \/ delateWorker(r, c, w)
      PROVE  PInv'
  <2>1. PICK request : IsRequest(request) /\ Begin(r, request) /\ request.step \in {"edit", "record"}
    BY <1>3, WorkerBegins
  <2>2. UNCHANGED <<providers, hired>>
    BY <1>3 DEF editWorker, delateWorker
  <2> QED BY <2>1, <2>2, BeginPInv
<1>4. ASSUME NEW r \in Requests, countPhone(r) PROVE PInv'
  <2>1. r \in DOMAIN active /\ UNCHANGED <<providers, hired>>
    BY <1>4 DEF countPhone, At
  <2>2. CASE End(r)
    BY <2>1, <2>2, EndPInv, KeptPInv
  <2>3. CASE /\ \A w \in DOMAIN providers : providers[w].phone # active[r].phone
             /\ Proceed(r, "create")
    <3>1. /\ DOMAIN active' = DOMAIN active
          /\ \A q \in DOMAIN active : q # r => active'[q] = active[q]
          /\ active'[r].step = "create" /\ active'[r].phone = active[r].phone
          /\ active'[r].alone = active[r].alone
      BY <2>1, <2>3, ProceedRequest, SMTT(60)
    <3>2. PhonesCounted'
      BY <2>1, <2>3, <3>1, SMTT(60) DEF PInv, PhonesCounted
    <3> QED BY <2>1, <3>2, KeptPInv
  <2> QED BY <1>4, <2>2, <2>3 DEF countPhone
<1>5. ASSUME NEW r \in Requests, NEW w \in Ids, createDataWithoutToken(r, w) PROVE PInv'
  BY <1>5, CreatePInv
<1>6. ASSUME NEW r \in Requests, updateCompany(r) \/ updateWorkerList(r) \/ serverError(r)
      PROVE  PInv'
  <2>1. r \in DOMAIN active /\ End(r) /\ UNCHANGED <<providers, hired>>
    BY <1>6 DEF updateCompany, updateWorkerList, serverError, Fail, At
  <2> QED BY <2>1, EndPInv, KeptPInv
<1>7. ASSUME NEW r \in Requests, updateData(r) PROVE PInv'
  <2>1. r \in DOMAIN active /\ End(r)
    BY <1>7 DEF updateData, Fail, At
  <2>2. PhonesCounted'
    BY <2>1, EndPInv
  <2>3. CASE active[r].worker \in DOMAIN providers
    <3>1. /\ providers' = Edit(providers, active[r].worker, active[r].profile)
          /\ hired' = Edit(hired, active[r].worker, active[r].profile)
      BY <1>7, <2>3 DEF updateData
    <3> QED BY <2>2, <2>3, <3>1, EditPhones, KeptPInv
  <2>4. CASE active[r].worker \notin DOMAIN providers
    <3>1. UNCHANGED <<providers, hired>>
      BY <1>7, <2>4 DEF updateData
    <3> QED BY <2>2, <3>1, KeptPInv
  <2> QED BY <2>3, <2>4
<1>8. ASSUME NEW w \in DOMAIN providers, NEW profile \in Profiles, updateProfile(w, profile)
      PROVE  PInv'
  <2>1. /\ active' = active /\ providers' = Edit(providers, w, profile)
        /\ hired' = Edit(hired, w, profile)
    BY <1>8 DEF updateProfile
  <2>2. /\ DOMAIN providers' = DOMAIN providers /\ DOMAIN hired' = DOMAIN hired
        /\ \A v \in DOMAIN providers : /\ providers'[v].phone = providers[v].phone
                                       /\ providers'[v].alone = providers[v].alone
    BY <2>1, EditPhones
  <2>3. PhonesCounted'
    <3> SUFFICES ASSUME NEW r \in DOMAIN active, active[r].alone
                 PROVE  /\ DOMAIN active = {r}
                        /\ active[r].step = "create" =>
                             \A v \in DOMAIN providers' : providers'[v].phone # active[r].phone
      BY <2>1 DEF PhonesCounted
    <3> QED BY <2>2 DEF PInv
  <2> QED BY <2>2, <2>3, KeptPInv
<1>9. ASSUME NEW r \in Requests, createRecord(r) PROVE PInv'
  <2>1. r \in DOMAIN active /\ Proceed(r, "delete") /\ UNCHANGED <<providers, hired>>
    BY <1>9 DEF createRecord, At
  <2> QED BY <2>1, ProceedPInv, KeptPInv
<1>10. ASSUME NEW r \in Requests, deleteData(r) PROVE PInv'
  <2>1. r \in DOMAIN active /\ Proceed(r, "pull") /\ hired' = hired
    BY <1>10 DEF deleteData, At
  <2>2. /\ DOMAIN providers' \subseteq DOMAIN providers
        /\ \A w \in DOMAIN providers' : providers'[w] = providers[w]
    BY <1>10 DEF deleteData, Remove
  <2> QED BY <2>1, <2>2, ProceedPInv, KeptPInv
<1> QED BY <1>1, <1>2, <1>3, <1>4, <1>5, <1>6, <1>7, <1>8, <1>9, <1>10 DEF Next, Step

\* Of two workers with one phone, the later one's addWorker has overlapped
\* with another request, for any number of companies and requests.
THEOREM PhonesUnique == Spec => []OnePhonePerWorker
<1>1. Init => PInv
  BY DEF Init, PInv, OnePhonePerWorker
<1>2. CInv /\ PInv /\ [Next]_vars => PInv'
  BY NextPInv
<1>3. PInv => OnePhonePerWorker
  BY DEF PInv
<1> QED BY <1>1, <1>2, <1>3, CompanyInductive, PTL DEF Spec

-----------------------------------------------------------------------------
\* Nothing of company c has changed: its list, its workers, the workers it has
\* lost, and what its requests hold.
Untouched(c) ==
  /\ records \subseteq records'
  /\ workers'[c] = workers[c]
  /\ Staff(c)' = Staff(c)
  /\ \A w \in Staff(c) : providers'[w].profile = providers[w].profile
  /\ \A w \in DOMAIN hired' \ DOMAIN providers' :
       hired'[w].companyData = c =>
         /\ w \in DOMAIN hired \ DOMAIN providers /\ hired[w].companyData = c
         /\ hired'[w].profile = hired[w].profile

\* A request of c holds what it held.
LEMMA UntouchedInHand ==
  ASSUME CInv, NEW c \in Companies, Untouched(c), NEW q \in DOMAIN active,
         active[q].company = c, SameRequest(q), InHand(q, c)
  PROVE  InHand(q, c)'
<1>1. /\ active[q].step \in {"count", "create", "edit", "record", "delete"} => workers[c] = Staff(c)
      /\ active[q].step \in {"count", "create", "updateCompany"} => active[q].workerArr = workers[c]
      /\ active[q].step = "updateCompany" => Staff(c) = workers[c] \cup {active[q].worker}
      /\ active[q].step \in {"record", "delete"} =>
           /\ active[q].worker \in DOMAIN providers
           /\ active[q].profile = providers[active[q].worker].profile
      /\ active[q].step = "delete" =>
           [worker |-> active[q].worker, profile |-> active[q].profile] \in records
      /\ active[q].step = "pull" => Staff(c) = workers[c] \ {active[q].worker}
  BY DEF InHand
<1>2. active[q].step \in {"record", "delete"} =>
        /\ active[q].worker \in DOMAIN providers'
        /\ active[q].profile = providers'[active[q].worker].profile
  <2> SUFFICES ASSUME active[q].step \in {"record", "delete"}
               PROVE  /\ active[q].worker \in DOMAIN providers'
                      /\ active[q].profile = providers'[active[q].worker].profile
    OBVIOUS
  <2>1. active[q].worker \in Staff(c)
    BY <1>1 DEF CInv, TypeOK, IsRequest, Staff
  <2>2. active[q].worker \in Staff(c)'
    BY <2>1 DEF Untouched
  <2> QED BY <1>1, <2>1, <2>2 DEF Untouched, Staff
<1>3. /\ active'[q].step \in {"count", "create", "edit", "record", "delete"} => workers'[c] = Staff(c)'
      /\ active'[q].step \in {"count", "create", "updateCompany"} => active'[q].workerArr = workers'[c]
      /\ active'[q].step = "updateCompany" => Staff(c)' = workers'[c] \cup {active'[q].worker}
      /\ active'[q].step \in {"record", "delete"} =>
           /\ active'[q].worker \in DOMAIN providers'
           /\ active'[q].profile = providers'[active'[q].worker].profile
      /\ active'[q].step = "delete" =>
           [worker |-> active'[q].worker, profile |-> active'[q].profile] \in records'
      /\ active'[q].step = "pull" => Staff(c)' = workers'[c] \ {active'[q].worker}
  BY <1>1, <1>2 DEF Untouched, SameRequest
<1> QED BY <1>3 DEF InHand

\* A step that belongs to another company.
LEMMA OtherCompany ==
  ASSUME CInv, NEW c \in Companies, Consistent(c), Untouched(c),
         \A q \in DOMAIN active' : active'[q].company = c =>
           q \in DOMAIN active /\ active[q].company = c /\ SameRequest(q),
         \A q \in DOMAIN active : active[q].company = c =>
           q \in DOMAIN active' /\ active'[q].company = c
  PROVE  Consistent(c)'
<1>1. \A w \in DOMAIN hired' \ DOMAIN providers' :
        hired'[w].companyData = c =>
          [worker |-> w, profile |-> hired'[w].profile] \in records'
  BY DEF Consistent, Untouched
<1>2. \A q, r \in DOMAIN active' :
        active'[q].company = c /\ active'[r].company = c => q = r
  BY DEF Consistent
<1>3. \A q \in DOMAIN active' : active'[q].company = c => InHand(q, c)'
  BY UntouchedInHand DEF Consistent
<1>4. (\A q \in DOMAIN active' : active'[q].company # c) => workers'[c] = Staff(c)'
  BY DEF Consistent, Untouched
<1> QED BY <1>1, <1>2, <1>3, <1>4 DEF Consistent

\* Nothing was stored.
LEMMA NothingStored ==
  ASSUME UNCHANGED <<providers, workers, records, hired>>, NEW c
  PROVE  Untouched(c)
BY DEF Untouched, Staff

\* The one request of c in progress: the others are of other companies.
LEMMA OnlyRequest ==
  ASSUME NEW c, Consistent(c), NEW r \in DOMAIN active, active[r].company = c
  PROVE  /\ InHand(r, c)
         /\ \A q \in DOMAIN active : active[q].company = c => q = r
         /\ \A w \in DOMAIN hired \ DOMAIN providers :
              hired[w].companyData = c =>
                [worker |-> w, profile |-> hired[w].profile] \in records
BY DEF Consistent

\* It is enough to look at the request that goes on.
LEMMA GoesOn ==
  ASSUME NEW c, NEW r \in DOMAIN active', active'[r].company = c,
         \A q \in DOMAIN active' : active'[q].company = c => q = r,
         InHand(r, c)',
         \A w \in DOMAIN hired' \ DOMAIN providers' :
           hired'[w].companyData = c =>
             [worker |-> w, profile |-> hired'[w].profile] \in records'
  PROVE  Consistent(c)'
BY DEF Consistent

\* A request of c that ends with the list as it should be.
LEMMA Ends ==
  ASSUME NEW c, \A q \in DOMAIN active' : active'[q].company # c,
         workers'[c] = Staff(c)',
         \A w \in DOMAIN hired' \ DOMAIN providers' :
           hired'[w].companyData = c =>
             [worker |-> w, profile |-> hired'[w].profile] \in records'
  PROVE  Consistent(c)'
BY DEF Consistent

\* A request that begins: there is no other of its company, unless it disturbs.
LEMMA BeginConsistent ==
  ASSUME CInv, NEW c \in Companies, Consistent(c), c \notin disturbed',
         NEW r, NEW request, IsRequest(request), Begin(r, request),
         UNCHANGED <<providers, workers, records, hired>>,
         \/ request.step = "count" /\ request.workerArr = workers[request.company]
         \/ /\ request.step \in {"edit", "record"} /\ request.worker \in DOMAIN providers
            /\ request.step = "record" => request.profile = providers[request.worker].profile
  PROVE  Consistent(c)'
<1>1. /\ DOMAIN active' = DOMAIN active \cup {r} /\ r \notin DOMAIN active
      /\ \A q \in DOMAIN active : SameRequest(q)
      /\ active'[r].step = request.step /\ active'[r].company = request.company
      /\ active'[r].profile = request.profile /\ active'[r].worker = request.worker
      /\ active'[r].workerArr = request.workerArr
      /\ disturbed' = IF \E q \in DOMAIN active : active[q].company = request.company
                      THEN disturbed \cup {request.company} ELSE disturbed
  <2>1. /\ DOMAIN active' = DOMAIN active \cup {r} /\ r \notin DOMAIN active
        /\ \A q \in DOMAIN active : SameRequest(q)
        /\ active'[r].step = request.step /\ active'[r].company = request.company
        /\ active'[r].profile = request.profile /\ active'[r].worker = request.worker
        /\ active'[r].workerArr = request.workerArr
    BY BeginRequest
  <2>2. disturbed' = IF \E q \in DOMAIN active : active[q].company = request.company
                     THEN disturbed \cup {request.company} ELSE disturbed
    BY DEF Begin
  <2> QED BY <2>1, <2>2
<1>2. Untouched(c)
  BY NothingStored
<1>3. CASE request.company # c
  <2>1. \A q \in DOMAIN active' : active'[q].company = c =>
          q \in DOMAIN active /\ active[q].company = c /\ SameRequest(q)
    BY <1>1, <1>3 DEF SameRequest
  <2>2. \A q \in DOMAIN active : active[q].company = c =>
          q \in DOMAIN active' /\ active'[q].company = c
    BY <1>1 DEF SameRequest
  <2> QED BY <1>2, <2>1, <2>2, OtherCompany
<1>4. CASE request.company = c
  <2>1. \A q \in DOMAIN active : active[q].company # c
    BY <1>1, <1>4
  <2>2. \A q \in DOMAIN active' : active'[q].company = c => q = r
    BY <1>1, <2>1 DEF SameRequest
  <2>3. workers[c] = Staff(c)
    BY <2>1 DEF Consistent
  <2>4. InHand(r, c)'
    BY <1>1, <1>4, <2>3 DEF InHand, Staff
  <2>5. \A w \in DOMAIN hired' \ DOMAIN providers' :
          hired'[w].companyData = c =>
            [worker |-> w, profile |-> hired'[w].profile] \in records'
    BY DEF Consistent
  <2> QED BY <1>1, <1>4, <2>2, <2>4, <2>5, GoesOn
<1> QED BY <1>3, <1>4

\* A step of a request of another company.
LEMMA Elsewhere ==
  ASSUME CInv, NEW c \in Companies, Consistent(c), Untouched(c),
         NEW r \in DOMAIN active, active[r].company # c,
         DOMAIN active' \in {DOMAIN active, DOMAIN active \ {r}},
         \A q \in DOMAIN active' : q # r => active'[q] = active[q],
         r \in DOMAIN active' => active'[r].company = active[r].company
  PROVE  Consistent(c)'
<1>1. \A q \in DOMAIN active' : active'[q].company = c =>
        q \in DOMAIN active /\ active[q].company = c /\ SameRequest(q)
  BY DEF SameRequest
<1>2. \A q \in DOMAIN active : active[q].company = c =>
        q \in DOMAIN active' /\ active'[q].company = c
  OBVIOUS
<1> QED BY <1>1, <1>2, OtherCompany

\* The workers c has lost have their records still.
LEMMA LostKept ==
  ASSUME NEW c, Consistent(c), records \subseteq records', hired' = hired,
         providers' = providers
  PROVE  \A w \in DOMAIN hired' \ DOMAIN providers' :
           hired'[w].companyData = c =>
             [worker |-> w, profile |-> hired'[w].profile] \in records'
BY DEF Consistent

LEMMA CountConsistent ==
  ASSUME CInv, NEW c \in Companies, Consistent(c), NEW r, countPhone(r)
  PROVE  Consistent(c)'
<1>1. /\ r \in DOMAIN active /\ active[r].step = "count"
      /\ UNCHANGED <<providers, workers, records, hired>>
  BY DEF countPhone, At
<1>2. Untouched(c)
  BY <1>1, NothingStored
<1>3. CASE End(r)
  <2>1. DOMAIN active' = DOMAIN active \ {r} /\ \A q \in DOMAIN active' : active'[q] = active[q]
    BY <1>3 DEF End, Remove
  <2>2. CASE active[r].company # c
    BY <1>1, <1>2, <2>1, <2>2, Elsewhere
  <2>3. CASE active[r].company = c
    <3>1. \A q \in DOMAIN active' : active'[q].company # c
      BY <1>1, <2>1, <2>3, OnlyRequest
    <3>2. workers[c] = Staff(c)
      BY <1>1, <2>3, OnlyRequest DEF InHand
    <3>3. workers'[c] = Staff(c)'
      BY <1>2, <3>2 DEF Untouched
    <3> QED BY <1>1, <3>1, <3>3, LostKept, Ends
  <2> QED BY <2>2, <2>3
<1>4. CASE Proceed(r, "create")
  <2>1. /\ DOMAIN active' = DOMAIN active
        /\ \A q \in DOMAIN active : q # r => active'[q] = active[q]
        /\ active'[r].step = "create" /\ active'[r].company = active[r].company
        /\ active'[r].workerArr = active[r].workerArr
    BY <1>1, <1>4, ProceedRequest
  <2>2. CASE active[r].company # c
    BY <1>1, <1>2, <2>1, <2>2, Elsewhere
  <2>3. CASE active[r].company = c
    <3>1. \A q \in DOMAIN active' : active'[q].company = c => q = r
      BY <1>1, <2>1, <2>3, OnlyRequest, SMTT(60)
    <3>2. workers[c] = Staff(c) /\ active[r].workerArr = workers[c]
      BY <1>1, <2>3, OnlyRequest DEF InHand
    <3>3. workers'[c] = Staff(c)' /\ workers'[c] = workers[c]
      BY <1>2, <3>2 DEF Untouched
    <3>4. InHand(r, c)'
      BY <2>1, <3>2, <3>3 DEF InHand
    <3> QED BY <1>1, <2>1, <2>3, <3>1, <3>4, LostKept, GoesOn
  <2> QED BY <2>2, <2>3, SMTT(60)
<1> QED BY <1>3, <1>4 DEF countPhone

\* createDataWithoutToken: the list lacks the new worker until updateCompany.
LEMMA CreateConsistent ==
  ASSUME CInv, NEW c \in Companies, Consistent(c), NEW r, NEW w, createDataWithoutToken(r, w)
  PROVE  Consistent(c)'
<1> DEFINE addData == [companyData |-> active[r].company,
                       phone |-> active[r].phone,
                       profile |-> active[r].profile, alone |-> active[r].alone]
           new == [active[r] EXCEPT !.worker = w, !.step = "updateCompany"]
<1>1. /\ r \in DOMAIN active /\ active[r].step = "create" /\ w \notin DOMAIN hired
      /\ providers' = Put(providers, w, addData)
      /\ hired' = Put(hired, w, addData)
      /\ active' = Put(active, r, new)
      /\ UNCHANGED <<workers, records>>
  BY DEF createDataWithoutToken, At
<1>2. addData.companyData = active[r].company
  OBVIOUS
<1>3. /\ new.step = "updateCompany" /\ new.company = active[r].company
      /\ new.worker = w /\ new.workerArr = active[r].workerArr
  BY <1>1 DEF CInv, TypeOK, IsRequest
<1> HIDE DEF addData, new
<1>4. /\ DOMAIN active' = DOMAIN active /\ active'[r] = new
      /\ \A q \in DOMAIN active : q # r => active'[q] = active[q]
  BY <1>1, PutRequest
<1>5. /\ w \notin DOMAIN providers
      /\ DOMAIN providers' = DOMAIN providers \cup {w} /\ providers'[w] = addData
      /\ \A v \in DOMAIN providers : providers'[v] = providers[v]
      /\ DOMAIN hired' = DOMAIN hired \cup {w}
      /\ \A v \in DOMAIN hired : hired'[v] = hired[v]
  BY <1>1 DEF Put, CInv, TypeOK
<1>6. CASE active[r].company # c
  <2>1. Staff(c)' = Staff(c)
    BY <1>2, <1>5, <1>6 DEF Staff
  <2>2. Untouched(c)
    BY <1>1, <1>5, <2>1 DEF Untouched, Staff
  <2> QED BY <1>1, <1>3, <1>4, <1>6, <2>2, Elsewhere
<1>7. CASE active[r].company = c
  <2>1. \A q \in DOMAIN active' : active'[q].company = c => q = r
    BY <1>1, <1>4, <1>7, OnlyRequest
  <2>2. workers[c] = Staff(c) /\ active[r].workerArr = workers[c]
    BY <1>1, <1>7, OnlyRequest DEF InHand
  <2>3. Staff(c)' = Staff(c) \cup {w}
    BY <1>2, <1>5, <1>7 DEF Staff
  <2>4. InHand(r, c)'
    BY <1>1, <1>3, <1>4, <2>2, <2>3 DEF InHand
  <2>5. \A v \in DOMAIN hired' \ DOMAIN providers' :
          hired'[v].companyData = c =>
            [worker |-> v, profile |-> hired'[v].profile] \in records'
    BY <1>1, <1>5 DEF Consistent
  <2> QED BY <1>1, <1>3, <1>4, <1>7, <2>1, <2>4, <2>5, GoesOn, SMTT(60)
<1> QED BY <1>6, <1>7

\* updateCompany and updateWorkerList bring the list up to date.
LEMMA ListConsistent ==
  ASSUME CInv, NEW c \in Companies, Consistent(c), NEW r, updateCompany(r) \/ updateWorkerList(r)
  PROVE  Consistent(c)'
<1>1. r \in DOMAIN active /\ End(r) /\ UNCHANGED <<providers, records, hired>>
  BY DEF updateCompany, updateWorkerList, At
<1>2. DOMAIN active' = DOMAIN active \ {r} /\ \A q \in DOMAIN active' : active'[q] = active[q]
  BY <1>1 DEF End, Remove
<1>3. active[r].company \in Companies /\ DOMAIN workers = Companies
  BY <1>1 DEF CInv, TypeOK, IsRequest
<1>4. CASE active[r].company # c
  <2>1. workers'[c] = workers[c]
    BY <1>3, <1>4 DEF updateCompany, updateWorkerList
  <2>2. Untouched(c)
    BY <1>1, <2>1 DEF Untouched, Staff
  <2> QED BY <1>1, <1>2, <1>4, <2>2, Elsewhere
<1>5. CASE active[r].company = c
  <2>1. \A q \in DOMAIN active' : active'[q].company # c
    BY <1>1, <1>2, <1>5, OnlyRequest
  <2>2. InHand(r, c)
    BY <1>1, <1>5, OnlyRequest
  <2>3. workers'[c] = Staff(c)
    <3>1. CASE updateCompany(r)
      BY <1>3, <1>5, <2>2, <3>1 DEF updateCompany, At, InHand
    <3>2. CASE updateWorkerList(r)
      BY <1>3, <1>5, <2>2, <3>2 DEF updateWorkerList, At, InHand
    <3> QED BY <3>1, <3>2
  <2>4. workers'[c] = Staff(c)'
    BY <1>1, <2>3 DEF Staff
  <2> QED BY <1>1, <2>1, <2>4, LostKept, Ends
<1> QED BY <1>4, <1>5

\* An edited worker stays in its company, and the others stay as they are.
LEMMA EditStaff ==
  ASSUME CInv, NEW c, Consistent(c), NEW w \in DOMAIN providers, NEW profile,
         providers' = Edit(providers, w, profile), hired' = Edit(hired, w, profile),
         records' = records
  PROVE  /\ DOMAIN providers' = DOMAIN providers /\ Staff(c)' = Staff(c)
         /\ \A v \in DOMAIN providers : v # w => providers'[v] = providers[v]
         /\ \A v \in DOMAIN hired' \ DOMAIN providers' :
              v \in DOMAIN hired \ DOMAIN providers /\ hired'[v] = hired[v]
         /\ \A v \in DOMAIN hired' \ DOMAIN providers' :
              hired'[v].companyData = c =>
                [worker |-> v, profile |-> hired'[v].profile] \in records'
<1>1. w \in DOMAIN hired /\ IsWorker(providers[w])
  BY DEF CInv, TypeOK
<1> DEFINE new == [providers[w] EXCEPT !.profile = profile]
           other == [hired[w] EXCEPT !.profile = profile]
<1>2. new.companyData = providers[w].companyData
  BY <1>1 DEF IsWorker
<1>3. providers' = Put(providers, w, new) /\ hired' = Put(hired, w, other)
  BY DEF Edit
<1> HIDE DEF new, other
<1>4. /\ DOMAIN providers' = DOMAIN providers /\ providers'[w] = new
      /\ \A v \in DOMAIN providers : v # w => providers'[v] = providers[v]
  BY <1>3 DEF Put
<1>5. /\ DOMAIN hired' = DOMAIN hired
      /\ \A v \in DOMAIN hired : v # w => hired'[v] = hired[v]
  BY <1>1, <1>3 DEF Put
<1>6. Staff(c)' = Staff(c)
  BY <1>2, <1>4 DEF Staff
<1>7. \A v \in DOMAIN hired' \ DOMAIN providers' :
        v \in DOMAIN hired \ DOMAIN providers /\ hired'[v] = hired[v]
  BY <1>4, <1>5
<1>8. \A v \in DOMAIN hired' \ DOMAIN providers' :
        hired'[v].companyData = c =>
          [worker |-> v, profile |-> hired'[v].profile] \in records'
  BY <1>7 DEF Consistent
<1> QED BY <1>4, <1>6, <1>7, <1>8

\* The edited worker is of another company.
LEMMA EditElsewhere ==
  ASSUME CInv, NEW c, Consistent(c), NEW w \in DOMAIN providers, NEW profile,
         providers' = Edit(providers, w, profile), hired' = Edit(hired, w, profile),
         UNCHANGED <<records, workers>>, providers[w].companyData # c
  PROVE  Untouched(c)
<1>1. /\ DOMAIN providers' = DOMAIN providers /\ Staff(c)' = Staff(c)
      /\ \A v \in DOMAIN providers : v # w => providers'[v] = providers[v]
      /\ \A v \in DOMAIN hired' \ DOMAIN providers' :
           v \in DOMAIN hired \ DOMAIN providers /\ hired'[v] = hired[v]
  BY EditStaff
<1>2. \A v \in Staff(c) : providers'[v].profile = providers[v].profile
  BY <1>1 DEF Staff
<1> QED BY <1>1, <1>2 DEF Untouched

\* A request that fails is of another company: c would be disturbed.
LEMMA FailConsistent ==
  ASSUME CInv, NEW c \in Companies, Consistent(c), c \notin disturbed',
         NEW r \in DOMAIN active, Fail(r), UNCHANGED <<providers, workers, records, hired>>
  PROVE  Consistent(c)'
<1>1. active[r].company # c
  BY DEF Fail
<1>2. DOMAIN active' = DOMAIN active \ {r} /\ \A q \in DOMAIN active' : active'[q] = active[q]
  BY DEF Fail, End, Remove
<1>3. Untouched(c)
  BY NothingStored
<1> QED BY <1>1, <1>2, <1>3, Elsewhere

LEMMA UpdateConsistent ==
  ASSUME CInv, NEW c \in Companies, Consistent(c), c \notin disturbed',
         NEW r, updateData(r)
  PROVE  Consistent(c)'
<1> DEFINE w == active[r].worker
<1>1. r \in DOMAIN active /\ active[r].step = "edit" /\ UNCHANGED <<workers, records>>
  BY DEF updateData, At
<1>2. CASE w \in DOMAIN providers
  <2>1. /\ providers' = Edit(providers, w, active[r].profile)
        /\ hired' = Edit(hired, w, active[r].profile) /\ End(r)
    BY <1>2 DEF updateData
  <2>2. DOMAIN active' = DOMAIN active \ {r} /\ \A q \in DOMAIN active' : active'[q] = active[q]
    BY <2>1 DEF End, Remove
  <2>3. providers[w].companyData = active[r].company
    BY <1>1, <1>2 DEF CInv, TypeOK, IsRequest
  <2> HIDE DEF w
  <2>4. CASE active[r].company # c
    <3>1. Untouched(c)
      BY <1>1, <1>2, <2>1, <2>3, <2>4, EditElsewhere
    <3> QED BY <1>1, <2>2, <2>4, <3>1, Elsewhere
  <2>5. CASE active[r].company = c
    <3>1. \A q \in DOMAIN active' : active'[q].company # c
      BY <1>1, <2>2, <2>5, OnlyRequest
    <3>2. workers[c] = Staff(c)
      BY <1>1, <2>5, OnlyRequest DEF InHand
    <3>3. /\ Staff(c)' = Staff(c)
          /\ \A v \in DOMAIN hired' \ DOMAIN providers' :
               hired'[v].companyData = c =>
                 [worker |-> v, profile |-> hired'[v].profile] \in records'
      BY <1>1, <1>2, <2>1, EditStaff
    <3> QED BY <1>1, <3>1, <3>2, <3>3, Ends
  <2> QED BY <2>4, <2>5
<1>3. CASE w \notin DOMAIN providers
  <2>1. Fail(r) /\ UNCHANGED <<providers, hired>>
    BY <1>3 DEF updateData
  <2> QED BY <1>1, <2>1, FailConsistent
<1> QED BY <1>2, <1>3

\* updateProfile: no request has the worker in hand, or its company is disturbed.
LEMMA ProfileConsistent ==
  ASSUME CInv, NEW c \in Companies, Consistent(c), c \notin disturbed',
         NEW w \in DOMAIN providers, NEW profile, updateProfile(w, profile)
  PROVE  Consistent(c)'
<1>1. /\ providers' = Edit(providers, w, profile) /\ hired' = Edit(hired, w, profile)
      /\ UNCHANGED <<workers, records, active>>
  BY DEF updateProfile
<1>2. CASE providers[w].companyData # c
  <2>1. Untouched(c)
    BY <1>1, <1>2, EditElsewhere
  <2> QED BY <1>1, <2>1, OtherCompany DEF SameRequest
<1>3. CASE providers[w].companyData = c
  <2>1. \A q \in DOMAIN active : active[q].worker # w
    BY <1>3 DEF updateProfile
  <2>2. /\ DOMAIN providers' = DOMAIN providers /\ Staff(c)' = Staff(c)
        /\ \A v \in DOMAIN providers : v # w => providers'[v] = providers[v]
        /\ \A v \in DOMAIN hired' \ DOMAIN providers' :
             hired'[v].companyData = c =>
               [worker |-> v, profile |-> hired'[v].profile] \in records'
    BY <1>1, EditStaff
  <2>3. ASSUME NEW q \in DOMAIN active, InHand(q, c) PROVE InHand(q, c)'
    BY <1>1, <2>1, <2>2, <2>3 DEF InHand
  <2> QED BY <1>1, <2>2, <2>3 DEF Consistent
<1> QED BY <1>2, <1>3

\* The record is written, with the profile that the worker has still.
LEMMA RecordConsistent ==
  ASSUME CInv, NEW c \in Companies, Consistent(c), NEW r, createRecord(r)
  PROVE  Consistent(c)'
<1> DEFINE record == [worker |-> active[r].worker, profile |-> active[r].profile]
<1>1. /\ r \in DOMAIN active /\ active[r].step = "record"
      /\ records' = records \cup {record} /\ Proceed(r, "delete")
      /\ UNCHANGED <<providers, workers, hired>>
  BY DEF createRecord, At
<1>2. /\ DOMAIN active' = DOMAIN active
      /\ \A q \in DOMAIN active : q # r => active'[q] = active[q]
      /\ active'[r].step = "delete" /\ active'[r].company = active[r].company
      /\ active'[r].worker = active[r].worker /\ active'[r].profile = active[r].profile
  BY <1>1, ProceedRequest
<1>3. CASE active[r].company # c
  <2>1. Untouched(c)
    BY <1>1 DEF Untouched, Staff
  <2> QED BY <1>1, <1>2, <1>3, <2>1, Elsewhere
<1>4. CASE active[r].company = c
  <2>1. \A q \in DOMAIN active' : active'[q].company = c => q = r
    BY <1>1, <1>2, <1>4, OnlyRequest
  <2>2. /\ workers[c] = Staff(c) /\ active[r].worker \in DOMAIN providers
        /\ active[r].profile = providers[active[r].worker].profile
    <3>1. InHand(r, c)
      BY <1>1, <1>4, OnlyRequest
    <3> QED BY <1>1, <3>1, SMTT(60) DEF InHand
  <2>3. workers'[c] = Staff(c)'
    BY <1>1, <2>2 DEF Staff
  <2>4. InHand(r, c)'
    BY <1>1, <1>2, <2>2, <2>3 DEF InHand
  <2> QED BY <1>1, <1>2, <1>4, <2>1, <2>4, LostKept, GoesOn
<1> QED BY <1>3, <1>4

\* The document is deleted: its record has the worker's last profile.
LEMMA DeleteConsistent ==
  ASSUME CInv, NEW c \in Companies, Consistent(c), NEW r, deleteData(r)
  PROVE  Consistent(c)'
<1> DEFINE w == active[r].worker
<1>1. /\ r \in DOMAIN active /\ active[r].step = "delete"
      /\ providers' = Remove(providers, w) /\ Proceed(r, "pull")
      /\ UNCHANGED <<workers, records, hired>>
  BY DEF deleteData, At
<1>2. /\ DOMAIN active' = DOMAIN active
      /\ \A q \in DOMAIN active : q # r => active'[q] = active[q]
      /\ active'[r].step = "pull" /\ active'[r].company = active[r].company
      /\ active'[r].worker = w
  BY <1>1, ProceedRequest
<1>3. hired[w].companyData = active[r].company
  BY <1>1 DEF CInv, TypeOK, IsRequest
<1>4. /\ DOMAIN providers' = DOMAIN providers \ {w}
      /\ \A v \in DOMAIN providers' : providers'[v] = providers[v]
  BY <1>1 DEF Remove
<1>5. CASE active[r].company # c
  <2>1. w \notin Staff(c)
    BY <1>3, <1>5 DEF Staff, CInv, TypeOK
  <2> HIDE DEF w
  <2>2. Staff(c)' = Staff(c)
    BY <1>4, <2>1 DEF Staff
  <2>3. \A v \in Staff(c) : providers'[v].profile = providers[v].profile
    BY <1>4, <2>1 DEF Staff
  <2>4. \A v \in DOMAIN hired' \ DOMAIN providers' :
          hired'[v].companyData = c => v \in DOMAIN hired \ DOMAIN providers
    BY <1>1, <1>3, <1>4, <1>5
  <2>5. Untouched(c)
    BY <1>1, <2>2, <2>3, <2>4 DEF Untouched
  <2> QED BY <1>1, <1>2, <1>5, <2>5, Elsewhere
<1>6. CASE active[r].company = c
  <2>1. \A q \in DOMAIN active' : active'[q].company = c => q = r
    BY <1>1, <1>2, <1>6, OnlyRequest, SMTT(60)
  <2>2. /\ workers[c] = Staff(c) /\ w \in DOMAIN providers
        /\ active[r].profile = providers[w].profile
        /\ [worker |-> w, profile |-> active[r].profile] \in records
    BY <1>1, <1>6, OnlyRequest, SMTT(60) DEF InHand
  <2>3. [worker |-> w, profile |-> hired[w].profile] \in records
    BY <2>2 DEF CInv, TypeOK
  <2> HIDE DEF w
  <2>4. Staff(c)' = workers'[c] \ {w}
    BY <1>1, <1>4, <2>2 DEF Staff
  <2>5. InHand(r, c)'
    BY <1>2, <2>4 DEF InHand
  <2>6. \A v \in DOMAIN hired' \ DOMAIN providers' :
          hired'[v].companyData = c =>
            [worker |-> v, profile |-> hired'[v].profile] \in records'
    BY <1>1, <1>4, <2>3 DEF Consistent
  <2> QED BY <1>1, <1>2, <1>6, <2>1, <2>5, <2>6, GoesOn
<1> QED BY <1>5, <1>6

\* A company that a step has not disturbed was not disturbed before it.
LEMMA DisturbedStays == [Next]_vars => disturbed \subseteq disturbed'
<1> SUFFICES ASSUME [Next]_vars PROVE disturbed \subseteq disturbed'
  OBVIOUS
<1>1. CASE UNCHANGED vars
  BY <1>1 DEF vars
<1>2. ASSUME NEW r, NEW request, Begin(r, request) PROVE disturbed \subseteq disturbed'
  BY <1>2 DEF Begin
<1>3. ASSUME NEW r, Fail(r) \/ disturbed' = disturbed PROVE disturbed \subseteq disturbed'
  BY <1>3 DEF Fail
<1>4. ASSUME NEW r, Step(r) PROVE disturbed \subseteq disturbed'
  <2>1. Fail(r) \/ disturbed' = disturbed
    BY <1>4 DEF Step, countPhone, createDataWithoutToken, updateCompany, updateData,
                createRecord, deleteData, updateWorkerList, serverError
  <2> QED BY <1>3, <2>1
<1>5. ASSUME NEW r, NEW c, NEW phone, addWorker(r, c, phone)
      PROVE  disturbed \subseteq disturbed'
  BY <1>2, <1>5 DEF addWorker
<1>6. ASSUME NEW r, NEW c, NEW w,
             (\E profile \in Profiles : editWorker(r, c, w, profile)) \/ delateWorker(r, c, w)
      PROVE  disturbed \subseteq disturbed'
  BY <1>2, <1>6 DEF editWorker, delateWorker
<1>7. ASSUME NEW w, NEW profile, updateProfile(w, profile) PROVE disturbed \subseteq disturbed'
  BY <1>7 DEF updateProfile
<1> QED BY <1>1, <1>4, <1>5, <1>6, <1>7 DEF Next

LEMMA NextLInv == CInv /\ LInv /\ [Next]_vars => LInv'
<1> SUFFICES ASSUME CInv, LInv, [Next]_vars, NEW c \in Companies, c \notin disturbed'
             PROVE  Consistent(c)'
  BY DEF LInv
<1>1. Consistent(c)
  BY DisturbedStays DEF LInv
<1>2. CASE UNCHANGED vars
  BY <1>1, <1>2, NothingStored, OtherCompany DEF vars, SameRequest
<1>3. ASSUME NEW r \in Requests, NEW d \in Companies, NEW phone \in Phones,
             addWorker(r, d, phone)
      PROVE  Consistent(c)'
  <2>1. PICK request : /\ IsRequest(request) /\ Begin(r, request)
                       /\ request.step = "count" /\ request.company = d
                       /\ request.workerArr = workers[d]
    BY <1>3, AddBegins
  <2>2. UNCHANGED <<providers, workers, records, hired>>
    BY <1>3 DEF addWorker
  <2> QED BY <1>1, <2>1, <2>2, BeginConsistent
<1>4. ASSUME NEW r \in Requests, NEW d \in Companies, NEW w \in DOMAIN providers,
             \/ \E profile \in Profiles : editWorker(r, d, w, profile)
             \/ delateWorker(r, d, w)
      PROVE  Consistent(c)'
  <2>1. PICK request : /\ IsRequest(request) /\ Begin(r, request)
                       /\ request.step \in {"edit", "record"}
                       /\ request.company = d /\ request.worker = w
                       /\ request.step = "record" => request.profile = providers[w].profile
    BY <1>4, WorkerBegins, SMTT(60)
  <2>2. UNCHANGED <<providers, workers, records, hired>>
    BY <1>4 DEF editWorker, delateWorker
  <2> QED BY <1>1, <2>1, <2>2, BeginConsistent
<1>5. ASSUME NEW r \in Requests, Step(r) PROVE Consistent(c)'
  <2>1. CASE countPhone(r)
    BY <1>1, <2>1, CountConsistent
  <2>2. ASSUME NEW w \in Ids, createDataWithoutToken(r, w) PROVE Consistent(c)'
    BY <1>1, <2>2, CreateConsistent
  <2>3. CASE updateCompany(r) \/ updateWorkerList(r)
    BY <1>1, <2>3, ListConsistent
  <2>4. CASE updateData(r)
    BY <1>1, <2>4, UpdateConsistent
  <2>5. CASE createRecord(r)
    BY <1>1, <2>5, RecordConsistent, SMTT(60)
  <2>6. CASE deleteData(r)
    BY <1>1, <2>6, DeleteConsistent, SMTT(60)
  <2>7. CASE serverError(r)
    BY <1>1, <2>7, FailConsistent DEF serverError
  <2> QED BY <1>5, <2>1, <2>2, <2>3, <2>4, <2>5, <2>6, <2>7 DEF Step
<1>6. ASSUME NEW w \in DOMAIN providers, NEW profile \in Profiles, updateProfile(w, profile)
      PROVE  Consistent(c)'
  BY <1>1, <1>6, ProfileConsistent
<1> QED BY <1>2, <1>3, <1>4, <1>5, <1>6 DEF Next

\* When no request of a company is in progress, its list has exactly its
\* workers and every worker it has lost has a record with the last profile, if
\* no request of the company has overlapped with another or failed: for any
\* number of companies, workers and requests.
THEOREM ListsMatch == Spec => []ListMatches
<1>1. Init => LInv
  BY DEF Init, LInv, Consistent, Staff
<1>2. CInv /\ LInv /\ [Next]_vars => LInv'
  BY NextLInv, SMTT(60)
<1>3. LInv => ListMatches
  BY DEF LInv, Consistent, ListMatches, Staff
<1> QED BY <1>1, <1>2, <1>3, CompanyInductive, PTL DEF Spec
=============================================================================
