------------------------------ MODULE Catalog -------------------------------
(***************************************************************************)
(* The services that providers offer: addServicesbyCompany,                *)
(* addServicesbyCompanyToWorker, addeditServices and                       *)
(* deteleCompanyServicesByID of providerController.js, and their twins in  *)
(* individualController.js.                                                *)
(*                                                                         *)
(* An offer is stored in two collections: a service once for its provider, *)
(* and each of its sub-services with a price.  Queries and inserts are     *)
(* awaits of their own; addServicesbyCompanyToWorker even starts one task  *)
(* for each item of its list and one for each document it copies.  Tasks   *)
(* are requests, or the items of a request to copy.                        *)
(***************************************************************************)
EXTENDS Integers, FiniteSetsExt

CONSTANTS
  Companies, Individuals, Workers,
  Services, Subs,  \* _ids of services and of sub-services
  Prices,
  Tasks,
  MaxServices,     \* bound: documents ever created in services
  MaxSubs,         \* bound: documents ever created in subs
  Null

ASSUME CatalogAssumption ==
  /\ MaxServices \in Nat /\ MaxSubs \in Nat
  /\ Null \notin Services
  /\ Workers \cap (Companies \cup Individuals) = {}

VARIABLES
  services,  \* dqw_provider_services, by _id, numbers in creation order
  subs,      \* dqw_provider_sub_services, likewise
  active,    \* the tasks in progress, each with the step it awaits next
  created,   \* the number of documents ever created in each collection
  offered    \* history: what companies have offered: <<service, sub, price>>

vars == <<services, subs, active, created, offered>>

Put(map, key, value) ==
  [k \in DOMAIN map \cup {key} |-> IF k = key THEN value ELSE map[k]]

Remove(map, key) == [k \in DOMAIN map \ {key} |-> map[k]]

Init ==
  /\ services = [d \in {} |-> Null]
  /\ subs = [d \in {} |-> Null]
  /\ active = [t \in {} |-> Null]
  /\ created = [services |-> 0, subs |-> 0]
  /\ offered = {}

At(t, step) == t \in DOMAIN active /\ active[t].step = step

\* A task that has just begun: body is what the request asks for.
Task(step, owner, service, sub, price) ==
  [step |-> step, owner |-> owner, serviceData |-> service,
   subServices |-> sub, price |-> price, list |-> Null, count |-> Null,
   overlap |-> FALSE]

\* The tasks of one request begin.  history: tasks that are in progress
\* together are marked as overlapping.
Begin(ts, task) ==
  LET now == DOMAIN active \cup ts IN
  /\ ts \cap DOMAIN active = {}
  /\ active' = [t \in now |->
                  [(IF t \in ts THEN task ELSE active[t]) EXCEPT
                     !.overlap = @ \/ now # {t}]]

Proceed(t, step) ==
  active' = Put(active, t, [active[t] EXCEPT !.step = step])

End(t) == active' = Remove(active, t)

\* The documents that a query with these conditions finds.
ServicesOf(owner, service) ==
  {d \in DOMAIN services :
     services[d].owner = owner /\ services[d].serviceData = service}

SubsOf(owner, service, sub) ==
  {d \in DOMAIN subs : /\ subs[d].owner = owner
                       /\ subs[d].serviceData = service
                       /\ subs[d].subServices = sub}

\* addServices and addSubservices: create a document.
addServices(t, service) ==
  /\ created.services < MaxServices
  /\ created' = [created EXCEPT !.services = @ + 1]
  /\ services' = Put(services, created'.services,
                     [owner |-> active[t].owner, serviceData |-> service,
                      overlap |-> active[t].overlap])

addSubservices(t, sub, price) ==
  /\ created.subs < MaxSubs
  /\ created' = [created EXCEPT !.subs = @ + 1]
  /\ subs' = Put(subs, created'.subs,
                 [owner |-> active[t].owner,
                  serviceData |-> active[t].serviceData, subServices |-> sub,
                  price |-> price, overlap |-> active[t].overlap])

\* history
Offer(t) ==
  offered' = IF active[t].owner \in Companies
             THEN offered \cup {<<active[t].serviceData, active[t].subServices,
                                  active[t].price>>}
             ELSE offered

-----------------------------------------------------------------------------
\* Mutation: the sub-service is created first.
addServicesby_SubFirst(t, owner, service, sub, price) ==
  /\ Begin({t}, Task(IF ServicesOf(owner, service) = {} THEN "addSub"
                     ELSE "findOne", owner, service, sub, price))
  /\ UNCHANGED <<services, subs, created, offered>>

\* addServicesbyCompany, addServicesbyIndividual: is the service there?
addServicesby(t, owner, service, sub, price) ==
  /\ Begin({t}, Task(IF ServicesOf(owner, service) = {} THEN "addService"
                     ELSE "findOne", owner, service, sub, price))
  /\ UNCHANGED <<services, subs, created, offered>>

addService(t) ==
  /\ At(t, "addService")
  /\ addServices(t, active[t].serviceData)
  /\ Proceed(t, "addSub")
  /\ UNCHANGED <<subs, offered>>

\* Mutation: the sub-service is not looked for.
findOneSubservices_Skipped(t) ==
  /\ At(t, "findOne")
  /\ Proceed(t, "addSub")
  /\ UNCHANGED <<services, subs, created, offered>>

findOneSubservices(t) ==
  /\ At(t, "findOne")
  /\ LET found == SubsOf(active[t].owner, active[t].serviceData,
                         active[t].subServices)
     IN  Proceed(t, IF found = {} THEN "addSub" ELSE "updateSub")
  /\ UNCHANGED <<services, subs, created, offered>>

addSub(t) ==
  /\ At(t, "addSub")
  /\ addSubservices(t, active[t].subServices, active[t].price)
  /\ Offer(t)
  /\ End(t)
  /\ UNCHANGED services

\* The first document found; none, if it was deleted meanwhile.
updateSubSrvices(t) ==
  /\ At(t, "updateSub")
  /\ LET found == SubsOf(active[t].owner, active[t].serviceData,
                         active[t].subServices)
     IN  subs' = IF found = {} THEN subs
                 ELSE Put(subs, Min(found),
                          [subs[Min(found)] EXCEPT !.price = active[t].price])
  /\ Offer(t)
  /\ End(t)
  /\ UNCHANGED <<services, created>>

\* deteleCompanyServicesByID, deteleIndividualServicesByID: by _id.
deleteIndividualServices(d) ==
  /\ d \in DOMAIN subs
  /\ subs' = Remove(subs, d)
  /\ active' = [t \in DOMAIN active |-> [active[t] EXCEPT !.overlap = TRUE]]
  /\ UNCHANGED <<services, created, offered>>

-----------------------------------------------------------------------------
\* addServicesbyCompanyToWorker: a task for each item of the list.
addServicesbyCompanyToWorker(ts, w) ==
  /\ ts # {}
  /\ Begin(ts, Task("findAny", w, Null, Null, Null))
  /\ UNCHANGED <<services, subs, created, offered>>

\* The query has no `condition`: it finds the first of all documents, whatever
\* the item.  Without any, the task fails.
findAny(t) ==
  /\ At(t, "findAny")
  /\ IF subs = << >>
     THEN End(t)
     ELSE active' = Put(active, t,
                        [active[t] EXCEPT !.step = "queries",
                           !.serviceData = subs[Min(DOMAIN subs)].serviceData])
  /\ UNCHANGED <<services, subs, created, offered>>

\* Mutation: the sub-services of individuals are copied, too.
getIndividualServicesList_AnyType(t) ==
  /\ At(t, "queries") /\ active[t].list = Null
  /\ LET found == {d \in DOMAIN subs :
                     /\ subs[d].owner \notin Workers
                     /\ subs[d].serviceData = active[t].serviceData}
     IN  active' = Put(active, t, [active[t] EXCEPT !.list =
                         [d \in found |-> <<subs[d].subServices, subs[d].price>>]])
  /\ UNCHANGED <<services, subs, created, offered>>

\* What companies, not only this one, offer of the service.
getIndividualServicesList(t) ==
  /\ At(t, "queries") /\ active[t].list = Null
  /\ LET found == {d \in DOMAIN subs :
                     /\ subs[d].owner \in Companies
                     /\ subs[d].serviceData = active[t].serviceData}
     IN  active' = Put(active, t, [active[t] EXCEPT !.list =
                         [d \in found |-> <<subs[d].subServices, subs[d].price>>]])
  /\ UNCHANGED <<services, subs, created, offered>>

\* The worker's documents of the service, counted in parallel to the list.
getServicesFromProvider(t) ==
  /\ At(t, "queries") /\ active[t].count = Null
  /\ active' = Put(active, t, [active[t] EXCEPT !.count =
                     IF ServicesOf(active[t].owner, active[t].serviceData) = {}
                     THEN "none" ELSE "some"])
  /\ UNCHANGED <<services, subs, created, offered>>

\* Both queries are answered.
allQueries(t) ==
  /\ At(t, "queries") /\ active[t].list # Null /\ active[t].count # Null
  /\ IF active[t].count = "some"
     THEN End(t) /\ UNCHANGED <<services, created>>
     ELSE /\ addServices(t, active[t].serviceData)
          /\ Proceed(t, "copy")
  /\ UNCHANGED <<subs, offered>>

\* A copy may have failed already.
Copying(t) == At(t, "copy") \/ At(t, "copyRest")

\* The documents of the list are copied in any order.
copySub(t, d) ==
  /\ Copying(t) /\ d \in DOMAIN active[t].list
  /\ addSubservices(t, active[t].list[d][1], active[t].list[d][2])
  /\ active' = Put(active, t, [active[t] EXCEPT !.list = Remove(@, d)])
  /\ UNCHANGED <<services, offered>>

\* A copy fails: the request is answered with an error, the others go on.
copyError(t, d) ==
  /\ Copying(t) /\ d \in DOMAIN active[t].list
  /\ active' = Put(active, t, [active[t] EXCEPT !.step = "copyRest",
                                               !.list = Remove(@, d)])
  /\ UNCHANGED <<services, subs, created, offered>>

\* Mutation: the copies are not awaited.
copied_NotAwaited(t) ==
  /\ Copying(t)
  /\ End(t)
  /\ UNCHANGED <<services, subs, created, offered>>

copied(t) ==
  /\ Copying(t) /\ active[t].list = << >>
  /\ End(t)
  /\ UNCHANGED <<services, subs, created, offered>>

-----------------------------------------------------------------------------
\* addeditServices: a service document, unless the search finds one.  For a
\* worker the search is for the worker and the company that asks: each company
\* may store one, and the documents of a copy, which name no company, are not
\* found.  The schema has no `services`: the document names none.  (Then
\* populate fails on the missing paths.)
WorkersOfCompanies == Workers \X Companies

addeditServices(t, owner) ==
  /\ \A d \in DOMAIN services : services[d].owner # owner
  /\ Begin({t}, Task("addServicesToProvider", owner, Null, Null, Null))
  /\ UNCHANGED <<services, subs, created, offered>>

addServicesToProvider(t) ==
  /\ At(t, "addServicesToProvider")
  /\ addServices(t, Null)
  /\ End(t)
  /\ UNCHANGED <<subs, offered>>

\* A database access fails, and with it the task; the others go on.
serverError(t) ==
  /\ t \in DOMAIN active /\ ~Copying(t)
  /\ End(t)
  /\ UNCHANGED <<services, subs, created, offered>>

Step(t) ==
  \/ addService(t) \/ findOneSubservices(t) \/ addSub(t) \/ updateSubSrvices(t)
  \/ findAny(t) \/ getIndividualServicesList(t) \/ getServicesFromProvider(t)
  \/ allQueries(t) \/ (\E d \in 1 .. MaxSubs : copySub(t, d) \/ copyError(t, d))
  \/ copied(t)
  \/ addServicesToProvider(t)
  \/ serverError(t)

Next ==
  \/ \E t \in Tasks :
       \/ Step(t)
       \/ \E owner \in Companies \cup Individuals, service \in Services,
             sub \in Subs, price \in Prices :
            addServicesby(t, owner, service, sub, price)
       \/ \E owner \in Companies \cup Individuals \cup WorkersOfCompanies :
            addeditServices(t, owner)
  \/ \E ts \in SUBSET Tasks, w \in Workers : addServicesbyCompanyToWorker(ts, w)
  \/ \E d \in DOMAIN subs : deleteIndividualServices(d)

Spec == Init /\ [][Next]_vars

-----------------------------------------------------------------------------
(* Properties *)

Owners == Companies \cup Individuals \cup Workers \cup WorkersOfCompanies

Steps == {"addService", "findOne", "addSub", "updateSub", "findAny", "queries",
          "copy", "copyRest", "addServicesToProvider"}

\* Documents and tasks have their types.
TypeOK ==
  /\ created \in [services : 0 .. MaxServices, subs : 0 .. MaxSubs]
  /\ DOMAIN services = 1 .. created.services
  /\ DOMAIN subs \subseteq 1 .. created.subs
  /\ \A d \in DOMAIN services :
       services[d] \in [owner : Owners, serviceData : Services \cup {Null},
                        overlap : BOOLEAN]
  /\ \A d \in DOMAIN subs :
       subs[d] \in [owner : Owners, serviceData : Services, subServices : Subs,
                    price : Prices, overlap : BOOLEAN]
  /\ DOMAIN active \subseteq Tasks
  /\ \A t \in DOMAIN active :
       active[t].step \in Steps /\ active[t].owner \in Owners
  /\ offered \subseteq Services \X Subs \X Prices

\* Every sub-service belongs to a service that its provider has: the service
\* is created before its first sub-service, so no failure, deletion or
\* overlapping request leaves a sub-service that no list of services leads to.
SubHasService ==
  \A d \in DOMAIN subs : ServicesOf(subs[d].owner, subs[d].serviceData) # {}

\* What a worker offers, some company offered at the same price.
WorkerOffersOffered ==
  \A d \in DOMAIN subs :
    subs[d].owner \in Workers =>
      <<subs[d].serviceData, subs[d].subServices, subs[d].price>> \in offered

\* A provider, or a worker of a company, has one document for a service and one
\* for a sub-service, unless the task that created the later one has overlapped
\* with another.  (What is copied to a worker may repeat, if two companies offer
\* it.)
NoDuplicates ==
  /\ \A d, e \in DOMAIN services :
       /\ services[d].owner = services[e].owner
       /\ services[d].serviceData = services[e].serviceData
       /\ d < e
       => services[e].overlap
  /\ \A d, e \in DOMAIN subs :
       /\ subs[d].owner = subs[e].owner /\ subs[e].owner \notin Workers
       /\ subs[d].serviceData = subs[e].serviceData
       /\ subs[d].subServices = subs[e].subServices
       /\ d < e
       => subs[e].overlap

\* A provider's request that overlaps with nothing leaves its sub-service
\* stored at the price that it asked for.
PriceStored ==
  [][\A t \in DOMAIN active :
       (addSub(t) \/ updateSubSrvices(t)) /\ ~active[t].overlap =>
         \E d \in DOMAIN subs' :
           /\ subs'[d].owner = active[t].owner
           /\ subs'[d].serviceData = active[t].serviceData
           /\ subs'[d].subServices = active[t].subServices
           /\ subs'[d].price = active[t].price]_vars

\* A worker whose request to copy succeeds and overlaps with nothing offers
\* exactly what companies offer of the service.
CopyComplete ==
  [][\A t \in DOMAIN active :
       copied(t) /\ active[t].step = "copy" /\ ~active[t].overlap =>
         LET offers(set) ==
               {<<subs[d].subServices, subs[d].price>> :
                  d \in {e \in DOMAIN subs : /\ subs[e].owner \in set
                                             /\ subs[e].serviceData
                                                  = active[t].serviceData}}
         IN  offers({active[t].owner}) = offers(Companies)]_vars
=============================================================================
