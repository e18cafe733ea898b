--------------------------- MODULE CatalogProofs ----------------------------
(***************************************************************************)
(* What holds of the offers for any number of providers, services and      *)
(* tasks.  The invariants are not inductive as they stand: they rest on    *)
(* what the tasks in progress still carry, and that stays true because the *)
(* services, and the offers that were ever made, only grow.                *)
(***************************************************************************)
EXTENDS Catalog, WellFoundedInduction, TLAPS

\* A leaf is left to Zenon unless it names SMTT (or PTL).
USE ZenonT(60)

\* The collection svc has the service of the provider.
HasService(svc, owner, service) ==
  \E d \in DOMAIN svc : svc[d].owner = owner /\ svc[d].serviceData = service

\* Every entry of a list to copy was offered by a company.
Listed(list, service, off) ==
  \A d \in DOMAIN list : <<service, list[d][1], list[d][2]>> \in off

\* A stored sub-service.
SubInv(doc, svc, off) ==
  /\ DOMAIN doc = {"owner", "serviceData", "subServices", "price", "overlap"}
  /\ HasService(svc, doc.owner, doc.serviceData)
  /\ doc.owner \in Companies \cup Workers =>
       <<doc.serviceData, doc.subServices, doc.price>> \in off

\* A task in progress: once it is about to store a sub-service, the service
\* is there, and what it is to copy was offered.
TaskInv(task, svc, off) ==
  /\ DOMAIN task = {"step", "owner", "serviceData", "subServices", "price",
                    "list", "count", "overlap"}
  /\ task.step \in {"addService", "findOne", "addSub", "updateSub"} =>
       task.owner \in Companies \cup Individuals
  /\ task.step \in {"findOne", "addSub", "copy", "copyRest"} =>
       HasService(svc, task.owner, task.serviceData)
  /\ task.step = "findAny" => task.list = Null
  /\ task.step = "queries" => task.list = Null \/ Listed(task.list, task.serviceData, off)
  /\ task.step \in {"copy", "copyRest"} => Listed(task.list, task.serviceData, off)

KInv ==
  /\ created \in [services : Nat, subs : Nat]
  /\ DOMAIN services = 1 .. created.services
  /\ DOMAIN subs \subseteq Nat
  /\ \A d \in DOMAIN subs : SubInv(subs[d], services, offered)
  /\ \A t \in DOMAIN active : TaskInv(active[t], services, offered)

-----------------------------------------------------------------------------
\* Nothing is stored, nothing in progress.
LEMMA InitKInv == Init => KInv
BY SMTT(60) DEF Init, KInv

\* svc2 has the documents of svc, unchanged.
Grown(svc, svc2) ==
  /\ DOMAIN svc \subseteq DOMAIN svc2
  /\ \A d \in DOMAIN svc : svc2[d] = svc[d]

\* Sub-services and tasks stay as they should when services and offers grow.
LEMMA SubGrows ==
  ASSUME NEW svc, NEW svc2, NEW off, NEW off2, Grown(svc, svc2),
         off \subseteq off2, NEW doc, SubInv(doc, svc, off)
  PROVE  SubInv(doc, svc2, off2)
BY DEF Grown, SubInv, HasService

LEMMA TaskGrows ==
  ASSUME NEW svc, NEW svc2, NEW off, NEW off2, Grown(svc, svc2),
         off \subseteq off2, NEW task, TaskInv(task, svc, off)
  PROVE  TaskInv(task, svc2, off2)
BY DEF Grown, TaskInv, HasService, Listed

\* A step that keeps the sub-services, or stores a good one, and rewrites or
\* ends one task, keeps the invariant.
LEMMA StepKInv ==
  ASSUME KInv, NEW t \in DOMAIN active,
         created' \in [services : Nat, subs : Nat],
         DOMAIN services' = 1 .. created'.services,
         Grown(services, services'), offered \subseteq offered',
         DOMAIN subs' \subseteq Nat,
         \A d \in DOMAIN subs' :
           (d \in DOMAIN subs /\ subs'[d] = subs[d])
             \/ SubInv(subs'[d], services', offered'),
         \/ End(t)
         \/ \E new : /\ active' = Put(active, t, new)
                     /\ TaskInv(new, services', offered')
  PROVE  KInv'
<1>1. \A d \in DOMAIN subs' : SubInv(subs'[d], services', offered')
  <2> TAKE d \in DOMAIN subs'
  <2>1. CASE d \in DOMAIN subs /\ subs'[d] = subs[d]
    <3>1. SubInv(subs[d], services, offered)
      BY <2>1 DEF KInv
    <3> QED
      BY <2>1, <3>1, SubGrows
  <2> QED
    BY <2>1
<1>2. \A q \in DOMAIN active : TaskInv(active[q], services', offered')
  BY TaskGrows DEF KInv
<1>3. \A q \in DOMAIN active' : TaskInv(active'[q], services', offered')
  <2>1. CASE End(t)
    BY <1>2, <2>1 DEF End, Remove
  <2>2. CASE \E new : /\ active' = Put(active, t, new)
                      /\ TaskInv(new, services', offered')
    <3>1. PICK new : /\ active' = Put(active, t, new)
                     /\ TaskInv(new, services', offered')
      BY <2>2
    <3> QED
      BY <1>2, <3>1 DEF Put
  <2> QED
    BY <2>1, <2>2
<1> QED
  BY <1>1, <1>3 DEF KInv

\* Tasks begin: the new ones are as they should, the others are only marked.
LEMMA BeginKInv ==
  ASSUME KInv, NEW ts, NEW task, TaskInv(task, services, offered),
         Begin(ts, task), UNCHANGED <<services, subs, created, offered>>
  PROVE  KInv'
<1>1. DOMAIN active' = DOMAIN active \cup ts
  BY DEF Begin
<1>2. ASSUME NEW t \in DOMAIN active', NEW old,
             old = (IF t \in ts THEN task ELSE active[t])
      PROVE  TaskInv(active'[t], services, offered)
  <2>1. TaskInv(old, services, offered)
    BY <1>1, <1>2 DEF KInv
  <2>2. /\ DOMAIN active'[t] = DOMAIN old
        /\ \A f \in DOMAIN old : f # "overlap" => active'[t][f] = old[f]
    BY <1>1, <1>2 DEF Begin
  <2>3. /\ active'[t].step = old.step /\ active'[t].owner = old.owner
        /\ active'[t].serviceData = old.serviceData
        /\ active'[t].list = old.list
    BY <2>1, <2>2 DEF TaskInv
  <2> QED
    BY <2>1, <2>2, <2>3 DEF TaskInv
<1>3. \A t \in DOMAIN active' : TaskInv(active'[t], services, offered)
  BY <1>2
<1> QED
  BY <1>3 DEF KInv

\* The first of some documents is one of them.
LEMMA HasMin ==
  ASSUME NEW found, found \subseteq Nat, found # {}
  PROVE  Min(found) \in found
<1> DEFINE R == OpToRel(<, Nat)
<1>1. IsWellFoundedOn(R, Nat)
  BY NatLessThanWellFounded
<1>2. \A x, y \in Nat : <<y, x>> \notin R => x <= y
  BY SMTT(60) DEF OpToRel
<1> HIDE DEF R
<1>3. PICK x \in found : \A y \in found : ~ (<<y, x>> \in R)
  BY <1>1, WFMin
<1>4. \A y \in found : x <= y
  BY <1>2, <1>3
<1> QED
  BY <1>4 DEF Min

-----------------------------------------------------------------------------
\* What a task's new document and a rewritten task look like.

\* A new service: the others stay, and the task's provider has it.
LEMMA NewService ==
  ASSUME KInv, NEW t \in DOMAIN active, NEW service, addServices(t, service)
  PROVE  /\ created' \in [services : Nat, subs : Nat]
         /\ DOMAIN services' = 1 .. created'.services
         /\ Grown(services, services')
         /\ HasService(services', active[t].owner, service)
<1> DEFINE n == created.services + 1
           new == [owner |-> active[t].owner, serviceData |-> service,
                   overlap |-> active[t].overlap]
<1>1. /\ created' \in [services : Nat, subs : Nat]
      /\ created'.services = n /\ n \in Nat /\ n \notin 1 .. created.services
      /\ 1 .. n = (1 .. created.services) \cup {n}
  BY SMTT(60) DEF KInv, addServices
<1>2. services' = Put(services, n, new)
  BY <1>1 DEF addServices
<1>3. new.owner = active[t].owner /\ new.serviceData = service
  OBVIOUS
<1> HIDE DEF n, new
<1>4. /\ DOMAIN services' = DOMAIN services \cup {n}
      /\ services'[n] = new
      /\ \A d \in DOMAIN services : d # n => services'[d] = services[d]
  BY <1>2 DEF Put
<1>5. Grown(services, services')
  BY <1>1, <1>4 DEF Grown, KInv
<1> QED
  BY <1>1, <1>3, <1>4, <1>5 DEF KInv, HasService

\* A new sub-service of a service that is there, offered if it must be.
LEMMA NewSub ==
  ASSUME KInv, NEW t \in DOMAIN active, NEW sub, NEW price,
         addSubservices(t, sub, price), UNCHANGED services,
         HasService(services, active[t].owner, active[t].serviceData),
         active[t].owner \in Companies \cup Workers =>
           <<active[t].serviceData, sub, price>> \in offered'
  PROVE  /\ created' \in [services : Nat, subs : Nat]
         /\ DOMAIN services' = 1 .. created'.services
         /\ DOMAIN subs' \subseteq Nat
         /\ \A d \in DOMAIN subs' :
              (d \in DOMAIN subs /\ subs'[d] = subs[d])
                \/ SubInv(subs'[d], services', offered')
<1> DEFINE n == created.subs + 1
           new == [owner |-> active[t].owner,
                   serviceData |-> active[t].serviceData, subServices |-> sub,
                   price |-> price, overlap |-> active[t].overlap]
<1>1. /\ created' \in [services : Nat, subs : Nat]
      /\ created'.services = created.services /\ created'.subs = n
      /\ n \in Nat
  BY SMTT(60) DEF KInv, addSubservices
<1>2. subs' = Put(subs, n, new)
  BY <1>1 DEF addSubservices
<1>3. SubInv(new, services', offered')
  BY DEF SubInv
<1> HIDE DEF n, new
<1>4. /\ DOMAIN subs' = DOMAIN subs \cup {n}
      /\ \A d \in DOMAIN subs' :
           (d \in DOMAIN subs /\ subs'[d] = subs[d]) \/ subs'[d] = new
  BY <1>2 DEF Put
<1> QED
  BY <1>1, <1>3, <1>4 DEF KInv

\* A task that goes on to another step.
LEMMA Proceeds ==
  ASSUME NEW t \in DOMAIN active, NEW step, NEW svc, NEW off,
         TaskInv(active[t], svc, off), Proceed(t, step)
  PROVE  \E new : /\ active' = Put(active, t, new)
                  /\ DOMAIN new = DOMAIN active[t]
                  /\ new.step = step /\ new.owner = active[t].owner
                  /\ new.serviceData = active[t].serviceData
                  /\ new.list = active[t].list
<1> DEFINE new == [active[t] EXCEPT !.step = step]
<1>1. /\ active' = Put(active, t, new)
      /\ DOMAIN new = DOMAIN active[t]
      /\ new.step = step /\ new.owner = active[t].owner
      /\ new.serviceData = active[t].serviceData
      /\ new.list = active[t].list
  BY DEF Proceed, TaskInv
<1> HIDE DEF new
<1> QED
  BY <1>1

\* A step that only rewrites or ends one task.
LEMMA TaskStepKInv ==
  ASSUME KInv, NEW t \in DOMAIN active,
         UNCHANGED <<services, subs, created, offered>>,
         \/ End(t)
         \/ \E new : /\ active' = Put(active, t, new)
                     /\ TaskInv(new, services, offered)
  PROVE  KInv'
<1>1. Grown(services, services')
  BY DEF Grown
<1>2. /\ created' \in [services : Nat, subs : Nat]
      /\ DOMAIN services' = 1 .. created'.services
      /\ DOMAIN subs' \subseteq Nat
      /\ \A d \in DOMAIN subs' : d \in DOMAIN subs /\ subs'[d] = subs[d]
  BY DEF KInv
<1> QED
  BY <1>1, <1>2, StepKInv

\* The offers that were made stay made.
LEMMA Offers ==
  ASSUME NEW t, Offer(t)
  PROVE  /\ offered \subseteq offered'
         /\ active[t].owner \in Companies =>
              <<active[t].serviceData, active[t].subServices, active[t].price>>
                \in offered'
BY DEF Offer

LEMMA addServiceKInv ==
  ASSUME KInv, NEW t, addService(t)
  PROVE  KInv'
<1>1. t \in DOMAIN active /\ active[t].step = "addService"
  BY DEF addService, At
<1>2. TaskInv(active[t], services, offered)
  BY <1>1 DEF KInv
<1>3. /\ created' \in [services : Nat, subs : Nat]
      /\ DOMAIN services' = 1 .. created'.services
      /\ Grown(services, services')
      /\ HasService(services', active[t].owner, active[t].serviceData)
  BY <1>1, NewService DEF addService
<1>4. PICK new : /\ active' = Put(active, t, new)
                 /\ DOMAIN new = DOMAIN active[t]
                 /\ new.step = "addSub" /\ new.owner = active[t].owner
                 /\ new.serviceData = active[t].serviceData
                 /\ new.list = active[t].list
  BY <1>1, <1>2, Proceeds, SMTT(60) DEF addService
<1>5. TaskInv(new, services', offered')
  BY <1>1, <1>2, <1>3, <1>4 DEF TaskInv
<1>6. /\ offered \subseteq offered'
      /\ DOMAIN subs' \subseteq Nat
      /\ \A d \in DOMAIN subs' : d \in DOMAIN subs /\ subs'[d] = subs[d]
  BY DEF addService, KInv
<1> QED
  BY <1>1, <1>3, <1>4, <1>5, <1>6, StepKInv

LEMMA findOneSubservicesKInv ==
  ASSUME KInv, NEW t, findOneSubservices(t)
  PROVE  KInv'
<1>1. t \in DOMAIN active /\ active[t].step = "findOne"
  BY DEF findOneSubservices, At
<1>2. TaskInv(active[t], services, offered)
  BY <1>1 DEF KInv
<1>3. PICK step \in {"addSub", "updateSub"} : Proceed(t, step)
  BY DEF findOneSubservices
<1>4. PICK new : /\ active' = Put(active, t, new)
                 /\ DOMAIN new = DOMAIN active[t]
                 /\ new.step = step /\ new.owner = active[t].owner
                 /\ new.serviceData = active[t].serviceData
                 /\ new.list = active[t].list
  BY <1>1, <1>2, <1>3, Proceeds
<1>5. TaskInv(new, services, offered)
  BY <1>1, <1>2, <1>4 DEF TaskInv
<1> QED
  BY <1>1, <1>4, <1>5, TaskStepKInv DEF findOneSubservices

LEMMA addSubKInv ==
  ASSUME KInv, NEW t, addSub(t)
  PROVE  KInv'
<1>1. t \in DOMAIN active /\ active[t].step = "addSub"
  BY DEF addSub, At
<1>2. TaskInv(active[t], services, offered)
  BY <1>1 DEF KInv
<1>3. /\ active[t].owner \notin Workers
      /\ HasService(services, active[t].owner, active[t].serviceData)
  BY <1>1, <1>2, CatalogAssumption DEF TaskInv
<1>4. /\ offered \subseteq offered'
      /\ active[t].owner \in Companies =>
           <<active[t].serviceData, active[t].subServices, active[t].price>>
             \in offered'
  BY Offers DEF addSub
<1>5. /\ created' \in [services : Nat, subs : Nat]
      /\ DOMAIN services' = 1 .. created'.services
      /\ DOMAIN subs' \subseteq Nat
      /\ \A d \in DOMAIN subs' :
           (d \in DOMAIN subs /\ subs'[d] = subs[d])
             \/ SubInv(subs'[d], services', offered')
  BY <1>1, <1>3, <1>4, NewSub DEF addSub
<1>6. Grown(services, services') /\ End(t)
  BY DEF addSub, Grown
<1> QED
  BY <1>1, <1>4, <1>5, <1>6, StepKInv

LEMMA updateSubSrvicesKInv ==
  ASSUME KInv, NEW t, updateSubSrvices(t)
  PROVE  KInv'
<1> DEFINE found == SubsOf(active[t].owner, active[t].serviceData,
                           active[t].subServices)
           m == Min(found)
           new == [subs[m] EXCEPT !.price = active[t].price]
<1>1. t \in DOMAIN active /\ active[t].step = "updateSub"
  BY DEF updateSubSrvices, At
<1>2. active[t].owner \notin Workers
  BY <1>1, CatalogAssumption DEF KInv, TaskInv
<1>3. /\ offered \subseteq offered'
      /\ active[t].owner \in Companies =>
           <<active[t].serviceData, active[t].subServices, active[t].price>>
             \in offered'
  BY Offers DEF updateSubSrvices
<1>4. subs' = IF found = {} THEN subs ELSE Put(subs, m, new)
  BY DEF updateSubSrvices
<1>5. ASSUME found # {}
      PROVE  m \in found
  <2>1. found \subseteq DOMAIN subs
    BY DEF SubsOf
  <2> QED
    BY <1>5, <2>1, HasMin DEF KInv
<1>6. Grown(services, services') /\ End(t)
  BY DEF updateSubSrvices, Grown
<1>7. ASSUME found # {}
      PROVE  SubInv(new, services', offered')
  <2>1. /\ m \in DOMAIN subs /\ subs[m].owner = active[t].owner
        /\ subs[m].serviceData = active[t].serviceData
        /\ subs[m].subServices = active[t].subServices
    BY <1>5, <1>7 DEF SubsOf
  <2>2. SubInv(subs[m], services, offered)
    BY <2>1 DEF KInv
  <2> HIDE DEF m
  <2>3. /\ DOMAIN new = DOMAIN subs[m] /\ new.owner = subs[m].owner
        /\ new.serviceData = subs[m].serviceData
        /\ new.subServices = subs[m].subServices
        /\ new.price = active[t].price
    BY <2>2 DEF SubInv
  <2>4. services' = services
    BY DEF updateSubSrvices
  <2> HIDE DEF new
  <2> QED
    BY <1>2, <1>3, <2>1, <2>2, <2>3, <2>4 DEF SubInv
<1> HIDE DEF found, m, new
<1>8. /\ DOMAIN subs' \subseteq Nat
      /\ \A d \in DOMAIN subs' :
           (d \in DOMAIN subs /\ subs'[d] = subs[d])
             \/ SubInv(subs'[d], services', offered')
  <2>1. CASE found = {}
    BY <1>4, <2>1 DEF KInv
  <2>2. CASE found # {}
    <3>1. m \in Nat
      BY <1>5, <2>2 DEF found, SubsOf, KInv
    <3> QED
      BY <1>4, <1>7, <2>2, <3>1 DEF Put, KInv
  <2> QED
    BY <2>1, <2>2
<1>9. /\ created' \in [services : Nat, subs : Nat]
      /\ DOMAIN services' = 1 .. created'.services
  BY DEF KInv, updateSubSrvices
<1> QED
  BY <1>1, <1>3, <1>6, <1>8, <1>9, StepKInv

\* A deleted document is gone, and tasks are only marked.
LEMMA deleteKInv ==
  ASSUME KInv, NEW d, deleteIndividualServices(d)
  PROVE  KInv'
<1>1. ASSUME NEW t \in DOMAIN active'
      PROVE  TaskInv(active'[t], services, offered)
  <2>1. t \in DOMAIN active /\ TaskInv(active[t], services, offered)
    BY <1>1 DEF KInv, deleteIndividualServices
  <2>2. /\ DOMAIN active'[t] = DOMAIN active[t]
        /\ active'[t].step = active[t].step
        /\ active'[t].owner = active[t].owner
        /\ active'[t].serviceData = active[t].serviceData
        /\ active'[t].list = active[t].list
    BY <2>1 DEF deleteIndividualServices, TaskInv
  <2> QED
    BY <2>1, <2>2 DEF TaskInv
<1>2. /\ DOMAIN subs' \subseteq DOMAIN subs
      /\ \A e \in DOMAIN subs' : subs'[e] = subs[e]
  BY DEF deleteIndividualServices, Remove
<1>3. UNCHANGED <<services, created, offered>>
  BY DEF deleteIndividualServices
<1> QED
  BY <1>1, <1>2, <1>3 DEF KInv

-----------------------------------------------------------------------------
\* The tasks that copy to a worker.

LEMMA findAnyKInv ==
  ASSUME KInv, NEW t, findAny(t)
  PROVE  KInv'
<1> DEFINE new == [active[t] EXCEPT !.step = "queries",
                     !.serviceData = subs[Min(DOMAIN subs)].serviceData]
<1>1. t \in DOMAIN active /\ active[t].step = "findAny"
  BY DEF findAny, At
<1>2. TaskInv(active[t], services, offered)
  BY <1>1 DEF KInv
<1>3. End(t) \/ active' = Put(active, t, new)
  BY DEF findAny
<1>4. /\ DOMAIN new = DOMAIN active[t]
      /\ new.step = "queries" /\ new.list = active[t].list
  BY <1>2 DEF TaskInv
<1> HIDE DEF new
<1>5. TaskInv(new, services, offered)
  BY <1>1, <1>2, <1>4 DEF TaskInv
<1>6. UNCHANGED <<services, subs, created, offered>>
  BY DEF findAny
<1> QED
  BY <1>1, <1>3, <1>5, <1>6, TaskStepKInv

LEMMA getIndividualServicesListKInv ==
  ASSUME KInv, NEW t, getIndividualServicesList(t)
  PROVE  KInv'
<1> DEFINE found == {d \in DOMAIN subs :
                       /\ subs[d].owner \in Companies
                       /\ subs[d].serviceData = active[t].serviceData}
           list == [d \in found |-> <<subs[d].subServices, subs[d].price>>]
           new == [active[t] EXCEPT !.list = list]
<1>1. t \in DOMAIN active /\ active[t].step = "queries"
  BY DEF getIndividualServicesList, At
<1>2. TaskInv(active[t], services, offered)
  BY <1>1 DEF KInv
<1>3. active' = Put(active, t, new)
  BY DEF getIndividualServicesList
<1>4. Listed(list, active[t].serviceData, offered)
  <2>1. \A d \in found :
          <<active[t].serviceData, subs[d].subServices, subs[d].price>> \in offered
    BY DEF KInv, SubInv
  <2> QED
    BY <2>1 DEF Listed
<1> HIDE DEF list
<1>5. /\ DOMAIN new = DOMAIN active[t]
      /\ new.step = "queries" /\ new.list = list
      /\ new.serviceData = active[t].serviceData
  BY <1>1, <1>2 DEF TaskInv
<1> HIDE DEF new
<1>6. TaskInv(new, services, offered)
  BY <1>2, <1>4, <1>5 DEF TaskInv
<1>7. UNCHANGED <<services, subs, created, offered>>
  BY DEF getIndividualServicesList
<1> QED
  BY <1>1, <1>3, <1>6, <1>7, TaskStepKInv

LEMMA getServicesFromProviderKInv ==
  ASSUME KInv, NEW t, getServicesFromProvider(t)
  PROVE  KInv'
<1>1. t \in DOMAIN active /\ active[t].step = "queries"
  BY DEF getServicesFromProvider, At
<1>2. TaskInv(active[t], services, offered)
  BY <1>1, SMTT(60) DEF KInv
<1> DEFINE c == IF ServicesOf(active[t].owner, active[t].serviceData) = {}
                THEN "none" ELSE "some"
           new == [active[t] EXCEPT !.count = c]
<1>3. active' = Put(active, t, new)
  BY DEF getServicesFromProvider
<1> HIDE DEF c
<1>4. /\ DOMAIN new = DOMAIN active[t]
      /\ new.step = "queries" /\ new.list = active[t].list
      /\ new.serviceData = active[t].serviceData
  BY <1>1, <1>2 DEF TaskInv
<1> HIDE DEF new
<1>5. TaskInv(new, services, offered)
  BY <1>1, <1>2, <1>4 DEF TaskInv
<1>6. UNCHANGED <<services, subs, created, offered>>
  BY DEF getServicesFromProvider
<1> QED
  BY <1>1, <1>3, <1>5, <1>6, TaskStepKInv

LEMMA allQueriesKInv ==
  ASSUME KInv, NEW t, allQueries(t)
  PROVE  KInv'
<1>1. /\ t \in DOMAIN active /\ active[t].step = "queries"
      /\ active[t].list # Null
  BY DEF allQueries, At
<1>2. TaskInv(active[t], services, offered)
  BY <1>1 DEF KInv
<1>3. CASE active[t].count = "some"
  <2>1. End(t) /\ UNCHANGED <<services, subs, created, offered>>
    BY <1>3 DEF allQueries
  <2> QED
    BY <1>1, <2>1, TaskStepKInv
<1>4. CASE active[t].count # "some"
  <2>1. addServices(t, active[t].serviceData) /\ Proceed(t, "copy")
    BY <1>4 DEF allQueries
  <2>2. /\ created' \in [services : Nat, subs : Nat]
        /\ DOMAIN services' = 1 .. created'.services
        /\ Grown(services, services')
        /\ HasService(services', active[t].owner, active[t].serviceData)
    BY <1>1, <2>1, NewService
  <2>3. PICK new : /\ active' = Put(active, t, new)
                   /\ DOMAIN new = DOMAIN active[t]
                   /\ new.step = "copy" /\ new.owner = active[t].owner
                   /\ new.serviceData = active[t].serviceData
                   /\ new.list = active[t].list
    BY <1>1, <1>2, <2>1, Proceeds, SMTT(60)
  <2>4. UNCHANGED <<subs, offered>>
    BY DEF allQueries
  <2>5. TaskInv(new, services', offered')
    BY <1>1, <1>2, <2>2, <2>3, <2>4 DEF TaskInv
  <2>6. /\ offered \subseteq offered'
        /\ DOMAIN subs' \subseteq Nat
        /\ \A d \in DOMAIN subs' : d \in DOMAIN subs /\ subs'[d] = subs[d]
    BY <2>4 DEF KInv
  <2> QED
    BY <1>1, <2>2, <2>3, <2>5, <2>6, StepKInv
<1> QED
  BY <1>3, <1>4

\* What is left of a list is still good.
LEMMA Shortened ==
  ASSUME KInv, NEW t \in DOMAIN active, Copying(t), NEW d,
         NEW step \in {"copy", "copyRest"},
         active' = Put(active, t, [active[t] EXCEPT !.step = step,
                                                    !.list = Remove(@, d)])
  PROVE  \E new : /\ active' = Put(active, t, new)
                  /\ TaskInv(new, services, offered)
<1> DEFINE list == Remove(active[t].list, d)
           new == [active[t] EXCEPT !.step = step, !.list = list]
<1>1. /\ TaskInv(active[t], services, offered)
      /\ active[t].step \in {"copy", "copyRest"}
  BY DEF KInv, Copying, At
<1>2. Listed(list, active[t].serviceData, offered)
  BY <1>1 DEF TaskInv, Listed, Remove
<1>3. active' = Put(active, t, new)
  BY <1>1 DEF TaskInv
<1> HIDE DEF list
<1>4. /\ DOMAIN new = DOMAIN active[t]
      /\ new.step = step /\ new.owner = active[t].owner
      /\ new.serviceData = active[t].serviceData /\ new.list = list
  BY <1>1 DEF TaskInv
<1> HIDE DEF new
<1>5. TaskInv(new, services, offered)
  BY <1>1, <1>2, <1>4 DEF TaskInv
<1> QED
  BY <1>3, <1>5

LEMMA copySubKInv ==
  ASSUME KInv, NEW t, NEW d, copySub(t, d)
  PROVE  KInv'
<1>1. /\ t \in DOMAIN active /\ Copying(t) /\ d \in DOMAIN active[t].list
      /\ active[t].step \in {"copy", "copyRest"}
  BY DEF copySub, Copying, At
<1>2. TaskInv(active[t], services, offered)
  BY <1>1 DEF KInv
<1>3. active' = Put(active, t, [active[t] EXCEPT !.step = active[t].step,
                                                 !.list = Remove(@, d)])
  BY <1>2 DEF copySub, TaskInv
<1>4. \E new : /\ active' = Put(active, t, new)
               /\ TaskInv(new, services, offered)
  BY <1>1, <1>3, Shortened
<1>5. UNCHANGED <<services, offered>>
  BY DEF copySub
<1>6. /\ HasService(services, active[t].owner, active[t].serviceData)
      /\ <<active[t].serviceData, active[t].list[d][1], active[t].list[d][2]>>
           \in offered'
  BY <1>1, <1>2, <1>5 DEF TaskInv, Listed
<1>7. addSubservices(t, active[t].list[d][1], active[t].list[d][2])
  BY DEF copySub
<1>8. /\ created' \in [services : Nat, subs : Nat]
      /\ DOMAIN services' = 1 .. created'.services
      /\ DOMAIN subs' \subseteq Nat
      /\ \A e \in DOMAIN subs' :
           (e \in DOMAIN subs /\ subs'[e] = subs[e])
             \/ SubInv(subs'[e], services', offered')
  BY <1>1, <1>5, <1>6, <1>7, NewSub
<1>9. Grown(services, services') /\ offered \subseteq offered'
  BY <1>5 DEF Grown
<1> QED
  BY <1>1, <1>4, <1>5, <1>8, <1>9, StepKInv

LEMMA copyErrorKInv ==
  ASSUME KInv, NEW t, NEW d, copyError(t, d)
  PROVE  KInv'
<1>1. t \in DOMAIN active /\ Copying(t)
  BY DEF copyError, Copying, At
<1>2. /\ active' = Put(active, t, [active[t] EXCEPT !.step = "copyRest",
                                                    !.list = Remove(@, d)])
      /\ UNCHANGED <<services, subs, created, offered>>
  BY DEF copyError
<1>3. \E new : /\ active' = Put(active, t, new)
               /\ TaskInv(new, services, offered)
  BY <1>1, <1>2, Shortened
<1> QED
  BY <1>1, <1>2, <1>3, TaskStepKInv

LEMMA addServicesToProviderKInv ==
  ASSUME KInv, NEW t, addServicesToProvider(t)
  PROVE  KInv'
<1>1. t \in DOMAIN active
  BY DEF addServicesToProvider, At
<1>2. /\ created' \in [services : Nat, subs : Nat]
      /\ DOMAIN services' = 1 .. created'.services
      /\ Grown(services, services')
  BY <1>1, NewService DEF addServicesToProvider
<1>3. /\ offered \subseteq offered' /\ End(t)
      /\ DOMAIN subs' \subseteq Nat
      /\ \A d \in DOMAIN subs' : d \in DOMAIN subs /\ subs'[d] = subs[d]
  BY DEF addServicesToProvider, KInv
<1> QED
  BY <1>1, <1>2, <1>3, StepKInv

-----------------------------------------------------------------------------
\* Requests begin.

LEMMA addServicesbyKInv ==
  ASSUME KInv, NEW t, NEW owner \in Companies \cup Individuals, NEW service,
         NEW sub, NEW price, addServicesby(t, owner, service, sub, price)
  PROVE  KInv'
<1> DEFINE step == IF ServicesOf(owner, service) = {} THEN "addService"
                   ELSE "findOne"
           task == Task(step, owner, service, sub, price)
<1>1. step = "findOne" => HasService(services, owner, service)
  BY DEF ServicesOf, HasService
<1>2. step \in {"addService", "findOne"}
  OBVIOUS
<1>3. Begin({t}, task) /\ UNCHANGED <<services, subs, created, offered>>
  BY DEF addServicesby
<1> HIDE DEF step
<1>4. TaskInv(task, services, offered)
  BY <1>1, <1>2 DEF TaskInv, Task
<1> HIDE DEF task
<1> QED
  BY <1>3, <1>4, BeginKInv

LEMMA addServicesbyCompanyToWorkerKInv ==
  ASSUME KInv, NEW ts, NEW w, addServicesbyCompanyToWorker(ts, w)
  PROVE  KInv'
<1> DEFINE task == Task("findAny", w, Null, Null, Null)
<1>1. Begin(ts, task) /\ UNCHANGED <<services, subs, created, offered>>
  BY DEF addServicesbyCompanyToWorker
<1>2. TaskInv(task, services, offered)
  BY DEF TaskInv, Task
<1> HIDE DEF task
<1> QED
  BY <1>1, <1>2, BeginKInv

LEMMA addeditServicesKInv ==
  ASSUME KInv, NEW t, NEW owner, addeditServices(t, owner)
  PROVE  KInv'
<1> DEFINE task == Task("addServicesToProvider", owner, Null, Null, Null)
<1>1. Begin({t}, task) /\ UNCHANGED <<services, subs, created, offered>>
  BY DEF addeditServices
<1>2. TaskInv(task, services, offered)
  BY DEF TaskInv, Task
<1> HIDE DEF task
<1> QED
  BY <1>1, <1>2, BeginKInv

-----------------------------------------------------------------------------
\* Every step keeps the invariant, action by action.
LEMMA NextKInv == KInv /\ [Next]_vars => KInv'
<1> SUFFICES ASSUME KInv, [Next]_vars PROVE KInv'
  OBVIOUS
<1>1. CASE UNCHANGED vars
  BY <1>1 DEF vars, KInv
<1>2. ASSUME NEW t \in Tasks, Step(t) PROVE KInv'
  <2>1. ASSUME copied(t) \/ serverError(t) PROVE KInv'
    <3>1. /\ t \in DOMAIN active /\ End(t)
          /\ UNCHANGED <<services, subs, created, offered>>
      BY <2>1 DEF copied, serverError, Copying, At
    <3> QED
      BY <3>1, TaskStepKInv
  <2> QED
    BY <1>2, <2>1, addServiceKInv, findOneSubservicesKInv, addSubKInv,
       updateSubSrvicesKInv, findAnyKInv, getIndividualServicesListKInv,
       getServicesFromProviderKInv, allQueriesKInv, copySubKInv, copyErrorKInv,
       addServicesToProviderKInv
    DEF Step
<1> QED
  BY <1>1, <1>2, addServicesbyKInv, addeditServicesKInv,
     addServicesbyCompanyToWorkerKInv, deleteKInv DEF Next

\* The inductive invariant, for any number of providers and tasks.
THEOREM CatalogInductive == Spec => []KInv
BY InitKInv, NextKInv, PTL DEF Spec

\* No interleaving, failure or deletion leaves a sub-service without the
\* service that it belongs to.
THEOREM SubsHaveServices == Spec => []SubHasService
<1>1. KInv => SubHasService
  BY DEF KInv, SubInv, HasService, SubHasService, ServicesOf
<1> QED
  BY <1>1, CatalogInductive, PTL

\* What is copied to workers was offered by a company, at that price.
THEOREM WorkersOfferOffered == Spec => []WorkerOffersOffered
<1>1. KInv => WorkerOffersOffered
  BY DEF KInv, SubInv, WorkerOffersOffered
<1> QED
  BY <1>1, CatalogInductive, PTL

-----------------------------------------------------------------------------
(* Tasks that nothing overlaps with.  Such a task is the only one, so what  *)
(* its queries have found is still so when it stores a document, and the    *)
(* offers of the companies are, at every moment of its copying, what it has *)
(* copied together with what it has left to copy.                           *)

\* The collection sb has the sub-service of the provider.
HasSub(sb, owner, service, sub) ==
  \E d \in DOMAIN sb : /\ sb[d].owner = owner /\ sb[d].serviceData = service
                       /\ sb[d].subServices = sub

\* What the providers of a set offer of a service, and what a list has.
OfferedBy(sb, set, service) ==
  {<<sb[d].subServices, sb[d].price>> :
     d \in {e \in DOMAIN sb : sb[e].owner \in set /\ sb[e].serviceData = service}}

Entries(list) == {list[d] : d \in DOMAIN list}

\* What the task has found is so.
Found(task, svc, sb) ==
  /\ task.step = "addService" => ~HasService(svc, task.owner, task.serviceData)
  /\ task.step = "addSub" =>
       ~HasSub(sb, task.owner, task.serviceData, task.subServices)
  /\ task.step = "updateSub" =>
       HasSub(sb, task.owner, task.serviceData, task.subServices)
  /\ task.step = "addServicesToProvider" => ~HasService(svc, task.owner, Null)
  /\ task.step = "findAny" => task.count = Null
  /\ task.step = "queries" =>
       /\ task.count \in {Null, "some"} \/ ~HasService(svc, task.owner, task.serviceData)
       /\ task.list = Null \/ Entries(task.list) = OfferedBy(sb, Companies, task.serviceData)
  /\ task.step = "copy" =>
       OfferedBy(sb, {task.owner}, task.serviceData) \cup Entries(task.list)
         = OfferedBy(sb, Companies, task.serviceData)

CopySteps == {"findAny", "queries", "copy", "copyRest"}

\* NoDuplicates, collection by collection.
UniqueServices(svc) ==
  \A d, e \in DOMAIN svc :
    /\ svc[d].owner = svc[e].owner /\ svc[d].serviceData = svc[e].serviceData
    /\ d < e
    => svc[e].overlap

UniqueSubs(sb) ==
  \A d, e \in DOMAIN sb :
    /\ sb[d].owner = sb[e].owner /\ sb[e].owner \notin Workers
    /\ sb[d].serviceData = sb[e].serviceData
    /\ sb[d].subServices = sb[e].subServices
    /\ d < e
    => sb[e].overlap

UInv ==
  /\ DOMAIN subs \subseteq 1 .. created.subs
  /\ \A t \in DOMAIN active : active[t].step \in CopySteps => active[t].owner \in Workers
  /\ \A t \in DOMAIN active :
       active[t].overlap \/ (DOMAIN active = {t} /\ Found(active[t], services, subs))
  /\ UniqueServices(services)
  /\ UniqueSubs(subs)

\* A task goes on or ends: if it is marked, or what it has found is so.
LEMMA StepUInv ==
  ASSUME UInv, NEW t \in DOMAIN active,
         DOMAIN subs' \subseteq 1 .. created'.subs,
         UniqueServices(services'), UniqueSubs(subs'),
         \/ End(t)
         \/ \E new : /\ active' = Put(active, t, new)
                     /\ new.overlap = active[t].overlap
                     /\ new.step \in CopySteps => new.owner \in Workers
                     /\ active[t].overlap \/ Found(new, services', subs')
  PROVE  UInv'
<1>1. CASE End(t)
  <2>1. /\ DOMAIN active' = DOMAIN active \ {t}
        /\ \A q \in DOMAIN active' : active'[q] = active[q] /\ active[q].overlap
    BY <1>1 DEF End, Remove, UInv
  <2> QED
    BY <2>1 DEF UInv
<1>2. CASE \E new : /\ active' = Put(active, t, new)
                    /\ new.overlap = active[t].overlap
                    /\ new.step \in CopySteps => new.owner \in Workers
                    /\ active[t].overlap \/ Found(new, services', subs')
  <2>1. PICK new : /\ active' = Put(active, t, new)
                   /\ new.overlap = active[t].overlap
                   /\ new.step \in CopySteps => new.owner \in Workers
                   /\ active[t].overlap \/ Found(new, services', subs')
    BY <1>2
  <2>2. /\ DOMAIN active' = DOMAIN active /\ active'[t] = new
        /\ \A q \in DOMAIN active : q # t => active'[q] = active[q]
    BY <2>1 DEF Put
  <2>3. \A q \in DOMAIN active' : active'[q].step \in CopySteps => active'[q].owner \in Workers
    BY <2>1, <2>2 DEF UInv
  <2>4. ASSUME NEW q \in DOMAIN active'
        PROVE  active'[q].overlap
                 \/ (DOMAIN active' = {q} /\ Found(active'[q], services', subs'))
    <3>1. CASE q = t
      BY <2>1, <2>2, <3>1 DEF UInv
    <3>2. CASE q # t
      BY <2>2, <3>2 DEF UInv
    <3> QED
      BY <3>1, <3>2
  <2> QED
    BY <2>3, <2>4 DEF UInv
<1> QED
  BY <1>1, <1>2

\* A new service is the latest one, and no second one unless it is marked.
LEMMA NewServiceUnique ==
  ASSUME KInv, UInv, NEW t \in DOMAIN active, NEW service, addServices(t, service),
         active[t].overlap \/ ~HasService(services, active[t].owner, service)
  PROVE  UniqueServices(services') /\ created'.subs = created.subs
<1> DEFINE n == created.services + 1
           new == [owner |-> active[t].owner, serviceData |-> service,
                   overlap |-> active[t].overlap]
<1>1. /\ created'.services = n /\ n \in Nat /\ n \notin 1 .. created.services
      /\ created'.subs = created.subs /\ \A d \in 1 .. created.services : d < n
  BY SMTT(60) DEF KInv, addServices
<1>2. services' = Put(services, n, new)
  BY <1>1 DEF addServices
<1>3. /\ new.owner = active[t].owner /\ new.serviceData = service
      /\ new.overlap = active[t].overlap
  OBVIOUS
<1> HIDE DEF n, new
<1>4. /\ DOMAIN services' = DOMAIN services \cup {n}
      /\ services'[n] = new
      /\ \A d \in DOMAIN services : services'[d] = services[d]
  BY <1>1, <1>2 DEF Put, KInv
<1>5. ASSUME NEW d \in DOMAIN services', NEW e \in DOMAIN services',
             services'[d].owner = services'[e].owner,
             services'[d].serviceData = services'[e].serviceData, d < e
      PROVE  services'[e].overlap
  <2>1. d # n
    BY <1>1, <1>4, <1>5, SMTT(60) DEF KInv
  <2>2. CASE e = n
    <3>1. HasService(services, active[t].owner, service)
      BY <1>3, <1>4, <1>5, <2>1, <2>2 DEF HasService
    <3> QED
      BY <1>3, <1>4, <2>2, <3>1
  <2>3. CASE e # n
    BY <1>4, <1>5, <2>1, <2>3 DEF UInv, UniqueServices
  <2> QED
    BY <2>2, <2>3
<1> QED
  BY <1>1, <1>5 DEF UniqueServices

\* Task t has stored a document n.
NewDocument(n, t, sub, price) ==
  /\ DOMAIN subs' = DOMAIN subs \cup {n} /\ n \notin DOMAIN subs
  /\ subs'[n].owner = active[t].owner
  /\ subs'[n].serviceData = active[t].serviceData
  /\ subs'[n].subServices = sub /\ subs'[n].price = price
  /\ \A d \in DOMAIN subs : subs'[d] = subs[d]

\* A new sub-service, likewise; what is copied to workers may repeat.
LEMMA NewSubUnique ==
  ASSUME KInv, UInv, NEW t \in DOMAIN active, NEW sub, NEW price,
         addSubservices(t, sub, price),
         \/ active[t].overlap \/ active[t].owner \in Workers
         \/ ~HasSub(subs, active[t].owner, active[t].serviceData, sub)
  PROVE  /\ UniqueSubs(subs') /\ DOMAIN subs' \subseteq 1 .. created'.subs
         /\ \E n : NewDocument(n, t, sub, price)
<1> DEFINE n == created.subs + 1
           new == [owner |-> active[t].owner,
                   serviceData |-> active[t].serviceData, subServices |-> sub,
                   price |-> price, overlap |-> active[t].overlap]
<1>1. /\ created'.subs = n /\ n \in Nat /\ n \notin DOMAIN subs
      /\ \A d \in DOMAIN subs : d < n /\ d \in 1 .. n
      /\ n \in 1 .. n
  BY SMTT(60) DEF KInv, UInv, addSubservices
<1>2. subs' = Put(subs, n, new)
  BY <1>1 DEF addSubservices
<1>3. /\ new.owner = active[t].owner /\ new.serviceData = active[t].serviceData
      /\ new.subServices = sub /\ new.price = price /\ new.overlap = active[t].overlap
  OBVIOUS
<1> HIDE DEF n, new
<1>4. /\ DOMAIN subs' = DOMAIN subs \cup {n} /\ subs'[n] = new
      /\ \A d \in DOMAIN subs : subs'[d] = subs[d]
  BY <1>1, <1>2 DEF Put
<1>5. ASSUME NEW d \in DOMAIN subs', NEW e \in DOMAIN subs',
             subs'[d].owner = subs'[e].owner, subs'[e].owner \notin Workers,
             subs'[d].serviceData = subs'[e].serviceData,
             subs'[d].subServices = subs'[e].subServices, d < e
      PROVE  subs'[e].overlap
  <2>1. d # n
    BY <1>1, <1>4, <1>5, SMTT(60) DEF KInv
  <2>2. CASE e = n
    <3>1. HasSub(subs, active[t].owner, active[t].serviceData, sub)
      BY <1>3, <1>4, <1>5, <2>1, <2>2, SMTT(60) DEF HasSub
    <3> QED
      BY <1>3, <1>4, <1>5, <2>2, <3>1, SMTT(60)
  <2>3. CASE e # n
    BY <1>4, <1>5, <2>1, <2>3 DEF UInv, UniqueSubs
  <2> QED
    BY <2>2, <2>3
<1>6. DOMAIN subs' \subseteq 1 .. created'.subs
  BY <1>1, <1>4
<1>7. UniqueSubs(subs')
  BY <1>5 DEF UniqueSubs
<1>8. NewDocument(n, t, sub, price)
  BY <1>1, <1>3, <1>4 DEF NewDocument
<1> QED
  BY <1>6, <1>7, <1>8

\* All that a task keeps when it goes on to another step.
LEMMA ProceedsAll ==
  ASSUME KInv, NEW t \in DOMAIN active, NEW step, Proceed(t, step)
  PROVE  \E new : /\ active' = Put(active, t, new)
                  /\ new.step = step /\ new.owner = active[t].owner
                  /\ new.serviceData = active[t].serviceData
                  /\ new.subServices = active[t].subServices
                  /\ new.list = active[t].list /\ new.overlap = active[t].overlap
<1> DEFINE new == [active[t] EXCEPT !.step = step]
<1>1. /\ new.step = step /\ new.owner = active[t].owner
      /\ new.serviceData = active[t].serviceData
      /\ new.subServices = active[t].subServices
      /\ new.list = active[t].list /\ new.overlap = active[t].overlap
  BY DEF KInv, TaskInv
<1>2. active' = Put(active, t, new)
  BY DEF Proceed
<1> HIDE DEF new
<1> QED
  BY <1>1, <1>2

\* What UInv says of a task.
LEMMA TaskUInv ==
  ASSUME UInv, NEW t \in DOMAIN active
  PROVE  /\ active[t].overlap \/ Found(active[t], services, subs)
         /\ active[t].step \in CopySteps => active[t].owner \in Workers
BY DEF UInv

\* Steps that store nothing leave what was stored unique.
LEMMA SameStored ==
  ASSUME UInv, UNCHANGED <<services, subs, created>>
  PROVE  /\ DOMAIN subs' \subseteq 1 .. created'.subs
         /\ UniqueServices(services') /\ UniqueSubs(subs')
BY DEF UInv

\* Without the service there is no sub-service of it.
LEMMA NoServiceNoSub ==
  ASSUME KInv, NEW owner, NEW service, ~HasService(services, owner, service)
  PROVE  \A d \in DOMAIN subs : subs[d].owner = owner => subs[d].serviceData # service
BY DEF KInv, SubInv

LEMMA addServiceUInv ==
  ASSUME KInv, UInv, NEW t, addService(t)
  PROVE  UInv'
<1>1. /\ t \in DOMAIN active /\ active[t].step = "addService" /\ subs' = subs
      /\ addServices(t, active[t].serviceData) /\ Proceed(t, "addSub")
  BY DEF addService, At
<1>2. active[t].overlap \/ ~HasService(services, active[t].owner, active[t].serviceData)
  BY <1>1, TaskUInv DEF Found
<1>3. UniqueServices(services') /\ created'.subs = created.subs
  BY <1>1, <1>2, NewServiceUnique
<1>4. PICK new : /\ active' = Put(active, t, new)
                 /\ new.step = "addSub" /\ new.owner = active[t].owner
                 /\ new.serviceData = active[t].serviceData
                 /\ new.subServices = active[t].subServices
                 /\ new.overlap = active[t].overlap
  BY <1>1, ProceedsAll, SMTT(60)
<1>5. active[t].overlap \/ ~HasSub(subs, new.owner, new.serviceData, new.subServices)
  BY <1>2, <1>4, NoServiceNoSub, SMTT(60) DEF HasSub
<1>6. active[t].overlap \/ Found(new, services', subs')
  BY <1>1, <1>4, <1>5 DEF Found
<1>7. DOMAIN subs' \subseteq 1 .. created'.subs /\ UniqueSubs(subs')
  BY <1>1, <1>3 DEF UInv
<1>8. new.step \notin CopySteps
  BY <1>4 DEF CopySteps
<1> QED
  BY <1>1, <1>3, <1>4, <1>6, <1>7, <1>8, StepUInv

LEMMA findOneUInv ==
  ASSUME KInv, UInv, NEW t, findOneSubservices(t)
  PROVE  UInv'
<1> DEFINE has == HasSub(subs, active[t].owner, active[t].serviceData, active[t].subServices)
<1>1. /\ t \in DOMAIN active
      /\ UNCHANGED <<services, subs, created>>
  BY DEF findOneSubservices, At
<1>2. SubsOf(active[t].owner, active[t].serviceData, active[t].subServices) = {} <=> ~has
  BY DEF SubsOf, HasSub
<1> HIDE DEF has
<1>3. PICK step \in {"addSub", "updateSub"} :
        /\ Proceed(t, step) /\ (step = "addSub" => ~has) /\ (step = "updateSub" => has)
  BY <1>2 DEF findOneSubservices
<1>4. PICK new : /\ active' = Put(active, t, new)
                 /\ new.step = step /\ new.owner = active[t].owner
                 /\ new.serviceData = active[t].serviceData
                 /\ new.subServices = active[t].subServices
                 /\ new.overlap = active[t].overlap
  BY <1>1, <1>3, ProceedsAll, SMTT(60)
<1>5. Found(new, services', subs')
  BY <1>1, <1>3, <1>4 DEF Found, has
<1>6. new.step \notin CopySteps
  BY <1>4 DEF CopySteps
<1> QED
  BY <1>1, <1>4, <1>5, <1>6, SameStored, StepUInv

LEMMA addSubUInv ==
  ASSUME KInv, UInv, NEW t, addSub(t)
  PROVE  UInv'
<1>1. /\ t \in DOMAIN active /\ active[t].step = "addSub" /\ services' = services /\ End(t)
      /\ addSubservices(t, active[t].subServices, active[t].price)
  BY DEF addSub, At
<1>2. active[t].overlap
        \/ ~HasSub(subs, active[t].owner, active[t].serviceData, active[t].subServices)
  BY <1>1, TaskUInv DEF Found
<1>3. UniqueSubs(subs') /\ DOMAIN subs' \subseteq 1 .. created'.subs
  BY <1>1, <1>2, NewSubUnique
<1> QED
  BY <1>1, <1>3, StepUInv DEF UInv

\* updateSubSrvices changes a price and nothing else.
LEMMA PriceUpdated ==
  ASSUME KInv, NEW t, updateSubSrvices(t)
  PROVE  /\ DOMAIN subs' = DOMAIN subs
         /\ \A d \in DOMAIN subs : /\ subs'[d].owner = subs[d].owner
                                   /\ subs'[d].serviceData = subs[d].serviceData
                                   /\ subs'[d].subServices = subs[d].subServices
                                   /\ subs'[d].overlap = subs[d].overlap
         /\ HasSub(subs, active[t].owner, active[t].serviceData, active[t].subServices) =>
              \E d \in DOMAIN subs :
                /\ subs[d].owner = active[t].owner
                /\ subs[d].serviceData = active[t].serviceData
                /\ subs[d].subServices = active[t].subServices
                /\ subs'[d].price = active[t].price
<1> DEFINE found == SubsOf(active[t].owner, active[t].serviceData,
                           active[t].subServices)
           m == Min(found)
           new == [subs[m] EXCEPT !.price = active[t].price]
<1>1. subs' = IF found = {} THEN subs ELSE Put(subs, m, new)
  BY SMTT(60) DEF updateSubSrvices
<1>2. CASE found = {}
  <2>1. subs' = subs
    BY <1>1, <1>2
  <2>2. ~HasSub(subs, active[t].owner, active[t].serviceData, active[t].subServices)
    BY <1>2 DEF SubsOf, HasSub
  <2> QED
    BY <2>1, <2>2
<1>3. CASE found # {}
  <2>1. m \in found
    <3>1. found \subseteq DOMAIN subs
      BY SMTT(60) DEF SubsOf
    <3> QED
      BY <1>3, <3>1, HasMin, SMTT(60) DEF KInv
  <2>2. /\ m \in DOMAIN subs /\ subs[m].owner = active[t].owner
        /\ subs[m].serviceData = active[t].serviceData
        /\ subs[m].subServices = active[t].subServices
    BY <2>1, ZenonT(30) DEF SubsOf
  <2>3. SubInv(subs[m], services, offered) /\ subs' = Put(subs, m, new)
    BY <1>1, <1>3, <2>2 DEF KInv
  <2> HIDE DEF m, found
  <2>4. /\ new.owner = subs[m].owner /\ new.serviceData = subs[m].serviceData
        /\ new.subServices = subs[m].subServices /\ new.overlap = subs[m].overlap
        /\ new.price = active[t].price
    BY <2>3 DEF SubInv
  <2> HIDE DEF new
  <2>5. /\ DOMAIN subs' = DOMAIN subs /\ subs'[m] = new
        /\ \A d \in DOMAIN subs : d # m => subs'[d] = subs[d]
    BY <2>2, <2>3 DEF Put
  <2>6. \A d \in DOMAIN subs : /\ subs'[d].owner = subs[d].owner
                               /\ subs'[d].serviceData = subs[d].serviceData
                               /\ subs'[d].subServices = subs[d].subServices
                               /\ subs'[d].overlap = subs[d].overlap
    BY <2>4, <2>5
  <2> QED
    BY <2>2, <2>4, <2>5, <2>6, SMTT(60)
<1> QED
  BY <1>2, <1>3

LEMMA updateSubSrvicesUInv ==
  ASSUME KInv, UInv, NEW t, updateSubSrvices(t)
  PROVE  UInv'
<1>1. t \in DOMAIN active /\ End(t) /\ UNCHANGED <<services, created>>
  BY DEF updateSubSrvices, At
<1>2. /\ DOMAIN subs' = DOMAIN subs
      /\ \A d \in DOMAIN subs : /\ subs'[d].owner = subs[d].owner
                                /\ subs'[d].serviceData = subs[d].serviceData
                                /\ subs'[d].subServices = subs[d].subServices
                                /\ subs'[d].overlap = subs[d].overlap
  BY PriceUpdated
<1>3. UniqueSubs(subs')
  BY <1>2, SMTT(60) DEF UInv, UniqueSubs
<1> QED
  BY <1>1, <1>2, <1>3, StepUInv DEF UInv

\* A deletion marks every task.
LEMMA deleteUInv ==
  ASSUME KInv, UInv, NEW d, deleteIndividualServices(d)
  PROVE  UInv'
<1>1. /\ DOMAIN subs' \subseteq DOMAIN subs
      /\ \A e \in DOMAIN subs' : subs'[e] = subs[e]
      /\ UNCHANGED <<services, created>>
  BY DEF deleteIndividualServices, Remove
<1>2. DOMAIN active' = DOMAIN active
  BY DEF deleteIndividualServices
<1>3. ASSUME NEW t \in DOMAIN active
      PROVE  /\ active'[t].step = active[t].step /\ active'[t].owner = active[t].owner
             /\ active'[t].overlap
  <2>1. active'[t] = [active[t] EXCEPT !.overlap = TRUE]
    BY DEF deleteIndividualServices
  <2> QED
    BY <2>1 DEF KInv, TaskInv
<1>4. UniqueSubs(subs')
  BY <1>1, SMTT(60) DEF UInv, UniqueSubs
<1> QED
  BY <1>1, <1>2, <1>3, <1>4 DEF UInv

LEMMA findAnyUInv ==
  ASSUME KInv, UInv, NEW t, findAny(t)
  PROVE  UInv'
<1> DEFINE new == [active[t] EXCEPT !.step = "queries",
                     !.serviceData = subs[Min(DOMAIN subs)].serviceData]
<1>1. /\ t \in DOMAIN active /\ active[t].step = "findAny"
      /\ UNCHANGED <<services, subs, created>>
  BY DEF findAny, At
<1>2. End(t) \/ active' = Put(active, t, new)
  BY DEF findAny
<1>3. /\ new.step = "queries" /\ new.owner = active[t].owner
      /\ new.list = active[t].list /\ new.count = active[t].count
      /\ new.overlap = active[t].overlap
  BY <1>1 DEF KInv, TaskInv
<1> HIDE DEF new
<1>4. active[t].list = Null /\ active[t].owner \in Workers
  BY <1>1, TaskUInv DEF KInv, TaskInv, CopySteps
<1>5. active[t].overlap \/ Found(new, services', subs')
  BY <1>1, <1>3, <1>4, TaskUInv DEF Found
<1> QED
  BY <1>1, <1>2, <1>3, <1>4, <1>5, SameStored, StepUInv

LEMMA getIndividualServicesListUInv ==
  ASSUME KInv, UInv, NEW t, getIndividualServicesList(t)
  PROVE  UInv'
<1> DEFINE found == {d \in DOMAIN subs :
                       /\ subs[d].owner \in Companies
                       /\ subs[d].serviceData = active[t].serviceData}
           list == [d \in found |-> <<subs[d].subServices, subs[d].price>>]
           new == [active[t] EXCEPT !.list = list]
<1>1. /\ t \in DOMAIN active /\ active[t].step = "queries"
      /\ UNCHANGED <<services, subs, created>>
  BY DEF getIndividualServicesList, At
<1>2. active' = Put(active, t, new)
  BY DEF getIndividualServicesList
<1>3. Entries(list) = OfferedBy(subs, Companies, active[t].serviceData)
  BY DEF Entries, OfferedBy
<1> HIDE DEF list
<1>4. /\ new.step = "queries" /\ new.owner = active[t].owner /\ new.list = list
      /\ new.serviceData = active[t].serviceData /\ new.count = active[t].count
      /\ new.overlap = active[t].overlap
  BY <1>1 DEF KInv, TaskInv
<1> HIDE DEF new
<1>5. active[t].overlap \/ active[t].count \in {Null, "some"}
        \/ ~HasService(services, active[t].owner, active[t].serviceData)
  BY <1>1, TaskUInv DEF Found
<1>6. active[t].overlap \/ Found(new, services', subs')
  BY <1>1, <1>3, <1>4, <1>5 DEF Found
<1>7. active[t].owner \in Workers
  BY <1>1, TaskUInv DEF CopySteps
<1> QED
  BY <1>1, <1>2, <1>4, <1>6, <1>7, SameStored, StepUInv

LEMMA getServicesFromProviderUInv ==
  ASSUME KInv, UInv, NEW t, getServicesFromProvider(t)
  PROVE  UInv'
<1> DEFINE c == IF ServicesOf(active[t].owner, active[t].serviceData) = {}
                THEN "none" ELSE "some"
           new == [active[t] EXCEPT !.count = c]
<1>1. /\ t \in DOMAIN active /\ active[t].step = "queries"
      /\ UNCHANGED <<services, subs, created>>
  BY DEF getServicesFromProvider, At
<1>2. active' = Put(active, t, new)
  BY DEF getServicesFromProvider
<1>3. c = "some" \/ ~HasService(services, active[t].owner, active[t].serviceData)
  BY DEF ServicesOf, HasService
<1> HIDE DEF c
<1>4. /\ new.step = "queries" /\ new.owner = active[t].owner /\ new.list = active[t].list
      /\ new.serviceData = active[t].serviceData /\ new.count = c
      /\ new.overlap = active[t].overlap
  BY <1>1 DEF KInv, TaskInv
<1> HIDE DEF new
<1>5. active[t].overlap \/ active[t].list = Null
        \/ Entries(active[t].list) = OfferedBy(subs, Companies, active[t].serviceData)
  BY <1>1, TaskUInv DEF Found
<1>6. active[t].overlap \/ Found(new, services', subs')
  BY <1>1, <1>3, <1>4, <1>5 DEF Found
<1>7. active[t].owner \in Workers
  BY <1>1, TaskUInv, SMTT(60) DEF CopySteps
<1> QED
  BY <1>1, <1>2, <1>4, <1>6, <1>7, SameStored, StepUInv

\* The worker has nothing of the service yet: all is left to copy.
LEMMA allQueriesUInv ==
  ASSUME KInv, UInv, NEW t, allQueries(t)
  PROVE  UInv'
<1>1. /\ t \in DOMAIN active /\ active[t].step = "queries"
      /\ active[t].list # Null /\ active[t].count # Null /\ subs' = subs
  BY DEF allQueries, At
<1>2. CASE active[t].count = "some"
  <2>1. End(t) /\ UNCHANGED <<services, subs, created>>
    BY <1>2 DEF allQueries
  <2> QED
    BY <1>1, <2>1, SameStored, StepUInv, SMTT(60)
<1>3. CASE active[t].count # "some"
  <2>1. addServices(t, active[t].serviceData) /\ Proceed(t, "copy")
    BY <1>3 DEF allQueries
  <2>2. \/ active[t].overlap
        \/ /\ ~HasService(services, active[t].owner, active[t].serviceData)
           /\ Entries(active[t].list) = OfferedBy(subs, Companies, active[t].serviceData)
    BY <1>1, <1>3, TaskUInv DEF Found
  <2>3. UniqueServices(services') /\ created'.subs = created.subs
    BY <1>1, <2>1, <2>2, NewServiceUnique
  <2>4. PICK new : /\ active' = Put(active, t, new)
                   /\ new.step = "copy" /\ new.owner = active[t].owner
                   /\ new.serviceData = active[t].serviceData
                   /\ new.list = active[t].list /\ new.overlap = active[t].overlap
    BY <1>1, <2>1, ProceedsAll, SMTT(60)
  <2>5. ASSUME ~active[t].overlap
        PROVE  Found(new, services', subs')
    <3>1. OfferedBy(subs, {active[t].owner}, active[t].serviceData) = {}
      BY <2>2, <2>5, NoServiceNoSub DEF OfferedBy
    <3> QED
      BY <1>1, <2>2, <2>4, <2>5, <3>1 DEF Found
  <2>6. active[t].owner \in Workers
    BY <1>1, TaskUInv DEF CopySteps
  <2>7. DOMAIN subs' \subseteq 1 .. created'.subs /\ UniqueSubs(subs')
    BY <1>1, <2>3 DEF UInv
  <2> QED
    BY <1>1, <2>3, <2>4, <2>5, <2>6, <2>7, StepUInv
<1> QED
  BY <1>2, <1>3

\* A document is copied: it moves from the list to the worker's offers.
LEMMA Copied ==
  ASSUME NEW list, NEW owner, owner \notin Companies, NEW service,
         OfferedBy(subs, {owner}, service) \cup Entries(list) = OfferedBy(subs, Companies, service),
         NEW d \in DOMAIN list, NEW n, n \notin DOMAIN subs,
         DOMAIN subs' = DOMAIN subs \cup {n},
         subs'[n].owner = owner, subs'[n].serviceData = service,
         subs'[n].subServices = list[d][1], subs'[n].price = list[d][2],
         \A e \in DOMAIN subs : subs'[e] = subs[e]
  PROVE  OfferedBy(subs', {owner}, service) \cup Entries(Remove(list, d))
           = OfferedBy(subs', Companies, service)
<1>1. list[d] = <<list[d][1], list[d][2]>>
  <2>1. list[d] \in OfferedBy(subs, Companies, service)
    BY DEF Entries
  <2> QED
    BY <2>1, SMTT(60) DEF OfferedBy
<1>2. OfferedBy(subs', Companies, service) = OfferedBy(subs, Companies, service)
  BY SMTT(60) DEF OfferedBy
<1>3. OfferedBy(subs', {owner}, service) = OfferedBy(subs, {owner}, service) \cup {list[d]}
  BY <1>1, SMTT(60) DEF OfferedBy
<1>4. Entries(Remove(list, d)) \cup {list[d]} = Entries(list)
  BY SMTT(60) DEF Entries, Remove
<1> QED
  BY <1>2, <1>3, <1>4, SMTT(60)

\* A task whose list gets shorter.
Shortens(t, d, step) ==
  active' = Put(active, t, [active[t] EXCEPT !.step = step, !.list = Remove(@, d)])

LEMMA ShortenedAll ==
  ASSUME KInv, NEW t \in DOMAIN active, NEW d, NEW step, Shortens(t, d, step)
  PROVE  \E new : /\ active' = Put(active, t, new)
                  /\ new.step = step /\ new.owner = active[t].owner
                  /\ new.serviceData = active[t].serviceData
                  /\ new.list = Remove(active[t].list, d)
                  /\ new.overlap = active[t].overlap
<1> DEFINE list == Remove(active[t].list, d)
           new == [active[t] EXCEPT !.step = step, !.list = list]
<1>1. active' = Put(active, t, new)
  BY DEF KInv, TaskInv, Shortens
<1> HIDE DEF list
<1>2. /\ new.step = step /\ new.owner = active[t].owner
      /\ new.serviceData = active[t].serviceData
      /\ new.list = list /\ new.overlap = active[t].overlap
  BY SMTT(60) DEF KInv, TaskInv
<1> HIDE DEF new
<1> QED
  BY <1>1, <1>2 DEF list

LEMMA copySubUInv ==
  ASSUME KInv, UInv, NEW t, NEW d, copySub(t, d)
  PROVE  UInv'
<1>1. /\ t \in DOMAIN active /\ d \in DOMAIN active[t].list
      /\ active[t].step \in {"copy", "copyRest"} /\ services' = services
      /\ addSubservices(t, active[t].list[d][1], active[t].list[d][2])
  BY DEF copySub, Copying, At
<1>2. Shortens(t, d, active[t].step)
  BY <1>1 DEF copySub, KInv, TaskInv, Shortens
<1>3. active[t].owner \in Workers /\ active[t].owner \notin Companies
  BY <1>1, TaskUInv, CatalogAssumption DEF CopySteps
<1> DEFINE sub == active[t].list[d][1]
           price == active[t].list[d][2]
<1> HIDE DEF sub, price
<1>4. addSubservices(t, sub, price)
  BY <1>1 DEF sub, price
<1>5. /\ UniqueSubs(subs') /\ DOMAIN subs' \subseteq 1 .. created'.subs
      /\ \E n : NewDocument(n, t, sub, price)
  BY <1>1, <1>3, <1>4, NewSubUnique
<1>6. PICK new : /\ active' = Put(active, t, new)
                 /\ new.step = active[t].step /\ new.owner = active[t].owner
                 /\ new.serviceData = active[t].serviceData
                 /\ new.list = Remove(active[t].list, d)
                 /\ new.overlap = active[t].overlap
  BY <1>1, <1>2, ShortenedAll, SMTT(60)
<1>7. ASSUME ~active[t].overlap
      PROVE  Found(new, services', subs')
  <2>1. CASE active[t].step = "copyRest"
    BY <1>6, <2>1 DEF Found
  <2>2. CASE active[t].step = "copy"
    <3>1. OfferedBy(subs, {active[t].owner}, active[t].serviceData) \cup Entries(active[t].list)
            = OfferedBy(subs, Companies, active[t].serviceData)
      BY <1>1, <1>7, <2>2, TaskUInv DEF Found
    <3>2. OfferedBy(subs', {active[t].owner}, active[t].serviceData)
            \cup Entries(Remove(active[t].list, d))
            = OfferedBy(subs', Companies, active[t].serviceData)
      <4>1. PICK n : NewDocument(n, t, sub, price)
        BY <1>5
      <4> DEFINE list == active[t].list
                 owner == active[t].owner
                 service == active[t].serviceData
      <4>2. /\ n \notin DOMAIN subs /\ DOMAIN subs' = DOMAIN subs \cup {n}
            /\ subs'[n].owner = owner /\ subs'[n].serviceData = service
            /\ subs'[n].subServices = list[d][1] /\ subs'[n].price = list[d][2]
            /\ \A e \in DOMAIN subs : subs'[e] = subs[e]
        BY <4>1 DEF NewDocument, sub, price
      <4>3. /\ d \in DOMAIN list /\ owner \notin Companies
            /\ OfferedBy(subs, {owner}, service) \cup Entries(list)
                 = OfferedBy(subs, Companies, service)
        BY <1>1, <1>3, <3>1
      <4> HIDE DEF list, owner, service
      <4>4. OfferedBy(subs', {owner}, service) \cup Entries(Remove(list, d))
              = OfferedBy(subs', Companies, service)
        BY <4>2, <4>3, Copied, SMTT(60)
      <4> QED
        BY <4>4 DEF list, owner, service
    <3> QED
      BY <1>6, <2>2, <3>2, SMTT(60) DEF Found
  <2> QED
    BY <1>1, <2>1, <2>2
<1>8. UniqueServices(services')
  BY <1>1 DEF UInv
<1> QED
  BY <1>1, <1>3, <1>5, <1>6, <1>7, <1>8, StepUInv

LEMMA copyErrorUInv ==
  ASSUME KInv, UInv, NEW t, NEW d, copyError(t, d)
  PROVE  UInv'
<1>1. /\ t \in DOMAIN active /\ active[t].step \in {"copy", "copyRest"}
      /\ UNCHANGED <<services, subs, created>>
  BY DEF copyError, Copying, At
<1>2. Shortens(t, d, "copyRest")
  BY DEF copyError, Shortens
<1>3. PICK new : /\ active' = Put(active, t, new)
                 /\ new.step = "copyRest" /\ new.owner = active[t].owner
                 /\ new.overlap = active[t].overlap
  BY <1>1, <1>2, ShortenedAll, SMTT(60)
<1>4. Found(new, services', subs')
  BY <1>3 DEF Found
<1>5. active[t].owner \in Workers
  BY <1>1, TaskUInv DEF CopySteps
<1> QED
  BY <1>1, <1>3, <1>4, <1>5, SameStored, StepUInv

LEMMA addServicesToProviderUInv ==
  ASSUME KInv, UInv, NEW t, addServicesToProvider(t)
  PROVE  UInv'
<1>1. /\ t \in DOMAIN active /\ active[t].step = "addServicesToProvider"
      /\ addServices(t, Null) /\ End(t) /\ subs' = subs
  BY DEF addServicesToProvider, At
<1>2. active[t].overlap \/ ~HasService(services, active[t].owner, Null)
  BY <1>1, TaskUInv DEF Found
<1>3. UniqueServices(services') /\ created'.subs = created.subs
  BY <1>1, <1>2, NewServiceUnique
<1>4. DOMAIN subs' \subseteq 1 .. created'.subs /\ UniqueSubs(subs')
  BY <1>1, <1>3 DEF UInv
<1> QED
  BY <1>1, <1>3, <1>4, StepUInv

\* Tasks that begin: only one that begins alone is not marked.
LEMMA BeginUInv ==
  ASSUME KInv, UInv, NEW ts, NEW task, Begin(ts, task),
         UNCHANGED <<services, subs, created>>, TaskInv(task, services, offered),
         Found(task, services, subs), task.step \in CopySteps => task.owner \in Workers
  PROVE  UInv'
<1>1. DOMAIN active' = DOMAIN active \cup ts
  BY DEF Begin
<1>2. ASSUME NEW t \in DOMAIN active', NEW old,
             old = (IF t \in ts THEN task ELSE active[t])
      PROVE  /\ active'[t].step \in CopySteps => active'[t].owner \in Workers
             /\ active'[t].overlap
                  \/ (DOMAIN active' = {t} /\ Found(active'[t], services, subs))
  <2>1. /\ TaskInv(old, services, offered)
        /\ old.step \in CopySteps => old.owner \in Workers
        /\ old.overlap \/ Found(old, services, subs)
    BY <1>1, <1>2, TaskUInv DEF KInv
  <2>2. active'[t] = [old EXCEPT !.overlap = @ \/ DOMAIN active' # {t}]
    BY <1>1, <1>2 DEF Begin
  <2>3. /\ active'[t].step = old.step /\ active'[t].owner = old.owner
        /\ active'[t].serviceData = old.serviceData
        /\ active'[t].subServices = old.subServices
        /\ active'[t].list = old.list /\ active'[t].count = old.count
    BY <2>1, <2>2 DEF TaskInv
  <2>4. active'[t].overlap = (old.overlap \/ DOMAIN active' # {t})
    BY <2>1, <2>2 DEF TaskInv
  <2>5. Found(old, services, subs) => Found(active'[t], services, subs)
    BY <2>3, SMTT(60) DEF Found
  <2> QED
    BY <2>1, <2>3, <2>4, <2>5
<1>3. ASSUME NEW t \in DOMAIN active'
      PROVE  /\ active'[t].step \in CopySteps => active'[t].owner \in Workers
             /\ active'[t].overlap
                  \/ (DOMAIN active' = {t} /\ Found(active'[t], services, subs))
  BY <1>2
<1> QED
  BY <1>3, SameStored DEF UInv

LEMMA RequestsUInv ==
  ASSUME KInv, UInv,
         \/ \E t, service, sub, price : \E owner \in Companies \cup Individuals :
              addServicesby(t, owner, service, sub, price)
         \/ \E t, owner : addeditServices(t, owner)
         \/ \E ts : \E w \in Workers : addServicesbyCompanyToWorker(ts, w)
  PROVE  UInv'
<1>1. ASSUME NEW t, NEW owner \in Companies \cup Individuals, NEW service, NEW sub, NEW price,
             addServicesby(t, owner, service, sub, price)
      PROVE  UInv'
  <2> DEFINE step == IF ServicesOf(owner, service) = {} THEN "addService" ELSE "findOne"
             task == Task(step, owner, service, sub, price)
  <2>1. /\ step = "findOne" => HasService(services, owner, service)
        /\ step = "addService" => ~HasService(services, owner, service)
    BY DEF ServicesOf, HasService
  <2>2. step \in {"addService", "findOne"}
    OBVIOUS
  <2>3. Begin({t}, task) /\ UNCHANGED <<services, subs, created>>
    BY <1>1 DEF addServicesby
  <2> HIDE DEF step
  <2>4. TaskInv(task, services, offered)
    BY <2>1, <2>2 DEF TaskInv, Task
  <2>5. Found(task, services, subs) /\ task.step \notin CopySteps
    BY <2>1, <2>2 DEF Found, Task, CopySteps
  <2> HIDE DEF task
  <2> QED
    BY <2>3, <2>4, <2>5, BeginUInv, SMTT(60)
<1>2. ASSUME NEW t, NEW owner, addeditServices(t, owner)
      PROVE  UInv'
  <2> DEFINE task == Task("addServicesToProvider", owner, Null, Null, Null)
  <2>1. /\ Begin({t}, task) /\ UNCHANGED <<services, subs, created>>
        /\ \A d \in DOMAIN services : services[d].owner # owner
    BY <1>2 DEF addeditServices
  <2>2. ~HasService(services, owner, Null)
    BY <2>1 DEF HasService
  <2>3. TaskInv(task, services, offered)
    BY DEF TaskInv, Task
  <2>4. Found(task, services, subs) /\ task.step \notin CopySteps
    BY <2>2 DEF Found, Task, CopySteps
  <2> HIDE DEF task
  <2> QED
    BY <2>1, <2>3, <2>4, BeginUInv
<1>3. ASSUME NEW ts, NEW w \in Workers, addServicesbyCompanyToWorker(ts, w)
      PROVE  UInv'
  <2> DEFINE task == Task("findAny", w, Null, Null, Null)
  <2>1. Begin(ts, task) /\ UNCHANGED <<services, subs, created>>
    BY <1>3 DEF addServicesbyCompanyToWorker
  <2>2. TaskInv(task, services, offered)
    BY DEF TaskInv, Task
  <2>3. Found(task, services, subs) /\ task.owner \in Workers
    BY DEF Found, Task
  <2> HIDE DEF task
  <2> QED
    BY <2>1, <2>2, <2>3, BeginUInv
<1> QED
  BY <1>1, <1>2, <1>3

LEMMA NextUInv == KInv /\ UInv /\ [Next]_vars => UInv'
<1> SUFFICES ASSUME KInv, UInv, [Next]_vars PROVE UInv'
  OBVIOUS
<1>1. CASE UNCHANGED vars
  BY <1>1 DEF vars, UInv
<1>2. ASSUME NEW t \in Tasks, Step(t) PROVE UInv'
  <2>1. ASSUME copied(t) \/ serverError(t) PROVE UInv'
    <3>1. t \in DOMAIN active /\ End(t) /\ UNCHANGED <<services, subs, created>>
      BY <2>1 DEF copied, serverError, Copying, At
    <3> QED
      BY <3>1, SameStored, StepUInv
  <2> QED
    BY <1>2, <2>1, addServiceUInv, findOneUInv, addSubUInv, updateSubSrvicesUInv,
       findAnyUInv, getIndividualServicesListUInv, getServicesFromProviderUInv,
       allQueriesUInv, copySubUInv, copyErrorUInv, addServicesToProviderUInv, SMTT(60)
    DEF Step
<1> QED
  BY <1>1, <1>2, RequestsUInv, deleteUInv DEF Next

\* UInv holds in every behaviour.
THEOREM AloneInductive == Spec => []UInv
<1>1. Init => UInv
  BY DEF Init, UInv, UniqueServices, UniqueSubs
<1> QED
  BY <1>1, NextUInv, CatalogInductive, PTL DEF Spec

\* A provider has a second document for a service or a sub-service only from a
\* task that has overlapped with another, for any number of them.
THEOREM NoneDuplicated == Spec => []NoDuplicates
<1>1. UInv => NoDuplicates
  BY DEF UInv, UniqueServices, UniqueSubs, NoDuplicates
<1> QED
  BY <1>1, AloneInductive, PTL

\* A request that copies to a worker, that succeeds and that nothing overlaps
\* with, leaves the worker with exactly what companies offer of the service.
THEOREM CopiesComplete == Spec => CopyComplete
<1>1. UInv => [\A t \in DOMAIN active :
                 copied(t) /\ active[t].step = "copy" /\ ~active[t].overlap =>
                   LET offers(set) ==
                         {<<subs[d].subServices, subs[d].price>> :
                            d \in {e \in DOMAIN subs : /\ subs[e].owner \in set
                                                       /\ subs[e].serviceData
                                                            = active[t].serviceData}}
                   IN  offers({active[t].owner}) = offers(Companies)]_vars
  <2> SUFFICES ASSUME UInv, NEW t \in DOMAIN active, copied(t), active[t].step = "copy",
                      ~active[t].overlap
               PROVE  OfferedBy(subs, {active[t].owner}, active[t].serviceData)
                        = OfferedBy(subs, Companies, active[t].serviceData)
    BY DEF OfferedBy
  <2>1. Entries(active[t].list) = {}
    BY SMTT(60) DEF copied, Entries
  <2> QED
    BY <2>1, TaskUInv DEF Found
<1> QED
  BY <1>1, AloneInductive, PTL DEF CopyComplete

\* A provider's request that nothing overlaps with leaves its sub-service
\* stored at the price that it asked for.
THEOREM PricesStored == Spec => PriceStored
<1> DEFINE Stored(t) == \E d \in DOMAIN subs' :
                          /\ subs'[d].owner = active[t].owner
                          /\ subs'[d].serviceData = active[t].serviceData
                          /\ subs'[d].subServices = active[t].subServices
                          /\ subs'[d].price = active[t].price
<1>1. KInv /\ UInv => [\A t \in DOMAIN active :
                         (addSub(t) \/ updateSubSrvices(t)) /\ ~active[t].overlap =>
                           Stored(t)]_vars
  <2> SUFFICES ASSUME KInv, UInv, NEW t \in DOMAIN active, addSub(t) \/ updateSubSrvices(t),
                      ~active[t].overlap
               PROVE  Stored(t)
    OBVIOUS
  <2>1. Found(active[t], services, subs)
    BY TaskUInv
  <2>2. CASE addSub(t)
    <3>1. ~HasSub(subs, active[t].owner, active[t].serviceData, active[t].subServices)
      BY <2>1, <2>2 DEF Found, addSub, At
    <3>2. addSubservices(t, active[t].subServices, active[t].price)
      BY <2>2 DEF addSub
    <3>3. PICK n : NewDocument(n, t, active[t].subServices, active[t].price)
      BY <3>1, <3>2, NewSubUnique, SMTT(60)
    <3> QED
      BY <3>3 DEF NewDocument
  <2>3. CASE updateSubSrvices(t)
    <3>1. HasSub(subs, active[t].owner, active[t].serviceData, active[t].subServices)
      BY <2>1, <2>3 DEF Found, updateSubSrvices, At
    <3> QED
      BY <2>3, <3>1, PriceUpdated, SMTT(60)
  <2> QED
    BY <2>2, <2>3
<1> QED
  BY <1>1, AloneInductive, CatalogInductive, PTL DEF PriceStored
=============================================================================
