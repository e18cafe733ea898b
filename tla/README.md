# DoQwik: a TLA+ model of the server

DoQwik is a marketplace for home services. The server (`src/app`) is a
Node.js/Express program over MongoDB (Mongoose) and Redis (ioredis). Users book
jobs; providers, which are companies with workers or individuals, accept,
reject, start and finish them; payments are reported as they are made. The
repository carries the Redis server it runs with (`src/redis-stable`, 6.2.6),
whose sessions are only as good as its replication, failover and persistence;
these three are modelled too.

The server has one thread, but every handler is an `async` function, and at
each `await` other requests run. No handler uses a transaction or a conditional
update on what it has checked. The question this project asks throughout is
therefore: **which guarantees survive when the check and the update of one
request have other requests between them, and which are kept only by a request
that nothing overlaps?** Of Redis it asks what crashes, lost links and messages
in any order leave of what was promised.

## Inventory

| Part | Source (under `src/app`) | State | Modelled by |
|---|---|---|---|
| jobs API | `order/controllers/jobsController.js`, `jobServices.js`, `models/jobs.js` | the jobs collection | `Jobs`, `JobMilestones`, `FreshJobs` |
| booking and ids | `assignJob`, `counterService.js` | jobs, the counter `dqw_users` | `Booking`, `Counter` |
| accounts and sessions | `userController.js`, `userService.js`, `util/otp*.js`, `util/authCheck.js`, `util/*Cache.js` | users, providers, tokens in MongoDB and Redis | `Sessions` (one-time codes: planned) |
| address book | `userController.js`, `util/utility.js` | addresses, the user's list of them and the default | `AddressBook` |
| companies and workers | `providerController.js`, `removeRecords.js` | workers, the company's list, deletion records | `Company` |
| provider services | `providerController.js`, `individualController.js` | services and sub-services | `Catalog` |
| revenue reports | `getDailyRevenue`, `getMonthlyRevenue` | none (pure) | `Revenue` |
| notifications, mail, SMS | `notificationService.js`, `emailService.js` | notification records | planned (records), I/O (delivery) |
| common content, admin, plumbing | `commonController.js`, `backend/`, `app.js`, `util/` | almost none | not modelled |
| legacy orders | `orderController.js` | its routes are commented out | not modelled |
| Redis replication | `src/redis-stable/src/replication.c` | ids, offsets, backlog, links | `Replication` |
| Redis Sentinel | `sentinel.c` | epochs, votes, the failover | `Sentinel` (TILT, forced failover: not) |
| Redis append only file | `aof.c`, `bio.c`, parts of `server.c` | buffers, the file, the rewriting child | `AOF`, `DurableLog` |
| Redis Cluster, the rest of Redis | `cluster.c`, `server.c`, `t_*.c` | slots, keys | not modelled |
| web front end | `src/front-end/build` | compiled | not modelled |

`PROJECT.json` lists these with their status, and the hazards with their lines.

## The modules

**`Jobs`** is the core. `jobs` is the collection, a function from the `_id`s
created so far to documents; `pending[r]` is the `updateOption` (condition and
data) that request `r` has built and whose `findOneAndUpdate` it awaits. A
handler is an action that reads the job, checks it as the code does, and leaves
its `updateOption`; `updateData` applies one, to the document as it is *then*.
A handler that returns early changes nothing and is a stuttering step.
`serverError` is the catch block of every handler: the update is not made.
Field names are the schema's. Abstracted: timestamps (`Null` or `Now`), the
text of reasons and messages, images and coordinates; `slot` stands for
location, date and time; `revenue_amount` is in hundredths so that it is an
integer. The verification code of `jobStart` is given correctly: a wrong one is
an early return. `ReportedStatus` is what the body of `paymentUpdate` may say.

**`JobMilestones`** is the abstract specification: a job collects milestones
(placed, assigned/accepted/rejected, started, finished, reviewed), keeps them,
and reaches each only after those that must come before it. `Jobs` implements
it under the mapping `Milestones(doc)`, which reads the timestamps.

**`FreshJobs`** is `Jobs` with a history, `stale`, of the requests whose job has
changed since they read it. The early returns of the handlers promise things
(only an open job is rejected, a completed one stays paid) that a stale update
breaks; `FreshJobs` says that no other update does, while stale ones go on
being applied beside it.

**`Counter`** is `getSequence`, two database operations per call; **`Booking`**
is `assignJob` from the search for a duplicate to the insert, composed with the
counter through `INSTANCE`, with `register` as the counter's other client and
with what `Jobs` later does to an order's status and slot. Of the status only
`Processing` matters to the search; everything after it is `Left`. `overlap` and
`alone` are history: the requests in progress that another one overlapped, and
the orders of those that none did.

**`Sessions`** is registration, login and logout, of users and of providers. A
token is in Redis (`cache`), where `authCheck` compares it, and in the account's
document, from where a login reads back the token it answers with. Each of the
four accesses of `getUserLogin` is an action; `AfterStep` is their order. Both
`logout` handlers clear the token of a *user*, so a provider's document keeps
its token; the cache is what ends the session. The one-time code was checked
before, and no two tokens are made in the same millisecond. `answered` and
`ended` are history: what clients were given, and what must no longer work.

**`Company`** is a company's workers: the worker's document names the company,
and the company's array `workers` names the worker. `addWorker` writes back the
array that it read three awaits earlier. `delateWorker` stores a record of the
document, deletes it and pulls the entry, in this order. Arrays are modelled as
sets, since an `_id` is appended once. `hired` and `disturbed` are history.

**`Catalog`** is what providers offer: a document for a service, and one with a
price for each of its sub-services. `addServicesbyCompanyToWorker` starts a
task for each item, and its query carries no `condition`, so every task copies
the service of the first document of the collection (`findAny`), as offered by
any company; the model does the same. `addeditServices` stores a document
without a service, because the schema has no field `services`; for a worker, each
company may store one, since it searches for the worker and the company.

**`AddressBook`** is a user's addresses: documents of their own, and the array
`addressData` of their ids in the user's document, from which a login fills in
the addresses. `address` stores the document, answers, and leaves the array to
`addAddressIDtoUserProfile`, which nobody awaits: it may overlap with another
one, or fail unnoticed. `removeAddress` leaves the ids behind, and the searches
of `setDefaultAddress` and `edit_address` refuse nothing, because `find`
answers an array and an empty array is true: the answer "Address not found." is
never given. `edit_address` and `removeAddress` then change what their condition
finds, an address of this user, while `setDefaultAddress` stores the id in the
user's document without looking at it. The model does the same: the default may
be any id, of a removed address or of another user's, and no property is stated
of it. `LoginShowsOwn` is about the list `addressData`.

**`Revenue`** is the two reports, as functions of the collection and of today's
date. The clock counts days one by one and is the reference; the reports get
their windows from `Date(year, month, day)` as the code does. The properties
say exactly which jobs are counted, and so also which are not: those created in
the last 999 milliseconds of a day are in no daily window, and those created on
the last day of a month, after midnight, are in no monthly one, because
`new Date(year, month + 1, 0)` is the first instant of that day.

**`Replication`** is `replication.c`: `server[n]` has the fields of the C struct
that matter, and a C function that changes it is an operator from record to
record. A command counts for one unit of the offset, and a dataset is the
sequence of the writes that made it, so that two datasets are the same exactly
when the same writes were applied in the same order and to the same databases.
Merged into one step: connecting, the handshake, PSYNC and the answer of
`syncCommand`; `updateSlavesWaitingBgsave` and `sendBulkToSlave`; sending and
reading REPLCONF ACK. A replica that reconnects is served once the master has
freed its old client. Save points are configured, so a BGSAVE that loses its
replicas goes on. A full resynchronization may fail after the old dataset is gone
(`loadFails`), with the received file in the place of the old one or not.

**`Sentinel`** is `sentinel.c` for one master. Each function that the timer calls
for a state of the failover is an action, and what waits for time to pass may
happen at any time the timeouts allow. `disk` is what `sentinelFlushConfig` last
wrote and what a restarted Sentinel knows. `votes` and `elected` are history.
Asking for a vote, casting it and the reply are one step, whose reply may be
lost; a hello has the state of its sender when it is read; SLAVEOF reaches the
instance at once. The waiting times before `convertToSlave` are left out.
`sentinelSelectSlave` may pass over a replica that is up, for its priority, its
link or old INFO, and may find none at all.
Two things are assumed. Writing the configuration file succeeds: the code logs a
failure and tells its vote all the same, so that a Sentinel with a full disk that
restarts could vote twice, and `VotesOnce`, `OneLeaderPerEpoch` and their
theorems do not speak of that. And the Sentinels that `ObjectivelyDown` counts
find the master down at that moment, where the code counts replies up to five
seconds old; votes are cast without looking at it, and no property is about who
may start a failover. Not
modelled: TILT, SENTINEL FAILOVER and RESET, the discovery of other Sentinels.

**`AOF`** is the append only file: feeding, flushing and syncing it under the
three policies, the rewrite in a child that gets the differences through a
pipe, CONFIG SET appendonly, shutdown, crashes of the process and of the
machine, and what `loadAppendOnlyFile` makes of the file at the next start. A
flush may fail half-way, and its outcomes are a set; a crash may come before or
after the write of a flush. Assumed: a rename is durable at once; a child that
fails is always removed; a sync covers at least what was in the file when it was
asked for; the configuration file says `appendonly yes`, `aof-load-truncated yes`
and `aof-use-rdb-preamble yes`, and has no save points. **`DurableLog`** is what
it promises: a history that a crash takes back to a prefix, and under a strict
policy never behind what was answered.

`MCJobs`, `MCFreshJobs`, `MCSessions`, `MCCompany`, `MCCatalog`, `MCAddressBook`,
`MCRevenue`, `MCReplication`, `MCSentinel` and `MCAOF` give the modules their
small instances. The modules named
`...Proofs` hold the theorems. The operators with an underscore suffix
(`jobStart_Unchecked`, `Votes_X`, ...) are mutations: plausible mistakes, each of
which a property catches; they are not part of any specification.

## The runs

| Run | Shows |
|---|---|
| `jobs_lifecycle` | two overlapping requests, a company with a worker and an individual: `StatusHasEvidence`, `StatusOrder`, and the refinement `ImplementsMilestones` |
| `jobs_payments` | two overlapping requests, two percentages (zero is one), two payments, a price below the coupon's 30: `PriceConsistent`, `RevenueConsistent`; of updates that are not stale `ClosedJobsStayClosed` |
| `booking` | two overlapping requests, three orders: `IdsWithoutGaps`, `DuplicatesBounded`, that every booking is `Answered`, and what a request that nothing overlaps is promised, `AloneIdsStay` and `AloneNoDuplicate` |
| `sessions` | two overlapping requests, users and providers, three tokens: `EarlierSessionsEnd`, and what holds without overlap, `LoginWorks` and `OneAccountPerPhone` |
| `company` | two companies, two overlapping requests, failures at every access: `OwnWorkersListed`; without overlap or failure `ListMatches`, `OnePhonePerWorker` |
| `catalog` | a company, an individual and a worker, two tasks: `SubHasService`, `WorkerOffersOffered`; without overlap `NoDuplicates`, `CopyComplete` |
| `address_book` | two users, two overlapping calls, three addresses, failures after the answer: `LoginShowsOwn`, and for ids listed without overlap `AloneStayListed` |
| `revenue` | fifteen months with two changes of the year and a leap February: `DailyCounts`, `MonthlyCounts` |
| `replication` | two and three processes in every tree: `PartialResyncSafe`, `StreamConsistent`, `NoReplicaLeftBehind`, and of failovers `FailoverLosesNothing` |
| `sentinel` | three Sentinels, two and three instances: `VotesOnce`, `OneLeaderPerEpoch`, `ConfigMovesForward`, and at rest `AllFollowTheMaster` |
| `aof` | seven configurations: `LogComplete`, `RewriteTail`, `ShutdownKeepsAll`, the refinement `ImplementsDurableLog`, and the liveness properties `WrittenIsSynced`, `WaitEnds`, `WriteErrorCleared` |
| `aof_torn_tail` | violated: after a rewrite, an entry torn by a power loss makes the restart cut away the whole file, and the next one loses answered writes |

**What the code does against its own words.** `aof_torn_tail` shows the one
disagreement that is kept as a run: `valid_up_to` is 0 until a command *after*
the RDB preamble has been loaded, so a torn first command truncates the file to
nothing. (A second way to the same end: a command torn inside a transaction is
cut after the last command queued, which leaves an open MULTI.) Because of it,
the passing setups of `aof` do not combine torn entries with rewrites or
transactions. The other disagreements, which the formulas named here state and
TLC refutes when they are checked, are:

* `CompletedNotRejected` (`Jobs`): a rejection decided before the job was
  started and completed is applied afterwards; the message says "Completed job
  can not be reject."
* `AcceptedBeforeStart` (`Jobs`): `jobStart` starts a rejected job that nobody
  accepted; the message says "Please accept this job first."
* `NoDuplicateCreated` (`Booking`): two overlapping bookings create the order
  twice, though the second is to be answered "Duplicate Order".
* `ListedUntilDeleted` (`Company`): of two workers added by overlapping
  requests one disappears from the list ("Add worker id to Company data").
* `ElectedInOneEpoch` (`Sentinel`): `sentinelGetLeader` adds the vote of the
  Sentinel itself, cast in the epoch its failover began in, to votes of others
  in the epoch that is current now; the comment above it asks for a majority
  for the same epoch. Two leaders may then publish different masters under one
  configuration epoch. `OneLeaderPerEpoch` is therefore about elections whose
  epoch is still current.
* `promotedSlave` puts the configuration epoch back (`Sentinel`). Its code sets
  it to the epoch of the failover, under a comment that ends "(assuming there is
  not a newer one already available)", and does not look. With three epochs, a
  Sentinel that waits for its promotion can hear of a later failover that has
  promoted *its* master back: the address is its own, so it takes over the
  number alone and goes on. Its promotion then announces another master under
  the older epoch; the next hello raises the number again, and two masters are
  announced under one epoch, which no later hello tells apart.
  `ConfigMovesForward` therefore names `promotedSlave` as an exception, and
  `AllFollowTheMaster` is about states of one master per epoch. The two failovers
  of the run do not reach this. It came up when the proof of `ConfigForward`
  failed at that action; TLC then found it with three epochs, in 28 states.
* FAILOVER loses writes when the target restarts with an older file after it
  acknowledged them, and when it was re-pointed by REPLICAOF to a process that
  lags while its old client is still listed; `FailoverLosesNothing` excludes
  both.
* The takeover by a rewrite clears `aof_buf` but not `aof_last_write_status`, so
  a server that had a write error goes on refusing writes; `WriteErrorCleared`
  excludes it. A failed background sync is not tried again; `WrittenIsSynced`
  excludes it.

**Bounds.** Updates touch one document and handlers read one, so one job shows
every interleaving about it; two requests are the least that overlap, and a
third adds only updates that the second can already make (the proofs drop both
bounds). Booking stores at most `MaxOrders` orders and asks for no id beyond
`MaxId`; three of each let both requests repeat, duplicate and overtake one
another, including a counter that goes back; two slots and `MaxRescheduled` = 1
let an order be moved onto another. `sessions` has one phone
and two accounts: two registrations can race, or a user and a provider share
the phone; the third token lets a login follow two that overlapped. `company`
creates two workers, the least that one list can lose and two lists confuse.
`catalog` creates two service and three sub-service documents (an offer, its
duplicate and a copy) at two prices. `address_book` stores three addresses, so
that two can be lost or kept beside one listed before. `revenue` runs from
November 2023 to January 2025, creates one job on any of the first two or last
four days of a month, and pays, unpays or assigns it on any day; each job
matches a window on its own, so one shows which windows count it.

`replication` bounds a setup by its processes, writes and events (lost links,
failed BGSAVEs, commands, restarts), with a backlog of two commands, so that
both sides of its limit are reached; runs up to 11.8 million states with more
of each were made when the module was written. `sentinel` bounds epochs, faults,
recoveries, restarts and lost replies; `AllFollowTheMaster` says nothing of
states in which a failover would need an epoch beyond the bound. `aof` gives
each configuration budgets of writes, rewrites, saves, switches, faults and
crashes, and a pipe that holds one entry (two were tried as well).

Properties that need requests not to overlap or fail are stated with a history
variable (`overlap`, `alone`, `stale`, `disturbed`) instead of a serial run of
their own, so that what is promised to one request is checked while others overlap.

**Fairness.** `booking` assumes `WF(Step(r))`, for every request: Node runs the
continuation of an `await` that has been answered, and the database answers,
with a result or an error. `aof` assumes weak fairness of the event loop and its
timer (`tick`, `beforeSleep`, `startScheduledRewrite`, the handlers of children
that ended), of the sync thread and of the steps of the child, which run on by
themselves; none of commands, faults or restarts. The safety properties assume
none. "At rest" in `NoReplicaLeftBehind` and `AllFollowTheMaster` is stated with
`ENABLED` over the steps that processes take by themselves.

## The proofs

TLAPS proves, for any sets of jobs, users, providers, workers and requests,
from the assumptions named in the modules (constants have their types, `Null` is
not a value):

* `TypeCorrect`, `StatusEvidence`, `PriceAgreement`, `RevenueAgreement`,
  `WorkerEmployed`: the invariants of `jobs_lifecycle` and `jobs_payments`;
* `StatusOrdered`: the action property `StatusOrder`;
* `MilestonesImplemented`: `Spec => Contract!Spec`, the refinement;
* `CounterNoGaps`: `getSequence` leaves no gap; `CounterImplemented`: `Booking`
  implies `Counter`'s specification, from which `IdsHaveNoGaps` follows;
* `AloneIdsKept`, `AloneCreatesNoDuplicate`: what a booking that nothing
  overlaps is promised, whatever overlaps before and after it;
  `DuplicatesStayBounded`: how far the search limits those that do overlap;
* `ClosedStayClosed`, `CompletedPaid`, `ReplyKeeps`: the promises of the early
  returns, for every update that is not stale;
* `SessionsTypeCorrect`, `EarlierSessionsEnded`, `OnlyCachedAnswered`: no
  interleaving of logins, logouts and failures lets an earlier session go on;
  `LoginsWork`, `PhonesHaveOneAccount`: what a login and a registration that
  nothing overlaps are promised;
* `CompanyTypeCorrect`, `OnlyOwnWorkersListed`, `AllDeletedRecorded`; without
  overlap or failure `ListsMatch`, `PhonesUnique`;
* `SubsHaveServices`, `WorkersOfferOffered`: what a stored sub-service rests on;
  without overlap `NoneDuplicated`, `CopiesComplete`, `PricesStored`;
* `OwnShown`, `AloneListed`, `RemovedForGood`: the list that a login shows;
* `VotesOnceAlways`, `OneLeaderAlways`, `ConfigForward`: the elections and the
  configurations of any number of Sentinels;
* `RewriteTailAlways`: what a rewrite of the append only file hands over;
* `LogCompleteAlways`, `ShutdownKeepsAllAlways` and `RefinesDurableLog`, the
  refinement of `DurableLog`: that the append only file keeps what it promises,
  for every policy and budget and for logs, buffers and pipes of any length.
  They assume `Separate`: a configuration with torn entries has no rewrites,
  switches or transactions.

The invariants of `Jobs` are not inductive because they say nothing of awaited
updates. `IInv` adds to them `UpdateInv`: whatever the document has become, an
awaited update still keeps the invariant of documents. This works because the
facts that a handler relies on are *stable*: a job that has left `Processing`
never returns, one that has a start or a finish time keeps it, and price and
percentage never change. Facts that are not stable (the job is `Start` now) are
exactly the ones that `FreshJobs` is about: its invariant `FInv` adds that an
awaited update which is not stale is one that its handler would decide on the
job as it is (`Decided`). The proof of `IInv` has
one lemma per kind of update (`...Permitted`), one that an update satisfying
`UpdateInv` keeps documents (`UpdateKeepsDocInv`) and one that it keeps the
other awaited updates (`UpdateKeepsUpdateInv`). For the counter, `NoGaps`
becomes inductive once it covers what the calls in progress have read. For
bookings without overlap, `BInv` says that a request which nothing has
overlapped is the only one in progress and has the last id written, and that
every id in progress is above those of orders booked alone; `Searched` says
that such a request still finds no duplicate. `DuplicatesBounded` becomes
inductive (`DInv`) when the bookings that have searched and not yet stored are
counted with the orders stored: a search adds to the first only if the second
is empty, and an insert moves one over. It is the one place where
`BookingAssumption` needs `Requests` to be finite.

That earlier sessions end is not inductive: a login that is still to cache its
token could have made it before another one ended. `SInv` adds that a token
still to be cached is in no answer and in no document (it is cached before it
is stored, and stored before it is answered), that no two requests have the
same token, and that a request which has cleared the cache since it began can
find there only tokens that were not among those it ends. The order of the
accesses in `getUserLogin` is all that this rests on; the mutation that stores
the token first breaks it. `KInv` of `SessionsProofs` is about the requests that
nothing overlaps: the overlap flag marks both of two requests for a phone, so a
login without it is the only one that writes its account, and finds written what
its earlier steps wrote (`Written`); a registration without it still counts no
account (`Unregistered`).

For the company, `CInv` adds what the requests have in hand: an awaited array
has only the company's workers, and a request about to delete a worker has its
record stored. For a company that is not disturbed, `LInv` says by how much list
and workers differ in the middle of its one request: `addWorker` has a worker
that is not listed yet, `delateWorker` a listed one that is gone (`Consistent`).
`PInv` is about phones: an `addWorker` that nothing has overlapped is the only
request in progress, and what it has counted is still so.

For the catalogue, `KInv` rests on what only grows: services and offers are
never forgotten, so a task about to store a sub-service still has its service,
and what a copy has listed was offered. `UInv` is about tasks that nothing
overlaps: what such a task has found, or not found, is still so (`Found`), and
what is left of a copy together with what the worker has is what the companies
offer. A task without the mark is the only one in progress, so no other step
changes what it has found.

For the addresses, `OwnShown` rests on lists in hand: one that was read, however
long ago, has only addresses of the user it will be written to. `AInv` says that
an id listed alone is also on every list that has been read and is still to be
written; it holds because whoever had not read it was about to write as well
when the id was listed, and then it was not listed alone.

For Sentinel, `IInv` says that the votes and epochs in memory, in the file and in
the replies a Sentinel has collected agree with the votes that were cast, and
that no Sentinel has an epoch below one it voted in. A restart then cannot make
it vote again, because the file is written before the reply; and as two
majorities share a voter, two leaders of one epoch would share a vote. `MInv`,
for `ConfigForward`, says that the file names the master that is announced, so
that a restart, which goes on with what the file has, does not change it; every
other step either leaves it alone or raises the epoch, except `promotedSlave`, as
described above.

For the append only file, `RewriteTail` is inductive with the types and one more
fact: a server without a rewriting child has no differences left over. Without
it the next rewrite would begin with entries that its snapshot already has. The
three ways a child ends, the cleanup of a finished or failed rewrite and
`stopAppendOnly`, are where it could go wrong.

`LogComplete` needs much more: what the file and the differences of a rewrite
load to, at any time and after any crash. `LInv` says it of the file with the
server's buffer (`TheLog`) and of the child's file with the differences in the
child, the pipe and the server (`Diff`). Both are *kept*: they load to a prefix
of the dataset. The one that the server feeds is *current*: it loads to the
dataset, with the database selected that the server believes to be selected
(`aof_selected_db`), so that the next command goes where it was executed. What
remains of a log after a crash must load well too, so a kept log is *regular*:
each of its beginnings loads to whole transactions, every entry only adds to
what was loaded before, and a transaction is closed before the next one opens.
If a crash leaves an open transaction, the restart cuts the log at its MULTI
(`BeforeMulti`), and `OpenTransaction` shows that the cut loads to the same
dataset. That commands and transactions keep a current log current is
`CurrentFed`; the rest of the proof is that a flush, whole or short, moves
entries from the buffer to the file, a rewrite from the server through the pipe
to the child, and that a takeover replaces one current log by another.

`TornInv` and the assumption `Separate` keep torn entries away from preambles
and transactions. They are needed: `aof_torn_tail` is a counterexample without
them. All seven setups of the run `aof` satisfy `Separate`.

`ShutdownKeepsAll` and `RefinesDurableLog` rest on `AInv`: what was answered is
contained in what the file is sure to load to (`AckInv`), which is the synced
part under `always` and the written part under the other policies (`Durably`).
Under `always` this needs `SyncInv`: nothing is left to the fsync thread, and
whatever waits for its answer is still in the buffer or already synced, so that
`beforeSleep` cannot answer before it has flushed. `DurableStep` then maps every
action to a step of `DurableLog` or to none.

The recursion in `Replayed` is over the length of the log. The library's
induction theorems cannot be instantiated here, but `WFMin`, which speaks of
sets, can: `Induction` is derived from it, for sets of numbers, and each fact
that needs induction (that loading a longer log is loading one entry more,
`AfterAppend`; `Monotone`; `OpenTransaction`) defines its set. `LInv` and `AInv`
were checked with TLC before they were proved: on the setups of `aof`, and on
larger ones with 6 million states.

In the longer proofs (`InvNext`, `TornNext`, `LCommand`, `LRewrite`, `LRestart`,
`DurableNext`) the facts that only one theorem needs are named steps of its
proof, such as `<1>AShutDown`, not lemmas of their own: that keeps them out of
the context of all later ones.

A leaf is left to Zenon (`USE ZenonT(60)` at the head of each module) unless it
names SMT, for arithmetic and sequences, or PTL. The translation to SMT is what
takes the time, not Z3, and it slows down the leaves that follow. Concatenations
of three sequences make Z3 loop; they are rewritten by `ConcatAssoc` and
`ConcatEntries`. From nothing, `tlapm` needs one or two minutes for each module
and about twenty for `AOFProofs`.

Only model-checked: the liveness properties (`Answered`, `WrittenIsSynced`,
`WaitEnds`, `WriteErrorCleared`), and `NoReplicaLeftBehind` and
`AllFollowTheMaster`, which speak of `ENABLED`: both are out of the prover's
reach. Of `Revenue` and `Replication` nothing is proved; of `Booking`, `Catalog`
and `AddressBook` not the type invariants as they stand in the modules.

## Plan

1. One-time codes: generation, the minute between two, expiry and check.
2. Compose `Company` with `Jobs`: a worker may be deleted while it has a job, so
   `companyData` becomes a variable there.
3. The stored notifications of a job, against the job's milestones.
4. The paged job lists, and the month windows of the admin dashboard beside
   those of `Revenue`.
5. Prove the safety properties of `Replication`, whose inductive invariants have
   to relate the offsets of every replica to the histories of its masters.
