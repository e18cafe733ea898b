------------------------------ MODULE Revenue ------------------------------
(***************************************************************************)
(* The revenue reports of a provider or a worker (jobsController.js):      *)
(* getDailyRevenue sums the paid jobs of each day of the current month so  *)
(* far, getMonthlyRevenue those of each of the last twelve months.  Both   *)
(* compute windows of time from today's date with Date(year, month, day),  *)
(* which takes a month of 12 and a day of 0.                               *)
(*                                                                         *)
(* The clock is the reference: it counts days, months and years one after  *)
(* the other, and a job remembers the date that it was created on.  A day  *)
(* has three instants, since no more are told apart: midnight, the time    *)
(* to 23:59:59, and the last 999 milliseconds.  The time zone is one       *)
(* without summer time, and creationDate and createdAt are the same time.  *)
(* Of payment statuses the reports tell Success from the others.           *)
(***************************************************************************)
EXTENDS Integers, FiniteSets, FiniteSetsExt

CONSTANTS
  Start,         \* the first of the month in which the clock starts
  End,           \* bound: the date on which it stops
  BookingDays,   \* bound: the days of a month on which jobs are created
  Providers,
  Workers,
  Amounts,
  MaxJobs,       \* bound: the jobs that are created
  Null

VARIABLES
  currDate,      \* the clock: year, month and day
  today,         \* the same day as a number
  jobs           \* the jobs collection: documents by number

vars == <<currDate, today, jobs>>

\* Midnight, the time to 23:59:59, and the last 999 milliseconds of a day.
Instants == 0 .. 2

-----------------------------------------------------------------------------
(* Dates.  Months are counted from 0, days from 1. *)

IsLeap(y) == (y % 4 = 0 /\ y % 100 # 0) \/ y % 400 = 0

DaysIn(y, m) ==
  CASE m = 1 -> IF IsLeap(y) THEN 29 ELSE 28
    [] m \in {3, 5, 8, 10} -> 30
    [] OTHER -> 31

\* The number of the first day of each month.
MonthStart ==
  [y \in Start.year - 1 .. End.year + 1, m \in 0 .. 11 |->
     365 * y + (y + 3) \div 4 - (y + 99) \div 100 + (y + 399) \div 400
       + MapThenSumSet(LAMBDA k : DaysIn(y, k), 0 .. m - 1)]

\* new Date(y, m, d, ...), as a time: m may be 12 and d may be 0.
Date(y, m, d, instant) ==
  3 * (MonthStart[y + m \div 12, m % 12] + d - 1) + instant

-----------------------------------------------------------------------------
(* The clock, and what happens to jobs *)

Init ==
  /\ currDate = Start
  /\ today = MonthStart[Start.year, Start.month]
  /\ jobs = [n \in {} |-> Null]

\* Midnight passes.
NextDay ==
  /\ currDate # End
  /\ today' = today + 1
  /\ currDate' =
       IF currDate.day < DaysIn(currDate.year, currDate.month)
       THEN [currDate EXCEPT !.day = @ + 1]
       ELSE IF currDate.month < 11
       THEN [currDate EXCEPT !.day = 1, !.month = @ + 1]
       ELSE [year |-> currDate.year + 1, month |-> 0, day |-> 1]
  /\ UNCHANGED jobs

\* assignJob creates a job; "created" is history.
assignJob ==
  /\ Cardinality(DOMAIN jobs) < MaxJobs
  /\ currDate.day \in BookingDays
  /\ \E provider \in Providers, amount \in Amounts, instant \in Instants :
       jobs' = [n \in 1 .. Cardinality(DOMAIN jobs) + 1 |->
                  IF n \in DOMAIN jobs THEN jobs[n] ELSE
                    [providerData |-> provider, workerData |-> Null,
                     amount |-> amount, paymentStatus |-> "Other",
                     creationDate |-> 3 * today + instant,
                     created |-> currDate, instant |-> instant]]
  /\ UNCHANGED <<currDate, today>>

assignJobToWorker(n) ==
  /\ \E w \in Workers : jobs' = [jobs EXCEPT ![n].workerData = w]
  /\ UNCHANGED <<currDate, today>>

\* A payment is reported, on this day or much later.  A report of a failed
\* one may overwrite Success (Jobs.tla says when).
paymentUpdate(n) ==
  /\ \E status \in {"Success", "Other"} :
       jobs' = [jobs EXCEPT ![n].paymentStatus = status]
  /\ UNCHANGED <<currDate, today>>

Next ==
  \/ NextDay
  \/ assignJob
  \/ \E n \in DOMAIN jobs : assignJobToWorker(n) \/ paymentUpdate(n)

Spec == Init /\ [][Next]_vars

-----------------------------------------------------------------------------
(* The reports *)

\* The jobs that a user's reports are about.
Mine(user) ==
  {n \in DOMAIN jobs : IF user \in Workers THEN jobs[n].workerData = user
                       ELSE jobs[n].providerData = user}

amountOf(found) == MapThenSumSet(LAMBDA n : jobs[n].amount, found)

\* Mutation: the payment is not asked for.
revenueData_Unpaid(user, from, to) ==
  amountOf({n \in Mine(user) :
              jobs[n].creationDate >= from /\ jobs[n].creationDate <= to})

\* The pipeline: $match, and $group with the sum of what matched.
revenueData(user, from, to) ==
  amountOf({n \in Mine(user) : /\ jobs[n].creationDate >= from
                               /\ jobs[n].creationDate <= to
                               /\ jobs[n].paymentStatus = "Success"})

\* Each day of the current month, to today.
getDailyRevenue(user) ==
  [day \in 1 .. currDate.day |->
     revenueData(user, Date(currDate.year, currDate.month, day, 0),
                       Date(currDate.year, currDate.month, day, 1))]

\* Mutation: the year is not adjusted.
adjusted_SameYear(i) ==
  [year |-> currDate.year, month |-> (currDate.month - i) % 12]

\* The month i months ago, 0 <= i < 12.
adjusted(i) ==
  IF currDate.month - i < 0
  THEN [year |-> currDate.year - 1, month |-> currDate.month - i + 12]
  ELSE [year |-> currDate.year, month |-> currDate.month - i]

\* The last date is its first instant.
getFirstAndLastDateOfMonth(year, month) ==
  [firstDate |-> Date(year, month, 1, 0), lastDate |-> Date(year, month + 1, 0, 0)]

\* Each of twelve months, the current one first.
getMonthlyRevenue(user) ==
  [i \in 0 .. 11 |->
     LET dates == getFirstAndLastDateOfMonth(adjusted(i).year, adjusted(i).month)
     IN  revenueData(user, dates.firstDate, dates.lastDate)]

-----------------------------------------------------------------------------
(* Properties *)

\* The clock shows dates, and jobs have their fields.
TypeOK ==
  /\ currDate.month \in 0 .. 11
  /\ currDate.day \in 1 .. DaysIn(currDate.year, currDate.month)
  /\ \A n \in DOMAIN jobs :
       /\ jobs[n].providerData \in Providers
       /\ jobs[n].workerData \in Workers \cup {Null}
       /\ jobs[n].paymentStatus \in {"Other", "Success"}
       /\ jobs[n].creationDate <= 3 * today + 2

\* The paid jobs of a user among those created as "test" says.
Paid(user, test(_)) ==
  amountOf({n \in Mine(user) : jobs[n].paymentStatus = "Success" /\ test(jobs[n])})

\* The daily report counts a paid job under the day on which the clock stood
\* when it was created, if that was in this month, and under no other: the
\* windows of getDailyRevenue leave out the last 999 milliseconds of a day.
DailyCounts ==
  \A user \in Providers \cup Workers : \A day \in 1 .. currDate.day :
    getDailyRevenue(user)[day] =
      Paid(user, LAMBDA job : /\ job.created = [currDate EXCEPT !.day = day]
                              /\ job.instant < 2)

\* The months from the one in which a job was created to the current one.
MonthsAgo(job) ==
  12 * (currDate.year - job.created.year) + currDate.month - job.created.month

\* The job was created on the last day of its month, after midnight.
OnLastDay(job) ==
  /\ job.created.day = DaysIn(job.created.year, job.created.month)
  /\ job.instant > 0

\* The monthly report counts a paid job under the month in which it was
\* created, for twelve months and under no other, through the change of the
\* year and in leap years: but the windows of getFirstAndLastDateOfMonth end
\* as the last day begins, and jobs created on that day are in none.
MonthlyCounts ==
  \A user \in Providers \cup Workers : \A i \in 0 .. 11 :
    getMonthlyRevenue(user)[i] =
      Paid(user, LAMBDA job : MonthsAgo(job) = i /\ ~OnLastDay(job))

=============================================================================
