SPECIFICATION Spec
CONSTANTS
  Start <- StartDate
  End <- EndDate
  BookingDays = {1, 2, 28, 29, 30, 31}
  Providers = {p1}
  Workers = {w1}
  Amounts = {100}
  MaxJobs = 1
  Null = Null
INVARIANTS
  DailyCounts
  MonthlyCounts
