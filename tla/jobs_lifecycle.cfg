SPECIFICATION Spec
CONSTANTS
  r1 = r1
  r2 = r2
  company = company
  individual = individual
  worker = worker
  Null = Null
  Jobs = {j1}
  Users = {u1}
  Providers = {company, individual}
  Workers = {worker}
  Requests = {r1, r2}
  userType <- MCuserType
  companyData <- MCcompanyData
  Prices = {100}
  Percentages = {10}
  Payments = {100}
  ReportedStatus = {"Fail"}
  Coupons = {}
  Slots = {s1}
  Stars = {star1}
SYMMETRY RequestSymmetry
INVARIANT StatusHasEvidence
PROPERTIES StatusOrder ImplementsMilestones
