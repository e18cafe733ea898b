SPECIFICATION FreshSpec
CONSTANTS
  r1 = r1
  r2 = r2
  company = company
  individual = individual
  worker = worker
  Null = Null
  Jobs = {j1}
  Users = {u1}
  Providers = {individual}
  Workers = {}
  Requests = {r1, r2}
  userType <- SoleUserType
  companyData <- NoCompanyData
  Prices = {20}
  Percentages = {0, 10}
  Payments = {20, 40}
  ReportedStatus = {"Fail"}
  Coupons = {"OTHER"}
  Slots = {s1}
  Stars = {star1, star2}
SYMMETRY RequestSymmetry
INVARIANTS PriceConsistent RevenueConsistent
PROPERTY ClosedJobsStayClosed
