SPECIFICATION Spec
CONSTANTS
  Companies = {c1, c2}
  Phones = {p1, p2}
  Profiles = {f1}
  Requests = {r1, r2}
  MaxWorkers = 2
  Null = Null
SYMMETRY Symmetry
INVARIANTS
  OwnWorkersListed
  ListMatches
  OnePhonePerWorker
CHECK_DEADLOCK FALSE
