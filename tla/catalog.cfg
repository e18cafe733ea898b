SPECIFICATION Spec
CONSTANTS
  Companies = {c1}
  Individuals = {i1}
  Workers = {w1}
  Services = {s1}
  Subs = {u1}
  Prices = {p1, p2}
  Tasks = {t1, t2}
  MaxServices = 2
  MaxSubs = 3
  Null = Null
SYMMETRY Symmetry
INVARIANTS
  SubHasService
  WorkerOffersOffered
  NoDuplicates
PROPERTIES
  CopyComplete
CHECK_DEADLOCK FALSE
