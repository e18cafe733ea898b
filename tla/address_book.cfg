SPECIFICATION Spec
SYMMETRY Symmetry
CONSTANTS
  Null = Null
  Users = {u1, u2}
  Requests = {r1, r2}
  Contents = {c1, c2}
  MaxAddresses = 3
INVARIANTS LoginShowsOwn AloneStayListed
