SPECIFICATION Spec
CONSTANTS
  Null = Null
  Ids = {1, 2}
  Phones = {p1}
  Issuers = {"USER", "PROVIDER"}
  Requests = {r1, r2}
  MaxTokens = 3
SYMMETRY RequestSymmetry
INVARIANTS EarlierSessionsEnd LoginWorks OneAccountPerPhone
