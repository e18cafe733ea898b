SPECIFICATION Spec
CONSTANTS
  Null = Null
  MaxOrders = 3
  MaxRescheduled = 1
  Contents = {c1}
  Slots = {s1, s2}
  Requests = {r1, r2}
  MaxId = 3
INVARIANTS IdsWithoutGaps DuplicatesBounded AloneIdsStay
PROPERTIES Answered AloneNoDuplicate
