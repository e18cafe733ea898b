SPECIFICATION Spec
CONSTANTS
  Sentinel = {s1, s2, s3}
  Instance = {r1, r2, r3}
  Quorum = 2
  Bounds <- MCBounds
  NULL = NULL
SYMMETRY Symmetry
INVARIANTS
  VotesOnce
  OneLeaderPerEpoch
  AllFollowTheMaster
PROPERTIES
  ConfigMovesForward
CHECK_DEADLOCK FALSE
