SPECIFICATION FairSpec
CONSTANTS
  Batches = {b1, b2}
  Calls = {1, 2, 3}
  TIMEOUT = 1
  MaxTime = 2
  Simultaneous = TRUE
INVARIANTS
  TypeOK
  ProofIsOwn
  NothingLeftBehind
PROPERTIES
  EveryCallEnds
CHECK_DEADLOCK FALSE
