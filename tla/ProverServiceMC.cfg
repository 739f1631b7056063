SPECIFICATION Spec
CONSTANTS
  Batches <- FewBatches
  Ids = {i1}
  NoId = NoId
  None = None
  N_PYTH_CHECKPOINTS = 2
  Settings <- FewSettings
  U64_MAX = 15
  MaxLines = 3
INVARIANTS
  TypeOK
  HealthTruthful
  BackoffGrows
PROPERTIES
  QueueKept
  EveryLineAnswered
CHECK_DEADLOCK FALSE
