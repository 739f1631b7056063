SPECIFICATION Spec
CONSTANTS
  k1 = k1  k2 = k2  m1 = m1  m2 = m2
  Keepers = {k1, k2}
  Markets = {m1, m2}
  Watched <- RaceWatched
  Slots = {1}
  BATCH_WINDOW = 2
  BATCH_POLL = 1
  MIN_BATCH_INTERVAL = 1
  SETTLED_TTL = 4
  PROVE_TIME = 1
  Windows = 1
  Prompt = FALSE
  MaxPoolChanges = 1
  MaxRegimeChanges = 0
  MaxExits = 1
  MaxFailures = 1
  MaxMixups = 1
  MaxSpoiled = 1
INVARIANTS
  TypeOK
  SettledIsOnChain
  RewardBookedOnce
CHECK_DEADLOCK FALSE
