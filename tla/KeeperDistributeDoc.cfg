SPECIFICATION FairSpec
CONSTANTS
  k1 = k1  k2 = k2  m1 = m1  m2 = m2
  Keepers = {k1}
  Markets = {m1}
  Watched <- OneWatched
  Slots = {1, 2}
  BATCH_WINDOW = 6
  BATCH_POLL = 1
  MIN_BATCH_INTERVAL = 2
  SETTLED_TTL = 12
  PROVE_TIME = 1
  Windows = 2
  Prompt = TRUE
  MaxPoolChanges = 0
  MaxRegimeChanges = 0
  MaxExits = 0
  MaxFailures = 1
  MaxMixups = 0
  MaxSpoiled = 1
PROPERTIES
  TradesDistributed
CHECK_DEADLOCK FALSE
