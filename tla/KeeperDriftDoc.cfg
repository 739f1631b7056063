SPECIFICATION FairSpec
CONSTANTS
  k1 = k1  k2 = k2  m1 = m1  m2 = m2
  Keepers = {k1}
  Markets = {m1}
  Watched <- OneWatched
  Slots = {1}
  BATCH_WINDOW = 4
  BATCH_POLL = 1
  MIN_BATCH_INTERVAL = 4
  SETTLED_TTL = 8
  PROVE_TIME = 1
  Windows = 3
  Prompt = TRUE
  MaxPoolChanges = 0
  MaxRegimeChanges = 0
  MaxExits = 0
  MaxFailures = 0
  MaxMixups = 0
  MaxSpoiled = 0
PROPERTIES
  PublishedSettled
CHECK_DEADLOCK FALSE
