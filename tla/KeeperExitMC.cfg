SPECIFICATION FairSpec
CONSTANTS
  k1 = k1  k2 = k2  m1 = m1  m2 = m2
  Keepers = {k1}
  Markets = {m1}
  Watched <- OneWatched
  Slots = {1}
  BATCH_WINDOW = 11
  BATCH_POLL = 1
  MIN_BATCH_INTERVAL = 2
  SETTLED_TTL = 22
  PROVE_TIME = 1
  Windows = 2
  Prompt = TRUE
  MaxPoolChanges = 1
  MaxRegimeChanges = 1
  MaxExits = 1
  MaxFailures = 0
  MaxMixups = 0
  MaxSpoiled = 2
PROPERTIES
  PublishedSettled
  PublishedPaid
CHECK_DEADLOCK FALSE
