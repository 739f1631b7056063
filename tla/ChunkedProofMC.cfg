CONSTANTS
  U64_MAX = 127
  I64_MAX = 63
  BPS_DENOMINATOR = 10
  MAX_DEVIATION_BPS = 2
  MIN_TRADE_MULTIPLIER_BPS = 10
  N_PYTH_CHECKPOINTS = 3
  Files <- MCFiles
  ChunkSizes = {1, 2}
  ClaimedFiles <- MCClaimedFiles
  ProofLength = 3
  NoAggregate <- MCNoAggregate
SPECIFICATION Spec
INVARIANTS
  TypeOK
  ClaimsAreLeaves
  LeavesClaimable
  NearestTickIsNearest
  SettledOnLastClose
  MoneyConserved
  ProvedChunksAggregate
  AggregateIsWhole
  FeesNotAvoided
CHECK_DEADLOCK FALSE
