SPECIFICATION Spec
CONSTANTS
  l1 = l1  l2 = l2  tr1 = tr1  tr2 = tr2  k1 = k1  k2 = k2  adm = adm
  m1 = m1  m2 = m2  b1 = b1  b2 = b2  a1 = a1  a2 = a2  a3 = a3
  Lps = {l1, l2}
  Traders = {tr1}
  Keepers = {k1, k2}
  Admin = adm
  NoKey = NoKey
  LpVault = LpVault
  TraderVault = TraderVault
  Markets = {m1}
  Batches = {b1}
  BatchMarket <- OneBatchMarket
  Trades = {a1}
  TradeBatch <- OneTradeBatch
  TradeTrader <- OneTradeTrader
  Stake <- OneStake
  Multiplier <- OneMultiplier
  NoReceipt = NoReceipt
  NoProof = NoProof
  MIN_BATCH_INTERVAL = 1
  MIN_REGIME_INTERVAL = 1
  WITHDRAW_TIMELOCK = 1
  KEEPER_FEE_BPS = 5000
  PROTOCOL_FEE_BPS = 5000
  U64_MAX = 13
  U32_MAX = 30000
  Genesis = 1
  PassedAs <- OwnAccounts
  StakesPassed <- AnyStakes
  InitialTokens <- OneTokens
  Amounts = {1, 2}
  Regimes = {1}
  MultiplierCaps = {10000, 15000}
  PauseCalls = {TRUE, FALSE}
  Releasable = {}
  Overwritable = {b1}
  MaxTime = 2
INVARIANTS
  TypeOK
  BooksMatchTokens
  SharesBacked
  FeesAccounted
PROPERTIES
  SettledOnce
  SharePriceKept
  SettledOnTerms
  FrozenWhilePaused
  LedgerKept
CHECK_DEADLOCK FALSE
