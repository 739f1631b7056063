SPECIFICATION Spec
CONSTANTS
  l1 = l1  l2 = l2  tr1 = tr1  tr2 = tr2  k1 = k1  k2 = k2  adm = adm
  m1 = m1  m2 = m2  b1 = b1  b2 = b2  a1 = a1  a2 = a2  a3 = a3
  Lps = {l1}
  Traders = {tr1, tr2}
  Keepers = {k1}
  Admin = adm
  NoKey = NoKey
  LpVault = LpVault
  TraderVault = TraderVault
  Markets = {m1}
  Batches = {b1, b2}
  BatchMarket <- TwoBatchMarket
  Trades = {a1, a2, a3}
  TradeBatch <- TwoTradeBatch
  TradeTrader <- TwoTradeTrader
  Stake <- TwoStake
  Multiplier <- TwoMultiplier
  NoReceipt = NoReceipt
  NoProof = NoProof
  MIN_BATCH_INTERVAL = 1
  MIN_REGIME_INTERVAL = 1
  WITHDRAW_TIMELOCK = 1
  KEEPER_FEE_BPS = 5000
  PROTOCOL_FEE_BPS = 5000
  U64_MAX = 13
  U32_MAX = 30000
  Genesis = 1
  PassedAs <- OwnAccounts
  StakesPassed <- TrueStakes
  InitialTokens <- PoolTokens
  Amounts = {1, 3}
  Regimes = {}
  MultiplierCaps = {20000}
  PauseCalls = {}
  Releasable = {}
  Overwritable = {}
  MaxTime = 2
PROPERTIES
  WithdrawalKeepsRatio
CHECK_DEADLOCK FALSE
