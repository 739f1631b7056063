---------------------------- MODULE LedgerProofs ----------------------------
(***************************************************************************)
(* CarnotEngine implements TradeLedger: every instruction, tick, proof and *)
(* window end is a step of the ledger or leaves it as it is.  And it is    *)
(* the chain that Keeper assumes: every step is one a keeper may see.      *)
(***************************************************************************)
EXTENDS CarnotEngineProofs

\* What the guest commits to for a batch that is closed.
TruePayouts(b) == [t \in BatchTrades(b) |-> Payout(t)]

\* A proof, however old, and a receipt commit to the payouts that the close of
\* the batch's window decided: a closed batch gains neither trades nor winners.
PayoutsDecided ==
  \A b \in Batches :
    /\ proof[b] # NoProof =>
         b \in closed /\ proof[b].payouts_commitment = TruePayouts(b)
    /\ Settled(b) =>
         b \in closed /\ receipt[b].outputs.payouts_commitment = TruePayouts(b)

\* The variables the invariant speaks of.
decisionVars == <<accepted, closed, winners, proof, receipt>>

\* A window that has ended takes no trade.
LEMMA AcceptKeepsPayouts ==
  ASSUME PayoutsDecided, NEW t \in Trades, AcceptTrade(t)
  PROVE  PayoutsDecided'
<1>1. /\ UNCHANGED <<closed, winners, proof, receipt>>
      /\ accepted' = accepted \cup {t}
      /\ TradeBatch[t] \notin closed
  BY DEF AcceptTrade, lock_margin, settleVars, proofVars
<1>2. \A b \in closed : BatchTrades(b)' = BatchTrades(b)
  BY <1>1 DEF BatchTrades
<1>3. \A u : Payout(u)' = Payout(u)
  BY <1>1 DEF Payout, MaxPayout
<1>4. \A b \in closed : TruePayouts(b)' = TruePayouts(b)
  BY <1>2, <1>3 DEF TruePayouts
<1>5. QED
  BY <1>1, <1>4 DEF PayoutsDecided, Settled

\* The end of one window decides nothing about the trades of another.
LEMMA ClosingKeepsPayouts ==
  ASSUME PayoutsDecided, NEW b \in Batches, NEW won \in SUBSET Trades,
         CloseWindow(b, won)
  PROVE  PayoutsDecided'
<1>1. /\ UNCHANGED <<accepted, proof, receipt>>
      /\ closed' = closed \cup {b}
      /\ winners' = winners \cup won
      /\ b \notin closed
      /\ \A u \in won : TradeBatch[u] = b
  BY DEF CloseWindow, settleVars, proofVars, BatchTrades
<1>2. \A c \in closed : BatchTrades(c)' = BatchTrades(c)
  BY <1>1 DEF BatchTrades
<1>3. \A c \in closed : \A u \in BatchTrades(c) : Payout(u)' = Payout(u)
  BY <1>1 DEF Payout, MaxPayout, BatchTrades
<1>4. \A c \in closed : TruePayouts(c)' = TruePayouts(c)
  BY <1>2, <1>3 DEF TruePayouts
<1>5. QED
  BY <1>1, <1>4 DEF PayoutsDecided, Settled

\* Settling a batch writes the proof's own commitment into the receipt.
LEMMA SettlingKeepsPayouts ==
  ASSUME TypeOK, PayoutsDecided, NEW k \in Keepers, NEW b \in Batches,
         NEW own, NEW vault, verify_and_settle(k, b, own, vault)
  PROVE  PayoutsDecided'
<1>1. /\ UNCHANGED <<accepted, closed, winners, proof>>
      /\ proof[b] # NoProof
      /\ receipt' = [receipt EXCEPT ![b] =
                       [settled_at |-> now, keeper_pubkey |-> k, outputs |-> proof[b]]]
  BY DEF verify_and_settle, SettlementAccepted, ProofVerifies, envVars, tradeVars, proofVars
<1>2. \A c : TruePayouts(c)' = TruePayouts(c)
  BY <1>1 DEF TruePayouts, BatchTrades, Payout, MaxPayout
<1>3. receipt'[b].outputs = proof[b]
  BY <1>1 DEF TypeOK
<1>4. \A c \in Batches \ {b} : receipt'[c] = receipt[c]
  BY <1>1 DEF TypeOK
<1>5. QED
  BY <1>1, <1>2, <1>3, <1>4 DEF PayoutsDecided, Settled

\* A proof of a closed batch commits to the payouts of that batch.
LEMMA ProvingKeepsPayouts ==
  ASSUME TypeOK, PayoutsDecided, NEW b \in Batches, Prove(b)
  PROVE  PayoutsDecided'
<1>1. /\ UNCHANGED <<accepted, closed, winners, receipt>>
      /\ b \in closed
      /\ proof' = [proof EXCEPT ![b] = PublicOutputs(b)]
  BY DEF Prove, tradeVars, settleVars
<1>2. \A c : TruePayouts(c)' = TruePayouts(c)
  BY <1>1 DEF TruePayouts, BatchTrades, Payout, MaxPayout
<1>3. PublicOutputs(b).payouts_commitment = TruePayouts(b)
  BY DEF PublicOutputs, TruePayouts
<1>4. QED
  BY <1>1, <1>2, <1>3 DEF PayoutsDecided, Settled, TypeOK

-----------------------------------------------------------------------------
\* Every other step leaves the decisions alone.
LEMMA StepPayouts == TypeOK /\ PayoutsDecided /\ [Next]_vars => PayoutsDecided'
<1> SUFFICES ASSUME TypeOK, PayoutsDecided, [Next]_vars PROVE PayoutsDecided'
  OBVIOUS
<1>1. CASE UNCHANGED decisionVars
  BY <1>1 DEF decisionVars, PayoutsDecided, Settled, TruePayouts, BatchTrades, Payout,
              MaxPayout
<1>2. CASE KeeperStep
  <2>1. CASE \E t \in Trades : ReleaseTrade(t)
    BY <1>1, <2>1 DEF ReleaseTrade, unlock_margin, settleVars, proofVars, decisionVars
  <2>2. CASE \E m \in Markets, regime \in Regimes, cap \in MultiplierCaps :
               update_market(keeper, m, regime, cap)
    BY <1>1, <2>2 DEF update_market, envVars, tradeVars, proofVars, settleVars, decisionVars
  <2>3. QED
    BY <1>2, <2>1, <2>2, AcceptKeepsPayouts, SettlingKeepsPayouts DEF KeeperStep
<1>3. CASE LpStep \/ TraderStep \/ AdminStep \/ ClaimStep \/ UNCHANGED vars
  <2>1. UNCHANGED receipt /\ UNCHANGED envVars
    BY <1>3 DEF LpStep, TraderStep, AdminStep, ClaimStep, vars, lp_deposit,
       lp_withdraw, trader_deposit, trader_withdraw, admin_init, rotate_keeper, pause,
       unpause, set_paused, init_market, withdraw_protocol_fees, distribute_winnings,
       settleVars
  <2>2. QED
    BY <1>1, <2>1 DEF envVars, tradeVars, proofVars, decisionVars
<1>4. CASE EnvironmentStep
  <2>1. CASE Tick \/ \E b \in Batches : PriceAccountsChange(b)
    BY <1>1, <2>1 DEF Tick, PriceAccountsChange, tradeVars, proofVars, settleVars,
                      decisionVars
  <2>2. QED
    BY <1>4, <2>1, ClosingKeepsPayouts, ProvingKeepsPayouts DEF EnvironmentStep
<1>5. QED
  BY <1>2, <1>3, <1>4 DEF Next

-----------------------------------------------------------------------------
\* Steps of the ledger.

ledgerVars == <<accepted, closed, winners, receipt, claim_receipt, balance_usdt>>

\* A step that leaves these variables alone is a stutter of the ledger.
LEMMA LedgerStutters ==
  ASSUME UNCHANGED ledgerVars
  PROVE  UNCHANGED Ledger!vars
  BY DEF ledgerVars, Ledger!vars, SettledBatches, Settled

\* A margin deposit or withdrawal is the ledger's.
LEMMA TraderStepOfLedger ==
  ASSUME TypeOK, TraderStep
  PROVE  Ledger!Next
<1>1. UNCHANGED <<accepted, closed, winners, SettledBatches, claim_receipt>>
  BY DEF TraderStep, trader_deposit, trader_withdraw, envVars, tradeVars, proofVars, settleVars,
         SettledBatches, Settled
<1>2. \A tr \in Traders : balance_usdt[tr] \in Nat
  BY ParametersAreNat DEF TypeOK, U64
<1>3. ASSUME NEW tr \in Traders, NEW amount \in Amounts, NEW own,
             trader_deposit(tr, amount, own)
      PROVE  Ledger!Next
  <2>1. amount \in Nat /\ amount > 0
        /\ balance_usdt' = [balance_usdt EXCEPT ![tr] = @ + amount]
    BY <1>3, ModelInputs DEF trader_deposit, NonZero
  <2>2. /\ balance_usdt'[tr] > balance_usdt[tr]
        /\ balance_usdt' = [balance_usdt EXCEPT ![tr] = balance_usdt'[tr]]
    BY <1>2, <2>1 DEF TypeOK
  <2>3. Ledger!Deposit(tr)
    BY <1>1, <2>2 DEF Ledger!Deposit
  <2>4. QED
    BY <2>3 DEF Ledger!Next
<1>4. ASSUME NEW tr \in Traders, NEW amount \in Amounts, NEW own,
             trader_withdraw(tr, amount, own)
      PROVE  Ledger!Next
  <2>1. amount \in Nat /\ amount > 0
        /\ balance_usdt' = [balance_usdt EXCEPT ![tr] = @ - amount]
        /\ balance_usdt[tr] - amount \in U64
    BY <1>4, ModelInputs DEF trader_withdraw, NonZero, SafeSub
  <2>2. /\ 0 <= balance_usdt'[tr] /\ balance_usdt'[tr] < balance_usdt[tr]
        /\ balance_usdt' = [balance_usdt EXCEPT ![tr] = balance_usdt'[tr]]
    BY <1>2, <2>1, ParametersAreNat DEF TypeOK, U64
  <2>3. Ledger!Withdraw(tr)
    BY <1>1, <2>2 DEF Ledger!Withdraw
  <2>4. QED
    BY <2>3 DEF Ledger!Next
<1>5. QED
  BY <1>3, <1>4 DEF TraderStep

\* Accepting a trade places it.
LEMMA AcceptOfLedger ==
  ASSUME NEW t \in Trades, AcceptTrade(t)
  PROVE  Ledger!Next
<1>1. Ledger!Place(t)
  BY DEF AcceptTrade, lock_margin, settleVars, Ledger!Place, SettledBatches, Settled
<1>2. QED
  BY <1>1 DEF Ledger!Next

\* The end of a window is the ledger's.
LEMMA ClosingOfLedger ==
  ASSUME NEW b \in Batches, NEW won \in SUBSET Trades, CloseWindow(b, won)
  PROVE  Ledger!Next
<1>1. Ledger!EndWindow(b)
  BY DEF CloseWindow, BatchTrades, settleVars, traderVars, Ledger!EndWindow,
         SettledBatches, Settled
<1>2. QED
  BY <1>1 DEF Ledger!Next

\* A settlement settles its own batch, whose window has ended, and no other.
LEMMA SettlingOfLedger ==
  ASSUME TypeOK, PayoutsDecided, NEW k \in Keepers, NEW b \in Batches,
         NEW own, NEW vault, verify_and_settle(k, b, own, vault)
  PROVE  Ledger!Next
<1>1. /\ UNCHANGED <<accepted, closed, winners, claim_receipt, balance_usdt>>
      /\ proof[b] # NoProof
      /\ receipt[b] = NoReceipt
      /\ receipt' = [receipt EXCEPT ![b] =
                       [settled_at |-> now, keeper_pubkey |-> k, outputs |-> proof[b]]]
  BY DEF verify_and_settle, SettlementAccepted, ProofVerifies, BatchNotSettled, envVars, tradeVars, proofVars, traderVars
<1>2. receipt'[b] \in Receipts
  BY <1>1 DEF TypeOK, Receipts, verify_and_settle, SettlementAccepted, KeeperSigned
<1>3. receipt'[b] # NoReceipt
  BY <1>2, ReceiptsDiffer
<1>4. \A c \in Batches \ {b} : receipt'[c] = receipt[c]
  BY <1>1 DEF TypeOK
<1>5. SettledBatches' = SettledBatches \cup {b}
  BY <1>3, <1>4 DEF SettledBatches, Settled
<1>6. b \in closed \ SettledBatches
  BY <1>1 DEF PayoutsDecided, SettledBatches, Settled
<1>7. Ledger!Settle(b)
  BY <1>1, <1>5, <1>6 DEF Ledger!Settle
<1>8. QED
  BY <1>7 DEF Ledger!Next

\* A distribution pays the trade what the end of its window decided, less the
\* stake it is told.
LEMMA DistributionOfLedger ==
  ASSUME TypeOK, PayoutsDecided, NEW b \in Batches, NEW t \in Trades,
         NEW stake \in StakesPassed[t], distribute_winnings(b, t, stake)
  PROVE  Ledger!Next
<1> DEFINE paid == receipt[b].outputs.payouts_commitment[t]
           tr == TradeTrader[t]
<1>1. Settled(b) /\ t \in DOMAIN receipt[b].outputs.payouts_commitment
  BY DEF distribute_winnings, HasLeaf, Settled
<1>2. receipt[b].outputs.payouts_commitment = TruePayouts(b)
  BY <1>1 DEF PayoutsDecided
<1>3. t \in accepted /\ TradeBatch[t] = b /\ paid = Payout(t)
  BY <1>1, <1>2 DEF TruePayouts, BatchTrades
<1>4. paid \in Nat
  BY WinningsType DEF distribute_winnings
<1>5. /\ balance_usdt[tr] >= stake
      /\ balance_usdt' = [balance_usdt EXCEPT ![tr] = balance_usdt[tr] - stake + paid]
      /\ t \notin claim_receipt
      /\ claim_receipt' = claim_receipt \cup {t}
      /\ UNCHANGED <<accepted, closed, winners, receipt>>
  BY DEF distribute_winnings, NotClaimed, BalanceAfter, envVars, tradeVars, proofVars
<1>6. balance_usdt[tr] \in Nat /\ stake \in Nat
  BY TradesWellFormed, ModelInputs, ParametersAreNat DEF TypeOK, U64
<1>7. Ledger!Outcome(t, stake) = paid - stake
  BY <1>3, <1>6 DEF Ledger!Outcome, Payout
<1> HIDE DEF paid
<1>8. balance_usdt[tr] - stake + paid = balance_usdt[tr] + Ledger!Outcome(t, stake)
  BY <1>4, <1>6, <1>7
<1>9. b \in SettledBatches /\ UNCHANGED SettledBatches
  BY <1>1, <1>5 DEF SettledBatches, Settled
<1>10. Ledger!Pay(t, stake)
  BY <1>3, <1>5, <1>8, <1>9 DEF Ledger!Pay
<1>11. QED
  BY <1>10 DEF Ledger!Next

\* Every step of the engine is a step of the ledger or a stutter.
LEMMA StepOfLedger ==
  TypeOK /\ PayoutsDecided /\ [Next]_vars => [Ledger!Next]_(Ledger!vars)
<1> SUFFICES ASSUME TypeOK, PayoutsDecided, [Next]_vars
             PROVE  Ledger!Next \/ UNCHANGED Ledger!vars
  OBVIOUS
<1>1. CASE UNCHANGED ledgerVars
  BY <1>1, LedgerStutters
<1>2. CASE TraderStep
  BY <1>2, TraderStepOfLedger
<1>3. CASE KeeperStep
  <2>1. CASE \E t \in Trades : ReleaseTrade(t)
    BY <1>1, <2>1 DEF ReleaseTrade, unlock_margin, settleVars, proofVars, ledgerVars
  <2>2. CASE \E m \in Markets, regime \in Regimes, cap \in MultiplierCaps :
               update_market(keeper, m, regime, cap)
    BY <1>1, <2>2
    DEF update_market, envVars, tradeVars, proofVars, settleVars, traderVars, ledgerVars
  <2>3. QED
    BY <1>3, <2>1, <2>2, AcceptOfLedger, SettlingOfLedger DEF KeeperStep
<1>4. CASE LpStep \/ AdminStep \/ UNCHANGED vars
  <2>1. UNCHANGED ledgerVars
    BY <1>4 DEF LpStep, AdminStep, vars, lp_deposit, lp_withdraw, admin_init,
       rotate_keeper, pause, unpause, set_paused, init_market, withdraw_protocol_fees,
       envVars, tradeVars, proofVars, settleVars, traderVars, ledgerVars
  <2>2. QED
    BY <1>1, <2>1
<1>5. CASE ClaimStep
  BY <1>5, DistributionOfLedger DEF ClaimStep
<1>6. CASE EnvironmentStep
  <2>1. CASE Tick \/ \E b \in Batches : Prove(b) \/ PriceAccountsChange(b)
    BY <1>1, <2>1 DEF Tick, Prove, PriceAccountsChange, tradeVars, settleVars,
                      traderVars, ledgerVars
  <2>2. QED
    BY <1>6, <2>1, ClosingOfLedger DEF EnvironmentStep
<1>7. QED
  BY <1>2, <1>3, <1>4, <1>5, <1>6 DEF Next

\* The engine implements the ledger for every number of traders, trades and
\* batches, whatever accounts and stakes its callers pass: no proof, stale or
\* repeated, no order of calls and nobody else's action changes what a trade is
\* paid, its prize less the stake its distribution is told (admin.rs:69-122 and
\* 124-358, circuit/program/src/main.rs:184-258).
THEOREM LedgerCorrect == Spec => LedgerKept
<1>1. Init => PayoutsDecided
  BY DEF Init, PayoutsDecided, Settled
<1>2. Init => Ledger!Init
  BY DEF Init, Ledger!Init, SettledBatches, Settled
<1>3. QED
  BY <1>1, <1>2, StepPayouts, StepOfLedger, TypeCorrect, PTL
  DEF Spec, LedgerKept, Ledger!Spec

-----------------------------------------------------------------------------
\* The chain as the keepers see it.

\* What a keeper can tell of the chain.
seen == <<SettledBatches, last_batch_at, lp_total_deposited, regime_id, max_multiplier,
          claim_receipt>>

\* A batch without a receipt gets one, no sooner than the interval allows, with a
\* proof made for the pool and the regime of the moment.
BatchSeen(b) ==
  /\ b \notin SettledBatches /\ SettledBatches' = SettledBatches \cup {b}
  /\ now - last_batch_at >= MIN_BATCH_INTERVAL /\ last_batch_at' = now
  /\ proof[b] # NoProof
  /\ proof[b].pool_balance_before = lp_total_deposited
  /\ proof[b].market_regime_id = regime_id[BatchMarket[b]]
  /\ UNCHANGED <<regime_id, max_multiplier, claim_receipt>>

\* A trade of a settled batch is claimed.
ClaimSeen(t) ==
  /\ TradeBatch[t] \in SettledBatches /\ t \notin claim_receipt
  /\ claim_receipt' = claim_receipt \cup {t}
  /\ UNCHANGED <<SettledBatches, last_batch_at, lp_total_deposited, regime_id,
                 max_multiplier>>

\* The pool moves.
PoolSeen ==
  UNCHANGED <<SettledBatches, last_batch_at, regime_id, max_multiplier, claim_receipt>>

\* A market is created, or gets a later regime.
RegimeSeen(m) ==
  /\ max_multiplier[m] > 0 => regime_id'[m] > regime_id[m]
  /\ max_multiplier'[m] > 0
  /\ \A o \in Markets \ {m} :
       regime_id'[o] = regime_id[o] /\ max_multiplier'[o] = max_multiplier[o]
  /\ UNCHANGED <<SettledBatches, last_batch_at, lp_total_deposited, claim_receipt>>

\* The regime tells the terms: a proof of an earlier regime stays stale, and one
\* of the market's regime was made for the market's cap.
RegimeTells ==
  \A b \in Batches : proof[b] # NoProof =>
    LET m == BatchMarket[b] IN
    /\ max_multiplier[m] > 0
    /\ proof[b].market_regime_id <= regime_id[m]
    /\ proof[b].market_regime_id = regime_id[m] =>
         proof[b].market_max_multiplier = max_multiplier[m]

\* Before admin_init no batch has been settled at any time.
NoneBefore == keeper = NoKey => last_batch_at = 0

ViewInv == NoneBefore /\ RegimeTells

\* Later regimes only: what a proof was made for is behind the market for good.
LEMMA MarketTells ==
  ASSUME TypeOK, TypeOK', RegimeTells, NEW m \in Markets, RegimeSeen(m),
         UNCHANGED proof
  PROVE  RegimeTells'
<1>1. SUFFICES ASSUME NEW b \in Batches, proof[b] # NoProof
               PROVE  /\ max_multiplier'[BatchMarket[b]] > 0
                      /\ proof[b].market_regime_id <= regime_id'[BatchMarket[b]]
                      /\ proof[b].market_regime_id = regime_id'[BatchMarket[b]] =>
                           proof[b].market_max_multiplier = max_multiplier'[BatchMarket[b]]
  BY DEF RegimeTells
<1> DEFINE o == BatchMarket[b]
           r == proof[b].market_regime_id
<1>2. o \in Markets
  BY TradesWellFormed
<1>3. /\ max_multiplier[o] > 0 /\ r <= regime_id[o]
      /\ r = regime_id[o] => proof[b].market_max_multiplier = max_multiplier[o]
  BY <1>1 DEF RegimeTells
<1>4. r \in Nat /\ regime_id[o] \in Nat
  <2>1. proof[b] \in Outputs
    BY <1>1 DEF TypeOK
  <2> QED BY <1>2, <2>1 DEF TypeOK, Outputs
<1>5. CASE o = m
  <2>1. regime_id'[o] > regime_id[o] /\ max_multiplier'[o] > 0
    BY <1>3, <1>5 DEF RegimeSeen
  <2>2. regime_id'[o] \in Nat
    BY <1>2 DEF TypeOK
  <2> QED BY <1>3, <1>4, <2>1, <2>2
<1>6. CASE o # m
  BY <1>2, <1>3, <1>6 DEF RegimeSeen
<1> QED BY <1>5, <1>6

\* A proof is made for the market of the moment, which its trades' cap shows to exist.
LEMMA ProvingTells ==
  ASSUME TypeOK, RegimeTells, NEW b \in Batches, Prove(b)
  PROVE  RegimeTells'
<1> DEFINE m == BatchMarket[b]
<1>1. /\ UNCHANGED <<regime_id, max_multiplier>>
      /\ proof' = [proof EXCEPT ![b] = PublicOutputs(b)]
      /\ GuestAccepts(b)
  BY DEF Prove, marketVars
<1>2. PublicOutputs(b).market_regime_id = regime_id[m]
      /\ PublicOutputs(b).market_max_multiplier = max_multiplier[m]
  BY DEF PublicOutputs
<1>3. max_multiplier[m] > 0 /\ regime_id[m] \in Nat
  <2>1. m \in Markets
    BY TradesWellFormed
  <2>2. PICK t \in BatchTrades(b) :
          Multiplier[t] \in MIN_TRADE_MULTIPLIER_BPS .. max_multiplier[m]
    BY <1>1 DEF GuestAccepts
  <2>3. max_multiplier[m] \in Nat /\ regime_id[m] \in Nat
    BY <2>1 DEF TypeOK
  <2> QED BY <2>2, <2>3 DEF MIN_TRADE_MULTIPLIER_BPS
<1>4. \A c \in Batches : proof'[c] = IF c = b THEN PublicOutputs(b) ELSE proof[c]
  BY <1>1 DEF TypeOK
<1>5. SUFFICES ASSUME NEW c \in Batches, proof'[c] # NoProof
               PROVE  /\ max_multiplier[BatchMarket[c]] > 0
                      /\ proof'[c].market_regime_id <= regime_id[BatchMarket[c]]
                      /\ proof'[c].market_regime_id = regime_id[BatchMarket[c]] =>
                           proof'[c].market_max_multiplier = max_multiplier[BatchMarket[c]]
  BY <1>1 DEF RegimeTells
<1>6. CASE c = b
  BY <1>2, <1>3, <1>4, <1>6
<1>7. CASE c # b
  BY <1>4, <1>5, <1>7 DEF RegimeTells
<1> QED BY <1>6, <1>7

\* A new regime of a market changes nothing else that is seen.
LEMMA MarketIsSeen ==
  ASSUME TypeOK, NEW m \in Markets, NEW regime \in Nat, NEW cap \in Nat,
         init_market(Admin, m, regime, cap) \/ update_market(keeper, m, regime, cap)
  PROVE  RegimeSeen(m) /\ UNCHANGED <<proof, globalVars>>
<1>1. /\ regime_id' = [regime_id EXCEPT ![m] = regime]
      /\ max_multiplier' = [max_multiplier EXCEPT ![m] = cap]
      /\ cap > 0
      /\ max_multiplier[m] > 0 => regime > regime_id[m]
      /\ UNCHANGED <<globalVars, vaultVars, settleVars, proof>>
  BY DEF init_market, update_market, apply_params, envVars, proofVars, TypeOK
<1>2. UNCHANGED <<SettledBatches, last_batch_at, lp_total_deposited, claim_receipt>>
  BY <1>1 DEF globalVars, vaultVars, settleVars, SettledBatches, Settled
<1>3. /\ regime_id'[m] = regime /\ max_multiplier'[m] = cap
      /\ \A o \in Markets \ {m} :
           regime_id'[o] = regime_id[o] /\ max_multiplier'[o] = max_multiplier[o]
  BY <1>1 DEF TypeOK
<1> QED BY <1>1, <1>2, <1>3 DEF RegimeSeen

\* A settlement is seen as one.
LEMMA SettlingIsSeen ==
  ASSUME TypeOK, NEW k \in Keepers, NEW b \in Batches, NEW own, NEW vault,
         verify_and_settle(k, b, own, vault)
  PROVE  BatchSeen(b) /\ keeper # NoKey /\ UNCHANGED <<keeper, proof>>
<1>1. /\ SettlementAccepted(k, b, vault)
      /\ receipt' = [receipt EXCEPT ![b] =
           [settled_at |-> now, keeper_pubkey |-> k, outputs |-> proof[b]]]
      /\ last_batch_at' = now
      /\ UNCHANGED <<keeper, claim_receipt, regime_id, max_multiplier, proof>>
  BY DEF verify_and_settle, marketVars, envVars, proofVars
<1>2. /\ proof[b] # NoProof /\ receipt[b] = NoReceipt /\ keeper # NoKey
      /\ now - last_batch_at >= MIN_BATCH_INTERVAL
      /\ proof[b].pool_balance_before = lp_total_deposited
      /\ proof[b].market_regime_id = regime_id[BatchMarket[b]]
  BY <1>1 DEF SettlementAccepted, ProofVerifies, BatchNotSettled, NotPaused, BatchDue, Elapsed,
              OutputsMatchChain
<1>3. receipt'[b] # NoReceipt
  <2>1. [settled_at |-> now, keeper_pubkey |-> k, outputs |-> proof[b]] \in Receipts
    BY <1>2 DEF TypeOK, Receipts
  <2> QED BY <1>1, <2>1, ReceiptsDiffer DEF TypeOK
<1>4. \A c \in Batches : c # b => receipt'[c] = receipt[c]
  BY <1>1 DEF TypeOK
<1>5. b \notin SettledBatches /\ SettledBatches' = SettledBatches \cup {b}
  BY <1>2, <1>3, <1>4 DEF SettledBatches, Settled
<1> QED BY <1>1, <1>2, <1>5 DEF BatchSeen

\* A claim is of a trade of the batch whose receipt it goes by.
LEMMA ClaimIsSeen ==
  ASSUME TypeOK, PayoutsDecided, NEW b \in Batches, NEW t \in Trades,
         NEW stake \in StakesPassed[t], distribute_winnings(b, t, stake)
  PROVE  ClaimSeen(t) /\ UNCHANGED <<keeper, proof>>
<1>1. /\ HasLeaf(b, t) /\ NotClaimed(t) /\ claim_receipt' = claim_receipt \cup {t}
      /\ UNCHANGED <<receipt, globalVars, marketVars, vaultVars, proof>>
  BY DEF distribute_winnings, envVars, proofVars
<1>2. receipt[b].outputs.payouts_commitment = TruePayouts(b) /\ receipt[b] # NoReceipt
  BY <1>1 DEF HasLeaf, PayoutsDecided, Settled
<1>3. t \in BatchTrades(b)
  BY <1>1, <1>2 DEF HasLeaf, TruePayouts
<1>4. TradeBatch[t] \in SettledBatches
  BY <1>2, <1>3 DEF BatchTrades, SettledBatches, Settled
<1>5. UNCHANGED <<SettledBatches, last_batch_at, lp_total_deposited, regime_id, max_multiplier>>
  BY <1>1 DEF SettledBatches, Settled, globalVars, marketVars, vaultVars
<1> QED BY <1>1, <1>4, <1>5 DEF ClaimSeen, NotClaimed, globalVars

\* What any step is to those who look.
ChainSeen ==
  \/ \E b \in Batches : BatchSeen(b)
  \/ \E t \in Trades : ClaimSeen(t)
  \/ \E m \in Markets : RegimeSeen(m)
  \/ PoolSeen

\* Every step is seen as one of them, and the regimes go on telling the terms.
LEMMA StepSeen ==
  ASSUME TypeOK, TypeOK', PayoutsDecided, ViewInv, [Next]_vars
  PROVE  ChainSeen /\ ViewInv'
<1> USE DEF ViewInv
<1>0. ASSUME UNCHANGED <<regime_id, max_multiplier, proof>>
      PROVE  RegimeTells'
  BY <1>0 DEF RegimeTells
<1>1. ASSUME PoolSeen, UNCHANGED <<keeper, proof>>
      PROVE  ChainSeen /\ ViewInv'
  <2>1. RegimeTells'
    BY <1>0, <1>1 DEF PoolSeen
  <2>2. NoneBefore'
    BY <1>1 DEF PoolSeen, NoneBefore
  <2> QED BY <1>1, <2>1, <2>2 DEF ChainSeen
<1>2. ASSUME NEW m \in Markets, RegimeSeen(m), UNCHANGED <<proof, globalVars>>
      PROVE  ChainSeen /\ ViewInv'
  <2>1. RegimeTells'
    BY <1>2, MarketTells
  <2>2. NoneBefore'
    BY <1>2 DEF NoneBefore, globalVars
  <2> QED BY <1>2, <2>1, <2>2 DEF ChainSeen
<1>3. CASE LpStep \/ TraderStep \/ UNCHANGED vars
  <2>1. PoolSeen /\ UNCHANGED <<keeper, proof>>
    BY <1>3 DEF LpStep, TraderStep, vars, lp_deposit, lp_withdraw, trader_deposit,
       trader_withdraw, PoolSeen, SettledBatches, Settled, globalVars, marketVars,
       settleVars, envVars, proofVars
  <2> QED BY <1>1, <2>1
<1>4. CASE KeeperStep
  <2>1. CASE \E t \in Trades : AcceptTrade(t) \/ ReleaseTrade(t)
    <3>1. PoolSeen /\ UNCHANGED <<keeper, proof>>
      BY <2>1 DEF AcceptTrade, ReleaseTrade, lock_margin, unlock_margin, PoolSeen,
         SettledBatches, Settled, globalVars, marketVars, settleVars, proofVars
    <3> QED BY <1>1, <3>1
  <2>2. ASSUME NEW m \in Markets, NEW regime \in Regimes, NEW cap \in MultiplierCaps,
               update_market(keeper, m, regime, cap)
        PROVE  ChainSeen /\ ViewInv'
    BY <1>2, <2>2, MarketIsSeen, ModelInputs
  <2>3. ASSUME NEW k \in Keepers, NEW b \in Batches, NEW own, NEW vault,
               verify_and_settle(k, b, own, vault)
        PROVE  ChainSeen /\ ViewInv'
    <3>1. BatchSeen(b) /\ keeper # NoKey /\ UNCHANGED <<keeper, proof>>
      BY <2>3, SettlingIsSeen
    <3>2. RegimeTells' /\ NoneBefore'
      BY <1>0, <3>1 DEF BatchSeen, NoneBefore
    <3> QED BY <3>1, <3>2 DEF ChainSeen
  <2> QED BY <1>4, <2>1, <2>2, <2>3 DEF KeeperStep
<1>5. CASE AdminStep
  <2>1. ASSUME NEW m \in Markets, NEW cap \in MultiplierCaps, init_market(Admin, m, 0, cap)
        PROVE  ChainSeen /\ ViewInv'
    BY <1>2, <2>1, MarketIsSeen, ModelInputs
  <2>2. ASSUME NEW k \in Keepers, admin_init(k) \/ rotate_keeper(Admin, k)
        PROVE  ChainSeen /\ ViewInv'
    <3>1. keeper' # NoKey /\ UNCHANGED <<last_batch_at, marketVars, settleVars, proof>>
      BY <2>2, KeysDiffer DEF admin_init, rotate_keeper, NoneBefore, envVars, proofVars
    <3>2. PoolSeen
      BY <3>1 DEF PoolSeen, SettledBatches, Settled, marketVars, settleVars
    <3>3. RegimeTells' /\ NoneBefore'
      BY <1>0, <3>1 DEF marketVars, NoneBefore
    <3> QED BY <3>2, <3>3 DEF ChainSeen
  <2>3. ASSUME pause(Admin) \/ unpause(Admin)
               \/ \E amount \in Amounts :
                    \E own, vault : withdraw_protocol_fees(Admin, amount, own, vault)
        PROVE  ChainSeen /\ ViewInv'
    <3>1. PoolSeen /\ UNCHANGED <<keeper, proof>>
      BY <2>3 DEF pause, unpause, set_paused, withdraw_protocol_fees, PoolSeen,
         SettledBatches, Settled, globalVars, marketVars, settleVars, envVars, proofVars
    <3> QED BY <1>1, <3>1
  <2> QED BY <1>5, <2>1, <2>2, <2>3 DEF AdminStep
<1>6. CASE ClaimStep
  <2>1. PICK b \in Batches, t \in Trades :
          \E stake \in StakesPassed[t] : distribute_winnings(b, t, stake)
    BY <1>6 DEF ClaimStep
  <2>2. ClaimSeen(t) /\ UNCHANGED <<keeper, proof>>
    BY <2>1, ClaimIsSeen
  <2>3. RegimeTells' /\ NoneBefore'
    BY <1>0, <2>2 DEF ClaimSeen, NoneBefore
  <2> QED BY <2>2, <2>3 DEF ChainSeen
<1>7. CASE EnvironmentStep
  <2>1. UNCHANGED <<globalVars, marketVars, vaultVars, settleVars>>
    BY <1>7 DEF EnvironmentStep, Tick, Prove, PriceAccountsChange, CloseWindow
  <2>2. PoolSeen /\ NoneBefore'
    BY <2>1 DEF PoolSeen, NoneBefore, SettledBatches, Settled, globalVars, marketVars,
                settleVars
  <2>3. CASE UNCHANGED proof
    BY <1>0, <2>1, <2>2, <2>3 DEF marketVars, ChainSeen
  <2>4. CASE \E b \in Batches : Prove(b)
    BY <2>2, <2>4, ProvingTells DEF ChainSeen
  <2> QED BY <1>7, <2>3, <2>4 DEF EnvironmentStep, Tick, CloseWindow,
     PriceAccountsChange, proofVars
<1> QED BY <1>3, <1>4, <1>5, <1>6, <1>7 DEF Next

\* What the keeper's model takes the chain to be is what the engine does, for any
\* number of LPs, traders, markets and batches: receipts come one at a time, at
\* the interval, and only for a proof of the present pool and regime; claims
\* follow receipts; a regime once left does not come back, so that a proof made
\* for it is stale for good, and it tells the terms (admin.rs:124-358,
\* market.rs:31-62, context.rs:84-137).
THEOREM ChainSeenCorrect == Spec => [][ChainSeen]_seen /\ []RegimeTells
<1>1. Init => ViewInv
  BY DEF Init, ViewInv, NoneBefore, RegimeTells
<1>2. Init => PayoutsDecided
  BY DEF Init, PayoutsDecided, Settled
<1>3. TypeOK /\ TypeOK' /\ PayoutsDecided /\ ViewInv /\ [Next]_vars
        => ViewInv' /\ [ChainSeen]_seen
  BY StepSeen
<1>4. ViewInv => RegimeTells
  BY DEF ViewInv
<1> QED BY <1>1, <1>2, <1>3, <1>4, StepPayouts, TypeCorrect, PTL DEF Spec

=============================================================================
