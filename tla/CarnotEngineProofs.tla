------------------------- MODULE CarnotEngineProofs -------------------------
(***************************************************************************)
(* Theorems about CarnotEngine, for every set of LPs, traders, keepers,    *)
(* markets, batches and trades, and every width of the integers.           *)
(***************************************************************************)
EXTENDS CarnotEngine, TLAPS

\* A quotient of naturals is a natural: the rounding of safe_mul_div_u64.
LEMMA QuotientNat ==
  ASSUME NEW a \in Nat, NEW b \in Nat \ {0}
  PROVE  a \div b \in Nat
  OBVIOUS

\* check_solvency leaves a natural in solvency_ratio_bps.
LEMMA SolvencyRatioNat ==
  ASSUME NEW deposited \in U64, NEW liability \in U64
  PROVE  SolvencyRatio(deposited, liability) \in Nat
<1>1. CASE liability = 0
  BY <1>1, ParametersAreNat DEF SolvencyRatio
<1>2. CASE liability # 0
  <2>1. deposited * BPS_DENOMINATOR \in Nat
    BY ParametersAreNat DEF U64, BPS_DENOMINATOR
  <2>2. liability \in Nat \ {0}
    BY <1>2, ParametersAreNat DEF U64
  <2>3. QED
    BY <1>2, <2>1, <2>2, QuotientNat DEF SolvencyRatio, MulDiv
<1>3. QED
  BY <1>1, <1>2

\* What a caller passes as a token account is one.
LEMMA PassedIsAccount ==
  ASSUME NEW role \in Holders \cup {LpVault}, NEW a \in PassedAs[role]
  PROVE  a \in Accounts
  BY ModelInputs

\* A transfer of what the source holds leaves amounts.
LEMMA MovedType ==
  ASSUME NEW f \in [Accounts -> Nat], NEW from \in Accounts, NEW to \in Accounts,
         NEW n \in Int, f[from] >= n, f[to] >= -n
  PROVE  Moved(f, from, to, n) \in [Accounts -> Nat]
<1>1. CASE from = to
  BY <1>1 DEF Moved
<1>2. CASE from # to
  BY <1>2 DEF Moved
<1>3. QED
  BY <1>1, <1>2

\* Initial states are well typed.
LEMMA InitTypeOK == Init => TypeOK
<1> SUFFICES ASSUME Init PROVE TypeOK
  OBVIOUS
<1>1. 0 \in U64 /\ U64 \subseteq Nat
  BY ParametersAreNat DEF U64
<1>2. tokens \in [Accounts -> Nat]
  <2>1. \A a \in Holders : InitialTokens[a] \in Nat
    BY <1>1, ModelInputs
  <2>2. QED
    BY <1>1, <2>1 DEF Init
<1>3. /\ total_lp_shares \in U64
      /\ lp_total_deposited \in U64
      /\ trader_total_margin \in U64
      /\ current_liability \in U64
      /\ accrued_protocol_fees \in U64
      /\ lp_shares \in [Lps -> U64]
      /\ balance_usdt \in [Traders -> U64]
      /\ locked_usdt \in [Traders -> U64]
  BY <1>1 DEF Init
<1>4. QED
  BY <1>2, <1>3, ParametersAreNat DEF Init, TypeOK

\* A deposit books checked sums (lp.rs:10-50).
LEMMA LpDepositTypeOK ==
  ASSUME TypeOK, NEW lp \in Lps, NEW amount \in Amounts, NEW own \in PassedAs[lp],
         NEW vault \in PassedAs[LpVault], lp_deposit(lp, amount, own, vault)
  PROVE  TypeOK'
<1>1. SolvencyRatio(lp_total_deposited + amount, current_liability) \in Nat
  BY SolvencyRatioNat DEF lp_deposit, TypeOK, SafeAdd
<1>2. tokens' \in [Accounts -> Nat]
  <2>1. own \in Accounts /\ vault \in Accounts /\ amount \in Nat
    BY PassedIsAccount, ModelInputs DEF Holders
  <2>2. tokens[own] >= amount /\ tokens' = Moved(tokens, own, vault, amount)
    BY DEF lp_deposit, token_transfer
  <2>3. tokens[vault] >= -amount /\ amount \in Int
    BY <2>1 DEF TypeOK
  <2>4. QED
    BY <2>1, <2>2, <2>3, MovedType DEF TypeOK
<1>3. QED
  BY <1>1, <1>2, ParametersAreNat, ModelInputs
  DEF TypeOK, lp_deposit, mint_shares, SafeAdd, NonZero, U64,
      globalVars, marketVars, traderVars, settleVars, envVars, tradeVars, proofVars

\* A redemption is rounded down and never exceeds the pool (lp.rs:52-107).
LEMMA LpWithdrawTypeOK ==
  ASSUME TypeOK, NEW lp \in Lps, NEW amount \in Amounts, NEW own \in PassedAs[lp],
         NEW vault \in PassedAs[LpVault], lp_withdraw(lp, amount, own, vault)
  PROVE  TypeOK'
<1> DEFINE paid == AmountRedeemed(amount)
<1>1. SolvencyRatio(lp_total_deposited - paid, current_liability) \in Nat
  BY SolvencyRatioNat DEF lp_withdraw, TypeOK, SafeSub
<1>2. paid \in U64
  BY DEF lp_withdraw, SafeMulDiv, AmountRedeemed
<1>3. /\ lp_total_deposited - paid \in U64
      /\ lp_total_deposited' = lp_total_deposited - paid
      /\ tokens[vault] >= paid
      /\ tokens' = Moved(tokens, vault, own, paid)
      /\ solvency_ratio_bps' \in Nat
  BY <1>1 DEF lp_withdraw, SafeSub, vault_token_transfer
<1> HIDE DEF paid
<1>4. tokens' \in [Accounts -> Nat]
  <2>1. own \in Accounts /\ vault \in Accounts
    BY PassedIsAccount DEF Holders
  <2>2. paid \in Nat
    BY <1>2, ParametersAreNat DEF U64
  <2>3. tokens[own] >= -paid /\ paid \in Int
    BY <2>1, <2>2 DEF TypeOK
  <2>4. QED
    BY <1>3, <2>1, <2>3, MovedType DEF TypeOK
<1>5. total_lp_shares' \in U64 /\ lp_shares' \in [Lps -> U64]
  BY ParametersAreNat, ModelInputs
  DEF TypeOK, lp_withdraw, HoldsShares, SafeSub, NonZero, U64
<1>6. QED
  BY <1>3, <1>4, <1>5
  DEF TypeOK, lp_withdraw, globalVars, marketVars, traderVars, settleVars,
      envVars, tradeVars, proofVars

\* A margin deposit books checked sums (trade.rs:9-33).
LEMMA TraderDepositTypeOK ==
  ASSUME TypeOK, NEW tr \in Traders, NEW amount \in Amounts, NEW own \in PassedAs[tr],
         trader_deposit(tr, amount, own)
  PROVE  TypeOK'
<1>1. own \in Accounts /\ TraderVault \in Accounts /\ amount \in Nat
  BY PassedIsAccount, ModelInputs DEF Holders, Accounts, Vaults
<1>2. tokens[own] >= amount /\ tokens' = Moved(tokens, own, TraderVault, amount)
  BY DEF trader_deposit, token_transfer
<1>3. tokens[TraderVault] >= -amount /\ amount \in Int
  BY <1>1 DEF TypeOK
<1>4. tokens' \in [Accounts -> Nat]
  BY <1>1, <1>2, <1>3, MovedType DEF TypeOK
<1>5. QED
  BY <1>4, ParametersAreNat, ModelInputs
  DEF TypeOK, trader_deposit, SafeAdd, NonZero, U64,
      globalVars, marketVars, lpVars, settleVars, envVars, tradeVars, proofVars

\* A margin withdrawal books checked differences (trade.rs:35-68).
LEMMA TraderWithdrawTypeOK ==
  ASSUME TypeOK, NEW tr \in Traders, NEW amount \in Amounts, NEW own \in PassedAs[tr],
         trader_withdraw(tr, amount, own)
  PROVE  TypeOK'
<1>1. own \in Accounts /\ TraderVault \in Accounts /\ amount \in Nat
  BY PassedIsAccount, ModelInputs DEF Holders, Accounts, Vaults
<1>2. tokens[TraderVault] >= amount /\ tokens' = Moved(tokens, TraderVault, own, amount)
  BY DEF trader_withdraw, vault_token_transfer
<1>3. tokens[own] >= -amount /\ amount \in Int
  BY <1>1 DEF TypeOK
<1>4. tokens' \in [Accounts -> Nat]
  BY <1>1, <1>2, <1>3, MovedType DEF TypeOK
<1>5. QED
  BY <1>4, ParametersAreNat, ModelInputs
  DEF TypeOK, trader_withdraw, SafeSub, NonZero, U64,
      globalVars, marketVars, lpVars, settleVars, envVars, tradeVars, proofVars

\* Locking is checked against width and balance (trade.rs:70-86).
LEMMA AcceptTradeTypeOK ==
  ASSUME TypeOK, NEW t \in Trades, AcceptTrade(t)
  PROVE  TypeOK'
  BY ParametersAreNat, TradesWellFormed
  DEF TypeOK, AcceptTrade, lock_margin, SafeAdd, CoversLock, U64, globalVars, marketVars,
      vaultVars, lpVars, settleVars, tokenVars, proofVars

\* Unlocking saturates at zero (trade.rs:88-103).
LEMMA ReleaseTradeTypeOK ==
  ASSUME TypeOK, NEW t \in Trades, ReleaseTrade(t)
  PROVE  TypeOK'
  BY ParametersAreNat, TradesWellFormed
  DEF TypeOK, ReleaseTrade, unlock_margin, U64, globalVars, marketVars,
      vaultVars, lpVars, settleVars, tokenVars, proofVars

\* An update writes a regime, a cap and the time (market.rs:26-41).
LEMMA UpdateMarketTypeOK ==
  ASSUME TypeOK, NEW m \in Markets, NEW regime \in Regimes,
         NEW cap \in MultiplierCaps, update_market(keeper, m, regime, cap)
  PROVE  TypeOK'
  BY ModelInputs
  DEF TypeOK, update_market, apply_params, globalVars, vaultVars, lpVars,
      traderVars, settleVars, tokenVars, envVars, tradeVars, proofVars

\* A new market gets a regime, a cap and the time (market.rs:26-41).
LEMMA InitMarketTypeOK ==
  ASSUME TypeOK, NEW m \in Markets, NEW cap \in MultiplierCaps,
         init_market(Admin, m, 0, cap)
  PROVE  TypeOK'
  BY ModelInputs
  DEF TypeOK, init_market, apply_params, globalVars, vaultVars, lpVars,
      traderVars, settleVars, tokenVars, envVars, tradeVars, proofVars

\* Setting up resets every field to a value of its type (admin.rs:17-34).
LEMMA AdminInitTypeOK ==
  ASSUME TypeOK, NEW k \in Keepers, admin_init(k)
  PROVE  TypeOK'
<1>1. 0 \in U64
  BY ParametersAreNat DEF U64
<1>2. QED
  BY <1>1, ParametersAreNat
  DEF TypeOK, admin_init, marketVars, lpVars, traderVars, settleVars,
      tokenVars, envVars, tradeVars, proofVars

\* A rotation writes a key (lib.rs:127-132).
LEMMA RotateKeeperTypeOK ==
  ASSUME TypeOK, NEW k \in Keepers, rotate_keeper(Admin, k)
  PROVE  TypeOK'
  BY DEF TypeOK, rotate_keeper, marketVars, vaultVars, lpVars, traderVars,
         settleVars, tokenVars, envVars, tradeVars, proofVars

\* A pause writes the flag (global.rs:19-25).
LEMMA SetPausedTypeOK ==
  ASSUME TypeOK, NEW value \in BOOLEAN, set_paused(Admin, value)
  PROVE  TypeOK'
  BY DEF TypeOK, set_paused, marketVars, vaultVars, lpVars, traderVars,
         settleVars, tokenVars, envVars, tradeVars, proofVars

\* A fee withdrawal takes at most the accrued fees (admin.rs:36-58).
LEMMA WithdrawFeesTypeOK ==
  ASSUME TypeOK, NEW amount \in Amounts, NEW own \in PassedAs[Admin],
         NEW vault \in PassedAs[LpVault],
         withdraw_protocol_fees(Admin, amount, own, vault)
  PROVE  TypeOK'
<1>1. own \in Accounts /\ vault \in Accounts /\ amount \in Nat
  BY PassedIsAccount, ModelInputs DEF Holders
<1>2. tokens[vault] >= amount /\ tokens' = Moved(tokens, vault, own, amount)
  BY DEF withdraw_protocol_fees, vault_token_transfer
<1>3. tokens[own] >= -amount /\ amount \in Int
  BY <1>1 DEF TypeOK
<1>4. tokens' \in [Accounts -> Nat]
  BY <1>1, <1>2, <1>3, MovedType DEF TypeOK
<1>5. QED
  BY <1>4, ParametersAreNat, ModelInputs
  DEF TypeOK, withdraw_protocol_fees, SafeSub, NonZero, U64,
      globalVars, marketVars, lpVars, traderVars, settleVars, envVars, tradeVars, proofVars

\* The fields of a public output have the types of the Rust struct.
LEMMA OutputFields ==
  ASSUME NEW p \in Outputs
  PROVE  /\ p.net_payout \in Int
         /\ p.keeper_fee \in U64
         /\ p.protocol_fee \in U64
         /\ p.current_liability_before \in U64
         /\ p.payouts_commitment \in PayoutMaps
         /\ p.nullifier_hash \in Batches \X SUBSET Trades
<1>1. I64 \subseteq Int
  BY ParametersAreNat DEF I64
<1>2. QED
  BY <1>1 DEF Outputs

\* A settlement books checked sums and writes one receipt (admin.rs:124-358).
LEMMA SettleTypeOK ==
  ASSUME TypeOK, NEW k \in Keepers, NEW b \in Batches, NEW own \in PassedAs[k],
         NEW vault \in PassedAs[LpVault], verify_and_settle(k, b, own, vault)
  PROVE  TypeOK'
<1> DEFINE p == proof[b]
<1>1. p \in Outputs
  BY DEF TypeOK, verify_and_settle, SettlementAccepted, ProofVerifies
<1>2. /\ p.net_payout \in Int
      /\ p.keeper_fee \in Nat
      /\ p.protocol_fee \in U64
      /\ p.current_liability_before \in U64
      /\ p.nullifier_hash \in Batches \X SUBSET Trades
  BY <1>1, OutputFields, ParametersAreNat DEF U64
<1>3. SettlementAccepted(k, b, vault) /\ SettleVault(p) /\ SettleTokens(p, own, vault)
  BY DEF verify_and_settle
<1>4. /\ lp_total_deposited' \in U64
      /\ trader_total_margin' \in U64
      /\ accrued_protocol_fees' \in U64
      /\ current_liability' \in U64
      /\ total_lp_shares' \in U64
  BY <1>2, <1>3, ParametersAreNat 
  DEF SettlementAccepted, VaultFits, SettleVault, PoolAfter, FeesAccrued, LiabilityAfter,
      SafeAdd, SafeSub, U64, TypeOK
<1>5. tokens' \in [Accounts -> Nat]
  <2>1. /\ own \in Accounts /\ vault \in Accounts /\ TraderVault \in Accounts
        /\ tokens \in [Accounts -> Nat]
    BY PassedIsAccount DEF Holders, Accounts, Vaults, TypeOK
  <2>2. /\ tokens[vault] >= p.net_payout
        /\ tokens[TraderVault] >= -p.net_payout
        /\ NetMoved(p, vault)[vault] >= p.keeper_fee
    BY <1>3 DEF SettlementAccepted, TokensSuffice
  <2>3. NetMoved(p, vault) \in [Accounts -> Nat]
    BY <1>2, <2>1, <2>2, MovedType DEF NetMoved
  <2>4. NetMoved(p, vault)[own] >= -p.keeper_fee /\ p.keeper_fee \in Int
    BY <1>2, <2>1, <2>3
  <2>5. Moved(NetMoved(p, vault), vault, own, p.keeper_fee) \in [Accounts -> Nat]
    BY <2>1, <2>2, <2>3, <2>4, MovedType
  <2>6. QED
    BY <1>3, <2>5 DEF SettleTokens
<1>6. solvency_ratio_bps' \in Nat
  <2>1. PoolAfter(p) \in U64 /\ LiabilityAfter(p) \in U64
    BY <1>3, <1>4 DEF SettleVault
  <2>2. QED
    BY <1>3, <2>1, SolvencyRatioNat DEF SettleVault
<1>7. /\ receipt' \in [Batches -> Receipts \cup {NoReceipt}]
      /\ nullifier' \subseteq Batches \X SUBSET Trades
      /\ last_batch_at' \in Nat
  BY <1>1, <1>2 DEF verify_and_settle, TypeOK, Receipts
<1>8. QED
  BY <1>4, <1>5, <1>6, <1>7
  DEF TypeOK, verify_and_settle, marketVars, lpVars, traderVars, envVars, tradeVars, proofVars

\* What a receipt commits for a trade is an amount.
LEMMA WinningsType ==
  ASSUME TypeOK, NEW b \in Batches, NEW t \in Trades, HasLeaf(b, t)
  PROVE  receipt[b].outputs.payouts_commitment[t] \in Nat
<1>1. receipt[b].outputs \in Outputs
  BY DEF TypeOK, HasLeaf, Receipts
<1>2. receipt[b].outputs.payouts_commitment \in PayoutMaps
  BY <1>1, OutputFields
<1>3. receipt[b].outputs.payouts_commitment[t] \in U64
  BY <1>2 DEF HasLeaf, PayoutMaps
<1>4. QED
  BY <1>3, ParametersAreNat DEF U64

\* A distribution keeps balance and lock in range (admin.rs:69-122).
LEMMA DistributeTypeOK ==
  ASSUME TypeOK, NEW b \in Batches, NEW t \in Trades, NEW stake \in StakesPassed[t],
         distribute_winnings(b, t, stake)
  PROVE  TypeOK'
<1> DEFINE won == receipt[b].outputs.payouts_commitment[t]
<1>1. won \in Nat
  BY WinningsType DEF distribute_winnings
<1>2. /\ balance_usdt[TradeTrader[t]] >= stake
      /\ balance_usdt[TradeTrader[t]] - stake + won \in U64
      /\ balance_usdt' = [balance_usdt EXCEPT ![TradeTrader[t]] = @ - stake + won]
      /\ locked_usdt' = [locked_usdt EXCEPT ![TradeTrader[t]] =
                                                 SaturatingSub(@, stake)]
      /\ claim_receipt' = claim_receipt \cup {t}
  BY DEF distribute_winnings, BalanceAfter, LockAfter, SafeAdd
<1> HIDE DEF won
<1>3. balance_usdt' \in [Traders -> U64]
  BY <1>1, <1>2 DEF TypeOK
<1>4. locked_usdt' \in [Traders -> U64]
  BY <1>2, ParametersAreNat, TradesWellFormed, ModelInputs DEF TypeOK, SaturatingSub, U64
<1>5. QED
  BY <1>2, <1>3, <1>4
  DEF TypeOK, distribute_winnings, globalVars, marketVars, vaultVars, lpVars,
      tokenVars, envVars, tradeVars, proofVars

\* Time, windows and proofs keep their types.
LEMMA EnvironmentTypeOK == TypeOK /\ EnvironmentStep => TypeOK'
<1> SUFFICES ASSUME TypeOK, EnvironmentStep PROVE TypeOK'
  OBVIOUS
<1>1. CASE Tick
  BY <1>1 DEF Tick, TypeOK, tradeVars, proofVars, globalVars, marketVars, vaultVars, lpVars,
              traderVars, settleVars, tokenVars
<1>2. ASSUME NEW b \in Batches, Prove(b)
      PROVE  TypeOK'
  <2>1. PublicOutputs(b) \in Outputs
    BY <1>2 DEF Prove, GuestAccepts
  <2>2. QED
    BY <1>2, <2>1 DEF Prove, TypeOK, tradeVars, globalVars, marketVars, vaultVars,
                      lpVars, traderVars, settleVars, tokenVars
<1>3. ASSUME NEW b \in Batches, NEW won \in SUBSET Trades, CloseWindow(b, won)
      PROVE  TypeOK'
  BY <1>3 DEF CloseWindow, TypeOK, proofVars, globalVars, marketVars, vaultVars, lpVars,
              traderVars, settleVars, tokenVars
<1>4. ASSUME NEW b \in Batches, PriceAccountsChange(b)
      PROVE  TypeOK'
  BY <1>4 DEF PriceAccountsChange, TypeOK, tradeVars, globalVars, marketVars, vaultVars,
              lpVars, traderVars, settleVars, tokenVars
<1>5. QED
  BY <1>1, <1>2, <1>3, <1>4 DEF EnvironmentStep

\* Every step keeps the types.
LEMMA StepTypeOK == TypeOK /\ [Next]_vars => TypeOK'
<1> SUFFICES ASSUME TypeOK, [Next]_vars PROVE TypeOK'
  OBVIOUS
<1>1. CASE LpStep
  BY <1>1, LpDepositTypeOK, LpWithdrawTypeOK DEF LpStep
<1>2. CASE TraderStep
  BY <1>2, TraderDepositTypeOK, TraderWithdrawTypeOK DEF TraderStep
<1>3. CASE KeeperStep
  BY <1>3, AcceptTradeTypeOK, ReleaseTradeTypeOK, UpdateMarketTypeOK, SettleTypeOK
  DEF KeeperStep
<1>4. CASE AdminStep
  BY <1>4, AdminInitTypeOK, RotateKeeperTypeOK, SetPausedTypeOK, InitMarketTypeOK,
     WithdrawFeesTypeOK
  DEF AdminStep, pause, unpause
<1>5. CASE ClaimStep
  BY <1>5, DistributeTypeOK DEF ClaimStep
<1>6. CASE EnvironmentStep
  BY <1>6, EnvironmentTypeOK
<1>7. CASE UNCHANGED vars
  BY <1>7 DEF vars, TypeOK, globalVars, marketVars, vaultVars, lpVars, traderVars,
              settleVars, tokenVars, envVars, tradeVars, proofVars
<1>8. QED
  BY <1>1, <1>2, <1>3, <1>4, <1>5, <1>6, <1>7 DEF Next

\* Every reachable state is well typed; in particular no u64 of the vault, of a
\* position or of a margin account ever wraps or goes negative.
THEOREM TypeCorrect == Spec => []TypeOK
  BY InitTypeOK, StepTypeOK, PTL DEF Spec

-----------------------------------------------------------------------------
\* Before admin_init nothing has moved, so the initialisation of the totals
\* and of last_batch_at overwrites nothing.
Untouched ==
  keeper = NoKey =>
    /\ tokens[LpVault] = 0
    /\ tokens[TraderVault] = 0
    /\ receipt = [b \in Batches |-> NoReceipt]

\* Nothing moves before admin_init has run.
LEMMA StepUntouched == TypeOK /\ Untouched /\ [Next]_vars => Untouched'
<1> SUFFICES ASSUME TypeOK, Untouched, [Next]_vars PROVE Untouched'
  OBVIOUS
<1> USE DEF Untouched
<1>1. CASE LpStep
  BY <1>1 DEF LpStep, lp_deposit, lp_withdraw, NotPaused, globalVars
<1>2. CASE TraderStep
  BY <1>2 DEF TraderStep, trader_deposit, trader_withdraw, NotPaused, globalVars
<1>3. CASE KeeperStep
  BY <1>3 DEF KeeperStep, AcceptTrade, ReleaseTrade, lock_margin, unlock_margin,
              update_market, verify_and_settle, SettlementAccepted, NotPaused, globalVars
<1>4. CASE AdminStep
  <2>1. ASSUME NEW k \in Keepers, admin_init(k) \/ rotate_keeper(Admin, k)
        PROVE  keeper' # NoKey
    BY <2>1, KeysDiffer DEF admin_init, rotate_keeper
  <2>2. QED
    BY <1>4, <2>1 DEF AdminStep, pause, unpause, set_paused, AdminSigned, init_market,
                      withdraw_protocol_fees, NotPaused, globalVars
<1>5. CASE ClaimStep
  BY <1>5 DEF ClaimStep, distribute_winnings, NotPaused, globalVars
<1>6. CASE EnvironmentStep
  BY <1>6 DEF EnvironmentStep, Tick, Prove, PriceAccountsChange, CloseWindow, globalVars, tokenVars, settleVars
<1>7. CASE UNCHANGED vars
  BY <1>7 DEF vars, globalVars, tokenVars, settleVars
<1>8. QED
  BY <1>1, <1>2, <1>3, <1>4, <1>5, <1>6, <1>7 DEF Next

\* When every account passed is the one it stands for, the caller's own is not
\* a vault and the LP vault is the LP vault.
LEMMA OwnPassed ==
  ASSUME OwnAccountsPassed
  PROVE  /\ \A h \in Holders : \A own \in PassedAs[h] : own = h
         /\ \A vault \in PassedAs[LpVault] : vault = LpVault
         /\ \A h \in Holders : h # LpVault /\ h # TraderVault
  BY ModelInputs, KeysDiffer DEF OwnAccountsPassed, Vaults

\* LPs pay in and out what the books say.
LEMMA LpBooks ==
  ASSUME OwnAccountsPassed, TypeOK, BooksMatchTokens, LpStep
  PROVE  BooksMatchTokens'
<1>1. PICK lp \in Lps, amount \in Amounts :
         \E own \in PassedAs[lp], vault \in PassedAs[LpVault] :
           lp_deposit(lp, amount, own, vault) \/ lp_withdraw(lp, amount, own, vault)
  BY DEF LpStep
<1>2. lp_deposit(lp, amount, lp, LpVault) \/ lp_withdraw(lp, amount, lp, LpVault)
  BY <1>1, OwnPassed DEF Holders
<1>3. /\ lp \in Accounts /\ LpVault \in Accounts /\ TraderVault \in Accounts
      /\ lp # LpVault /\ lp # TraderVault /\ LpVault # TraderVault
      /\ tokens \in [Accounts -> Nat] /\ amount \in Nat
      /\ lp_total_deposited \in Nat
  BY OwnPassed, KeysDiffer, ModelInputs, ParametersAreNat
  DEF Holders, Accounts, Vaults, TypeOK, U64
<1>4. CASE lp_deposit(lp, amount, lp, LpVault)
  <2>1. /\ tokens' = Moved(tokens, lp, LpVault, amount)
        /\ lp_total_deposited' = lp_total_deposited + amount
        /\ UNCHANGED trader_total_margin
    BY <1>4 DEF lp_deposit, token_transfer
  <2>2. /\ tokens'[LpVault] = tokens[LpVault] + amount
        /\ tokens'[TraderVault] = tokens[TraderVault]
    BY <1>3, <2>1 DEF Moved
  <2>3. QED
    BY <1>3, <2>1, <2>2 DEF BooksMatchTokens
<1>5. CASE lp_withdraw(lp, amount, lp, LpVault)
  <2> DEFINE paid == AmountRedeemed(amount)
  <2>1. /\ tokens' = Moved(tokens, LpVault, lp, paid)
        /\ lp_total_deposited' = lp_total_deposited - paid
        /\ UNCHANGED trader_total_margin
    BY <1>5 DEF lp_withdraw, vault_token_transfer
  <2>2. paid \in Int
    BY <1>5, ParametersAreNat DEF lp_withdraw, SafeMulDiv, AmountRedeemed, U64
  <2> HIDE DEF paid
  <2>3. /\ tokens'[LpVault] = tokens[LpVault] - paid
        /\ tokens'[TraderVault] = tokens[TraderVault]
    BY <1>3, <2>1, <2>2 DEF Moved
  <2>4. QED
    BY <1>3, <2>1, <2>2, <2>3 DEF BooksMatchTokens
<1>6. QED
  BY <1>2, <1>4, <1>5

\* Traders pay in and out what the books say.
LEMMA TraderBooks ==
  ASSUME OwnAccountsPassed, TypeOK, BooksMatchTokens, TraderStep
  PROVE  BooksMatchTokens'
<1>1. PICK tr \in Traders, amount \in Amounts :
         \E own \in PassedAs[tr] :
           trader_deposit(tr, amount, own) \/ trader_withdraw(tr, amount, own)
  BY DEF TraderStep
<1>2. trader_deposit(tr, amount, tr) \/ trader_withdraw(tr, amount, tr)
  BY <1>1, OwnPassed DEF Holders
<1>3. /\ tr \in Accounts /\ LpVault \in Accounts /\ TraderVault \in Accounts
      /\ tr # LpVault /\ tr # TraderVault /\ LpVault # TraderVault
      /\ tokens \in [Accounts -> Nat] /\ amount \in Int
      /\ trader_total_margin \in Nat
  BY OwnPassed, KeysDiffer, ModelInputs, ParametersAreNat
  DEF Holders, Accounts, Vaults, TypeOK, U64
<1>4. CASE trader_deposit(tr, amount, tr)
  <2>1. /\ tokens' = Moved(tokens, tr, TraderVault, amount)
        /\ trader_total_margin' = trader_total_margin + amount
        /\ UNCHANGED lp_total_deposited
    BY <1>4 DEF trader_deposit, token_transfer
  <2>2. /\ tokens'[TraderVault] = tokens[TraderVault] + amount
        /\ tokens'[LpVault] = tokens[LpVault]
    BY <1>3, <2>1 DEF Moved
  <2>3. QED
    BY <1>3, <2>1, <2>2 DEF BooksMatchTokens
<1>5. CASE trader_withdraw(tr, amount, tr)
  <2>1. /\ tokens' = Moved(tokens, TraderVault, tr, amount)
        /\ trader_total_margin' = trader_total_margin - amount
        /\ UNCHANGED lp_total_deposited
    BY <1>5 DEF trader_withdraw, vault_token_transfer
  <2>2. /\ tokens'[TraderVault] = tokens[TraderVault] - amount
        /\ tokens'[LpVault] = tokens[LpVault]
    BY <1>3, <2>1 DEF Moved
  <2>3. QED
    BY <1>3, <2>1, <2>2 DEF BooksMatchTokens
<1>6. QED
  BY <1>2, <1>4, <1>5

\* Fees leave the pool as the books say.
LEMMA FeeBooks ==
  ASSUME OwnAccountsPassed, TypeOK, BooksMatchTokens, NEW amount \in Amounts,
         NEW own \in PassedAs[Admin], NEW vault \in PassedAs[LpVault],
         withdraw_protocol_fees(Admin, amount, own, vault)
  PROVE  BooksMatchTokens'
<1>1. /\ own = Admin /\ vault = LpVault
      /\ own \in Accounts /\ vault \in Accounts /\ TraderVault \in Accounts
      /\ own # LpVault /\ own # TraderVault /\ LpVault # TraderVault
      /\ tokens \in [Accounts -> Nat] /\ amount \in Int
      /\ lp_total_deposited \in Nat
  BY OwnPassed, KeysDiffer, ModelInputs, ParametersAreNat
  DEF Holders, Accounts, Vaults, TypeOK, U64
<1>2. /\ tokens' = Moved(tokens, vault, own, amount)
      /\ lp_total_deposited' = lp_total_deposited - amount
      /\ UNCHANGED trader_total_margin
  BY DEF withdraw_protocol_fees, vault_token_transfer
<1>3. /\ tokens'[LpVault] = tokens[LpVault] - amount
      /\ tokens'[TraderVault] = tokens[TraderVault]
  BY <1>1, <1>2 DEF Moved
<1>4. QED
  BY <1>1, <1>2, <1>3 DEF BooksMatchTokens

\* A settlement moves the same amounts in the books and in the vaults.
LEMMA SettleBooks ==
  ASSUME OwnAccountsPassed, TypeOK, BooksMatchTokens, NEW k \in Keepers,
         NEW b \in Batches, NEW own \in PassedAs[k], NEW vault \in PassedAs[LpVault],
         verify_and_settle(k, b, own, vault)
  PROVE  BooksMatchTokens'
<1> DEFINE p == proof[b]
           net == NetMoved(p, vault)
<1>1. p \in Outputs
  BY DEF TypeOK, verify_and_settle, SettlementAccepted, ProofVerifies
<1>2. p.net_payout \in Int /\ p.keeper_fee \in Int
  BY <1>1, OutputFields, ParametersAreNat DEF U64
<1>3. SettlementAccepted(k, b, vault) /\ SettleVault(p) /\ SettleTokens(p, own, vault)
  BY DEF verify_and_settle
<1> HIDE DEF p
<1>4. /\ own = k /\ vault = LpVault
      /\ own \in Accounts /\ vault \in Accounts /\ TraderVault \in Accounts
      /\ own # LpVault /\ own # TraderVault /\ LpVault # TraderVault
      /\ tokens \in [Accounts -> Nat]
      /\ lp_total_deposited \in Nat /\ trader_total_margin \in Nat
  BY OwnPassed, KeysDiffer, ParametersAreNat DEF Holders, Accounts, Vaults, TypeOK, U64
<1>5. /\ net[LpVault] = tokens[LpVault] - p.net_payout
      /\ net[TraderVault] = tokens[TraderVault] + p.net_payout
  BY <1>2, <1>4 DEF NetMoved, Moved
<1>6. net \in [Accounts -> Nat]
  BY <1>2, <1>3, <1>4, MovedType DEF SettlementAccepted, TokensSuffice, NetMoved, p
<1>7. tokens' = Moved(net, vault, own, p.keeper_fee)
  BY <1>3 DEF SettleTokens
<1> HIDE DEF net
<1>8. /\ tokens'[LpVault] = net[LpVault] - p.keeper_fee
      /\ tokens'[TraderVault] = net[TraderVault]
  BY <1>2, <1>4, <1>6, <1>7 DEF Moved
<1>9. /\ lp_total_deposited' = lp_total_deposited - p.net_payout - p.keeper_fee
      /\ trader_total_margin' = trader_total_margin + p.net_payout
  BY <1>3 DEF SettleVault, PoolAfter
<1>10. QED
  BY <1>2, <1>4, <1>5, <1>8, <1>9 DEF BooksMatchTokens

\* Every step moves books and tokens alike.
LEMMA StepBooks ==
  ASSUME OwnAccountsPassed
  PROVE  TypeOK /\ Untouched /\ BooksMatchTokens /\ [Next]_vars => BooksMatchTokens'
<1> SUFFICES ASSUME TypeOK, Untouched, BooksMatchTokens, [Next]_vars
             PROVE  BooksMatchTokens'
  OBVIOUS
<1>1. CASE LpStep
  BY <1>1, LpBooks
<1>2. CASE TraderStep
  BY <1>2, TraderBooks
<1>3. CASE KeeperStep
  BY <1>3, SettleBooks
  DEF KeeperStep, AcceptTrade, ReleaseTrade, lock_margin, unlock_margin,
      update_market, BooksMatchTokens, vaultVars, tokenVars
<1>4. CASE AdminStep
  BY <1>4, FeeBooks
  DEF AdminStep, admin_init, rotate_keeper, pause, unpause, set_paused, init_market,
      Untouched, BooksMatchTokens, vaultVars, tokenVars
<1>5. CASE ClaimStep
  BY <1>5 DEF ClaimStep, distribute_winnings, BooksMatchTokens, vaultVars, tokenVars
<1>6. CASE EnvironmentStep
  BY <1>6 DEF EnvironmentStep, Tick, Prove, PriceAccountsChange, CloseWindow,
              BooksMatchTokens, vaultVars, tokenVars
<1>7. CASE UNCHANGED vars
  BY <1>7 DEF vars, BooksMatchTokens, vaultVars, tokenVars
<1>8. QED
  BY <1>1, <1>2, <1>3, <1>4, <1>5, <1>6, <1>7 DEF Next

\* The totals the program keeps are the tokens its vaults hold, whatever is
\* called in whatever order, when every instruction is given the accounts it is
\* meant for (lp.rs, trade.rs, admin.rs:36-58 and 241-313).
THEOREM BooksCorrect ==
  ASSUME OwnAccountsPassed
  PROVE  Spec => []BooksMatchTokens
<1>1. Init => Untouched /\ BooksMatchTokens
  BY KeysDiffer DEF Init, Untouched, BooksMatchTokens, Accounts, Vaults
<1>2. TypeOK /\ Untouched /\ BooksMatchTokens /\ [Next]_vars => BooksMatchTokens'
  BY StepBooks
<1>3. QED
  BY <1>1, <1>2, StepUntouched, TypeCorrect, PTL DEF Spec

-----------------------------------------------------------------------------
\* Margin accounts.

\* Distribution lowers the balance by the stake and the lock by as much of the
\* stake as is still locked, which is at least what keeps the order.
LEMMA DistributeLocked ==
  ASSUME TypeOK, LockedWithinBalance, NEW b \in Batches, NEW t \in Trades,
         NEW stake \in StakesPassed[t], distribute_winnings(b, t, stake)
  PROVE  LockedWithinBalance'
<1> DEFINE won == receipt[b].outputs.payouts_commitment[t]
           tr  == TradeTrader[t]
<1>1. won \in Nat
  BY WinningsType DEF distribute_winnings
<1>2. /\ balance_usdt[tr] >= stake
      /\ balance_usdt' = [balance_usdt EXCEPT ![tr] = @ - stake + won]
      /\ locked_usdt' = [locked_usdt EXCEPT ![tr] = SaturatingSub(@, stake)]
  BY DEF distribute_winnings, BalanceAfter, LockAfter
<1> HIDE DEF won
<1>3. tr \in Traders /\ stake \in Nat
  BY TradesWellFormed, ModelInputs
<1>4. balance_usdt[tr] \in Nat /\ locked_usdt[tr] \in Nat
  BY <1>3, ParametersAreNat DEF TypeOK, U64
<1>5. SaturatingSub(locked_usdt[tr], stake) <= balance_usdt[tr] - stake + won
  BY <1>1, <1>2, <1>3, <1>4 DEF SaturatingSub, LockedWithinBalance
<1>6. QED
  BY <1>2, <1>3, <1>5 DEF LockedWithinBalance, TypeOK

\* Every step keeps a trader's lock within his balance.
LEMMA StepLocked == TypeOK /\ LockedWithinBalance /\ [Next]_vars => LockedWithinBalance'
<1> SUFFICES ASSUME TypeOK, LockedWithinBalance, [Next]_vars
             PROVE  LockedWithinBalance'
  OBVIOUS
<1>1. CASE LpStep
  BY <1>1 DEF LpStep, lp_deposit, lp_withdraw, LockedWithinBalance, traderVars
<1>2. CASE TraderStep
  <2>1. ASSUME NEW tr \in Traders, NEW amount \in Amounts, NEW own,
               trader_deposit(tr, amount, own)
        PROVE  LockedWithinBalance'
    BY <2>1, ModelInputs, ParametersAreNat
    DEF trader_deposit, LockedWithinBalance, TypeOK, U64
  <2>2. ASSUME NEW tr \in Traders, NEW amount \in Amounts, NEW own,
               trader_withdraw(tr, amount, own)
        PROVE  LockedWithinBalance'
    BY <2>2, ModelInputs, ParametersAreNat
    DEF trader_withdraw, Withdrawable, SaturatingSub, NonZero, LockedWithinBalance,
        TypeOK, U64
  <2>3. QED
    BY <1>2, <2>1, <2>2 DEF TraderStep
<1>3. CASE KeeperStep
  <2>1. ASSUME NEW t \in Trades, AcceptTrade(t)
        PROVE  LockedWithinBalance'
    BY <2>1, TradesWellFormed, ParametersAreNat
    DEF AcceptTrade, lock_margin, CoversLock, LockedWithinBalance, TypeOK, U64
  <2>2. ASSUME NEW t \in Trades, ReleaseTrade(t)
        PROVE  LockedWithinBalance'
    BY <2>2, TradesWellFormed, ParametersAreNat
    DEF ReleaseTrade, unlock_margin, NonZero, LockedWithinBalance, TypeOK, U64
  <2>3. ASSUME NEW k \in Keepers, NEW b \in Batches, NEW own, NEW vault,
               verify_and_settle(k, b, own, vault)
        PROVE  LockedWithinBalance'
    BY <2>3 DEF verify_and_settle, LockedWithinBalance, traderVars
  <2>4. ASSUME NEW m \in Markets, NEW regime \in Regimes, NEW cap \in MultiplierCaps,
               update_market(keeper, m, regime, cap)
        PROVE  LockedWithinBalance'
    BY <2>4 DEF update_market, LockedWithinBalance, traderVars
  <2>5. QED
    BY <1>3, <2>1, <2>2, <2>3, <2>4 DEF KeeperStep
<1>4. CASE AdminStep
  BY <1>4 DEF AdminStep, admin_init, rotate_keeper, pause, unpause, set_paused,
              init_market, withdraw_protocol_fees, LockedWithinBalance, traderVars
<1>5. CASE ClaimStep
  BY <1>5, DistributeLocked DEF ClaimStep
<1>6. CASE EnvironmentStep
  BY <1>6 DEF EnvironmentStep, Tick, Prove, PriceAccountsChange, CloseWindow, LockedWithinBalance, traderVars
<1>7. CASE UNCHANGED vars
  BY <1>7 DEF vars, LockedWithinBalance, traderVars
<1>8. QED
  BY <1>1, <1>2, <1>3, <1>4, <1>5, <1>6, <1>7 DEF Next

\* No trader ever has more locked than he owns, explicit unlocks included
\* (trade.rs:70-103, admin.rs:102-112).
THEOREM LockedCorrect == Spec => []LockedWithinBalance
<1>1. Init => LockedWithinBalance
  BY DEF Init, LockedWithinBalance
<1>2. QED
  BY <1>1, StepLocked, TypeCorrect, PTL DEF Spec

-----------------------------------------------------------------------------
\* Settlements.

\* The latest settlement is the one last_batch_at remembers.
LastBatchRemembered ==
  \A b \in Batches : Settled(b) => receipt[b].settled_at <= last_batch_at

SpacingInv == Untouched /\ LastBatchRemembered /\ SettlementsSpaced

\* Only verify_and_settle writes receipts or last_batch_at once the program is
\* set up; admin_init resets last_batch_at when there is no receipt.
LEMMA SettleSpacing ==
  ASSUME TypeOK, SpacingInv, NEW k \in Keepers, NEW b \in Batches,
         NEW own, NEW vault, verify_and_settle(k, b, own, vault)
  PROVE  LastBatchRemembered' /\ SettlementsSpaced'
<1>1. /\ receipt[b] = NoReceipt
      /\ now - last_batch_at >= MIN_BATCH_INTERVAL
      /\ last_batch_at' = now
      /\ receipt' = [receipt EXCEPT ![b] =
                       [settled_at |-> now, keeper_pubkey |-> k, outputs |-> proof[b]]]
  BY DEF verify_and_settle, SettlementAccepted, BatchNotSettled, BatchDue, Elapsed
<1>2. receipt'[b].settled_at = now
  BY <1>1 DEF TypeOK
<1>3. \A c \in Batches \ {b} : receipt'[c] = receipt[c]
  BY <1>1 DEF TypeOK
<1>4. \A c \in Batches : Settled(c) => receipt[c].settled_at \in Nat
  BY DEF TypeOK, Receipts, Settled
<1>5. now \in Nat /\ last_batch_at \in Nat /\ MIN_BATCH_INTERVAL \in Nat
  BY ParametersAreNat DEF TypeOK
<1>6. \A c \in Batches \ {b} : Settled(c)' =>
         Settled(c) /\ now - receipt'[c].settled_at >= MIN_BATCH_INTERVAL
  BY <1>1, <1>3, <1>4, <1>5 DEF SpacingInv, LastBatchRemembered, Settled
<1>7. LastBatchRemembered'
  BY <1>1, <1>2, <1>3, <1>4, <1>5, <1>6 DEF LastBatchRemembered, Settled
<1>8. SettlementsSpaced'
  BY <1>2, <1>3, <1>4, <1>5, <1>6 DEF SettlementsSpaced, SpacingInv, Settled
<1>9. QED
  BY <1>7, <1>8

\* Every step keeps receipts and last_batch_at in order.
LEMMA StepSpacing == TypeOK /\ SpacingInv /\ [Next]_vars => SpacingInv'
<1> SUFFICES ASSUME TypeOK, SpacingInv, [Next]_vars
             PROVE  LastBatchRemembered' /\ SettlementsSpaced'
  BY StepUntouched DEF SpacingInv
<1>1. CASE UNCHANGED <<receipt, last_batch_at>>
  BY <1>1 DEF SpacingInv, LastBatchRemembered, SettlementsSpaced, Settled
<1>2. CASE \E k \in Keepers, b \in Batches : \E own, vault : verify_and_settle(k, b, own, vault)
  BY <1>2, SettleSpacing
<1>3. CASE \E k \in Keepers : admin_init(k)
  BY <1>3 DEF admin_init, SpacingInv, Untouched, LastBatchRemembered, SettlementsSpaced,
              Settled, settleVars
<1>4. CASE LpStep \/ TraderStep \/ ClaimStep \/ EnvironmentStep \/ UNCHANGED vars
  <2>1. UNCHANGED <<receipt, last_batch_at>>
    BY <1>4 DEF LpStep, TraderStep, ClaimStep, EnvironmentStep, vars, lp_deposit,
       lp_withdraw, trader_deposit, trader_withdraw, distribute_winnings, Tick, Prove,
       PriceAccountsChange, CloseWindow, globalVars, settleVars
  <2>2. QED
    BY <1>1, <2>1
<1>5. CASE KeeperStep
  BY <1>1, <1>2, <1>5 DEF KeeperStep, AcceptTrade, ReleaseTrade, lock_margin,
     unlock_margin, update_market, globalVars, settleVars
<1>6. CASE AdminStep
  BY <1>1, <1>3, <1>6 DEF AdminStep, rotate_keeper, pause, unpause, set_paused,
     init_market, withdraw_protocol_fees, globalVars, settleVars
<1>7. QED
  BY <1>4, <1>5, <1>6 DEF Next

\* Any two settlements are at least min_batch_interval_secs apart, whatever
\* markets they are of and however the keeper is rotated in between
\* (admin.rs:156-160 and 345).
THEOREM SpacingCorrect == Spec => []SettlementsSpaced
<1>1. Init => SpacingInv
  BY KeysDiffer DEF Init, SpacingInv, Untouched, Accounts, Vaults, LastBatchRemembered, SettlementsSpaced, Settled
<1>2. SpacingInv => SettlementsSpaced
  BY DEF SpacingInv
<1>3. QED
  BY <1>1, <1>2, StepSpacing, TypeCorrect, PTL DEF Spec

\* What one step may do to the receipts and the claims.
ReceiptsKept ==
  /\ \A b \in Batches : Settled(b) => receipt'[b] = receipt[b]
  /\ claim_receipt \subseteq claim_receipt'

\* No step changes a receipt or takes back a claim.
LEMMA StepReceiptsKept == TypeOK /\ [Next]_vars => ReceiptsKept
<1> SUFFICES ASSUME TypeOK, [Next]_vars PROVE ReceiptsKept
  OBVIOUS
<1> USE DEF ReceiptsKept
<1>1. ASSUME NEW k \in Keepers, NEW b \in Batches, NEW own, NEW vault,
             verify_and_settle(k, b, own, vault)
      PROVE  ReceiptsKept
  BY <1>1 DEF verify_and_settle, SettlementAccepted, BatchNotSettled, Settled, TypeOK
<1>2. CASE LpStep \/ TraderStep \/ EnvironmentStep \/ UNCHANGED vars
  BY <1>2 DEF LpStep, TraderStep, EnvironmentStep, vars, lp_deposit, lp_withdraw,
     trader_deposit, trader_withdraw, Tick, Prove, PriceAccountsChange, CloseWindow, settleVars
<1>3. CASE KeeperStep
  BY <1>1, <1>3 DEF KeeperStep, AcceptTrade, ReleaseTrade, lock_margin, unlock_margin,
     update_market, settleVars
<1>4. CASE AdminStep
  BY <1>4 DEF AdminStep, admin_init, rotate_keeper, pause, unpause, set_paused,
     init_market, withdraw_protocol_fees, settleVars
<1>5. CASE ClaimStep
  BY <1>5 DEF ClaimStep, distribute_winnings
<1>6. QED
  BY <1>2, <1>3, <1>4, <1>5 DEF Next

\* A batch is settled at most once and a claim is made at most once; neither is
\* ever taken back (context.rs:108-123 and 181-187).
THEOREM SettledOnceCorrect == Spec => SettledOnce
<1>1. TypeOK /\ [Next]_vars => [ReceiptsKept]_vars
  BY StepReceiptsKept
<1>2. QED
  BY <1>1, TypeCorrect, PTL DEF Spec, SettledOnce, ReceiptsKept

-----------------------------------------------------------------------------
\* The value of LP shares.

\* Floor division rounds down: the quotient times the divisor is no more than
\* the dividend.
LEMMA MulDivFloor ==
  ASSUME NEW v \in Nat, NEW n \in Nat, NEW d \in Nat \ {0}
  PROVE  MulDiv(v, n, d) \in Nat /\ MulDiv(v, n, d) * d <= v * n
<1>1. ASSUME NEW a \in Nat
      PROVE  (a \div d) \in Nat /\ (a \div d) * d <= a
  OBVIOUS
<1>2. v * n \in Nat
  OBVIOUS
<1>3. QED
  BY <1>1, <1>2 DEF MulDiv

\* Scaling by a natural keeps the order.
LEMMA ProductMonotone ==
  ASSUME NEW x \in Int, NEW y \in Int, NEW z \in Nat, x >= y
  PROVE  x * z >= y * z
<1>1. x - y \in Nat
  OBVIOUS
<1>2. \A d \in Nat : (y + d) * z = y * z + d * z /\ d * z \in Nat /\ y * z \in Int
  OBVIOUS
<1>3. (y + (x - y)) * z = y * z + (x - y) * z /\ (x - y) * z \in Nat /\ y * z \in Int
  BY <1>1, <1>2
<1>4. y + (x - y) = x
  OBVIOUS
<1> DEFINE extra == (x - y) * z
<1>5. x * z = y * z + extra /\ extra \in Nat /\ y * z \in Int
  BY <1>3, <1>4
<1> HIDE DEF extra
<1>6. QED
  BY <1>5

\* A depositor never gets more shares than his tokens are worth.
LEMMA DepositKeepsPrice ==
  ASSUME TypeOK, NEW lp \in Lps, NEW amount \in Amounts, NEW own, NEW vault,
         lp_deposit(lp, amount, own, vault)
  PROVE  ~PricePerShareFalls
<1> DEFINE D == lp_total_deposited
           S == total_lp_shares
           s == SharesMinted(amount)
<1>1. D \in Nat /\ S \in Nat /\ amount \in Nat
  BY ParametersAreNat, ModelInputs DEF TypeOK, U64
<1>2. lp_total_deposited' = D + amount /\ total_lp_shares' = S + s
  BY DEF lp_deposit, mint_shares
<1>3. CASE S = 0
  BY <1>3 DEF PricePerShareFalls
<1>4. CASE S # 0 /\ D = 0
  <2>1. s = amount
    BY <1>4 DEF SharesMinted
  <2>2. (D + amount) * S >= D * (S + s)
    BY <1>1, <1>4, <2>1
  <2>3. QED
    BY <1>1, <1>2, <2>1, <2>2 DEF PricePerShareFalls
<1>5. CASE S # 0 /\ D # 0
  <2>1. s \in Nat /\ s * D <= amount * S
    BY <1>1, <1>5, MulDivFloor DEF SharesMinted
  <2> HIDE DEF s
  <2>2. (D + amount) * S = D * S + amount * S /\ D * (S + s) = D * S + s * D
    BY <1>1, <2>1
  <2>3. QED
    BY <1>1, <1>2, <2>1, <2>2 DEF PricePerShareFalls
<1>6. QED
  BY <1>3, <1>4, <1>5

\* A redeemer never gets more tokens than his shares are worth.
LEMMA RedemptionKeepsPrice ==
  ASSUME TypeOK, NEW lp \in Lps, NEW shares \in Amounts, NEW own, NEW vault,
         lp_withdraw(lp, shares, own, vault)
  PROVE  ~PricePerShareFalls
<1> DEFINE D == lp_total_deposited
           S == total_lp_shares
           a == AmountRedeemed(shares)
<1>1. D \in Nat /\ S \in Nat \ {0} /\ shares \in Nat
  BY ParametersAreNat, ModelInputs DEF TypeOK, U64, lp_withdraw, SafeMulDiv
<1>2. lp_total_deposited' = D - a /\ total_lp_shares' = S - shares
  BY DEF lp_withdraw
<1>3. a \in Nat /\ a * S <= shares * D
  BY <1>1, MulDivFloor DEF AmountRedeemed
<1> HIDE DEF a
<1>4. (D - a) * S = D * S - a * S /\ D * (S - shares) = D * S - shares * D
  BY <1>1, <1>3
<1>5. QED
  BY <1>1, <1>2, <1>3, <1>4 DEF PricePerShareFalls

\* The keeper's fee never exceeds what the batch moved.
FeeWithinNet ==
  \A b \in Batches :
    proof[b] # NoProof => proof[b].keeper_fee <= Magnitude(proof[b].net_payout)

\* A keeper fee of at most 100 % is no more than the net it is taken from.
LEMMA FeePart ==
  ASSUME NEW net \in Int
  PROVE  KeeperFee(net) <= Magnitude(net)
<1> DEFINE m == Magnitude(net)
           q == MulDiv(m, KEEPER_FEE_BPS, BPS_DENOMINATOR)
<1>1. m \in Nat
  BY DEF Magnitude
<1> HIDE DEF m
<1>2. q \in Nat /\ q * BPS_DENOMINATOR <= m * KEEPER_FEE_BPS
  BY <1>1, MulDivFloor, ParametersAreNat DEF BPS_DENOMINATOR
<1>3. m * KEEPER_FEE_BPS <= m * BPS_DENOMINATOR
  BY <1>1, KeeperFeeIsPart, ParametersAreNat DEF BPS_DENOMINATOR
<1> HIDE DEF q
<1>4. q <= m
  BY <1>1, <1>2, <1>3, ParametersAreNat DEF BPS_DENOMINATOR
<1>5. QED
  BY <1>4 DEF KeeperFee, q, m

\* No proof asks for more than its net as a fee.
LEMMA StepFeeWithinNet == TypeOK /\ FeeWithinNet /\ [Next]_vars => FeeWithinNet'
<1> SUFFICES ASSUME TypeOK, FeeWithinNet, [Next]_vars PROVE FeeWithinNet'
  OBVIOUS
<1>1. CASE UNCHANGED proof
  BY <1>1 DEF FeeWithinNet
<1>2. ASSUME NEW b \in Batches, Prove(b)
      PROVE  FeeWithinNet'
  <2> DEFINE net == NetPayout(BatchTrades(b))
  <2>1. PublicOutputs(b) \in Outputs
    BY <1>2 DEF Prove, GuestAccepts
  <2>2. PublicOutputs(b).net_payout = net /\ PublicOutputs(b).keeper_fee = KeeperFee(net)
    BY DEF PublicOutputs
  <2>3. net \in Int
    BY <2>1, <2>2, OutputFields
  <2> HIDE DEF net
  <2>4. PublicOutputs(b).keeper_fee <= Magnitude(PublicOutputs(b).net_payout)
    BY <2>2, <2>3, FeePart
  <2>5. proof' = [proof EXCEPT ![b] = PublicOutputs(b)]
    BY <1>2 DEF Prove
  <2>6. QED
    BY <2>4, <2>5 DEF FeeWithinNet, TypeOK
<1>3. CASE LpStep \/ TraderStep \/ KeeperStep \/ AdminStep \/ ClaimStep
             \/ UNCHANGED vars
  <2>1. UNCHANGED proof
    BY <1>3 DEF LpStep, TraderStep, KeeperStep, AdminStep, ClaimStep, vars, lp_deposit,
       lp_withdraw, trader_deposit, trader_withdraw, AcceptTrade, ReleaseTrade,
       update_market, verify_and_settle, admin_init, rotate_keeper, pause, unpause,
       set_paused, init_market, withdraw_protocol_fees, distribute_winnings, envVars,
       proofVars
  <2>2. QED
    BY <1>1, <2>1
<1>4. CASE EnvironmentStep
  BY <1>1, <1>2, <1>4 DEF EnvironmentStep, Tick, CloseWindow, PriceAccountsChange,
              proofVars
<1>5. QED
  BY <1>3, <1>4 DEF Next

\* A settlement that does not pay traders net leaves the pool no poorer.
LEMMA SettleKeepsPrice ==
  ASSUME TypeOK, FeeWithinNet, NEW k \in Keepers, NEW b \in Batches, NEW own,
         NEW vault, verify_and_settle(k, b, own, vault), ~(proof[b].net_payout > 0)
  PROVE  ~PricePerShareFalls
<1> DEFINE p == proof[b]
           D == lp_total_deposited
           S == total_lp_shares
<1>1. p \in Outputs /\ p # NoProof
  BY DEF TypeOK, verify_and_settle, SettlementAccepted, ProofVerifies
<1>2. p.net_payout \in Int /\ p.keeper_fee \in Int
  BY <1>1, OutputFields, ParametersAreNat DEF U64
<1>3. p.keeper_fee <= -p.net_payout
  BY <1>1, <1>2 DEF FeeWithinNet, Magnitude
<1>4. lp_total_deposited' = D - p.net_payout - p.keeper_fee /\ total_lp_shares' = S
  BY DEF verify_and_settle, SettleVault, PoolAfter
<1>5. D \in Nat /\ S \in Nat
  BY ParametersAreNat DEF TypeOK, U64
<1>6. lp_total_deposited' \in Int /\ lp_total_deposited' >= D
  BY <1>2, <1>3, <1>4, <1>5
<1> DEFINE D2 == lp_total_deposited'
<1> HIDE DEF p, D2
<1>7. D2 * S >= D * S
  <2> HIDE DEF D, S
  <2>1. D2 \in Int /\ D \in Int /\ S \in Nat /\ D2 >= D
    BY <1>5, <1>6 DEF D2
  <2>2. QED
    BY <2>1, ProductMonotone
<1>8. QED
  BY <1>4, <1>5, <1>6, <1>7 DEF PricePerShareFalls, D2

\* What a step that lowers the price of a share must be.
PriceStep ==
  PricePerShareFalls =>
    \/ accrued_protocol_fees' < accrued_protocol_fees
    \/ \E b \in Batches :
         ~Settled(b) /\ receipt'[b] # NoReceipt /\ proof[b].net_payout > 0

\* Every step keeps the price of the shares that stay, or is one of the two exceptions.
LEMMA StepPrice == TypeOK /\ Untouched /\ FeeWithinNet /\ [Next]_vars => PriceStep
<1> SUFFICES ASSUME TypeOK, Untouched, FeeWithinNet, [Next]_vars PROVE PriceStep
  OBVIOUS
<1>1. CASE UNCHANGED <<lp_total_deposited, total_lp_shares>>
  BY <1>1, ParametersAreNat DEF PriceStep, PricePerShareFalls, TypeOK, U64
<1>2. CASE LpStep
  BY <1>2, DepositKeepsPrice, RedemptionKeepsPrice DEF LpStep, PriceStep
<1>3. ASSUME NEW k \in Keepers, NEW b \in Batches, NEW own, NEW vault,
             verify_and_settle(k, b, own, vault)
      PROVE  PriceStep
  <2>1. ~Settled(b)
    BY <1>3 DEF verify_and_settle, SettlementAccepted, BatchNotSettled, Settled
  <2>2. receipt'[b] # NoReceipt
    BY <1>3, ReceiptsDiffer
    DEF verify_and_settle, SettlementAccepted, ProofVerifies, TypeOK, Receipts
  <2>3. QED
    BY <1>3, <2>1, <2>2, SettleKeepsPrice DEF PriceStep
<1>4. CASE KeeperStep
  BY <1>1, <1>3, <1>4 DEF KeeperStep, AcceptTrade, ReleaseTrade, lock_margin,
     unlock_margin, update_market, vaultVars
<1>5. CASE AdminStep
  <2>1. ASSUME NEW k \in Keepers, admin_init(k)
        PROVE  PriceStep
    BY <2>1, ParametersAreNat DEF admin_init, PriceStep, PricePerShareFalls, TypeOK, U64
  <2>2. ASSUME NEW amount \in Amounts, NEW own, NEW vault,
               withdraw_protocol_fees(Admin, amount, own, vault)
        PROVE  PriceStep
    BY <2>2, ModelInputs, ParametersAreNat
    DEF withdraw_protocol_fees, NonZero, PriceStep, TypeOK, U64
  <2>3. QED
    BY <1>1, <1>5, <2>1, <2>2 DEF AdminStep, rotate_keeper, pause, unpause, set_paused,
       init_market, vaultVars
<1>6. CASE TraderStep \/ ClaimStep \/ EnvironmentStep \/ UNCHANGED vars
  BY <1>1, <1>6 DEF TraderStep, ClaimStep, EnvironmentStep, vars, trader_deposit,
     trader_withdraw, distribute_winnings, Tick, Prove, PriceAccountsChange, CloseWindow, vaultVars
<1>7. QED
  BY <1>2, <1>4, <1>5, <1>6 DEF Next

\* The LP shares held lose value only in a settlement that pays traders net or
\* a withdrawal of protocol fees (lp.rs:23-27 and 73, admin.rs:241-301).
THEOREM SharePriceCorrect == Spec => SharePriceKept
<1>1. Init => Untouched /\ FeeWithinNet
  BY KeysDiffer DEF Init, Untouched, Accounts, Vaults, FeeWithinNet
<1>2. TypeOK /\ Untouched /\ FeeWithinNet /\ [Next]_vars => [PriceStep]_vars
  BY StepPrice
<1>3. QED
  BY <1>1, <1>2, StepUntouched, StepFeeWithinNet, TypeCorrect, PTL
  DEF Spec, SharePriceKept, PriceStep

-----------------------------------------------------------------------------
\* Stale proofs and pauses.

\* A proof exists only for a batch whose window has ended, and it records a
\* multiplier cap that every trade of the batch respects.
ProofOnTerms ==
  \A b \in Batches : proof[b] # NoProof =>
    /\ b \in closed
    /\ \A t \in BatchTrades(b) : Multiplier[t] <= proof[b].market_max_multiplier

\* A window that has ended gets no more trades.
LEMMA AcceptKeepsTerms ==
  ASSUME ProofOnTerms, NEW t \in Trades, AcceptTrade(t)
  PROVE  ProofOnTerms'
<1> SUFFICES ASSUME NEW b \in Batches, proof'[b] # NoProof
             PROVE  /\ b \in closed'
                    /\ \A u \in BatchTrades(b)' :
                         Multiplier[u] <= proof'[b].market_max_multiplier
  BY DEF ProofOnTerms
<1>1. UNCHANGED <<closed, proof>> /\ accepted' = accepted \cup {t}
      /\ TradeBatch[t] \notin closed
  BY DEF AcceptTrade, proofVars
<1>2. b \in closed
  BY <1>1 DEF ProofOnTerms
<1>3. BatchTrades(b)' = BatchTrades(b)
  BY <1>1, <1>2 DEF BatchTrades
<1>4. QED
  BY <1>1, <1>2, <1>3 DEF ProofOnTerms

\* The guest checks every trade against the cap it commits to.
LEMMA ProveKeepsTerms ==
  ASSUME TypeOK, ProofOnTerms, NEW b \in Batches, Prove(b)
  PROVE  ProofOnTerms'
<1>1. /\ proof' = [proof EXCEPT ![b] = PublicOutputs(b)]
      /\ b \in closed
      /\ UNCHANGED <<accepted, closed>>
  BY DEF Prove, tradeVars
<1>2. \A t \in BatchTrades(b) :
         Multiplier[t] \in MIN_TRADE_MULTIPLIER_BPS .. max_multiplier[BatchMarket[b]]
  BY DEF Prove, GuestAccepts
<1>3. PublicOutputs(b).market_max_multiplier = max_multiplier[BatchMarket[b]]
  BY DEF PublicOutputs
<1>4. max_multiplier[BatchMarket[b]] \in Nat
  BY TradesWellFormed DEF TypeOK
<1>5. \A t \in BatchTrades(b) : Multiplier[t] <= PublicOutputs(b).market_max_multiplier
  BY <1>2, <1>3, <1>4 DEF MIN_TRADE_MULTIPLIER_BPS
<1>6. \A c \in Batches : BatchTrades(c)' = BatchTrades(c)
  BY <1>1 DEF BatchTrades
<1>7. QED
  BY <1>1, <1>5, <1>6 DEF ProofOnTerms, TypeOK

\* Every step leaves proofs true of the trades of their batches.
LEMMA StepProofOnTerms == TypeOK /\ ProofOnTerms /\ [Next]_vars => ProofOnTerms'
<1> SUFFICES ASSUME TypeOK, ProofOnTerms, [Next]_vars PROVE ProofOnTerms'
  OBVIOUS
<1>1. CASE UNCHANGED <<accepted, closed, proof>>
  BY <1>1 DEF ProofOnTerms, BatchTrades
<1>2. ASSUME NEW b \in Batches, NEW won \in SUBSET Trades, CloseWindow(b, won)
      PROVE  ProofOnTerms'
  BY <1>2 DEF CloseWindow, ProofOnTerms, BatchTrades, proofVars
<1>3. CASE KeeperStep
  <2>1. ASSUME NEW t \in Trades, ReleaseTrade(t)
        PROVE  UNCHANGED <<accepted, closed, proof>>
    BY <2>1 DEF ReleaseTrade, proofVars
  <2>2. ASSUME NEW m \in Markets, NEW regime \in Regimes, NEW cap \in MultiplierCaps,
               update_market(keeper, m, regime, cap)
        PROVE  UNCHANGED <<accepted, closed, proof>>
    BY <2>2 DEF update_market, envVars, tradeVars, proofVars
  <2>3. ASSUME NEW k \in Keepers, NEW b \in Batches, NEW own, NEW vault,
             verify_and_settle(k, b, own, vault)
        PROVE  UNCHANGED <<accepted, closed, proof>>
    BY <2>3 DEF verify_and_settle, envVars, tradeVars, proofVars
  <2>4. QED
    BY <1>1, <1>3, <2>1, <2>2, <2>3, AcceptKeepsTerms DEF KeeperStep
<1>4. CASE LpStep \/ TraderStep \/ AdminStep \/ ClaimStep \/ UNCHANGED vars
  <2>1. UNCHANGED <<accepted, closed, proof>>
    BY <1>4 DEF LpStep, TraderStep, AdminStep, ClaimStep, vars, lp_deposit,
       lp_withdraw, trader_deposit, trader_withdraw, admin_init, rotate_keeper, pause,
       unpause, set_paused, init_market, withdraw_protocol_fees, distribute_winnings,
       envVars, tradeVars, proofVars
  <2>2. QED
    BY <1>1, <2>1
<1>5. CASE EnvironmentStep
  BY <1>1, <1>2, <1>5, ProveKeepsTerms DEF EnvironmentStep, Tick,
     PriceAccountsChange, tradeVars, proofVars
<1>6. QED
  BY <1>3, <1>4, <1>5 DEF Next

\* What a step that settles a batch finds.
OnTerms ==
  \A b \in Batches : ~Settled(b) /\ receipt'[b] # NoReceipt =>
    \A t \in BatchTrades(b) : Multiplier[t] <= max_multiplier[BatchMarket[b]]

\* A step that settles a batch does so on a cap that bounds its trades.
LEMMA StepOnTerms == TypeOK /\ ProofOnTerms /\ [Next]_vars => OnTerms
<1> SUFFICES ASSUME TypeOK, ProofOnTerms, [Next]_vars PROVE OnTerms
  OBVIOUS
<1>1. CASE UNCHANGED receipt
  BY <1>1 DEF OnTerms, Settled
<1>2. ASSUME NEW k \in Keepers, NEW b \in Batches, NEW own, NEW vault,
             verify_and_settle(k, b, own, vault)
      PROVE  OnTerms
  <2>1. /\ proof[b] # NoProof
        /\ proof[b].market_max_multiplier = max_multiplier[BatchMarket[b]]
    BY <1>2 DEF verify_and_settle, SettlementAccepted, ProofVerifies, OutputsMatchChain
  <2>2. \A c \in Batches \ {b} : receipt'[c] = receipt[c]
    BY <1>2 DEF verify_and_settle, TypeOK
  <2>3. QED
    BY <2>1, <2>2 DEF OnTerms, ProofOnTerms, Settled
<1>3. CASE KeeperStep
  BY <1>1, <1>2, <1>3 DEF KeeperStep, AcceptTrade, ReleaseTrade, lock_margin,
     unlock_margin, update_market, settleVars
<1>4. CASE LpStep \/ TraderStep \/ AdminStep \/ ClaimStep \/ EnvironmentStep
             \/ UNCHANGED vars
  <2>1. UNCHANGED receipt
    BY <1>4 DEF LpStep, TraderStep, AdminStep, ClaimStep, EnvironmentStep, vars,
       lp_deposit, lp_withdraw, trader_deposit, trader_withdraw, admin_init,
       rotate_keeper, pause, unpause, set_paused, init_market, withdraw_protocol_fees,
       distribute_winnings, Tick, Prove, PriceAccountsChange, CloseWindow, settleVars
  <2>2. QED
    BY <1>1, <2>1
<1>5. QED
  BY <1>3, <1>4 DEF Next

\* No batch is ever settled on a multiplier cap that one of its trades exceeds,
\* however the market moved between proof and settlement (admin.rs:166-209).
THEOREM SettledOnTermsCorrect == Spec => SettledOnTerms
<1>1. Init => ProofOnTerms
  BY DEF Init, ProofOnTerms
<1>2. TypeOK /\ ProofOnTerms /\ [Next]_vars => [OnTerms]_vars
  BY StepOnTerms
<1>3. QED
  BY <1>1, <1>2, StepProofOnTerms, TypeCorrect, PTL DEF Spec, SettledOnTerms, OnTerms

\* The program can only be paused once it is set up, so admin_init never
\* resets the totals of a paused program.
PausedIsSetUp == paused => keeper # NoKey

\* Only a program that is set up is ever paused.
LEMMA StepPausedIsSetUp == PausedIsSetUp /\ [Next]_vars => PausedIsSetUp'
<1> SUFFICES ASSUME PausedIsSetUp, [Next]_vars PROVE PausedIsSetUp'
  OBVIOUS
<1>1. CASE UNCHANGED <<keeper, paused>>
  BY <1>1 DEF PausedIsSetUp
<1>2. CASE AdminStep
  <2>1. ASSUME NEW k \in Keepers, admin_init(k) \/ rotate_keeper(Admin, k)
        PROVE  keeper' # NoKey
    BY <2>1, KeysDiffer DEF admin_init, rotate_keeper
  <2>2. QED
    BY <1>2, <2>1 DEF AdminStep, pause, unpause, set_paused, AdminSigned, init_market,
       withdraw_protocol_fees, globalVars, PausedIsSetUp
<1>3. CASE LpStep \/ TraderStep \/ KeeperStep \/ ClaimStep \/ EnvironmentStep
             \/ UNCHANGED vars
  <2>1. UNCHANGED <<keeper, paused>>
    BY <1>3 DEF LpStep, TraderStep, KeeperStep, ClaimStep, EnvironmentStep, vars,
       lp_deposit, lp_withdraw, trader_deposit, trader_withdraw, AcceptTrade,
       ReleaseTrade, lock_margin, unlock_margin, update_market, verify_and_settle,
       SettlementAccepted,
       distribute_winnings, Tick, Prove, PriceAccountsChange, CloseWindow, globalVars
  <2>2. QED
    BY <1>1, <2>1
<1>4. QED
  BY <1>2, <1>3 DEF Next

\* What a step may do while the program is paused.
Frozen ==
  paused =>
    /\ UNCHANGED <<marketVars, lpVars, traderVars, settleVars,
                   total_lp_shares, trader_total_margin>>
    /\ lp_total_deposited - lp_total_deposited'
         = accrued_protocol_fees - accrued_protocol_fees'

\* No step of a paused program moves anything but accrued fees.
LEMMA StepFrozen == TypeOK /\ PausedIsSetUp /\ [Next]_vars => Frozen
<1> SUFFICES ASSUME TypeOK, PausedIsSetUp, [Next]_vars, paused
             PROVE  /\ UNCHANGED <<marketVars, lpVars, traderVars, settleVars,
                                   total_lp_shares, trader_total_margin>>
                    /\ lp_total_deposited - lp_total_deposited'
                         = accrued_protocol_fees - accrued_protocol_fees'
  BY DEF Frozen
<1>1. lp_total_deposited \in Nat /\ accrued_protocol_fees \in Nat
  BY ParametersAreNat DEF TypeOK, U64
<1>2. ~LpStep /\ ~TraderStep /\ ~KeeperStep /\ ~ClaimStep
  BY DEF LpStep, TraderStep, KeeperStep, ClaimStep, lp_deposit, lp_withdraw,
     trader_deposit, trader_withdraw, AcceptTrade, ReleaseTrade, lock_margin,
     unlock_margin, update_market, verify_and_settle,
     SettlementAccepted, distribute_winnings, NotPaused
<1>3. CASE AdminStep
  <2>1. CASE \E amount \in Amounts :
               \E own, vault : withdraw_protocol_fees(Admin, amount, own, vault)
    BY <1>1, <2>1, ModelInputs DEF withdraw_protocol_fees, NonZero
  <2>2. CASE \E k \in Keepers : rotate_keeper(Admin, k)
    BY <1>1, <2>2 DEF rotate_keeper, vaultVars
  <2>3. CASE pause(Admin) \/ unpause(Admin)
    BY <1>1, <2>3 DEF pause, unpause, set_paused, vaultVars
  <2>4. QED
    BY <1>3, <2>1, <2>2, <2>3
    DEF AdminStep, admin_init, init_market, NotPaused, PausedIsSetUp
<1>4. CASE EnvironmentStep \/ UNCHANGED vars
  BY <1>1, <1>4 DEF EnvironmentStep, vars, Tick, Prove, PriceAccountsChange, CloseWindow, vaultVars
<1>5. QED
  BY <1>2, <1>3, <1>4 DEF Next

\* A pause freezes every position, margin account, market, receipt and claim;
\* only accrued fees may still leave the pool (global.rs:31-35, admin.rs:36-58).
THEOREM FrozenCorrect == Spec => FrozenWhilePaused
<1>1. Init => PausedIsSetUp
  BY DEF Init, PausedIsSetUp
<1>2. TypeOK /\ PausedIsSetUp /\ [Next]_vars => [Frozen]_vars
  BY StepFrozen
<1>3. QED
  BY <1>1, <1>2, StepPausedIsSetUp, TypeCorrect, PTL DEF Spec, FrozenWhilePaused, Frozen

-----------------------------------------------------------------------------
\* The solvency check.

\* Nothing ever raises current_liability.
NoLiability == current_liability = 0

\* No step raises current_liability.
LEMMA StepNoLiability == TypeOK /\ NoLiability /\ [Next]_vars => NoLiability'
<1> SUFFICES ASSUME TypeOK, NoLiability, [Next]_vars PROVE NoLiability'
  OBVIOUS
<1>1. CASE UNCHANGED current_liability
  BY <1>1 DEF NoLiability
<1>2. ASSUME NEW k \in Keepers, NEW b \in Batches, NEW own, NEW vault,
             verify_and_settle(k, b, own, vault)
      PROVE  NoLiability'
  BY <1>2, ParametersAreNat
  DEF verify_and_settle, SettlementAccepted, OutputsMatchChain, SettleVault, LiabilityAfter,
      NoLiability, TypeOK, U64
<1>3. CASE LpStep \/ TraderStep
  BY <1>1, <1>3 DEF LpStep, TraderStep, lp_deposit, lp_withdraw, trader_deposit,
     trader_withdraw
<1>4. CASE KeeperStep
  BY <1>1, <1>2, <1>4 DEF KeeperStep, AcceptTrade, ReleaseTrade, lock_margin,
     unlock_margin, update_market, vaultVars
<1>5. CASE AdminStep
  BY <1>1, <1>5 DEF AdminStep, admin_init, NoLiability, rotate_keeper, pause, unpause,
     set_paused, init_market, withdraw_protocol_fees, vaultVars
<1>6. CASE ClaimStep \/ EnvironmentStep \/ UNCHANGED vars
  BY <1>1, <1>6 DEF ClaimStep, distribute_winnings, EnvironmentStep, Tick, Prove,
     PriceAccountsChange, CloseWindow, vars, vaultVars
<1>7. QED
  BY <1>3, <1>4, <1>5, <1>6 DEF Next

\* The solvency check of deposits, withdrawals and settlements never refuses
\* anything, whatever the pool holds and whatever it may owe: current_liability,
\* its divisor, is never anything but zero (vault.rs:30-42, admin.rs:264-267).
THEOREM SolvencyNeverRefuses ==
  Spec => [](\A deposited \in U64 : CheckSolvency(deposited, current_liability))
<1>1. Init => NoLiability
  BY DEF Init, NoLiability
<1>2. NoLiability => \A deposited \in U64 : CheckSolvency(deposited, current_liability)
  BY DEF NoLiability, CheckSolvency
<1>3. QED
  BY <1>1, <1>2, StepNoLiability, TypeCorrect, PTL DEF Spec

=============================================================================
