-------------------------- MODULE AccountingProofs --------------------------
(***************************************************************************)
(* The engine's sums, for every number of LPs, traders, batches and        *)
(* trades: shares, margin, fees, locks, and what the trader vault covers.  *)
(* From them follows that a fresh proof settles.  Last, the engine's model *)
(* of the prover admits every batch file the guest's own model accepts.    *)
(***************************************************************************)
EXTENDS LedgerProofs, DataTheorems, Sequences

\* The total of a function is its sum over its domain.
LEMMA TotalIs ==
  ASSUME NEW S, NEW V, NEW f \in [S -> V]
  PROVE  Total(f) = SumFunctionOnSet(f, S)
<1>1. DOMAIN f = S
  OBVIOUS
<1>2. QED
  BY <1>1, Zenon DEF Total, SumFunction

\* Changing a function at one argument changes its total by as much.
LEMMA TotalUpdate ==
  ASSUME NEW S, IsFiniteSet(S), NEW f \in [S -> U64], NEW g \in [S -> U64],
         NEW a \in S, g = [f EXCEPT ![a] = g[a]]
  PROVE  Total(g) = Total(f) + g[a] - f[a] /\ Total(f) \in Nat
<1>1. \A x \in S : f[x] \in Nat /\ g[x] \in Nat /\ f[x] \in Int /\ g[x] \in Int
  BY ParametersAreNat DEF U64
<1>2. \A x \in S \ {a} : g[x] = f[x]
  OBVIOUS
<1>3. SumFunctionOnSet(g, S) = SumFunctionOnSet(f, S) + g[a] - f[a]
  <2>1. (\A x \in S : f[x] \in Int) /\ g[a] \in Int
    BY <1>1
  <2>2. QED
    BY <1>2, <2>1, SumUpdate
<1>4. SumFunctionOnSet(f, S) \in Nat
  BY <1>1, SumNat
<1>5. Total(g) = SumFunctionOnSet(g, S) /\ Total(f) = SumFunctionOnSet(f, S)
  BY TotalIs
<1>6. QED
  BY <1>2, <1>3, <1>4, <1>5

-----------------------------------------------------------------------------
\* Before admin_init nothing is booked, so its resets overwrite nothing.
NothingBooked ==
  keeper = NoKey =>
    total_lp_shares = 0 /\ trader_total_margin = 0 /\ accrued_protocol_fees = 0

\* Nothing is booked before admin_init has run.
LEMMA StepNothingBooked == NothingBooked /\ [Next]_vars => NothingBooked'
<1> SUFFICES ASSUME NothingBooked, [Next]_vars PROVE NothingBooked'
  OBVIOUS
<1> USE DEF NothingBooked
<1>1. CASE LpStep
  BY <1>1 DEF LpStep, lp_deposit, lp_withdraw, NotPaused, globalVars
<1>2. CASE TraderStep
  BY <1>2 DEF TraderStep, trader_deposit, trader_withdraw, NotPaused, globalVars
<1>3. CASE KeeperStep
  BY <1>3 DEF KeeperStep, AcceptTrade, ReleaseTrade, lock_margin, unlock_margin,
              update_market, verify_and_settle, SettlementAccepted, NotPaused, globalVars
<1>4. CASE AdminStep
  <2>1. ASSUME NEW k \in Keepers, admin_init(k) \/ rotate_keeper(Admin, k)
        PROVE  keeper' # NoKey
    BY <2>1, KeysDiffer DEF admin_init, rotate_keeper
  <2>2. QED
    BY <1>4, <2>1 DEF AdminStep, pause, unpause, set_paused, AdminSigned, init_market,
                      withdraw_protocol_fees, NotPaused, globalVars
<1>5. CASE ClaimStep
  BY <1>5 DEF ClaimStep, distribute_winnings, NotPaused, globalVars
<1>6. CASE EnvironmentStep
  BY <1>6 DEF EnvironmentStep, Tick, Prove, PriceAccountsChange, CloseWindow, globalVars, vaultVars
<1>7. CASE UNCHANGED vars
  BY <1>7 DEF vars, globalVars, vaultVars
<1>8. QED
  BY <1>1, <1>2, <1>3, <1>4, <1>5, <1>6, <1>7 DEF Next

\* A deposit adds the same shares to the total and to one position.
LEMMA DepositShares ==
  ASSUME TypeOK, TypeOK', SharesBacked, NEW lp \in Lps, NEW amount \in Amounts,
         NEW own, NEW vault, lp_deposit(lp, amount, own, vault)
  PROVE  SharesBacked'
<1> DEFINE shares == SharesMinted(amount)
<1>1. /\ total_lp_shares' = total_lp_shares + shares
      /\ lp_shares' = [lp_shares EXCEPT ![lp] = lp_shares[lp] + shares]
      /\ shares \in U64
  BY DEF lp_deposit, mint_shares
<1> HIDE DEF shares
<1>2. lp_shares \in [Lps -> U64] /\ lp_shares' \in [Lps -> U64]
  BY DEF TypeOK
<1>3. Total(lp_shares') = Total(lp_shares) + lp_shares'[lp] - lp_shares[lp]
      /\ Total(lp_shares) \in Nat
  <2>1. lp_shares' = [lp_shares EXCEPT ![lp] = lp_shares'[lp]]
    BY <1>1, <1>2
  <2>2. IsFiniteSet(Lps)
    BY AccountsAreFinite
  <2>3. QED
    BY <1>2, <2>1, <2>2, TotalUpdate
<1>4. shares \in Nat /\ lp_shares[lp] \in Nat
  BY <1>1, <1>2, ParametersAreNat DEF U64
<1>5. QED
  BY <1>1, <1>2, <1>3, <1>4 DEF SharesBacked

\* A redemption takes the same shares off both.
LEMMA RedemptionShares ==
  ASSUME TypeOK, TypeOK', SharesBacked, NEW lp \in Lps, NEW shares \in Amounts,
         NEW own, NEW vault, lp_withdraw(lp, shares, own, vault)
  PROVE  SharesBacked'
<1>1. /\ total_lp_shares' = total_lp_shares - shares
      /\ lp_shares' = [lp_shares EXCEPT ![lp] = lp_shares[lp] - shares]
  BY DEF lp_withdraw
<1>2. lp_shares \in [Lps -> U64] /\ lp_shares' \in [Lps -> U64]
  BY DEF TypeOK
<1>3. Total(lp_shares') = Total(lp_shares) + lp_shares'[lp] - lp_shares[lp]
      /\ Total(lp_shares) \in Nat
  <2>1. lp_shares' = [lp_shares EXCEPT ![lp] = lp_shares'[lp]]
    BY <1>1, <1>2
  <2>2. IsFiniteSet(Lps)
    BY AccountsAreFinite
  <2>3. QED
    BY <1>2, <2>1, <2>2, TotalUpdate
<1>4. shares \in Nat /\ lp_shares[lp] \in Nat
  BY <1>2, ModelInputs, ParametersAreNat DEF U64
<1>5. QED
  BY <1>1, <1>2, <1>3, <1>4 DEF SharesBacked

\* Every other step leaves the shares alone.
LEMMA StepShares ==
  TypeOK /\ TypeOK' /\ NothingBooked /\ SharesBacked /\ [Next]_vars => SharesBacked'
<1> SUFFICES ASSUME TypeOK, TypeOK', NothingBooked, SharesBacked, [Next]_vars
             PROVE  SharesBacked'
  OBVIOUS
<1>1. CASE LpStep
  BY <1>1, DepositShares, RedemptionShares DEF LpStep
<1>2. CASE UNCHANGED <<total_lp_shares, lp_shares>>
  BY <1>2 DEF SharesBacked, Total
<1>3. CASE TraderStep
  BY <1>2, <1>3 DEF TraderStep, trader_deposit, trader_withdraw, lpVars
<1>4. CASE KeeperStep
  BY <1>2, <1>4 DEF KeeperStep, AcceptTrade, ReleaseTrade, lock_margin, unlock_margin,
              update_market, verify_and_settle, SettleVault, vaultVars, lpVars
<1>5. CASE AdminStep
  BY <1>2, <1>5 DEF AdminStep, admin_init, rotate_keeper, pause, unpause, set_paused,
              init_market, withdraw_protocol_fees, NothingBooked, vaultVars, lpVars
<1>6. CASE ClaimStep
  BY <1>2, <1>6 DEF ClaimStep, distribute_winnings, vaultVars, lpVars
<1>7. CASE EnvironmentStep
  BY <1>2, <1>7 DEF EnvironmentStep, Tick, Prove, PriceAccountsChange, CloseWindow, vaultVars, lpVars
<1>8. CASE UNCHANGED vars
  BY <1>2, <1>8 DEF vars, vaultVars, lpVars
<1>9. QED
  BY <1>1, <1>3, <1>4, <1>5, <1>6, <1>7, <1>8 DEF Next

\* The shares outstanding are the shares the positions hold, however many LPs
\* there are (lp.rs:29-34 and 75-77).
THEOREM SharesCorrect == Spec => []SharesBacked
<1>1. Init => NothingBooked /\ SharesBacked
  <2> SUFFICES ASSUME Init PROVE NothingBooked /\ SharesBacked
    OBVIOUS
  <2>1. lp_shares \in [Lps -> {0}] /\ \A x \in Lps : lp_shares[x] = 0
    BY DEF Init
  <2>2. SumFunctionOnSet(lp_shares, Lps) = 0
    BY <2>1, SumZero, AccountsAreFinite
  <2>3. Total(lp_shares) = 0
    BY <2>1, <2>2, TotalIs
  <2>4. QED
    BY <2>3 DEF Init, NothingBooked, SharesBacked
<1>2. QED
  BY <1>1, StepNothingBooked, StepShares, TypeCorrect, PTL DEF Spec

-----------------------------------------------------------------------------
\* Margin.

\* A claim is only made of a settled trade.
ClaimsSettled == \A t \in claim_receipt : t \in accepted /\ Settled(TradeBatch[t])

\* Every proof's net is that of the payouts it commits to, and a protocol fee
\* is only asked for on a gain of the pool.
ProofsBalance ==
  \A b \in Batches : proof[b] # NoProof =>
    LET c == proof[b].payouts_commitment IN
    /\ proof[b].net_payout = Total([t \in DOMAIN c |-> c[t] - Stake[t]])
    /\ proof[b].net_payout >= 0 => proof[b].protocol_fee = 0

\* Stakes and gross payouts are amounts.
LEMMA TradeAmounts ==
  ASSUME NEW t \in Trades
  PROVE  /\ Stake[t] \in Nat
         /\ MaxPayout(t) \in Nat
         /\ Payout(t) \in Nat
         /\ Payout(t)' \in Nat
<1>1. Stake[t] \in Nat /\ Multiplier[t] \in Nat
  BY TradesWellFormed
<1>2. Stake[t] * Multiplier[t] \in Nat
  BY <1>1
<1>3. MaxPayout(t) \in Nat
  BY <1>2, QuotientNat DEF MaxPayout, MulDiv, BPS_DENOMINATOR
<1>4. QED
  BY <1>1, <1>3 DEF Payout

\* The sums over any trades are amounts.
LEMMA SumsAreNat ==
  ASSUME NEW T \in SUBSET Trades
  PROVE  IsFiniteSet(T) /\ Stakes(T) \in Nat /\ Payouts(T) \in Nat
<1>1. IsFiniteSet(T)
  BY AccountsAreFinite, FS_Subset
<1>2. Stakes(T) \in Nat
  BY <1>1, TradeAmounts, SumNat DEF Stakes
<1> DEFINE f == [t \in Trades |-> Payout(t)]
<1>3. \A t \in T : f[t] \in Nat
  BY TradeAmounts
<1> HIDE DEF f
<1>4. SumFunctionOnSet(f, T) \in Nat
  BY <1>1, <1>3, SumNat
<1>5. QED
  BY <1>1, <1>2, <1>4 DEF f, Payouts

\* The net of a set of trades: what they are paid less what they staked.
LEMMA NetIsDifference ==
  ASSUME NEW T \in SUBSET Trades
  PROVE  NetPayout(T) = Payouts(T) - Stakes(T)
<1> DEFINE f == [t \in Trades |-> Payout(t)]
           g == [t \in Trades |-> Payout(t) - Stake[t]]
<1>1. \A t \in T : g[t] \in Int /\ Stake[t] \in Int /\ f[t] = g[t] + Stake[t]
  BY TradeAmounts
<1>2. IsFiniteSet(T) /\ Stakes(T) \in Nat
  BY SumsAreNat
<1> HIDE DEF f, g
<1>3. SumFunctionOnSet(f, T) = SumFunctionOnSet(g, T) + SumFunctionOnSet(Stake, T)
  BY <1>1, <1>2, SumPlus
<1>4. SumFunctionOnSet(g, T) \in Int
  BY <1>1, <1>2, SumInt
<1>5. SumFunctionOnSet(g, T) = SumFunctionOnSet(f, T) - SumFunctionOnSet(Stake, T)
  BY <1>2, <1>3, <1>4 DEF Stakes
<1>6. QED
  BY <1>5 DEF NetPayout, Payouts, Stakes, f, g

\* A step that changes neither which trades are pending nor what those are
\* paid leaves both sums as they are.
LEMMA PendingSums ==
  ASSUME Pending \subseteq Trades, Pending' = Pending,
         \A t \in Pending : Payout(t)' = Payout(t)
  PROVE  Payouts(Pending)' = Payouts(Pending) /\ Stakes(Pending)' = Stakes(Pending)
<1> DEFINE f == [t \in Trades |-> Payout(t)]
           g == [t \in Trades |-> Payout(t)']
           P == Pending
<1>1. \A t \in P : f[t] \in Int /\ g[t] = f[t]
  BY TradeAmounts
<1>2. IsFiniteSet(P)
  BY SumsAreNat
<1> HIDE DEF f, g, P
<1>3. SumFunctionOnSet(g, P) = SumFunctionOnSet(f, P)
  BY <1>1, <1>2, SumSame
<1>4. Payouts(Pending) = SumFunctionOnSet(f, P)
  BY DEF Payouts, f, P
<1>5. Payouts(Pending)' = SumFunctionOnSet(g, P)
  BY Zenon DEF Payouts, g, P
<1>6. Stakes(Pending)' = Stakes(Pending)
  BY Zenon DEF Stakes
<1>7. QED
  BY <1>3, <1>4, <1>5, <1>6

\* Over trades of two kinds the sums add up.
LEMMA SumsOfTwo ==
  ASSUME NEW S \in SUBSET Trades, NEW T \in SUBSET Trades, S \cap T = {}
  PROVE  /\ Payouts(S \cup T) = Payouts(S) + Payouts(T)
         /\ Stakes(S \cup T) = Stakes(S) + Stakes(T)
<1> DEFINE f == [t \in Trades |-> Payout(t)]
<1>1. IsFiniteSet(S) /\ IsFiniteSet(T)
  BY SumsAreNat
<1>2. \A t \in S \cup T : f[t] \in Int /\ Stake[t] \in Int
  BY TradeAmounts
<1> HIDE DEF f
<1>3. SumFunctionOnSet(f, S \cup T) = SumFunctionOnSet(f, S) + SumFunctionOnSet(f, T)
  BY <1>1, <1>2, SumUnion
<1>4. SumFunctionOnSet(Stake, S \cup T)
        = SumFunctionOnSet(Stake, S) + SumFunctionOnSet(Stake, T)
  BY <1>1, <1>2, SumUnion
<1>5. QED
  BY <1>3, <1>4 DEF Payouts, Stakes, f

\* One trade less.
LEMMA SumsWithout ==
  ASSUME NEW T \in SUBSET Trades, NEW t \in T
  PROVE  /\ Payouts(T \ {t}) = Payouts(T) - Payout(t)
         /\ Stakes(T \ {t}) = Stakes(T) - Stake[t]
<1> DEFINE f == [u \in Trades |-> Payout(u)]
<1>1. IsFiniteSet(T)
  BY SumsAreNat
<1>2. (\A u \in T : f[u] \in Int /\ Stake[u] \in Int) /\ f[t] = Payout(t)
  BY TradeAmounts
<1> HIDE DEF f
<1>3. SumFunctionOnSet(f, T) = f[t] + SumFunctionOnSet(f, T \ {t})
  BY <1>1, <1>2, SumRemove
<1>4. SumFunctionOnSet(Stake, T) = Stake[t] + SumFunctionOnSet(Stake, T \ {t})
  BY <1>1, <1>2, SumRemove
<1>5. SumFunctionOnSet(f, T \ {t}) \in Int /\ SumFunctionOnSet(Stake, T \ {t}) \in Int
  <2>1. IsFiniteSet(T \ {t}) /\ \A u \in T \ {t} : f[u] \in Int /\ Stake[u] \in Int
    BY <1>1, <1>2, FS_RemoveElement
  <2>2. QED
    BY <2>1, SumInt
<1>6. /\ SumFunctionOnSet(f, T \ {t}) = SumFunctionOnSet(f, T) - f[t]
      /\ SumFunctionOnSet(Stake, T \ {t}) = SumFunctionOnSet(Stake, T) - Stake[t]
  BY <1>2, <1>3, <1>4, <1>5
<1>7. QED
  BY <1>2, <1>6 DEF Payouts, Stakes, f

\* What a distribution does, in terms of the trade it is for.
LEMMA DistributedTrade ==
  ASSUME TypeOK, PayoutsDecided, NEW b \in Batches, NEW t \in Trades,
         NEW stake, distribute_winnings(b, t, stake)
  PROVE  /\ t \in accepted \ claim_receipt
         /\ TradeBatch[t] = b /\ Settled(b)
         /\ claim_receipt' = claim_receipt \cup {t}
         /\ balance_usdt[TradeTrader[t]] >= stake
         /\ balance_usdt' = [balance_usdt EXCEPT ![TradeTrader[t]] =
                              balance_usdt[TradeTrader[t]] - stake + Payout(t)]
<1>1. Settled(b) /\ t \in DOMAIN receipt[b].outputs.payouts_commitment
  BY DEF distribute_winnings, HasLeaf, Settled
<1>2. receipt[b].outputs.payouts_commitment = TruePayouts(b)
  BY <1>1 DEF PayoutsDecided
<1>3. /\ t \in accepted /\ TradeBatch[t] = b
      /\ receipt[b].outputs.payouts_commitment[t] = Payout(t)
  BY <1>1, <1>2 DEF TruePayouts, BatchTrades
<1>4. QED
  BY <1>1, <1>3 DEF distribute_winnings, NotClaimed, BalanceAfter

\* Claims stay claims of settled trades.
LEMMA StepClaims ==
  TypeOK /\ TypeOK' /\ PayoutsDecided /\ ClaimsSettled /\ [Next]_vars => ClaimsSettled'
<1> SUFFICES ASSUME TypeOK, TypeOK', PayoutsDecided, ClaimsSettled, [Next]_vars
             PROVE  ClaimsSettled'
  OBVIOUS
<1>1. CASE UNCHANGED <<accepted, receipt, claim_receipt>>
  BY <1>1 DEF ClaimsSettled, Settled
<1>2. CASE LpStep \/ TraderStep \/ AdminStep \/ EnvironmentStep \/ UNCHANGED vars
  <2>1. CASE LpStep
    BY <1>1, <2>1
    DEF LpStep, lp_deposit, lp_withdraw, envVars, tradeVars, settleVars
  <2>2. CASE TraderStep
    BY <1>1, <2>2
    DEF TraderStep, trader_deposit, trader_withdraw, envVars, tradeVars, settleVars
  <2>3. CASE AdminStep
    BY <1>1, <2>3
    DEF AdminStep, admin_init, rotate_keeper, pause, unpause, set_paused, init_market,
        withdraw_protocol_fees, envVars, tradeVars, settleVars
  <2>4. CASE EnvironmentStep
    BY <1>1, <2>4
    DEF EnvironmentStep, Tick, Prove, PriceAccountsChange, CloseWindow, tradeVars,
        settleVars
  <2>5. CASE UNCHANGED vars
    BY <1>1, <2>5 DEF vars, envVars, tradeVars, settleVars
  <2>6. QED
    BY <1>2, <2>1, <2>2, <2>3, <2>4, <2>5
<1>3. CASE KeeperStep
  <2>1. ASSUME NEW t \in Trades, AcceptTrade(t)
        PROVE  ClaimsSettled'
    BY <2>1 DEF AcceptTrade, lock_margin, settleVars, ClaimsSettled, Settled
  <2>2. ASSUME NEW k \in Keepers, NEW b \in Batches, NEW own, NEW vault,
         verify_and_settle(k, b, own, vault)
        PROVE  ClaimsSettled'
    <3>1. /\ UNCHANGED <<accepted, claim_receipt>>
          /\ receipt[b] = NoReceipt
          /\ \A c \in Batches \ {b} : receipt'[c] = receipt[c]
      BY <2>2 DEF verify_and_settle, SettlementAccepted, ProofVerifies, BatchNotSettled, envVars, tradeVars, proofVars, TypeOK
    <3>2. \A t \in claim_receipt : TradeBatch[t] \in Batches /\ TradeBatch[t] # b
      BY <3>1, TradesWellFormed DEF ClaimsSettled, Settled, TypeOK
    <3>3. QED
      BY <3>1, <3>2 DEF ClaimsSettled, Settled
  <2>3. QED
    BY <1>1, <1>3, <2>1, <2>2
    DEF KeeperStep, ReleaseTrade, unlock_margin, update_market, envVars, tradeVars, proofVars,
        settleVars
<1>4. CASE ClaimStep
  <2>1. ASSUME NEW b \in Batches, NEW t \in Trades, NEW stake,
         distribute_winnings(b, t, stake)
        PROVE  ClaimsSettled'
    <3>1. UNCHANGED <<accepted, receipt>>
      BY <2>1 DEF distribute_winnings, envVars, tradeVars, proofVars
    <3>2. QED
      BY <2>1, <3>1, DistributedTrade DEF ClaimsSettled, Settled
  <2>2. QED
    BY <1>4, <2>1 DEF ClaimStep
<1>5. QED
  BY <1>2, <1>3, <1>4 DEF Next

\* The guest commits to a net that is the sum of the payouts less the stakes.
LEMMA StepProofsBalance ==
  TypeOK /\ ProofsBalance /\ [Next]_vars => ProofsBalance'
<1> SUFFICES ASSUME TypeOK, ProofsBalance, [Next]_vars PROVE ProofsBalance'
  OBVIOUS
<1>1. CASE UNCHANGED proof
  BY <1>1 DEF ProofsBalance
<1>2. ASSUME NEW b \in Batches, Prove(b)
      PROVE  ProofsBalance'
  <2> DEFINE T == BatchTrades(b)
             p == PublicOutputs(b)
             c == [t \in T |-> Payout(t)]
             f == [t \in Trades |-> Payout(t) - Stake[t]]
             g == [t \in T |-> c[t] - Stake[t]]
  <2>1. T \in SUBSET Trades /\ IsFiniteSet(T)
    BY SumsAreNat DEF BatchTrades, TypeOK
  <2>2. p.payouts_commitment = c /\ p.net_payout = NetPayout(T)
        /\ p.protocol_fee = ProtocolFee(NetPayout(T))
    BY DEF PublicOutputs
  <2>3. \A t \in T : f[t] \in Int /\ g[t] = f[t]
    BY <2>1, TradeAmounts
  <2>4. SumFunctionOnSet(g, T) = NetPayout(T)
    <3> HIDE DEF f, g, T
    <3>1. SumFunctionOnSet(g, T) = SumFunctionOnSet(f, T)
      BY <2>1, <2>3, SumSame
    <3>2. QED
      BY <3>1 DEF NetPayout, f
  <2>5. Total(g) = SumFunctionOnSet(g, T)
    BY Zenon DEF Total, SumFunction
  <2>6. NetPayout(T) \in Int
    BY <2>1, NetIsDifference, SumsAreNat
  <2>7. p.net_payout >= 0 => p.protocol_fee = 0
    BY <2>2, <2>6 DEF ProtocolFee
  <2>8. p.net_payout = Total([t \in DOMAIN p.payouts_commitment |->
                                p.payouts_commitment[t] - Stake[t]])
    BY <2>2, <2>4, <2>5
  <2>9. proof' = [proof EXCEPT ![b] = p]
    BY <1>2 DEF Prove
  <2> HIDE DEF p
  <2>10. QED
    BY <2>7, <2>8, <2>9 DEF ProofsBalance, TypeOK
<1>3. CASE LpStep \/ TraderStep \/ KeeperStep \/ AdminStep \/ ClaimStep
             \/ UNCHANGED vars
  <2>1. UNCHANGED proof
    BY <1>3 DEF LpStep, TraderStep, KeeperStep, AdminStep, ClaimStep, vars, lp_deposit,
       lp_withdraw, trader_deposit, trader_withdraw, AcceptTrade, ReleaseTrade,
       update_market, verify_and_settle, admin_init, rotate_keeper, pause, unpause,
       set_paused, init_market, withdraw_protocol_fees, distribute_winnings, envVars,
       proofVars
  <2>2. QED
    BY <1>1, <2>1
<1>4. CASE EnvironmentStep
  BY <1>1, <1>2, <1>4
  DEF EnvironmentStep, Tick, PriceAccountsChange, CloseWindow, proofVars
<1>5. QED
  BY <1>3, <1>4 DEF Next

\* A deposit of margin is booked twice, in the total and in the balance.
LEMMA TraderStepMargin ==
  ASSUME TypeOK, TypeOK', MarginAccounted, TraderStep
  PROVE  MarginAccounted'
<1>1. PICK tr \in Traders, amount \in Amounts :
        \E own : trader_deposit(tr, amount, own) \/ trader_withdraw(tr, amount, own)
  BY DEF TraderStep
<1>2. UNCHANGED <<accepted, claim_receipt, receipt, winners>>
  BY <1>1 DEF trader_deposit, trader_withdraw, envVars, tradeVars, proofVars, settleVars
<1>3. Pending' = Pending /\ Pending \subseteq Trades
  BY <1>2 DEF Pending, Settled, TypeOK
<1>4. \A t \in Pending : Payout(t)' = Payout(t)
  BY <1>2 DEF Payout, MaxPayout
<1>5. Payouts(Pending)' = Payouts(Pending) /\ Stakes(Pending)' = Stakes(Pending)
  BY <1>3, <1>4, PendingSums
<1>6. Payouts(Pending) \in Nat /\ Stakes(Pending) \in Nat
  BY <1>3, SumsAreNat
<1>7. /\ balance_usdt \in [Traders -> U64] /\ balance_usdt' \in [Traders -> U64]
      /\ trader_total_margin \in Nat /\ balance_usdt[tr] \in Nat /\ amount \in Nat
  BY ModelInputs, ParametersAreNat DEF TypeOK, U64
<1>8. /\ balance_usdt' = [balance_usdt EXCEPT ![tr] = balance_usdt'[tr]]
      /\ balance_usdt'[tr] - balance_usdt[tr] = trader_total_margin' - trader_total_margin
      /\ trader_total_margin' \in Int /\ balance_usdt'[tr] \in Int
  <2>1. CASE \E own : trader_deposit(tr, amount, own)
    BY <1>7, <2>1 DEF trader_deposit
  <2>2. CASE \E own : trader_withdraw(tr, amount, own)
    BY <1>7, <2>2 DEF trader_withdraw
  <2>3. QED
    BY <1>1, <2>1, <2>2
<1>9. Total(balance_usdt') = Total(balance_usdt) + balance_usdt'[tr] - balance_usdt[tr]
      /\ Total(balance_usdt) \in Nat
  <2>1. IsFiniteSet(Traders)
    BY AccountsAreFinite
  <2>2. QED
    BY <1>7, <1>8, <2>1, TotalUpdate
<1>10. QED
  BY <1>5, <1>6, <1>7, <1>8, <1>9 DEF MarginAccounted

\* A settlement moves the batch's net, which is what its trades now wait for.
LEMMA SettleMargin ==
  ASSUME TypeOK, TypeOK', PayoutsDecided, ClaimsSettled, ProofsBalance, MarginAccounted,
         NEW k \in Keepers, NEW b \in Batches, NEW own, NEW vault,
         verify_and_settle(k, b, own, vault)
  PROVE  MarginAccounted'
<1> DEFINE T == BatchTrades(b)
           p == proof[b]
           g == [t \in T |-> Payout(t) - Stake[t]]
           f == [t \in Trades |-> Payout(t) - Stake[t]]
<1>1. /\ UNCHANGED <<accepted, claim_receipt, winners, balance_usdt>>
      /\ p # NoProof /\ receipt[b] = NoReceipt
      /\ trader_total_margin' = trader_total_margin + p.net_payout
      /\ receipt' = [receipt EXCEPT ![b] =
                       [settled_at |-> now, keeper_pubkey |-> k, outputs |-> p]]
  BY DEF verify_and_settle, SettlementAccepted, ProofVerifies, BatchNotSettled, SettleVault, envVars,
         tradeVars, proofVars, traderVars
<1>2. T \in SUBSET Trades /\ Pending \in SUBSET Trades
  BY DEF BatchTrades, Pending, TypeOK
<1>3. p.payouts_commitment = [t \in T |-> Payout(t)]
  BY <1>1 DEF PayoutsDecided, TruePayouts
<1>4. p.net_payout = NetPayout(T)
  <2>1. p.net_payout = Total(g)
    <3>1. p.net_payout = Total([t \in DOMAIN p.payouts_commitment |->
                                   p.payouts_commitment[t] - Stake[t]])
      BY <1>1 DEF ProofsBalance
    <3>2. [t \in DOMAIN p.payouts_commitment |-> p.payouts_commitment[t] - Stake[t]] = g
      BY <1>3
    <3>3. QED
      BY <3>1, <3>2, Zenon
  <2>2. Total(g) = SumFunctionOnSet(g, T)
    BY Zenon DEF Total, SumFunction
  <2>3. \A t \in T : f[t] \in Int /\ g[t] = f[t]
    BY <1>2, TradeAmounts
  <2>4. IsFiniteSet(T)
    BY <1>2, SumsAreNat
  <2>5. SumFunctionOnSet(g, T) = SumFunctionOnSet(f, T)
    <3> HIDE DEF f, g, T
    <3>1. QED
      BY <2>3, <2>4, SumSame
  <2>6. QED
    BY <2>1, <2>2, <2>5 DEF NetPayout
<1>5. Pending' = Pending \cup T /\ Pending \cap T = {}
  <2>1. receipt'[b] # NoReceipt
    BY <1>1, ReceiptsDiffer DEF TypeOK, Receipts
  <2>2. \A c \in Batches \ {b} : receipt'[c] = receipt[c]
    BY <1>1 DEF TypeOK
  <2>3. \A t \in accepted : TradeBatch[t] \in Batches
    BY TradesWellFormed DEF TypeOK
  <2>4. T \cap claim_receipt = {}
    BY <1>1 DEF ClaimsSettled, Settled, BatchTrades
  <2>5. QED
    BY <1>1, <2>1, <2>2, <2>3, <2>4 DEF Pending, Settled, BatchTrades
<1>6. Payouts(Pending)' = Payouts(Pending \cup T) /\ Stakes(Pending)' = Stakes(Pending \cup T)
  <2>1. \A t : Payout(t)' = Payout(t)
    BY <1>1 DEF Payout, MaxPayout
  <2> HIDE DEF T
  <2>2. [t \in Trades |-> Payout(t)'] = [t \in Trades |-> Payout(t)]
    BY <2>1, Zenon
  <2>3. QED
    BY <1>5, <2>2, Zenon DEF Payouts, Stakes
<1>7. /\ Payouts(Pending \cup T) = Payouts(Pending) + Payouts(T)
      /\ Stakes(Pending \cup T) = Stakes(Pending) + Stakes(T)
  BY <1>2, <1>5, SumsOfTwo
<1>8. /\ Payouts(Pending) \in Nat /\ Stakes(Pending) \in Nat
      /\ Payouts(T) \in Nat /\ Stakes(T) \in Nat
  BY <1>2, SumsAreNat
<1>9. p.net_payout = Payouts(T) - Stakes(T)
  BY <1>2, <1>4, NetIsDifference
<1>10. Total(balance_usdt)' = Total(balance_usdt) /\ Total(balance_usdt) \in Int
  <2>1. balance_usdt \in [Traders -> U64] /\ \A tr \in Traders : balance_usdt[tr] \in Int
    BY ParametersAreNat DEF TypeOK, U64
  <2>2. SumFunctionOnSet(balance_usdt, Traders) \in Int
    BY <2>1, AccountsAreFinite, SumInt
  <2>3. Total(balance_usdt) = SumFunctionOnSet(balance_usdt, Traders)
    BY <2>1, TotalIs
  <2>4. QED
    BY <1>1, <2>2, <2>3 DEF Total
<1>11. QED
  <2> HIDE DEF T, p
  <2>1. QED
    BY <1>1, <1>6, <1>7, <1>8, <1>9, <1>10 DEF MarginAccounted

\* A distribution told the stake hands one trade its part: it is pending no more.
LEMMA DistributeMargin ==
  ASSUME TypeOK, TypeOK', PayoutsDecided, MarginAccounted,
         NEW b \in Batches, NEW t \in Trades, distribute_winnings(b, t, Stake[t])
  PROVE  MarginAccounted'
<1> DEFINE tr == TradeTrader[t]
           P == Pending
<1>1. UNCHANGED <<accepted, receipt, winners, trader_total_margin>>
  BY DEF distribute_winnings, envVars, tradeVars, proofVars, vaultVars
<1>2. /\ t \in P /\ P \in SUBSET Trades
      /\ Pending' = P \ {t}
      /\ balance_usdt' = [balance_usdt EXCEPT ![tr] =
                            balance_usdt[tr] - Stake[t] + Payout(t)]
  BY <1>1, DistributedTrade DEF Pending, Settled, TypeOK
<1>3. /\ tr \in Traders /\ Stake[t] \in Nat /\ Payout(t) \in Nat
      /\ balance_usdt \in [Traders -> U64] /\ balance_usdt' \in [Traders -> U64]
      /\ balance_usdt[tr] \in Nat
  BY TradesWellFormed, TradeAmounts, ParametersAreNat DEF TypeOK, U64
<1>4. Total(balance_usdt') = Total(balance_usdt) - Stake[t] + Payout(t)
      /\ Total(balance_usdt) \in Nat
  <2>1. balance_usdt' = [balance_usdt EXCEPT ![tr] = balance_usdt'[tr]]
        /\ balance_usdt'[tr] = balance_usdt[tr] - Stake[t] + Payout(t)
    BY <1>2, <1>3
  <2>2. IsFiniteSet(Traders)
    BY AccountsAreFinite
  <2>3. Total(balance_usdt') = Total(balance_usdt) + balance_usdt'[tr] - balance_usdt[tr]
        /\ Total(balance_usdt) \in Nat
    BY <1>3, <2>1, <2>2, TotalUpdate
  <2>4. QED
    BY <1>3, <2>1, <2>3
<1>5. Payouts(Pending)' = Payouts(P \ {t}) /\ Stakes(Pending)' = Stakes(P \ {t})
  <2>1. \A u : Payout(u)' = Payout(u)
    BY <1>1 DEF Payout, MaxPayout
  <2> HIDE DEF P
  <2>2. [u \in Trades |-> Payout(u)'] = [u \in Trades |-> Payout(u)]
    BY <2>1, Zenon
  <2>3. QED
    BY <1>2, <2>2, Zenon DEF Payouts, Stakes
<1>6. /\ Payouts(P \ {t}) = Payouts(P) - Payout(t)
      /\ Stakes(P \ {t}) = Stakes(P) - Stake[t]
      /\ Payouts(P) \in Nat /\ Stakes(P) \in Nat
  <2> HIDE DEF P
  <2>1. QED
    BY <1>2, SumsWithout, SumsAreNat
<1>7. QED
  BY <1>1, <1>3, <1>4, <1>5, <1>6 DEF MarginAccounted

\* A step that moves no margin and leaves pending trades and their payouts alone.
LEMMA MarginStands ==
  ASSUME TypeOK, MarginAccounted, UNCHANGED <<trader_total_margin, balance_usdt>>,
         Pending' = Pending, \A t \in Pending : Payout(t)' = Payout(t)
  PROVE  MarginAccounted'
<1>1. Pending \subseteq Trades
  BY DEF Pending, TypeOK
<1>2. Payouts(Pending)' = Payouts(Pending) /\ Stakes(Pending)' = Stakes(Pending)
  BY <1>1, PendingSums
<1>3. Total(balance_usdt)' = Total(balance_usdt)
  BY DEF Total
<1>4. QED
  BY <1>2, <1>3 DEF MarginAccounted

\* Accepting, releasing and closing leave the margin alone: a window that is
\* still open has no settled trades.
LEMMA WindowMargin ==
  ASSUME TypeOK, PayoutsDecided, MarginAccounted,
         \/ \E t \in Trades : AcceptTrade(t) \/ ReleaseTrade(t)
         \/ \E b \in Batches, won \in SUBSET Trades : CloseWindow(b, won)
  PROVE  MarginAccounted'
<1>1. UNCHANGED <<trader_total_margin, balance_usdt, claim_receipt, receipt>>
  BY DEF AcceptTrade, ReleaseTrade, lock_margin, unlock_margin, CloseWindow, vaultVars,
         traderVars, settleVars
<1>2. \A c \in Batches : Settled(c) => c \in closed
  BY DEF PayoutsDecided
<1>3. \A t \in accepted : TradeBatch[t] \in Batches
  BY TradesWellFormed DEF TypeOK
<1>4. ASSUME NEW t \in Trades, AcceptTrade(t)
      PROVE  Pending' = Pending /\ \A u \in Pending : Payout(u)' = Payout(u)
  <2>1. TradeBatch[t] \in Batches
    BY TradesWellFormed
  <2>2. QED
    BY <1>1, <1>2, <1>4, <2>1 DEF AcceptTrade, Pending, Settled, Payout, MaxPayout
<1>5. ASSUME NEW t \in Trades, ReleaseTrade(t)
      PROVE  Pending' = Pending /\ \A u \in Pending : Payout(u)' = Payout(u)
  BY <1>1, <1>5 DEF ReleaseTrade, Pending, Settled, Payout, MaxPayout
<1>6. ASSUME NEW b \in Batches, NEW won \in SUBSET Trades, CloseWindow(b, won)
      PROVE  Pending' = Pending /\ \A u \in Pending : Payout(u)' = Payout(u)
  <2>1. Pending' = Pending
    BY <1>1, <1>6 DEF CloseWindow, Pending, Settled
  <2>2. \A u \in Pending : u \notin won
    BY <1>2, <1>3, <1>6 DEF CloseWindow, BatchTrades, Pending, Settled
  <2>3. winners' = winners \cup won
    BY <1>6 DEF CloseWindow
  <2>4. QED
    BY <2>1, <2>2, <2>3 DEF Payout, MaxPayout
<1>7. Pending' = Pending /\ \A u \in Pending : Payout(u)' = Payout(u)
  BY <1>4, <1>5, <1>6
<1>8. QED
  BY <1>1, <1>7, MarginStands

\* A distribution, told the truth.
LEMMA TrueDistribution ==
  ASSUME TrueStakesPassed, ClaimStep
  PROVE  \E b \in Batches, t \in Trades : distribute_winnings(b, t, Stake[t])
<1>1. PICK b \in Batches, t \in Trades :
        \E stake \in StakesPassed[t] : distribute_winnings(b, t, stake)
  BY DEF ClaimStep
<1>2. \A stake \in StakesPassed[t] : stake = Stake[t]
  BY DEF TrueStakesPassed
<1>3. QED
  BY <1>1, <1>2

\* Every step keeps the margin equal to what it is made of.
LEMMA StepMargin ==
  ASSUME TrueStakesPassed
  PROVE  TypeOK /\ TypeOK' /\ NothingBooked /\ PayoutsDecided /\ ClaimsSettled
           /\ ProofsBalance /\ MarginAccounted /\ [Next]_vars => MarginAccounted'
<1> SUFFICES ASSUME TypeOK, TypeOK', NothingBooked, PayoutsDecided, ClaimsSettled,
                    ProofsBalance, MarginAccounted, [Next]_vars
             PROVE  MarginAccounted'
  OBVIOUS
<1>1. CASE UNCHANGED <<trader_total_margin, balance_usdt, accepted, claim_receipt,
                       receipt, winners>>
  <2>1. Pending' = Pending /\ \A t \in Pending : Payout(t)' = Payout(t)
    BY <1>1 DEF Pending, Settled, Payout, MaxPayout
  <2>2. QED
    BY <1>1, <2>1, MarginStands
<1>2. CASE LpStep \/ AdminStep \/ UNCHANGED vars
  <2>1. CASE LpStep
    BY <1>1, <2>1
    DEF LpStep, lp_deposit, lp_withdraw, traderVars, envVars, tradeVars, settleVars
  <2>2. CASE AdminStep
    BY <1>1, <2>2
    DEF AdminStep, admin_init, rotate_keeper, pause, unpause, set_paused, init_market,
        withdraw_protocol_fees, NothingBooked, vaultVars, traderVars, envVars, tradeVars,
        settleVars
  <2>3. CASE UNCHANGED vars
    BY <1>1, <2>3 DEF vars, vaultVars, traderVars, envVars, tradeVars, settleVars
  <2>4. QED
    BY <1>2, <2>1, <2>2, <2>3
<1>3. CASE TraderStep
  BY <1>3, TraderStepMargin
<1>4. CASE KeeperStep
  <2>1. CASE \E m \in Markets, regime \in Regimes, cap \in MultiplierCaps :
               update_market(keeper, m, regime, cap)
    BY <1>1, <2>1 DEF update_market, vaultVars, traderVars, envVars, tradeVars, proofVars, settleVars
  <2>2. QED
    BY <1>4, <2>1, SettleMargin, WindowMargin DEF KeeperStep
<1>5. CASE ClaimStep
  BY <1>5, TrueDistribution, DistributeMargin
<1>6. CASE EnvironmentStep
  <2>1. CASE Tick \/ \E b \in Batches : Prove(b) \/ PriceAccountsChange(b)
    BY <1>1, <2>1 DEF Tick, Prove, PriceAccountsChange, vaultVars, traderVars,
                      tradeVars, settleVars
  <2>2. QED
    BY <1>6, <2>1, WindowMargin DEF EnvironmentStep
<1>7. QED
  BY <1>2, <1>3, <1>4, <1>5, <1>6 DEF Next

\* What has been booked and what has been decided, together.
AccountInv == NothingBooked /\ PayoutsDecided /\ ClaimsSettled /\ ProofsBalance

\* The bookkeeping facts hold together from the start.
LEMMA InitAccount == Init => AccountInv
  BY DEF Init, AccountInv, NothingBooked, PayoutsDecided, ClaimsSettled, ProofsBalance,
         Settled

\* They are inductive, given the types.
LEMMA StepAccount == TypeOK /\ TypeOK' /\ AccountInv /\ [Next]_vars => AccountInv'
  BY StepNothingBooked, StepPayouts, StepClaims, StepProofsBalance DEF AccountInv

\* The bookkeeping facts are invariants of the engine.
LEMMA AccountCorrect == Spec => []AccountInv
  BY InitAccount, StepAccount, TypeCorrect, PTL DEF Spec

\* At the start nobody has margin and nothing is pending.
LEMMA InitMargin == Init => MarginAccounted
<1> SUFFICES ASSUME Init PROVE MarginAccounted
  OBVIOUS
<1>1. balance_usdt \in [Traders -> {0}] /\ \A x \in Traders : balance_usdt[x] = 0
  BY DEF Init
<1>2. SumFunctionOnSet(balance_usdt, Traders) = 0
  BY <1>1, SumZero, AccountsAreFinite
<1>3. Total(balance_usdt) = 0
  BY <1>1, <1>2, TotalIs
<1>4. Pending = {}
  BY DEF Init, Pending
<1>5. Payouts(Pending) = 0 /\ Stakes(Pending) = 0
  BY <1>4, SumEmpty, Zenon DEF Payouts, Stakes
<1>6. QED
  BY <1>3, <1>5 DEF Init, MarginAccounted

\* The traders' margin is at any moment the sum of the balances and of the net
\* of the trades settled but not distributed, for any number of traders, trades
\* and batches, if every distribution is told the stake of its trade: settlement
\* moves the net of a batch at once, distribution hands out exactly its parts
\* (admin.rs:68-122 and 241-262).
THEOREM MarginCorrect ==
  ASSUME TrueStakesPassed
  PROVE  Spec => []MarginAccounted
<1>1. TypeOK /\ TypeOK' /\ AccountInv /\ MarginAccounted /\ [Next]_vars => MarginAccounted'
  BY StepMargin DEF AccountInv
<1>2. QED
  BY <1>1, InitMargin, AccountCorrect, TypeCorrect, PTL DEF Spec

-----------------------------------------------------------------------------
\* Locks.

\* The lock is at most the open stakes, and short of them by at most the stakes
\* that were released and then distributed, which took them off twice.
LockBounds ==
  /\ released \subseteq accepted
  /\ \A tr \in Traders :
       LET open == Stakes(Of(tr, Open)) IN
       /\ locked_usdt[tr] <= open
       /\ open <= locked_usdt[tr] + Stakes(Of(tr, released \cap claim_receipt))

\* One trade less, for its own trader and for the others.
LEMMA OfWithout ==
  ASSUME NEW T \in SUBSET Trades, NEW t \in T, NEW tr
  PROVE  /\ TradeTrader[t] = tr => Stakes(Of(tr, T \ {t})) = Stakes(Of(tr, T)) - Stake[t]
         /\ TradeTrader[t] # tr => Stakes(Of(tr, T \ {t})) = Stakes(Of(tr, T))
<1>1. CASE TradeTrader[t] = tr
  <2>1. Of(tr, T) \in SUBSET Trades /\ t \in Of(tr, T)
    BY <1>1 DEF Of
  <2>2. Of(tr, T \ {t}) = Of(tr, T) \ {t}
    BY DEF Of
  <2>3. Stakes(Of(tr, T \ {t})) = Stakes(Of(tr, T) \ {t})
    BY <2>2, Zenon
  <2>4. QED
    BY <1>1, <2>1, <2>3, SumsWithout
<1>2. CASE TradeTrader[t] # tr
  <2>1. Of(tr, T \ {t}) = Of(tr, T)
    BY <1>2 DEF Of
  <2>2. QED
    BY <1>2, <2>1, Zenon
<1>3. QED
  BY <1>1, <1>2

\* One trade more.
LEMMA OfWith ==
  ASSUME NEW T \in SUBSET Trades, NEW t \in Trades, t \notin T, NEW tr
  PROVE  /\ TradeTrader[t] = tr => Stakes(Of(tr, T \cup {t})) = Stakes(Of(tr, T)) + Stake[t]
         /\ TradeTrader[t] # tr => Stakes(Of(tr, T \cup {t})) = Stakes(Of(tr, T))
<1> DEFINE U == T \cup {t}
<1>1. U \in SUBSET Trades /\ t \in U /\ U \ {t} = T
  OBVIOUS
<1>2. Of(tr, U \ {t}) = Of(tr, T)
  BY <1>1 DEF Of
<1>3. Stakes(Of(tr, U \ {t})) = Stakes(Of(tr, T))
  BY <1>2, Zenon
<1>4. Of(tr, U) \in SUBSET Trades /\ Of(tr, T) \in SUBSET Trades
  BY <1>1 DEF Of
<1>5. Stakes(Of(tr, U)) \in Nat /\ Stakes(Of(tr, T)) \in Nat /\ Stake[t] \in Nat
  BY <1>4, SumsAreNat, TradeAmounts
<1> HIDE DEF U
<1>6. /\ TradeTrader[t] = tr => Stakes(Of(tr, U)) = Stakes(Of(tr, T)) + Stake[t]
      /\ TradeTrader[t] # tr => Stakes(Of(tr, U)) = Stakes(Of(tr, T))
  BY <1>1, <1>3, <1>5, OfWithout
<1>7. QED
  BY <1>6 DEF U

\* The stakes of a trader's trades are an amount, and fewer trades have less.
LEMMA OfAmounts ==
  ASSUME NEW T \in SUBSET Trades, NEW S \in SUBSET T, NEW tr
  PROVE  Stakes(Of(tr, T)) \in Nat /\ Stakes(Of(tr, S)) \in Nat
         /\ Stakes(Of(tr, S)) <= Stakes(Of(tr, T))
<1>1. Of(tr, T) \in SUBSET Trades /\ Of(tr, S) \in SUBSET Trades
      /\ Of(tr, S) \in SUBSET Of(tr, T)
  BY DEF Of
<1>2. IsFiniteSet(Of(tr, T)) /\ Stakes(Of(tr, T)) \in Nat /\ Stakes(Of(tr, S)) \in Nat
  BY <1>1, SumsAreNat
<1>3. \A t \in Of(tr, T) : Stake[t] \in Nat
  BY <1>1, TradeAmounts
<1> DEFINE W == Of(tr, T)
           P == Of(tr, S)
<1>4. SumFunctionOnSet(Stake, P) <= SumFunctionOnSet(Stake, W)
  <2>1. IsFiniteSet(W) /\ P \in SUBSET W /\ \A t \in W : Stake[t] \in Nat
    BY <1>1, <1>2, <1>3
  <2> HIDE DEF W, P
  <2>2. QED
    BY <2>1, SumPart
<1>5. QED
  BY <1>2, <1>4 DEF Stakes

\* Accepting a trade locks its stake and opens it.
LEMMA AcceptLocks ==
  ASSUME TypeOK, ClaimsSettled, LockBounds, NEW t \in Trades, AcceptTrade(t)
  PROVE  LockBounds'
<1>1. /\ UNCHANGED <<released, claim_receipt>>
      /\ t \notin accepted /\ accepted' = accepted \cup {t}
      /\ locked_usdt' = [locked_usdt EXCEPT ![TradeTrader[t]] = @ + Stake[t]]
  BY DEF AcceptTrade, lock_margin, settleVars
<1>2. /\ Open \in SUBSET Trades /\ t \notin Open /\ Open' = Open \cup {t}
  BY <1>1 DEF Open, LockBounds, ClaimsSettled, TypeOK
<1>3. TradeTrader[t] \in Traders /\ Stake[t] \in Nat
  BY TradesWellFormed
<1>4. ASSUME NEW tr \in Traders
      PROVE  /\ locked_usdt'[tr] <= Stakes(Of(tr, Open'))
             /\ Stakes(Of(tr, Open'))
                  <= locked_usdt'[tr] + Stakes(Of(tr, released \cap claim_receipt))
  <2>1. Stakes(Of(tr, Open')) = Stakes(Of(tr, Open \cup {t}))
    BY <1>2, Zenon
  <2>2. locked_usdt[tr] \in Nat /\ Stakes(Of(tr, Open)) \in Nat
        /\ Stakes(Of(tr, released \cap claim_receipt)) \in Nat
    BY <1>2, OfAmounts, ParametersAreNat DEF TypeOK, U64
  <2>3. /\ TradeTrader[t] = tr => locked_usdt'[tr] = locked_usdt[tr] + Stake[t]
        /\ TradeTrader[t] # tr => locked_usdt'[tr] = locked_usdt[tr]
    BY <1>1 DEF TypeOK
  <2>4. /\ locked_usdt[tr] <= Stakes(Of(tr, Open))
        /\ Stakes(Of(tr, Open))
             <= locked_usdt[tr] + Stakes(Of(tr, released \cap claim_receipt))
    BY DEF LockBounds
  <2>5. /\ TradeTrader[t] = tr => Stakes(Of(tr, Open \cup {t})) = Stakes(Of(tr, Open)) + Stake[t]
        /\ TradeTrader[t] # tr => Stakes(Of(tr, Open \cup {t})) = Stakes(Of(tr, Open))
    BY <1>2, OfWith
  <2>6. QED
    BY <1>3, <2>1, <2>2, <2>3, <2>4, <2>5
<1>5. (released \cap claim_receipt)' = released \cap claim_receipt
  BY <1>1
<1>6. released' \subseteq accepted'
  BY <1>1 DEF LockBounds
<1>7. \A tr \in Traders :
        Stakes(Of(tr, released \cap claim_receipt))'
          = Stakes(Of(tr, released \cap claim_receipt))
        /\ Stakes(Of(tr, Open))' = Stakes(Of(tr, Open'))
  BY <1>5, Zenon DEF Stakes, Of
<1>8. QED
  BY <1>4, <1>6, <1>7 DEF LockBounds

\* An explicit release unlocks the stake of an open trade.
LEMMA ReleaseLocks ==
  ASSUME TypeOK, LockBounds, NEW t \in Trades, ReleaseTrade(t)
  PROVE  LockBounds'
<1>1. /\ UNCHANGED <<accepted, claim_receipt>>
      /\ t \in accepted /\ t \notin released /\ t \notin claim_receipt
      /\ released' = released \cup {t}
      /\ locked_usdt[TradeTrader[t]] >= Stake[t]
      /\ locked_usdt' = [locked_usdt EXCEPT ![TradeTrader[t]] = @ - Stake[t]]
  BY DEF ReleaseTrade, unlock_margin, settleVars
<1>2. /\ Open \in SUBSET Trades /\ t \in Open /\ Open' = Open \ {t}
  BY <1>1 DEF Open, TypeOK
<1>3. TradeTrader[t] \in Traders /\ Stake[t] \in Nat
  BY TradesWellFormed
<1>4. ASSUME NEW tr \in Traders
      PROVE  /\ locked_usdt'[tr] <= Stakes(Of(tr, Open'))
             /\ Stakes(Of(tr, Open'))
                  <= locked_usdt'[tr] + Stakes(Of(tr, released \cap claim_receipt))
  <2>1. Stakes(Of(tr, Open')) = Stakes(Of(tr, Open \ {t}))
    BY <1>2, Zenon
  <2>2. locked_usdt[tr] \in Nat /\ Stakes(Of(tr, Open)) \in Nat
        /\ Stakes(Of(tr, released \cap claim_receipt)) \in Nat
    BY <1>2, OfAmounts, ParametersAreNat DEF TypeOK, U64
  <2>3. /\ TradeTrader[t] = tr => locked_usdt'[tr] = locked_usdt[tr] - Stake[t]
        /\ TradeTrader[t] # tr => locked_usdt'[tr] = locked_usdt[tr]
    BY <1>1 DEF TypeOK
  <2>4. /\ locked_usdt[tr] <= Stakes(Of(tr, Open))
        /\ Stakes(Of(tr, Open))
             <= locked_usdt[tr] + Stakes(Of(tr, released \cap claim_receipt))
    BY DEF LockBounds
  <2>5. /\ TradeTrader[t] = tr => Stakes(Of(tr, Open \ {t})) = Stakes(Of(tr, Open)) - Stake[t]
        /\ TradeTrader[t] # tr => Stakes(Of(tr, Open \ {t})) = Stakes(Of(tr, Open))
    BY <1>2, OfWithout
  <2>6. QED
    BY <1>3, <2>1, <2>2, <2>3, <2>4, <2>5
<1>5. (released \cap claim_receipt)' = released \cap claim_receipt
  BY <1>1
<1>6. released' \subseteq accepted'
  BY <1>1 DEF LockBounds
<1>7. \A tr \in Traders :
        Stakes(Of(tr, released \cap claim_receipt))'
          = Stakes(Of(tr, released \cap claim_receipt))
        /\ Stakes(Of(tr, Open))' = Stakes(Of(tr, Open'))
  BY <1>5, Zenon DEF Stakes, Of
<1>8. QED
  BY <1>4, <1>6, <1>7 DEF LockBounds

\* Distribution takes the stake off the lock as far as there is one: the trade
\* was open, or it was released and its stake comes off a second time.
LEMMA DistributeLocks ==
  ASSUME TypeOK, PayoutsDecided, LockBounds, NEW b \in Batches, NEW t \in Trades,
         distribute_winnings(b, t, Stake[t])
  PROVE  LockBounds'
<1> DEFINE Twice == released \cap claim_receipt
<1>1. /\ UNCHANGED <<accepted, released>>
      /\ t \in accepted /\ t \notin claim_receipt
      /\ claim_receipt' = claim_receipt \cup {t}
      /\ locked_usdt' = [locked_usdt EXCEPT ![TradeTrader[t]] =
                                               SaturatingSub(@, Stake[t])]
  BY DistributedTrade DEF distribute_winnings, LockAfter, envVars, tradeVars, proofVars
<1>2. TradeTrader[t] \in Traders /\ Stake[t] \in Nat
  BY TradesWellFormed
<1>3. Open \in SUBSET Trades /\ Twice \in SUBSET Trades /\ t \notin Twice
  BY <1>1 DEF Open, TypeOK
<1>4. ASSUME NEW tr \in Traders
      PROVE  /\ locked_usdt'[tr] <= Stakes(Of(tr, Open'))
             /\ Stakes(Of(tr, Open')) <= locked_usdt'[tr] + Stakes(Of(tr, Twice'))
  <2>1. locked_usdt[tr] \in Nat /\ Stakes(Of(tr, Open)) \in Nat
        /\ Stakes(Of(tr, Twice)) \in Nat
    <3> HIDE DEF Twice
    <3>1. QED
      BY <1>3, OfAmounts, ParametersAreNat DEF TypeOK, U64
  <2>2. /\ TradeTrader[t] = tr => locked_usdt'[tr] = SaturatingSub(locked_usdt[tr], Stake[t])
        /\ TradeTrader[t] # tr => locked_usdt'[tr] = locked_usdt[tr]
    BY <1>1 DEF TypeOK
  <2>3. /\ locked_usdt[tr] <= Stakes(Of(tr, Open))
        /\ Stakes(Of(tr, Open)) <= locked_usdt[tr] + Stakes(Of(tr, Twice))
    BY DEF LockBounds
  <2>4. CASE t \in released
    <3>1. Open' = Open /\ Twice' = Twice \cup {t}
      BY <1>1, <2>4 DEF Open
    <3> HIDE DEF Twice
    <3>2. /\ TradeTrader[t] = tr => Stakes(Of(tr, Twice \cup {t})) = Stakes(Of(tr, Twice)) + Stake[t]
          /\ TradeTrader[t] # tr => Stakes(Of(tr, Twice \cup {t})) = Stakes(Of(tr, Twice))
      BY <1>3, OfWith
    <3>3. /\ Stakes(Of(tr, Open')) = Stakes(Of(tr, Open))
          /\ Stakes(Of(tr, Twice')) = Stakes(Of(tr, Twice \cup {t}))
      BY <3>1, Zenon
    <3>4. QED
      BY <1>2, <2>1, <2>2, <2>3, <3>2, <3>3 DEF SaturatingSub
  <2>5. CASE t \notin released
    <3>1. Open' = Open \ {t} /\ t \in Open /\ Twice' = Twice
      BY <1>1, <2>5 DEF Open
    <3> HIDE DEF Twice
    <3>2. /\ TradeTrader[t] = tr => Stakes(Of(tr, Open \ {t})) = Stakes(Of(tr, Open)) - Stake[t]
          /\ TradeTrader[t] # tr => Stakes(Of(tr, Open \ {t})) = Stakes(Of(tr, Open))
      BY <1>3, <3>1, OfWithout
    <3>3. /\ Stakes(Of(tr, Open')) = Stakes(Of(tr, Open \ {t}))
          /\ Stakes(Of(tr, Twice')) = Stakes(Of(tr, Twice))
      BY <3>1, Zenon
    <3>4. Stakes(Of(tr, Open \ {t})) \in Nat
      <4>1. Open \ {t} \in SUBSET Trades
        BY <1>3
      <4>2. QED
        BY <4>1, OfAmounts
    <3>5. QED
      BY <1>2, <2>1, <2>2, <2>3, <3>2, <3>3, <3>4 DEF SaturatingSub
  <2>6. QED
    BY <2>4, <2>5
<1>5. released' \subseteq accepted'
  BY <1>1 DEF LockBounds
<1>6. \A tr \in Traders :
        Stakes(Of(tr, released \cap claim_receipt))' = Stakes(Of(tr, Twice'))
        /\ Stakes(Of(tr, Open))' = Stakes(Of(tr, Open'))
  BY Zenon DEF Stakes, Of
<1>7. QED
  BY <1>4, <1>5, <1>6 DEF LockBounds

\* Every step keeps the lock within these bounds.
LEMMA StepLockBounds ==
  ASSUME TrueStakesPassed
  PROVE  TypeOK /\ AccountInv /\ LockBounds /\ [Next]_vars => LockBounds'
<1> SUFFICES ASSUME TypeOK, AccountInv, LockBounds, [Next]_vars PROVE LockBounds'
  OBVIOUS
<1>1. CASE UNCHANGED <<accepted, released, claim_receipt, locked_usdt>>
  BY <1>1, Zenon DEF LockBounds, Open, Stakes, Of
<1>2. CASE LpStep \/ TraderStep \/ AdminStep \/ EnvironmentStep \/ UNCHANGED vars
  <2>1. CASE LpStep
    BY <1>1, <2>1
    DEF LpStep, lp_deposit, lp_withdraw, traderVars, envVars, tradeVars, settleVars
  <2>2. CASE TraderStep
    BY <1>1, <2>2
    DEF TraderStep, trader_deposit, trader_withdraw, envVars, tradeVars, settleVars
  <2>3. CASE AdminStep
    BY <1>1, <2>3
    DEF AdminStep, admin_init, rotate_keeper, pause, unpause, set_paused, init_market,
        withdraw_protocol_fees, traderVars, envVars, tradeVars, settleVars
  <2>4. CASE EnvironmentStep
    BY <1>1, <2>4
    DEF EnvironmentStep, Tick, Prove, PriceAccountsChange, CloseWindow, traderVars,
        tradeVars, settleVars
  <2>5. CASE UNCHANGED vars
    BY <1>1, <2>5 DEF vars, traderVars, envVars, tradeVars, settleVars
  <2>6. QED
    BY <1>2, <2>1, <2>2, <2>3, <2>4, <2>5
<1>3. CASE KeeperStep
  <2>1. CASE \/ \E m \in Markets, regime \in Regimes, cap \in MultiplierCaps :
                  update_market(keeper, m, regime, cap)
             \/ \E k \in Keepers, b \in Batches :
                  \E own, vault : verify_and_settle(k, b, own, vault)
    BY <1>1, <2>1
    DEF update_market, verify_and_settle, traderVars, envVars, tradeVars, proofVars, settleVars
  <2>2. QED
    BY <1>3, <2>1, AcceptLocks, ReleaseLocks DEF KeeperStep, AccountInv
<1>4. CASE ClaimStep
  BY <1>4, TrueDistribution, DistributeLocks DEF AccountInv
<1>5. QED
  BY <1>2, <1>3, <1>4 DEF Next

\* At the start nothing is locked and no trade is open.
LEMMA InitLockBounds == Init => LockBounds
<1> SUFFICES ASSUME Init PROVE LockBounds
  OBVIOUS
<1>1. ASSUME NEW tr \in Traders
      PROVE  Stakes(Of(tr, Open)) = 0 /\ Stakes(Of(tr, released \cap claim_receipt)) = 0
  <2>1. Of(tr, Open) = {} /\ Of(tr, released \cap claim_receipt) = {}
    BY DEF Init, Open, Of
  <2>2. QED
    BY <2>1, SumEmpty, Zenon DEF Stakes
<1>2. \A tr \in Traders : locked_usdt[tr] = 0
  BY DEF Init
<1>3. QED
  BY <1>1, <1>2 DEF Init, LockBounds

\* The lock bounds are an invariant of the engine, if the stakes told are true.
LEMMA LockBoundsCorrect ==
  ASSUME TrueStakesPassed
  PROVE  Spec => []LockBounds
  BY InitLockBounds, StepLockBounds, AccountCorrect, TypeCorrect, PTL DEF Spec

\* What a trader has locked is the stake of each of his open trades, less at
\* most what was explicitly released: nobody who released nothing ever has
\* less locked than he has at risk, or more, if every distribution is told the
\* stake of its trade (trade.rs:70-103, admin.rs:111-112).
THEOREM LockedUpToReleasesCorrect ==
  ASSUME TrueStakesPassed
  PROVE  Spec => []LockedUpToReleases
<1>1. TypeOK /\ LockBounds => LockedUpToReleases
  <2> SUFFICES ASSUME TypeOK, LockBounds, NEW tr \in Traders
               PROVE  locked_usdt[tr] \in Stakes(Of(tr, Open)) - Stakes(Of(tr, released))
                                            .. Stakes(Of(tr, Open))
    BY DEF LockedUpToReleases
  <2>1. /\ released \in SUBSET Trades /\ released \cap claim_receipt \in SUBSET released
        /\ Open \in SUBSET Trades
    BY DEF TypeOK, Open
  <2>2. /\ Stakes(Of(tr, released)) \in Nat
        /\ Stakes(Of(tr, released \cap claim_receipt)) \in Nat
        /\ Stakes(Of(tr, released \cap claim_receipt)) <= Stakes(Of(tr, released))
        /\ Stakes(Of(tr, Open)) \in Nat
    BY <2>1, OfAmounts
  <2>3. locked_usdt[tr] \in Nat
    BY ParametersAreNat DEF TypeOK, U64
  <2>4. QED
    BY <2>2, <2>3 DEF LockBounds
<1>2. QED
  BY <1>1, LockBoundsCorrect, TypeCorrect, PTL

-----------------------------------------------------------------------------
\* What the locks guarantee.

\* Undistributed trades are open, or released and not distributed.
LEMMA UndistributedStakes ==
  ASSUME TypeOK, LockBounds, NEW tr \in Traders
  PROVE  Stakes(Of(tr, accepted \ claim_receipt))
           <= locked_usdt[tr] + Stakes(Of(tr, released))
<1> DEFINE A == Of(tr, Open)
           B == Of(tr, released \ claim_receipt)
           C == Of(tr, released \cap claim_receipt)
           R == Of(tr, released)
           W == Of(tr, accepted \ claim_receipt)
<1>1. /\ A \in SUBSET Trades /\ B \in SUBSET Trades /\ C \in SUBSET Trades
      /\ A \cap B = {} /\ B \cap C = {}
      /\ A \cup B = W /\ B \cup C = R
  BY DEF Of, Open, LockBounds, TypeOK
<1>2. Stakes(W) = Stakes(A \cup B) /\ Stakes(R) = Stakes(B \cup C)
  BY <1>1, Zenon
<1>3. Stakes(A) <= locked_usdt[tr] + Stakes(C)
  BY DEF LockBounds
<1>a. locked_usdt[tr] \in Nat
  BY ParametersAreNat DEF TypeOK, U64
<1> HIDE DEF A, B, C, R, W
<1>4. Stakes(A \cup B) = Stakes(A) + Stakes(B) /\ Stakes(B \cup C) = Stakes(B) + Stakes(C)
  BY <1>1, SumsOfTwo
<1>5. Stakes(A) \in Nat /\ Stakes(B) \in Nat /\ Stakes(C) \in Nat
  BY <1>1, SumsAreNat
<1>6. Stakes(W) <= locked_usdt[tr] + Stakes(R)
  BY <1>2, <1>3, <1>a, <1>4, <1>5
<1>7. QED
  BY <1>6 DEF W, R

\* The distribution of a settled trade is never refused for lack of balance,
\* but for stakes that were released: for any number of traders and trades,
\* whatever was withdrawn in between, if no distribution is told more than its
\* trade's stake or less (trade.rs:42-61, admin.rs:103-106).
THEOREM ClaimsPayableCorrect ==
  ASSUME TrueStakesPassed
  PROVE  Spec => []ClaimsPayable
<1>1. TypeOK /\ LockBounds /\ LockedWithinBalance => ClaimsPayable
  <2> SUFFICES ASSUME TypeOK, LockBounds, LockedWithinBalance, NEW tr \in Traders
               PROVE  balance_usdt[tr] + Stakes(Of(tr, released)) >= Stakes(Of(tr, Pending))
    BY DEF ClaimsPayable
  <2> DEFINE U == accepted \ claim_receipt
  <2>1. U \in SUBSET Trades /\ Pending \in SUBSET U /\ released \in SUBSET Trades
    BY DEF Pending, TypeOK
  <2>2. Stakes(Of(tr, U)) <= locked_usdt[tr] + Stakes(Of(tr, released))
    BY UndistributedStakes
  <2> HIDE DEF U
  <2>3. /\ Stakes(Of(tr, Pending)) <= Stakes(Of(tr, U))
        /\ Stakes(Of(tr, Pending)) \in Nat /\ Stakes(Of(tr, U)) \in Nat
    BY <2>1, OfAmounts
  <2>4. Stakes(Of(tr, released)) \in Nat
    BY <2>1, OfAmounts
  <2>5. locked_usdt[tr] \in Nat /\ balance_usdt[tr] \in Nat
        /\ locked_usdt[tr] <= balance_usdt[tr]
    BY ParametersAreNat DEF TypeOK, U64, LockedWithinBalance
  <2>6. QED
    BY <2>2, <2>3, <2>4, <2>5
<1>2. QED
  BY <1>1, LockBoundsCorrect, LockedCorrect, TypeCorrect, PTL

\* The stakes of a set of trades, trader by trader.
LEMMA StakesByTrader ==
  ASSUME NEW T \in SUBSET Trades
  PROVE  SumFunctionOnSet([tr \in Traders |-> Stakes(Of(tr, T))], Traders) = Stakes(T)
<1>1. IsFiniteSet(T) /\ IsFiniteSet(Traders)
  BY SumsAreNat, AccountsAreFinite
<1>2. \A t \in T : Stake[t] \in Int /\ TradeTrader[t] \in Traders
  BY TradesWellFormed, TradeAmounts
<1>3. SumFunctionOnSet([tr \in Traders |->
                          SumFunctionOnSet(Stake, {t \in T : TradeTrader[t] = tr})], Traders)
        = SumFunctionOnSet(Stake, T)
  BY <1>1, <1>2, SumByGroup
<1>4. QED
  BY <1>3 DEF Stakes, Of

\* The trader vault covers withdrawals, unclaimed payouts and stakes at risk
\* together, for any number of traders, trades and batches; it lacks at most
\* the stakes that were released.  So it is if the accounts passed are the ones
\* they stand for and the stakes told are true (trade.rs:42-61,
\* admin.rs:103-110).
THEOREM VaultCoversCorrect ==
  ASSUME OwnAccountsPassed, TrueStakesPassed
  PROVE  Spec => []TraderVaultCovers
<1>1. TypeOK /\ BooksMatchTokens /\ MarginAccounted /\ AccountInv /\ LockBounds
        /\ LockedWithinBalance => TraderVaultCovers
  <2> SUFFICES ASSUME TypeOK, BooksMatchTokens, MarginAccounted, AccountInv, LockBounds,
                      LockedWithinBalance
               PROVE  TraderVaultCovers
    OBVIOUS
  <2> DEFINE free == [tr \in Traders |-> Withdrawable(tr)]
             risk == [tr \in Traders |-> Stakes(Of(tr, accepted \ claim_receipt))]
             given == [tr \in Traders |-> Stakes(Of(tr, released))]
             bound == [tr \in Traders |-> locked_usdt[tr] + given[tr]]
             SumOf(f) == SumFunctionOnSet(f, Traders)
  <2>1. IsFiniteSet(Traders)
    BY AccountsAreFinite
  <2>2. /\ accepted \ claim_receipt \in SUBSET Trades /\ released \in SUBSET Trades
        /\ Pending \in SUBSET Trades /\ Unsettled \in SUBSET Trades
        /\ Pending \cap Unsettled = {}
        /\ Pending \cup Unsettled = accepted \ claim_receipt
    BY DEF TypeOK, Pending, Unsettled, AccountInv, ClaimsSettled
  <2>3. \A tr \in Traders :
          /\ balance_usdt[tr] \in Int /\ locked_usdt[tr] \in Int
          /\ free[tr] = balance_usdt[tr] - locked_usdt[tr]
          /\ balance_usdt[tr] = free[tr] + locked_usdt[tr] /\ free[tr] \in Int
    BY ParametersAreNat DEF TypeOK, U64, LockedWithinBalance, Withdrawable, SaturatingSub
  <2>4. \A tr \in Traders : risk[tr] \in Int /\ given[tr] \in Int
    BY <2>2, OfAmounts
  <2>5. \A tr \in Traders : risk[tr] <= bound[tr]
    BY UndistributedStakes
  <2>6. \A tr \in Traders : bound[tr] = locked_usdt[tr] + given[tr] /\ bound[tr] \in Int
    BY <2>3, <2>4
  <2>7. Total(balance_usdt) = SumOf(balance_usdt)
    BY TotalIs DEF TypeOK
  <2>8. Total(free) = SumOf(free)
    BY Zenon DEF Total, SumFunction
  <2>9. SumOf(risk) = Stakes(accepted \ claim_receipt) /\ SumOf(given) = Stakes(released)
    BY <2>2, StakesByTrader
  <2>10. Stakes(accepted \ claim_receipt) = Stakes(Pending) + Stakes(Unsettled)
    <3>1. Stakes(Pending \cup Unsettled) = Stakes(Pending) + Stakes(Unsettled)
      BY <2>2, SumsOfTwo
    <3>2. QED
      BY <2>2, <3>1, Zenon
  <2>11. /\ Stakes(Pending) \in Nat /\ Stakes(Unsettled) \in Nat /\ Stakes(released) \in Nat
         /\ Payouts(Pending) \in Nat
    BY <2>2, SumsAreNat
  <2> HIDE DEF free, risk, given, bound
  <2>12. SumOf(balance_usdt) = SumOf(free) + SumOf(locked_usdt)
    BY <2>1, <2>3, SumPlus
  <2>13. SumOf(bound) = SumOf(locked_usdt) + SumOf(given)
    BY <2>1, <2>3, <2>4, <2>6, SumPlus
  <2>14. SumOf(risk) <= SumOf(bound)
    BY <2>1, <2>4, <2>5, <2>6, SumMonotonic
  <2>15. SumOf(free) \in Int /\ SumOf(locked_usdt) \in Int
    BY <2>1, <2>3, SumInt
  <2>16. tokens[TraderVault]
           = Total(balance_usdt) + Payouts(Pending) - Stakes(Pending)
    BY DEF BooksMatchTokens, MarginAccounted
  <2>17. tokens[TraderVault] + Stakes(released)
           >= Total(free) + Payouts(Pending) + Stakes(Unsettled)
    <3> HIDE DEF SumOf
    <3>1. QED
      BY <2>7, <2>8, <2>9, <2>10, <2>11, <2>12, <2>13, <2>14, <2>15, <2>16
  <2>18. QED
    BY <2>17 DEF TraderVaultCovers, free
<1>2. QED
  BY <1>1, BooksCorrect, MarginCorrect, AccountCorrect, LockBoundsCorrect, LockedCorrect,
     TypeCorrect, PTL

-----------------------------------------------------------------------------
\* Fees.

\* What a settled batch owes the protocol, and a keeper.
ProtocolDues == [b \in Batches |-> IF Settled(b) THEN receipt[b].outputs.protocol_fee ELSE 0]
KeeperDues(k) ==
  [b \in Batches |-> IF Settled(b) /\ receipt[b].keeper_pubkey = k
                     THEN receipt[b].outputs.keeper_fee ELSE 0]

\* FeesAccounted, as sums over all batches.
FeesBooked ==
  /\ tokens[Admin] - InitialTokens[Admin] + accrued_protocol_fees
       = SumFunctionOnSet(ProtocolDues, Batches)
  /\ \A k \in Keepers :
       tokens[k] - InitialTokens[k] = SumFunctionOnSet(KeeperDues(k), Batches)

\* What a receipt says.
LEMMA ReceiptFields ==
  ASSUME TypeOK, NEW b \in Batches, Settled(b)
  PROVE  /\ receipt[b].outputs.protocol_fee \in Int
         /\ receipt[b].outputs.keeper_fee \in Int
<1>1. receipt[b] \in Receipts
  BY DEF TypeOK, Settled
<1>2. receipt[b].outputs \in Outputs
  BY <1>1 DEF Receipts
<1>3. QED
  BY <1>2, ParametersAreNat DEF Outputs, U64

\* Dues are integers.
LEMMA DuesAreInt ==
  ASSUME TypeOK, NEW b \in Batches
  PROVE  ProtocolDues[b] \in Int /\ \A k : KeeperDues(k)[b] \in Int
BY ReceiptFields DEF ProtocolDues, KeeperDues

\* The two forms say the same.
LEMMA FeesForms == TypeOK => (FeesAccounted <=> FeesBooked)
<1> SUFFICES ASSUME TypeOK PROVE FeesAccounted <=> FeesBooked
  OBVIOUS
<1> DEFINE settled == {b \in Batches : Settled(b)}
           by(k) == {b \in settled : receipt[b].keeper_pubkey = k}
           pf == [b \in settled |-> receipt[b].outputs.protocol_fee]
           kf(k) == [b \in by(k) |-> receipt[b].outputs.keeper_fee]
<1>1. Total(pf) = SumFunctionOnSet(ProtocolDues, Batches)
  <2>1. Total(pf) = SumFunctionOnSet(pf, settled)
    BY Zenon DEF Total, SumFunction
  <2>2. /\ settled \in SUBSET Batches
        /\ \A b \in settled : pf[b] \in Int /\ ProtocolDues[b] = pf[b]
        /\ \A b \in Batches \ settled : ProtocolDues[b] = 0
    BY ReceiptFields DEF ProtocolDues
  <2> HIDE DEF pf, settled
  <2>3. SumFunctionOnSet(pf, settled) = SumFunctionOnSet(ProtocolDues, Batches)
    BY <2>2, AccountsAreFinite, SumOfPart
  <2>4. QED
    BY <2>1, <2>3
<1>2. ASSUME NEW k \in Keepers
      PROVE  Total(kf(k)) = SumFunctionOnSet(KeeperDues(k), Batches)
  <2> DEFINE T == by(k)
             f == kf(k)
             g == KeeperDues(k)
  <2>1. Total(f) = SumFunctionOnSet(f, T)
    BY Zenon DEF Total, SumFunction
  <2>2. /\ T \in SUBSET Batches
        /\ \A b \in T : f[b] \in Int /\ g[b] = f[b]
        /\ \A b \in Batches \ T : g[b] = 0
    BY ReceiptFields DEF KeeperDues
  <2> HIDE DEF f, T, g
  <2>3. SumFunctionOnSet(f, T) = SumFunctionOnSet(g, Batches)
    BY <2>2, AccountsAreFinite, SumOfPart
  <2>4. Total(f) = SumFunctionOnSet(g, Batches)
    BY <2>1, <2>3
  <2>5. QED
    BY <2>4, Zenon DEF f, g
<1>3. FeesAccounted <=>
        /\ tokens[Admin] - InitialTokens[Admin] + accrued_protocol_fees = Total(pf)
        /\ \A k \in Keepers : tokens[k] - InitialTokens[k] = Total(kf(k))
  BY Zenon DEF FeesAccounted
<1> HIDE DEF pf, kf
<1>4. QED
  BY <1>1, <1>2, <1>3 DEF FeesBooked

\* At the start nothing is owed and nothing was paid.
LEMMA InitFees == Init => FeesBooked
<1> SUFFICES ASSUME Init PROVE FeesBooked
  OBVIOUS
<1>1. \A b \in Batches : ~Settled(b)
  BY DEF Init, Settled
<1>2. /\ \A b \in Batches : ProtocolDues[b] = 0
      /\ \A k \in Keepers, b \in Batches : KeeperDues(k)[b] = 0
  BY <1>1 DEF ProtocolDues, KeeperDues
<1>3. SumFunctionOnSet(ProtocolDues, Batches) = 0
  BY <1>2, AccountsAreFinite, SumZero
<1>4. ASSUME NEW k \in Keepers
      PROVE  SumFunctionOnSet(KeeperDues(k), Batches) = 0
  <2> DEFINE g == KeeperDues(k)
  <2>1. \A b \in Batches : g[b] = 0
    BY <1>2
  <2> HIDE DEF g
  <2>2. SumFunctionOnSet(g, Batches) = 0
    BY <2>1, AccountsAreFinite, SumZero
  <2>3. QED
    BY <2>2 DEF g
<1>5. (\A x \in Holders : tokens[x] = InitialTokens[x]) /\ accrued_protocol_fees = 0
  BY DEF Init, Accounts
<1>6. \A x \in Holders : InitialTokens[x] \in Int
  BY ModelInputs, ParametersAreNat DEF U64
<1>7. QED
  BY <1>3, <1>4, <1>5, <1>6 DEF FeesBooked, Holders

\* Fees stay booked when neither the receipts nor what the admin and the
\* keepers have of them changes.
LEMMA FeesUntouched ==
  ASSUME FeesBooked, UNCHANGED receipt,
         \A k \in Keepers : tokens'[k] = tokens[k],
         tokens'[Admin] + accrued_protocol_fees' = tokens[Admin] + accrued_protocol_fees,
         TypeOK, TypeOK'
  PROVE  FeesBooked'
<1>1. ProtocolDues' = ProtocolDues /\ \A k \in Keepers : KeeperDues(k)' = KeeperDues(k)
  BY DEF ProtocolDues, KeeperDues, Settled
<1>2. /\ tokens[Admin] \in Int /\ tokens'[Admin] \in Int /\ InitialTokens[Admin] \in Int
      /\ accrued_protocol_fees \in Int /\ accrued_protocol_fees' \in Int
  BY ModelInputs, ParametersAreNat DEF TypeOK, Accounts, Holders, U64
<1>3. tokens'[Admin] - InitialTokens[Admin] + accrued_protocol_fees'
        = tokens[Admin] - InitialTokens[Admin] + accrued_protocol_fees
  BY <1>2
<1>4. tokens'[Admin] - InitialTokens[Admin] + accrued_protocol_fees'
        = SumFunctionOnSet(ProtocolDues, Batches)
  BY <1>3 DEF FeesBooked
<1>5. \A k \in Keepers :
        tokens'[k] - InitialTokens[k] = SumFunctionOnSet(KeeperDues(k), Batches)
  BY DEF FeesBooked
<1>6. QED
  BY <1>1, <1>4, <1>5, Zenon DEF FeesBooked

\* A settlement pays its keeper, and accrues for the protocol, what the new
\* receipt says.
LEMMA SettleFees ==
  ASSUME OwnAccountsPassed, TypeOK, TypeOK', ProofsBalance, FeesBooked,
         NEW s \in Keepers, NEW b \in Batches, NEW own \in PassedAs[s],
         NEW vault \in PassedAs[LpVault], verify_and_settle(s, b, own, vault)
  PROVE  FeesBooked'
<1> DEFINE p == proof[b]
           r == [settled_at |-> now, keeper_pubkey |-> s, outputs |-> p]
<1>1. p \in Outputs /\ p # NoProof
  BY DEF TypeOK, verify_and_settle, SettlementAccepted, ProofVerifies
<1>2. /\ p.protocol_fee \in Nat /\ p.keeper_fee \in Nat /\ p.net_payout \in Int
      /\ p.net_payout >= 0 => p.protocol_fee = 0
  <2>1. p.protocol_fee \in U64 /\ p.keeper_fee \in U64 /\ p.net_payout \in Int
    BY <1>1, OutputFields DEF Outputs
  <2>2. p.net_payout >= 0 => p.protocol_fee = 0
    BY <1>1, Zenon DEF ProofsBalance
  <2>3. QED
    BY <2>1, <2>2, ParametersAreNat DEF U64
<1>3. /\ receipt' = [receipt EXCEPT ![b] = r] /\ ~Settled(b)
      /\ tokens' = Moved(NetMoved(p, vault), vault, own, p.keeper_fee)
      /\ accrued_protocol_fees'
           = accrued_protocol_fees + (IF p.net_payout >= 0 THEN 0 ELSE p.protocol_fee)
  BY DEF verify_and_settle, SettlementAccepted, ProofVerifies, BatchNotSettled,
         SettleVault, SettleTokens, FeesAccrued, Settled
<1>t. /\ tokens'[s] = tokens[s] + p.keeper_fee
      /\ \A x \in Holders \ {s} : tokens'[x] = tokens[x]
  <2>1. own = s /\ vault = LpVault /\ tokens \in [Accounts -> Nat]
        /\ (\A x \in Holders : x # LpVault /\ x # TraderVault /\ x \in Accounts)
        /\ s \in Holders
    BY OwnPassed DEF Holders, Accounts, TypeOK
  <2> DEFINE net == NetMoved(p, vault)
  <2> HIDE DEF p
  <2>2. (\A x \in Holders : net[x] = tokens[x]) /\ DOMAIN net = Accounts
    BY <2>1 DEF NetMoved, Moved
  <2>3. tokens' = Moved(net, LpVault, s, p.keeper_fee)
    BY <1>3, <2>1
  <2> HIDE DEF net
  <2>4. QED
    BY <2>1, <2>2, <2>3 DEF Moved
<1>4. accrued_protocol_fees' = accrued_protocol_fees + p.protocol_fee
  BY <1>2, <1>3 DEF TypeOK, U64
<1>5. r \in Receipts /\ r # NoReceipt /\ r.outputs = p /\ r.keeper_pubkey = s
  BY <1>1, ReceiptsDiffer DEF Receipts, TypeOK
<1>6. /\ Settled(b)' /\ receipt'[b] = r
      /\ \A x \in Batches \ {b} : receipt'[x] = receipt[x] /\ (Settled(x)' <=> Settled(x))
  BY <1>3, <1>5 DEF TypeOK, Settled
<1> HIDE DEF p, r
<1>7. /\ ProtocolDues[b] = 0 /\ ProtocolDues'[b] = p.protocol_fee
      /\ \A x \in Batches \ {b} : ProtocolDues'[x] = ProtocolDues[x]
  BY <1>3, <1>5, <1>6 DEF ProtocolDues
<1>8. SumFunctionOnSet(ProtocolDues, Batches)'
        = SumFunctionOnSet(ProtocolDues, Batches) + p.protocol_fee
  <2> DEFINE f == ProtocolDues
             g == ProtocolDues'
  <2>1. (\A x \in Batches : f[x] \in Int) /\ g[b] \in Int
    BY DuesAreInt, <1>2, <1>7
  <2>a. \A x \in Batches \ {b} : g[x] = f[x]
    BY <1>7
  <2>2. f[b] = 0 /\ g[b] = p.protocol_fee
    BY <1>7
  <2> HIDE DEF f, g
  <2>3. SumFunctionOnSet(g, Batches) = SumFunctionOnSet(f, Batches) + g[b] - f[b]
    <3>1. IsFiniteSet(Batches)
      BY AccountsAreFinite
    <3>2. QED
      BY <2>1, <2>a, <3>1, SumUpdate
  <2>4. SumFunctionOnSet(f, Batches) \in Int
    BY <2>1, AccountsAreFinite, SumInt
  <2>5. SumFunctionOnSet(g, Batches) = SumFunctionOnSet(f, Batches) + p.protocol_fee
    BY <2>2, <2>3, <2>4, <1>2
  <2>6. QED
    BY <2>5, Zenon DEF f, g
<1>9. ASSUME NEW k \in Keepers
      PROVE  tokens'[k] - InitialTokens[k] = SumFunctionOnSet(KeeperDues(k), Batches)'
  <2> DEFINE f == KeeperDues(k)
             g == KeeperDues(k)'
             due == IF k = s THEN p.keeper_fee ELSE 0
  <2>a. \A x \in Batches \ {b} : g[x] = f[x]
    BY <1>6 DEF KeeperDues
  <2>1. f[b] = 0 /\ g[b] = due
    BY <1>3, <1>5, <1>6 DEF KeeperDues
  <2>2. due \in Nat
    BY <1>2
  <2>3. (\A x \in Batches : f[x] \in Int) /\ g[b] \in Int
    BY DuesAreInt, <2>1, <2>2
  <2>4. k \in Holders /\ s \in Holders /\ tokens[k] \in Nat
        /\ InitialTokens[k] \in Int
    BY ModelInputs, ParametersAreNat DEF Accounts, Holders, TypeOK, U64
  <2>5. tokens'[k] = tokens[k] + due
    BY <1>2, <1>t, <2>4
  <2>6. tokens[k] - InitialTokens[k] = SumFunctionOnSet(f, Batches)
    BY Zenon DEF FeesBooked
  <2> HIDE DEF f, g, due
  <2>7. SumFunctionOnSet(g, Batches) = SumFunctionOnSet(f, Batches) + g[b] - f[b]
    <3>1. IsFiniteSet(Batches)
      BY AccountsAreFinite
    <3>2. QED
      BY <2>a, <2>3, <3>1, SumUpdate
  <2>8. SumFunctionOnSet(f, Batches) \in Int
    BY <2>3, AccountsAreFinite, SumInt
  <2>9. tokens'[k] - InitialTokens[k] = SumFunctionOnSet(g, Batches)
    BY <2>1, <2>2, <2>4, <2>5, <2>6, <2>7, <2>8
  <2>10. QED
    BY <2>9, Zenon DEF g
<1>10. tokens'[Admin] - InitialTokens[Admin] + accrued_protocol_fees'
         = SumFunctionOnSet(ProtocolDues, Batches)'
  <2>1. tokens'[Admin] = tokens[Admin]
    BY <1>t, KeysDiffer DEF Holders
  <2>2. tokens[Admin] \in Int /\ InitialTokens[Admin] \in Int /\ accrued_protocol_fees \in Int
    BY ModelInputs, ParametersAreNat DEF TypeOK, Accounts, Holders, U64
  <2>3. tokens[Admin] - InitialTokens[Admin] + accrued_protocol_fees
          = SumFunctionOnSet(ProtocolDues, Batches)
    BY Zenon DEF FeesBooked
  <2>4. QED
    BY <1>2, <1>4, <1>8, <2>1, <2>2, <2>3
<1>11. QED
  BY <1>9, <1>10, Zenon DEF FeesBooked

\* No step loses or invents a fee.
LEMMA StepFees ==
  ASSUME OwnAccountsPassed
  PROVE  TypeOK /\ TypeOK' /\ AccountInv /\ FeesBooked /\ [Next]_vars => FeesBooked'
<1> SUFFICES ASSUME TypeOK, TypeOK', AccountInv, FeesBooked, [Next]_vars
             PROVE  FeesBooked'
  OBVIOUS
<1>1. CASE UNCHANGED <<receipt, tokens, accrued_protocol_fees>>
  BY <1>1, FeesUntouched
<1>2. ASSUME NEW who \in Lps \cup Traders, NEW vault \in Vaults, NEW n,
             \/ tokens' = Moved(tokens, who, vault, n)
             \/ tokens' = Moved(tokens, vault, who, n),
             UNCHANGED <<receipt, accrued_protocol_fees>>
      PROVE  FeesBooked'
  <2>1. \A k \in Keepers \cup {Admin} : k # who /\ k # vault
    BY KeysDiffer DEF Holders
  <2>2. \A k \in Keepers \cup {Admin} : tokens'[k] = tokens[k]
    BY <1>2, <2>1 DEF Moved, TypeOK, Accounts, Holders
  <2>3. QED
    BY <1>2, <2>2, FeesUntouched
<1>3. CASE LpStep
  <2>1. PICK lp \in Lps, a \in Amounts :
          lp_deposit(lp, a, lp, LpVault) \/ lp_withdraw(lp, a, lp, LpVault)
    BY <1>3, OwnPassed DEF LpStep, Holders
  <2>2. LpVault \in Vaults /\ lp \in Lps \cup Traders
    BY DEF Vaults
  <2>3. CASE lp_deposit(lp, a, lp, LpVault)
    BY <1>2, <2>2, <2>3 DEF lp_deposit, token_transfer, settleVars
  <2>4. CASE lp_withdraw(lp, a, lp, LpVault)
    BY <1>2, <2>2, <2>4 DEF lp_withdraw, vault_token_transfer, settleVars
  <2>5. QED
    BY <2>1, <2>3, <2>4
<1>4. CASE TraderStep
  <2>1. PICK tr \in Traders, a \in Amounts :
          trader_deposit(tr, a, tr) \/ trader_withdraw(tr, a, tr)
    BY <1>4, OwnPassed DEF TraderStep, Holders
  <2>2. TraderVault \in Vaults /\ tr \in Lps \cup Traders
    BY DEF Vaults
  <2>3. CASE trader_deposit(tr, a, tr)
    BY <1>2, <2>2, <2>3 DEF trader_deposit, token_transfer, settleVars
  <2>4. CASE trader_withdraw(tr, a, tr)
    BY <1>2, <2>2, <2>4 DEF trader_withdraw, vault_token_transfer, settleVars
  <2>5. QED
    BY <2>1, <2>3, <2>4
<1>5. CASE KeeperStep
  <2>1. ASSUME NEW t \in Trades, AcceptTrade(t) \/ ReleaseTrade(t) PROVE FeesBooked'
    BY <1>1, <2>1 DEF AcceptTrade, ReleaseTrade, lock_margin, unlock_margin, vaultVars,
                      settleVars, tokenVars
  <2>2. ASSUME NEW m \in Markets, NEW regime \in Regimes, NEW cap \in MultiplierCaps,
               update_market(keeper, m, regime, cap)
        PROVE  FeesBooked'
    BY <1>1, <2>2 DEF update_market, vaultVars, settleVars, tokenVars
  <2>3. QED
    BY <1>5, <2>1, <2>2, SettleFees DEF KeeperStep, AccountInv
<1>6. CASE AdminStep
  <2>1. ASSUME NEW k \in Keepers, admin_init(k) PROVE FeesBooked'
    BY <1>1, <2>1 DEF admin_init, settleVars, tokenVars, AccountInv, NothingBooked
  <2>2. ASSUME NEW k \in Keepers, rotate_keeper(Admin, k) PROVE FeesBooked'
    BY <1>1, <2>2 DEF rotate_keeper, vaultVars, settleVars, tokenVars
  <2>3. ASSUME pause(Admin) \/ unpause(Admin) PROVE FeesBooked'
    BY <1>1, <2>3 DEF pause, unpause, set_paused, vaultVars, settleVars, tokenVars
  <2>4. ASSUME NEW m \in Markets, NEW cap \in MultiplierCaps, init_market(Admin, m, 0, cap)
        PROVE  FeesBooked'
    BY <1>1, <2>4 DEF init_market, vaultVars, settleVars, tokenVars
  <2>5. ASSUME NEW amount \in Amounts, NEW own \in PassedAs[Admin],
               NEW vault \in PassedAs[LpVault],
               withdraw_protocol_fees(Admin, amount, own, vault)
        PROVE  FeesBooked'
    <3>0. own = Admin /\ vault = LpVault /\ Admin # LpVault
          /\ \A k \in Keepers : k # Admin /\ k # LpVault
      BY OwnPassed, KeysDiffer DEF Holders
    <3>1. /\ tokens' = Moved(tokens, LpVault, Admin, amount)
          /\ accrued_protocol_fees' = accrued_protocol_fees - amount
          /\ UNCHANGED receipt
      BY <2>5, <3>0 DEF withdraw_protocol_fees, vault_token_transfer, settleVars
    <3>2. (\A k \in Keepers : tokens'[k] = tokens[k])
          /\ tokens'[Admin] = tokens[Admin] + amount
      BY <3>0, <3>1 DEF Moved, TypeOK, Accounts, Holders
    <3>3. tokens[Admin] \in Int /\ accrued_protocol_fees \in Int /\ amount \in Int
      BY ModelInputs, ParametersAreNat DEF TypeOK, Accounts, Holders, U64
    <3>4. QED
      BY <3>1, <3>2, <3>3, FeesUntouched
  <2>6. QED
    BY <1>6, <2>1, <2>2, <2>3, <2>4, <2>5 DEF AdminStep
<1>7. CASE ClaimStep
  BY <1>1, <1>7 DEF ClaimStep, distribute_winnings, vaultVars, tokenVars
<1>8. CASE EnvironmentStep
  BY <1>1, <1>8 DEF EnvironmentStep, Tick, Prove, PriceAccountsChange, CloseWindow, vaultVars, settleVars,
                    tokenVars
<1>9. CASE UNCHANGED vars
  BY <1>1, <1>9 DEF vars, vaultVars, settleVars, tokenVars
<1>10. QED
  BY <1>3, <1>4, <1>5, <1>6, <1>7, <1>8, <1>9 DEF Next

\* Every fee is taken once and ends with the one it is owed to, for any number
\* of batches and keepers, in any order of settlements, rotations, pauses and
\* withdrawals of fees, if each is paid to its caller's own account
\* (admin.rs:36-58 and 255-313).
THEOREM FeesCorrect ==
  ASSUME OwnAccountsPassed
  PROVE  Spec => []FeesAccounted
<1>0. TypeOK /\ TypeOK' /\ AccountInv /\ FeesBooked /\ [Next]_vars => FeesBooked'
  BY StepFees
<1>1. Spec => []FeesBooked
  BY <1>0, InitFees, AccountCorrect, TypeCorrect, PTL DEF Spec
<1>2. QED
  BY <1>1, FeesForms, TypeCorrect, PTL

-----------------------------------------------------------------------------
\* A fresh proof settles.

\* Tokens move between token accounts; none is made or lost.
TokensConserved == Total(tokens) = Total(InitialTokens)

\* There are finitely many token accounts.
LEMMA FiniteAccounts == IsFiniteSet(Accounts) /\ Holders \subseteq Accounts
<1>1. Accounts = (Holders \cup {LpVault}) \cup {TraderVault}
  BY DEF Accounts, Vaults
<1>2. IsFiniteSet(Holders \cup {LpVault})
  BY MintSupply, FS_AddElement
<1>3. QED
  BY <1>1, <1>2, FS_AddElement DEF Accounts

\* A transfer leaves the total as it is, whichever accounts it is between.
LEMMA MovedTotal ==
  ASSUME NEW f \in [Accounts -> Int], NEW from \in Accounts, NEW to \in Accounts,
         NEW n \in Int
  PROVE  /\ Moved(f, from, to, n) \in [Accounts -> Int]
         /\ Total(Moved(f, from, to, n)) = Total(f)
<1> DEFINE g == [f EXCEPT ![from] = f[from] - n]
           h == Moved(f, from, to, n)
<1>1. g \in [Accounts -> Int] /\ g[from] = f[from] - n
      /\ \A x \in Accounts \ {from} : g[x] = f[x]
  OBVIOUS
<1>2. /\ h = [x \in Accounts |-> h[x]]
      /\ h[to] = g[to] + n
      /\ \A x \in Accounts \ {to} : h[x] = g[x]
  <2>1. h = [g EXCEPT ![to] = g[to] + n]
    BY Zenon DEF Moved
  <2> HIDE DEF g, h
  <2> QED BY <1>1, <2>1
<1> HIDE DEF g, h
<1>3. h \in [Accounts -> Int] /\ h[to] = g[to] + n
      /\ \A x \in Accounts \ {to} : h[x] = g[x]
  <2>1. \A x \in Accounts : h[x] \in Int
    BY <1>1, <1>2
  <2> QED BY <1>2, <2>1
<1>4. IsFiniteSet(Accounts)
  BY FiniteAccounts
<1>5. (\A x \in Accounts : f[x] \in Int) /\ (\A x \in Accounts : g[x] \in Int)
      /\ g[from] \in Int /\ h[to] \in Int
  BY <1>1, <1>3
<1>6. SumFunctionOnSet(g, Accounts) = SumFunctionOnSet(f, Accounts) + g[from] - f[from]
  BY <1>1, <1>4, <1>5, SumUpdate
<1>7. SumFunctionOnSet(h, Accounts) = SumFunctionOnSet(g, Accounts) + h[to] - g[to]
  <2>1. (\A x \in Accounts : g[x] \in Int) /\ h[to] \in Int
    BY <1>5
  <2>2. \A x \in Accounts \ {to} : h[x] = g[x]
    BY <1>3
  <2> HIDE <1>1, <1>2, <1>3, <1>5, <1>6
  <2> QED BY <1>4, <2>1, <2>2, SumUpdate
<1>8. SumFunctionOnSet(f, Accounts) \in Int /\ SumFunctionOnSet(g, Accounts) \in Int
  BY <1>4, <1>5, SumInt
<1>9. SumFunctionOnSet(h, Accounts) = SumFunctionOnSet(f, Accounts)
  BY <1>1, <1>3, <1>5, <1>6, <1>7, <1>8
<1>10. Total(h) = SumFunctionOnSet(h, Accounts) /\ Total(f) = SumFunctionOnSet(f, Accounts)
  BY <1>3, TotalIs
<1>11. QED
  BY <1>3, <1>9, <1>10 DEF h

\* No step makes or loses a token, whatever accounts are passed.
LEMMA StepTokens ==
  TypeOK /\ TypeOK' /\ TokensConserved /\ [Next]_vars => TokensConserved'
<1> SUFFICES ASSUME TypeOK, TypeOK', TokensConserved, [Next]_vars
             PROVE  TokensConserved'
  OBVIOUS
<1>1. CASE UNCHANGED tokens
  BY <1>1 DEF TokensConserved, Total
<1>2. ASSUME NEW from \in Accounts, NEW to \in Accounts, NEW n \in Int,
             tokens' = Moved(tokens, from, to, n)
      PROVE  TokensConserved'
  <2>1. tokens \in [Accounts -> Int]
    BY DEF TypeOK
  <2>2. Total(Moved(tokens, from, to, n)) = Total(tokens)
    BY <2>1, MovedTotal
  <2>3. Total(tokens') = Total(InitialTokens)
    BY <1>2, <2>2 DEF TokensConserved
  <2>4. QED
    BY <2>3, Zenon DEF TokensConserved, Total
<1>3. (\A a \in Amounts : a \in Int) /\ LpVault \in Accounts /\ TraderVault \in Accounts
      /\ Lps \cup Traders \cup Keepers \cup {Admin} \subseteq Accounts
  BY ModelInputs DEF Accounts, Holders, Vaults
<1>p. \A role \in Holders \cup {LpVault} : PassedAs[role] \subseteq Accounts
  BY PassedIsAccount
<1>4. CASE LpStep
  <2>1. PICK lp \in Lps, a \in Amounts :
          \E own \in PassedAs[lp], vault \in PassedAs[LpVault] :
            lp_deposit(lp, a, own, vault) \/ lp_withdraw(lp, a, own, vault)
    BY <1>4 DEF LpStep
  <2>2. PICK own \in PassedAs[lp], vault \in PassedAs[LpVault] :
          lp_deposit(lp, a, own, vault) \/ lp_withdraw(lp, a, own, vault)
    BY <2>1
  <2>3. own \in Accounts /\ vault \in Accounts
    BY <1>p DEF Holders
  <2>4. CASE lp_deposit(lp, a, own, vault)
    BY <1>2, <1>3, <2>3, <2>4 DEF lp_deposit, token_transfer
  <2>5. CASE lp_withdraw(lp, a, own, vault)
    <3> DEFINE n == AmountRedeemed(a)
    <3>1. tokens' = Moved(tokens, vault, own, n) /\ n \in U64
      BY <2>5 DEF lp_withdraw, vault_token_transfer, SafeMulDiv, AmountRedeemed
    <3> HIDE DEF n
    <3>2. n \in Int
      BY <3>1, ParametersAreNat DEF U64
    <3>3. QED
      BY <1>2, <2>3, <3>1, <3>2
  <2>6. QED
    BY <2>2, <2>4, <2>5
<1>5. CASE TraderStep
  <2>1. PICK tr \in Traders, a \in Amounts :
          \E own \in PassedAs[tr] :
            trader_deposit(tr, a, own) \/ trader_withdraw(tr, a, own)
    BY <1>5 DEF TraderStep
  <2>2. PICK own \in PassedAs[tr] :
          trader_deposit(tr, a, own) \/ trader_withdraw(tr, a, own)
    BY <2>1
  <2>3. own \in Accounts
    BY <1>p DEF Holders
  <2>4. CASE trader_deposit(tr, a, own)
    BY <1>2, <1>3, <2>3, <2>4 DEF trader_deposit, token_transfer
  <2>5. CASE trader_withdraw(tr, a, own)
    BY <1>2, <1>3, <2>3, <2>5 DEF trader_withdraw, vault_token_transfer
  <2>6. QED
    BY <2>2, <2>4, <2>5
<1>6. CASE KeeperStep
  <2>1. ASSUME NEW k \in Keepers, NEW b \in Batches, NEW own \in PassedAs[k],
               NEW vault \in PassedAs[LpVault], verify_and_settle(k, b, own, vault)
        PROVE  TokensConserved'
    <3> DEFINE p == proof[b]
               net == NetMoved(p, vault)
    <3>1. p \in Outputs /\ SettleTokens(p, own, vault)
      BY <2>1 DEF TypeOK, verify_and_settle, SettlementAccepted, ProofVerifies
    <3>2. p.keeper_fee \in Int /\ p.net_payout \in Int
      BY <3>1, OutputFields, ParametersAreNat DEF U64
    <3>3. own \in Accounts /\ vault \in Accounts
      BY <1>p DEF Holders
    <3> HIDE DEF p
    <3>4. net \in [Accounts -> Int] /\ Total(net) = Total(tokens)
      <4>1. tokens \in [Accounts -> Int]
        BY DEF TypeOK
      <4>2. /\ Moved(tokens, vault, TraderVault, p.net_payout) \in [Accounts -> Int]
            /\ Total(Moved(tokens, vault, TraderVault, p.net_payout)) = Total(tokens)
        <5>1. TraderVault \in Accounts
          BY <1>3
        <5> QED BY <3>2, <3>3, <4>1, <5>1, MovedTotal
      <4>3. QED
        BY <4>2 DEF NetMoved
    <3>5. tokens' = Moved(net, vault, own, p.keeper_fee)
      BY <3>1 DEF SettleTokens
    <3> HIDE DEF net
    <3>6. Total(Moved(net, vault, own, p.keeper_fee)) = Total(net)
      BY <3>2, <3>3, <3>4, MovedTotal
    <3>7. Total(tokens') = Total(InitialTokens)
      BY <3>4, <3>5, <3>6 DEF TokensConserved
    <3>8. QED
      BY <3>7, Zenon DEF TokensConserved, Total
  <2>2. QED
    BY <1>1, <1>6, <2>1 DEF KeeperStep, AcceptTrade, ReleaseTrade, lock_margin,
       unlock_margin, update_market, tokenVars
<1>7. CASE AdminStep
  <2>1. ASSUME NEW a \in Amounts, NEW own \in PassedAs[Admin],
               NEW vault \in PassedAs[LpVault],
               withdraw_protocol_fees(Admin, a, own, vault)
        PROVE  TokensConserved'
    <3>1. own \in Accounts /\ vault \in Accounts
      BY <1>p DEF Holders
    <3>2. QED
      BY <1>2, <1>3, <2>1, <3>1 DEF withdraw_protocol_fees, vault_token_transfer
  <2>2. QED
    BY <1>1, <1>7, <2>1 DEF AdminStep, admin_init, rotate_keeper, pause, unpause,
       set_paused, init_market, tokenVars
<1>8. CASE ClaimStep \/ EnvironmentStep \/ UNCHANGED vars
  BY <1>1, <1>8 DEF ClaimStep, distribute_winnings, EnvironmentStep, Tick, Prove,
     PriceAccountsChange, CloseWindow, vars, tokenVars
<1>9. QED
  BY <1>4, <1>5, <1>6, <1>7, <1>8 DEF Next

\* Whatever is called in whatever order, with whatever token accounts, the
\* tokens of all accounts are those of the mint (lp.rs, trade.rs,
\* admin.rs:36-58 and 269-308).
THEOREM TokensCorrect == Spec => []TokensConserved
<1>1. Init => TokensConserved
  <2>1. SUFFICES ASSUME Init PROVE TokensConserved
    OBVIOUS
  <2>2. /\ tokens \in [Accounts -> Int] /\ InitialTokens \in [Holders -> Int]
        /\ \A x \in Holders : InitialTokens[x] \in Int /\ tokens[x] = InitialTokens[x]
        /\ \A x \in Accounts \ Holders : tokens[x] = 0
    BY <2>1, ModelInputs, ParametersAreNat, FiniteAccounts DEF Init, U64
  <2>3. IsFiniteSet(Accounts) /\ Holders \in SUBSET Accounts
    BY FiniteAccounts
  <2>4. SumFunctionOnSet(InitialTokens, Holders) = SumFunctionOnSet(tokens, Accounts)
    BY <2>2, <2>3, SumOfPart
  <2>5. /\ Total(InitialTokens) = SumFunctionOnSet(InitialTokens, Holders)
        /\ Total(tokens) = SumFunctionOnSet(tokens, Accounts)
    BY <2>2, TotalIs
  <2> QED
    BY <2>4, <2>5 DEF TokensConserved
<1>2. QED
  BY <1>1, StepTokens, TypeCorrect, PTL DEF Spec

\* Every nullifier on chain is that of a batch with a receipt.
NullifiersSettled == \A n \in nullifier : n[1] \in Batches /\ Settled(n[1])

\* A proof is of its batch, on terms that exist, and its pool pays net and fee.
ProofsStand ==
  \A b \in Batches : proof[b] # NoProof =>
    LET p == proof[b] IN
    /\ p.nullifier_hash[1] = b
    /\ p.market_max_multiplier > 0
    /\ p.pool_balance_before - p.net_payout \in U64
    /\ p.pool_balance_after = p.pool_balance_before - p.net_payout - p.keeper_fee

\* What a fresh proof needs besides the books.
FreshInv == NullifiersSettled /\ ProofsStand

\* A settlement creates both accounts of its batch.
LEMMA SettleNullifiers ==
  ASSUME TypeOK, FreshInv, NEW k \in Keepers, NEW b \in Batches, NEW own, NEW vault,
         verify_and_settle(k, b, own, vault)
  PROVE  NullifiersSettled'
<1> DEFINE p == proof[b]
<1>1. /\ p # NoProof /\ nullifier' = nullifier \cup {p.nullifier_hash}
      /\ receipt' = [receipt EXCEPT ![b] =
                       [settled_at |-> now, keeper_pubkey |-> k, outputs |-> p]]
  BY DEF verify_and_settle, SettlementAccepted, ProofVerifies
<1>2. p.nullifier_hash[1] = b
  BY <1>1 DEF FreshInv, ProofsStand
<1>3. p \in Outputs /\ k \in Keepers /\ now \in Nat
  BY <1>1 DEF TypeOK
<1>4. Settled(b)'
  BY <1>1, <1>3, ReceiptsDiffer DEF Settled, TypeOK, Receipts
<1>5. \A c \in Batches : Settled(c) => Settled(c)'
  BY <1>1, <1>4 DEF Settled, TypeOK
<1>6. QED
  BY <1>1, <1>2, <1>4, <1>5 DEF FreshInv, NullifiersSettled

\* The guest accepts a batch with a trade within the cap, and a pool that pays.
LEMMA ProveStands ==
  ASSUME TypeOK, ProofsStand, NEW b \in Batches, Prove(b)
  PROVE  ProofsStand'
<1> DEFINE p == PublicOutputs(b)
           T == BatchTrades(b)
           net == NetPayout(T)
<1>1. proof' = [proof EXCEPT ![b] = p] /\ GuestAccepts(b)
  BY DEF Prove
<1>2. /\ p.nullifier_hash[1] = b
      /\ p.market_max_multiplier = max_multiplier[BatchMarket[b]]
      /\ p.pool_balance_before = lp_total_deposited
      /\ p.net_payout = net
      /\ p.pool_balance_after = lp_total_deposited - net - KeeperFee(net)
      /\ p.keeper_fee = KeeperFee(net)
  BY DEF PublicOutputs
<1>3. p.market_max_multiplier > 0
  <2>1. PICK t \in T : Multiplier[t] \in
                         MIN_TRADE_MULTIPLIER_BPS .. max_multiplier[BatchMarket[b]]
    BY <1>1 DEF GuestAccepts
  <2>2. max_multiplier[BatchMarket[b]] \in Nat
    BY TradesWellFormed DEF TypeOK
  <2>3. QED
    BY <1>2, <2>1, <2>2 DEF MIN_TRADE_MULTIPLIER_BPS
<1>4. lp_total_deposited - net \in U64
  BY <1>1 DEF GuestAccepts
<1> HIDE DEF p, net, T
<1>5. QED
  BY <1>1, <1>2, <1>3, <1>4 DEF ProofsStand, TypeOK

\* No step breaks what is known of nullifiers and proofs.
LEMMA StepFresh == TypeOK /\ FreshInv /\ [Next]_vars => FreshInv'
<1> SUFFICES ASSUME TypeOK, FreshInv, [Next]_vars PROVE FreshInv'
  OBVIOUS
<1>1. CASE UNCHANGED <<nullifier, receipt, proof>>
  BY <1>1 DEF FreshInv, NullifiersSettled, ProofsStand, Settled
<1>2. ASSUME UNCHANGED <<nullifier, receipt>> PROVE NullifiersSettled'
  BY <1>2 DEF FreshInv, NullifiersSettled, Settled
<1>3. ASSUME UNCHANGED proof PROVE ProofsStand'
  BY <1>3 DEF FreshInv, ProofsStand
<1>4. ASSUME NEW k \in Keepers, NEW b \in Batches, NEW own, NEW vault,
         verify_and_settle(k, b, own, vault)
      PROVE  FreshInv'
  <2>1. UNCHANGED proof
    BY <1>4 DEF verify_and_settle, envVars, proofVars
  <2>2. QED
    BY <1>3, <1>4, <2>1, SettleNullifiers DEF FreshInv
<1>5. ASSUME NEW b \in Batches, Prove(b)
      PROVE  FreshInv'
  <2>1. UNCHANGED <<nullifier, receipt>>
    BY <1>5 DEF Prove, settleVars
  <2>2. QED
    BY <1>2, <1>5, <2>1, ProveStands DEF FreshInv
<1>6. CASE LpStep \/ TraderStep \/ AdminStep \/ ClaimStep \/ UNCHANGED vars
  <2>1. UNCHANGED <<nullifier, receipt, proof>>
    BY <1>6 DEF LpStep, TraderStep, AdminStep, ClaimStep, vars, lp_deposit,
       lp_withdraw, trader_deposit, trader_withdraw, admin_init, rotate_keeper, pause,
       unpause, set_paused, init_market, withdraw_protocol_fees, distribute_winnings,
       envVars, proofVars, settleVars
  <2>2. QED
    BY <1>1, <2>1
<1>7. CASE KeeperStep
  BY <1>1, <1>4, <1>7 DEF KeeperStep, AcceptTrade, ReleaseTrade, lock_margin,
     unlock_margin, update_market, envVars, proofVars, settleVars
<1>8. CASE EnvironmentStep
  BY <1>1, <1>5, <1>8 DEF EnvironmentStep, Tick, PriceAccountsChange, CloseWindow,
     proofVars, settleVars
<1>9. QED
  BY <1>6, <1>7, <1>8 DEF Next

\* What the pool gains from a batch that is not settled, the trader vault holds:
\* it is part of the stakes at risk, which the vault covers besides the rest.
LEMMA GainIsHeld ==
  ASSUME TypeOK, TraderVaultCovers, released = {}, LockedWithinBalance,
         NEW b \in Batches, ~Settled(b)
  PROVE  NetPayout(BatchTrades(b)) \in Int /\ -NetPayout(BatchTrades(b)) <= tokens[TraderVault]
<1> DEFINE T == BatchTrades(b)
           free == [tr \in Traders |-> Withdrawable(tr)]
<1>1. /\ T \in SUBSET Trades /\ T \in SUBSET Unsettled /\ Unsettled \in SUBSET Trades
      /\ Pending \in SUBSET Trades
  BY DEF BatchTrades, Unsettled, Pending, TypeOK
<1>2. /\ Payouts(T) \in Nat /\ Stakes(T) \in Nat /\ Stakes(Unsettled) \in Nat
      /\ Payouts(Pending) \in Nat /\ IsFiniteSet(Unsettled)
  BY <1>1, SumsAreNat
<1>3. Stakes(T) <= Stakes(Unsettled)
  <2>1. \A t \in Unsettled : Stake[t] \in Nat
    BY <1>1, TradeAmounts
  <2> HIDE DEF T
  <2>2. QED
    BY <1>1, <1>2, <2>1, SumPart DEF Stakes
<1>4. Stakes(released) = 0
  BY SumEmpty DEF Stakes
<1>5. Total(free) \in Nat
  <2>1. \A tr \in Traders : free[tr] \in Nat
    BY ParametersAreNat DEF Withdrawable, SaturatingSub, TypeOK, U64
  <2>2. Total(free) = SumFunctionOnSet(free, Traders)
    BY Zenon DEF Total, SumFunction
  <2> HIDE DEF free
  <2>3. QED
    BY <2>1, <2>2, AccountsAreFinite, SumNat
<1>6. NetPayout(T) = Payouts(T) - Stakes(T)
  BY <1>1, NetIsDifference
<1>7. tokens[TraderVault] + Stakes(released)
        >= Total(free) + Payouts(Pending) + Stakes(Unsettled)
  BY DEF TraderVaultCovers
<1> HIDE DEF T, free
<1>8. NetPayout(T) \in Int /\ -NetPayout(T) <= tokens[TraderVault]
  BY <1>2, <1>3, <1>4, <1>5, <1>6, <1>7 DEF TypeOK, Accounts, Vaults
<1>9. QED
  BY <1>8 DEF T

\* The two vaults together hold no more than a u64.
LEMMA VaultsFit ==
  ASSUME TypeOK, TokensConserved
  PROVE  tokens[LpVault] + tokens[TraderVault] <= U64_MAX
<1> DEFINE one == {LpVault}
           two == one \cup {TraderVault}
<1>1. /\ \A x \in Accounts : tokens[x] \in Nat /\ tokens[x] \in Int
      /\ LpVault \in Accounts /\ TraderVault \in Accounts /\ LpVault # TraderVault
  BY KeysDiffer DEF TypeOK, Accounts, Vaults
<1>2. IsFiniteSet(Accounts)
  BY FiniteAccounts
<1>3. Total(InitialTokens) <= U64_MAX
  BY MintSupply, ParametersAreNat DEF U64, Total
<1>4. Total(tokens) = SumFunctionOnSet(tokens, Accounts)
  BY TotalIs DEF TypeOK
<1>a. IsFiniteSet(one)
  BY FS_Singleton
<1>b. IsFiniteSet(two)
  BY <1>a, FS_AddElement
<1>5. /\ two \in SUBSET Accounts /\ IsFiniteSet(one) /\ IsFiniteSet(two)
      /\ TraderVault \in two /\ two \ {TraderVault} = one
      /\ LpVault \in one /\ one \ {LpVault} = {} /\ one \in SUBSET two
  BY <1>1, <1>a, <1>b
<1>6. \A x \in two : tokens[x] \in Int
  BY <1>1
<1> HIDE DEF one, two
<1>7. SumFunctionOnSet(tokens, two) = tokens[TraderVault] + SumFunctionOnSet(tokens, two \ {TraderVault})
  BY <1>5, <1>6, SumRemove
<1>8. SumFunctionOnSet(tokens, one) = tokens[LpVault] + SumFunctionOnSet(tokens, one \ {LpVault})
  <2>1. \A x \in one : tokens[x] \in Int
    BY <1>5, <1>6
  <2> QED BY <1>5, <2>1, SumRemove
<1>9. SumFunctionOnSet(tokens, one \ {LpVault}) = 0
  BY <1>5, SumEmpty
<1>c. SumFunctionOnSet(tokens, two \ {TraderVault}) = SumFunctionOnSet(tokens, one)
  BY <1>5
<1>10. SumFunctionOnSet(tokens, two) = tokens[TraderVault] + tokens[LpVault]
  BY <1>1, <1>7, <1>8, <1>9, <1>c
<1>11. SumFunctionOnSet(tokens, two) <= SumFunctionOnSet(tokens, Accounts)
  BY <1>1, <1>2, <1>5, SumPart
<1>12. SumFunctionOnSet(tokens, Accounts) <= U64_MAX
  BY <1>3, <1>4 DEF TokensConserved
<1>13. SumFunctionOnSet(tokens, Accounts) \in Int
  BY <1>1, <1>2, SumInt
<1>14. QED
  BY <1>1, <1>10, <1>11, <1>12, <1>13, ParametersAreNat

\* Every proof of the chain as it is settles, for any number of traders, trades
\* and batches, whatever was deposited, withdrawn, claimed and settled before,
\* while the price accounts hold what it was made with: no other check refuses
\* it, and the tokens it moves are there.  So it is if the accounts passed are
\* the ones they stand for and the stakes told are true (admin.rs:125-358,
\* circuit/program/src/main.rs:184-293).
THEOREM FreshProofCorrect ==
  ASSUME OwnAccountsPassed, TrueStakesPassed
  PROVE  Spec => []FreshProofSettles
<1>1. TypeOK /\ BooksMatchTokens /\ NoLiability /\ TokensConserved /\ FreshInv
        /\ TraderVaultCovers /\ LockedWithinBalance => FreshProofSettles
  <2> SUFFICES ASSUME TypeOK, BooksMatchTokens, NoLiability, TokensConserved, FreshInv,
                      TraderVaultCovers, LockedWithinBalance,
                      NEW b \in Batches,
                      NotPaused, BatchDue, ~Settled(b), released = {},
                      proof[b] # NoProof, proof[b] = PublicOutputs(b),
                      CheckpointsMatch(b),
                      SafeAdd(accrued_protocol_fees, proof[b].protocol_fee),
                      HasAbs(proof[b].net_payout)
               PROVE  SettlementAccepted(keeper, b, LpVault)
    BY DEF FreshProofSettles
  <2> DEFINE p == proof[b]
             net == NetPayout(BatchTrades(b))
  <2>1. /\ p.market_regime_id = regime_id[BatchMarket[b]]
        /\ p.market_max_multiplier = max_multiplier[BatchMarket[b]]
        /\ p.pool_balance_before = lp_total_deposited
        /\ p.current_liability_before = current_liability
        /\ p.net_payout = net
    BY DEF PublicOutputs
  <2>2. /\ p.nullifier_hash[1] = b
        /\ p.market_max_multiplier > 0
        /\ lp_total_deposited - net \in U64
        /\ p.pool_balance_after = lp_total_deposited - net - p.keeper_fee
    BY <2>1 DEF FreshInv, ProofsStand
  <2>3. /\ p.market_max_multiplier \in U32
        /\ p.pool_balance_after \in U64 /\ p.keeper_fee \in U64 /\ p.protocol_fee \in U64
    BY DEF TypeOK, Outputs
  <2>4. BatchNotSettled(b, p)
    BY <2>2 DEF BatchNotSettled, Settled, FreshInv, NullifiersSettled
  <2>5. OutputsMatchChain(p, BatchMarket[b])
    BY <2>1, <2>2, <2>3, ParametersAreNat DEF OutputsMatchChain, U32
  <2>6. net \in Int /\ -net <= tokens[TraderVault]
    BY GainIsHeld
  <2>7. tokens[LpVault] = lp_total_deposited /\ tokens[TraderVault] = trader_total_margin
        /\ tokens[LpVault] + tokens[TraderVault] <= U64_MAX
    BY VaultsFit DEF BooksMatchTokens
  <2>8. /\ lp_total_deposited \in Nat /\ trader_total_margin \in Nat
        /\ accrued_protocol_fees \in U64 /\ U64_MAX \in Nat
        /\ p.keeper_fee \in Nat
    BY <2>3, ParametersAreNat DEF TypeOK, U64
  <2> HIDE DEF net
  <2>9. trader_total_margin + net \in U64 /\ lp_total_deposited - net >= p.keeper_fee
    BY <2>2, <2>3, <2>6, <2>7, <2>8 DEF U64
  <2>10. SafeAdd(accrued_protocol_fees, FeesAccrued(p))
    BY <2>8 DEF SafeAdd, FeesAccrued, U64
  <2>11. current_liability = 0 /\ LiabilityAfter(p) = 0
         /\ SafeSub(current_liability, p.current_liability_before)
    BY <2>1, <2>8 DEF NoLiability, LiabilityAfter, SafeSub, U64
  <2>12. VaultFits(p)
    BY <2>1, <2>2, <2>9, <2>10, <2>11 DEF VaultFits
  <2>13. TokensSuffice(p, LpVault)
    <3>1. /\ tokens \in [Accounts -> Nat] /\ LpVault # TraderVault
          /\ LpVault \in Vaults /\ LpVault \in Accounts
      BY KeysDiffer DEF TypeOK, Accounts, Vaults
    <3>2. NetMoved(p, LpVault)[LpVault] = tokens[LpVault] - p.net_payout
      BY <3>1 DEF NetMoved, Moved
    <3>3. QED
      BY <2>1, <2>2, <2>6, <2>7, <2>8, <2>9, <3>1, <3>2 DEF TokensSuffice, U64
  <2>14. p.pool_balance_after = PoolAfter(p)
    BY <2>1, <2>2 DEF PoolAfter
  <2>15. CheckSolvency(PoolAfter(p), LiabilityAfter(p))
    BY <2>11 DEF CheckSolvency
  <2>16. QED
    BY <2>4, <2>5, <2>12, <2>13, <2>14, <2>15
    DEF SettlementAccepted, KeeperSigned, ProofVerifies
<1>2. Init => NoLiability /\ FreshInv
  BY DEF Init, NoLiability, FreshInv, NullifiersSettled, ProofsStand
<1>3. Spec => []NoLiability /\ []FreshInv
  BY <1>2, StepNoLiability, StepFresh, TypeCorrect, PTL DEF Spec
<1>4. QED
  BY <1>1, <1>3, BooksCorrect, TokensCorrect, VaultCoversCorrect, LockedCorrect,
     TypeCorrect, PTL

-----------------------------------------------------------------------------
\* The engine's prover admits what the guest accepts.

CONSTANTS MAX_DEVIATION_BPS, N_PYTH_CHECKPOINTS

Guest == INSTANCE SettlementGuest

\* The batch file's trades are those of the batch, in some order: of names them.
\* A trade wins in the file when the engine says so.
DescribesTrades(in, b, of) ==
  /\ of \in Bijection(DOMAIN in.trades, BatchTrades(b))
  /\ \A i \in DOMAIN in.trades :
       /\ in.trades[i].stake_usdt = Stake[of[i]]
       /\ in.trades[i].multiplier_bps = Multiplier[of[i]]
       /\ Guest!Won(in.trades[i], in) <=> of[i] \in winners

\* The chain state the keeper copied into it is the chain's.
DescribesChain(in, b) ==
  /\ in.pool_balance_before = lp_total_deposited
  /\ in.keeper_fee_bps = KEEPER_FEE_BPS
  /\ in.protocol_fee_bps = PROTOCOL_FEE_BPS
  /\ in.market_max_multiplier = max_multiplier[BatchMarket[b]]

IsBatchFile(in, b, of) ==
  /\ Guest!IsCircuitInputs(in)
  /\ in.market_max_multiplier \in U32
  /\ DescribesTrades(in, b, of)
  /\ DescribesChain(in, b)

\* The amounts that two sets of public outputs have in common.
SameAmounts(p, q) ==
  /\ p.pool_balance_before = q.pool_balance_before
  /\ p.pool_balance_after = q.pool_balance_after
  /\ p.net_payout = q.net_payout
  /\ p.keeper_fee = q.keeper_fee
  /\ p.protocol_fee = q.protocol_fee

\* A trade that multiplies its stake by at least one pays the stake back.
LEMMA StakeInPayout ==
  ASSUME NEW s \in Nat, NEW m \in Nat, m >= 10000
  PROVE  s <= MulDiv(s, m, 10000)
<1>1. m * s >= 10000 * s
  BY ProductMonotone
<1> DEFINE a == s * m
<1>2. a \in Nat /\ s * 10000 <= a
  BY <1>1
<1>3. MulDiv(s, m, 10000) = a \div 10000
  BY DEF MulDiv
<1> HIDE DEF a
<1>4. s <= a \div 10000
  BY <1>2
<1> QED BY <1>3, <1>4

\* What one trade of a batch file comes to is what the engine says it comes to.
LEMMA TradeOfFile ==
  ASSUME TypeOK, NEW b \in Batches, NEW in, NEW of, IsBatchFile(in, b, of),
         NEW i \in DOMAIN in.trades,
         Guest!TradeAccepted(in.trades[i], in),
         Guest!GrossPayout(in.trades[i]) <= I64_MAX
  PROVE  /\ of[i] \in BatchTrades(b) /\ of[i] \in Trades
         /\ Guest!TradePayout(in.trades[i], in) = Payout(of[i])
         /\ Guest!NetOf(in.trades[i], in) = Payout(of[i]) - Stake[of[i]]
         /\ Payout(of[i]) \in U64
         /\ Multiplier[of[i]] \in MIN_TRADE_MULTIPLIER_BPS .. max_multiplier[BatchMarket[b]]
<1> DEFINE t == in.trades[i]
           s == Stake[of[i]]
           m == Multiplier[of[i]]
           gross == MaxPayout(of[i])
<1>1. of[i] \in BatchTrades(b)
  BY DEF IsBatchFile, DescribesTrades, Bijection, Injection
<1>2. of[i] \in Trades
  BY <1>1 DEF BatchTrades, TypeOK
<1>3. t.stake_usdt = s /\ t.multiplier_bps = m
  BY DEF IsBatchFile, DescribesTrades
<1>4. Guest!Won(t, in) <=> of[i] \in winners
  BY Zenon DEF IsBatchFile, DescribesTrades
<1>5. Guest!GrossPayout(t) = gross
  BY <1>3 DEF Guest!GrossPayout, MaxPayout, MulDiv
<1>6. m \in MIN_TRADE_MULTIPLIER_BPS .. max_multiplier[BatchMarket[b]]
  BY <1>3 DEF Guest!TradeAccepted, IsBatchFile, DescribesChain
<1>7. s \in Nat /\ m \in Nat /\ m >= 10000
  BY <1>2, <1>6, TradesWellFormed DEF MIN_TRADE_MULTIPLIER_BPS
<1>8. gross \in U64 /\ gross \in Nat /\ gross <= I64_MAX
  BY <1>5, ParametersAreNat DEF Guest!TradeAccepted, Guest!U64, U64
<1>9. s <= gross
  BY <1>7, StakeInPayout DEF MaxPayout, BPS_DENOMINATOR
<1>10. I64_MAX \in Nat /\ 0 \in U64
  BY ParametersAreNat DEF I64_MAX, U64
<1> HIDE DEF t, s, m, gross
<1>11. CASE of[i] \in winners
  <2>1. Guest!TradePayout(t, in) = gross /\ Guest!NetOf(t, in) = Guest!AsI64(gross - s)
    BY <1>3, <1>4, <1>5, <1>11 DEF Guest!TradePayout, Guest!NetOf
  <2>2. Payout(of[i]) = gross
    BY <1>11 DEF Payout, gross
  <2>3. Guest!AsI64(gross - s) = gross - s
    BY <1>7, <1>8, <1>9, <1>10 DEF Guest!AsI64
  <2> QED BY <1>1, <1>2, <1>6, <1>8, <2>1, <2>2, <2>3 DEF t, s, m
<1>12. CASE of[i] \notin winners
  <2>1. Guest!TradePayout(t, in) = 0 /\ Guest!NetOf(t, in) = -Guest!AsI64(s)
    BY <1>3, <1>4, <1>12 DEF Guest!TradePayout, Guest!NetOf
  <2>2. Payout(of[i]) = 0
    BY <1>12 DEF Payout
  <2>3. Guest!AsI64(s) = s
    BY <1>7, <1>8, <1>9, <1>10 DEF Guest!AsI64
  <2>4. -Guest!AsI64(s) = 0 - s
    BY <1>7, <2>3
  <2> QED BY <1>1, <1>2, <1>6, <1>10, <2>1, <2>2, <2>4 DEF t, s, m
<1> QED BY <1>11, <1>12

\* The guest's sums are the sums of the facts above.
LEMMA GuestSum ==
  ASSUME NEW f
  PROVE  Guest!SumFunction(f) = SumFunctionOnSet(f, DOMAIN f)
BY DEF Guest!SumFunction, Guest!SumFunctionOnSet, Guest!FoldFunctionOnSet,
       Guest!MapThenFoldSet, SumFunctionOnSet, FoldFunctionOnSet, MapThenFoldSet

\* Adding the trades up in the order of the file gives the sums of the batch.
LEMMA SumsOfFile ==
  ASSUME TypeOK, NEW b \in Batches, NEW in, NEW of, IsBatchFile(in, b, of),
         \A i \in DOMAIN in.trades :
           Guest!TradeAccepted(in.trades[i], in) /\ Guest!GrossPayout(in.trades[i]) <= I64_MAX
  PROVE  /\ Guest!net_payout(in) = NetPayout(BatchTrades(b))
         /\ Guest!total_winners_payout(in) = Payouts(BatchTrades(b))
<1> DEFINE D == DOMAIN in.trades
           T == BatchTrades(b)
           nets == [i \in D |-> Guest!NetOf(in.trades[i], in)]
           pays == [i \in D |-> Guest!TradePayout(in.trades[i], in)]
           net == [t \in Trades |-> Payout(t) - Stake[t]]
           pay == [t \in Trades |-> Payout(t)]
<1>1. IsFiniteSet(T)
  <2>1. T \subseteq Trades
    BY DEF BatchTrades, TypeOK
  <2> HIDE DEF T
  <2> QED BY <2>1, AccountsAreFinite, FS_Subset
<1>2. IsFiniteSet(D)
  <2>1. in.trades \in Seq(Guest!TradeRecord)
    BY DEF IsBatchFile, Guest!IsCircuitInputs
  <2>2. D = 1..Len(in.trades) /\ Len(in.trades) \in Nat
    BY <2>1
  <2> HIDE DEF D
  <2> QED BY <2>2, FS_Interval
<1>3. of \in Bijection(D, T)
  BY DEF IsBatchFile, DescribesTrades
<1>4. ASSUME NEW i \in D
      PROVE  /\ net[of[i]] \in Int /\ nets[i] = net[of[i]]
             /\ pay[of[i]] \in Int /\ pays[i] = pay[of[i]]
  <2>1. /\ of[i] \in Trades
        /\ Guest!TradePayout(in.trades[i], in) = Payout(of[i])
        /\ Guest!NetOf(in.trades[i], in) = Payout(of[i]) - Stake[of[i]]
        /\ Payout(of[i]) \in U64
    BY TradeOfFile
  <2>2. Stake[of[i]] \in Int /\ Payout(of[i]) \in Int
    BY <2>1, TradesWellFormed, ParametersAreNat DEF U64
  <2> QED BY <2>1, <2>2
<1>5. /\ Guest!net_payout(in) = Guest!SumFunction(nets)
      /\ Guest!total_winners_payout(in) = Guest!SumFunction(pays)
  BY DEF Guest!net_payout, Guest!total_winners_payout, Guest!Total
<1>6. /\ Guest!SumFunction(nets) = SumFunctionOnSet(nets, D)
      /\ Guest!SumFunction(pays) = SumFunctionOnSet(pays, D)
  <2>1. DOMAIN nets = D /\ DOMAIN pays = D
    OBVIOUS
  <2> HIDE DEF nets, pays, D
  <2> QED BY <2>1, GuestSum
<1>7. NetPayout(T) = SumFunctionOnSet(net, T) /\ Payouts(T) = SumFunctionOnSet(pay, T)
  BY DEF NetPayout, Payouts
<1> HIDE DEF D, T, nets, pays, net, pay
<1>8. SumFunctionOnSet(nets, D) = SumFunctionOnSet(net, T)
  BY <1>1, <1>2, <1>3, <1>4, SumRenamed
<1>9. SumFunctionOnSet(pays, D) = SumFunctionOnSet(pay, T)
  BY <1>1, <1>2, <1>3, <1>4, SumRenamed
<1> QED BY <1>5, <1>6, <1>7, <1>8, <1>9 DEF T

\* What the guest accepts of a file that describes a batch, the engine's prover
\* proves, and both compute the same outputs (circuit/program/src/main.rs:144-302):
\* the engine's model leaves out no proof the real guest could make, up to the
\* casts of main.rs:229-236, which wrap from 2^63 on.
THEOREM GuestWithinProver ==
  ASSUME TypeOK, NEW b \in Batches, NEW in, NEW of, IsBatchFile(in, b, of),
         Guest!GuestAccepts(in),
         \A i \in DOMAIN in.trades : Guest!GrossPayout(in.trades[i]) <= I64_MAX
  PROVE  /\ GuestAccepts(b)
         /\ SameAmounts(Guest!PublicOutputs(in), PublicOutputs(b))
         /\ Guest!PublicOutputs(in).total_winners_payout = Payouts(BatchTrades(b))
         /\ \A i \in DOMAIN in.trades :
              Guest!TradePayout(in.trades[i], in) = PublicOutputs(b).payouts_commitment[of[i]]
<1> DEFINE T == BatchTrades(b)
           net == NetPayout(T)
           mt == max_multiplier[BatchMarket[b]]
<1>1. Guest!HostAccepts(in)
  BY DEF Guest!GuestAccepts
<1>2. \A i \in DOMAIN in.trades : Guest!TradeAccepted(in.trades[i], in)
  BY <1>1 DEF Guest!HostAccepts
<1>3. Guest!net_payout(in) = net /\ Guest!total_winners_payout(in) = Payouts(T)
  BY <1>2, SumsOfFile
<1>4. \A i \in DOMAIN in.trades :
        /\ of[i] \in T
        /\ Guest!TradePayout(in.trades[i], in) = Payout(of[i])
        /\ Payout(of[i]) \in U64
        /\ Multiplier[of[i]] \in MIN_TRADE_MULTIPLIER_BPS .. mt
  BY <1>2, TradeOfFile
<1>5. \A t \in T : \E i \in DOMAIN in.trades : of[i] = t
  BY DEF IsBatchFile, DescribesTrades, Bijection, Surjection
<1>6. T \subseteq Trades
  BY DEF BatchTrades, TypeOK
<1>7. net \in I64 /\ Guest!HostAccepts(in)
  <2>1. in.trades \in Seq(Guest!TradeRecord) /\ in.trades # <<>>
    BY <1>1 DEF IsBatchFile, Guest!IsCircuitInputs, Guest!HostAccepts
  <2> DEFINE n == Len(in.trades)
             whole == [in EXCEPT !.trades = SubSeq(@, 1, n)]
  <2>2. n \in DOMAIN in.trades
    BY <2>1
  <2>3. SubSeq(in.trades, 1, n) = in.trades
    BY <2>1
  <2>4. whole = in
    <3>1. whole = [in EXCEPT !.trades = in.trades]
      BY <2>3
    <3>2. [in EXCEPT !.trades = in.trades] = in
      BY DEF IsBatchFile, Guest!IsCircuitInputs
    <3> QED BY <3>1, <3>2
  <2>5. Guest!net_payout(whole) \in Guest!I64
    BY <1>1, <2>2 DEF Guest!HostAccepts, Guest!AccumulatorsFit
  <2> HIDE DEF whole, n
  <2>6. Guest!net_payout(in) \in Guest!I64
    BY <2>4, <2>5
  <2> QED BY <1>1, <1>3, <2>6 DEF Guest!I64, I64
<1>8. net \in Int /\ lp_total_deposited \in Int
  BY <1>7, ParametersAreNat DEF TypeOK, U64, I64, I64_MAX
<1>9. /\ in.pool_balance_before = lp_total_deposited
      /\ in.keeper_fee_bps = KEEPER_FEE_BPS
      /\ in.protocol_fee_bps = PROTOCOL_FEE_BPS
      /\ mt \in U32
  BY DEF IsBatchFile, DescribesChain
<1> HIDE DEF net, mt
<1>10. Guest!keeper_fee(in) = KeeperFee(net)
  <2>1. Guest!Distance(net, 0) = Magnitude(net)
    BY <1>8 DEF Guest!Distance, Magnitude
  <2> QED BY <1>3, <1>9, <2>1 DEF Guest!keeper_fee, Guest!PartOf, KeeperFee, MulDiv
<1>11. Guest!protocol_fee(in) = ProtocolFee(net)
  <2>1. net < 0 => -net = Magnitude(net)
    BY <1>8 DEF Magnitude
  <2> QED BY <1>3, <1>9, <2>1 DEF Guest!protocol_fee, Guest!PartOf, ProtocolFee, MulDiv
<1>12. Guest!BeforeKeeperFee(in) = lp_total_deposited - net
  BY <1>3, <1>9 DEF Guest!BeforeKeeperFee
<1>13. Guest!pool_balance_after(in) = lp_total_deposited - net - KeeperFee(net)
  BY <1>10, <1>12 DEF Guest!pool_balance_after
<1>14. /\ KeeperFee(net) \in U64
       /\ ProtocolFee(net) \in U64
       /\ lp_total_deposited - net \in U64
       /\ lp_total_deposited - net - KeeperFee(net) \in U64
  BY <1>1, <1>10, <1>11, <1>12, <1>13 DEF Guest!HostAccepts, Guest!PoolFits, Guest!U64, U64
<1> DEFINE p == PublicOutputs(b)
<1>15. p = [market_regime_id         |-> regime_id[BatchMarket[b]],
            market_max_multiplier    |-> mt,
            pool_balance_before      |-> lp_total_deposited,
            pool_balance_after       |-> lp_total_deposited - net - KeeperFee(net),
            current_liability_before |-> current_liability,
            net_payout               |-> net,
            keeper_fee               |-> KeeperFee(net),
            protocol_fee             |-> ProtocolFee(net),
            payouts_commitment       |-> [t \in T |-> Payout(t)],
            nullifier_hash           |-> <<b, T>>]
  BY DEF PublicOutputs, net, mt
<1> HIDE DEF p, T
<1>16. \A t \in T : Payout(t) \in U64 /\ Multiplier[t] \in MIN_TRADE_MULTIPLIER_BPS .. mt
  BY <1>4, <1>5 DEF T, mt
<1>17. p \in Outputs
  <2>1. [t \in T |-> Payout(t)] \in PayoutMaps
    <3>1. [t \in T |-> Payout(t)] \in [T -> U64]
      BY <1>16
    <3> QED BY <1>6, <3>1, Zenon DEF PayoutMaps, T
  <2>2. regime_id[BatchMarket[b]] \in Nat
    BY TradesWellFormed DEF TypeOK
  <2>3. <<b, T>> \in Batches \X SUBSET Trades
    BY <1>6 DEF T
  <2>4. lp_total_deposited \in U64 /\ current_liability \in U64
    BY DEF TypeOK
  <2> QED BY <1>7, <1>9, <1>14, <1>15, <2>1, <2>2, <2>3, <2>4 DEF Outputs
<1>18. GuestAccepts(b)
  <2>1. T # {}
    <3>1. \E i \in DOMAIN in.trades : TRUE
      BY <1>1 DEF Guest!HostAccepts, IsBatchFile, Guest!IsCircuitInputs
    <3> QED BY <1>4, <3>1 DEF T
  <2> QED BY <1>14, <1>16, <1>17, <2>1 DEF GuestAccepts, T, net, mt, p
<1>19. SameAmounts(Guest!PublicOutputs(in), p)
  <2>1. /\ p.pool_balance_before = lp_total_deposited
        /\ p.pool_balance_after = lp_total_deposited - net - KeeperFee(net)
        /\ p.net_payout = net
        /\ p.keeper_fee = KeeperFee(net)
        /\ p.protocol_fee = ProtocolFee(net)
    BY <1>15
  <2> DEFINE q == Guest!PublicOutputs(in)
  <2>2. /\ q.pool_balance_before = in.pool_balance_before
        /\ q.pool_balance_after = Guest!pool_balance_after(in)
        /\ q.net_payout = Guest!net_payout(in)
        /\ q.keeper_fee = Guest!keeper_fee(in)
        /\ q.protocol_fee = Guest!protocol_fee(in)
    BY DEF Guest!PublicOutputs
  <2> HIDE DEF q
  <2>3. SameAmounts(q, p)
    BY <1>3, <1>9, <1>10, <1>11, <1>13, <2>1, <2>2 DEF SameAmounts
  <2> QED BY <2>3 DEF q
<1>20. Guest!PublicOutputs(in).total_winners_payout = Payouts(BatchTrades(b))
  BY <1>3 DEF Guest!PublicOutputs, T
<1>21. ASSUME NEW i \in DOMAIN in.trades
       PROVE  Guest!TradePayout(in.trades[i], in) = p.payouts_commitment[of[i]]
  BY <1>4, <1>15
<1> QED BY <1>18, <1>19, <1>20, <1>21 DEF p

=============================================================================
