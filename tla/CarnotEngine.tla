---------------------------- MODULE CarnotEngine ----------------------------
(***************************************************************************)
(* The settlement engine at work: the program's instructions, called by    *)
(* LPs, traders, the keeper, the admin and claimers in any order, composed *)
(* with what happens around it: the clock, the acceptance of off-chain     *)
(* trades (each locks its stake), the end of a window, and proving.        *)
(***************************************************************************)
EXTENDS EngineLp, EngineTrade, EngineMarket, EngineAdmin, Prover

CONSTANTS
  PassedAs,        \* accounts passed as a caller's own and as LpVault
  StakesPassed,    \* stakes distribute_winnings may be told of a trade
  InitialTokens,   \* what everybody's token account holds at the start
  Amounts,         \* amounts and share counts callers pass
  Regimes,         \* regime ids market updates carry
  MultiplierCaps,  \* max_multiplier values market updates carry
  PauseCalls,      \* TRUE: the admin may pause; FALSE: and unpause
  Releasable,      \* trades the keeper may explicitly unlock before settlement
  Overwritable,    \* batches whose price accounts may be written again or closed
  MaxTime          \* bound of the clock

\* The mint's supply is a u64.
ASSUME MintSupply == IsFiniteSet(Holders) /\ SumFunction(InitialTokens) \in U64

ASSUME ModelInputs ==
  /\ PassedAs \in [Holders \cup {LpVault} -> SUBSET Accounts]
  /\ StakesPassed \in [Trades -> SUBSET Nat]
  /\ InitialTokens \in [Holders -> U64]
  /\ Amounts \subseteq Nat
  /\ Regimes \subseteq Nat
  /\ MultiplierCaps \subseteq Nat
  /\ PauseCalls \subseteq BOOLEAN
  /\ Releasable \subseteq Trades
  /\ Overwritable \subseteq Batches
  /\ MaxTime \in Nat

\* Two conditions the program leaves to those who build its transactions.
\* Every token account an instruction is given is the one it stands for:
OwnAccountsPassed == \A role \in DOMAIN PassedAs : PassedAs[role] \subseteq {role}

\* distribute_winnings is told the stake the trade was accepted at:
TrueStakesPassed == \A t \in Trades : StakesPassed[t] \subseteq {Stake[t]}

Init ==
  /\ keeper = NoKey /\ paused = FALSE /\ last_batch_at = 0
  /\ regime_id = [m \in Markets |-> 0]
  /\ max_multiplier = [m \in Markets |-> 0]
  /\ last_updated = [m \in Markets |-> 0]
  /\ total_lp_shares = 0 /\ lp_total_deposited = 0 /\ trader_total_margin = 0
  /\ current_liability = 0 /\ solvency_ratio_bps = 0 /\ accrued_protocol_fees = 0
  /\ lp_shares = [lp \in Lps |-> 0]
  /\ last_deposit_at = [lp \in Lps |-> 0]
  /\ balance_usdt = [tr \in Traders |-> 0]
  /\ locked_usdt = [tr \in Traders |-> 0]
  /\ nullifier = {} /\ claim_receipt = {}
  /\ receipt = [b \in Batches |-> NoReceipt]
  /\ tokens = [a \in Accounts |-> IF a \in Holders THEN InitialTokens[a] ELSE 0]
  /\ now = Genesis
  /\ accepted = {} /\ released = {} /\ closed = {} /\ winners = {}
  /\ proof = [b \in Batches |-> NoProof] /\ posted = {}

-----------------------------------------------------------------------------
\* Around the program.

Tick ==
  /\ now < MaxTime
  /\ now' = now + 1
  /\ UNCHANGED <<tradeVars, proofVars, globalVars, marketVars, vaultVars, lpVars,
                 traderVars, settleVars, tokenVars>>

\* The keeper accepts an off-chain trade of a window still open, locking its
\* stake; a multiplier above the market's current cap is not quoted.
AcceptTrade(t) ==
  /\ t \notin accepted
  /\ TradeBatch[t] \notin closed
  /\ Multiplier[t] \in
       MIN_TRADE_MULTIPLIER_BPS .. max_multiplier[BatchMarket[TradeBatch[t]]]
  /\ lock_margin(keeper, TradeTrader[t], Stake[t])
  /\ accepted' = accepted \cup {t}
  /\ UNCHANGED <<now, released, closed, winners, proofVars>>

\* The explicit unlock_margin call distribute_winnings makes allowance for.
ReleaseTrade(t) ==
  /\ t \in (accepted \cap Releasable) \ (released \cup claim_receipt)
  /\ unlock_margin(keeper, TradeTrader[t], Stake[t])
  /\ released' = released \cup {t}
  /\ UNCHANGED <<now, accepted, closed, winners, proofVars>>

\* The window ends: no more trades, and the oracle's close fixes who has won.
CloseWindow(b, won) ==
  /\ b \notin closed
  /\ BatchTrades(b) # {}
  /\ won \subseteq BatchTrades(b)
  /\ closed' = closed \cup {b}
  /\ winners' = winners \cup won
  /\ UNCHANGED <<now, accepted, released, proofVars, globalVars, marketVars,
                 vaultVars, lpVars, traderVars, settleVars, tokenVars>>

\* The price accounts a proof names are not the program's: they may be written
\* again or closed before the proof is settled; then nobody looks at them.
PriceAccountsChange(b) ==
  /\ receipt[b] = NoReceipt
  /\ b \in posted \cap Overwritable
  /\ posted' = posted \ {b}
  /\ UNCHANGED <<now, tradeVars, proof, globalVars, marketVars, vaultVars, lpVars,
                 traderVars, settleVars, tokenVars>>

LpStep ==
  \E lp \in Lps, amount \in Amounts :
    \E own \in PassedAs[lp], vault \in PassedAs[LpVault] :
      lp_deposit(lp, amount, own, vault) \/ lp_withdraw(lp, amount, own, vault)

TraderStep ==
  \E tr \in Traders, amount \in Amounts :
    \E own \in PassedAs[tr] :
      trader_deposit(tr, amount, own) \/ trader_withdraw(tr, amount, own)

KeeperStep ==
  \/ \E t \in Trades : AcceptTrade(t) \/ ReleaseTrade(t)
  \/ \E m \in Markets, regime \in Regimes, cap \in MultiplierCaps :
       update_market(keeper, m, regime, cap)
  \/ \E k \in Keepers, b \in Batches :
       \E own \in PassedAs[k], vault \in PassedAs[LpVault] :
         verify_and_settle(k, b, own, vault)

AdminStep ==
  \/ \E k \in Keepers : admin_init(k) \/ rotate_keeper(Admin, k)
  \/ TRUE \in PauseCalls /\ pause(Admin)
  \/ FALSE \in PauseCalls /\ unpause(Admin)
  \/ \E m \in Markets, cap \in MultiplierCaps : init_market(Admin, m, 0, cap)
  \/ \E amount \in Amounts :
       \E own \in PassedAs[Admin], vault \in PassedAs[LpVault] :
         withdraw_protocol_fees(Admin, amount, own, vault)

ClaimStep ==
  \E b \in Batches, t \in Trades :
    \E stake \in StakesPassed[t] : distribute_winnings(b, t, stake)

EnvironmentStep ==
  \/ Tick
  \/ \E b \in Batches : Prove(b) \/ PriceAccountsChange(b)
  \/ \E b \in Batches, won \in SUBSET Trades : CloseWindow(b, won)

Next == LpStep \/ TraderStep \/ KeeperStep \/ AdminStep \/ ClaimStep \/ EnvironmentStep

Spec == Init /\ [][Next]_vars

-----------------------------------------------------------------------------
\* Type correctness.

\* BatchReceiptAccount, the fields settlement writes.
Receipts == [settled_at : Nat, keeper_pubkey : Keepers, outputs : Outputs]

\* "No account" is not the contents of one.
ASSUME ReceiptsDiffer == NoReceipt \notin Receipts

TypeOK ==
  /\ keeper \in Keepers \cup {NoKey}
  /\ paused \in BOOLEAN
  /\ last_batch_at \in Nat
  /\ regime_id \in [Markets -> Nat]
  /\ max_multiplier \in [Markets -> Nat]
  /\ last_updated \in [Markets -> Nat]
  /\ total_lp_shares \in U64
  /\ lp_total_deposited \in U64
  /\ trader_total_margin \in U64
  /\ current_liability \in U64
  /\ solvency_ratio_bps \in Nat
  /\ accrued_protocol_fees \in U64
  /\ lp_shares \in [Lps -> U64]
  /\ last_deposit_at \in [Lps -> Nat]
  /\ balance_usdt \in [Traders -> U64]
  /\ locked_usdt \in [Traders -> U64]
  /\ nullifier \subseteq Batches \X SUBSET Trades
  /\ receipt \in [Batches -> Receipts \cup {NoReceipt}]
  /\ claim_receipt \subseteq Trades
  /\ tokens \in [Accounts -> Nat]
  /\ now \in Nat
  /\ accepted \subseteq Trades
  /\ released \subseteq Trades
  /\ closed \subseteq Batches
  /\ winners \subseteq Trades
  /\ proof \in [Batches -> Outputs \cup {NoProof}]
  /\ posted \subseteq Batches

-----------------------------------------------------------------------------
\* Vocabulary of the properties.

Total(f) == SumFunction(f)

Stakes(T) == SumFunctionOnSet(Stake, T)
Payouts(T) == SumFunctionOnSet([t \in Trades |-> Payout(t)], T)

Of(tr, T) == {t \in T : TradeTrader[t] = tr}

Settled(b) == receipt[b] # NoReceipt

\* Accepted trades: not settled yet, or settled and waiting to be distributed.
Unsettled == {t \in accepted : ~Settled(TradeBatch[t])}
Pending   == {t \in accepted \ claim_receipt : Settled(TradeBatch[t])}

\* Trades whose stake is still supposed to be locked.
Open == accepted \ (claim_receipt \cup released)

-----------------------------------------------------------------------------
\* Safety.

\* The two pool totals the program keeps are the tokens its vaults hold: over
\* any sequence of deposits, withdrawals, settlements and fee withdrawals
\* every change of a total is matched by a transfer of the same amount
\* (lp.rs, trade.rs, admin.rs:36-58 and 241-313).  So it is as long as
\* OwnAccountsPassed: the totals change whichever accounts are passed.
BooksMatchTokens ==
  /\ tokens[LpVault] = lp_total_deposited
  /\ tokens[TraderVault] = trader_total_margin

\* The shares outstanding are exactly the shares the positions hold, so
\* redeeming every position is always possible (lp.rs:29-34 and 75-77).
SharesBacked == total_lp_shares = Total(lp_shares)

\* A trader's locked margin never exceeds his balance, although a distribution
\* lowers the balance, in any order with explicit unlocks and whatever stake
\* the distribution is told (trade.rs:70-103, admin.rs:102-112).
LockedWithinBalance == \A tr \in Traders : locked_usdt[tr] <= balance_usdt[tr]

\* The traders' margin is the sum of their balances plus the net result of
\* the trades that were settled and not distributed yet: settlement moves the
\* batch's net at once and distribution hands out the parts, each exactly
\* once (admin.rs:68-122 and 241-262).  It takes TrueStakesPassed: the net has
\* the proved stakes in it, the distribution the stake it is told.
MarginAccounted ==
  trader_total_margin
    = Total(balance_usdt) + Payouts(Pending) - Stakes(Pending)

\* "locked_usdt = sum of open trade stakes" (state.rs:13-14): what a trader
\* has locked is the stake of each trade he has open, a trade whose lock was
\* explicitly released not being counted any more.
LockedIsOpenStakes ==
  \A tr \in Traders : locked_usdt[tr] = Stakes(Of(tr, Open))

\* What the code does: an explicit release, whose stake distribution takes off
\* again, can only shorten the lock, by at most the stakes released and never
\* that of a trader who released nothing, as long as TrueStakesPassed
\* (trade.rs:88-103, admin.rs:111-112).
LockedUpToReleases ==
  \A tr \in Traders :
    LET open == Stakes(Of(tr, Open))
    IN  locked_usdt[tr] \in open - Stakes(Of(tr, released)) .. open

\* The trader vault covers at any moment everything it may be asked for: what
\* traders may withdraw, the unclaimed payouts of settled batches, and the
\* stakes at risk in batches to come; it lacks at most the stakes that were
\* released before their settlement (trade.rs:42-61, admin.rs:103-110).  It
\* takes OwnAccountsPassed and TrueStakesPassed.
TraderVaultCovers ==
  tokens[TraderVault] + Stakes(released)
    >= Total([tr \in Traders |-> Withdrawable(tr)]) + Payouts(Pending) + Stakes(Unsettled)

\* The distribution of a settled trade is never refused for lack of balance:
\* each trader still has the stakes of all his undistributed trades, whatever
\* he withdrew in the meantime, but for those that were released, as long as
\* no other distribution was told a larger stake: TrueStakesPassed
\* (admin.rs:103-106).
ClaimsPayable ==
  \A tr \in Traders :
    balance_usdt[tr] + Stakes(Of(tr, released)) >= Stakes(Of(tr, Pending))

\* Any two settlements, of whatever markets, are at least the configured
\* interval apart (admin.rs:156-160 and 345).
SettlementsSpaced ==
  \A b, c \in Batches :
    b # c /\ Settled(b) /\ Settled(c) =>
      \/ receipt[b].settled_at - receipt[c].settled_at >= MIN_BATCH_INTERVAL
      \/ receipt[c].settled_at - receipt[b].settled_at >= MIN_BATCH_INTERVAL

\* Fees are taken once and end where they belong: the admin has, withdrawn or
\* still accrued, what settled batches owe the protocol, each keeper what the
\* batches he settled owe him, however keepers are rotated and LPs take the pool
\* the accrued fees are in (admin.rs:36-58 and 255-313).  It takes
\* OwnAccountsPassed: the account a fee is paid to is the caller's choice.
FeesAccounted ==
  LET settled == {b \in Batches : Settled(b)}
      by(k) == {b \in settled : receipt[b].keeper_pubkey = k}
  IN
  /\ tokens[Admin] - InitialTokens[Admin] + accrued_protocol_fees
       = Total([b \in settled |-> receipt[b].outputs.protocol_fee])
  /\ \A k \in Keepers :
       tokens[k] - InitialTokens[k] = Total([b \in by(k) |-> receipt[b].outputs.keeper_fee])

\* A proof of the chain as it is settles its batch: the vaults have the tokens
\* and the totals the room for it, whoever withdrew in the meantime, and no
\* check refuses it, as long as the price accounts still match, no stake was
\* released, the accrued fees fit their u64 and the net has a magnitude
\* (admin.rs:125-358, circuit/program/src/main.rs:184-293).  It takes
\* OwnAccountsPassed and TrueStakesPassed.
FreshProofSettles ==
  \A b \in Batches :
    LET p == proof[b] IN
    /\ NotPaused /\ BatchDue /\ ~Settled(b) /\ released = {}
    /\ p # NoProof /\ p = PublicOutputs(b) /\ CheckpointsMatch(b)
    /\ SafeAdd(accrued_protocol_fees, p.protocol_fee) /\ HasAbs(p.net_payout)
    => SettlementAccepted(keeper, b, LpVault)

-----------------------------------------------------------------------------
\* Implementation.

SettledBatches == {b \in Batches : Settled(b)}

Ledger == INSTANCE TradeLedger WITH
  placed <- accepted, ended <- closed, won <- winners,
  settled <- SettledBatches, paid <- claim_receipt, balance <- balance_usdt,
  Prize <- [t \in Trades |-> MaxPayout(t)]

\* The engine keeps its promise to traders: proofs, stale or repeated, the pool,
\* the market updates and the order of calls never show in what a trade is paid,
\* which is its prize less the stake the distribution is told, whatever that is
\* (admin.rs:68-122 and 125-358, circuit/program/src/main.rs:184-258).
LedgerKept == Ledger!Spec

-----------------------------------------------------------------------------
\* Action properties.

\* A batch is settled at most once and its receipt is final; a claim, once
\* made, stays made (the `init` accounts of context.rs:108-123 and 181-187).
SettledOnce ==
  [][/\ \A b \in Batches : Settled(b) => receipt'[b] = receipt[b]
     /\ claim_receipt \subseteq claim_receipt']_vars

\* The step lowers what one of the LP shares held is worth.
PricePerShareFalls ==
  /\ total_lp_shares > 0
  /\ lp_total_deposited' * total_lp_shares < lp_total_deposited * total_lp_shares'

\* The value of the LP shares held never falls except when a batch that pays traders
\* net is settled or the admin takes protocol fees: rounding in deposits and
\* withdrawals is always in favour of the LPs who stay (lp.rs:23-27 and 73).
SharePriceKept ==
  [][PricePerShareFalls =>
       \/ accrued_protocol_fees' < accrued_protocol_fees
       \/ \E b \in Batches :
            ~Settled(b) /\ receipt'[b] # NoReceipt /\ proof[b].net_payout > 0]_vars

\* When a batch settles, every trade of it was priced within the multiplier
\* cap the market has at that moment, however many regime updates happened
\* between proof and settlement (admin.rs:166-209).
SettledOnTerms ==
  [][\A b \in Batches : ~Settled(b) /\ receipt'[b] # NoReceipt =>
       \A t \in BatchTrades(b) : Multiplier[t] <= max_multiplier[BatchMarket[b]]]_vars

\* While the program is paused no position, margin account, market, receipt or
\* claim changes; the pool changes only by a withdrawal of accrued fees
\* (global.rs:31-35; admin.rs:36-58 has no pause check).
FrozenWhilePaused ==
  [][paused =>
       /\ UNCHANGED <<marketVars, lpVars, traderVars, settleVars,
                      total_lp_shares, trader_total_margin>>
       /\ lp_total_deposited - lp_total_deposited'
            = accrued_protocol_fees - accrued_protocol_fees']_vars

\* The pool holds at least 1.5 times what it may have to pay for open trades.
RatioHolds ==
  lp_total_deposited * BPS_DENOMINATOR
    >= MIN_SOLVENCY_RATIO_BPS * Total([t \in Unsettled |-> MaxPayout(t)])

\* "Hard on-chain invariant" (sdk/src/constants/risk.ts:1-2): a pool that holds
\* the ratio still holds it after a redemption of shares, the step that
\* check_solvency is there to refuse (lp.rs:52-107, vault.rs:30-42).
WithdrawalKeepsRatio ==
  [][RatioHolds /\ total_lp_shares' < total_lp_shares => RatioHolds']_vars

=============================================================================
