---------------------------- MODULE EngineState ----------------------------
(***************************************************************************)
(* The accounts of the carnot_engine program, the SPL token accounts its   *)
(* instructions move, and the checked arithmetic every instruction uses.   *)
(*                                                                         *)
(* One variable per account field (programs/carnot_engine/src/state/), so  *)
(* that an instruction reads like the assignments of its handler.  A       *)
(* Solana transaction whose instruction returns an error changes nothing:  *)
(* an error path is an action that is not enabled, and an instruction is   *)
(* one atomic step however many token transfers it makes.                  *)
(***************************************************************************)
EXTENDS Integers, FiniteSets

CONSTANTS
  Lps,            \* liquidity providers (signers of lp_deposit, lp_withdraw)
  Traders,        \* traders (signers of trader_deposit, trader_withdraw)
  Keepers,        \* keys the admin may appoint as keeper
  Admin,          \* the key recorded in GlobalState.admin
  NoKey,          \* "account not created": not a key
  LpVault,        \* the token account lp_vault_token_account is meant to be
  TraderVault,    \* trader_vault_token_account
  Markets,        \* market ids
  Batches,        \* batch ids: one window of one market
  BatchMarket,    \* the market a batch belongs to
  Trades,         \* trade ids
  TradeBatch,     \* the batch whose window a trade expires in
  TradeTrader,    \* the trader who placed it
  Stake,          \* its stake_usdt
  Multiplier,     \* its quoted multiplier_bps
  NoReceipt,      \* "no BatchReceiptAccount": not a receipt
  NoProof         \* "not proved": not a public output

CONSTANTS
  MIN_BATCH_INTERVAL,    \* min_batch_interval_secs given to admin_init
  MIN_REGIME_INTERVAL,   \* min_regime_update_interval_secs given to admin_init
  WITHDRAW_TIMELOCK,     \* WITHDRAW_TIMELOCK_SECS
  KEEPER_FEE_BPS,        \* keeper_fee_bps of the proved batches
  PROTOCOL_FEE_BPS,      \* protocol_fee_bps of the proved batches
  U64_MAX,               \* largest u64: a small number in the models
  U32_MAX,               \* largest u32: a small number in the models
  Genesis                \* unix time when the program is deployed

\* Everybody who has a token account of his own, named by its owner.
Holders == Lps \cup Traders \cup Keepers \cup {Admin}

\* The token accounts whose owner is the vault_state account.
Vaults == {LpVault, TraderVault}

Accounts == Holders \cup Vaults

ASSUME KeysDiffer ==
  /\ NoKey \notin Keepers
  /\ Lps \cap Traders = {}
  /\ (Lps \cup Traders) \cap (Keepers \cup {Admin}) = {}
  /\ Admin \notin Keepers
  /\ LpVault # TraderVault
  /\ Holders \cap Vaults = {}

ASSUME TradesWellFormed ==
  /\ BatchMarket \in [Batches -> Markets]
  /\ TradeBatch \in [Trades -> Batches]
  /\ TradeTrader \in [Trades -> Traders]
  /\ Stake \in [Trades -> Nat \ {0}]
  /\ Multiplier \in [Trades -> Nat]

\* Accounts are created one transaction at a time.
ASSUME AccountsAreFinite ==
  /\ IsFiniteSet(Lps)
  /\ IsFiniteSet(Traders)
  /\ IsFiniteSet(Batches)
  /\ IsFiniteSet(Trades)

ASSUME ParametersAreNat ==
  /\ MIN_BATCH_INTERVAL \in Nat
  /\ MIN_REGIME_INTERVAL \in Nat
  /\ WITHDRAW_TIMELOCK \in Nat
  /\ KEEPER_FEE_BPS \in Nat
  /\ PROTOCOL_FEE_BPS \in Nat
  /\ U64_MAX \in Nat
  /\ U64_MAX % 2 = 1
  /\ U32_MAX \in Nat
  /\ Genesis \in Nat \ {0}

VARIABLES
  keeper,                  \* GlobalState.keeper, NoKey before admin_init
  paused,                  \* GlobalState.paused
  last_batch_at            \* GlobalState.last_batch_at

VARIABLES
  regime_id,               \* MarketState.regime_id, per market
  max_multiplier,          \* MarketState.max_multiplier; 0: no such account
  last_updated             \* MarketState.last_updated

VARIABLES
  total_lp_shares,         \* VaultState, one field each
  lp_total_deposited,
  trader_total_margin,
  current_liability,
  solvency_ratio_bps,
  accrued_protocol_fees

VARIABLES
  lp_shares,               \* LpPosition.lp_shares, per LP
  last_deposit_at,         \* LpPosition.last_deposit_at
  balance_usdt,            \* TraderAccount.balance_usdt, per trader
  locked_usdt              \* TraderAccount.locked_usdt

VARIABLES
  nullifier,               \* nullifier hashes whose NullifierAccount exists
  receipt,                 \* BatchReceiptAccount per batch, or NoReceipt
  claim_receipt            \* trades whose ClaimReceipt exists

VARIABLE
  tokens                   \* amount held by each token account

VARIABLES
  now,                     \* Clock::get()?.unix_timestamp
  accepted,                \* trades the keeper accepted (stake locked)
  released,                \* accepted trades explicitly unlocked since
  closed,                  \* batches whose window has ended
  winners,                 \* trades whose close fell inside the band
  proof,                   \* latest public outputs the guest committed, per batch
  posted                   \* batches whose Pyth accounts hold the proved checkpoints

globalVars == <<keeper, paused, last_batch_at>>
marketVars == <<regime_id, max_multiplier, last_updated>>
vaultVars  == <<total_lp_shares, lp_total_deposited, trader_total_margin,
                current_liability, solvency_ratio_bps, accrued_protocol_fees>>
lpVars     == <<lp_shares, last_deposit_at>>
traderVars == <<balance_usdt, locked_usdt>>
settleVars == <<nullifier, receipt, claim_receipt>>
tokenVars  == <<tokens>>
tradeVars  == <<accepted, released, closed, winners>>
proofVars  == <<proof, posted>>
envVars    == <<now, tradeVars, proofVars>>

vars == <<globalVars, marketVars, vaultVars, lpVars, traderVars, settleVars,
          tokenVars, envVars>>

-----------------------------------------------------------------------------
\* utils/helper.rs: arithmetic that fails instead of wrapping.

BPS_DENOMINATOR == 10000
MIN_SOLVENCY_RATIO_BPS == 15000
MIN_TRADE_MULTIPLIER_BPS == 10000

U64 == 0 .. U64_MAX
U32 == 0 .. U32_MAX
I64_MAX == U64_MAX \div 2
I64 == -I64_MAX - 1 .. I64_MAX

\* SafeMath: the result is returned only when it fits the type.
SafeAdd(a, b) == a + b \in U64
SafeSub(a, b) == a - b \in U64

\* safe_abs_i64_to_u64: the least i64 has no absolute value.
HasAbs(n) == n >= -I64_MAX

\* safe_mul_div_u64: 128-bit product, floor division, error on a zero divisor.
MulDiv(value, numerator, denominator) == (value * numerator) \div denominator
SafeMulDiv(value, numerator, denominator) ==
  /\ denominator > 0
  /\ MulDiv(value, numerator, denominator) \in U64

\* saturating_sub
SaturatingSub(a, b) == IF a >= b THEN a - b ELSE 0

\* safe_elapsed_secs
Elapsed(since) == now - since

\* require_nonzero
NonZero(amount) == amount > 0

\* Mutant: the pause flag is not looked at.
NotPaused_Ignored == keeper # NoKey

\* GlobalState::require_not_paused; no instruction runs before admin_init.
NotPaused == keeper # NoKey /\ ~paused

\* has_one = keeper on the GlobalState account.
KeeperSigned(signer) == signer = keeper

\* VaultState::check_solvency, given the pool and the liability it is run on:
\* does it succeed, and what does it leave in solvency_ratio_bps.
SolvencyRatio(deposited, liability) ==
  IF liability = 0 THEN U32_MAX ELSE MulDiv(deposited, BPS_DENOMINATOR, liability)

CheckSolvency(deposited, liability) ==
  \/ liability = 0
  \/ SolvencyRatio(deposited, liability) \in MIN_SOLVENCY_RATIO_BPS .. U32_MAX

-----------------------------------------------------------------------------
\* invoke/mod.rs: token::transfer.  The token program refuses a transfer whose
\* source is not the authority's or holds too little.  That is the only check
\* on the accounts an instruction is given as the LP vault and as the caller's
\* own: context.rs:77-80, 124-125, 133-134, 239-242, 268-271, 298-299 and
\* 370-371 only say `mut`.  Both are parameters of the instructions.

\* f after a transfer of n (a negative n: the other way).
Moved(f, from, to, n) ==
  LET taken == [f EXCEPT ![from] = @ - n]
  IN  [taken EXCEPT ![to] = @ + n]

\* Signed by the caller.
token_transfer(from, to, authority, amount) ==
  /\ from = authority
  /\ tokens[from] >= amount
  /\ tokens' = Moved(tokens, from, to, amount)

\* Signed by the vault_state account.
vault_token_transfer(from, to, amount) ==
  /\ from \in Vaults
  /\ tokens[from] >= amount
  /\ tokens' = Moved(tokens, from, to, amount)

=============================================================================
