---------------------------- MODULE EngineAdmin ----------------------------
(***************************************************************************)
(* module/admin.rs and the control instructions of lib.rs: set-up, keeper  *)
(* rotation and pause, protocol fees, batch settlement and distribution.   *)
(***************************************************************************)
EXTENDS EngineState

admin_init(new_keeper) ==
  /\ keeper = NoKey
  /\ keeper' = new_keeper
  /\ paused' = FALSE
  /\ last_batch_at' = 0
  /\ total_lp_shares' = 0
  /\ lp_total_deposited' = 0
  /\ trader_total_margin' = 0
  /\ current_liability' = 0
  /\ solvency_ratio_bps' = U32_MAX
  /\ accrued_protocol_fees' = 0
  /\ UNCHANGED <<marketVars, lpVars, traderVars, settleVars, tokenVars, envVars>>

\* AdminControl: has_one = admin on an existing GlobalState.
AdminSigned(signer) == keeper # NoKey /\ signer = Admin

rotate_keeper(signer, new_keeper) ==
  /\ AdminSigned(signer)
  /\ keeper' = new_keeper
  /\ UNCHANGED <<paused, last_batch_at>>
  /\ UNCHANGED <<marketVars, vaultVars, lpVars, traderVars, settleVars,
                 tokenVars, envVars>>

set_paused(signer, value) ==
  /\ AdminSigned(signer)
  /\ paused' = value
  /\ UNCHANGED <<keeper, last_batch_at>>
  /\ UNCHANGED <<marketVars, vaultVars, lpVars, traderVars, settleVars,
                 tokenVars, envVars>>

pause(signer) == set_paused(signer, TRUE)
unpause(signer) == set_paused(signer, FALSE)

\* Not blocked by a pause.
withdraw_protocol_fees(signer, amount, own, vault) ==
  /\ AdminSigned(signer)
  /\ NonZero(amount)
  /\ amount <= accrued_protocol_fees
  /\ SafeSub(accrued_protocol_fees, amount)
  /\ SafeSub(lp_total_deposited, amount)
  /\ accrued_protocol_fees' = accrued_protocol_fees - amount
  /\ lp_total_deposited' = lp_total_deposited - amount
  /\ vault_token_transfer(vault, own, amount)
  /\ UNCHANGED <<total_lp_shares, trader_total_margin, current_liability,
                 solvency_ratio_bps>>
  /\ UNCHANGED <<globalVars, marketVars, lpVars, traderVars, settleVars, envVars>>

-----------------------------------------------------------------------------

\* Mutant: neither account has to be new.
BatchNotSettled_Unchecked(batch, p) == TRUE

\* The accounts are created by the instruction: both must not exist yet.
BatchNotSettled(batch, p) ==
  /\ receipt[batch] = NoReceipt
  /\ p.nullifier_hash \notin nullifier

\* Mutant: the market's terms are not bound by the hash.
OutputsMatchChain_WithoutMarket(p, market) ==
  /\ p.current_liability_before = current_liability
  /\ p.pool_balance_before = lp_total_deposited

\* The public outputs hash is recomputed over the chain's own values, so a
\* proof made against another regime, multiplier cap, pool or liability fails.
OutputsMatchChain(p, market) ==
  /\ p.current_liability_before = current_liability
  /\ p.market_regime_id = regime_id[market]
  /\ max_multiplier[market] \in 1 .. U32_MAX
  /\ p.market_max_multiplier = max_multiplier[market]
  /\ p.pool_balance_before = lp_total_deposited

\* A positive net payout moves from the pool to the traders' margin, a
\* negative one the other way, with the protocol's share of the gain accrued.
\* The keeper's fee then leaves the pool.
FeesAccrued(p) == IF p.net_payout >= 0 THEN 0 ELSE p.protocol_fee
PoolAfter(p) == lp_total_deposited - p.net_payout - p.keeper_fee
LiabilityAfter(p) == current_liability - p.current_liability_before

\* The checked arithmetic of that, in order.
VaultFits(p) ==
  /\ HasAbs(p.net_payout)
  /\ lp_total_deposited - p.net_payout \in U64
  /\ trader_total_margin + p.net_payout \in U64
  /\ SafeAdd(accrued_protocol_fees, FeesAccrued(p))
  /\ SafeSub(current_liability, p.current_liability_before)
  /\ lp_total_deposited - p.net_payout >= p.keeper_fee

SettleVault(p) ==
  /\ lp_total_deposited' = PoolAfter(p)
  /\ trader_total_margin' = trader_total_margin + p.net_payout
  /\ accrued_protocol_fees' = accrued_protocol_fees + FeesAccrued(p)
  /\ current_liability' = LiabilityAfter(p)
  /\ solvency_ratio_bps' = SolvencyRatio(PoolAfter(p), LiabilityAfter(p))
  /\ UNCHANGED total_lp_shares

\* Token amounts after the net has moved between the account passed as LP vault
\* and the trader vault, in either direction.
NetMoved(p, vault) == Moved(tokens, vault, TraderVault, p.net_payout)

\* The sources hold what the transfers take: the net, then the keeper's fee,
\* which is transferred also when it is zero.
TokensSuffice(p, vault) ==
  /\ vault \in Vaults
  /\ tokens[vault] >= p.net_payout
  /\ tokens[TraderVault] >= -p.net_payout
  /\ NetMoved(p, vault)[vault] >= p.keeper_fee

\* Mutant: the net is booked but not moved.
SettleTokens_NetForgotten(p, own, vault) ==
  tokens' = Moved(tokens, vault, own, p.keeper_fee)

\* Mutant: the keeper's fee is booked but not paid.
SettleTokens_FeeForgotten(p, own, vault) == tokens' = NetMoved(p, vault)

\* own: the account passed as keeper_token_account.
SettleTokens(p, own, vault) ==
  tokens' = Moved(NetMoved(p, vault), vault, own, p.keeper_fee)

\* Mutant: measured from the epoch instead of the last batch.
BatchDue_FromEpoch == Elapsed(0) >= MIN_BATCH_INTERVAL

\* BatchTooSoon otherwise; one interval for all markets.
BatchDue == Elapsed(last_batch_at) >= MIN_BATCH_INTERVAL

\* The hash of the price accounts passed is the one the proof was made with.
CheckpointsMatch(batch) == batch \in posted

\* verify_groth16, taken as sound and complete: what verifies, under the
\* program's verifying key, is what a guest run committed.
ProofVerifies(p) == p # NoProof

\* Everything that may refuse the instruction.
SettlementAccepted(signer, batch, vault) ==
  LET p == proof[batch] IN
  /\ ProofVerifies(p)
  /\ KeeperSigned(signer)
  /\ BatchNotSettled(batch, p)
  /\ NotPaused
  /\ BatchDue
  /\ OutputsMatchChain(p, BatchMarket[batch])
  /\ CheckpointsMatch(batch)
  /\ VaultFits(p)
  /\ TokensSuffice(p, vault)
  /\ p.pool_balance_after = PoolAfter(p)
  /\ CheckSolvency(PoolAfter(p), LiabilityAfter(p))

verify_and_settle(signer, batch, own, vault) ==
  LET p == proof[batch] IN
  /\ SettlementAccepted(signer, batch, vault)
  /\ SettleVault(p)
  /\ SettleTokens(p, own, vault)
  /\ nullifier' = nullifier \cup {p.nullifier_hash}
  /\ receipt' = [receipt EXCEPT ![batch] =
                   [settled_at |-> now, keeper_pubkey |-> signer, outputs |-> p]]
  /\ last_batch_at' = now
  /\ UNCHANGED <<keeper, paused, claim_receipt>>
  /\ UNCHANGED <<marketVars, lpVars, traderVars, envVars>>

\* The Merkle proof binds (batch, trade, trader, winnings, index) to the
\* receipt's payouts_commitment: only a trade of the batch has a leaf.
HasLeaf(batch, trade) ==
  /\ receipt[batch] # NoReceipt
  /\ receipt[batch].settled_at > 0
  /\ trade \in DOMAIN receipt[batch].outputs.payouts_commitment

\* Mutant: no account is created, so a claim can be repeated.
NotClaimed_Unchecked(trade) == TRUE

\* The ClaimReceipt account is created by the instruction.
NotClaimed(trade) == trade \notin claim_receipt

\* Mutant: the lock is left to unlock_margin.
LockAfter_Kept(trader, stake) == locked_usdt[trader]

\* Saturating, for a lock that was explicitly released before.
LockAfter(trader, stake) == SaturatingSub(locked_usdt[trader], stake)

\* Mutant: a winner keeps his stake on top of the gross payout.
BalanceAfter_StakeKept(trader, stake, winnings) ==
  IF winnings > 0 THEN balance_usdt[trader] + winnings
  ELSE balance_usdt[trader] - stake

\* The gross payout replaces the stake.
BalanceAfter(trader, stake, winnings) == balance_usdt[trader] - stake + winnings

\* Anyone may call it.  stake is the caller's stake_usdt: the leaf does not
\* contain it and nothing compares it with the stake the trade was accepted at.
distribute_winnings(batch, trade, stake) ==
  LET trader == TradeTrader[trade]
      winnings == receipt[batch].outputs.payouts_commitment[trade]
  IN
  /\ NotPaused
  /\ NonZero(stake)
  /\ HasLeaf(batch, trade)
  /\ NotClaimed(trade)
  /\ balance_usdt[trader] >= stake
  /\ SafeAdd(balance_usdt[trader] - stake, winnings)
  /\ claim_receipt' = claim_receipt \cup {trade}
  /\ balance_usdt' = [balance_usdt EXCEPT ![trader] =
                                          BalanceAfter(trader, stake, winnings)]
  /\ locked_usdt' = [locked_usdt EXCEPT ![trader] = LockAfter(trader, stake)]
  /\ UNCHANGED <<nullifier, receipt>>
  /\ UNCHANGED <<globalVars, marketVars, vaultVars, lpVars, tokenVars, envVars>>

=============================================================================
