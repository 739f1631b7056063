---------------------------- MODULE EngineTrade ----------------------------
(***************************************************************************)
(* module/trade.rs: margin accounts.  balance_usdt is a trader's margin    *)
(* and locked_usdt the part of it that backs his open trades.              *)
(***************************************************************************)
EXTENDS EngineState

\* own: the account passed as trader_token_account.  The trader vault is a PDA
\* and cannot be another account (context.rs:300-306 and 372-378).
trader_deposit(trader, amount, own) ==
  /\ NonZero(amount)
  /\ NotPaused
  /\ token_transfer(own, TraderVault, trader, amount)
  /\ SafeAdd(balance_usdt[trader], amount)
  /\ SafeAdd(trader_total_margin, amount)
  /\ balance_usdt' = [balance_usdt EXCEPT ![trader] = @ + amount]
  /\ trader_total_margin' = trader_total_margin + amount
  /\ UNCHANGED <<total_lp_shares, lp_total_deposited, current_liability,
                 solvency_ratio_bps, accrued_protocol_fees, locked_usdt>>
  /\ UNCHANGED <<globalVars, marketVars, lpVars, settleVars, envVars>>

\* Mutant: the whole balance, whatever is locked.
Withdrawable_WholeBalance(trader) == balance_usdt[trader]

\* What a trader may take out: the margin that backs no open trade.
Withdrawable(trader) == SaturatingSub(balance_usdt[trader], locked_usdt[trader])

trader_withdraw(trader, amount, own) ==
  /\ NotPaused
  /\ NonZero(amount)
  /\ amount <= Withdrawable(trader)
  /\ SafeSub(balance_usdt[trader], amount)
  /\ SafeSub(trader_total_margin, amount)
  /\ balance_usdt' = [balance_usdt EXCEPT ![trader] = @ - amount]
  /\ trader_total_margin' = trader_total_margin - amount
  /\ vault_token_transfer(TraderVault, own, amount)
  /\ UNCHANGED <<total_lp_shares, lp_total_deposited, current_liability,
                 solvency_ratio_bps, accrued_protocol_fees, locked_usdt>>
  /\ UNCHANGED <<globalVars, marketVars, lpVars, settleVars, envVars>>

\* Mutant: each lock is compared with the balance on its own.
CoversLock_ThisLockOnly(trader, amount) == amount <= balance_usdt[trader]

\* The balance covers what is locked already and the new lock.
CoversLock(trader, amount) == locked_usdt[trader] + amount <= balance_usdt[trader]

\* lock_margin and unlock_margin are signed by the keeper.  They write only
\* locked_usdt; what the keeper records beside them is the caller's part.
lock_margin(signer, trader, amount) ==
  /\ KeeperSigned(signer)
  /\ NonZero(amount)
  /\ NotPaused
  /\ SafeAdd(locked_usdt[trader], amount)
  /\ CoversLock(trader, amount)
  /\ locked_usdt' = [locked_usdt EXCEPT ![trader] = @ + amount]
  /\ UNCHANGED <<balance_usdt, globalVars, marketVars, vaultVars, lpVars,
                 settleVars, tokenVars>>

unlock_margin(signer, trader, amount) ==
  /\ KeeperSigned(signer)
  /\ NonZero(amount)
  /\ NotPaused
  /\ amount <= locked_usdt[trader]
  /\ locked_usdt' = [locked_usdt EXCEPT ![trader] = @ - amount]
  /\ UNCHANGED <<balance_usdt, globalVars, marketVars, vaultVars, lpVars,
                 settleVars, tokenVars>>

=============================================================================
