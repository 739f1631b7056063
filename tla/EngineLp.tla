------------------------------ MODULE EngineLp ------------------------------
(***************************************************************************)
(* module/lp.rs: liquidity providers buy and redeem shares of the pool.    *)
(***************************************************************************)
EXTENDS EngineState

\* Mutant: shares rounded up, in favour of the depositor.
SharesMinted_RoundedUp(amount) ==
  IF total_lp_shares = 0 \/ lp_total_deposited = 0
  THEN amount
  ELSE MulDiv(amount, total_lp_shares, lp_total_deposited) + 1

\* Shares minted for a deposit: one for one in an empty pool, pro rata
\* (rounded down) otherwise.
SharesMinted(amount) ==
  IF total_lp_shares = 0 \/ lp_total_deposited = 0
  THEN amount
  ELSE MulDiv(amount, total_lp_shares, lp_total_deposited)

\* Mutant: the position is overwritten, as in a first deposit.
mint_shares_Overwritten(lp, shares) ==
  /\ SafeAdd(total_lp_shares, shares)
  /\ total_lp_shares' = total_lp_shares + shares
  /\ lp_shares' = [lp_shares EXCEPT ![lp] = shares]

\* The shares bought are added to the total and to the position.
mint_shares(lp, shares) ==
  /\ SafeAdd(total_lp_shares, shares)
  /\ SafeAdd(lp_shares[lp], shares)
  /\ total_lp_shares' = total_lp_shares + shares
  /\ lp_shares' = [lp_shares EXCEPT ![lp] = @ + shares]

\* own and vault: the accounts passed as lp_token_account and as LP vault.
lp_deposit(lp, amount, own, vault) ==
  LET shares == SharesMinted(amount) IN
  /\ NonZero(amount)
  /\ NotPaused
  /\ token_transfer(own, vault, lp, amount)
  /\ shares \in U64
  /\ SafeAdd(lp_total_deposited, amount)
  /\ mint_shares(lp, shares)
  /\ CheckSolvency(lp_total_deposited + amount, current_liability)
  /\ lp_total_deposited' = lp_total_deposited + amount
  /\ last_deposit_at' = [last_deposit_at EXCEPT ![lp] = now]
  /\ solvency_ratio_bps' =
       SolvencyRatio(lp_total_deposited + amount, current_liability)
  /\ UNCHANGED <<trader_total_margin, current_liability, accrued_protocol_fees>>
  /\ UNCHANGED <<globalVars, marketVars, traderVars, settleVars, envVars>>

\* Tokens paid for redeemed shares: pro rata, rounded down.
AmountRedeemed(shares) == MulDiv(shares, lp_total_deposited, total_lp_shares)

\* Mutant: the position is not looked at.
HoldsShares_Unchecked(lp, shares) == TRUE

HoldsShares(lp, shares) == lp_shares[lp] >= shares

lp_withdraw(lp, shares, own, vault) ==
  LET amount == AmountRedeemed(shares) IN
  /\ NonZero(shares)
  /\ NotPaused
  /\ HoldsShares(lp, shares)
  /\ Elapsed(last_deposit_at[lp]) >= WITHDRAW_TIMELOCK
  /\ SafeMulDiv(shares, lp_total_deposited, total_lp_shares)
  /\ SafeSub(lp_total_deposited, amount)
  /\ SafeSub(total_lp_shares, shares)
  /\ CheckSolvency(lp_total_deposited - amount, current_liability)
  /\ lp_total_deposited' = lp_total_deposited - amount
  /\ total_lp_shares' = total_lp_shares - shares
  /\ lp_shares' = [lp_shares EXCEPT ![lp] = @ - shares]
  /\ solvency_ratio_bps' =
       SolvencyRatio(lp_total_deposited - amount, current_liability)
  /\ vault_token_transfer(vault, own, amount)
  /\ UNCHANGED <<trader_total_margin, current_liability, accrued_protocol_fees,
                 last_deposit_at>>
  /\ UNCHANGED <<globalVars, marketVars, traderVars, settleVars, envVars>>

=============================================================================
