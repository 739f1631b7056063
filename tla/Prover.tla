------------------------------- MODULE Prover -------------------------------
(***************************************************************************)
(* What the settlement guest (circuit/program/src/main.rs) computes from a *)
(* closed batch and commits as public outputs.  The proof system is taken  *)
(* as sound: the chain accepts exactly the outputs the guest committed.    *)
(* Prices are abstracted to their effect, the set of winners; hashes and   *)
(* commitments to the value they commit to.                                *)
(***************************************************************************)
EXTENDS EngineState, Functions

\* The keeper's fee is a part of the amount it is taken from.  The code does
\* not bound keeper_fee_bps, so this is a fact about the batches the keeper is
\* given, not about the guest.
ASSUME KeeperFeeIsPart == KEEPER_FEE_BPS <= BPS_DENOMINATOR

BatchTrades(batch) == {t \in accepted : TradeBatch[t] = batch}

\* gross_payout, asserted equal to the trade's max_payout_usdt.
MaxPayout(t) == MulDiv(Stake[t], Multiplier[t], BPS_DENOMINATOR)

\* A trade whose settlement close is in its band is paid gross, a loser nothing.
Payout(t) == IF t \in winners THEN MaxPayout(t) ELSE 0

\* net_payout: what the pool owes the traders of the batch (negative: gains).
NetPayout(T) == SumFunctionOnSet([t \in Trades |-> Payout(t) - Stake[t]], T)

Magnitude(net) == IF net >= 0 THEN net ELSE -net

KeeperFee(net) == MulDiv(Magnitude(net), KEEPER_FEE_BPS, BPS_DENOMINATOR)

\* Charged only on the pool's gains; it stays in the pool until withdrawn.
ProtocolFee(net) ==
  IF net < 0 THEN MulDiv(Magnitude(net), PROTOCOL_FEE_BPS, BPS_DENOMINATOR) ELSE 0

PublicOutputs(batch) ==
  LET T == BatchTrades(batch)
      net == NetPayout(T)
  IN [market_regime_id         |-> regime_id[BatchMarket[batch]],
      market_max_multiplier    |-> max_multiplier[BatchMarket[batch]],
      pool_balance_before      |-> lp_total_deposited,
      pool_balance_after       |-> lp_total_deposited - net - KeeperFee(net),
      current_liability_before |-> current_liability,
      net_payout               |-> net,
      keeper_fee               |-> KeeperFee(net),
      protocol_fee             |-> ProtocolFee(net),
      payouts_commitment       |-> [t \in T |-> Payout(t)],
      nullifier_hash           |-> <<batch, T>>]

\* The public outputs a guest run can commit; integers have their Rust width.
PayoutMaps == UNION {[T -> U64] : T \in SUBSET Trades}

Outputs ==
  [market_regime_id : Nat, market_max_multiplier : U32,
   pool_balance_before : U64, pool_balance_after : U64,
   current_liability_before : U64, net_payout : I64,
   keeper_fee : U64, protocol_fee : U64,
   payouts_commitment : PayoutMaps,
   nullifier_hash : Batches \X SUBSET Trades]

\* The guest's assertions.  The pool must be able to pay before the keeper's
\* fee is taken; every other amount must fit its type (checked arithmetic).
GuestAccepts(batch) ==
  /\ BatchTrades(batch) # {}
  /\ \A t \in BatchTrades(batch) :
       Multiplier[t] \in MIN_TRADE_MULTIPLIER_BPS .. max_multiplier[BatchMarket[batch]]
  /\ lp_total_deposited - NetPayout(BatchTrades(batch)) \in U64
  /\ PublicOutputs(batch) \in Outputs

\* The keeper has a batch proved against the chain state of the moment.  The
\* proof is used later, when that state may have moved on; so may the price
\* accounts whose checkpoints it was made with.
Prove(batch) ==
  /\ batch \in closed
  /\ GuestAccepts(batch)
  /\ proof' = [proof EXCEPT ![batch] = PublicOutputs(batch)]
  /\ posted' = posted \cup {batch}
  /\ UNCHANGED <<now, tradeVars, globalVars, marketVars, vaultVars, lpVars,
                 traderVars, settleVars, tokenVars>>

=============================================================================
