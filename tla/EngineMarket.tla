---------------------------- MODULE EngineMarket ----------------------------
(***************************************************************************)
(* module/market.rs: the pricing parameters of a market.  Each update is a *)
(* new regime; a settlement proof is bound to the regime it was priced in. *)
(* The spread and the volatility regime play no part in settlement and are *)
(* left out (their only check is that the spread is positive).             *)
(***************************************************************************)
EXTENDS EngineState

\* MarketState::apply_params
apply_params(market, regime, multiplier) ==
  /\ regime_id' = [regime_id EXCEPT ![market] = regime]
  /\ max_multiplier' = [max_multiplier EXCEPT ![market] = multiplier]
  /\ last_updated' = [last_updated EXCEPT ![market] = now]

init_market(signer, market, regime, multiplier) ==
  /\ signer = Admin
  /\ NotPaused
  /\ max_multiplier[market] = 0
  /\ multiplier > 0
  /\ apply_params(market, regime, multiplier)
  /\ UNCHANGED <<globalVars, vaultVars, lpVars, traderVars, settleVars,
                 tokenVars, envVars>>

update_market(signer, market, regime, multiplier) ==
  /\ KeeperSigned(signer)
  /\ NotPaused
  /\ max_multiplier[market] > 0
  /\ regime > regime_id[market]
  /\ multiplier > 0
  /\ Elapsed(last_updated[market]) >= MIN_REGIME_INTERVAL
  /\ apply_params(market, regime, multiplier)
  /\ UNCHANGED <<globalVars, vaultVars, lpVars, traderVars, settleVars,
                 tokenVars, envVars>>

=============================================================================
