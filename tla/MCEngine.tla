------------------------------ MODULE MCEngine ------------------------------
(***************************************************************************)
(* Instances of CarnotEngine for TLC.  Each cfg picks one scenario's       *)
(* functions; keys, markets, batches and trades are model values.          *)
(***************************************************************************)
EXTENDS CarnotEngine, TLC

\* Every account passed is the one it stands for.
OwnAccounts == [role \in Holders \cup {LpVault} |-> {role}]

\* What a distribution is told: the trade's stake, or any of those of the model.
TrueStakes == [t \in Trades |-> {Stake[t]}]
AnyStakes  == [t \in Trades |-> {1, 2}]

CONSTANTS l1, l2, tr1, tr2, k1, k2, adm, m1, m2, b1, b2, a1, a2, a3

\* One batch with one trade: LP shares around a settlement, under two keepers,
\* market updates and pauses.
OneBatchMarket == b1 :> m1
OneTradeBatch  == a1 :> b1
OneTradeTrader == a1 :> tr1
OneStake       == a1 :> 2
OneMultiplier  == a1 :> 15000
OneTokens ==
  (l1 :> 2) @@ (l2 :> 1) @@ (tr1 :> 2) @@ (k1 :> 0) @@ (k2 :> 0) @@ (adm :> 0)

\* Two batches of one market, three trades, two traders.
TwoBatchMarket == (b1 :> m1) @@ (b2 :> m1)
TwoTradeBatch  == (a1 :> b1) @@ (a2 :> b1) @@ (a3 :> b2)
TwoTradeTrader == (a1 :> tr1) @@ (a2 :> tr2) @@ (a3 :> tr1)
TwoStake       == (a1 :> 1) @@ (a2 :> 2) @@ (a3 :> 1)
TwoMultiplier  == (a1 :> 20000) @@ (a2 :> 15000) @@ (a3 :> 20000)
TwoTokens ==
  (l1 :> 2) @@ (tr1 :> 2) @@ (tr2 :> 2) @@ (k1 :> 0) @@ (adm :> 0)

\* Enough for a pool that holds the ratio to the payout of the first trade.
PoolTokens == [TwoTokens EXCEPT ![l1] = 3]
=============================================================================
