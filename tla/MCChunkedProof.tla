--------------------------- MODULE MCChunkedProof ---------------------------
(***************************************************************************)
(* Batch files for TLC.  A multiplier of 10 bps is 1x; the window is 0..3. *)
(***************************************************************************)
EXTENDS ChunkedProof

Tick(ts, close) == [ts |-> ts, open |-> 10, high |-> 12, low |-> 8, close |-> close]

Checkpoint(time, price, exponent) ==
  [publish_time |-> time, price |-> price, exponent |-> exponent]

Trade(id, trader, stake, multiplier, end, lower) ==
  [trade_id |-> id, trader |-> trader, stake_usdt |-> stake,
   multiplier_bps |-> multiplier, window_start |-> 0, window_end |-> end,
   band_lower |-> lower, band_upper |-> lower + 1,
   max_payout_usdt |-> Saturated((stake * multiplier) \div 10)]

File(trades, ohlc, checkpoints, pool) ==
  [batch_id |-> "batch", trades |-> trades, ohlc |-> ohlc,
   window_start |-> 0, window_end |-> 3, pool_balance_before |-> pool,
   keeper_fee_bps |-> 5, protocol_fee_bps |-> 3, market_max_multiplier |-> 25,
   pyth_checkpoints |-> checkpoints]

\* Every window of ticks at up to four times, and checkpoints of which the
\* second may be late, twice the same, far off, negative or at another scale.
TickTimes == {ts \in SUBSET (-1..4) : Cardinality(ts) \in 0..4}
TicksAt(ts, closes) ==
  LET times == SetToSortSeq(ts, <) IN [i \in DOMAIN times |-> Tick(times[i], closes[i])]
Ohlcs ==
  UNION {{TicksAt(ts, closes) : closes \in [1..Cardinality(ts) -> {9, 10}]} : ts \in TickTimes}
Seconds ==
  {Checkpoint(1, 10, -6), Checkpoint(2, 1, -5), Checkpoint(2, 119, -7),
   Checkpoint(2, 13, -6), Checkpoint(4, 10, -6), Checkpoint(0, 10, -6),
   Checkpoint(1, -10, -6), Checkpoint(1, 13, -5)}
CheckpointLists ==
  {<<Checkpoint(0, 10, -6), second, Checkpoint(3, 10, -6)>> : second \in Seconds}
Quotes == <<Trade(2, 1, 2, 20, 2, 9), Trade(1, 2, 1, 25, 2, 10), Trade(3, 1, 2, 15, 3, 10)>>
PriceFiles == {File(Quotes, ohlc, cps, 20) : ohlc \in Ohlcs, cps \in CheckpointLists}

\* Batches of up to four trades, winners and losers of different stakes and
\* multipliers, by two traders in turn, against a small and a large pool.
SteadyOhlc == <<Tick(0, 9), Tick(2, 10), Tick(3, 10)>>
SteadyChecks == <<Checkpoint(0, 10, -6), Checkpoint(1, 10, -6), Checkpoint(3, 10, -6)>>
Terms == {<<3, 15>>, <<2, 25>>}
TradeAt(i, term, lower) == Trade(i, i % 2, term[1], term[2], 3, lower)
TradeLists ==
  UNION {{[i \in 1..n |-> TradeAt(i, pick[i][1], pick[i][2])] :
            pick \in [1..n -> Terms \X {9, 10}]} : n \in 0..4}
TradeFiles == {File(trades, SteadyOhlc, SteadyChecks, pool) :
                 trades \in TradeLists, pool \in {4, 100}}

\* Amounts at the limits of u64 and i64, a repeated id, a multiplier too large.
EdgeFiles ==
  {File(trades, SteadyOhlc, SteadyChecks, 100) :
     trades \in {<<Trade(1, 1, 40, 25, 3, 10)>>, <<Trade(1, 1, 50, 25, 3, 10)>>,
                 <<Trade(1, 1, 60, 25, 3, 10)>>, <<Trade(1, 1, 64, 10, 3, 9)>>,
                 <<Trade(1, 1, 60, 10, 3, 9), Trade(2, 1, 60, 10, 3, 9)>>,
                 <<Trade(1, 1, 1, 15, 3, 10), Trade(1, 2, 1, 15, 3, 10)>>,
                 <<Trade(1, 1, 1, 26, 3, 10)>>}}

\* Batches of one to five trades whose payouts are claimed.
MCClaimedFiles ==
  {File([i \in 1..n |-> TradeAt(i, <<2, 15>>, 9 + (i % 2))], SteadyOhlc, SteadyChecks, 100) :
     n \in 1..5}

MCFiles == PriceFiles \cup TradeFiles \cup EdgeFiles \cup MCClaimedFiles
MCNoAggregate == [chunks |-> <<>>]
=============================================================================
