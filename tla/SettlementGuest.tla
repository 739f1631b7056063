-------------------------- MODULE SettlementGuest --------------------------
(***************************************************************************)
(* The settlement guest on its private inputs, and the host's mirror of it *)
(* (circuit/program/src/main.rs, compute_public_outputs in                 *)
(* circuit/script/src/bin/main.rs).  Each group of assertions is an        *)
(* operator; a panic is an input that is not accepted.                     *)
(*                                                                         *)
(* Inputs are what the loaders make of a batch file: commitments and       *)
(* sorted ids are computed from the trades, so that the checks of the      *)
(* former hold and those of the latter say that no id occurs twice.        *)
(* Commitments other than the payouts' are left out.                       *)
(***************************************************************************)
EXTENDS PayoutMerkle, FiniteSetsExt

CONSTANTS
  U64_MAX,                   \* largest u64: a small number in the models
  I64_MAX,                   \* largest i64
  BPS_DENOMINATOR,
  MAX_DEVIATION_BPS,
  MIN_TRADE_MULTIPLIER_BPS,
  N_PYTH_CHECKPOINTS

ASSUME GuestConstants ==
  /\ I64_MAX \in Nat
  /\ U64_MAX = 2 * I64_MAX + 1
  /\ BPS_DENOMINATOR \in Nat \ {0}
  /\ MAX_DEVIATION_BPS \in Nat
  /\ MIN_TRADE_MULTIPLIER_BPS \in Nat
  /\ MIN_TRADE_MULTIPLIER_BPS >= BPS_DENOMINATOR
  /\ N_PYTH_CHECKPOINTS \in Nat

U64 == 0..U64_MAX
I64 == -I64_MAX - 1..I64_MAX

-----------------------------------------------------------------------------
\* What the loaders parse.  Ids and keys are numbers.  Multipliers and raw
\* prices are unbounded; what is made of them is checked against its width.

TradeRecord ==
  [trade_id : Nat, trader : Nat, stake_usdt : U64, multiplier_bps : Nat,
   window_start : Int, window_end : Int, band_lower : U64, band_upper : U64,
   max_payout_usdt : U64]

OhlcTick == [ts : Int, open : U64, high : U64, low : U64, close : U64]

PythCheckpoint == [publish_time : Int, price : Int, exponent : Int]

IsCircuitInputs(in) ==
  in \in [batch_id : {in.batch_id}, trades : Seq(TradeRecord), ohlc : Seq(OhlcTick),
          window_start : Int, window_end : Int, pool_balance_before : U64,
          keeper_fee_bps : U64, protocol_fee_bps : U64, market_max_multiplier : Nat,
          pyth_checkpoints : Seq(PythCheckpoint)]

-----------------------------------------------------------------------------
\* Numbers.

\* `as i64` keeps the bits.
AsI64(n) == IF n > I64_MAX THEN n - (U64_MAX + 1) ELSE n

Saturated(n) == IF n > U64_MAX THEN U64_MAX ELSE n

Distance(a, b) == IF a > b THEN a - b ELSE b - a

-----------------------------------------------------------------------------
\* Prices.

TickSane(tick) ==
  /\ tick.low <= tick.open /\ tick.low <= tick.close
  /\ tick.open <= tick.high /\ tick.close <= tick.high

\* B1 and B3: the ticks are in order and cover the window.
OhlcCovers(in) ==
  LET ohlc == in.ohlc IN
  /\ ohlc # <<>>
  /\ ohlc[1].ts <= in.window_start
  /\ ohlc[Len(ohlc)].ts >= in.window_end
  /\ \A i \in 2..Len(ohlc) : ohlc[i - 1].ts < ohlc[i].ts
  /\ \A i \in DOMAIN ohlc : TickSane(ohlc[i])

\* B4, the part the host does not check.
CheckpointsInWindow(in) ==
  LET cps == in.pyth_checkpoints IN
  /\ \A i \in DOMAIN cps : cps[i].publish_time \in in.window_start..in.window_end
  /\ \A i \in 2..Len(cps) : cps[i - 1].publish_time < cps[i].publish_time

\* 10u64.pow(n), which wraps around in a release build: from n = 20 on.
PowerOfTen(n) == 10^n % (U64_MAX + 1)

\* normalize_pyth_price where it returns a price.
NormalizedPrice(cp) ==
  LET shift == cp.exponent + 6
  IN IF shift >= 0 THEN cp.price * PowerOfTen(shift)
     ELSE cp.price \div PowerOfTen(-shift)

\* It returns none for a negative price and for a product that is too large, and
\* panics on a power that has become 0.
Normalizable(cp) ==
  /\ cp.price >= 0
  /\ cp.exponent + 6 < 0 => PowerOfTen(-(cp.exponent + 6)) # 0
  /\ NormalizedPrice(cp) \in U64

\* partition_point(|t| t.ts <= at), on ticks in order.
TicksUpTo(ohlc, at) == Quantify(DOMAIN ohlc, LAMBDA i : ohlc[i].ts <= at)

\* Mutant: the tick before the checkpoint, however far.
NearestTick_Before(ohlc, at) ==
  LET idx == TicksUpTo(ohlc, at) IN IF idx = 0 THEN ohlc[1] ELSE ohlc[idx]

NearestTick(ohlc, at) ==
  LET idx == TicksUpTo(ohlc, at) IN
  CASE idx = 0         -> ohlc[1]
    [] idx = Len(ohlc) -> ohlc[idx]
    [] OTHER           -> IF at - ohlc[idx].ts <= ohlc[idx + 1].ts - at
                          THEN ohlc[idx] ELSE ohlc[idx + 1]

\* B6: the oracle and the ticks agree.
PriceAgrees(cp, ohlc) ==
  LET normalized == NormalizedPrice(cp)
      diff       == Distance(normalized, NearestTick(ohlc, cp.publish_time).close)
  IN /\ Normalizable(cp)
     /\ Saturated(diff * BPS_DENOMINATOR) <= Saturated(normalized * MAX_DEVIATION_BPS)

-----------------------------------------------------------------------------
\* Trades.

GrossPayout(trade) == (trade.stake_usdt * trade.multiplier_bps) \div BPS_DENOMINATOR

TradeAccepted(trade, in) ==
  /\ trade.multiplier_bps \in MIN_TRADE_MULTIPLIER_BPS..in.market_max_multiplier
  /\ trade.window_start < trade.window_end
  /\ trade.window_start >= in.window_start
  /\ trade.window_end <= in.window_end
  /\ trade.stake_usdt > 0
  /\ GrossPayout(trade) \in U64
  /\ GrossPayout(trade) = trade.max_payout_usdt

\* Mutant: the first close not before the trade's end.
SettlementClose_Next(ohlc, window_end) ==
  LET settle_idx == TicksUpTo(ohlc, window_end - 1)
  IN IF settle_idx = Len(ohlc) THEN ohlc[settle_idx].close ELSE ohlc[settle_idx + 1].close

\* The last close not after the trade's end.
SettlementClose(ohlc, window_end) ==
  LET settle_idx == TicksUpTo(ohlc, window_end)
  IN IF settle_idx = 0 THEN ohlc[1].close ELSE ohlc[settle_idx].close

\* verify_trade_outcome_close_in_band: the band is half-open.
Won(trade, in) ==
  LET close == SettlementClose(in.ohlc, trade.window_end)
  IN close >= trade.band_lower /\ close < trade.band_upper

TradePayout(trade, in) == IF Won(trade, in) THEN GrossPayout(trade) ELSE 0

\* Mutant: a winner costs the pool his gross payout.
NetOf_Gross(trade, in) ==
  IF Won(trade, in) THEN AsI64(GrossPayout(trade)) ELSE -AsI64(trade.stake_usdt)

\* What the trade adds to net_payout.
NetOf(trade, in) ==
  IF Won(trade, in) THEN AsI64(GrossPayout(trade) - trade.stake_usdt)
                    ELSE -AsI64(trade.stake_usdt)

Total(Amount(_), trades) == SumFunction([i \in DOMAIN trades |-> Amount(trades[i])])

net_payout(in) == Total(LAMBDA t : NetOf(t, in), in.trades)
total_winners_payout(in) == Total(LAMBDA t : TradePayout(t, in), in.trades)
total_losers_stake(in) ==
  Total(LAMBDA t : IF Won(t, in) THEN 0 ELSE t.stake_usdt, in.trades)
num_winners(in) == Total(LAMBDA t : IF Won(t, in) THEN 1 ELSE 0, in.trades)

\* No accumulator overflows on the way.
AccumulatorsFit(in) ==
  /\ \A k \in DOMAIN in.trades :
       net_payout([in EXCEPT !.trades = SubSeq(@, 1, k)]) \in I64
  /\ total_winners_payout(in) \in U64
  /\ total_losers_stake(in) \in U64
  /\ Total(LAMBDA t : t.max_payout_usdt, in.trades) \in U64

payout_leaves(in) ==
  [i \in DOMAIN in.trades |->
     hash_payout_leaf(in.batch_id, in.trades[i].trade_id, in.trades[i].trader,
                      TradePayout(in.trades[i], in), i - 1)]

-----------------------------------------------------------------------------
\* Fees and the pool.

PartOf(amount, bps) == (amount * bps) \div BPS_DENOMINATOR

keeper_fee(in) == PartOf(Distance(net_payout(in), 0), in.keeper_fee_bps)

\* Only on what the pool gains.
protocol_fee(in) ==
  IF net_payout(in) < 0 THEN PartOf(-net_payout(in), in.protocol_fee_bps) ELSE 0

BeforeKeeperFee(in) == in.pool_balance_before - net_payout(in)

pool_balance_after(in) == BeforeKeeperFee(in) - keeper_fee(in)

PoolFits(in) ==
  /\ keeper_fee(in) \in U64
  /\ protocol_fee(in) \in U64
  /\ BeforeKeeperFee(in) \in U64
  /\ pool_balance_after(in) \in U64

PublicOutputs(in) ==
  [batch_id             |-> in.batch_id,
   num_trades           |-> Len(in.trades),
   pool_balance_before  |-> in.pool_balance_before,
   pool_balance_after   |-> pool_balance_after(in),
   net_payout           |-> net_payout(in),
   keeper_fee           |-> keeper_fee(in),
   protocol_fee         |-> protocol_fee(in),
   num_winners          |-> num_winners(in),
   num_losers           |-> Len(in.trades) - num_winners(in),
   total_winners_payout |-> total_winners_payout(in),
   total_losers_stake   |-> total_losers_stake(in),
   payouts_commitment   |-> compute_payouts_merkle_root(payout_leaves(in))]

-----------------------------------------------------------------------------
\* compute_public_outputs.  An empty ohlc panics at ohlc[0].
HostAccepts(in) ==
  /\ in.trades # <<>>
  /\ Len(in.pyth_checkpoints) = N_PYTH_CHECKPOINTS
  /\ OhlcCovers(in)
  /\ \A i, j \in DOMAIN in.trades :
       i < j => /\ in.trades[i].trade_id # in.trades[j].trade_id
                /\ in.trades[i].trader <= in.trades[j].trader
  /\ \A i \in DOMAIN in.trades : TradeAccepted(in.trades[i], in)
  /\ AccumulatorsFit(in)
  /\ PoolFits(in)

\* The guest asserts all of that, and checks the oracle.
GuestAccepts(in) ==
  /\ HostAccepts(in)
  /\ CheckpointsInWindow(in)
  /\ \A i \in DOMAIN in.pyth_checkpoints : PriceAgrees(in.pyth_checkpoints[i], in.ohlc)
=============================================================================
