---------------------------- MODULE ChunkedProof ----------------------------
(***************************************************************************)
(* One run of the settlement CLI with --chunked                            *)
(* (circuit/script/src/bin/main.rs): the batch of a file is split, every   *)
(* chunk is proved by a task of its own, and the aggregator guest sums the *)
(* chunks that the tasks hand back in any order.  The properties also say  *)
(* what the guest computes for the batch as a whole.                       *)
(***************************************************************************)
EXTENDS SettlementGuest

CONSTANTS
  Files,         \* batch files, as the loader parses them
  ChunkSizes,    \* values of --chunk-size
  ClaimedFiles,  \* files of batches whose payouts are claimed, in the properties
  ProofLength,   \* longest list of proof nodes a claim is tried with
  NoAggregate    \* "not aggregated"

ASSUME ChunkSizesPositive == ChunkSizes \subseteq Nat \ {0}

ASSUME FilesParsed == \A file \in Files \cup ClaimedFiles : IsCircuitInputs(file)

ASSUME NoAggregateDiffers == "num_trades" \notin DOMAIN NoAggregate

\* No tree over the trades of a claimed batch is higher than a proof is long.
ASSUME ClaimsWithinLength ==
  /\ ProofLength \in Nat
  /\ \A file \in ClaimedFiles : Len(LevelAt(file.trades, ProofLength)) <= 1

VARIABLES
  base,            \* base_inputs
  chunk_size,      \* args.chunk_size
  phase,           \* "loaded", "proving", "aggregated", "failed"
  chunks,          \* chunked_inputs
  proved_chunks,   \* ProvedChunks, as the join set returned them
  aggregate        \* what the aggregator guest commits

vars == <<base, chunk_size, phase, chunks, proved_chunks, aggregate>>

-----------------------------------------------------------------------------
\* A stable sort: each element goes where as many are as come before it.
Sorted(seq, Before(_, _)) ==
  LET Rank(n) == Quantify(DOMAIN seq, LAMBDA m : \/ Before(seq[m], seq[n])
                                                 \/ m < n /\ ~Before(seq[n], seq[m]))
  IN [k \in DOMAIN seq |-> seq[CHOOSE n \in DOMAIN seq : Rank(n) = k - 1]]

\* The loader's order of trades: by trader, then by id.
TradeOrder(s, t) ==
  \/ s.trader < t.trader
  \/ s.trader = t.trader /\ s.trade_id < t.trade_id

load_circuit_inputs(file) == [file EXCEPT !.trades = Sorted(@, TradeOrder)]

Batches == {load_circuit_inputs(f) : f \in Files}
ClaimedBatches == {load_circuit_inputs(f) : f \in ClaimedFiles}

\* How many chunks of a size a batch makes.
total_chunks(in, size) == (Len(in.trades) + size - 1) \div size

\* Mutant: the last trade of a full chunk is also the first of the next.
TradesOf_Overlapping(in, size, k) ==
  SubSeq(in.trades, k * size + 1, Min({(k + 1) * size + 1, Len(in.trades)}))

\* The trades of chunk k, from 0.
TradesOf(in, size, k) ==
  SubSeq(in.trades, k * size + 1, Min({(k + 1) * size, Len(in.trades)}))

\* Mutant: every chunk is computed against the pool before the batch.
ChunkInputs_SamePool(in, size, k, pool) == [in EXCEPT !.trades = TradesOf(in, size, k)]

ChunkInputs(in, size, k, pool) ==
  [in EXCEPT !.trades = TradesOf(in, size, k), !.pool_balance_before = pool]

\* What the first k chunks leave of the pool.
rolling_pool_balance(in, size, k) ==
  LET pool[n \in Nat] == IF n = 0 THEN in.pool_balance_before
                         ELSE pool_balance_after(ChunkInputs(in, size, n - 1, pool[n - 1]))
  IN pool[k]

\* Mutant: chunks are counted from one.
Chunk_FromOne(in, size, k) ==
  [chunk_index |-> k + 1, total_chunks |-> total_chunks(in, size),
   inner       |-> ChunkInputs(in, size, k, rolling_pool_balance(in, size, k))]

Chunk(in, size, k) ==
  [chunk_index |-> k, total_chunks |-> total_chunks(in, size),
   inner       |-> ChunkInputs(in, size, k, rolling_pool_balance(in, size, k))]

split_into_chunk_inputs(in, size) ==
  [i \in 1..total_chunks(in, size) |-> Chunk(in, size, i - 1)]

\* The host computes the outputs of the batch and of each chunk in turn.
Splittable ==
  /\ HostAccepts(base)
  /\ LET split == split_into_chunk_inputs(base, chunk_size)
     IN \A i \in DOMAIN split : HostAccepts(split[i].inner)

-----------------------------------------------------------------------------
Init ==
  /\ base \in Batches
  /\ chunk_size \in ChunkSizes
  /\ phase = "loaded"
  /\ chunks = <<>>
  /\ proved_chunks = <<>>
  /\ aggregate = NoAggregate

\* main derives the expected outputs, splits, and spawns a task per chunk.
SpawnChunks ==
  /\ phase = "loaded"
  /\ Splittable
  /\ chunks' = split_into_chunk_inputs(base, chunk_size)
  /\ phase' = "proving"
  /\ UNCHANGED <<base, chunk_size, proved_chunks, aggregate>>

\* An assertion or a checked sum fails on the host.
RefuseBatch ==
  /\ phase = "loaded"
  /\ ~Splittable
  /\ phase' = "failed"
  /\ UNCHANGED <<base, chunk_size, chunks, proved_chunks, aggregate>>

Proved(i) == \E n \in DOMAIN proved_chunks : proved_chunks[n].chunk_index = i - 1

\* A task ends with a proof of what the guest commits.
ChunkProved(i) ==
  /\ phase = "proving"
  /\ ~Proved(i)
  /\ GuestAccepts(chunks[i].inner)
  /\ proved_chunks' = Append(proved_chunks, [chunk_index  |-> chunks[i].chunk_index,
                                             total_chunks |-> chunks[i].total_chunks,
                                             outputs      |-> PublicOutputs(chunks[i].inner)])
  /\ UNCHANGED <<base, chunk_size, phase, chunks, aggregate>>

\* A task ends with an error, the guest's or the prover network's, and `??`
\* ends the run; the tasks left are dropped with the join set.
ChunkFailed(i) ==
  /\ phase = "proving"
  /\ ~Proved(i)
  /\ phase' = "failed"
  /\ UNCHANGED <<base, chunk_size, chunks, proved_chunks, aggregate>>

\* Mutant: the order in which the tasks ended.
InOrder_AsJoined(proved) == proved

\* proved_chunks.sort_by_key(|c| c.idx)
InOrder(proved) == Sorted(proved, LAMBDA c, d : c.chunk_index < d.chunk_index)

\* The assertions of the aggregator guest.  It also verifies the proof of each
\* chunk, but not that the outputs next to it are the ones proved: here they are,
\* since a task has compared their hash with its proof's.
AggregatorAccepts(proved) ==
  /\ Len(proved) = Len(chunks)
  /\ proved # <<>>
  /\ \A i \in DOMAIN proved :
       /\ proved[i].chunk_index = i - 1
       /\ proved[i].total_chunks = Len(chunks)
       /\ proved[i].outputs.batch_id = proved[1].outputs.batch_id

\* Mutant: the fee of a chunk the pool gains from is netted against the others'.
Sums_SignedFees(proved) ==
  LET Of(Field(_)) == SumFunction([i \in DOMAIN proved |-> Field(proved[i].outputs)])
  IN [chunks               |-> proved,
      num_trades           |-> Of(LAMBDA o : o.num_trades),
      num_winners          |-> Of(LAMBDA o : o.num_winners),
      num_losers           |-> Of(LAMBDA o : o.num_losers),
      total_winners_payout |-> Of(LAMBDA o : o.total_winners_payout),
      total_losers_stake   |-> Of(LAMBDA o : o.total_losers_stake),
      net_payout           |-> Of(LAMBDA o : o.net_payout),
      keeper_fee           |-> Of(LAMBDA o : IF o.net_payout < 0 THEN -o.keeper_fee
                                             ELSE o.keeper_fee),
      protocol_fee         |-> Of(LAMBDA o : o.protocol_fee)]

Sums(proved) ==
  LET Of(Field(_)) == SumFunction([i \in DOMAIN proved |-> Field(proved[i].outputs)])
  IN [chunks               |-> proved,
      num_trades           |-> Of(LAMBDA o : o.num_trades),
      num_winners          |-> Of(LAMBDA o : o.num_winners),
      num_losers           |-> Of(LAMBDA o : o.num_losers),
      total_winners_payout |-> Of(LAMBDA o : o.total_winners_payout),
      total_losers_stake   |-> Of(LAMBDA o : o.total_losers_stake),
      net_payout           |-> Of(LAMBDA o : o.net_payout),
      keeper_fee           |-> Of(LAMBDA o : o.keeper_fee),
      protocol_fee         |-> Of(LAMBDA o : o.protocol_fee)]

AllProved == phase = "proving" /\ Len(proved_chunks) = Len(chunks)

\* The last task has been joined: sort, aggregate, write the JSON.
AggregateChunks ==
  /\ AllProved
  /\ AggregatorAccepts(InOrder(proved_chunks))
  /\ aggregate' = Sums(InOrder(proved_chunks))
  /\ phase' = "aggregated"
  /\ UNCHANGED <<base, chunk_size, chunks, proved_chunks>>

\* The aggregator guest or the prover network fails.
AggregateFailed ==
  /\ AllProved
  /\ phase' = "failed"
  /\ UNCHANGED <<base, chunk_size, chunks, proved_chunks, aggregate>>

Next ==
  \/ SpawnChunks
  \/ RefuseBatch
  \/ \E i \in DOMAIN chunks : ChunkProved(i) \/ ChunkFailed(i)
  \/ AggregateChunks
  \/ AggregateFailed

Spec == Init /\ [][Next]_vars

-----------------------------------------------------------------------------
TypeOK ==
  /\ base \in Batches
  /\ chunk_size \in ChunkSizes
  /\ phase \in {"loaded", "proving", "aggregated", "failed"}
  /\ \A i \in DOMAIN chunks : chunks[i].chunk_index = i - 1
  /\ \A n \in DOMAIN proved_chunks :
       proved_chunks[n].chunk_index \in 0..total_chunks(base, chunk_size) - 1
  /\ (aggregate = NoAggregate) <=> (phase # "aggregated")

-----------------------------------------------------------------------------
Claimable == phase = "loaded" /\ base \in ClaimedBatches /\ HostAccepts(base)

Root == compute_payouts_merkle_root(payout_leaves(base))

\* The walk of distribute_winnings for trade i.
ClaimedRoot(i, payout, index, proof_nodes) ==
  compute_merkle_root_from_proof(
    hash_payout_leaf(base.batch_id, base.trades[i].trade_id, base.trades[i].trader,
                     payout, index),
    index, proof_nodes)

\* A claim is paid only what the guest decided and under the one index the
\* guest gave the trade, whatever nodes of the tree the caller presents and
\* however many: the copies that fill up odd levels prove nothing more
\* (utils/mod.rs:14-29, admin.rs:84-98, circuit/lib lib.rs:181-208).
ClaimsAreLeaves ==
  Claimable =>
    \A i \in DOMAIN base.trades, index \in 0..2^ProofLength - 1 :
      \A payout \in {0, GrossPayout(base.trades[i])},
         proof_nodes \in SeqOf(NodesAbove(payout_leaves(base)), ProofLength) :
        ClaimedRoot(i, payout, index, proof_nodes) = Root =>
          index = i - 1 /\ payout = TradePayout(base.trades[i], base)

\* Every trade of a batch of any size has a proof that the walk accepts, so
\* that no payout is stuck.
LeavesClaimable ==
  Claimable =>
    \A i \in DOMAIN base.trades :
      \E proof_nodes \in SeqOf(NodesAbove(payout_leaves(base)), ProofLength) :
        ClaimedRoot(i, TradePayout(base.trades[i], base), i - 1, proof_nodes) = Root

\* The binary search and the two distances find the tick nearest to a
\* checkpoint, the earlier one of two equally near (circuit/program
\* main.rs:126-142).
NearestTickIsNearest ==
  phase = "loaded" /\ OhlcCovers(base) /\ CheckpointsInWindow(base) =>
    \A c \in DOMAIN base.pyth_checkpoints :
      LET at  == base.pyth_checkpoints[c].publish_time
          hit == NearestTick(base.ohlc, at)
      IN \A i \in DOMAIN base.ohlc :
           LET other == base.ohlc[i] IN
           \/ Distance(hit.ts, at) < Distance(other.ts, at)
           \/ Distance(hit.ts, at) = Distance(other.ts, at) /\ hit.ts <= other.ts

\* A trade is settled on a close that was known when it expired, and on none
\* older than another such close (main.rs:211-217).
SettledOnLastClose ==
  phase = "loaded" /\ HostAccepts(base) =>
    \A i \in DOMAIN base.trades :
      \E n \in DOMAIN base.ohlc :
        /\ base.ohlc[n].ts <= base.trades[i].window_end
        /\ base.ohlc[n].close = SettlementClose(base.ohlc, base.trades[i].window_end)
        /\ \A later \in n + 1..Len(base.ohlc) :
             base.ohlc[later].ts > base.trades[i].window_end

\* What the pool had and the traders staked is what the pool has, the keeper
\* takes and the traders are paid, as long as every gain fits the i64 it is
\* cast to (main.rs:220-242 and 260-293).
MoneyConserved ==
  phase = "loaded" /\ HostAccepts(base)
  /\ (\A i \in DOMAIN base.trades : GrossPayout(base.trades[i]) <= I64_MAX) =>
    base.pool_balance_before + Total(LAMBDA t : t.stake_usdt, base.trades)
      = pool_balance_after(base) + keeper_fee(base) + total_winners_payout(base)

\* Whatever order the tasks end in, the aggregator takes their proofs: a batch
\* all of whose chunks are proved is never refused at the end (main.rs:652-663,
\* aggregator-program main.rs:13-34).
ProvedChunksAggregate ==
  AllProved => AggregatorAccepts(InOrder(proved_chunks))

\* The aggregate counts every trade of the batch once and nets to what the
\* guest would commit for the batch in one piece; its chunks, in order, hand the
\* pool on, and the last leaves it without the net and all the fees.
AggregateIsWhole ==
  phase = "aggregated" =>
    LET c == aggregate.chunks IN
    /\ aggregate.num_trades = Len(base.trades)
    /\ aggregate.num_winners = num_winners(base)
    /\ aggregate.num_losers = Len(base.trades) - num_winners(base)
    /\ aggregate.net_payout = net_payout(base)
    /\ aggregate.total_winners_payout = total_winners_payout(base)
    /\ aggregate.total_losers_stake = total_losers_stake(base)
    /\ c[1].outputs.pool_balance_before = base.pool_balance_before
    /\ \A i \in 2..Len(c) :
         c[i].outputs.pool_balance_before = c[i - 1].outputs.pool_balance_after
    /\ c[Len(c)].outputs.pool_balance_after
         = base.pool_balance_before - aggregate.net_payout - aggregate.keeper_fee

\* Fees are taken of each chunk's own net, so that chunking never lowers them
\* by more than the rounding of each chunk.
FeesNotAvoided ==
  phase = "aggregated" =>
    /\ aggregate.keeper_fee + total_chunks(base, chunk_size) > keeper_fee(base)
    /\ aggregate.protocol_fee + total_chunks(base, chunk_size) > protocol_fee(base)
=============================================================================
