# Verification of Carnot

Carnot settles off-chain trades on Solana in batches. Traders post margin and liquidity
providers (LPs) a pool to the on-chain program `carnot_engine`; a keeper bot takes the
batch of a window that has closed, has it proved by an SP1 circuit, settles the batch's
net between pool and margin with the proof, and distributes the single trades against a
Merkle root the proof commits to.

This directory holds TLA+ modules translated from the source, TLC configurations that
check them on small instances, and theorems checked by TLAPS. Paths below are relative to
the repository; the program is `program/programs/carnot_engine/src`.

## 1. Inventory

| Part | State it keeps | Operations | Talks to |
|---|---|---|---|
| Pool (`module/lp.rs`, `state/vault.rs`) | `VaultState`: shares, pool total, margin total, liability, fees; `LpPosition` | `lp_deposit`, `lp_withdraw`, `check_solvency` | SPL token vaults |
| Margin (`module/trade.rs`) | `TraderAccount`: balance, locked | `trader_deposit`, `trader_withdraw`; by the keeper `lock_margin`, `unlock_margin` | SPL token vaults |
| Markets (`module/market.rs`) | `MarketState`: regime, multiplier cap, time of the last update | `init_market` (admin), `update_market` (keeper) | settlement, which binds proofs to it |
| Administration (`module/admin.rs`, `lib.rs`, `state/global.rs`) | `GlobalState`: keeper, paused, last batch, intervals | `admin_init`, `rotate_keeper`, `pause`, `unpause`, `withdraw_protocol_fees` | all instructions |
| Settlement (`module/admin.rs`, `state/context.rs`, `utils/mod.rs`) | `BatchReceiptAccount`, `NullifierAccount`, `ClaimReceipt` | `verify_and_settle` (keeper), `distribute_winnings` (anyone) | pool, margin, proof, Pyth accounts |
| Circuit (`circuit/program`, `circuit/lib`) | none | guest: checks inputs, computes payouts, fees and commitments | program, through the public outputs hash |
| Chunks (`circuit/aggregator-program`, `circuit/script/src/bin/main.rs`) | files per chunk | split, prove, aggregate | circuit |
| Prover service (`circuit/script/src/bin/keeper_prover.rs`) | retry counters, metrics | prove with retry, line protocol | keeper, SP1 |
| Keeper watcher (`keeper/src/watcher.ts`, `index.ts`) | `emittedAt`, `inProgress`, `settled` in memory | poll timer, exit (the log subscription never fires, see section 5) | job |
| Keeper job (`keeper/src/jobs/settlement.ts`, `submitter.ts`) | where each job awaits | cooldown, fetch, prove, submit, confirm, distribute | backend, prover, program |
| Prover child process (`keeper/src/prover.ts`) | two temporary files per call, the child, a timer | spawn, exit event, kill, read the proof, remove the files | job; the `carnot` binary, through the files |
| Reward tracker (`keeper/src/reward-tracker.ts`) | SQLite rows | `recordReward` | job |
| SDK, client, CLI, scripts | none | types, addresses, transaction builders | — |
| External | | backend API, Pyth receiver, SPL token, SP1 network | |

What is hard here, and what has to be true:

* **Money is booked apart from the tokens.** Totals, balances, locks and token accounts
  are separate numbers, changed by different instructions at different times. A batch
  moves its net at once; its trades are distributed later, one by one, by anybody. The
  parts must add up in every order.
* **Proofs are stale by construction.** A proof takes minutes; the pool, the regime and the
  cap may change meanwhile. It must settle on exactly the terms it was made for or not at
  all, and only once, however many keepers try.
* **Integers are floored and bounded.** Shares and fees are rounded down, and the pool can
  reach zero with shares outstanding.
* **The keeper forgets.** Its memory is lost at every exit, and it exits on every error it
  does not know. Signals are throttled, windows are superseded, cooldowns apply twice, and
  the pool may move under a proof; a batch must nevertheless be settled.
* **Children run beside their parent.** A prover child may hang, be killed in the middle of
  a write or outlive the keeper that spawned it, and talks to it through files whose names
  hold a millisecond. A call must get the proof of its own batch and clean up after itself.
* **A request is answered once.** The prover service retries with an exponential backoff
  inside a request, refuses some payloads and cannot read others, while its client goes on
  sending; answers are matched to requests by their order.

`PROJECT.json` lists each hazard at its line, with the properties that watch it.

## 2. Modules

    EngineState  accounts, tokens, arithmetic
      EngineLp, EngineTrade, EngineMarket, EngineAdmin  one per module/*.rs
      Prover       what the guest commits for a closed batch
    CarnotEngine   all of them with clock, trades and windows: Spec and properties
      TradeLedger  what a trader is promised; CarnotEngine implements it
    CarnotEngineProofs   theorems of the engine (TLAPS)
    AccountingProofs   its theorems about sums: shares, fees, margin, locks, tokens; a fresh
                   proof settles; Prover admits what SettlementGuest accepts (TLAPS)
    LedgerProofs   the engine implements the ledger, and is the chain Keeper assumes (TLAPS)
    MCEngine       instances for TLC
    Keeper         processes, jobs and the chain as a keeper sees it
      KeeperProofs   theorems of the keeper (TLAPS)
      MCKeeper       instances for TLC
    ProverProcess  one keeper process, the children of its jobs and their files
      ProverProcessProofs  theorems of the prover process (TLAPS)
    ProverService  the prover service, its retries and its client
      ProofQueue   what the service promises; ProverService implements it
      ProverServiceProofs  theorems of the service, and that it implements ProofQueue (TLAPS)
      MCProverService  payloads and settings for TLC
    PayoutMerkle   payout tree of the guest, proof walk of the program
      SettlementGuest   the guest's assertions, outcomes, fees and totals
        ChunkedProof    the CLI's chunked proof and the aggregator
          CircuitProofs    theorems of tree, guest, chunks and aggregate (TLAPS)
          MCChunkedProof   batch files for TLC
    DataTheorems   induction and recursion over naturals, sums over finite sets (TLAPS)

### The engine

One variable per account field, one action per instruction with the instruction's name,
its `require!`s as conjuncts in the order of the code and its checked arithmetic as
membership in `U64` (`U64_MAX` is a parameter). A Solana transaction is atomic: an
instruction that fails changes nothing, so an error path is an action that is not enabled.
`verify_and_settle` is written as everything that may refuse it (`SettlementAccepted`) and what
it assigns, so that its guard can be reasoned about by itself. Optional accounts are `NoKey`, `NoReceipt` or absence from a set; `init` in an account
context is the conjunct that the account does not exist yet.

| Definition | Code |
|---|---|
| `lp_deposit`, `lp_withdraw` with `SharesMinted`, `AmountRedeemed` | `module/lp.rs` |
| `trader_deposit`, `trader_withdraw`, `lock_margin`, `unlock_margin` | `module/trade.rs` |
| `init_market`, `update_market`, `apply_params` | `module/market.rs`, `state/market.rs` |
| `admin_init`, `rotate_keeper`, `pause`, `unpause`, `withdraw_protocol_fees` | `module/admin.rs`, `lib.rs` |
| `verify_and_settle`: `SettlementAccepted` (`BatchNotSettled`, `BatchDue`, `OutputsMatchChain`, `CheckpointsMatch`, `ProofVerifies`, `VaultFits`, `TokensSuffice`), `SettleVault`, `SettleTokens` | `module/admin.rs:124-358`, `context.rs:84-137` |
| `distribute_winnings`: `HasLeaf`, `NotClaimed`, `BalanceAfter`, `LockAfter` | `module/admin.rs:69-122` |
| `Prove`, `GuestAccepts`, `PublicOutputs` | `circuit/program/src/main.rs` |

Abstractions. A proof is the record of public outputs the guest commits. `ProofVerifies`
stands for `verify_groth16` (`admin.rs:230-239`) and takes it, with SP1 and the built-in
verifying key, as sound and complete: what verifies is exactly what a guest run committed.
Hashes are taken as injective. Prices are reduced to their effect, which trades of a
closed window won: `CloseWindow` picks any subset. The price accounts a transaction names
either hash to the checkpoints of the proof or not (`CheckpointsMatch`, `admin.rs:222-228`):
a proof is made with accounts that do (`posted`), and as they belong to the Pyth receiver and not
to the program, they may be written again or closed before it is settled
(`PriceAccountsChange`); a new proof then posts them again. `payouts_commitment` is the
function from trades to payouts. Proving reads the chain of that moment into `proof[b]`;
settling may come much later, and a batch may be proved again. `AcceptTrade` is the
backend's acceptance of an off-chain trade, known here by the `lock_margin` it makes;
`ReleaseTrade` the explicit `unlock_margin` that `distribute_winnings` makes allowance for
(`admin.rs:111`).

**What the program leaves to its callers.** Two arguments are not verified by the code, so
the model has them as parameters and the properties that need them right say so.

* *The accounts.* The LP vault of `lp_deposit`, `lp_withdraw`, `verify_and_settle` and
  `withdraw_protocol_fees` is a token account constrained by `mut` only (`context.rs:77-78`,
  `124-125`, `241-242`, `270-271`), and so are the callers' own accounts (`79-80`, `133-134`,
  `239-240`, `268-269`, `298-299`, `370-371`); the trader vault is a PDA and cannot be another one.
  The instructions therefore take the accounts as `own` and `vault`, and the token program's own
  rule is all that restricts them: a source must be its authority's and hold the amount.
  `PassedAs` says what accounts may be passed for each role. `OwnAccountsPassed` says that each
  is the one it stands for; it is the hypothesis of whatever relates tokens to totals:
  `BooksMatchTokens`, `FeesAccounted`, `TraderVaultCovers`, `FreshProofSettles`.
* *The stake.* `distribute_winnings` may be called by anyone (`context.rs:166`) and takes
  `stake_usdt` from its caller: "original stake, trusted from the keeper" (`admin.rs:64`). It is
  not in the Merkle leaf (`86-92`), is compared with nothing but the balance and changes balance
  and lock (`103-112`). `StakesPassed` says what stakes a distribution of a trade may be told, and
  `TrueStakesPassed` that it is the stake the trade was accepted at. The net of the batch was proved
  with the true stake, so what adds up parts needs it: `MarginAccounted`, `LockedUpToReleases`,
  `ClaimsPayable`, `TraderVaultCovers`, `FreshProofSettles`.

Every other property of the engine is stated, and proved, without them. Assumed besides: the
keeper locks the stake of every trade it accepts; a batch's `keeper_fee_bps` is at most 100 %
(`KeeperFeeIsPart`; the guest does not bound it).

### The ledger

`TradeLedger` is the promise to traders: a trade is placed while its window is open, the
window's end decides it, its batch is settled once and as a whole, and the trade is then
paid once, its prize less the stake the payment is told. Nothing else changes a balance but
the trader's own deposits and withdrawals. Pool, proofs, markets, locks and fees do not
appear. With true stakes it is the prize for the stake; the ledger does not hide that the
program leaves that stake to its caller.

### The circuit

`SettlementGuest` is the guest as operators on its private inputs: each group of assertions
(B1 to B6, A2, A3, C4, D1 to D4) is a predicate, each search, outcome and total a function,
with checked sums as membership in `U64` or `I64`, `as i64` as a wrap and saturating
products as they are. `HostAccepts` is the CLI's mirror `compute_public_outputs`, which checks
less of the oracle. `PayoutMerkle` has the tree with its duplicated last nodes and the
program's walk, both as recursive functions over the rounds; a hash is the record of its
preimage. The power of ten in `normalize_pyth_price` wraps as it does in a release build, and a
division by a power that has become 0 is a panic. `Prover` is the engine's view of all
this: payouts, net, fees and pool of a batch, with the winners chosen freely.

`ChunkedProof` is one run of the CLI with `--chunked`: load and sort, split against the
rolling pool, a task per chunk (`ChunkProved`, `ChunkFailed` in any order), sort,
aggregate. The aggregator checks every chunk's index, `total_chunks` and batch; its verification of
the chunk proofs themselves is what makes a chunk's outputs those of the guest, and is taken for
granted with SP1. Its inputs are batch files as the loaders parse them, so that commitments and
sorted ids always belong to the trades.

### The keeper

`Keeper` has one action for what a process runs between two awaits. `job[p][b]` says where
the job of process `p` for batch `b` waits: `cooldown`, `fetch`, `prove`, `submit`,
`confirm`, `proofs`, `distribute`; `emitted_at`, `in_progress` and `settled_at` are the
watcher's and `index.ts`'s maps. `Exit` and `ProcessExit` lose all of them, `Restart`
starts over (`docker-compose.yml`, `restart: unless-stopped`). Several processes may run
with the same key (`submitter.ts` speaks of "another keeper"), each with the markets of its own
`MARKETS_CONFIG` (`Watched`).

The chain is what a keeper can tell of it: receipts, time of the last batch, a version
number of the pool and of each market, and claims. A proof carries the versions it was
made against, and `submitSettlement` distinguishes the program's answers in the order the
program gives them: account already in use, `BatchTooSoon`, stale regime or another batch's
proof (unknown to the job: the process exits), stale pool (retried). A regime only grows, so a
stale one stays stale; a pool that moved may hold again what the proof says, and the proof is then
accepted.

The proof a job submits is normally its own batch's. `ProverProcess` shows how it can be another's,
and `generateSettlementProof` has that as an alternative: the job of `b` gets the proof of another
published batch `c`, and `<<b, c>>` is recorded in `mixups`. If `c` is settled by then the
transaction fails on its nullifier, which the job takes for a lost race. `MaxMixups` bounds how many
pairs are mixed up; it is 0 in the liveness runs, which assume that proofs are not mixed up.

### The prover's child processes

`ProverProcess` is `generateSettlementProof` for the jobs of one keeper process, with the
children that `Keeper` has as the single step `prove`. The process and its children run in
parallel: `StartCall`, `OnExit` and `OnTimer` are what the event loop does without an
await, `ChildReads`, `ChildOpens`, `ChildWrites` one system call of the child each, with
`write_json`'s truncation visible. A file is known by the millisecond in its name, and
`Simultaneous` says whether two calls may share one. `Exit` loses the calls in progress and
leaves their children and files; such an orphan reads its input but never gets to
`write_json`, because it first prints to a stdout that is closed, which is a panic.
`OnTimer` kills the child and removes the files in one step, as `SIGTERM` leaves the child
no time to write once its output has lost its name.

What the job does with a proof is `submitSettlement`, reduced to what tells batches apart:
accounts already in use give null and the batch is remembered as settled; otherwise the
proof must be of the batch. Cooldowns and stale pools, which `Keeper` has, are here one
nondeterministic answer that ends the call.

### The prover service

`ProverService` is `keeper_prover.rs`: the stdin loop and its one-shot mode
(`ReadLine`, `handle_incoming`, `EndOfInput`), `prove_with_retry` with an action per attempt
and per sleep, its metrics and its answers. Lines are what `serde` makes of them: every field
of the wrapped request has a default, so a bare batch parses as a wrapped request without
batch data and is refused. (Only a bare batch that also has a field of the wrapped form which does
not parse reaches the `Direct` variant; it is then proved like a wrapped request without an id.) A
malformed batch makes the whole line unreadable and its answer has no id; bytes that are not UTF-8
end the service.
`batch_to_circuit_inputs` is `AcceptsInputs`, on payloads that differ in what it looks at;
what shows only after proving (a wrong expected hash, missing accounts) is `Provable`. Of the
outputs a request may bring along, the service compares nothing but the hash with the one the guest
commits (`keeper_prover.rs:354-361`) and answers with the others as they came (`384`, `677-688`):
outputs are a hash and a rest here, and a batch with a true hash and a false rest is proved.

`ProofQueue` is the promise: one answer for each request, in the order of the requests, each
of them an answer to its request. For a proof that means: of accepted inputs of the batch asked for, with
outputs that carry the hash the guest committed for them, whatever else they say.

## 3. Runs

| Run | Instance | Question | States |
|---|---|---|---|
| `EngineLp` | 2 LPs, 1 trader, 2 keepers, 1 batch of 1 trade whose distribution is told a stake of 1 or 2, regime and price account changes, pause, fee withdrawals, 2 ticks | the pool around a settlement: `BooksMatchTokens`, `SharesBacked`, `FeesAccounted`, `SharePriceKept`; the terms it is made on: `SettledOnTerms`, `SettledOnce`, `FrozenWhilePaused`; refinement of `TradeLedger`: `LedgerKept` | 758 k |
| `EngineTrade` | 1 LP, 2 traders, 3 trades in 2 batches, one of which may be unlocked explicitly, 2 ticks, a timelock of 1, no protocol fee, right accounts, true stakes | locks, claims and the vault in every order: `LockedWithinBalance`, `LockedUpToReleases`, `MarginAccounted`, `TraderVaultCovers`, `ClaimsPayable`; settlement: `FreshProofSettles`, `SettlementsSpaced` | 835 k |
| `KeeperRace` | 2 processes and the batches of 2 markets, one of which only one process watches; any delay; an exit, a failure or a pool change; a proof of the other batch | `SettledIsOnChain`, `RewardBookedOnce` | 2,058 k |
| `KeeperExit` | 1 prompt process, 2 windows, a pool change, a regime change, an exit | liveness: `PublishedSettled`; without an exit also `PublishedPaid` | 76 k |
| `ChunkedProof` | 4,478 files, chunks of 1 and 2 | ticks, outcomes and money of a batch: `NearestTickIsNearest`, `SettledOnLastClose`, `MoneyConserved`; claims: `ClaimsAreLeaves`, `LeavesClaimable`; chunks: `ProvedChunksAggregate`, `AggregateIsWhole`, `FeesNotAvoided` | 143 k |
| `ProverProcess` | 3 calls, 2 batches, any two calls in one millisecond, exits and restarts | `ProofIsOwn`, `NothingLeftBehind`; liveness: `EveryCallEnds` | 390 k |
| `ProverService` | 3 lines, 5 payloads, 3 retry settings, both modes | `HealthTruthful`, `BackoffGrows`; refinement of `ProofQueue`: `QueueKept`; liveness: `EveryLineAnswered` | 577 k |

`FreshProofSettles` says that a proof that fits the chain of the moment can be settled with
once the interval is over, unless the program is paused or a stake was released: no token is
missing and none of the other checks refuses, whoever withdrew before. It speaks of the guard
`SettlementAccepted`, which has every check of the instruction; the rest of `verify_and_settle`
assigns every variable, so that the guard is all it takes. What the program does not decide is a
hypothesis: that the price accounts still hash to the proof's checkpoints, and that the right
accounts and stakes are passed; that the verifier accepts what the guest proved is
assumed. Two refusals are hypotheses too: accrued fees that would exceed their `u64`, and a net of
`i64::MIN`, of which the guest takes `unsigned_abs` and the program `checked_abs`. (A cap above `u32`
gets no proof in the first place: the guest's input is a `u32`, and the program converts the
market's to one.)

`SettledIsOnChain` says that a keeper that remembers a batch as settled is right, or a call for the
batch was given the proof of a settled one. The exception is real: it is what `ProverCollisionDoc`
shows at the level of the files.

Five runs have a violation as their expected result. Each states what a comment or a
document says and shows the code doing something else; `PROJECT.json` quotes the lines.

* `EngineReleaseDoc`: with an explicit unlock, `locked_usdt` is not the sum of open stakes
  any more: distribution takes the stake from the lock of another trade. (`EngineTrade`
  shows what still holds: the lock is short by no more than the stakes released, stays within
  the balance, and the margin stays accounted for.)
* `EngineSolvencyDoc`: the solvency ratio is to be a hard invariant of the pool. An LP funds the
  pool, a trade is accepted whose payout it covers 1.5 times, and after the timelock the LP redeems
  shares: `check_solvency`, which is there to refuse that, does not, since `current_liability` is never
  raised, and the pool no longer holds the ratio. (A trade accepted against too small a pool would
  break the ratio too, but no instruction could refuse it: acceptance is off chain.)
  `SolvencyNeverRefuses` proves that the check cannot fail.
* `KeeperDriftDoc`: with the default interval equal to the default window every
  settlement is later than the last by the time of a proof, until a window passes.
* `KeeperDistributeDoc`: a distribution that fails once is not tried again. An exit after the
  settlement transaction has the same effect, and loses the reward's row too: the restarted
  process finds the receipt and takes the race for lost.
* `ProverCollisionDoc`: null is to mean that another keeper settled first. Two calls that start
  in one millisecond share their files; a call may get the proof of the other's batch, and
  when that batch is settled meanwhile the transaction fails on its nullifier, the answer is
  null and the process remembers an unsettled batch as settled for 48 hours. Within one
  process this takes two markets' jobs in the same millisecond; two keeper processes
  that share a temporary directory meet it just as well.

### Bounds, and why they are enough

* `MaxTime`, `Genesis`: the clock runs from 1 to 2, and all intervals, the withdrawal timelock
  included, are one tick: that distinguishes "too soon" from "due" for every timer, and LPs withdraw
  in every run; more ticks repeat the same comparisons.
* `PassedAs` gives every role its own account in the runs; that the properties without the
  hypothesis hold whichever accounts are passed is shown by the proofs. `StakesPassed` is the true
  stake, and 1 or 2 in `EngineLp`. `Overwritable`: price accounts change in `EngineLp`.
* `U64_MAX = 13`, tokens 0 to 3 per holder: a deposit, a settlement and a fee all fit and
  the sum of all tokens reaches the upper half of the range; stakes of 1 and 2 with
  multipliers of 1.5 and 2 give positive, zero and negative nets, and fees of 50 % round.
  The protocol's fee and its withdrawal are in `EngineLp`; `EngineTrade` has the keeper's only,
  which leaves the pool with the settlement.
  Amounts are chosen so that rounding of shares happens in both directions.
* `EngineLp` has two keepers, so that a proof and a key rotation meet, and regimes that change
  under a proof.
* Three trades over two batches and two traders is the smallest instance with two trades
  of different traders in a batch and two open trades of a trader in different batches.
* Circuit: all lists of up to four ticks at six times around a window of four, with two
  closes, against eight kinds of middle checkpoint (late, early, equal, off by 20 % and by
  more, negative, other scales); all batches of up to four trades of two terms, winning or
  losing, against a small and a large pool; seven files at the limits of `u64` (127) and
  `i64` (63). Claims are tried on batches of one to five trades, which have even and odd
  levels up to three deep, with every list of up to three nodes of the tree and every index
  below 8. 10 bps make a whole, so that halves and fees round.
* Keeper: in `KeeperRace` the second market is watched by one process only, which is enough for a
  proof to be mixed up while the first market's batch is raced for; a regime change is left to
  `KeeperExit`. Times are ticks; windows of 2 to 11 ticks against a poll of 1 and a proof of 1.
  `MaxPoolChanges`, `MaxRegimeChanges`, `MaxExits`, `MaxFailures` bound what the world may
  spoil and `MaxSpoiled` how much of it together; the window of the liveness run is long enough
  for a batch to be published in time for all the attempts that may then be spoiled
  (three attempts of 3 ticks, 9 < 11). `Prompt`
  makes the liveness run tractable and meaningful: without it a process may be arbitrarily
  slow and no deadline can be kept.
* Prover process: three calls for two batches are two that share a millisecond and one before or
  after them, for another batch or the same again after an exit; a timeout of one tick in a
  clock of two lets a call start after another's timer.
* Prover service: three lines are a request with one before it and one after; the settings have
  no attempt, two without a delay, and four with delays that grow, meet the cap, and
  overflow `U64_MAX = 15` before they are capped.
* No symmetry is used; the engine's deadlocks at the end of time and of tokens are the
  bounds' and not the system's, hence `CHECK_DEADLOCK FALSE`.

### Fairness

`FairSpec` of `Keeper`: weak fairness of time, of each process's poll timer
and running jobs (one event loop gets to every timer and settled promise; every request
has a time limit and then returns or throws) and of the restart (`restart: unless-stopped`).
Nothing is assumed of the backend or of other claimers. That is why the
liveness properties speak only of batches the backend published in time.

`FairSpec` of `ProverProcess`: time passes and the event loop gets to a timer that fired.
Nothing is assumed of a child, which may hang for ever.

`Spec` of `ProverService`: the service goes on while it runs; an attempt, which is a call of
SP1 without a time limit, is assumed to come back. Nothing is assumed of the client.

## 4. Proofs

The modules named `...Proofs` prove, for all constants that satisfy the named assumptions (any
number of parties, calls, batches, trades, ticks and chunks, any amounts, any width), what
the runs check on instances: every invariant, every action property, and both
refinements. Two theorems, `GuestWithinProver` and `ChainSeenCorrect`, join modules that no run
composes. `PROJECT.json` lists the theorems with the properties they state.

`DataTheorems` is what they share. Library theorems that take an operator cannot be
instantiated, so induction is stated over sets (`Induction`: a set with 0 and the
successors of its members holds all naturals), and facts about sums over finite sets are
proved from a smallest set that is a counterexample (`MinimalSubset`). `Recursion` says that a
function on the naturals defined by steps exists, which is what a `LET f[n \in Nat] == ...`
needs before anything can be said of it. The recursions of the model are such functions, and
no module under a theorem has a RECURSIVE operator.

| Theorem | Argument |
|---|---|
| `TypeCorrect` | `TypeOK` is inductive; one lemma per instruction. `BatchTrades` sums need no induction: `Outputs` carries their width, as the guest's checked arithmetic does. |
| `BooksCorrect` | under `OwnAccountsPassed`: `BooksMatchTokens` with `Untouched` (nothing has been moved before `admin_init`, which resets the totals). |
| `LockedCorrect` | inductive over `TypeOK`; `distribute_winnings` needs that lock and balance lose the same stake unless saturated, whatever stake that is. |
| `SpacingCorrect` | strengthened by "no receipt is later than `last_batch_at`, nor that than now". |
| `SettledOnceCorrect` | `BatchNotSettled`; claims only grow. |
| `SharePriceCorrect` | the products of share and pool before and after, from the defining inequality of floor division; a losing batch needs `FeeWithinNet`: a proved fee is at most the gain. |
| `SettledOnTermsCorrect` | `ProofOnTerms`: a proof's cap bounds the multipliers of all trades of its closed batch, and nobody joins a closed batch. |
| `FrozenCorrect` | paused implies set up; each instruction but five checks the flag. |
| `SolvencyNeverRefuses` | `current_liability = 0` is inductive. |
| `LedgerCorrect` | `PayoutsDecided`: every proof and every receipt of a closed batch commits to the payouts its window's end decided, since a closed batch gains neither trades nor winners. With it `distribute_winnings` pays the ledger's outcome for the stake it is told, whatever that is, and `verify_and_settle` settles a batch whose window has ended; every other step is the ledger's own or a stutter. |
| `ChainSeenCorrect` | Every step of the engine is, to a keeper, a settlement, a claim, a new regime or a move of the pool (`ChainSeen`), which are the steps of the chain in `Keeper` (where the markets exist from the start). `RegimeTells`, which it carries along, says why one version number stands for a market's terms: a proof's regime is the market's or an earlier one, and if it is the market's, so is its cap. Claims are of trades of the batch by `PayoutsDecided`. |
| `SharesCorrect`, `FeesCorrect` (under `OwnAccountsPassed`) | `FeesBooked` has the fees as sums over all batches, of which a settlement changes one summand; both need `NothingBooked`: before `admin_init`, which resets the totals, there is nothing to lose. |
| `MarginCorrect` | under `TrueStakesPassed`. `AccountInv`: with `NothingBooked` and `PayoutsDecided`, only settled trades are claimed (`ClaimsSettled`), and the net of every proof is that of the payouts it commits to (`ProofsBalance`). A settlement moves the net of its batch into the sum of what is not distributed, a distribution takes one trade out of it. |
| `LockedUpToReleasesCorrect` | under `TrueStakesPassed`. `LockBounds`: the lock is at most the open stakes, and short of them by at most the stakes both released and distributed, which came off twice. |
| `ClaimsPayableCorrect`, `VaultCoversCorrect` | from the two above, under `TrueStakesPassed`, and for the vault `BooksMatchTokens`, under `OwnAccountsPassed`, by comparing sums trader by trader. |
| `TokensCorrect` | Tokens of the vaults and wallets add up to `InitialTokens` after every instruction, by what it takes from one account and puts into another, whichever accounts are passed. |
| `FreshProofCorrect` | under `OwnAccountsPassed` and `TrueStakesPassed`. `FreshInv`: nullifiers are of settled batches, so an unsettled batch's is new; a proof bears its batch's, its market exists, and its pool pays net and fee (`ProofsStand`). If the proof fits the chain, the guest's assertions are then the program's checks of the pool. That the trader vault holds what the pool gains follows from `VaultCoversCorrect`, since a batch's losses are among the stakes at risk (`GainIsHeld`); that no total exceeds its `u64` from `TokensCorrect`, since the mint's supply is a `u64` (`VaultsFit`). The solvency check cannot refuse. |
| `GuestWithinProver` | For a batch file that describes a batch and the chain of the moment (`IsBatchFile`: trades in any order, the same stakes, multipliers and outcomes). Trade by trade payout and net agree once the payouts fit their cast (`TradeOfFile`); the sum over the file is the sum over the batch, for a bijection (`SumsOfFile`); fees and pool follow. The converse is not claimed: the guest also looks at ticks, oracle and the order of partial sums, so `Prover` proves no less than the guest, and what holds of the engine holds for the proofs the guest makes. |
| `TypeCorrect` of `KeeperProofs` | inductive; one lemma for each kind of move of a job. |
| `SettledIsOnChainCorrect`, `RewardBookedOnceCorrect` | `KeeperInv`. For a process and a batch (`JobInv`): a job past the submission has a receipt (`confirm`, `proofs`, `distribute`), one that submits another batch's proof is recorded in `mixups`, what is remembered has a receipt or was mixed up with a batch that has one (`Settled`), and what is booked has a receipt. One process at most has booked a batch or is about to, since only who creates the receipt confirms. |
| `TypeCorrect`, `HealthCorrect`, `QueueCorrect` of `ProverServiceProofs` | `ServiceInv`: types; bounds of the counters; the work in hand is of the last line read and its attempts are within the settings (`WorkInv`); answers are those of the lines before (`AnswerInv`) and metrics count them (`CountInv`). `QueueCorrect` maps every step to one of `ProofQueue` or a stutter. |
| `BackoffCorrect` | `saturating_pow` is monotone and saturates for good, by induction over its recursion; the minimum with the cap keeps the order. |
| `ClaimsAreLeavesCorrect` | From the root down: a node equal to a pair determines both halves, so each step of the walk that ends in the root came from the level below, at half the place, and a walk that would start inside the tree or go on below a leaf meets a hash of the other kind. Indices are determined because a leaf hash holds its own. |
| `LeavesClaimableCorrect` | The siblings on the way up, by induction over the levels; how long a level is depends on the number of leaves only (`SameShape`), so that the height fits `ClaimsWithinLength`. |
| `NearestTickIsNearestCorrect`, `SettledOnLastCloseCorrect` | Ticks are strictly in order, hence those up to a time are the first so many (`TicksUpToIs`), and the last of them and the next are the nearest on either side. |
| `MoneyConservedCorrect` | Stake plus net is the payout, trade by trade, once the gain fits its cast; sums of sums. |
| `ProvedChunksAggregateCorrect`, `CircuitTypeCorrect` | `CircuitInv`: the batch stays; chunks are those of its split; proofs are of different chunks, each what the guest commits for its chunk; the aggregate is their sums in order. As many proofs as chunks are one of each, and sorting by index then puts each at its place, since exactly k proofs have an index below k. |
| `AggregateIsWholeCorrect` | `CircuitInv`; the chunks' trades are the groups of equal quotient of the index (`GroupsMakeBatch`), the totals of a chunk are sums of the batch's own amounts over its group whatever the pool (`ChunkTotals`), and the pool is the recursion's (`PoolRolls`, `PoolLeft`). |
| `FeesNotAvoidedCorrect` | `SharesAddUp`: floors of t shares miss less than t of the floor of the whole's share; the chunks' distances from zero, and their gains, add up to no less than the batch's. |
| `TypeCorrect` of `ProverProcessProofs` | inductive; the shapes of calls and children are lemmas, so that each step shows only what it writes. |
| `ProofIsOwnCorrect` | `ProofIsOwn` is not inductive: a proof passes through files and a child. `BatchesOfTheirTime` says of every input, output, child and call of a timestamp that a call of that timestamp asked for the batch it holds; calls keep batch and timestamp, so this survives every step, and a timestamp with one call leaves one answer. |
| `NothingLeftBehindCorrect` | strengthened by `OpenFileIsThere`: a child whose output still has a name finds it there. So a late write goes to a file that is there, which the invariant excludes once the calls are over, or to one without a name. |

Assumptions used. Engine: `KeysDiffer`, `TradesWellFormed`, `AccountsAreFinite` (accounts are
created one transaction at a time, so sums over them exist), `ParametersAreNat`,
`ModelInputs`, `ReceiptsDiffer`, `KeeperFeeIsPart`, `MintSupply`, and in the theorems that name them `OwnAccountsPassed` and
`TrueStakesPassed` (section 2). `MintSupply`: the tokens at the start, like
the supply of any SPL mint, fit a `u64`. (`ParametersAreNat` has `U64_MAX` odd, so that the
`i64` is half as wide.) Keeper: `Durations`, `MarketsConfigured`, `Bounds`. Prover process:
`CallBounds`. Prover service: `ServiceConstants`. Circuit: `GuestConstants` (the widths, and that the
least multiplier is at least one), `FilesParsed` (files have the types the loaders give
them), `ChunkSizesPositive`, `NoAggregateDiffers`, and `ClaimsWithinLength` (the proofs tried are as
long as the claimed trees are high). TLC evaluates all of them in the runs.

Model-checked only: the liveness properties `PublishedSettled`, `PublishedPaid`, `EveryCallEnds` and
`EveryLineAnswered`; the prover has neither fairness nor ENABLED. The five documented
disagreements are TLC's counterexamples.

## 5. Not modelled

Groth16 arithmetic, hashing and serialisation; the address derivation of accounts; SDK,
CLI and scripts (transaction builders); the verifying-key tool; the backend, which is
not in the repository. The spread and volatility regime of a market and the stored
`protocol_fee_bps` are never read by the program. Of the CLI: `--execute` and
`--prove-compressed`, which keep no state and settle nothing.

The keeper's log subscription has no action: `emit!` writes the event in base64 after
`Program data:` (`admin.rs:347`), while `watchSettledBatches` searches the log lines for the event's
name and fields in plain text (`watcher.ts:74-77`), so that its callback never runs.

Met while modelling, and no property: the keeper's README names `keeper-prover` as its prover,
but `prover.ts:129` passes the arguments of `carnot`, which the Dockerfile and
`.env.example` configure. `ProverProcess` therefore models `carnot` as the child, and
`ProverService` has a client of its own.

## 6. Plan

1. *(done)* Engine, its ledger, its theorems; the keeper's processes and jobs; the guest,
   its payout tree and the chunked proof.
2. *(done)* The prover service with its retries, backoff and metrics, and its promise; the
   keeper's child processes and their temporary files.
3. The nullifier and trade commitments of the guest. The loaders compute them from the trades,
   so that the guest's checks of them cannot fail on the inputs modelled; worth a module only
   with inputs of another origin.
4. *(done)* Theorems of the accounts, the keeper, the prover service and the circuit.
5. *(done)* Theorems that join the parts: `GuestWithinProver` for the guest and the engine's
   prover, `ChainSeenCorrect` for the keeper's chain and the engine.
6. What remains to be joined is on the keeper's side of the files: that what `ProverProcess` calls
   the proof of a batch is an output of `ChunkedProof`.
