------------------------------- MODULE Keeper -------------------------------
(***************************************************************************)
(* The keeper bot (keeper/src): processes that poll for the batch window   *)
(* that has just closed, have it proved, settle it on chain and distribute *)
(* its trades.  A process is one JavaScript event loop: an action is what  *)
(* runs between two awaits.  Its Maps and Sets live in memory and are lost *)
(* when it exits; only the rewards database and the chain survive.         *)
(*                                                                         *)
(* The chain is reduced to what a keeper can tell: which batches have a    *)
(* receipt, when the last one was made, which version of the pool and of   *)
(* each market a proof was made against, and which trades are claimed.     *)
(* The program's event never reaches the keeper's log subscription         *)
(* (watcher.ts:66-84 looks for its name in logs that hold it in base64),   *)
(* so the subscription has no action.                                      *)
(***************************************************************************)
EXTENDS Integers, FiniteSets, FiniteSetsExt

CONSTANTS
  Keepers,             \* keeper processes, all holding the keeper key
  Markets,             \* market ids
  Watched,             \* the markets in each process's MARKETS_CONFIG
  Slots,               \* the trades of each batch
  BATCH_WINDOW,        \* BATCH_WINDOW_SECS, in ticks
  BATCH_POLL,          \* BATCH_POLL_INTERVAL_MS, in ticks
  MIN_BATCH_INTERVAL,  \* GlobalState.min_batch_interval_secs, in ticks
  SETTLED_TTL,         \* SETTLED_TTL_MS, in ticks
  PROVE_TIME           \* how long a proof takes, in ticks

CONSTANTS
  Windows,             \* bound: windows 1 .. Windows are played
  Prompt,              \* TRUE: only proving takes time; FALSE: every step may
  MaxPoolChanges,      \* bound: LP and fee activity that moves the pool
  MaxRegimeChanges,    \* bound: market updates
  MaxExits,            \* bound: process exits other than for a stale regime
  MaxFailures,         \* bound: backend and RPC failures the job survives
  MaxMixups,           \* bound: pairs of batches whose proofs are mixed up
  MaxSpoiled           \* bound: how many of these in all

ASSUME Durations ==
  /\ BATCH_WINDOW \in Nat \ {0}
  /\ BATCH_POLL \in Nat \ {0}
  /\ MIN_BATCH_INTERVAL \in Nat
  /\ SETTLED_TTL \in Nat
  /\ PROVE_TIME \in Nat

ASSUME MarketsConfigured == Watched \in [Keepers -> SUBSET Markets]

ASSUME Bounds ==
  /\ Windows \in Nat \ {0}
  /\ Prompt \in BOOLEAN
  /\ {MaxPoolChanges, MaxRegimeChanges, MaxExits, MaxFailures, MaxMixups, MaxSpoiled}
       \subseteq Nat

VARIABLES
  up,            \* processes that are running
  next_poll,     \* when the poll timer of each process fires
  emitted_at,    \* BatchWatcher.emittedAt, per process and batch
  in_progress,   \* inProgress, per process
  settled_at,    \* settled, per process and batch
  job            \* runSettlementJob, per process and batch: where it awaits

VARIABLES
  rewards,       \* rows of each process's rewards database
  receipts,      \* batches with a BatchReceiptAccount
  last_batch_at, \* GlobalState.last_batch_at
  pool,          \* version of VaultState.lp_total_deposited
  regime,        \* version of each MarketState
  claims,        \* <<batch, trade>> with a ClaimReceipt
  published      \* batches whose data the backend serves

VARIABLES
  now,
  exits,         \* number of exits so far
  failures,      \* number of failures so far
  mixups         \* <<b, c>>: a call for b was given the proof of c

memoryVars == <<next_poll, emitted_at, in_progress, settled_at, job>>
chainVars  == <<receipts, last_batch_at, pool, regime, claims>>
countVars  == <<exits, failures, mixups>>
vars == <<up, memoryVars, rewards, chainVars, published, now, countVars>>

-----------------------------------------------------------------------------
\* Batches and jobs.

\* One market's window; computeKeeperBatchId maps different ones to different ids.
Batches == [market : Markets, window : 1 .. Windows]

WindowEnd(b) == b.window * BATCH_WINDOW

\* The window that closed last, or the first one until it closes.
ClosedWindow == IF now < BATCH_WINDOW THEN 1 ELSE now \div BATCH_WINDOW

Candidates(p) ==
  {b \in Batches : b.window = ClosedWindow /\ b.market \in Watched[p]}

Never == -2 * BATCH_POLL

Idle == [at |-> "idle"]
Jobs ==
  {Idle} \cup [at : {"cooldown", "fetch", "confirm", "proofs"}]
         \cup [at : {"prove", "submit"}, of : Batches, pool : Nat, regime : Nat,
                since : Nat]
         \cup [at : {"distribute"}, left : SUBSET Slots]

\* How often the world has spoiled an attempt to settle.
Spoiled ==
  (pool - Cardinality(receipts)) + exits + failures
    + MapThenSumSet(LAMBDA m : regime[m], Markets)

IsSettled(p, b) ==
  settled_at[p][b] # Never /\ now - settled_at[p][b] < SETTLED_TTL

\* Mutant: no default for a batch never signalled.
FreshMemory_NoDefault(p) ==
  /\ next_poll' = [next_poll EXCEPT ![p] = now]
  /\ emitted_at' = [emitted_at EXCEPT ![p] = <<>>]
  /\ in_progress' = [in_progress EXCEPT ![p] = {}]
  /\ settled_at' = [settled_at EXCEPT ![p] = [b \in Batches |-> Never]]
  /\ job' = [job EXCEPT ![p] = [b \in Batches |-> Idle]]

\* Mutant: inProgress survives the exit, its jobs do not.
FreshMemory_Persisted(p) ==
  /\ next_poll' = [next_poll EXCEPT ![p] = now]
  /\ emitted_at' = [emitted_at EXCEPT ![p] = [b \in Batches |-> Never]]
  /\ settled_at' = [settled_at EXCEPT ![p] = [b \in Batches |-> Never]]
  /\ job' = [job EXCEPT ![p] = [b \in Batches |-> Idle]]
  /\ UNCHANGED in_progress

\* The Maps and Sets of a process that starts.
FreshMemory(p) ==
  /\ next_poll' = [next_poll EXCEPT ![p] = now]
  /\ emitted_at' = [emitted_at EXCEPT ![p] = [b \in Batches |-> Never]]
  /\ in_progress' = [in_progress EXCEPT ![p] = {}]
  /\ settled_at' = [settled_at EXCEPT ![p] = [b \in Batches |-> Never]]
  /\ job' = [job EXCEPT ![p] = [b \in Batches |-> Idle]]

Init ==
  /\ up = Keepers
  /\ next_poll = [p \in Keepers |-> 0]
  /\ emitted_at = [p \in Keepers |-> [b \in Batches |-> Never]]
  /\ in_progress = [p \in Keepers |-> {}]
  /\ settled_at = [p \in Keepers |-> [b \in Batches |-> Never]]
  /\ job = [p \in Keepers |-> [b \in Batches |-> Idle]]
  /\ rewards = [p \in Keepers |-> {}]
  /\ receipts = {} /\ last_batch_at = 0 /\ pool = 0
  /\ regime = [m \in Markets |-> 0]
  /\ claims = {} /\ published = {}
  /\ now = 0 /\ exits = 0 /\ failures = 0 /\ mixups = {}

-----------------------------------------------------------------------------
\* watcher.ts and index.ts.

\* Mutant: one signal per batch, ever.
Due_Once(p, b) == emitted_at[p][b] = Never

\* At most one signal per batch in two poll intervals.
Due(p, b) == now - emitted_at[p][b] >= 2 * BATCH_POLL

\* A signal starts a job unless the process is at it, or done with it, or the
\* window has not closed.
Starts(p, b) ==
  /\ b \notin in_progress[p]
  /\ ~IsSettled(p, b)
  /\ now >= WindowEnd(b)

watchForBatches(p) ==
  LET due == {b \in Candidates(p) : Due(p, b)}
      started == {b \in due : Starts(p, b)}
  IN
  /\ p \in up
  /\ now >= next_poll[p]
  /\ next_poll' = [next_poll EXCEPT ![p] = now + BATCH_POLL]
  /\ emitted_at' = [emitted_at EXCEPT ![p] =
                      [b \in Batches |-> IF b \in due THEN now ELSE @[b]]]
  /\ in_progress' = [in_progress EXCEPT ![p] = @ \cup started]
  /\ job' = [job EXCEPT ![p] =
               [b \in Batches |-> IF b \in started THEN [at |-> "cooldown"] ELSE @[b]]]
  /\ UNCHANGED <<up, settled_at, rewards, chainVars, published, now, countVars>>

markSettled(p, b) == settled_at' = [settled_at EXCEPT ![p][b] = now]

-----------------------------------------------------------------------------
\* jobs/settlement.ts: runSettlementJob, one action per await.

At(p, b, place) == p \in up /\ job[p][b].at = place

Goto(p, b, next) ==
  /\ job' = [job EXCEPT ![p][b] = next]
  /\ UNCHANGED <<in_progress, settled_at>>

\* Mutant: every result of the job counts as settled.
Return_Settled(p, b) ==
  /\ job' = [job EXCEPT ![p][b] = Idle]
  /\ in_progress' = [in_progress EXCEPT ![p] = @ \ {b}]
  /\ markSettled(p, b)

\* The job returns: "not_ready" and "cooldown" leave the batch to a later signal.
Return(p, b) ==
  /\ job' = [job EXCEPT ![p][b] = Idle]
  /\ in_progress' = [in_progress EXCEPT ![p] = @ \ {b}]
  /\ UNCHANGED settled_at

ReturnSettled(p, b) ==
  /\ job' = [job EXCEPT ![p][b] = Idle]
  /\ in_progress' = [in_progress EXCEPT ![p] = @ \ {b}]
  /\ markSettled(p, b)

\* process.exit(1): every job of the process is gone.
ProcessExit(p) ==
  /\ up' = up \ {p}
  /\ FreshMemory(p)

\* Mutant: a lost race goes on like a won one.
LostRace_Won(p, b) == Goto(p, b, [at |-> "confirm"])

\* null instead of a signature: nothing to confirm, book or distribute.
LostRace(p, b) == ReturnSettled(p, b)

BatchTooSoon == now - last_batch_at < MIN_BATCH_INTERVAL

\* The cooldown is looked at before proving ...
CheckCooldown(p, b) ==
  /\ At(p, b, "cooldown")
  /\ IF BatchTooSoon THEN Return(p, b) ELSE Goto(p, b, [at |-> "fetch"])
  /\ UNCHANGED <<up, next_poll, emitted_at, rewards, chainVars, published, now,
                 countVars>>

\* The batch data carries the pool and the regime the proof is made against.
FetchBatchData(p, b) ==
  /\ At(p, b, "fetch")
  /\ \/ /\ b \in published
        /\ Goto(p, b, [at |-> "prove", of |-> b, pool |-> pool,
                       regime |-> regime[b.market], since |-> now])
        /\ UNCHANGED failures
     \/ /\ b \notin published
        /\ Return(p, b)
        /\ UNCHANGED failures
     \/ /\ failures < MaxFailures /\ Spoiled < MaxSpoiled
        /\ Return(p, b)
        /\ failures' = failures + 1
  /\ UNCHANGED <<up, next_poll, emitted_at, rewards, chainVars, published, now, exits,
                 mixups>>

\* The files of two calls that start in one millisecond have the same names
\* (ProverProcess): then the proof may be of another batch.
generateSettlementProof(p, b) ==
  /\ At(p, b, "prove")
  /\ now >= job[p][b].since + PROVE_TIME
  /\ \/ /\ Goto(p, b, [job[p][b] EXCEPT !.at = "submit"])
        /\ UNCHANGED mixups
     \/ /\ Cardinality(mixups) < MaxMixups
        /\ \E c \in published \ {b} :
             /\ Goto(p, b, [job[p][b] EXCEPT !.at = "submit", !.of = c])
             /\ mixups' = mixups \cup {<<b, c>>}
  /\ UNCHANGED <<up, next_poll, emitted_at, rewards, chainVars, published, now, exits,
                 failures>>

\* ... and by the program when the transaction runs.  It first creates the accounts
\* of the proof's nullifier and of the batch's receipt: "already in use" is taken for
\* a race that is lost, also when the nullifier is another batch's.  Then come the
\* interval, the regime, the batch the proof is of, and the pool.  A stale regime and
\* the wrong batch are errors the job does not know: the process exits.  Regimes
\* only grow, but a pool that moved may hold again what the proof says: then the
\* proof is accepted.
submitSettlement(p, b) ==
  LET of == job[p][b].of
      in_use == {b, of} \cap receipts # {}
      refused == of # b \/ job[p][b].regime # regime[b.market]
      stale_pool == job[p][b].pool # pool
  IN
  /\ At(p, b, "submit")
  /\ \/ /\ in_use
        /\ LostRace(p, b)
        /\ UNCHANGED <<up, next_poll, emitted_at, chainVars>>
     \/ /\ ~in_use
        /\ BatchTooSoon \/ (~refused /\ stale_pool)
        /\ Return(p, b)
        /\ UNCHANGED <<up, next_poll, emitted_at, chainVars>>
     \/ /\ ~in_use /\ ~BatchTooSoon /\ refused
        /\ ProcessExit(p)
        /\ UNCHANGED chainVars
     \/ /\ ~in_use /\ ~BatchTooSoon /\ ~refused
        /\ Goto(p, b, [at |-> "confirm"])
        /\ receipts' = receipts \cup {b}
        /\ last_batch_at' = now
        /\ pool' = pool + 1
        /\ UNCHANGED <<up, next_poll, emitted_at, regime, claims>>
  /\ UNCHANGED <<rewards, published, now, countVars>>

\* confirmBatchOnBackend, whose failure is only logged, then recordReward.
ConfirmAndRecord(p, b) ==
  /\ At(p, b, "confirm")
  /\ rewards' = [rewards EXCEPT ![p] = @ \cup {b}]
  /\ Goto(p, b, [at |-> "proofs"])
  /\ UNCHANGED <<up, next_poll, emitted_at, chainVars, published, now, countVars>>

\* distributeAllTrades: without the Merkle proofs it gives up ...
FetchWinnerProofs(p, b) ==
  /\ At(p, b, "proofs")
  /\ \/ Goto(p, b, [at |-> "distribute", left |-> Slots]) /\ UNCHANGED failures
     \/ /\ failures < MaxFailures /\ Spoiled < MaxSpoiled
        /\ ReturnSettled(p, b)
        /\ failures' = failures + 1
  /\ UNCHANGED <<up, next_poll, emitted_at, rewards, chainVars, published, now, exits,
                 mixups>>

\* ... and it goes through the trades once: one that fails is skipped, as is one
\* somebody else has claimed.
distributeWinnings(p, b) ==
  /\ At(p, b, "distribute")
  /\ \E t \in job[p][b].left :
       /\ Goto(p, b, [job[p][b] EXCEPT !.left = @ \ {t}])
       /\ \/ claims' = claims \cup {<<b, t>>} /\ UNCHANGED failures
          \/ /\ failures < MaxFailures /\ Spoiled < MaxSpoiled
             /\ failures' = failures + 1
             /\ UNCHANGED claims
  /\ UNCHANGED <<up, next_poll, emitted_at, rewards, receipts, last_batch_at, pool,
                 regime, published, now, exits, mixups>>

DistributionDone(p, b) ==
  /\ At(p, b, "distribute")
  /\ job[p][b].left = {}
  /\ ReturnSettled(p, b)
  /\ UNCHANGED <<up, next_poll, emitted_at, rewards, chainVars, published, now,
                 countVars>>

JobStep(p, b) ==
  \/ CheckCooldown(p, b) \/ FetchBatchData(p, b) \/ generateSettlementProof(p, b)
  \/ submitSettlement(p, b) \/ ConfirmAndRecord(p, b) \/ FetchWinnerProofs(p, b)
  \/ distributeWinnings(p, b) \/ DistributionDone(p, b)

-----------------------------------------------------------------------------
\* Process life and the world around.

\* An error no job handles, a proof that times out, or the machine.
Exit(p) ==
  /\ p \in up
  /\ exits < MaxExits /\ Spoiled < MaxSpoiled
  /\ exits' = exits + 1
  /\ ProcessExit(p)
  /\ UNCHANGED <<rewards, chainVars, published, now, failures, mixups>>

\* restart: unless-stopped
Restart(p) ==
  /\ p \notin up
  /\ up' = up \cup {p}
  /\ FreshMemory(p)
  /\ UNCHANGED <<rewards, chainVars, published, now, countVars>>

Publish(b) ==
  /\ b \notin published
  /\ now >= WindowEnd(b)
  /\ published' = published \cup {b}
  /\ UNCHANGED <<up, memoryVars, rewards, chainVars, now, countVars>>

\* LPs or the admin move the pool; only what happens during a proof matters.
PoolChange ==
  /\ pool < MaxPoolChanges + Cardinality(receipts) /\ Spoiled < MaxSpoiled
  /\ pool' = pool + 1
  /\ UNCHANGED <<up, memoryVars, rewards, receipts, last_batch_at, regime, claims,
                 published, now, countVars>>

RegimeChange(m) ==
  /\ regime[m] < MaxRegimeChanges /\ Spoiled < MaxSpoiled
  /\ regime' = [regime EXCEPT ![m] = @ + 1]
  /\ UNCHANGED <<up, memoryVars, rewards, receipts, last_batch_at, pool, claims,
                 published, now, countVars>>

\* Somebody else claims on behalf of a trader.
OtherClaim(b, t) ==
  /\ b \in receipts /\ <<b, t>> \notin claims
  /\ claims' = claims \cup {<<b, t>>}
  /\ UNCHANGED <<up, memoryVars, rewards, receipts, last_batch_at, pool, regime,
                 published, now, countVars>>

\* Work a prompt keeper does before time passes: everything but a proof that is
\* still being computed.
Proving(p, b) ==
  job[p][b].at = "prove" /\ now < job[p][b].since + PROVE_TIME

Waiting ==
  \/ up # Keepers
  \/ \E p \in up : now >= next_poll[p]
  \/ \E p \in up, b \in Batches : job[p][b] # Idle /\ ~Proving(p, b)

Tick ==
  /\ now < (Windows + 1) * BATCH_WINDOW
  /\ Prompt => ~Waiting
  /\ now' = now + 1
  /\ UNCHANGED <<up, memoryVars, rewards, chainVars, published, countVars>>

ProcessStep(p) ==
  \/ watchForBatches(p)
  \/ \E b \in Batches : JobStep(p, b)
  \/ Exit(p) \/ Restart(p)

World ==
  \/ Tick \/ PoolChange
  \/ \E b \in Batches : Publish(b) \/ \E t \in Slots : OtherClaim(b, t)
  \/ \E m \in Markets : RegimeChange(m)

Next == World \/ \E p \in Keepers : ProcessStep(p)

Spec == Init /\ [][Next]_vars

-----------------------------------------------------------------------------
\* Fairness: the event loop gets to every timer and every settled promise, the
\* container is restarted, time passes.  Nothing is assumed of the backend
\* or of other claimers.
Fairness ==
  /\ WF_vars(Tick)
  /\ \A p \in Keepers :
       /\ WF_vars(watchForBatches(p))
       /\ WF_vars(Restart(p))
       /\ \A b \in Batches : WF_vars(JobStep(p, b))

FairSpec == Spec /\ Fairness

-----------------------------------------------------------------------------
\* Type correctness.

TypeOK ==
  /\ up \subseteq Keepers
  /\ next_poll \in [Keepers -> Nat]
  /\ emitted_at \in [Keepers -> [Batches -> Nat \cup {Never}]]
  /\ in_progress \in [Keepers -> SUBSET Batches]
  /\ settled_at \in [Keepers -> [Batches -> Nat \cup {Never}]]
  /\ job \in [Keepers -> [Batches -> Jobs]]
  /\ rewards \in [Keepers -> SUBSET Batches]
  /\ receipts \subseteq Batches
  /\ last_batch_at \in Nat
  /\ pool \in Nat
  /\ regime \in [Markets -> Nat]
  /\ claims \subseteq Batches \X Slots
  /\ published \subseteq Batches
  /\ now \in Nat /\ exits \in Nat /\ failures \in Nat
  /\ mixups \subseteq Batches \X Batches

-----------------------------------------------------------------------------
\* Safety.

\* What a process remembers as settled has a receipt on chain, unless a call for
\* it was given the proof of a batch that has one: no other early return, failure,
\* lost race or cooldown puts a batch out of the watcher's reach
\* (index.ts:65-67, settlement.ts:194, submitter.ts:119-126).
SettledIsOnChain ==
  \A p \in Keepers, b \in Batches :
    settled_at[p][b] # Never =>
      b \in receipts \/ \E c \in receipts : <<b, c>> \in mixups

\* However many keepers race for a batch, and however often they exit, one at
\* most books its fee (submitter.ts:119-126, settlement.ts:184-187).
RewardBookedOnce ==
  \A b \in Batches : Cardinality({p \in Keepers : b \in rewards[p]}) <= 1

-----------------------------------------------------------------------------
\* Liveness.

Paid(b) == \A t \in Slots : <<b, t>> \in claims

\* The backend serves the batch early enough in the time a watcher looks at
\* it: the attempts that may be needed fit, each a proof and the wait for a signal.
PublishedInTime(b) ==
  /\ b \in published
  /\ \E p \in Keepers : b.market \in Watched[p]
  /\ now + (MaxSpoiled + 1) * (PROVE_TIME + 2 * BATCH_POLL)
       < WindowEnd(b) + BATCH_WINDOW

\* A batch published in time is settled and every trade of it is paid, also
\* when the pool or the regime moves under the proof, unless a process exits
\* on its way (settlement.ts:44-195).
PublishedPaid ==
  \A b \in Batches : PublishedInTime(b) ~> Paid(b) \/ exits > 0

\* A batch published in time is settled, also when the process exits during
\* the job or the pool or the regime moves under the proof: the watcher of the
\* restarted process finds the batch again (watcher.ts:21-60, index.ts:64-82).
PublishedSettled == \A b \in Batches : PublishedInTime(b) ~> b \in receipts

\* "verify_and_settle, then distribute per-trade winnings" (settlement.ts:43).
TradesDistributed == \A b \in Batches : b \in receipts ~> Paid(b)

=============================================================================
