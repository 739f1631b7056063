----------------------------- MODULE KeeperProofs -----------------------------
(***************************************************************************)
(* The keeper's safety for every number of processes, markets, windows and *)
(* trades, and whatever exits, failures and pool changes it meets.         *)
(***************************************************************************)
EXTENDS Keeper, FiniteSetTheorems, TLAPS

\* "Never" is no time.
LEMMA NeverIsNegative == Never \in Int /\ Never < 0
  BY Durations DEF Never

\* A job that has proof inputs, or trades left, has them of the right type.
LEMMA JobKinds ==
  ASSUME NEW j \in Jobs
  PROVE  /\ j.at \in {"prove", "submit"} =>
              j \in [at : {"prove", "submit"}, of : Batches, pool : Nat, regime : Nat,
                    since : Nat]
         /\ j.at = "distribute" => j \in [at : {"distribute"}, left : SUBSET Slots]
BY DEF Jobs, Idle

\* The places a job goes to.
LEMMA JobMoves ==
  /\ Idle \in Jobs
  /\ \A place \in {"cooldown", "fetch", "confirm", "proofs"} : [at |-> place] \in Jobs
  /\ \A b \in Batches, pl, r, s \in Nat :
       [at |-> "prove", of |-> b, pool |-> pl, regime |-> r, since |-> s] \in Jobs
  /\ \A T \in SUBSET Slots : [at |-> "distribute", left |-> T] \in Jobs
BY DEF Jobs, Idle

-----------------------------------------------------------------------------
\* Types.

\* Everything is typed at the start.
LEMMA InitTypeOK == Init => TypeOK
  BY NeverIsNegative, JobMoves DEF Init, TypeOK

\* A job's move keeps the memory typed.
LEMMA MoveTyped ==
  ASSUME TypeOK, NEW p \in Keepers, NEW b \in Batches, NEW next \in Jobs,
         \/ Goto(p, b, next) \/ Return(p, b) \/ ReturnSettled(p, b)
  PROVE  /\ job' \in [Keepers -> [Batches -> Jobs]]
         /\ in_progress' \in [Keepers -> SUBSET Batches]
         /\ settled_at' \in [Keepers -> [Batches -> Nat \cup {Never}]]
<1> USE DEF TypeOK
<1>1. CASE Goto(p, b, next)
  BY <1>1 DEF Goto
<1>2. CASE Return(p, b)
  BY <1>2, JobMoves DEF Return
<1>3. CASE ReturnSettled(p, b)
  BY <1>3, JobMoves DEF ReturnSettled, markSettled
<1>4. QED
  BY <1>1, <1>2, <1>3

\* So does starting a process.
LEMMA FreshTyped ==
  ASSUME TypeOK, NEW p \in Keepers, FreshMemory(p)
  PROVE  /\ next_poll' \in [Keepers -> Nat]
         /\ emitted_at' \in [Keepers -> [Batches -> Nat \cup {Never}]]
         /\ in_progress' \in [Keepers -> SUBSET Batches]
         /\ settled_at' \in [Keepers -> [Batches -> Nat \cup {Never}]]
         /\ job' \in [Keepers -> [Batches -> Jobs]]
  BY JobMoves DEF TypeOK, FreshMemory

\* A poll keeps the types.
LEMMA WatchTypeOK ==
  ASSUME TypeOK, NEW p \in Keepers, watchForBatches(p)
  PROVE  TypeOK'
<1> DEFINE due == {b \in Candidates(p) : Due(p, b)}
           started == {b \in due : Starts(p, b)}
<1>1. due \in SUBSET Batches /\ started \in SUBSET Batches
  BY DEF Candidates
<1>2. /\ next_poll' = [next_poll EXCEPT ![p] = now + BATCH_POLL]
      /\ emitted_at' = [emitted_at EXCEPT ![p] =
                          [b \in Batches |-> IF b \in due THEN now ELSE emitted_at[p][b]]]
      /\ in_progress' = [in_progress EXCEPT ![p] = in_progress[p] \cup started]
      /\ job' = [job EXCEPT ![p] =
            [b \in Batches |-> IF b \in started THEN [at |-> "cooldown"] ELSE job[p][b]]]
      /\ UNCHANGED <<up, settled_at, rewards, chainVars, published, now, countVars>>
  BY DEF watchForBatches
<1> HIDE DEF due, started
<1>3. next_poll' \in [Keepers -> Nat]
  BY <1>2, Durations DEF TypeOK
<1>4. emitted_at' \in [Keepers -> [Batches -> Nat \cup {Never}]]
  BY <1>2 DEF TypeOK
<1>5. in_progress' \in [Keepers -> SUBSET Batches]
  BY <1>1, <1>2 DEF TypeOK
<1>6. job' \in [Keepers -> [Batches -> Jobs]]
  BY <1>2, JobMoves DEF TypeOK
<1>7. QED
  BY <1>2, <1>3, <1>4, <1>5, <1>6 DEF TypeOK, chainVars, countVars

\* A step of a job keeps the types.
LEMMA JobTypeOK ==
  ASSUME TypeOK, NEW p \in Keepers, NEW b \in Batches, JobStep(p, b)
  PROVE  TypeOK'
<1> USE DEF TypeOK, chainVars, countVars
<1>0. job[p][b] \in Jobs /\ b.market \in Markets
  BY DEF Batches
<1>1. CASE CheckCooldown(p, b)
  BY <1>1, MoveTyped, JobMoves DEF CheckCooldown
<1>2. CASE FetchBatchData(p, b)
  <2>1. [at |-> "prove", of |-> b, pool |-> pool, regime |-> regime[b.market],
         since |-> now] \in Jobs
    BY <1>0, JobMoves
  <2>2. PICK next \in Jobs : Goto(p, b, next) \/ Return(p, b)
    BY <1>2, <2>1 DEF FetchBatchData
  <2>3. failures' \in Nat
    BY <1>2 DEF FetchBatchData
  <2>4. QED
    BY <1>2, <2>2, <2>3, MoveTyped DEF FetchBatchData
<1>3. CASE generateSettlementProof(p, b)
  <2>1. /\ [job[p][b] EXCEPT !.at = "submit"] \in Jobs
        /\ \A c \in Batches : [job[p][b] EXCEPT !.at = "submit", !.of = c] \in Jobs
    BY <1>0, <1>3, JobKinds DEF generateSettlementProof, At, Jobs
  <2>2. PICK next \in Jobs : Goto(p, b, next)
    BY <1>3, <2>1 DEF generateSettlementProof
  <2>3. mixups' \subseteq Batches \X Batches
    <3>1. CASE UNCHANGED mixups
      BY <3>1
    <3>2. ASSUME NEW c \in published, mixups' = mixups \cup {<<b, c>>}
          PROVE  mixups' \subseteq Batches \X Batches
      BY <3>2
    <3>3. QED
      BY <1>3, <3>1, <3>2 DEF generateSettlementProof
  <2>4. QED
    BY <1>3, <2>2, <2>3, MoveTyped DEF generateSettlementProof
<1>4. CASE submitSettlement(p, b)
  <2>1. CASE UNCHANGED <<up, next_poll, emitted_at>>
    <3>1. \/ ReturnSettled(p, b) \/ Return(p, b) \/ Goto(p, b, [at |-> "confirm"])
          \/ ProcessExit(p)
      BY <1>4 DEF submitSettlement, LostRace
    <3>2. QED
      BY <1>4, <2>1, <3>1, MoveTyped, FreshTyped, JobMoves, SMTT(20)
      DEF submitSettlement, ProcessExit
  <2>2. CASE ProcessExit(p) /\ UNCHANGED chainVars
    BY <1>4, <2>2, FreshTyped DEF submitSettlement, ProcessExit
  <2>3. QED
    BY <1>4, <2>1, <2>2 DEF submitSettlement
<1>5. CASE ConfirmAndRecord(p, b)
  BY <1>5, MoveTyped, JobMoves DEF ConfirmAndRecord
<1>6. CASE FetchWinnerProofs(p, b)
  BY <1>6, MoveTyped, JobMoves DEF FetchWinnerProofs
<1>7. CASE distributeWinnings(p, b)
  <2>1. PICK t \in job[p][b].left :
          /\ Goto(p, b, [job[p][b] EXCEPT !.left = @ \ {t}])
          /\ \/ claims' = claims \cup {<<b, t>>} /\ UNCHANGED failures
             \/ failures' = failures + 1 /\ UNCHANGED claims
    BY <1>7 DEF distributeWinnings
  <2>2. job[p][b] \in [at : {"distribute"}, left : SUBSET Slots]
    BY <1>0, <1>7, JobKinds DEF distributeWinnings, At
  <2>3. [job[p][b] EXCEPT !.left = @ \ {t}] \in Jobs /\ t \in Slots
    BY <2>1, <2>2 DEF Jobs
  <2>4. QED
    BY <1>7, <2>1, <2>3, MoveTyped DEF distributeWinnings
<1>8. CASE DistributionDone(p, b)
  BY <1>8, MoveTyped, JobMoves DEF DistributionDone
<1>9. QED
  BY <1>1, <1>2, <1>3, <1>4, <1>5, <1>6, <1>7, <1>8 DEF JobStep

\* A step of a process keeps the types.
LEMMA ProcessTypeOK ==
  ASSUME TypeOK, NEW p \in Keepers, ProcessStep(p)
  PROVE  TypeOK'
<1>1. CASE watchForBatches(p)
  BY <1>1, WatchTypeOK
<1>2. ASSUME NEW b \in Batches, JobStep(p, b) PROVE TypeOK'
  BY <1>2, JobTypeOK
<1>3. CASE Exit(p)
  BY <1>3, FreshTyped DEF Exit, ProcessExit, TypeOK, chainVars
<1>4. CASE Restart(p)
  BY <1>4, FreshTyped DEF Restart, TypeOK, chainVars, countVars
<1>5. QED
  BY <1>1, <1>2, <1>3, <1>4 DEF ProcessStep

\* The world keeps the types.
LEMMA WorldTypeOK == TypeOK /\ World => TypeOK'
<1> SUFFICES ASSUME TypeOK, World PROVE TypeOK'
  OBVIOUS
<1> USE DEF TypeOK, memoryVars, chainVars, countVars
<1>1. CASE Tick
  BY <1>1 DEF Tick
<1>2. CASE PoolChange
  BY <1>2 DEF PoolChange
<1>3. ASSUME NEW b \in Batches, Publish(b) PROVE TypeOK'
  BY <1>3 DEF Publish
<1>4. ASSUME NEW b \in Batches, NEW t \in Slots, OtherClaim(b, t) PROVE TypeOK'
  BY <1>4 DEF OtherClaim
<1>5. ASSUME NEW m \in Markets, RegimeChange(m) PROVE TypeOK'
  BY <1>5 DEF RegimeChange
<1>6. QED
  BY <1>1, <1>2, <1>3, <1>4, <1>5 DEF World

\* The types are inductive.
LEMMA StepTypeOK == TypeOK /\ [Next]_vars => TypeOK'
<1> SUFFICES ASSUME TypeOK, [Next]_vars PROVE TypeOK'
  OBVIOUS
<1>1. CASE UNCHANGED vars
  BY <1>1 DEF TypeOK, vars, memoryVars, chainVars, countVars
<1>2. QED
  BY <1>1, ProcessTypeOK, WorldTypeOK DEF Next

\* The keeper's memory, database and the chain stay well typed in every run:
\* every job that waits for something carries what it will need then.
THEOREM TypeCorrect == Spec => []TypeOK
  BY InitTypeOK, StepTypeOK, PTL DEF Spec

-----------------------------------------------------------------------------
\* The inductive invariant.

\* What a process knows of a batch.
Known(p, b) == settled_at[p][b] # Never

\* A reason to take the batch for settled: its receipt, or that of the batch whose
\* proof a call for it was given.
Settled(b) == b \in receipts \/ \E c \in receipts : <<b, c>> \in mixups

\* The proof a job has is of its own batch or recorded as mixed up; past the
\* submission there is a receipt; what the process remembers as settled there is a
\* reason for; and what it has booked has a receipt.
JobInv(p, b) ==
  /\ job[p][b].at \in {"prove", "submit"} =>
       job[p][b].of = b \/ <<b, job[p][b].of>> \in mixups
  /\ job[p][b].at \in {"confirm", "proofs", "distribute"} => b \in receipts
  /\ Known(p, b) => Settled(b)
  /\ b \in rewards[p] => b \in receipts

\* The process has booked the fee of the batch, or is about to.
Books(p, b) == b \in rewards[p] \/ job[p][b].at = "confirm"

KeeperInv ==
  /\ \A p \in Keepers, b \in Batches : JobInv(p, b)
  /\ \A b \in Batches : \A p, q \in Keepers : Books(p, b) /\ Books(q, b) => p = q

\* At the start no process knows or does anything.
LEMMA InitKeeperInv == Init => KeeperInv
  BY DEF Init, KeeperInv, JobInv, Books, Known, Idle

\* A reason to take a batch for settled stays one.
LEMMA SettledStays ==
  ASSUME receipts \subseteq receipts', mixups \subseteq mixups', NEW c, Settled(c)
  PROVE  Settled(c)'
BY DEF Settled

\* What is left alone, or only helped by the chain, still holds.
LEMMA JobInvKept ==
  ASSUME NEW q \in Keepers, NEW c \in Batches, JobInv(q, c),
         job'[q][c] = job[q][c], settled_at'[q][c] = settled_at[q][c],
         c \in rewards'[q] => c \in rewards[q],
         receipts \subseteq receipts', mixups \subseteq mixups'
  PROVE  JobInv(q, c)'
<1>1. Settled(c) => Settled(c)'
  BY SettledStays
<1>2. Known(q, c)' <=> Known(q, c)
  BY DEF Known, Never
<1>3. QED
  BY <1>1, <1>2 DEF JobInv

\* A job that is gone leaves nothing to show but what is remembered.
LEMMA JobInvIdle ==
  ASSUME NEW q \in Keepers, NEW c \in Batches, JobInv(q, c),
         job'[q][c] = Idle, rewards'[q] = rewards[q], UNCHANGED <<receipts, mixups>>,
         settled_at'[q][c] \in {settled_at[q][c], Never} \/ Settled(c)
  PROVE  JobInv(q, c)'
<1>1. Settled(c)' <=> Settled(c)
  BY DEF Settled
<1>2. Known(q, c)' => Known(q, c) \/ Settled(c)
  BY DEF Known, Never
<1>3. QED
  BY <1>1, <1>2 DEF JobInv, Idle

\* A job that moves on keeps what it knows.
LEMMA JobInvMoved ==
  ASSUME NEW q \in Keepers, NEW c \in Batches, JobInv(q, c),
         UNCHANGED settled_at, receipts \subseteq receipts', mixups \subseteq mixups',
         job'[q][c].at \in {"prove", "submit"} =>
           job'[q][c].of = c \/ <<c, job'[q][c].of>> \in mixups',
         job'[q][c].at \in {"confirm", "proofs", "distribute"} => c \in receipts',
         c \in rewards'[q] => c \in receipts'
  PROVE  JobInv(q, c)'
<1>1. Settled(c) => Settled(c)'
  BY SettledStays
<1>2. Known(q, c)' => Known(q, c)
  BY DEF Known, Never
<1>3. QED
  BY <1>1, <1>2 DEF JobInv

\* A job's move concerns its own batch and process only.
LEMMA MoveIsLocal ==
  ASSUME TypeOK, NEW p \in Keepers, NEW b \in Batches, NEW next,
         \/ Goto(p, b, next) \/ Return(p, b) \/ ReturnSettled(p, b)
  PROVE  \A q \in Keepers, c \in Batches : q # p \/ c # b =>
           /\ job'[q][c] = job[q][c]
           /\ settled_at'[q][c] = settled_at[q][c]
<1> USE DEF TypeOK
<1>1. CASE Goto(p, b, next)
  BY <1>1 DEF Goto
<1>2. CASE Return(p, b)
  BY <1>2 DEF Return
<1>3. CASE ReturnSettled(p, b)
  BY <1>3 DEF ReturnSettled, markSettled
<1>4. QED
  BY <1>1, <1>2, <1>3

\* A job that ends is gone.
LEMMA ReturnEffect ==
  ASSUME TypeOK, NEW p \in Keepers, NEW b \in Batches
  PROVE  /\ Return(p, b) => job'[p][b] = Idle /\ settled_at'[p][b] = settled_at[p][b]
         /\ ReturnSettled(p, b) => job'[p][b] = Idle
BY DEF TypeOK, Return, ReturnSettled, markSettled

\* A process that starts remembers nothing; the others are not concerned.
LEMMA FreshEffect ==
  ASSUME TypeOK, NEW p \in Keepers, FreshMemory(p)
  PROVE  \A q \in Keepers, c \in Batches :
           /\ q = p => job'[q][c] = Idle /\ settled_at'[q][c] = Never
           /\ q # p => job'[q][c] = job[q][c] /\ settled_at'[q][c] = settled_at[q][c]
BY DEF TypeOK, FreshMemory

\* Nothing is booked by a step after which fewer book.
LEMMA BooksKept ==
  ASSUME KeeperInv,
         \A p \in Keepers, b \in Batches : Books(p, b)' => Books(p, b)
  PROVE  (\A b \in Batches : \A p, q \in Keepers : Books(p, b) /\ Books(q, b) => p = q)'
BY DEF KeeperInv

-----------------------------------------------------------------------------
\* Every step keeps it.

\* A poll only starts jobs.
LEMMA WatchInv ==
  ASSUME TypeOK, KeeperInv, NEW p \in Keepers, watchForBatches(p)
  PROVE  KeeperInv'
<1> DEFINE due == {b \in Candidates(p) : Due(p, b)}
           started == {b \in due : Starts(p, b)}
<1>1. /\ job' = [job EXCEPT ![p] =
            [b \in Batches |-> IF b \in started THEN [at |-> "cooldown"] ELSE job[p][b]]]
      /\ UNCHANGED <<settled_at, rewards, receipts, mixups>>
  BY DEF watchForBatches, chainVars, countVars
<1> HIDE DEF due, started
<1>2. ASSUME NEW q \in Keepers, NEW c \in Batches
      PROVE  JobInv(q, c)' /\ (Books(q, c)' => Books(q, c))
  <2>1. JobInv(q, c)
    BY DEF KeeperInv
  <2>2. CASE q = p /\ c \in started
    <3>1. job'[q][c].at = "cooldown"
      BY <1>1, <2>2 DEF TypeOK
    <3>2. c \in rewards'[q] => c \in receipts'
      BY <1>1, <2>1 DEF JobInv
    <3>3. JobInv(q, c)'
      BY <1>1, <2>1, <3>1, <3>2, JobInvMoved
    <3>4. QED
      BY <1>1, <3>1, <3>3 DEF Books
  <2>3. CASE ~(q = p /\ c \in started)
    <3>1. job'[q][c] = job[q][c]
      BY <1>1, <2>3 DEF TypeOK
    <3>2. QED
      BY <1>1, <2>1, <3>1, JobInvKept DEF Books
  <2>4. QED
    BY <2>2, <2>3
<1>3. QED
  BY <1>2, BooksKept DEF KeeperInv

\* Starting a process, or ending one, forgets.
LEMMA FreshInv ==
  ASSUME TypeOK, KeeperInv, NEW p \in Keepers, FreshMemory(p),
         UNCHANGED <<rewards, receipts, mixups>>
  PROVE  KeeperInv'
<1>1. ASSUME NEW q \in Keepers, NEW c \in Batches
      PROVE  JobInv(q, c)' /\ (Books(q, c)' => Books(q, c))
  <2>1. JobInv(q, c)
    BY DEF KeeperInv
  <2>2. CASE q = p
    <3>1. job'[q][c] = Idle /\ settled_at'[q][c] = Never
      BY <2>2, FreshEffect
    <3>2. QED
      BY <2>1, <3>1, JobInvIdle DEF Books, Idle
  <2>3. CASE q # p
    <3>1. job'[q][c] = job[q][c] /\ settled_at'[q][c] = settled_at[q][c]
      BY <2>3, FreshEffect
    <3>2. QED
      BY <2>1, <3>1, JobInvKept DEF Books
  <2>4. QED
    BY <2>2, <2>3
<1>2. QED
  BY <1>1, BooksKept DEF KeeperInv

\* A job's move that keeps its own part of the invariant, books no batch
\* another process books, and adds no receipt but its own, keeps all of it.
LEMMA MoveInv ==
  ASSUME TypeOK, KeeperInv, NEW p \in Keepers, NEW b \in Batches, NEW next,
         \/ Goto(p, b, next) \/ Return(p, b) \/ ReturnSettled(p, b),
         receipts' \in {receipts, receipts \cup {b}}, mixups \subseteq mixups',
         rewards' \in {rewards, [rewards EXCEPT ![p] = rewards[p] \cup {b}]},
         JobInv(p, b)',
         Books(p, b)' => Books(p, b) \/ b \notin receipts
  PROVE  KeeperInv'
<1>1. ASSUME NEW q \in Keepers, NEW c \in Batches, q # p \/ c # b
      PROVE  JobInv(q, c)' /\ (Books(q, c)' => Books(q, c))
  <2>1. JobInv(q, c)
    BY DEF KeeperInv
  <2>2. job'[q][c] = job[q][c] /\ settled_at'[q][c] = settled_at[q][c]
    BY <1>1, MoveIsLocal
  <2>3. c \in rewards'[q] <=> c \in rewards[q]
    BY <1>1 DEF TypeOK
  <2>4. QED
    BY <2>1, <2>2, <2>3, JobInvKept DEF Books
<1>2. ASSUME NEW c \in Batches, NEW q \in Keepers, NEW r \in Keepers,
             Books(q, c)', Books(r, c)'
      PROVE  q = r
  <2>1. CASE \A x \in Keepers : Books(x, c)' => Books(x, c)
    BY <1>2, <2>1 DEF KeeperInv
  <2>2. CASE c = b /\ b \notin receipts
    <3>1. \A x \in Keepers : ~Books(x, b)
      BY <2>2 DEF KeeperInv, JobInv, Books
    <3>2. \A x \in Keepers : Books(x, b)' => x = p
      BY <1>1, <3>1
    <3>3. QED
      BY <1>2, <2>2, <3>2
  <2>3. QED
    BY <1>1, <2>1, <2>2
<1>3. QED
  BY <1>1, <1>2 DEF KeeperInv

\* A job that ends with nothing settled, or with a reason to take its batch for
\* settled, keeps the invariant.
LEMMA EndInv ==
  ASSUME TypeOK, KeeperInv, NEW p \in Keepers, NEW b \in Batches,
         UNCHANGED <<rewards, receipts, mixups>>,
         Return(p, b) \/ (ReturnSettled(p, b) /\ Settled(b))
  PROVE  KeeperInv'
<1>1. JobInv(p, b)
  BY DEF KeeperInv
<1>2. job'[p][b] = Idle /\ (settled_at'[p][b] = settled_at[p][b] \/ Settled(b))
  BY ReturnEffect
<1>3. JobInv(p, b)'
  BY <1>1, <1>2, JobInvIdle
<1>4. Books(p, b)' => Books(p, b)
  BY <1>2 DEF Books, Idle
<1>5. QED
  BY <1>3, <1>4, MoveInv

\* A job that moves on, past the submission only with a receipt, keeps it.
LEMMA GotoInv ==
  ASSUME TypeOK, KeeperInv, NEW p \in Keepers, NEW b \in Batches, NEW next,
         Goto(p, b, next), UNCHANGED receipts, mixups \subseteq mixups',
         next.at \in {"prove", "submit"} => next.of = b \/ <<b, next.of>> \in mixups',
         next.at \in {"confirm", "proofs", "distribute"} => b \in receipts,
         next.at # "confirm",
         \/ UNCHANGED rewards
         \/ job[p][b].at = "confirm" /\ rewards' = [rewards EXCEPT ![p] = rewards[p] \cup {b}]
  PROVE  KeeperInv'
<1>1. JobInv(p, b)
  BY DEF KeeperInv
<1>2. job'[p][b] = next /\ UNCHANGED settled_at
  BY DEF Goto, TypeOK
<1>3. b \in rewards'[p] => b \in rewards[p] \/ job[p][b].at = "confirm"
  BY DEF TypeOK
<1>4. JobInv(p, b)'
  <2>1. b \in rewards'[p] => b \in receipts
    BY <1>1, <1>3 DEF JobInv
  <2>2. QED
    BY <1>1, <1>2, <2>1, JobInvMoved
<1>5. Books(p, b)' => Books(p, b)
  BY <1>2, <1>3 DEF Books
<1>6. rewards' \in {rewards, [rewards EXCEPT ![p] = rewards[p] \cup {b}]}
  OBVIOUS
<1>7. QED
  BY <1>4, <1>5, <1>6, MoveInv

\* The submission that wins the race.
LEMMA WonInv ==
  ASSUME TypeOK, KeeperInv, NEW p \in Keepers, NEW b \in Batches,
         Goto(p, b, [at |-> "confirm"]), b \notin receipts,
         receipts' = receipts \cup {b}, UNCHANGED <<rewards, mixups>>
  PROVE  KeeperInv'
<1>1. JobInv(p, b)
  BY DEF KeeperInv
<1>2. job'[p][b].at = "confirm" /\ UNCHANGED settled_at
  BY DEF Goto, TypeOK
<1>3. JobInv(p, b)'
  <2>1. receipts \subseteq receipts' /\ b \in receipts' /\ mixups \subseteq mixups'
    OBVIOUS
  <2>2. QED
    BY <1>1, <1>2, <2>1, JobInvMoved
<1>4. /\ receipts' \in {receipts, receipts \cup {b}} /\ mixups \subseteq mixups'
      /\ rewards' \in {rewards, [rewards EXCEPT ![p] = rewards[p] \cup {b}]}
  OBVIOUS
<1>5. QED
  BY <1>3, <1>4, MoveInv

\* A step of a job keeps the invariant: whatever the outcome of each await.
LEMMA JobStepInv ==
  ASSUME TypeOK, KeeperInv, NEW p \in Keepers, NEW b \in Batches, JobStep(p, b)
  PROVE  KeeperInv'
<1> USE DEF At, chainVars, countVars
<1>0. JobInv(p, b) /\ job[p][b] \in Jobs
  BY DEF KeeperInv, TypeOK
<1>1. CASE CheckCooldown(p, b)
  <2>1. (Return(p, b) \/ Goto(p, b, [at |-> "fetch"]))
        /\ UNCHANGED <<rewards, receipts, mixups>>
    BY <1>1 DEF CheckCooldown
  <2>2. QED
    BY <2>1, EndInv, GotoInv
<1>2. CASE FetchBatchData(p, b)
  <2>1. UNCHANGED <<rewards, receipts, mixups>>
    BY <1>2 DEF FetchBatchData
  <2>2. \/ Return(p, b)
        \/ Goto(p, b, [at |-> "prove", of |-> b, pool |-> pool,
                       regime |-> regime[b.market], since |-> now])
    BY <1>2 DEF FetchBatchData
  <2>3. QED
    BY <2>1, <2>2, EndInv, GotoInv
<1>3. CASE generateSettlementProof(p, b)
  <2>1. job[p][b] \in [at : {"prove", "submit"}, of : Batches, pool : Nat, regime : Nat,
                       since : Nat]
        /\ (job[p][b].of = b \/ <<b, job[p][b].of>> \in mixups)
        /\ UNCHANGED <<rewards, receipts>>
    BY <1>0, <1>3, JobKinds DEF generateSettlementProof, JobInv
  <2>2. CASE Goto(p, b, [job[p][b] EXCEPT !.at = "submit"]) /\ UNCHANGED mixups
    <3>1. [job[p][b] EXCEPT !.at = "submit"].at = "submit"
          /\ [job[p][b] EXCEPT !.at = "submit"].of = job[p][b].of
      BY <2>1
    <3>2. QED
      BY <2>1, <2>2, <3>1, GotoInv
  <2>3. ASSUME NEW c \in published,
               Goto(p, b, [job[p][b] EXCEPT !.at = "submit", !.of = c]),
               mixups' = mixups \cup {<<b, c>>}
        PROVE  KeeperInv'
    <3>1. [job[p][b] EXCEPT !.at = "submit", !.of = c].at = "submit"
          /\ [job[p][b] EXCEPT !.at = "submit", !.of = c].of = c
      BY <2>1
    <3>2. QED
      BY <2>1, <2>3, <3>1, GotoInv
  <2>4. QED
    BY <1>3, <2>2, <2>3 DEF generateSettlementProof
<1>4. CASE submitSettlement(p, b)
  <2>1. UNCHANGED <<rewards, mixups>> /\ job[p][b].at = "submit"
    BY <1>4 DEF submitSettlement
  <2>2. \/ /\ UNCHANGED receipts /\ ReturnSettled(p, b)
           /\ {b, job[p][b].of} \cap receipts # {}
        \/ UNCHANGED receipts /\ Return(p, b)
        \/ UNCHANGED receipts /\ FreshMemory(p)
        \/ /\ Goto(p, b, [at |-> "confirm"])
           /\ b \notin receipts /\ receipts' = receipts \cup {b}
    BY <1>4 DEF submitSettlement, LostRace, ProcessExit
  <2>3. {b, job[p][b].of} \cap receipts # {} => Settled(b)
    BY <1>0, <2>1 DEF JobInv, Settled
  <2>4. QED
    BY <2>1, <2>2, <2>3, EndInv, FreshInv, WonInv
<1>5. CASE ConfirmAndRecord(p, b)
  <2>1. /\ job[p][b].at = "confirm" /\ UNCHANGED <<receipts, mixups>>
        /\ Goto(p, b, [at |-> "proofs"])
        /\ rewards' = [rewards EXCEPT ![p] = rewards[p] \cup {b}]
    BY <1>5 DEF ConfirmAndRecord
  <2>2. b \in receipts
    BY <1>0, <2>1 DEF JobInv
  <2>3. QED
    BY <2>1, <2>2, GotoInv
<1>6. CASE FetchWinnerProofs(p, b)
  <2>1. /\ job[p][b].at = "proofs" /\ UNCHANGED <<rewards, receipts, mixups>>
        /\ Goto(p, b, [at |-> "distribute", left |-> Slots]) \/ ReturnSettled(p, b)
    BY <1>6 DEF FetchWinnerProofs
  <2>2. b \in receipts /\ Settled(b)
    BY <1>0, <2>1 DEF JobInv, Settled
  <2>3. QED
    BY <2>1, <2>2, GotoInv, EndInv
<1>7. CASE distributeWinnings(p, b)
  <2>1. PICK t \in job[p][b].left : Goto(p, b, [job[p][b] EXCEPT !.left = @ \ {t}])
    BY <1>7 DEF distributeWinnings
  <2>2. job[p][b].at = "distribute" /\ UNCHANGED <<rewards, receipts, mixups>>
    BY <1>7 DEF distributeWinnings
  <2>3. [job[p][b] EXCEPT !.left = @ \ {t}].at = "distribute" /\ b \in receipts
    BY <1>0, <2>2, JobKinds DEF JobInv
  <2>4. QED
    BY <2>1, <2>2, <2>3, GotoInv
<1>8. CASE DistributionDone(p, b)
  <2>1. /\ job[p][b].at = "distribute" /\ UNCHANGED <<rewards, receipts, mixups>>
        /\ ReturnSettled(p, b)
    BY <1>8 DEF DistributionDone
  <2>2. Settled(b)
    BY <1>0, <2>1 DEF JobInv, Settled
  <2>3. QED
    BY <2>1, <2>2, EndInv
<1>9. QED
  BY <1>1, <1>2, <1>3, <1>4, <1>5, <1>6, <1>7, <1>8 DEF JobStep

\* The invariant is about nothing else.
LEMMA OthersInv ==
  ASSUME KeeperInv, UNCHANGED <<settled_at, job, rewards, receipts, mixups>>
  PROVE  KeeperInv'
<1>1. ASSUME NEW q \in Keepers, NEW c \in Batches
      PROVE  JobInv(q, c)' /\ (Books(q, c)' => Books(q, c))
  BY JobInvKept DEF KeeperInv, Books
<1>2. QED
  BY <1>1, BooksKept DEF KeeperInv

\* Every step of the keepers and of the world keeps the invariant.
LEMMA StepKeeperInv == TypeOK /\ KeeperInv /\ [Next]_vars => KeeperInv'
<1> SUFFICES ASSUME TypeOK, KeeperInv, [Next]_vars PROVE KeeperInv'
  OBVIOUS
<1>1. ASSUME NEW p \in Keepers, ProcessStep(p) PROVE KeeperInv'
  <2>1. CASE Exit(p) \/ Restart(p)
    BY <2>1, FreshInv DEF Exit, Restart, ProcessExit, chainVars, countVars
  <2>2. QED
    BY <1>1, <2>1, WatchInv, JobStepInv DEF ProcessStep
<1>2. CASE World \/ UNCHANGED vars
  <2>1. UNCHANGED <<settled_at, job, rewards, receipts, mixups>>
    BY <1>2 DEF World, Tick, PoolChange, Publish, OtherClaim, RegimeChange, vars,
                memoryVars, chainVars, countVars
  <2>2. QED
    BY <2>1, OthersInv
<1>3. QED
  BY <1>1, <1>2 DEF Next

\* The keeper's invariant holds in every run.
LEMMA KeeperInvCorrect == Spec => []KeeperInv
  BY InitKeeperInv, StepKeeperInv, TypeCorrect, PTL DEF Spec

-----------------------------------------------------------------------------
\* What follows.

\* What any process remembers as settled is on chain, for any number of
\* processes, markets and batches, whoever settled it and whatever failed on the
\* way, unless a call for it was given the proof of a batch that is
\* (index.ts:65-67, settlement.ts:194, submitter.ts:119-126).
THEOREM SettledIsOnChainCorrect == Spec => []SettledIsOnChain
<1>1. KeeperInv => SettledIsOnChain
  BY DEF KeeperInv, JobInv, Known, Settled, SettledIsOnChain
<1>2. QED
  BY <1>1, KeeperInvCorrect, PTL

\* The fee of a batch is booked by one process at most, however many race for it
\* and however often they exit and come back (submitter.ts:119-126,
\* settlement.ts:184-187).
THEOREM RewardBookedOnceCorrect == Spec => []RewardBookedOnce
<1>1. KeeperInv => RewardBookedOnce
  <2> SUFFICES ASSUME KeeperInv, NEW b \in Batches
               PROVE  Cardinality({p \in Keepers : b \in rewards[p]}) <= 1
    BY DEF RewardBookedOnce
  <2> DEFINE S == {p \in Keepers : b \in rewards[p]}
  <2>1. \A p, q \in S : p = q
    BY DEF KeeperInv, Books
  <2> HIDE DEF S
  <2>2. CASE S = {}
    <3>1. Cardinality(S) = 0
      BY <2>2, FS_EmptySet
    <3>2. QED
      BY <3>1 DEF S
  <2>3. CASE S # {}
    <3>1. PICK p \in S : S = {p}
      BY <2>1, <2>3
    <3>2. Cardinality(S) = 1
      BY <3>1, FS_Singleton
    <3>3. QED
      BY <3>2 DEF S
  <2>4. QED
    BY <2>2, <2>3
<1>2. QED
  BY <1>1, KeeperInvCorrect, PTL

=============================================================================
