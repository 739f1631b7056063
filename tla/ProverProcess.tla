---------------------------- MODULE ProverProcess ----------------------------
(***************************************************************************)
(* One keeper process and the prover children it spawns (keeper/prover.ts  *)
(* and the carnot binary): the call of generateSettlementProof for a batch *)
(* writes the batch data to a file, spawns a child that reads it and       *)
(* writes the proof to another file, waits for the child's exit event or a *)
(* timer, reads the proof and removes both files.  The names of the files  *)
(* hold the millisecond in which the call started.  The calls of different *)
(* batches run at the same time.  What a job does with the proof           *)
(* (submitter.ts, jobs/settlement.ts, index.ts) is the rest of a call.     *)
(*                                                                         *)
(* The process and its children run in parallel: an action of the process  *)
(* is what its event loop does without an await, an action of a child one  *)
(* system call on a file.                                                  *)
(***************************************************************************)
EXTENDS Integers

CONSTANTS
  Batches,       \* one closed batch of each of several markets
  Calls,         \* bound: calls 1 .. n of generateSettlementProof, in order
  TIMEOUT,       \* timeoutMs, in ticks
  MaxTime,       \* bound: the clock
  Simultaneous   \* TRUE: two calls may start in the same millisecond

ASSUME CallBounds ==
  /\ Calls \subseteq Nat
  /\ TIMEOUT \in Nat \ {0}
  /\ MaxTime \in Nat
  /\ Simultaneous \in BOOLEAN

VARIABLES
  up,         \* the keeper process is running
  call,       \* where each call is
  child,      \* the child each call spawned
  input,      \* carnot-input-<ts>.json, by ts
  output,     \* carnot-settlement-<ts>.json, by ts
  remembered, \* settled: the batches the process believes are settled
  receipts,   \* batches with a BatchReceiptAccount, hence with a nullifier
  now         \* Date.now()

vars == <<up, call, child, input, output, remembered, receipts, now>>

-----------------------------------------------------------------------------
\* Calls, children and files.

Times == 0 .. MaxTime

NoFile == [is |-> "absent"]
Truncated == [is |-> "empty"]
BatchFile(b) == [is |-> "batch", batch |-> b]
ProofFile(b, onchain) == [is |-> "proof", batch |-> b, suitable_for_onchain |-> onchain]

BatchFiles == {BatchFile(b) : b \in Batches}
ProofFiles == {ProofFile(b, onchain) : b \in Batches, onchain \in BOOLEAN}

Unused == [at |-> "unused"]

\* "spawned": the promise is pending; "submit": the transaction is; "answered":
\* the call is over; "lost": the process exited before it was.
CallStates ==
  {Unused}
    \cup [at : {"spawned", "answered", "lost"}, batch : Batches, ts : Times]
    \cup [at : {"submit", "null"}, batch : Batches, ts : Times, proof : Batches]

NoChild == [at |-> "none"]
Exited(code) == [at |-> "exited", code |-> code]
ChildStates ==
  {NoChild, [at |-> "starting"], Exited(0), Exited(1)}
    \cup [at : {"proving"}, batch : Batches]
    \cup [at : {"writing"}, batch : Batches, linked : BOOLEAN]

Started == {c \in Calls : call[c].at # "unused"}

\* Mutant: the name holds a coarser time.
FileName_Coarse(ts) == ts \div 2

\* What tells the files of one timestamp from those of another.
FileName(ts) == ts

\* The calls of a timestamp.
Sharing(ts) == {c \in Started : call[c].ts = ts}

Init ==
  /\ up = TRUE
  /\ call = [c \in Calls |-> Unused]
  /\ child = [c \in Calls |-> NoChild]
  /\ input = [ts \in Times |-> NoFile]
  /\ output = [ts \in Times |-> NoFile]
  /\ remembered = {} /\ receipts = {} /\ now = 0

-----------------------------------------------------------------------------
\* The keeper process.

\* inProgress and settled keep a batch from a second job.
MayStart(b) ==
  /\ b \notin remembered
  /\ \A c \in Started : call[c].batch = b => call[c].at \notin {"spawned", "submit"}

\* Writes the input file, spawns the child and sets the timer.  The clock
\* leaves room for the timer to fire.
StartCall(c, b) ==
  /\ up
  /\ c \notin Started /\ \A d \in Calls : d < c => d \in Started
  /\ MayStart(b)
  /\ now + TIMEOUT <= MaxTime
  /\ Simultaneous \/ Sharing(now) = {}
  /\ call' = [call EXCEPT ![c] = [at |-> "spawned", batch |-> b, ts |-> now]]
  /\ child' = [child EXCEPT ![c] = [at |-> "starting"]]
  /\ input' = [input EXCEPT ![FileName(now)] = BatchFile(b)]
  /\ UNCHANGED <<up, output, remembered, receipts, now>>

\* The children after the files of a timestamp are removed: one that has the
\* output open goes on writing to a file that has no name any more.
Unlinked(ts) ==
  [c \in Calls |->
     IF child[c].at = "writing" /\ FileName(call[c].ts) = FileName(ts)
     THEN [child[c] EXCEPT !.linked = FALSE] ELSE child[c]]

\* Mutant: the output file is left.
RemoveFiles_InputOnly(ts) ==
  /\ input' = [input EXCEPT ![FileName(ts)] = NoFile]
  /\ UNCHANGED output

\* The finally block.
RemoveFiles(ts) ==
  /\ input' = [input EXCEPT ![FileName(ts)] = NoFile]
  /\ output' = [output EXCEPT ![FileName(ts)] = NoFile]

Answered(c) == [at |-> "answered", batch |-> call[c].batch, ts |-> call[c].ts]
Lost(c) == [at |-> "lost", batch |-> call[c].batch, ts |-> call[c].ts]

\* Mutant: the jobs of other batches go on after the exit.
ProcessExit_Alone(answered) ==
  /\ up' = FALSE
  /\ remembered' = {}
  /\ call' = [c \in Calls |->
                IF c \in answered THEN Answered(c) ELSE call[c]]

\* process.exit(1) in the catch of index.ts: the calls in progress are gone
\* with their finally blocks, their children stay.
ProcessExit(answered) ==
  /\ up' = FALSE
  /\ remembered' = {}
  /\ call' = [c \in Calls |->
                CASE c \in answered -> Answered(c)
                  [] c \notin answered /\ call[c].at \in {"spawned", "submit"} -> Lost(c)
                  [] OTHER -> call[c]]

\* The call throws: finally, the job's rethrow and the exit run without an await.
Fail(c) ==
  /\ RemoveFiles(call[c].ts)
  /\ ProcessExit({c})

Pending(c) == up /\ call[c].at = "spawned"

Usable(file) == file.is = "proof" /\ file.suitable_for_onchain

\* The exit event: code 0 and an output file that parseProofResult takes.
OnExit(c) ==
  LET ts == call[c].ts
      file == output[FileName(ts)]
      ok == child[c].code = 0 /\ Usable(file)
  IN
  /\ Pending(c)
  /\ child[c].at = "exited"
  /\ child' = Unlinked(ts)
  /\ \/ /\ ok
        /\ call' = [call EXCEPT ![c] = [at |-> "submit", batch |-> @.batch, ts |-> ts,
                                        proof |-> file.batch]]
        /\ RemoveFiles(ts)
        /\ UNCHANGED <<up, remembered>>
     \/ /\ ~ok
        /\ Fail(c)
  /\ UNCHANGED <<receipts, now>>

\* SIGTERM ends a child that is still running; an exit event not handled yet is
\* of no use any more.
Kill(c) == [Unlinked(call[c].ts) EXCEPT ![c] = IF @.at = "exited" THEN @ ELSE Exited(1)]

\* Mutant: the timer is cleared when the child first prints.
TimeOver_UntilOutput(c) == now >= call[c].ts + TIMEOUT /\ child[c].at # "proving"

\* The timer.
TimeOver(c) == now >= call[c].ts + TIMEOUT

OnTimer(c) ==
  /\ Pending(c)
  /\ TimeOver(c)
  /\ child' = Kill(c)
  /\ Fail(c)
  /\ UNCHANGED <<receipts, now>>

\* submitSettlement and what the job makes of it.  The accounts come first: a
\* nullifier or a receipt that exists is "already in use", the answer is null
\* and the batch counts as settled.  Then the interval, the liability and, with
\* the batch id in the hashed public outputs, whose proof it is: the proof of
\* another batch is an error no job handles.  Its pool balance is compared last.
submitSettlement(c) ==
  LET b == call[c].batch
      proof == call[c].proof
  IN
  /\ up /\ call[c].at = "submit"
  /\ \/ /\ {b, proof} \cap receipts # {}
        /\ call' = [call EXCEPT ![c].at = "null"]
        /\ remembered' = remembered \cup {b}
        /\ UNCHANGED <<up, receipts>>
     \/ /\ {b, proof} \cap receipts = {}
        /\ \/ /\ call' = [call EXCEPT ![c] = Answered(c)]  \* cooldown, not_ready
              /\ UNCHANGED <<up, remembered, receipts>>
           \/ /\ proof = b
              /\ call' = [call EXCEPT ![c] = Answered(c)]
              /\ receipts' = receipts \cup {b}
              /\ remembered' = remembered \cup {b}
              /\ UNCHANGED up
           \/ /\ proof # b
              /\ ProcessExit({c})
              /\ UNCHANGED receipts
  /\ UNCHANGED <<child, input, output, now>>

\* An error outside the prover, or the machine.
Exit ==
  /\ up
  /\ ProcessExit({})
  /\ UNCHANGED <<child, input, output, receipts, now>>

\* A new process starts in a later millisecond than the calls of the last one.
Restart ==
  /\ ~up
  /\ Sharing(now) = {}
  /\ up' = TRUE
  /\ UNCHANGED <<call, child, input, output, remembered, receipts, now>>

-----------------------------------------------------------------------------
\* The child: carnot --prove --data-json input --out-json output.

\* load_circuit_inputs_from_api_json.  The file may be gone, or another call's.
ChildReads(c) ==
  LET file == input[FileName(call[c].ts)] IN
  /\ child[c].at = "starting"
  /\ child' = [child EXCEPT ![c] = IF file = NoFile THEN Exited(1)
                                   ELSE [at |-> "proving", batch |-> file.batch]]
  /\ UNCHANGED <<up, call, input, output, remembered, receipts, now>>

\* It announces the proof on stdout, which an orphan no longer has: only the
\* child of a running process gets to write_json, which creates or truncates.
ChildOpens(c) ==
  /\ Pending(c)
  /\ child[c].at = "proving"
  /\ child' = [child EXCEPT ![c] = [at |-> "writing", batch |-> @.batch, linked |-> TRUE]]
  /\ output' = [output EXCEPT ![FileName(call[c].ts)] = Truncated]
  /\ UNCHANGED <<up, call, input, remembered, receipts, now>>

\* Groth16, or the core proof it falls back to, which is of no use on chain.
ChildWrites(c) ==
  /\ child[c].at = "writing"
  /\ child' = [child EXCEPT ![c] = Exited(0)]
  /\ IF child[c].linked
     THEN \E onchain \in BOOLEAN :
            output' = [output EXCEPT ![FileName(call[c].ts)] = ProofFile(child[c].batch, onchain)]
     ELSE UNCHANGED output
  /\ UNCHANGED <<up, call, input, remembered, receipts, now>>

\* Bad inputs, no proof, no network, a file read while it is written, or an
\* orphan that prints.
ChildFails(c) ==
  /\ child[c].at \in {"starting", "proving", "writing"}
  /\ child' = [child EXCEPT ![c] = Exited(1)]
  /\ UNCHANGED <<up, call, input, output, remembered, receipts, now>>

-----------------------------------------------------------------------------
\* Another keeper settles a batch.
OtherSettles(b) ==
  /\ b \notin receipts
  /\ receipts' = receipts \cup {b}
  /\ UNCHANGED <<up, call, child, input, output, remembered, now>>

Tick ==
  /\ now < MaxTime
  /\ now' = now + 1
  /\ UNCHANGED <<up, call, child, input, output, remembered, receipts>>

ChildStep(c) == ChildReads(c) \/ ChildOpens(c) \/ ChildWrites(c) \/ ChildFails(c)

Next ==
  \/ Tick \/ Exit \/ Restart
  \/ \E b \in Batches : OtherSettles(b) \/ \E c \in Calls : StartCall(c, b)
  \/ \E c \in Calls : OnExit(c) \/ OnTimer(c) \/ submitSettlement(c) \/ ChildStep(c)

\* The event loop handles a timer that fired and time passes.  Nothing is
\* assumed of the child, which may hang.
Spec == Init /\ [][Next]_vars
FairSpec == Spec /\ WF_vars(Tick) /\ \A c \in Calls : WF_vars(OnTimer(c))

-----------------------------------------------------------------------------
\* Types, and which states of a call, its child and the process go together.
TypeOK ==
  /\ up \in BOOLEAN
  /\ call \in [Calls -> CallStates]
  /\ child \in [Calls -> ChildStates]
  /\ input \in [Times -> {NoFile} \cup BatchFiles]
  /\ output \in [Times -> {NoFile, Truncated} \cup ProofFiles]
  /\ remembered \subseteq Batches /\ receipts \subseteq Batches
  /\ now \in Times
  /\ \A c \in Calls : call[c].at \in {"spawned", "submit"} => up
  /\ \A c \in Calls : call[c] = Unused <=> child[c] = NoChild

\* A call that shares its millisecond with no other gets the proof of its own
\* batch, whatever children an earlier process left behind and whatever order
\* children, exit events and timers come in (prover.ts:124-126, 154-193).
ProofIsOwn ==
  \A c \in Calls :
    call[c].at \in {"submit", "null"} /\ Sharing(call[c].ts) = {c}
      => call[c].proof = call[c].batch

\* Once every call of a millisecond is over, by a proof, an error or the timer,
\* none of its files is there, and none comes back: a child that lives on
\* writes to a removed file or dies when it prints (prover.ts:155-158, 191-194).
NothingLeftBehind ==
  \A ts \in Times :
    (\A c \in Sharing(ts) : call[c].at \in {"submit", "null", "answered"})
      => input[ts] = NoFile /\ output[ts] = NoFile

\* Every call ends, by a proof or with the process, also when its child hangs
\* or its last event races the timer (prover.ts:135-180).
EveryCallEnds == \A c \in Calls : call[c].at = "spawned" ~> call[c].at # "spawned"

\* "verify_and_settle; null tx if another keeper settled first."
\* (submitter.ts:27): a batch counted as settled for a null has a receipt.
NullMeansSettled == \A c \in Calls : call[c].at = "null" => call[c].batch \in receipts

=============================================================================
