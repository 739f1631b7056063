---------------------------- MODULE ProverService ----------------------------
(***************************************************************************)
(* The prover service (circuit/script/src/bin/keeper_prover.rs): it reads  *)
(* requests from stdin, a JSON line each, handles one at a time and writes *)
(* an answer line each.  A proof is attempted max_retries times with an    *)
(* exponential backoff.  In one-shot mode the request is a file.           *)
(*                                                                         *)
(* SP1 is external: an attempt fails or returns a proof that commits to    *)
(* the hash the circuit makes of the inputs, the batch's "committed".      *)
(***************************************************************************)
EXTENDS Integers, FiniteSets, SequencesExt

CONSTANTS
  Batches,             \* KeeperBatchDataWire payloads
  Ids,                 \* request ids
  NoId,
  None,                \* an Option without a value
  N_PYTH_CHECKPOINTS,
  Settings,            \* Args: retry settings the service may be started with
  U64_MAX,             \* largest u64 (small: saturation is reached)
  MaxLines             \* bound: lines a client sends

ASSUME ServiceConstants ==
  /\ NoId \notin Ids
  /\ U64_MAX \in Nat \ {0} /\ MaxLines \in Nat /\ N_PYTH_CHECKPOINTS \in Nat
  /\ Settings \subseteq [max_retries : Nat, retry_base_delay : 0 .. U64_MAX,
                         retry_max_delay : 0 .. U64_MAX]

VARIABLES
  oneshot,   \* --input-json
  args,
  lines,     \* what the client has written to stdin
  read,      \* how many of them the service has read
  work,      \* prove_with_retry, when it awaits
  metrics,   \* ServiceMetrics
  answers,   \* what the service has written to stdout
  client,    \* "open", "closed": stdin ends, "gone": stdout is broken too
  running

vars == <<oneshot, args, lines, read, work, metrics, answers, client, running>>

-----------------------------------------------------------------------------
\* Requests.

\* A line is blank, not UTF-8, not a request, or a request.  Every field of the
\* wrapped form has a default and unknown fields are ignored, so a bare batch is
\* taken for a wrapped request without batchData, unless it also has a field of
\* the wrapped form that does not parse: then it is proved, without an id.  A
\* request whose batchData does not parse is no request at all, whatever its id.
Requests ==
  [kind : {"health", "unbatched"}, id : Ids \cup {NoId}]
    \cup [kind : {"prove"}, id : Ids \cup {NoId}, batch : Batches]
Lines == [kind : {"blank", "garbled", "invalid"}] \cup Requests

\* batch_to_circuit_inputs: what is checked before anything is proved.  A trade
\* stands for its id and for its commitment; "decodes": hex and numbers parse.
AcceptsInputs(batch) ==
  /\ batch.decodes
  /\ batch.trades # <<>>
  /\ batch.trade_commitments = batch.trades
  /\ batch.sorted_trade_ids = SortSeq(batch.trades, LAMBDA a, b : a < b)
  /\ batch.checkpoints = N_PYTH_CHECKPOINTS
  /\ {batch.expected, batch.computed} # {None}

\* What the client says the outputs are: their hash and the rest of them.
ExpectedOutputs(batch) ==
  IF batch.expected # None THEN batch.expected ELSE batch.computed

\* Mutant: the committed hash is not compared.
Provable_AnyHash(batch) == batch.accounts = N_PYTH_CHECKPOINTS

\* prove_once: whether a proof of the batch can be an answer.  The expected hash
\* may be wrong and accounts missing, which only shows after proving; the rest
\* of the expected outputs is compared with nothing.
Provable(batch) ==
  /\ ExpectedOutputs(batch).hash = batch.committed
  /\ batch.accounts = N_PYTH_CHECKPOINTS

Error(id) == [id |-> id, status |-> "error"]

\* The outputs in the answer are those the client sent.
Proof(id, batch) ==
  [id |-> id, status |-> "ok", proof_of |-> batch,
   hash_committed |-> batch.committed, outputs |-> ExpectedOutputs(batch)]

Health(id) == [id |-> id, status |-> "ok", health |-> metrics]

-----------------------------------------------------------------------------
\* Backoff.

\* Mutant: the product wraps around.
SatMul_Wrapping(a, b) == (a * b) % (U64_MAX + 1)

\* u64::saturating_mul.
SatMul(a, b) == IF a * b > U64_MAX THEN U64_MAX ELSE a * b

\* u64::saturating_pow, of two.
SatPow2[n \in Nat] == IF n = 0 THEN 1 ELSE SatMul(2, SatPow2[n - 1])

backoff_delay(attempt) ==
  LET raw == SatMul(args.retry_base_delay, SatPow2[attempt - 1])
  IN IF raw < args.retry_max_delay THEN raw ELSE args.retry_max_delay

-----------------------------------------------------------------------------
\* The service.

Idle == [phase |-> "idle"]

Init ==
  /\ oneshot \in BOOLEAN
  /\ args \in Settings
  /\ lines \in IF oneshot THEN {<<line>> : line \in Lines} ELSE {<<>>}
  /\ read = 0
  /\ work = Idle
  /\ metrics = [processed |-> 0, succeeded |-> 0, failed |-> 0]
  /\ answers = <<>>
  /\ client = IF oneshot THEN "closed" ELSE "open"
  /\ running = TRUE

\* Writing fails when nobody reads, which ends the service; so does the only
\* answer of one-shot mode.
Reply(answer) ==
  /\ work' = Idle
  /\ IF client = "gone"
     THEN running' = FALSE /\ UNCHANGED answers
     ELSE answers' = Append(answers, answer) /\ running' = ~oneshot

\* An error that main returns: no answer.
Stop ==
  /\ running' = FALSE
  /\ UNCHANGED <<work, answers>>

\* Mutant: the first failed attempt counts the request, its last one again.
CountFailure_EveryAttempt(m) ==
  [m EXCEPT !.failed = @ + args.max_retries]

CountFailure(m) == [m EXCEPT !.failed = @ + 1]

\* prove_with_retry, up to the first attempt.  A payload the circuit cannot take
\* counts as processed only.
StartProving(request) ==
  LET counted == [metrics EXCEPT !.processed = @ + 1] IN
  \/ /\ ~AcceptsInputs(request.batch)
     /\ metrics' = counted
     /\ Reply(Error(request.id))
  \/ /\ AcceptsInputs(request.batch) /\ args.max_retries = 0
     /\ metrics' = CountFailure(counted)
     /\ Reply(Error(request.id))
  \/ /\ AcceptsInputs(request.batch) /\ args.max_retries > 0
     /\ metrics' = counted
     /\ work' = [phase |-> "proving", id |-> request.id, batch |-> request.batch,
                 attempt |-> 1, slept |-> <<>>]
     /\ UNCHANGED <<answers, running>>

handle_incoming(request) ==
  \/ /\ request.kind = "health"
     /\ Reply(Health(request.id))
     /\ UNCHANGED metrics
  \/ /\ request.kind = "unbatched"
     /\ Reply(Error(request.id))
     /\ UNCHANGED metrics
  \/ /\ request.kind = "prove"
     /\ StartProving(request)

\* The next line of stdin, or the whole input file.
ReadLine ==
  LET line == lines[read + 1] IN
  /\ running /\ work = Idle
  /\ read < Len(lines)
  /\ read' = read + 1
  /\ \/ /\ line.kind = "blank" /\ ~oneshot
        /\ UNCHANGED <<work, metrics, answers, running>>
     \/ /\ line.kind = "garbled" \/ (line.kind \in {"blank", "invalid"} /\ oneshot)
        /\ Stop
        /\ UNCHANGED metrics
     \/ /\ line.kind = "invalid" /\ ~oneshot
        /\ Reply(Error(NoId))
        /\ UNCHANGED metrics
     \/ /\ line \in Requests
        /\ handle_incoming(line)
  /\ UNCHANGED <<oneshot, args, lines, client>>

AttemptSucceeds ==
  /\ running /\ work.phase = "proving"
  /\ Provable(work.batch)
  /\ metrics' = [metrics EXCEPT !.succeeded = @ + 1]
  /\ Reply(Proof(work.id, work.batch))
  /\ UNCHANGED <<oneshot, args, lines, read, client>>

\* Mutant: one attempt too many.
MayRetry_Inclusive == work.attempt <= args.max_retries

MayRetry == work.attempt < args.max_retries

\* The network, the prover, or a batch that no attempt can prove.
AttemptFails ==
  /\ running /\ work.phase = "proving"
  /\ \/ /\ MayRetry
        /\ work' = [work EXCEPT !.phase = "sleeping",
                                !.slept = Append(@, backoff_delay(work.attempt))]
        /\ UNCHANGED <<metrics, answers, running>>
     \/ /\ ~MayRetry
        /\ metrics' = CountFailure(metrics)
        /\ Reply(Error(work.id))
  /\ UNCHANGED <<oneshot, args, lines, read, client>>

BackoffOver ==
  /\ running /\ work.phase = "sleeping"
  /\ work' = [work EXCEPT !.phase = "proving", !.attempt = @ + 1]
  /\ UNCHANGED <<oneshot, args, lines, read, metrics, answers, client, running>>

\* Mutant: the service ends with stdin, whatever it has not read yet.
Drained_Not == TRUE

Drained == read = Len(lines)

\* next_line finds the end of stdin, after every line before it.
EndOfInput ==
  /\ running /\ work = Idle
  /\ client # "open"
  /\ Drained
  /\ running' = FALSE
  /\ UNCHANGED <<oneshot, args, lines, read, work, metrics, answers, client>>

ServiceStep ==
  ReadLine \/ AttemptSucceeds \/ AttemptFails \/ BackoffOver \/ EndOfInput

-----------------------------------------------------------------------------
\* The client.  It does not wait for answers.

Send(line) ==
  /\ client = "open"
  /\ Len(lines) < MaxLines
  /\ lines' = Append(lines, line)
  /\ UNCHANGED <<oneshot, args, read, work, metrics, answers, client, running>>

CloseStdin ==
  /\ client = "open"
  /\ client' = "closed"
  /\ UNCHANGED <<oneshot, args, lines, read, work, metrics, answers, running>>

Leave ==
  /\ ~oneshot /\ client # "gone"
  /\ client' = "gone"
  /\ UNCHANGED <<oneshot, args, lines, read, work, metrics, answers, running>>

Next ==
  \/ ServiceStep
  \/ CloseStdin \/ Leave
  \/ \E line \in Lines : Send(line)

\* The service goes on as long as it runs; SP1 answers every call.
Spec == Init /\ [][Next]_vars /\ WF_vars(ServiceStep)

-----------------------------------------------------------------------------
TypeOK ==
  /\ oneshot \in BOOLEAN /\ running \in BOOLEAN
  /\ args \in Settings
  /\ lines \in Seq(Lines)
  /\ read \in 0 .. Len(lines)
  /\ \/ work = Idle
     \/ /\ work.phase \in {"proving", "sleeping"}
        /\ work.id \in Ids \cup {NoId} /\ AcceptsInputs(work.batch)
        /\ work.attempt \in 1 .. args.max_retries
        /\ Len(work.slept) = work.attempt - IF work.phase = "proving" THEN 1 ELSE 0
  /\ metrics \in [processed : Nat, succeeded : Nat, failed : Nat]
  /\ client \in {"open", "closed", "gone"}

-----------------------------------------------------------------------------
\* What the answers are to: a line that is skipped or ends the service is no
\* request.
IsRequest(line) == line.kind \notin {"blank", "garbled"}

\* The requests among the first n lines, in their order.
RequestsIn[n \in 0 .. Len(lines)] ==
  IF n = 0 THEN <<>>
  ELSE IF IsRequest(lines[n]) THEN Append(RequestsIn[n - 1], lines[n])
  ELSE RequestsIn[n - 1]

Answers(line) ==
  CASE line.kind = "invalid"   -> {Error(NoId)}
    [] line.kind = "unbatched" -> {Error(line.id)}
    [] line.kind = "health"    ->
         {[id |-> line.id, status |-> "ok", health |-> counts] :
            counts \in [processed : 0 .. MaxLines, succeeded : 0 .. MaxLines,
                        failed : 0 .. MaxLines]}
    [] line.kind = "prove"     ->
         {Error(line.id)} \cup
           {answer \in {Proof(line.id, line.batch)} :
              /\ AcceptsInputs(line.batch)
              /\ answer.outputs.hash = answer.hash_committed}

Queue ==
  INSTANCE ProofQueue WITH
    Requests <- {line \in Lines : IsRequest(line)},
    AnswersOf <- Answers,
    requests <- RequestsIn[Len(lines)]

\* The service is a queue: the i-th answer is to the i-th request, with its id,
\* and a proof is of the batch asked for and answered with outputs that carry the
\* hash it commits to, whatever is retried, refused or unreadable in between
\* (keeper_prover.rs:354-384 and 426-513).  That the rest of these outputs agrees
\* with the hash is left to the client, who sent them, and to the chain.
QueueKept == Queue!Spec

\* A health answer counts what was answered before it: the proofs, and as
\* failed the payloads whose attempts ran out and not those that were refused
\* (keeper_prover.rs:280-329).
HealthTruthful ==
  LET asked == RequestsIn[Len(lines)] IN
  \A i \in DOMAIN answers :
    "health" \in DOMAIN answers[i] =>
      LET health == answers[i].health
          proves == {j \in 1 .. i - 1 : asked[j].kind = "prove"}
          proved == {j \in proves : answers[j].status = "ok"}
          tried  == {j \in proves : AcceptsInputs(asked[j].batch)}
      IN health = [processed |-> Cardinality(proves),
                   succeeded |-> Cardinality(proved),
                   failed    |-> Cardinality(tried \ proved)]

\* A request never sleeps less before a later attempt than before an earlier
\* one, nor longer than the cap, also where doubling overflows
\* (keeper_prover.rs:714-718).
BackoffGrows ==
  work # Idle =>
    \A i \in DOMAIN work.slept :
      /\ work.slept[i] <= args.retry_max_delay
      /\ \A j \in 1 .. i : work.slept[j] <= work.slept[i]

\* A line the service can get to is answered although attempts fail, lines
\* before it are refused or skipped, and the client closes stdin
\* (keeper_prover.rs:426-454).
EveryLineAnswered ==
  \A n \in 1 .. MaxLines :
    (/\ ~oneshot
     /\ n <= Len(lines)
     /\ \A i \in 1 .. n : lines[i].kind # "garbled")
      ~> \/ client = "gone"
         \/ n <= Len(lines) /\ Len(answers) >= Len(RequestsIn[n])

=============================================================================
