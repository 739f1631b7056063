------------------------ MODULE ProverProcessProofs ------------------------
(***************************************************************************)
(* Theorems about ProverProcess, for every number of batches and calls,    *)
(* every timeout and whether or not two calls share a millisecond.         *)
(***************************************************************************)
EXTENDS ProverProcess, TLAPS

-----------------------------------------------------------------------------
\* Types.

\* The states of a call, by where it is.
LEMMA CallShape ==
  ASSUME TypeOK, NEW c \in Calls, call[c].at # "unused"
  PROVE  /\ call[c].batch \in Batches
         /\ call[c].ts \in Times
         /\ call[c].at \in {"spawned", "answered", "lost", "submit", "null"}
         /\ call[c].at \in {"submit", "null"} =>
              call[c] \in [at : {"submit", "null"}, batch : Batches, ts : Times,
                           proof : Batches]
         /\ call[c].at \in {"spawned", "answered", "lost"} =>
              call[c] \in [at : {"spawned", "answered", "lost"}, batch : Batches,
                           ts : Times]
  <1>1. call[c] \in CallStates
    BY DEF TypeOK
  <1>2. QED
    BY <1>1 DEF CallStates, Unused

\* The states of a child, by what it does.
LEMMA ChildShape ==
  ASSUME TypeOK, NEW c \in Calls
  PROVE  /\ child[c].at \in {"none", "starting", "proving", "writing", "exited"}
         /\ child[c].at = "none" <=> child[c] = NoChild
         /\ child[c].at = "proving" =>
              child[c] \in [at : {"proving"}, batch : Batches]
         /\ child[c].at = "writing" =>
              child[c] \in [at : {"writing"}, batch : Batches, linked : BOOLEAN]
         /\ child[c].at = "exited" => child[c] \in {Exited(0), Exited(1)}
  <1>1. child[c] \in ChildStates
    BY DEF TypeOK
  <1>2. QED
    BY <1>1 DEF ChildStates, NoChild, Exited

\* A pending or submitting call has a child.
LEMMA StartedHasChild ==
  ASSUME TypeOK, NEW c \in Calls, call[c].at # "unused"
  PROVE  child[c] # NoChild /\ call[c] # Unused
  BY DEF TypeOK, Unused

\* Initial states are well typed.
LEMMA InitTypeOK == Init => TypeOK
<1> SUFFICES ASSUME Init PROVE TypeOK
  OBVIOUS
<1>1. 0 \in Times
  BY CallBounds DEF Times
<1>2. QED
  BY <1>1 DEF Init, TypeOK, CallStates, ChildStates, Unused, NoChild

\* Removing files from under the children keeps what they are.
LEMMA UnlinkedShape ==
  ASSUME TypeOK, NEW ts
  PROVE  /\ Unlinked(ts) \in [Calls -> ChildStates]
         /\ \A c \in Calls :
              /\ Unlinked(ts)[c] = NoChild <=> child[c] = NoChild
              /\ Unlinked(ts)[c].at = child[c].at
              /\ child[c].at \in {"proving", "writing"} =>
                   Unlinked(ts)[c].batch = child[c].batch
              /\ child[c].at # "writing" => Unlinked(ts)[c] = child[c]
              /\ /\ Unlinked(ts)[c].at = "writing"
                 /\ Unlinked(ts)[c].linked
                 => child[c].linked /\ FileName(call[c].ts) # FileName(ts)
<1> SUFFICES ASSUME NEW c \in Calls
             PROVE  /\ Unlinked(ts)[c] \in ChildStates
                    /\ Unlinked(ts)[c] = NoChild <=> child[c] = NoChild
                    /\ Unlinked(ts)[c].at = child[c].at
                    /\ child[c].at \in {"proving", "writing"} =>
                         Unlinked(ts)[c].batch = child[c].batch
                    /\ child[c].at # "writing" => Unlinked(ts)[c] = child[c]
                    /\ /\ Unlinked(ts)[c].at = "writing"
                       /\ Unlinked(ts)[c].linked
                       => child[c].linked /\ FileName(call[c].ts) # FileName(ts)
  BY DEF Unlinked
<1>1. child[c] \in ChildStates
  BY DEF TypeOK
<1>2. CASE child[c].at = "writing" /\ FileName(call[c].ts) = FileName(ts)
  <2>1. child[c] \in [at : {"writing"}, batch : Batches, linked : BOOLEAN]
    BY <1>2, ChildShape
  <2>2. /\ Unlinked(ts)[c] = [child[c] EXCEPT !.linked = FALSE]
        /\ Unlinked(ts)[c] \in [at : {"writing"}, batch : Batches, linked : BOOLEAN]
    BY <1>2, <2>1 DEF Unlinked
  <2>3. QED
    BY <1>2, <2>1, <2>2 DEF ChildStates, NoChild
<1>3. CASE ~(child[c].at = "writing" /\ FileName(call[c].ts) = FileName(ts))
  <2>1. Unlinked(ts)[c] = child[c]
    BY <1>3 DEF Unlinked
  <2>2. QED
    BY <1>1, <1>3, <2>1
<1>4. QED
  BY <1>2, <1>3

\* A kill ends one child and leaves the others as they are.
LEMMA KillShape ==
  ASSUME TypeOK, NEW c \in Calls, child[c] # NoChild
  PROVE  /\ Kill(c) \in [Calls -> ChildStates]
         /\ \A d \in Calls : Kill(c)[d] = NoChild <=> child[d] = NoChild
         /\ \A d \in Calls :
              Kill(c)[d].at \in {"proving", "writing"} =>
                Kill(c)[d] = Unlinked(call[c].ts)[d]
<1> DEFINE U == Unlinked(call[c].ts)
<1>1. /\ U \in [Calls -> ChildStates]
      /\ \A d \in Calls : U[d] = NoChild <=> child[d] = NoChild
  BY UnlinkedShape
<1>2. Kill(c) = [U EXCEPT ![c] = IF U[c].at = "exited" THEN U[c] ELSE Exited(1)]
  BY DEF Kill
<1>3. Exited(1) \in ChildStates /\ Exited(1) # NoChild /\ Exited(1).at = "exited"
  BY DEF ChildStates, Exited, NoChild
<1> HIDE DEF U
<1>4. /\ Kill(c) \in [Calls -> ChildStates]
      /\ \A d \in Calls : Kill(c)[d] = NoChild <=> child[d] = NoChild
  BY <1>1, <1>2, <1>3
<1>5. \A d \in Calls : Kill(c)[d].at \in {"proving", "writing"} => Kill(c)[d] = U[d]
  BY <1>1, <1>2, <1>3
<1>6. QED
  BY <1>4, <1>5 DEF U

\* An exit answers some calls and loses the others in progress.
LEMMA ProcessExitShape ==
  ASSUME TypeOK, NEW answered \in SUBSET Started, ProcessExit(answered)
  PROVE  /\ call' \in [Calls -> CallStates]
         /\ \A c \in Calls :
              /\ call'[c].at \notin {"spawned", "submit"}
              /\ call'[c].at = "unused" <=> call[c].at = "unused"
              /\ call'[c] = Unused <=> call[c] = Unused
              /\ call[c].at # "unused" =>
                   call'[c].batch = call[c].batch /\ call'[c].ts = call[c].ts
              /\ call'[c].at \in {"submit", "null"} => call'[c] = call[c]
              /\ c \notin answered /\ call'[c].at \in {"submit", "null", "answered"} =>
                   call'[c] = call[c]
<1> SUFFICES ASSUME NEW c \in Calls
             PROVE  /\ call'[c] \in CallStates
                    /\ call'[c].at \notin {"spawned", "submit"}
                    /\ call'[c].at = "unused" <=> call[c].at = "unused"
                    /\ call'[c] = Unused <=> call[c] = Unused
                    /\ call[c].at # "unused" =>
                         call'[c].batch = call[c].batch /\ call'[c].ts = call[c].ts
                    /\ call'[c].at \in {"submit", "null"} => call'[c] = call[c]
                    /\ c \notin answered /\ call'[c].at \in {"submit", "null", "answered"}
                         => call'[c] = call[c]
  BY DEF ProcessExit
<1>1. CASE c \in answered
  <2>1. call'[c] = Answered(c) /\ call[c].at # "unused"
    BY <1>1 DEF ProcessExit, Started
  <2>2. QED
    BY <1>1, <2>1, CallShape DEF Answered, CallStates, Unused
<1>2. CASE c \notin answered /\ call[c].at \in {"spawned", "submit"}
  <2>1. call'[c] = Lost(c)
    BY <1>2 DEF ProcessExit
  <2>2. QED
    BY <1>2, <2>1, CallShape DEF Lost, CallStates, Unused
<1>3. CASE c \notin answered /\ call[c].at \notin {"spawned", "submit"}
  <2>1. call'[c] = call[c]
    BY <1>3 DEF ProcessExit
  <2>2. QED
    BY <1>3, <2>1 DEF TypeOK
<1>4. QED
  BY <1>1, <1>2, <1>3

\* A failing call leaves well-typed calls and files (the finally block and the exit).
LEMMA FailTypeOK ==
  ASSUME TypeOK, NEW c \in Calls, Pending(c), Fail(c),
         child' \in [Calls -> ChildStates],
         \A d \in Calls : child'[d] = NoChild <=> child[d] = NoChild,
         UNCHANGED <<receipts, now>>
  PROVE  TypeOK'
<1>1. {c} \in SUBSET Started /\ ProcessExit({c})
  BY DEF Fail, Pending, Started
<1>2. /\ call' \in [Calls -> CallStates]
      /\ \A d \in Calls : call'[d].at \notin {"spawned", "submit"}
      /\ \A d \in Calls : call'[d] = Unused <=> call[d] = Unused
  BY <1>1, ProcessExitShape
<1>3. /\ input' \in [Times -> {NoFile} \cup BatchFiles]
      /\ output' \in [Times -> {NoFile, Truncated} \cup ProofFiles]
  BY DEF Fail, RemoveFiles, TypeOK
<1>4. QED
  BY <1>1, <1>2, <1>3 DEF ProcessExit, TypeOK

\* Every step keeps the types.
LEMMA StepTypeOK == TypeOK /\ [Next]_vars => TypeOK'
<1> SUFFICES ASSUME TypeOK, [Next]_vars PROVE TypeOK'
  OBVIOUS
<1>1. ASSUME NEW b \in Batches, NEW c \in Calls, StartCall(c, b) PROVE TypeOK'
  <2>1. now \in Times /\ c \notin Started /\ call[c] = Unused
    BY <1>1 DEF StartCall, Started, TypeOK, CallStates, Unused
  <2>2. call' \in [Calls -> CallStates] /\ child' \in [Calls -> ChildStates]
    BY <1>1, <2>1 DEF StartCall, TypeOK, CallStates, ChildStates
  <2>3. input' \in [Times -> {NoFile} \cup BatchFiles]
    BY <1>1, <2>1 DEF StartCall, TypeOK, BatchFiles, FileName
  <2>4. \A d \in Calls : call'[d] = Unused <=> child'[d] = NoChild
    BY <1>1, <2>1 DEF StartCall, TypeOK, Unused, NoChild
  <2>5. \A d \in Calls : call'[d].at \in {"spawned", "submit"} => up'
    BY <1>1 DEF StartCall, TypeOK
  <2>6. QED
    BY <1>1, <2>2, <2>3, <2>4, <2>5 DEF StartCall, TypeOK
<1>2. ASSUME NEW c \in Calls, OnExit(c) PROVE TypeOK'
  <2> DEFINE ts == call[c].ts
             file == output[FileName(ts)]
  <2>1. /\ Pending(c) /\ call[c].at = "spawned" /\ up
        /\ call[c].batch \in Batches /\ ts \in Times
    BY <1>2, CallShape DEF OnExit, Pending
  <2>2. /\ child' \in [Calls -> ChildStates]
        /\ \A d \in Calls : child'[d] = NoChild <=> child[d] = NoChild
    BY <1>2, UnlinkedShape DEF OnExit
  <2>3. CASE Fail(c)
    BY <1>2, <2>1, <2>2, <2>3, FailTypeOK DEF OnExit
  <2>4. CASE ~Fail(c)
    <3>1. /\ Usable(file)
          /\ call' = [call EXCEPT ![c] = [at |-> "submit", batch |-> call[c].batch,
                                          ts |-> ts, proof |-> file.batch]]
          /\ RemoveFiles(ts)
          /\ UNCHANGED <<up, remembered, receipts, now>>
      BY <1>2, <2>4 DEF OnExit
    <3>2. file.batch \in Batches
      BY <2>1, <3>1 DEF Usable, FileName, TypeOK, ProofFiles, ProofFile, NoFile, Truncated
    <3> HIDE DEF file
    <3>3. call' \in [Calls -> CallStates]
      BY <2>1, <3>1, <3>2 DEF CallStates, TypeOK
    <3>4. \A d \in Calls : call'[d] = Unused <=> call[d] = Unused
      BY <2>1, <3>1 DEF Unused, TypeOK
    <3>5. \A d \in Calls : call'[d].at \in {"spawned", "submit"} => up'
      BY <2>1, <3>1
    <3>6. /\ input' \in [Times -> {NoFile} \cup BatchFiles]
          /\ output' \in [Times -> {NoFile, Truncated} \cup ProofFiles]
      BY <3>1 DEF RemoveFiles, TypeOK
    <3>7. QED
      BY <2>2, <3>1, <3>3, <3>4, <3>5, <3>6 DEF TypeOK
  <2>5. QED
    BY <2>3, <2>4
<1>3. ASSUME NEW c \in Calls, OnTimer(c) PROVE TypeOK'
  <2>1. call[c].at = "spawned" /\ child[c] # NoChild
    BY <1>3, StartedHasChild DEF OnTimer, Pending
  <2>2. /\ child' \in [Calls -> ChildStates]
        /\ \A d \in Calls : child'[d] = NoChild <=> child[d] = NoChild
    BY <1>3, <2>1, KillShape DEF OnTimer
  <2>3. QED
    BY <1>3, <2>2, FailTypeOK DEF OnTimer
<1>4. ASSUME NEW c \in Calls, submitSettlement(c) PROVE TypeOK'
  <2>1. /\ call[c].at = "submit" /\ up
        /\ call[c] \in [at : {"submit", "null"}, batch : Batches, ts : Times,
                        proof : Batches]
        /\ call[c].batch \in Batches /\ call[c].ts \in Times
    BY <1>4, CallShape DEF submitSettlement
  <2>2. CASE /\ call' = [call EXCEPT ![c] = [call[c] EXCEPT !.at = "null"]]
             /\ up' = up /\ receipts' = receipts
             /\ remembered' \subseteq Batches
    <3>1. [call[c] EXCEPT !.at = "null"] \in
            [at : {"submit", "null"}, batch : Batches, ts : Times, proof : Batches]
      BY <2>1
    <3>2. /\ call' \in [Calls -> CallStates]
          /\ call'[c] # Unused /\ call[c] # Unused
          /\ call'[c].at = "null"
      BY <2>1, <2>2, <3>1, StartedHasChild DEF TypeOK, CallStates, Unused
    <3>3. \A d \in Calls : d # c => call'[d] = call[d]
      BY <2>2 DEF TypeOK
    <3>4. \A d \in Calls : call'[d] = Unused <=> call[d] = Unused
      BY <3>2, <3>3
    <3>5. \A d \in Calls : call'[d].at \in {"spawned", "submit"} => up'
      BY <2>2, <3>2, <3>3 DEF TypeOK
    <3>6. QED
      BY <1>4, <2>2, <3>2, <3>4, <3>5 DEF submitSettlement, TypeOK
  <2>3. CASE /\ call' = [call EXCEPT ![c] = Answered(c)]
             /\ up' = up
             /\ receipts' \subseteq Batches /\ remembered' \subseteq Batches
    <3>1. /\ Answered(c) \in CallStates /\ Answered(c) # Unused
          /\ Answered(c).at = "answered" /\ call[c] # Unused
      BY <2>1, StartedHasChild DEF Answered, CallStates, Unused
    <3>2. /\ call' \in [Calls -> CallStates] /\ call'[c] = Answered(c)
          /\ \A d \in Calls : d # c => call'[d] = call[d]
      BY <2>3, <3>1 DEF TypeOK
    <3>3. \A d \in Calls : call'[d] = Unused <=> call[d] = Unused
      BY <3>1, <3>2
    <3>4. \A d \in Calls : call'[d].at \in {"spawned", "submit"} => up'
      BY <2>3, <3>1, <3>2 DEF TypeOK
    <3>5. QED
      BY <1>4, <2>3, <3>2, <3>3, <3>4 DEF submitSettlement, TypeOK
  <2>4. CASE ProcessExit({c})
    <3>1. /\ call' \in [Calls -> CallStates]
          /\ \A d \in Calls : call'[d].at \notin {"spawned", "submit"}
          /\ \A d \in Calls : call'[d] = Unused <=> call[d] = Unused
      BY <2>1, <2>4, ProcessExitShape DEF Started
    <3>2. receipts' \subseteq Batches
      BY <1>4, <2>1 DEF submitSettlement, TypeOK
    <3>3. QED
      BY <1>4, <2>4, <3>1, <3>2 DEF submitSettlement, ProcessExit, TypeOK
  <2>5. QED
    BY <1>4, <2>1, <2>2, <2>3, <2>4 DEF submitSettlement, TypeOK
<1>5. CASE Exit
  <2>1. {} \in SUBSET Started /\ ProcessExit({})
    BY <1>5 DEF Exit
  <2>2. /\ call' \in [Calls -> CallStates]
        /\ \A c \in Calls : call'[c].at \notin {"spawned", "submit"}
        /\ \A c \in Calls : call'[c] = Unused <=> call[c] = Unused
    BY <2>1, ProcessExitShape
  <2>3. QED
    BY <1>5, <2>2 DEF Exit, ProcessExit, TypeOK
<1>6. CASE Restart
  BY <1>6 DEF Restart, TypeOK
<1>7. ASSUME NEW c \in Calls, ChildReads(c) PROVE TypeOK'
  <2> DEFINE file == input[FileName(call[c].ts)]
  <2>1. child[c].at = "starting" /\ child[c] # NoChild /\ call[c] # Unused
    BY <1>7 DEF ChildReads, NoChild, TypeOK
  <2>2. call[c].ts \in Times
    BY <2>1, CallShape DEF TypeOK, CallStates, Unused
  <2>3. file # NoFile => file.batch \in Batches
    BY <2>2 DEF FileName, TypeOK, BatchFiles, BatchFile
  <2> HIDE DEF file
  <2>4. \E state \in ChildStates : /\ state # NoChild
                                   /\ child' = [child EXCEPT ![c] = state]
    <3>1. CASE file = NoFile
      BY <1>7, <3>1 DEF ChildReads, file, ChildStates, Exited, NoChild
    <3>2. CASE file # NoFile
      <4>1. child' = [child EXCEPT ![c] = [at |-> "proving", batch |-> file.batch]]
        BY <1>7, <3>2 DEF ChildReads, file
      <4>2. QED
        BY <2>3, <3>2, <4>1 DEF ChildStates, NoChild
    <3>3. QED
      BY <3>1, <3>2
  <2>5. QED
    BY <1>7, <2>1, <2>4 DEF ChildReads, TypeOK
<1>8. ASSUME NEW c \in Calls, ChildOpens(c) PROVE TypeOK'
  <2>1. child[c] \in [at : {"proving"}, batch : Batches] /\ child[c] # NoChild
    BY <1>8, ChildShape DEF ChildOpens, NoChild
  <2>2. [at |-> "writing", batch |-> child[c].batch, linked |-> TRUE]
          \in ChildStates \ {NoChild}
    BY <2>1 DEF ChildStates, NoChild
  <2>3. child' \in [Calls -> ChildStates]
        /\ \A d \in Calls : child'[d] = NoChild <=> child[d] = NoChild
    BY <1>8, <2>1, <2>2 DEF ChildOpens, TypeOK
  <2>4. QED
    BY <1>8, <2>3 DEF ChildOpens, TypeOK
<1>9. ASSUME NEW c \in Calls, ChildWrites(c) PROVE TypeOK'
  <2>1. child[c].batch \in Batches /\ child[c] # NoChild
    BY <1>9, ChildShape DEF ChildWrites, NoChild
  <2>2. child' \in [Calls -> ChildStates]
        /\ \A d \in Calls : child'[d] = NoChild <=> child[d] = NoChild
    BY <1>9, <2>1 DEF ChildWrites, TypeOK, ChildStates, Exited, NoChild
  <2>3. output' \in [Times -> {NoFile, Truncated} \cup ProofFiles]
    BY <1>9, <2>1 DEF ChildWrites, TypeOK, ProofFiles
  <2>4. QED
    BY <1>9, <2>2, <2>3 DEF ChildWrites, TypeOK
<1>10. ASSUME NEW c \in Calls, ChildFails(c) PROVE TypeOK'
  <2>1. child[c] # NoChild
    BY <1>10 DEF ChildFails, NoChild
  <2>2. child' \in [Calls -> ChildStates]
        /\ \A d \in Calls : child'[d] = NoChild <=> child[d] = NoChild
    BY <1>10, <2>1 DEF ChildFails, TypeOK, ChildStates, Exited, NoChild
  <2>3. QED
    BY <1>10, <2>2 DEF ChildFails, TypeOK
<1>11. ASSUME NEW b \in Batches, OtherSettles(b) PROVE TypeOK'
  BY <1>11 DEF OtherSettles, TypeOK
<1>12. CASE Tick
  BY <1>12, CallBounds DEF Tick, TypeOK, Times
<1>13. CASE UNCHANGED vars
  BY <1>13 DEF vars, TypeOK
<1>14. QED
  BY <1>1, <1>2, <1>3, <1>4, <1>5, <1>6, <1>7, <1>8, <1>9, <1>10, <1>11, <1>12, <1>13
  DEF Next, ChildStep

\* Every field keeps its type, and a child and its call are started together.
THEOREM TypeCorrect == Spec => []TypeOK
<1>1. QED
  BY InitTypeOK, StepTypeOK, PTL DEF Spec

-----------------------------------------------------------------------------
\* Whose proof a call gets.  A file, a child and a call are known by their
\* timestamp; the invariant says of all of them that the batch they hold is one
\* a call of that timestamp was made for.

\* A call of this timestamp was made for the batch.
AskedAt(ts, b) == \E d \in Sharing(ts) : call[d].batch = b

\* The same of the next state, for values of the next state.
AskedAfter(ts, b) ==
  \E d \in Calls : call'[d].at # "unused" /\ call'[d].ts = ts /\ call'[d].batch = b

BatchesOfTheirTime ==
  /\ \A ts \in Times : input[ts] # NoFile => AskedAt(ts, input[ts].batch)
  /\ \A ts \in Times : output[ts].is = "proof" => AskedAt(ts, output[ts].batch)
  /\ \A c \in Calls : child[c].at \in {"proving", "writing"} =>
                       AskedAt(call[c].ts, child[c].batch)
  /\ \A c \in Calls : call[c].at \in {"submit", "null"} =>
                       AskedAt(call[c].ts, call[c].proof)

\* The output file is there as long as a child has it open under its name.
OpenFileIsThere ==
  \A c \in Calls :
    child[c].at = "writing" /\ child[c].linked => output[call[c].ts] # NoFile

IInv == TypeOK /\ BatchesOfTheirTime /\ OpenFileIsThere /\ NothingLeftBehind

\* A call keeps its batch and its timestamp once it is started.
LEMMA CallsStay ==
  ASSUME TypeOK, [Next]_vars, NEW d \in Calls, call[d].at # "unused"
  PROVE  /\ call'[d].at # "unused"
         /\ call'[d].batch = call[d].batch
         /\ call'[d].ts = call[d].ts
<1>1. ASSUME NEW answered \in SUBSET Started, ProcessExit(answered)
      PROVE  /\ call'[d].at # "unused"
             /\ call'[d].batch = call[d].batch
             /\ call'[d].ts = call[d].ts
  BY <1>1, ProcessExitShape
<1>2. ASSUME NEW b \in Batches, NEW c \in Calls, StartCall(c, b)
      PROVE  call'[d] = call[d]
  BY <1>2 DEF StartCall, Started, TypeOK
<1>3. ASSUME NEW c \in Calls, OnExit(c)
      PROVE  /\ call'[d].at # "unused"
             /\ call'[d].batch = call[d].batch
             /\ call'[d].ts = call[d].ts
  <2>1. CASE Fail(c)
    BY <1>1, <1>3, <2>1 DEF OnExit, Pending, Fail, Started
  <2>2. CASE ~Fail(c)
    <3>1. \E q : call' = [call EXCEPT ![c] = [at |-> "submit", batch |-> call[c].batch,
                                             ts |-> call[c].ts, proof |-> q]]
      BY <1>3, <2>2 DEF OnExit
    <3>2. QED
      BY <3>1 DEF TypeOK
  <2>3. QED
    BY <2>1, <2>2
<1>4. ASSUME NEW c \in Calls, OnTimer(c)
      PROVE  /\ call'[d].at # "unused"
             /\ call'[d].batch = call[d].batch
             /\ call'[d].ts = call[d].ts
  BY <1>1, <1>4 DEF OnTimer, Pending, Fail, Started
<1>5. ASSUME NEW c \in Calls, submitSettlement(c)
      PROVE  /\ call'[d].at # "unused"
             /\ call'[d].batch = call[d].batch
             /\ call'[d].ts = call[d].ts
  <2>1. call[c].at = "submit"
    BY <1>5 DEF submitSettlement
  <2>2. CASE ProcessExit({c})
    BY <1>1, <2>1, <2>2 DEF Started
  <2>3. CASE call' = [call EXCEPT ![c] = Answered(c)]
    BY <2>3 DEF Answered, TypeOK
  <2>4. CASE call' = [call EXCEPT ![c] = [call[c] EXCEPT !.at = "null"]]
    <3>1. call[c] \in [at : {"submit", "null"}, batch : Batches, ts : Times,
                       proof : Batches]
      BY <2>1, CallShape
    <3>2. QED
      BY <2>4, <3>1 DEF TypeOK
  <2>5. QED
    BY <1>5, <2>2, <2>3, <2>4 DEF submitSettlement
<1>6. ASSUME Exit
      PROVE  /\ call'[d].at # "unused"
             /\ call'[d].batch = call[d].batch
             /\ call'[d].ts = call[d].ts
  <2>1. {} \in SUBSET Started /\ ProcessExit({})
    BY <1>6 DEF Exit
  <2>2. QED
    BY <1>1, <2>1
<1>7. CASE UNCHANGED call
  BY <1>7
<1>8. QED
  BY <1>2, <1>3, <1>4, <1>5, <1>6, <1>7
  DEF Next, vars, Restart, ChildStep, ChildReads, ChildOpens, ChildWrites, ChildFails,
      OtherSettles, Tick

\* What was asked for at a timestamp stays asked for.
LEMMA AskedAtStays ==
  ASSUME TypeOK, [Next]_vars, NEW ts, NEW b, AskedAt(ts, b)
  PROVE  AskedAfter(ts, b)
<1>1. PICK d \in Calls : call[d].at # "unused" /\ call[d].ts = ts /\ call[d].batch = b
  BY DEF AskedAt, Sharing, Started
<1>2. QED
  BY <1>1, CallsStay DEF AskedAfter

\* An input file is written by a call of its timestamp (prover.ts:127).
LEMMA InputsOfTheirTime ==
  ASSUME TypeOK, BatchesOfTheirTime, [Next]_vars, NEW ts \in Times,
         input'[ts] # NoFile
  PROVE  AskedAfter(ts, input'[ts].batch)
<1>1. CASE input'[ts] = input[ts]
  BY <1>1, AskedAtStays DEF BatchesOfTheirTime
<1>2. CASE \E b \in Batches, c \in Calls : StartCall(c, b)
  <2>1. PICK b \in Batches, c \in Calls : StartCall(c, b)
    BY <1>2
  <2>2. /\ call'[c].at = "spawned" /\ call'[c].batch = b /\ call'[c].ts = now
        /\ input' = [input EXCEPT ![now] = BatchFile(b)]
    BY <2>1 DEF StartCall, TypeOK, FileName
  <2>3. CASE ts = now
    BY <2>2, <2>3 DEF AskedAfter, TypeOK, BatchFile
  <2>4. CASE ts # now
    BY <1>1, <2>2, <2>4 DEF TypeOK
  <2>5. QED
    BY <2>3, <2>4
<1>3. ASSUME NEW at, RemoveFiles(at) PROVE input'[ts] = input[ts]
  BY <1>3 DEF RemoveFiles, TypeOK
<1>4. QED
  BY <1>1, <1>2, <1>3
  DEF Next, vars, OnExit, OnTimer, Fail, submitSettlement, Exit, Restart, ChildStep,
      ChildReads, ChildOpens, ChildWrites, ChildFails, OtherSettles, Tick

\* A proof is written by a child to the file of its call (prover.ts:126, 129).
LEMMA OutputsOfTheirTime ==
  ASSUME TypeOK, BatchesOfTheirTime, [Next]_vars, NEW ts \in Times,
         output'[ts].is = "proof"
  PROVE  AskedAfter(ts, output'[ts].batch)
<1>1. CASE output'[ts] = output[ts]
  BY <1>1, AskedAtStays DEF BatchesOfTheirTime
<1>2. CASE \E c \in Calls : ChildOpens(c)
  <2>1. PICK c \in Calls : ChildOpens(c)
    BY <1>2
  <2>2. output'[ts] = Truncated \/ output'[ts] = output[ts]
    BY <2>1 DEF ChildOpens, TypeOK
  <2>3. QED
    BY <1>1, <2>2 DEF Truncated
<1>3. CASE \E c \in Calls : ChildWrites(c)
  <2>1. PICK c \in Calls : ChildWrites(c)
    BY <1>3
  <2>2. CASE output'[ts] # output[ts]
    <3>1. PICK onchain \in BOOLEAN :
            output' = [output EXCEPT ![call[c].ts] = ProofFile(child[c].batch, onchain)]
      BY <2>1, <2>2 DEF ChildWrites, FileName
    <3>2. ts = call[c].ts /\ output'[ts].batch = child[c].batch
      BY <2>2, <3>1 DEF TypeOK, ProofFile
    <3>3. AskedAt(call[c].ts, child[c].batch)
      BY <2>1 DEF ChildWrites, BatchesOfTheirTime
    <3>4. QED
      BY <3>2, <3>3, AskedAtStays
  <2>3. QED
    BY <1>1, <2>2
<1>4. ASSUME NEW at, RemoveFiles(at)
      PROVE  output'[ts] = output[ts]
  BY <1>4 DEF RemoveFiles, TypeOK, NoFile
<1>5. QED
  BY <1>1, <1>2, <1>3, <1>4
  DEF Next, vars, StartCall, OnExit, OnTimer, Fail, submitSettlement, Exit, Restart,
      ChildStep, ChildReads, ChildFails, OtherSettles, Tick

\* A child proves what it read in the input file of its call (main.rs, load).
LEMMA ChildrenOfTheirTime ==
  ASSUME TypeOK, BatchesOfTheirTime, [Next]_vars, NEW c \in Calls,
         child'[c].at \in {"proving", "writing"}
  PROVE  AskedAfter(call[c].ts, child'[c].batch) /\ call'[c].ts = call[c].ts
<1>1. CASE /\ child[c].at \in {"proving", "writing"}
           /\ child'[c].batch = child[c].batch
  <2>1. AskedAt(call[c].ts, child[c].batch) /\ call[c].at # "unused"
    BY <1>1 DEF BatchesOfTheirTime, TypeOK, CallStates, Unused, NoChild
  <2>2. QED
    BY <1>1, <2>1, AskedAtStays, CallsStay
<1>2. CASE child'[c] = child[c]
  BY <1>1, <1>2
<1>3. CASE \E b \in Batches, d \in Calls : StartCall(d, b)
  BY <1>2, <1>3 DEF StartCall, TypeOK
<1>4. CASE \E d \in Calls : OnExit(d)
  <2>1. PICK d \in Calls : OnExit(d)
    BY <1>4
  <2>2. child' = Unlinked(call[d].ts)
    BY <2>1 DEF OnExit
  <2>3. QED
    BY <1>1, <2>2, UnlinkedShape
<1>5. CASE \E d \in Calls : OnTimer(d)
  <2>1. PICK d \in Calls : OnTimer(d)
    BY <1>5
  <2>2. child' = Kill(d) /\ child[d] # NoChild
    BY <2>1, StartedHasChild DEF OnTimer, Pending
  <2>3. child'[c] = Unlinked(call[d].ts)[c]
    BY <2>2, KillShape
  <2>4. QED
    BY <1>1, <2>3, UnlinkedShape
<1>6. CASE \E d \in Calls : ChildReads(d)
  <2>1. PICK d \in Calls : ChildReads(d)
    BY <1>6
  <2>2. CASE c = d
    <3>1. /\ call[c].at # "unused" /\ call[c].ts \in Times
      <4>1. call[c] # Unused
        BY <2>1, <2>2 DEF ChildReads, TypeOK, NoChild
      <4>2. call[c].at # "unused"
        BY <4>1 DEF TypeOK, CallStates, Unused
      <4>3. QED
        BY <4>2, CallShape
    <3>2. CASE input[call[c].ts] = NoFile
      BY <2>1, <2>2, <3>2 DEF ChildReads, FileName, TypeOK, Exited
    <3>3. CASE input[call[c].ts] # NoFile
      <4>1. child'[c].batch = input[call[c].ts].batch
        BY <2>1, <2>2, <3>3 DEF ChildReads, FileName, TypeOK
      <4>2. AskedAt(call[c].ts, input[call[c].ts].batch)
        BY <3>1, <3>3 DEF BatchesOfTheirTime
      <4>3. QED
        BY <3>1, <4>1, <4>2, AskedAtStays, CallsStay
    <3>4. QED
      BY <3>2, <3>3
  <2>3. CASE c # d
    BY <1>2, <2>1, <2>3 DEF ChildReads, TypeOK
  <2>4. QED
    BY <2>2, <2>3
<1>7. CASE \E d \in Calls : ChildOpens(d)
  BY <1>1, <1>2, <1>7 DEF ChildOpens, TypeOK
<1>8. CASE \E d \in Calls : ChildWrites(d)
  BY <1>2, <1>8 DEF ChildWrites, TypeOK, Exited
<1>9. CASE \E d \in Calls : ChildFails(d)
  BY <1>2, <1>9 DEF ChildFails, TypeOK, Exited
<1>10. QED
  BY <1>2, <1>3, <1>4, <1>5, <1>6, <1>7, <1>8, <1>9
  DEF Next, vars, submitSettlement, Exit, Restart, ChildStep, OtherSettles, Tick

\* A call submits what it read in its output file (prover.ts:186-198).
LEMMA ProofsOfTheirTime ==
  ASSUME TypeOK, BatchesOfTheirTime, [Next]_vars, NEW c \in Calls,
         call'[c].at \in {"submit", "null"}
  PROVE  AskedAfter(call[c].ts, call'[c].proof) /\ call'[c].ts = call[c].ts
<1>1. CASE call[c].at \in {"submit", "null"} /\ call'[c].proof = call[c].proof
  <2>1. AskedAt(call[c].ts, call[c].proof)
    BY <1>1 DEF BatchesOfTheirTime
  <2>2. QED
    BY <1>1, <2>1, AskedAtStays, CallsStay
<1>2. CASE call'[c] = call[c]
  BY <1>1, <1>2
<1>3. ASSUME NEW answered \in SUBSET Started, ProcessExit(answered)
      PROVE  call'[c] = call[c]
  BY <1>3, ProcessExitShape
<1>4. CASE \E b \in Batches, d \in Calls : StartCall(d, b)
  BY <1>2, <1>4 DEF StartCall, TypeOK
<1>5. CASE \E d \in Calls : OnExit(d)
  <2>1. PICK d \in Calls : OnExit(d)
    BY <1>5
  <2>2. CASE Fail(d)
    BY <1>2, <1>3, <2>1, <2>2 DEF OnExit, Pending, Fail, Started
  <2>3. CASE ~Fail(d) /\ c # d
    <3>1. \E q : call' = [call EXCEPT ![d] = q]
      BY <2>1, <2>3 DEF OnExit
    <3>2. QED
      BY <1>2, <2>3, <3>1 DEF TypeOK
  <2>4. CASE ~Fail(d) /\ c = d
    <3> DEFINE file == output[call[c].ts]
    <3>1. /\ file.is = "proof"
          /\ call' = [call EXCEPT ![c] = [at |-> "submit", batch |-> call[c].batch,
                                          ts |-> call[c].ts, proof |-> file.batch]]
      BY <2>1, <2>4 DEF OnExit, Usable, FileName
    <3>2. call[c].at # "unused" /\ call[c].ts \in Times
      BY <2>1, <2>4, CallShape DEF OnExit, Pending
    <3>3. AskedAt(call[c].ts, file.batch)
      BY <3>1, <3>2 DEF BatchesOfTheirTime
    <3> HIDE DEF file
    <3>4. call'[c].proof = file.batch
      BY <3>1 DEF TypeOK
    <3>5. QED
      BY <3>2, <3>3, <3>4, AskedAtStays, CallsStay
  <2>5. QED
    BY <2>2, <2>3, <2>4
<1>6. CASE \E d \in Calls : OnTimer(d)
  BY <1>2, <1>3, <1>6 DEF OnTimer, Pending, Fail, Started
<1>7. CASE \E d \in Calls : submitSettlement(d)
  <2>1. PICK d \in Calls : submitSettlement(d)
    BY <1>7
  <2>2. CASE ProcessExit({d})
    BY <1>2, <1>3, <2>1, <2>2 DEF submitSettlement, Started
  <2>3. CASE call' = [call EXCEPT ![d] = Answered(d)]
    BY <1>2, <2>3 DEF Answered, TypeOK
  <2>4. CASE call' = [call EXCEPT ![d] = [call[d] EXCEPT !.at = "null"]]
    <3>1. CASE c # d
      BY <1>2, <2>4, <3>1 DEF TypeOK
    <3>2. CASE c = d
      <4>1. call[c].at = "submit" /\
            call[c] \in [at : {"submit", "null"}, batch : Batches, ts : Times,
                         proof : Batches]
        BY <2>1, <3>2, CallShape DEF submitSettlement
      <4>2. QED
        BY <1>1, <2>4, <3>2, <4>1 DEF TypeOK
    <3>3. QED
      BY <3>1, <3>2
  <2>5. QED
    BY <2>1, <2>2, <2>3, <2>4 DEF submitSettlement
<1>8. CASE Exit
  <2>1. {} \in SUBSET Started /\ ProcessExit({})
    BY <1>8 DEF Exit
  <2>2. QED
    BY <1>2, <1>3, <2>1
<1>9. QED
  BY <1>2, <1>4, <1>5, <1>6, <1>7, <1>8
  DEF Next, vars, Restart, ChildStep, ChildReads, ChildOpens, ChildWrites, ChildFails,
      OtherSettles, Tick

-----------------------------------------------------------------------------
\* What is left when the calls are over.

\* A child that exists belongs to a call.
LEMMA ChildHasCall ==
  ASSUME TypeOK, NEW c \in Calls, child[c].at # "none"
  PROVE  call[c].at # "unused" /\ call[c].ts \in Times
<1>1. call[c] # Unused
  BY DEF TypeOK, NoChild
<1>2. call[c].at # "unused"
  BY <1>1 DEF TypeOK, CallStates, Unused
<1>3. QED
  BY <1>2, CallShape

\* Who removes a file takes it from the children that have it open.
LEMMA OpenFileStays ==
  ASSUME TypeOK, OpenFileIsThere, [Next]_vars, NEW c \in Calls,
         child'[c].at = "writing", child'[c].linked
  PROVE  output'[call'[c].ts] # NoFile
<1>1. ASSUME child[c].at = "writing", child[c].linked,
             output'[call[c].ts] = output[call[c].ts]
      PROVE  output'[call'[c].ts] # NoFile
  BY <1>1, ChildHasCall, CallsStay DEF OpenFileIsThere
<1>2. CASE child'[c] = child[c] /\ UNCHANGED output
  BY <1>1, <1>2
<1>3. CASE \E b \in Batches, d \in Calls : StartCall(d, b)
  BY <1>2, <1>3 DEF StartCall, TypeOK
<1>4. ASSUME NEW d \in Calls, child'[c] = Unlinked(call[d].ts)[c],
             RemoveFiles(call[d].ts) \/ UNCHANGED output
      PROVE  output'[call'[c].ts] # NoFile
  <2>1. /\ child[c].at = "writing" /\ child[c].linked
        /\ call[c].ts # call[d].ts
    BY <1>4, UnlinkedShape DEF FileName
  <2>2. call[c].ts \in Times
    BY <2>1, ChildHasCall
  <2>3. output'[call[c].ts] = output[call[c].ts]
    BY <1>4, <2>1, <2>2 DEF RemoveFiles, FileName, TypeOK
  <2>4. QED
    BY <1>1, <2>1, <2>3
<1>5. CASE \E d \in Calls : OnExit(d)
  <2>1. PICK d \in Calls : OnExit(d)
    BY <1>5
  <2>2. child' = Unlinked(call[d].ts) /\ RemoveFiles(call[d].ts)
    BY <2>1 DEF OnExit, Fail
  <2>3. QED
    BY <1>4, <2>2
<1>6. CASE \E d \in Calls : OnTimer(d)
  <2>1. PICK d \in Calls : OnTimer(d)
    BY <1>6
  <2>2. child' = Kill(d) /\ child[d] # NoChild /\ RemoveFiles(call[d].ts)
    BY <2>1, StartedHasChild DEF OnTimer, Pending, Fail
  <2>3. child'[c] = Unlinked(call[d].ts)[c]
    BY <2>2, KillShape
  <2>4. QED
    BY <1>4, <2>2, <2>3
<1>7. CASE \E d \in Calls : ChildOpens(d)
  <2>1. PICK d \in Calls : ChildOpens(d)
    BY <1>7
  <2>2. call[d].ts \in Times /\ call' = call
    BY <2>1, ChildHasCall DEF ChildOpens
  <2>3. CASE call[c].ts = call[d].ts
    BY <2>1, <2>2, <2>3 DEF ChildOpens, FileName, TypeOK, Truncated, NoFile
  <2>4. CASE call[c].ts # call[d].ts
    <3>1. child'[c] = child[c] /\ output'[call[c].ts] = output[call[c].ts]
      BY <2>1, <2>4 DEF ChildOpens, FileName, TypeOK
    <3>2. QED
      BY <1>1, <3>1
  <2>5. QED
    BY <2>3, <2>4
<1>8. CASE \E d \in Calls : ChildWrites(d)
  <2>1. PICK d \in Calls : ChildWrites(d)
    BY <1>8
  <2>2. c # d /\ child'[c] = child[c]
    BY <2>1 DEF ChildWrites, TypeOK, Exited
  <2>3. call[c].ts \in Times /\ call' = call
    BY <2>1, <2>2, ChildHasCall DEF ChildWrites
  <2>4. CASE output'[call[c].ts] = output[call[c].ts]
    BY <1>1, <2>2, <2>4
  <2>5. CASE output'[call[c].ts] # output[call[c].ts]
    <3>1. PICK onchain \in BOOLEAN :
            output' = [output EXCEPT ![call[d].ts] = ProofFile(child[d].batch, onchain)]
      BY <2>1, <2>5 DEF ChildWrites, FileName
    <3>2. output'[call[c].ts] = ProofFile(child[d].batch, onchain)
      BY <2>3, <2>5, <3>1 DEF TypeOK
    <3>3. QED
      BY <2>3, <3>2 DEF ProofFile, NoFile
  <2>6. QED
    BY <2>4, <2>5
<1>9. CASE \E d \in Calls : ChildReads(d) \/ ChildFails(d)
  BY <1>2, <1>9 DEF ChildReads, ChildFails, TypeOK, Exited
<1>10. QED
  BY <1>2, <1>3, <1>5, <1>6, <1>7, <1>8, <1>9
  DEF Next, vars, submitSettlement, Exit, Restart, ChildStep, OtherSettles, Tick

\* The calls of a timestamp are over.
Over(state) == state \in {"submit", "null", "answered"}
AllOver(ts) == \A c \in Sharing(ts) : Over(call[c].at)

\* A call ends by removing the files, or its files were removed before.
LEMMA OverBefore ==
  ASSUME TypeOK, [Next]_vars, NEW ts \in Times,
         \A c \in Calls : call'[c].at # "unused" /\ call'[c].ts = ts => Over(call'[c].at)
  PROVE  AllOver(ts) \/ RemoveFiles(ts)
<1> SUFFICES ASSUME NEW c \in Sharing(ts), ~RemoveFiles(ts)
             PROVE  Over(call[c].at)
  BY DEF AllOver
<1>1. c \in Calls /\ call[c].at # "unused" /\ call[c].ts = ts /\ Over(call'[c].at)
  BY CallsStay DEF Sharing, Started
<1>2. CASE call'[c] = call[c]
  BY <1>1, <1>2
<1>3. ASSUME NEW answered \in SUBSET Started, ProcessExit(answered), c \notin answered
      PROVE  call'[c] = call[c]
  BY <1>1, <1>3, ProcessExitShape DEF Over
<1>4. CASE \E b \in Batches, d \in Calls : StartCall(d, b)
  BY <1>1, <1>2, <1>4 DEF StartCall, Started, TypeOK
<1>5. CASE \E d \in Calls : OnExit(d)
  <2>1. PICK d \in Calls : OnExit(d)
    BY <1>5
  <2>2. RemoveFiles(call[d].ts) /\ c # d
    BY <1>1, <2>1 DEF OnExit, Fail
  <2>3. CASE Fail(d)
    BY <1>2, <1>3, <2>1, <2>2, <2>3 DEF OnExit, Pending, Fail, Started
  <2>4. CASE ~Fail(d)
    <3>1. \E q : call' = [call EXCEPT ![d] = q]
      BY <2>1, <2>4 DEF OnExit
    <3>2. QED
      BY <1>1, <1>2, <2>2, <3>1 DEF TypeOK
  <2>5. QED
    BY <2>3, <2>4
<1>6. CASE \E d \in Calls : OnTimer(d)
  <2>1. PICK d \in Calls : OnTimer(d)
    BY <1>6
  <2>2. RemoveFiles(call[d].ts) /\ c # d
    BY <1>1, <2>1 DEF OnTimer, Fail
  <2>3. QED
    BY <1>2, <1>3, <2>1, <2>2 DEF OnTimer, Pending, Fail, Started
<1>7. CASE \E d \in Calls : submitSettlement(d)
  <2>1. PICK d \in Calls : submitSettlement(d)
    BY <1>7
  <2>2. CASE c = d
    BY <2>1, <2>2 DEF submitSettlement, Over
  <2>3. CASE c # d /\ ProcessExit({d})
    BY <1>2, <1>3, <2>1, <2>3 DEF submitSettlement, Started
  <2>4. CASE c # d /\ \E q : call' = [call EXCEPT ![d] = q]
    BY <1>1, <1>2, <2>4 DEF TypeOK
  <2>5. QED
    BY <2>1, <2>2, <2>3, <2>4 DEF submitSettlement
<1>8. CASE Exit
  <2>1. {} \in SUBSET Started /\ ProcessExit({})
    BY <1>8 DEF Exit
  <2>2. QED
    BY <1>2, <1>3, <2>1
<1>9. QED
  BY <1>2, <1>4, <1>5, <1>6, <1>7, <1>8
  DEF Next, vars, Restart, ChildStep, ChildReads, ChildOpens, ChildWrites, ChildFails,
      OtherSettles, Tick

\* No file of a timestamp whose calls are over comes back.
LEMMA FilesStayAway ==
  ASSUME TypeOK, OpenFileIsThere, NothingLeftBehind, [Next]_vars, NEW ts \in Times,
         \A c \in Calls : call'[c].at # "unused" /\ call'[c].ts = ts => Over(call'[c].at)
  PROVE  input'[ts] = NoFile /\ output'[ts] = NoFile
<1>1. CASE RemoveFiles(ts)
  BY <1>1 DEF RemoveFiles, FileName, TypeOK
<1>2. CASE AllOver(ts)
  <2>1. input[ts] = NoFile /\ output[ts] = NoFile
    BY <1>2 DEF NothingLeftBehind, AllOver, Over
  <2>2. CASE input'[ts] = input[ts] /\ output'[ts] = output[ts]
    BY <2>1, <2>2
  <2>3. ASSUME NEW at, RemoveFiles(at) PROVE input'[ts] = NoFile /\ output'[ts] = NoFile
    BY <2>1, <2>3 DEF RemoveFiles, TypeOK
  <2>4. CASE \E b \in Batches, d \in Calls : StartCall(d, b)
    <3>1. PICK b \in Batches, d \in Calls : StartCall(d, b)
      BY <2>4
    <3>2. call'[d].at = "spawned" /\ call'[d].ts = now
      BY <3>1 DEF StartCall, TypeOK
    <3>3. ts # now
      BY <3>2 DEF Over
    <3>4. QED
      BY <2>2, <3>1, <3>3 DEF StartCall, TypeOK, FileName
  <2>5. CASE \E d \in Calls : ChildOpens(d)
    <3>1. PICK d \in Calls : ChildOpens(d)
      BY <2>5
    <3>2. call[d].ts # ts
      BY <1>2, <3>1 DEF ChildOpens, Pending, AllOver, Over, Sharing, Started
    <3>3. QED
      BY <2>2, <3>1, <3>2 DEF ChildOpens, TypeOK, FileName
  <2>6. CASE \E d \in Calls : ChildWrites(d)
    <3>1. PICK d \in Calls : ChildWrites(d)
      BY <2>6
    <3>2. CASE child[d].linked
      <4>1. call[d].ts # ts
        BY <2>1, <3>1, <3>2 DEF ChildWrites, OpenFileIsThere
      <4>2. QED
        BY <2>2, <3>1, <4>1 DEF ChildWrites, TypeOK, FileName
    <3>3. CASE ~child[d].linked
      BY <2>2, <3>1, <3>3 DEF ChildWrites
    <3>4. QED
      BY <3>2, <3>3
  <2>7. QED
    BY <2>2, <2>3, <2>4, <2>5, <2>6
    DEF Next, vars, OnExit, OnTimer, Fail, submitSettlement, Exit, Restart, ChildStep,
        ChildReads, ChildFails, OtherSettles, Tick
<1>3. QED
  BY <1>1, <1>2, OverBefore

-----------------------------------------------------------------------------
\* The inductive invariant, and what follows from it.

\* In the beginning there is no call and no file.
LEMMA InitIInv == Init => IInv
<1> SUFFICES ASSUME Init PROVE IInv
  OBVIOUS
<1>1. TypeOK
  BY InitTypeOK
<1>2. BatchesOfTheirTime
  BY DEF Init, BatchesOfTheirTime, NoFile, NoChild, Unused
<1>3. OpenFileIsThere /\ NothingLeftBehind
  BY DEF Init, OpenFileIsThere, NothingLeftBehind, NoChild
<1>4. QED
  BY <1>1, <1>2, <1>3 DEF IInv

\* Every step keeps it.
LEMMA StepIInv == IInv /\ [Next]_vars => IInv'
<1> SUFFICES ASSUME TypeOK, BatchesOfTheirTime, OpenFileIsThere, NothingLeftBehind,
                    [Next]_vars
             PROVE  IInv'
  BY DEF IInv
<1>1. TypeOK'
  BY StepTypeOK
<1>2. BatchesOfTheirTime'
  BY InputsOfTheirTime, OutputsOfTheirTime, ChildrenOfTheirTime, ProofsOfTheirTime
  DEF BatchesOfTheirTime, AskedAt, AskedAfter, Sharing, Started
<1>3. OpenFileIsThere'
  BY OpenFileStays DEF OpenFileIsThere
<1>4. NothingLeftBehind'
  BY FilesStayAway DEF NothingLeftBehind, Sharing, Started, Over
<1>5. QED
  BY <1>1, <1>2, <1>3, <1>4 DEF IInv

\* A call that shares its millisecond with no other gets the proof of its own
\* batch, for any number of calls, orphans and restarts (prover.ts:124-126).
THEOREM ProofIsOwnCorrect == Spec => []ProofIsOwn
<1>1. IInv => ProofIsOwn
  BY DEF IInv, BatchesOfTheirTime, AskedAt, ProofIsOwn
<1>2. QED
  BY <1>1, InitIInv, StepIInv, PTL DEF Spec

\* The files of a millisecond whose calls are over are gone, for any number of
\* calls and children (prover.ts:191-194).
THEOREM NothingLeftBehindCorrect == Spec => []NothingLeftBehind
<1>1. IInv => NothingLeftBehind
  BY DEF IInv
<1>2. QED
  BY <1>1, InitIInv, StepIInv, PTL DEF Spec

=============================================================================
