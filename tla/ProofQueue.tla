------------------------------ MODULE ProofQueue ------------------------------
(***************************************************************************)
(* What the prover service (circuit/script keeper_prover.rs) promises its  *)
(* client: one answer for each request, in the order of the requests, each *)
(* of them an answer to its request.                                       *)
(***************************************************************************)
EXTENDS Naturals, Sequences

CONSTANTS
  Requests,        \* the requests a client may make
  AnswersOf(_)     \* the answers a request may get

VARIABLES requests, answers

\* A client may have asked before the service starts.
Init == requests \in Seq(Requests) /\ answers = <<>>

Ask ==
  /\ \E r \in Requests : requests' = Append(requests, r)
  /\ UNCHANGED answers

Answer ==
  /\ Len(answers) < Len(requests)
  /\ \E a \in AnswersOf(requests[Len(answers) + 1]) : answers' = Append(answers, a)
  /\ UNCHANGED requests

Next == Ask \/ Answer

Spec == Init /\ [][Next]_<<requests, answers>>

=============================================================================
