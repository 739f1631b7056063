--------------------------- MODULE MCProverService ---------------------------
EXTENDS ProverService

\* A payload that can be proved, another whose outputs are false but for their
\* hash, one that is refused, and two that are proved in vain.
GoodBatch ==
  [decodes |-> TRUE, trades |-> <<2, 1>>, trade_commitments |-> <<2, 1>>,
   sorted_trade_ids |-> <<1, 2>>, checkpoints |-> 2, accounts |-> 2,
   expected |-> None, computed |-> [hash |-> "its hash", rest |-> "its outputs"],
   committed |-> "its hash"]

FewBatches ==
  {GoodBatch,
   [GoodBatch EXCEPT !.sorted_trade_ids = <<2, 1>>],
   [GoodBatch EXCEPT !.accounts = 1],
   [GoodBatch EXCEPT !.expected = [hash |-> "its hash", rest |-> "other outputs"]],
   [GoodBatch EXCEPT !.expected = [hash |-> "other hash", rest |-> "its outputs"]]}

\* No attempt, two without a delay, and so many that the delay overflows
\* before it meets the cap.
FewSettings ==
  {[max_retries |-> 0, retry_base_delay |-> 5, retry_max_delay |-> 12],
   [max_retries |-> 2, retry_base_delay |-> 0, retry_max_delay |-> 12],
   [max_retries |-> 4, retry_base_delay |-> 5, retry_max_delay |-> 12]}

=============================================================================
