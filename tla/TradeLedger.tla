---------------------------- MODULE TradeLedger ----------------------------
(***************************************************************************)
(* What the system promises a trader, without chain, proofs or pool: a     *)
(* trade is placed while its window is open, the end of the window decides *)
(* whether it won, its batch is settled as a whole and once, and then it   *)
(* is paid once, by exactly its prize for the stake the payment is told.   *)
(* Nothing else changes a balance but the trader's own deposits and        *)
(* withdrawals.                                                            *)
(***************************************************************************)
EXTENDS Integers

CONSTANTS
  Batches, Trades, Traders, TradeBatch, TradeTrader, Prize,
  StakesPassed   \* stakes a payment of the trade may be told

VARIABLES
  placed,     \* trades placed
  ended,      \* batches whose window has ended
  won,        \* trades that won
  settled,    \* batches settled
  paid,       \* trades paid
  balance     \* of each trader

vars == <<placed, ended, won, settled, paid, balance>>

Init ==
  /\ placed = {} /\ ended = {} /\ won = {} /\ settled = {} /\ paid = {}
  /\ balance = [tr \in Traders |-> 0]

Place(t) ==
  /\ t \notin placed
  /\ TradeBatch[t] \notin ended
  /\ placed' = placed \cup {t}
  /\ UNCHANGED <<ended, won, settled, paid, balance>>

\* Only trades of the window are decided, all at once.
EndWindow(b) ==
  /\ b \notin ended
  /\ ended' = ended \cup {b}
  /\ won \subseteq won'
  /\ \A t \in won' \ won : t \in placed /\ TradeBatch[t] = b
  /\ UNCHANGED <<placed, settled, paid, balance>>

Settle(b) ==
  /\ b \in ended \ settled
  /\ settled' = settled \cup {b}
  /\ UNCHANGED <<placed, ended, won, paid, balance>>

Outcome(t, stake) == IF t \in won THEN Prize[t] - stake ELSE -stake

Pay(t, stake) ==
  /\ stake \in StakesPassed[t]
  /\ t \in placed \ paid
  /\ TradeBatch[t] \in settled
  /\ balance[TradeTrader[t]] >= stake
  /\ paid' = paid \cup {t}
  /\ balance' = [balance EXCEPT ![TradeTrader[t]] = @ + Outcome(t, stake)]
  /\ UNCHANGED <<placed, ended, won, settled>>

Deposit(tr) ==
  /\ balance'[tr] > balance[tr]
  /\ balance' = [balance EXCEPT ![tr] = balance'[tr]]
  /\ UNCHANGED <<placed, ended, won, settled, paid>>

Withdraw(tr) ==
  /\ 0 <= balance'[tr] /\ balance'[tr] < balance[tr]
  /\ balance' = [balance EXCEPT ![tr] = balance'[tr]]
  /\ UNCHANGED <<placed, ended, won, settled, paid>>

Next ==
  \/ \E t \in Trades : Place(t) \/ \E stake \in StakesPassed[t] : Pay(t, stake)
  \/ \E b \in Batches : EndWindow(b) \/ Settle(b)
  \/ \E tr \in Traders : Deposit(tr) \/ Withdraw(tr)

Spec == Init /\ [][Next]_vars

=============================================================================
