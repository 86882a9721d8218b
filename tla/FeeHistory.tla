----------------------------- MODULE FeeHistory -----------------------------
(***************************************************************************)
(* eth_feeHistory's rewards for one block: the percentiles it accepts and  *)
(* calculate_reward_percentiles, one step per turn of its loops.           *)
(***************************************************************************)
EXTENDS Integers, SequencesExt

CONSTANTS
  Gas, Tip,        \* gas used by a transaction, effective tips
  Percentile,      \* requested percentiles
  MaxTxs,          \* bound: transactions of the block
  MaxPercentiles   \* bound: percentiles of a request

VARIABLES
  txs,                   \* tx_gas_and_tip
  percentiles,
  cumulativeGas, txIdx,  \* locals of the walk
  result

vars == <<txs, percentiles, cumulativeGas, txIdx, result>>

Transaction == [gas : Gas, tip : Tip]

SeqUpTo(S, n) == UNION {[1..k -> S] : k \in 0..n}

\* fee_history rejects a request with two neighbours out of order, or the
\* first of two above 100.
Accepted(ps) == \A i \in 1..(Len(ps) - 1) : ps[i] <= ps[i + 1] /\ ps[i] <= 100

\* By tip, ascending.
SortedByTip(s) == SortSeq(s, LAMBDA a, b : a.tip < b.tip)

GasUsed(s) == FoldLeft(LAMBDA sum, tx : sum + tx.gas, 0, s)

Init ==
  /\ \E s \in SeqUpTo(Transaction, MaxTxs) : txs = SortedByTip(s)
  /\ percentiles \in {ps \in SeqUpTo(Percentile, MaxPercentiles) : Accepted(ps)}
  /\ cumulativeGas = 0 /\ txIdx = 1
  /\ result = IF txs = <<>> THEN [i \in 1..Len(percentiles) |-> 0] ELSE <<>>

Done == Len(result) = Len(percentiles)

\* The gas below the percentile that is next.
Threshold == (GasUsed(txs) * percentiles[Len(result) + 1]) \div 100

\* One turn of the while loop: the transaction's gas is added, and the loop is
\* left without moving on when the threshold is reached.
Walk ==
  /\ ~Done /\ txIdx <= Len(txs)
  /\ cumulativeGas' = cumulativeGas + txs[txIdx].gas
  /\ IF cumulativeGas' >= Threshold
       THEN result' = Append(result, txs[txIdx].tip) /\ UNCHANGED txIdx
       ELSE txIdx' = txIdx + 1 /\ UNCHANGED result
  /\ UNCHANGED <<txs, percentiles>>

\* Past the last transaction, its tip is taken.
TakeLast ==
  /\ ~Done /\ txIdx > Len(txs)
  /\ result' = Append(result, Last(txs).tip)
  /\ UNCHANGED <<txs, percentiles, cumulativeGas, txIdx>>

Next == Walk \/ TakeLast

Spec == Init /\ [][Next]_vars

(***************************************************************************)
(* Properties.                                                             *)
(***************************************************************************)
\* The first transaction at which the gas used so far reaches the threshold.
TipAt(p) ==
  LET reached == {i \in 1..Len(txs) :
                    GasUsed(SubSeq(txs, 1, i)) >= (GasUsed(txs) * p) \div 100}
  IN IF reached = {} THEN Last(txs).tip
     ELSE txs[CHOOSE i \in reached : \A j \in reached : i <= j].tip

\* Each reward is the tip at which the cumulative gas used, over transactions
\* by ascending tip, reaches the percentile, whichever percentiles were asked
\* for before it.
RewardsAtPercentiles ==
  txs # <<>> => \A i \in 1..Len(result) : result[i] = TipAt(percentiles[i])
=============================================================================
