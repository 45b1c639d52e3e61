------------------------------ MODULE MCTrustee ------------------------------
(* Two miners, one counter, blocks with one application transaction each. *)
EXTENDS Trustee, TLC

CONSTANTS m1, m2, counter, MaxHash

MCMiner == {m1, m2}
MCName == {m1, m2, counter}
MCHash == 0 .. MaxHash
\* Of the first two blocks the second one wins a tie, else the earlier one.
MCNumeric == [h \in MCHash |-> IF h = 1 THEN 2 ELSE IF h = 2 THEN 1 ELSE h]
MCTx(op, source, target, delta) == [op |-> op, source |-> source, target |-> target, delta |-> delta]

\* Transfers of an amount that some balances cover, to oneself too, and of -1 as a
\* uint64.
MCXfers == {MCTx("xfer", m, n, delta) : m, n \in MCMiner, delta \in {3, UInt64 - 1}}

\* Counter operations on a counter and on accounts, transfers between accounts and
\* from the counter to an account, whose balance they wrap round.
MCCounters ==
  {MCTx("incr", counter, counter, UInt64 - 1)} \cup {MCTx("decr", m, m, 3) : m \in MCMiner} \cup
  {MCTx("xfer", m1, m2, 3), MCTx("xfer", m2, m1, 3)} \cup
  {MCTx("xfer", counter, m, UInt64 - 1) : m \in MCMiner}

MCBounds == {[blocks |-> 4, txs |-> MCXfers], [blocks |-> 3, txs |-> MCCounters]}
MCSymmetry == Permutations(MCMiner)
==============================================================================
