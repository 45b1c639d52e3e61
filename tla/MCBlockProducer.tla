--------------------------- MODULE MCBlockProducer ---------------------------
(* A small instance of BlockProducer: two transactions, a queue of one, two  *)
(* transactions to a block.                                                   *)
EXTENDS BlockProducer

CONSTANTS t1, t2, p1, p2, s1

MCTx == {t1, t2}
MCProducer == {p1, p2}
MCSync == {s1}
MCAllCalls == {"start", "suspend", "stop"}
==============================================================================
