----------------------------- MODULE MCCounter ------------------------------
(* A node with two peers: one ahead on a fork, one behind.  In the last setup the
   one that is ahead may mine a block that lists an uncle once more, and then
   serves a batch that ends with it. *)
EXTENDS Counter

CONSTANTS n1, n2, n3, MaxHash

MCNode == {n1, n2, n3}
MCLinks == {{n1, n2}, {n1, n3}}
MCHash == 0 .. MaxHash
MCNumeric == [h \in MCHash |-> h]
MCOp == [h \in MCHash |-> IF h = 2 THEN "incr" ELSE "decr"]

Block(parent, depth) == [parent |-> parent, depth |-> depth, weight |-> depth,
                         uncles |-> <<>>, txs |-> {}]
\* The lines 2 and 1, 3, 4, 5 start at the genesis block; 5 has 2 as an uncle.
MCWorld == [h \in 1 .. 5 |-> CASE h \in {1, 2} -> Block(0, 1) [] h = 3 -> Block(1, 2)
                               [] h = 4 -> Block(3, 3)
                               [] h = 5 -> [Block(4, 4) EXCEPT !.weight = 5, !.uncles = <<2>>]]
Know(second) == [n \in MCNode |-> CASE n = n1 -> <<2>> [] n = n2 -> second [] n = n3 -> <<>>]
MCSetups ==
  {[know |-> Know(<<1>>), down |-> {}, miners |-> {n2}, faults |-> FALSE],
   [know |-> Know(<<1>>), down |-> {}, miners |-> {n1}, faults |-> FALSE],
   [know |-> Know(<<1, 3, 4>>), down |-> {{n1, n3}}, miners |-> {n1, n2}, faults |-> TRUE],
   [know |-> Know(<<1, 2, 3, 4, 5>>), down |-> {{n1, n3}}, miners |-> {n1, n2}, faults |-> FALSE]}
=============================================================================
