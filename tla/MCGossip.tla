------------------------------ MODULE MCGossip ------------------------------
(* Three nodes that mine up to MaxHash blocks. *)
EXTENDS Gossip, TLC

CONSTANTS n1, n2, n3, MaxHash

MCNode == {n1, n2, n3}
MCHash == 0 .. MaxHash
\* Of two blocks of one weight the first one mined loses; the byte sums of the
\* other two collide.
MCNumeric == [h \in MCHash |-> IF h = 1 THEN 2 ELSE 1]
MCSymmetry == Permutations(MCNode)
=============================================================================
