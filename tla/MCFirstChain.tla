---------------------------- MODULE MCFirstChain ----------------------------
(* A small instance of FirstChain.  The byte sum of a hash plays no part in *)
(* this chain.                                                               *)
EXTENDS FirstChain

MCNumeric == [h \in Hash |-> 0]
=============================================================================
