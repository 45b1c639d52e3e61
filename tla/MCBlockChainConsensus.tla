----------------------- MODULE MCBlockChainConsensus -----------------------
(* Small instances of BlockChainConsensus.  Hashes are numbers, 0 is the   *)
(* genesis block.                                                          *)
EXTENDS ChainRefinement

CONSTANT MaxHash

MCHash == 0..MaxHash

\* Hashes 1 and 2 have the same byte sum, so ties that Numeric cannot break
\* happen too.
MCNumeric == [h \in MCHash |-> IF h = 2 THEN 1 ELSE h]
=============================================================================
