-------------------------- MODULE ChainRefinement --------------------------
(***************************************************************************)
(* The engine implements the abstract chain: an add takes effect when the  *)
(* lock is released (or the miner told), and until then readers have the   *)
(* chain as it was when the add began.                                     *)
(***************************************************************************)
EXTENDS BlockChainConsensus

knownBar ==
  [h \in Hash |-> IF pc \in Opening THEN IF h = Genesis THEN GenesisBlock ELSE NoBlock
                  ELSE IF h \in node /\ (h # child \/ Visible) THEN block[h]
                  ELSE NoBlock]
canonicalBar == IF pc \in Opening THEN {Genesis} ELSE IF Visible THEN main ELSE oldMain
bestBar == IF pc \in Opening \/ Visible THEN tip ELSE oldTip

Abstract == INSTANCE HeaviestChain WITH
              known <- knownBar, canonical <- canonicalBar, best <- bestBar

\* Seen from outside, an add is one atomic step of HeaviestChain: the block
\* becomes known and the canonical chain is the line to the best block.
ImplementsHeaviestChain == Abstract!Spec
=============================================================================
