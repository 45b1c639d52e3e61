--------------------------- MODULE HeaviestChain ---------------------------
(***************************************************************************)
(* What the consensus engine promises its users (consensus/consensus.go):  *)
(* a set of known blocks and one canonical chain, the line from the        *)
(* genesis block to the best known block.  Adding a block is atomic.       *)
(***************************************************************************)
EXTENDS BlockTree

VARIABLES
  known,       \* hash -> block, or NoBlock
  canonical,   \* the hashes on the canonical chain
  best         \* the tip of the canonical chain

Init ==
  /\ known = [h \in Hash |-> IF h = Genesis THEN GenesisBlock ELSE NoBlock]
  /\ canonical = {Genesis}
  /\ best = Genesis

\* A child of a known block, one deeper and at least one heavier.
Extends(b) ==
  /\ b \in BlockSpec
  /\ b.parent \in Hash /\ known[b.parent] # NoBlock
  /\ b.depth = known[b.parent].depth + 1
  /\ b.weight > known[b.parent].weight

\* The block is the new tip exactly when it beats the old one; the canonical
\* chain is then the line to it.
Add(h, b) ==
  /\ known[h] = NoBlock
  /\ Extends(b)
  /\ known' = [known EXCEPT ![h] = b]
  /\ \/ /\ Better(known', h, best)
        /\ best' = h
        /\ canonical' \in SUBSET Hash /\ IsCanonical(known', canonical', h)
     \/ /\ ~Better(known', h, best)
        /\ UNCHANGED <<canonical, best>>

Next == \E h \in Hash : Add(h, known'[h])

Spec == Init /\ [][Next]_<<known, canonical, best>>
=============================================================================
