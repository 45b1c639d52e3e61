------------------------------ MODULE BlockTree ------------------------------
(***************************************************************************)
(* Pure operators on the tree of blocks that the consensus engine keeps in *)
(* its database (consensus/blockChainConsensus.go).                        *)
(*                                                                         *)
(* A block is named by its hash.  The two tables the engine writes are     *)
(*   block     hash -> block, or NoBlock                 ("Block-")        *)
(*   node      the hashes that have a chain node         ("ChainNode-")    *)
(* A chain node repeats the parent, depth and weight of its block, so      *)
(* these are read from block; its list of children and its main list flag  *)
(* are tables of their own (children, main).                               *)
(***************************************************************************)
EXTENDS Naturals, Sequences

CONSTANTS
  Hash,              \* the hashes blocks may have
  Genesis,           \* the hash of the genesis block
  NoHash,            \* the nil hash, "genesisParent" in the code
  NoBlock,           \* what the block table holds for an unknown hash
  Tx,                \* transactions, named by their Id()
  Numeric,           \* block.Numeric(): the byte sum of a hash
  MaxUncleDistance,  \* maxUncleDistance, 5 in the code
  MaxBlocks          \* maxBlocks, 100 in the code

ASSUME TreeAssumption ==
  /\ Genesis \in Hash
  /\ NoHash \notin Hash
  /\ Numeric \in [Hash -> Nat]
  /\ MaxUncleDistance \in Nat /\ MaxBlocks \in Nat

\* The part of BlockSpec that the engine's decisions depend on.
BlockSpec ==
  [parent : Hash \cup {NoHash}, depth : Nat, weight : Nat,
   uncles : Seq(Hash), txs : SUBSET Tx]

ASSUME NoBlockAssumption == NoBlock \notin BlockSpec

GenesisBlock ==
  [parent |-> NoHash, depth |-> 0, weight |-> 0, uncles |-> <<>>, txs |-> {}]

\* The ancestor k generations above h; NoHash once the walk leaves the tree
\* (getChainNode fails and the code goes on with a nil node).
Up(node, block, h, k) ==
  LET over == [g \in node \cup {NoHash} |->
                 IF g \in node /\ block[g].parent \in node THEN block[g].parent ELSE NoHash]
      up[i \in 0..k] == IF i = 0 THEN (IF h \in node THEN h ELSE NoHash) ELSE over[up[i - 1]]
  IN  up[k]

\* isUncleValid: bring parent and uncle to one depth, refuse an uncle on the
\* parent's own line, walk both up to the common ancestor and bound the steps.
IsUncleValid(node, block, parent, uncle) ==
  /\ uncle \in node
  /\ parent \in node
  /\ LET dp == block[parent].depth
         du == block[uncle].depth
         parentUp == IF dp > du THEN dp - du ELSE 0
         uncleUp  == IF du > dp THEN du - dp ELSE 0
         p == Up(node, block, parent, parentUp)
         u == Up(node, block, uncle, uncleUp)
     IN  /\ p # NoHash /\ u # NoHash /\ p # u
         /\ \E k \in 1..MaxUncleDistance :
              /\ parentUp + uncleUp + k <= MaxUncleDistance
              /\ Up(node, block, p, k) = Up(node, block, u, k)
              /\ Up(node, block, p, k) # NoHash

\* The lists of a list of lists, one after the other.
Concat(lists) ==
  LET upTo[i \in 0..Len(lists)] == IF i = 0 THEN <<>> ELSE upTo[i - 1] \o lists[i]
  IN  upTo[Len(lists)]

\* findNonDirectAncestors: the blocks below child, at most rem generations
\* down and no deeper than maxDepth, parents before children.
FindNonDirectAncestors(node, block, children, child, rem, maxDepth) ==
  LET below[r \in 0..rem] ==
        [h \in Hash |->
           IF r = 0 \/ h \notin node THEN <<>>
           ELSE Concat([i \in DOMAIN children[h] |->
                  LET g == children[h][i]
                  IN  IF block[g] # NoBlock /\ block[g].depth <= maxDepth
                      THEN <<g>> \o below[r - 1][g] ELSE <<>>])]
  IN  below[rem][child]

\* findUncles: at each of the generations above parent, the other children of
\* that ancestor and what hangs below them.
FindUncles(node, block, children, parent) ==
  LET maxDepth == block[parent].depth
      Siblings(ancestor, own, rem) ==
        Concat([i \in DOMAIN children[ancestor] |->
          LET c == children[ancestor][i]
          IN  IF c # own /\ block[c] # NoBlock
              THEN <<c>> \o FindNonDirectAncestors(node, block, children, c,
                                                   rem - 1, maxDepth)
              ELSE <<>>])
      Ancestor(i) == Up(node, block, block[parent].parent, i)
      found[rem \in 0..MaxUncleDistance] ==
        LET i == MaxUncleDistance - rem
            own == IF i = 0 THEN parent ELSE Ancestor(i - 1)
        IN  IF rem = 0 \/ Ancestor(i) = NoHash THEN <<>>
            ELSE Siblings(Ancestor(i), own, rem) \o found[rem - 1]
  IN  found[MaxUncleDistance]

\* findMainListChild: the first child on the main list other than skip.
FindMainListChild(node, main, children, parent, skip) ==
  LET hits == {i \in DOMAIN children[parent] :
                 /\ children[parent][i] \in node \cap main
                 /\ children[parent][i] # skip}
  IN  IF hits = {} THEN NoHash
      ELSE children[parent][CHOOSE i \in hits : \A j \in hits : i <= j]

\* Mutant of Descendents: a block goes before its uncles, and the batch may end
\* between them.
DescendentsBlockFirst(node, block, main, children, parent, max) ==
  LET limit == IF max > MaxBlocks THEN MaxBlocks ELSE max
      round[w \in [at : Hash \cup {NoHash}, list : Seq(Hash)]] ==
        IF w.at = NoHash \/ Len(w.list) >= limit THEN w
        ELSE [at   |-> FindMainListChild(node, main, children, w.at, NoHash),
              list |-> (IF w.at = parent THEN w.list ELSE Append(w.list, w.at))
                       \o block[w.at].uncles]
      walk[i \in 0 .. limit + 1] ==
        IF i = 0 THEN [at |-> parent, list |-> <<>>] ELSE round[walk[i - 1]]
  IN  IF parent \in node \cap main THEN walk[limit + 1].list ELSE <<>>

\* Descendents: the main list below parent, each block after its uncles; a
\* block whose uncles do not fit any more ends the batch.  Every round of the
\* loop but the first adds a block, so limit + 1 rounds are all there can be.
Descendents(node, block, main, children, parent, max) ==
  LET limit == IF max > MaxBlocks THEN MaxBlocks ELSE max
      round[w \in [at : Hash \cup {NoHash}, list : Seq(Hash)]] ==
        IF \/ w.at = NoHash \/ Len(w.list) >= limit
           \/ Len(w.list) + Len(block[w.at].uncles) >= limit
        THEN w
        ELSE [at   |-> FindMainListChild(node, main, children, w.at, NoHash),
              list |-> w.list \o block[w.at].uncles
                       \o (IF w.at = parent THEN <<>> ELSE <<w.at>>)]
      walk[i \in 0 .. limit + 1] ==
        IF i = 0 THEN [at |-> parent, list |-> <<>>] ELSE round[walk[i - 1]]
  IN  IF parent \in node \cap main THEN walk[limit + 1].list ELSE <<>>

\* The order that decides between tips: more weight, then the smaller Numeric.
Better(block, g, h) ==
  \/ block[g].weight > block[h].weight
  \/ block[g].weight = block[h].weight /\ Numeric[g] < Numeric[h]

\* Reference definition: the main list holds tip and its ancestors, nothing
\* else.  Stated locally, without a recursive notion of ancestor.
IsCanonical(block, main, tip) ==
  /\ Genesis \in main /\ tip \in main
  /\ \A h \in main : block[h] # NoBlock
  /\ \A h \in main \ {Genesis} :
       block[h].parent \in main /\ block[block[h].parent].depth < block[h].depth
  /\ \A g, h \in main : block[g].depth = block[h].depth => g = h
  /\ \A h \in main : block[h].depth <= block[tip].depth
==============================================================================
