--------------------- MODULE BlockChainConsensusProofs ---------------------
(***************************************************************************)
(* Proofs about the consensus engine, for every set of hashes, every       *)
(* Numeric and every bound, in three parts:                                *)
(*  - the tip is the best block even when writes fail and the node         *)
(*    restarts in the middle of an add;                                    *)
(*  - without faults, addValidatedBlock keeps the main list flags on the   *)
(*    line from the genesis block to the tip, and the engine implements    *)
(*    the abstract chain of HeaviestChain;                                 *)
(*  - what the engine promises to its callers: a candidate stays valid     *)
(*    while other blocks are added, Descendents lead to the tip, and a     *)
(*    transaction of the main list is registered.                          *)
(***************************************************************************)
EXTENDS ChainRefinement, BlockTreeProofs

\* Most leaves are for Zenon; a leaf that needs another prover names it.
USE Zenon

-----------------------------------------------------------------------------
(* What holds in every state, faults included *)

Stored(h) == block[h] # NoBlock

\* The pcs of an add that has found its parent's chain node.
Linked == {"tip", "rebase", "up", "down", "side", "callback"}

\* Stored blocks form a tree rooted in Genesis.
BlockInv ==
  /\ block[Genesis] \in {NoBlock, GenesisBlock}
  /\ \A h \in Hash : Stored(h) => Stored(Genesis)
  /\ \A h \in Hash \ {Genesis} : Stored(h) =>
       /\ block[h].parent \in Hash /\ Stored(block[h].parent)
       /\ block[h].depth = block[block[h].parent].depth + 1
       /\ block[h].weight > block[block[h].parent].weight

\* Chain nodes are stored blocks and closed under parents, so that a walk up
\* from a chain node ends at Genesis, which is on the main list, at the latest.
NodeInv ==
  /\ \A h \in node : Stored(h)
  /\ \A h \in node \ {Genesis} : block[h].parent \in node
  /\ main \subseteq node
  /\ node # {} => Genesis \in main

\* The lists of children hold children.
ChildrenInv ==
  \A p \in Hash : \A i \in DOMAIN children[p] :
    /\ children[p][i] # Genesis /\ Stored(children[p][i])
    /\ block[children[p][i]].parent = p

\* The locals of an add.
AddInv ==
  /\ pc \in {"genesisNode", "idle"} \cup Adding => Stored(Genesis)
  /\ pc \in Adding => child # Genesis /\ Stored(child)
  /\ pc = "parent" => parentNode = block[child].parent
  /\ pc \in Linked => parentNode \in node /\ block[child].parent \in node
  /\ pc = "down" => oldChild # Genesis

\* The persisted tip is the tip in memory and no chain node beats it.
TipInv ==
  /\ pc = "open" => tip = Genesis /\ weight = 0
  /\ pc # "open" => dagTip # NoHash
  /\ dagTip = NoHash => node = {}
  /\ dagTip \in {NoHash, Genesis} \/ Stored(dagTip)
  /\ pc = "failed" => ~Stored(Genesis) \/ Stored(dagTip)
  /\ pc \in {"genesisBlock", "genesisNode"} =>
       dagTip = Genesis /\ tip = Genesis /\ weight = 0 /\ node \subseteq {Genesis}
  /\ pc \in {"idle"} \cup Adding =>
       dagTip = tip /\ Stored(tip) /\ weight = block[tip].weight
  /\ dagTip # NoHash /\ Stored(dagTip) => \A h \in node : ~Better(block, h, dagTip)
  /\ pc = "tip" => Better(block, child, tip)
  /\ pc = "side" => ~Better(block, child, tip)
  /\ pc \in {"rebase", "up", "down"} => tip = child

FaultInv == TypeOK /\ BlockInv /\ NodeInv /\ ChildrenInv /\ AddInv /\ TipInv

\* The fields of a stored block.
LEMMA StoredType ==
  ASSUME TypeOK
  PROVE  \A h \in Hash : Stored(h) =>
           /\ block[h] \in BlockSpec
           /\ block[h].parent \in Hash \cup {NoHash}
           /\ block[h].depth \in Nat /\ block[h].weight \in Nat
           /\ block[h].txs \in SUBSET Tx
<1> SUFFICES ASSUME NEW h \in Hash, Stored(h)
             PROVE  /\ block[h] \in BlockSpec
                    /\ block[h].parent \in Hash \cup {NoHash}
                    /\ block[h].depth \in Nat /\ block[h].weight \in Nat
                    /\ block[h].txs \in SUBSET Tx
  OBVIOUS
<1>1. block[h] \in BlockSpec
  BY DEF TypeOK, Stored
<1> QED
  BY <1>1 DEF BlockSpec

\* The order of addValidatedBlock is a strict one.
LEMMA BetterFact ==
  ASSUME TypeOK
  PROVE  /\ \A g \in Hash : Stored(g) => ~Better(block, g, g)
         /\ \A f, g, h \in Hash :
              /\ Stored(f) /\ Stored(g) /\ Stored(h)
              /\ ~Better(block, f, g) /\ Better(block, h, g)
              => ~Better(block, f, h)
BY SMT, StoredType, TreeAssumption DEF Better

\* A genesis block is a block.
LEMMA GenesisType == GenesisBlock \in BlockSpec
BY SMT DEF GenesisBlock, BlockSpec

\* The state an engine starts in on an empty database.
LEMMA FaultInvInit == Init => FaultInv
<1> SUFFICES ASSUME Init PROVE FaultInv
  OBVIOUS
<1> USE TreeAssumption DEF Init, Stored
<1>1. TypeOK
  BY SMT DEF TypeOK, Steps, Opening
<1>2. BlockInv /\ NodeInv /\ ChildrenInv
  BY SMT DEF BlockInv, NodeInv, ChildrenInv
<1>3. AddInv /\ TipInv
  BY DEF AddInv, TipInv, Adding, Linked
<1> QED
  BY <1>1, <1>2, <1>3 DEF FaultInv

\* The variables of the tuples.
LEMMA Same ==
  /\ UNCHANGED db => /\ block' = block /\ node' = node /\ main' = main
                     /\ children' = children /\ dagTip' = dagTip /\ txBlock' = txBlock
  /\ UNCHANGED memory => tip' = tip /\ weight' = weight /\ state' = state
  /\ UNCHANGED add => /\ origin' = origin /\ child' = child /\ parentNode' = parentNode
                      /\ mainListParent' = mainListParent /\ oldChild' = oldChild
  /\ UNCHANGED past => oldMain' = oldMain /\ oldTip' = oldTip
BY DEF db, memory, add, past

\* TypeOK in three parts: the database, the memory, the locals of an add.
DbType ==
  /\ block \in [Hash -> BlockSpec \cup {NoBlock}]
  /\ node \in SUBSET Hash /\ main \in SUBSET Hash
  /\ children \in [Hash -> Seq(Hash)]
  /\ dagTip \in Hash \cup {NoHash}
  /\ txBlock \in [Tx -> Hash \cup {NoHash}]
MemoryType == tip \in Hash /\ weight \in Nat /\ state \in Hash
AddType ==
  /\ pc \in Steps /\ origin \in {"mined", "network"}
  /\ child \in Hash /\ mainListParent \in Hash
  /\ parentNode \in Hash \cup {NoHash} /\ oldChild \in Hash \cup {NoHash}
  /\ oldMain \in SUBSET Hash /\ oldTip \in Hash /\ crashes \in Nat

\* The parts make up the whole, and what a step leaves alone keeps its type.
LEMMA TypeParts ==
  ASSUME TypeOK
  PROVE  /\ DbType /\ MemoryType /\ AddType
         /\ UNCHANGED db => DbType'
         /\ UNCHANGED memory => MemoryType'
         /\ DbType' /\ MemoryType' /\ AddType' => TypeOK'
<1>1. DbType /\ MemoryType /\ AddType
  BY DEF TypeOK, DbType, MemoryType, AddType
<1>2. UNCHANGED db => DbType'
  BY <1>1 DEF DbType, db
<1>3. UNCHANGED memory => MemoryType'
  BY <1>1 DEF MemoryType, memory
<1>4. DbType' /\ MemoryType' /\ AddType' => TypeOK'
  BY DEF TypeOK, DbType, MemoryType, AddType
<1> QED
  BY <1>1, <1>2, <1>3, <1>4

\* What a step leaves alone stays right.
LEMMA Undisturbed ==
  ASSUME FaultInv
  PROVE  /\ UNCHANGED block => BlockInv'
         /\ UNCHANGED <<block, node, main>> => NodeInv'
         /\ UNCHANGED <<block, children>> => ChildrenInv'
BY SMT DEF FaultInv, BlockInv, NodeInv, ChildrenInv, Stored

\* findMainListChild returns a listed child that is flagged and not skipped, or
\* nil when there is none.
LEMMA SearchFact ==
  ASSUME TypeOK, ChildrenInv,
         NEW n \in SUBSET Hash, NEW m \in SUBSET Hash, NEW p \in Hash, NEW skip,
         NEW c, c = FindMainListChild(n, m, children, p, skip)
  PROVE  /\ c \in Hash \cup {NoHash}
         /\ c # NoHash => /\ c \in n \cap m /\ c # skip /\ c # Genesis
                          /\ block[c].parent = p
         /\ c = NoHash => \A i \in DOMAIN children[p] :
                            children[p][i] \in n \cap m => children[p][i] = skip
<1> DEFINE hits == {i \in DOMAIN children[p] :
                      children[p][i] \in n \cap m /\ children[p][i] # skip}
           first == CHOOSE i \in hits : \A j \in hits : i <= j
<1>1. children[p] \in Seq(Hash) /\ hits \in SUBSET Nat
  BY SMT DEF TypeOK
<1>2. c = IF hits = {} THEN NoHash ELSE children[p][first]
  BY DEF FindMainListChild
<1>3. CASE hits = {}
  BY <1>2, <1>3
<1>4. CASE hits # {}
  <2>1. first \in hits
    BY <1>1, <1>4, LeastNumberPrinciple
  <2> HIDE DEF first
  <2>2. /\ first \in DOMAIN children[p] /\ c = children[p][first]
        /\ c \in n \cap m /\ c # skip
    BY <1>2, <1>4, <2>1
  <2>3. c \in Hash /\ c # NoHash
    BY <2>2, TreeAssumption
  <2>4. c # Genesis /\ block[c].parent = p
    BY SMT, <2>2 DEF ChildrenInv
  <2> QED
    BY <2>2, <2>3, <2>4
<1> QED
  BY <1>3, <1>4

\* A step that begins an add stores a block that extends the tree.
LEMMA FaultInvBeginAdd ==
  ASSUME FaultInv, NEW h \in Hash, NEW b, BeginAdd(h, b), block[h] \in {NoBlock, b},
         origin' \in {"mined", "network"}
  PROVE  FaultInv'
<1>0. DbType /\ MemoryType /\ AddType
  BY TypeParts DEF FaultInv
<1> USE <1>0, TreeAssumption DEF FaultInv
<1>1. /\ pc = "idle" /\ pc' = "parent"
      /\ b \in BlockSpec /\ b # NoBlock
      /\ b.parent \in Hash /\ Stored(b.parent)
      /\ b.depth = block[b.parent].depth + 1
      /\ b.weight = block[b.parent].weight + 1 + Len(b.uncles)
      /\ h \notin node
      /\ block' = [block EXCEPT ![h] = b] /\ child' = h /\ parentNode' = b.parent
      /\ UNCHANGED <<node, main, children, dagTip, tip, weight>>
  BY NoBlockAssumption, Same DEF BeginAdd, ValidBlock, Addable, Stored
<1>2. /\ b.depth \in Nat /\ b.weight \in Nat /\ Len(b.uncles) \in Nat
      /\ b.depth > 0
      /\ b.weight > block[b.parent].weight
  BY SMTT(30), <1>1, StoredType DEF BlockSpec
<1>3. h # Genesis
  BY SMT, <1>1, <1>2 DEF BlockInv, AddInv, Stored, GenesisBlock
<1>4. \A g \in Hash : /\ Stored(g) => block'[g] = block[g]
                      /\ g # h => block'[g] = block[g]
  BY <1>1 DEF DbType, Stored
<1>5. TypeOK'
  <2>1. DbType'
    BY SMT, <1>1 DEF DbType, BeginAdd
  <2>2. AddType'
    BY SMTT(30), <1>1 DEF AddType, DbType, MemoryType, BeginAdd, Steps, Adding
  <2> QED
    BY <1>1, <2>1, <2>2, TypeParts DEF BeginAdd
<1>6. BlockInv'
  <2>1. block'[h] = b
    BY <1>1 DEF DbType
  <2>2. \A g \in Hash : block'[g] # NoBlock => Stored(g) \/ g = h
    BY <1>4 DEF Stored
  <2>3. \A g \in Hash : Stored(g) => block'[g] # NoBlock
    BY <1>4 DEF Stored
  <2>4. Stored(Genesis)
    BY <1>1 DEF AddInv
  <2>5. \A g \in Hash \ {Genesis} : Stored(g) =>
          /\ block'[g].parent \in Hash /\ block'[block'[g].parent] # NoBlock
          /\ block'[g].depth = block'[block'[g].parent].depth + 1
          /\ block'[g].weight > block'[block'[g].parent].weight
    BY <1>4, <2>3 DEF BlockInv
  <2>6. /\ block'[h].parent \in Hash /\ block'[block'[h].parent] # NoBlock
        /\ block'[h].depth = block'[block'[h].parent].depth + 1
        /\ block'[h].weight > block'[block'[h].parent].weight
    BY <1>1, <1>2, <1>4, <2>1, <2>3
  <2> QED
    BY <1>4, <2>2, <2>3, <2>4, <2>5, <2>6 DEF BlockInv, Stored
<1>7. NodeInv'
  BY <1>1, <1>4 DEF NodeInv, Stored, DbType
<1>8. ChildrenInv'
  <2> SUFFICES ASSUME NEW p \in Hash, NEW i \in DOMAIN children[p]
               PROVE  /\ children[p][i] # Genesis /\ block'[children[p][i]] # NoBlock
                      /\ block'[children[p][i]].parent = p
    BY SMT, <1>1 DEF ChildrenInv, Stored
  <2>1. children[p][i] \in Hash
    BY SMT DEF DbType
  <2> QED
    BY SMT, <1>4, <2>1 DEF ChildrenInv, Stored
<1>9. AddInv'
  BY <1>1, <1>3, <1>4 DEF AddInv, Stored, DbType, Adding, Linked
<1>10. TipInv'
  <2>1. /\ dagTip = tip /\ tip \in Hash /\ Stored(tip) /\ block'[tip] = block[tip]
        /\ weight = block[tip].weight /\ dagTip # NoHash
    BY <1>1, <1>4 DEF TipInv, MemoryType
  <2>2. \A g \in node : ~Better(block, g, tip)'
    BY <1>1, <1>4, <2>1 DEF Better, TipInv, NodeInv, DbType
  <2> QED
    BY <1>1, <2>1, <2>2 DEF TipInv, Stored, Adding
<1> QED
  BY <1>5, <1>6, <1>7, <1>8, <1>9, <1>10

\* The next candidate is no part of the invariant.
LEMMA FaultInvStutter ==
  ASSUME FaultInv, UNCHANGED <<db, memory, pc, add, past, crashes>>
  PROVE  FaultInv'
<1> USE DEF FaultInv
<1>1. UNCHANGED <<block, node, main, children, dagTip>> /\ UNCHANGED <<tip, weight, pc>>
  BY DEF db, memory
<1>2. UNCHANGED <<child, parentNode, oldChild>>
  BY DEF add
<1>3. AddType'
  BY TypeParts, Same DEF AddType
<1>4. TypeOK'
  BY <1>3, TypeParts
<1>5. AddInv'
  BY <1>1, <1>2 DEF AddInv, Stored
<1>6. TipInv'
  BY <1>1, <1>2 DEF TipInv, Stored, Better
<1> QED
  BY <1>1, <1>4, <1>5, <1>6, Undisturbed

\* An add may return at any of its steps, with the error of a failed write or
\* without.
LEMMA FaultInvReturn ==
  ASSUME FaultInv, pc \in Adding, Return, UNCHANGED <<db, memory>>, crashes' \in Nat
  PROVE  FaultInv'
<1> USE TreeAssumption DEF FaultInv
<1>1. UNCHANGED <<block, node, main, children, dagTip>> /\ UNCHANGED <<tip, weight>>
  BY DEF db, memory
<1>2. pc' = "idle"
  BY DEF Return
<1>3. AddType'
  BY DEF AddType, Return, Steps
<1>4. TypeOK'
  BY <1>3, TypeParts
<1>5. AddInv'
  BY <1>1, <1>2 DEF AddInv, Stored, Adding, Linked
<1>6. TipInv'
  BY <1>1, <1>2 DEF TipInv, Stored, Better, Adding
<1> QED
  BY <1>1, <1>4, <1>5, <1>6, Undisturbed

\* Every step of the engine, a fault or not, keeps the tree and the tip right.
LEMMA FaultInvStep == FaultInv /\ [FaultNext]_vars => FaultInv'
<1> SUFFICES ASSUME FaultInv, [FaultNext]_vars PROVE FaultInv'
  OBVIOUS
<1>0. DbType /\ MemoryType /\ AddType
  BY TypeParts DEF FaultInv
<1> USE <1>0, TreeAssumption DEF FaultInv
<1>1. CASE SaveGenesisTip
  <2> USE <1>1, Same DEF SaveGenesisTip
  <2>1. TypeOK'
    <3>1. DbType'
      BY DEF DbType
    <3>2. AddType'
      BY DEF AddType, Steps, Opening, Adding
    <3> QED
      BY <3>1, <3>2, TypeParts
  <2>2. AddInv'
    BY DEF AddInv, NodeInv, Stored, Adding, Linked
  <2>3. TipInv'
    BY DEF TipInv, AddInv, Better, Stored, Adding
  <2> QED
    BY <2>1, <2>2, <2>3, Undisturbed
<1>2. CASE SaveGenesisBlock
  <2> USE <1>2, Same DEF SaveGenesisBlock
  <2>1. TypeOK'
    <3>1. DbType'
      BY GenesisType, NoBlockAssumption DEF DbType
    <3>2. AddType'
      BY DEF AddType, Steps, Opening, Adding
    <3> QED
      BY <3>1, <3>2, TypeParts
  <2>2. BlockInv'
    BY GenesisType, NoBlockAssumption DEF BlockInv, Stored, DbType, AddType, Adding, Linked
  <2>3. NodeInv'
    BY GenesisType, NoBlockAssumption DEF NodeInv, AddInv, BlockInv, Stored, DbType, AddType, Adding, Linked
  <2>4. ChildrenInv'
    <3>1. \A h \in Hash : Stored(h) => block'[h] = block[h]
      BY DEF BlockInv, Stored, DbType, AddType
    <3>2. \A p \in Hash : \A i \in DOMAIN children[p] : children[p][i] \in Hash
      BY SMT DEF DbType, AddType
    <3> QED
      BY SMT, <3>1, <3>2 DEF ChildrenInv, Stored
  <2>5. AddInv'
    BY SMT, GenesisType, NoBlockAssumption DEF AddInv, Stored, DbType, AddType, Adding, Linked
  <2>6. TipInv'
    BY GenesisType, NoBlockAssumption DEF TipInv, BlockInv, NodeInv, AddInv, DbType, Better, Stored, Adding
  <2> QED
    BY <2>1, <2>2, <2>3, <2>4, <2>5, <2>6, Undisturbed
<1>3. CASE SaveGenesisNode
  <2> USE <1>3, Same DEF SaveGenesisNode
  <2>1. TypeOK'
    <3>1. DbType'
      BY DEF DbType
    <3>2. AddType'
      BY DEF AddType, Steps, Opening, Adding
    <3> QED
      BY <3>1, <3>2, TypeParts
  <2>2. NodeInv'
    BY DEF NodeInv, AddInv, BlockInv, Stored, DbType, AddType, Adding, Linked
  <2>3. AddInv'
    BY DEF AddInv, NodeInv, Stored, Adding, Linked
  <2>4. TipInv'
    <3>1. /\ dagTip' = Genesis /\ tip' = Genesis /\ weight' = 0 /\ node' = {Genesis}
          /\ Stored(Genesis) /\ pc' = "idle" /\ block' = block
      BY DEF TipInv, AddInv
    <3>2. block[Genesis].weight = 0
      BY SMT, <3>1 DEF BlockInv, Stored, GenesisBlock
    <3>3. ~Better(block, Genesis, Genesis)
      BY <3>1, BetterFact
    <3> QED
      BY <3>1, <3>2, <3>3 DEF TipInv, Better, Stored, Adding
  <2> QED
    BY <2>1, <2>2, <2>3, <2>4, Undisturbed
<1>4. CASE OpenAtTip
  <2> USE <1>4, Same DEF OpenAtTip
  <2>1. TypeOK'
    <3>1. MemoryType'
      BY StoredType DEF MemoryType, DbType, Stored
    <3>2. AddType'
      BY DEF AddType, Steps, Opening, Adding
    <3> QED
      BY <3>1, <3>2, TypeParts
  <2>2. AddInv'
    BY DEF AddInv, BlockInv, DbType, Stored, Adding, Linked
  <2>3. TipInv'
    BY DEF TipInv, AddInv, Better, Stored, Adding
  <2> QED
    BY <2>1, <2>2, <2>3, Undisturbed
<1>5. CASE OpenFails \/ OpenRebaseFails
  <2> USE <1>5, Same DEF OpenFails, OpenRebaseFails
  <2>1. TypeOK'
    <3>1. AddType'
      BY SMT DEF AddType, Steps, Opening, Adding
    <3> QED
      BY <3>1, TypeParts
  <2>2. AddInv'
    BY DEF AddInv, NodeInv, Stored, Adding, Linked
  <2>3. TipInv'
    BY DEF TipInv, AddInv, Better, Stored, Adding
  <2> QED
    BY <2>1, <2>2, <2>3, Undisturbed
<1>6. CASE LinkParent
  <2> USE <1>6, Same DEF LinkParent
  <2>1. TypeOK'
    <3>1. parentNode \in Hash /\ Append(children[parentNode], child) \in Seq(Hash)
      BY SMT DEF DbType, AddType
    <3>2. DbType'
      BY <3>1 DEF DbType
    <3>3. AddType'
      BY DEF AddType, Steps, Adding
    <3> QED
      BY <3>2, <3>3, TypeParts
  <2>2. ChildrenInv'
    <3>1. parentNode \in Hash /\ child \in Hash /\ children[parentNode] \in Seq(Hash)
      BY DEF DbType, AddType
    <3>2. child # Genesis /\ Stored(child) /\ block[child].parent = parentNode
      BY DEF AddInv, Adding
    <3>3. SUFFICES ASSUME NEW p \in Hash, NEW i \in DOMAIN children'[p]
                   PROVE  /\ children'[p][i] # Genesis /\ Stored(children'[p][i])
                          /\ block[children'[p][i]].parent = p
      BY SMT DEF ChildrenInv, Stored
    <3>4. CASE p = parentNode
      <4>1. children'[p] = Append(children[p], child)
        BY <3>1, <3>4 DEF DbType, AddType
      <4>2. i \in DOMAIN children[p] \/ children'[p][i] = child
        BY SMTT(30), <3>1, <3>3, <3>4, <4>1
      <4>3. i \in DOMAIN children[p] => children'[p][i] = children[p][i]
        BY SMTT(30), <3>1, <3>4, <4>1
      <4> QED
        BY SMT, <3>2, <3>4, <4>2, <4>3 DEF ChildrenInv
    <3>5. CASE p # parentNode
      BY SMT, <3>1, <3>3, <3>5 DEF ChildrenInv, DbType, AddType
    <3> QED
      BY <3>4, <3>5
  <2>3. AddInv'
    BY DEF AddInv, NodeInv, Stored, Adding, Linked
  <2>4. TipInv'
    BY StoredType DEF TipInv, AddInv, Better, Stored, Adding
  <2> QED
    BY <2>1, <2>2, <2>3, <2>4, Undisturbed
<1>7. CASE SaveTip
  <2> USE <1>7, Same DEF SaveTip
  <2>1. TypeOK'
    <3>1. DbType'
      BY DEF DbType, AddType
    <3>2. MemoryType'
      BY StoredType DEF MemoryType, AddType, AddInv, Adding
    <3>3. AddType'
      BY DEF AddType, Steps, Opening, Adding
    <3> QED
      BY <3>1, <3>2, <3>3, TypeParts
  <2>2. AddInv'
    BY DEF AddInv, NodeInv, Stored, Adding, Linked
  <2>3. TipInv'
    <3>1. /\ dagTip = tip /\ Stored(tip) /\ Stored(child) /\ Better(block, child, tip)
          /\ dagTip # NoHash /\ tip \in Hash /\ child \in Hash /\ node \subseteq Hash
          /\ \A h \in node : Stored(h) /\ ~Better(block, h, tip)
      BY SMTT(30) DEF TipInv, AddInv, NodeInv, DbType, AddType, Adding
    <3>2. \A h \in node : ~Better(block, h, child)
      BY <3>1, BetterFact
    <3> QED
      BY <3>1, <3>2, TreeAssumption DEF TipInv, Stored, Better, Adding
  <2> QED
    BY <2>1, <2>2, <2>3, Undisturbed
<1>8. CASE RebaseState
  <2> USE <1>8, Same DEF RebaseState, Registered
  <2>1. TypeOK'
    <3>1. DbType'
      BY DEF DbType, AddType
    <3>2. MemoryType'
      BY DEF MemoryType, AddType
    <3>3. AddType'
      BY DEF AddType, Steps, Opening, Adding
    <3> QED
      BY <3>1, <3>2, <3>3, TypeParts
  <2>2. AddInv'
    BY DEF AddInv, NodeInv, Stored, Adding, Linked
  <2>3. TipInv'
    BY DEF TipInv, AddInv, Better, Stored, Adding
  <2> QED
    BY <2>1, <2>2, <2>3, Undisturbed
<1>9. CASE WalkUp
  <2> USE <1>9, Same DEF WalkUp, Registered
  <2>1. TypeOK'
    <3>1. parentNode \in Hash /\ block[parentNode].parent \in Hash \cup {NoHash}
      BY StoredType DEF DbType, AddType, AddInv, NodeInv, Linked
    <3>2. DbType'
      BY <3>1 DEF DbType
    <3>3. AddType'
      BY <3>1 DEF AddType
    <3> QED
      BY <3>2, <3>3, TypeParts
  <2>2. NodeInv'
    BY DEF NodeInv, AddInv, BlockInv, Stored, DbType, AddType, Adding, Linked
  <2>3. AddInv'
    BY DEF AddInv, NodeInv, Stored, Adding, Linked
  <2>4. TipInv'
    BY DEF TipInv, AddInv, Better, Stored, Adding
  <2> QED
    BY <2>1, <2>2, <2>3, <2>4, Undisturbed
<1>10. CASE SaveChild
  <2>1. /\ parentNode \in Hash /\ node' \in SUBSET Hash /\ main' \in SUBSET Hash
        /\ oldChild' = FindMainListChild(node', main', children, parentNode, mainListParent)
    BY <1>10 DEF SaveChild, AddInv, NodeInv, DbType, AddType, Linked
  <2>2. oldChild' \in Hash \cup {NoHash} /\ oldChild' # Genesis
    BY SMT, <2>1, SearchFact
  <2> USE <1>10, Same DEF SaveChild
  <2>3. TypeOK'
    <3>1. DbType'
      BY <2>1 DEF DbType
    <3>2. AddType'
      BY <2>2 DEF AddType, Steps, Adding
    <3> QED
      BY <3>1, <3>2, TypeParts
  <2>4. NodeInv'
    BY DEF NodeInv, AddInv, Stored, DbType, AddType, Adding, Linked
  <2>5. AddInv'
    BY <2>2 DEF AddInv, NodeInv, Stored, DbType, AddType, Adding, Linked
  <2>6. TipInv'
    <3>1. /\ child = tip /\ dagTip = tip /\ Stored(tip) /\ tip \in Hash
          /\ weight = block[tip].weight /\ dagTip # NoHash
      BY DEF TipInv, AddInv, DbType, AddType, Adding
    <3>2. \A h \in node' : ~Better(block, h, tip)
      BY <3>1, BetterFact DEF TipInv
    <3> QED
      BY <3>1, <3>2 DEF TipInv, Stored, Better, Adding
  <2> QED
    BY <2>3, <2>4, <2>5, <2>6, Undisturbed
<1>11. CASE WalkDown
  <2>1. /\ oldChild \in Hash /\ node \in SUBSET Hash /\ main' \in SUBSET Hash
        /\ oldChild' = FindMainListChild(node, main', children, oldChild, NoHash)
    BY <1>11 DEF WalkDown, DbType, AddType
  <2>2. oldChild' \in Hash \cup {NoHash} /\ oldChild' # Genesis
    BY SMTT(30), <2>1, SearchFact
  <2> USE <1>11, Same DEF WalkDown
  <2>3. TypeOK'
    <3>1. DbType'
      BY <2>1 DEF DbType
    <3>2. AddType'
      BY <2>2 DEF AddType, Steps, Adding
    <3> QED
      BY <3>1, <3>2, TypeParts
  <2>4. NodeInv'
    BY DEF NodeInv, AddInv, Stored
  <2>5. AddInv'
    BY <2>2 DEF AddInv, NodeInv, Stored, DbType, AddType, Adding, Linked
  <2>6. TipInv'
    BY DEF TipInv, Better, Stored, Adding
  <2> QED
    BY <2>3, <2>4, <2>5, <2>6, Undisturbed
<1>12. CASE EndWalk
  <2>1. CASE UNCHANGED <<add, past>> /\ pc' = "callback"
    <3> USE <1>12, <2>1, Same DEF EndWalk
    <3>1. AddType'
      BY DEF AddType, Steps, Adding
    <3>2. TypeOK'
      BY <3>1, TypeParts
    <3>3. AddInv'
      BY DEF AddInv, Stored, Adding, Linked
    <3>4. TipInv'
      BY DEF TipInv, Stored, Better, Adding
    <3> QED
      BY <3>2, <3>3, <3>4, Undisturbed
  <2>2. CASE Return
    BY <1>12, <2>2, FaultInvReturn DEF EndWalk, Adding, DbType, AddType
  <2> QED
    BY <1>12, <2>1, <2>2 DEF EndWalk, Release
<1>13. CASE SideBranch
  <2> USE <1>13, Same DEF SideBranch, Release, Return
  <2>1. TypeOK'
    <3>1. DbType'
      BY DEF DbType, AddType
    <3>2. AddType'
      BY DEF AddType, Steps, Opening, Adding
    <3> QED
      BY <3>1, <3>2, TypeParts
  <2>2. NodeInv'
    BY DEF NodeInv, AddInv, Stored, DbType, AddType, Adding, Linked
  <2>3. AddInv'
    BY DEF AddInv, NodeInv, Stored, Adding, Linked
  <2>4. TipInv'
    BY DEF TipInv, AddInv, Better, Stored, Adding
  <2> QED
    BY <2>1, <2>2, <2>3, <2>4, Undisturbed
<1>14. CASE Crash
  <2> USE <1>14, Same DEF Crash
  <2>1. TypeOK'
    <3>1. MemoryType'
      BY DEF MemoryType
    <3>2. AddType'
      BY SMT DEF AddType, Steps, Opening, Adding
    <3> QED
      BY <3>1, <3>2, TypeParts
  <2>2. AddInv'
    BY DEF AddInv, NodeInv, Stored, Adding, Linked
  <2>3. TipInv'
    BY DEF TipInv, AddInv, Better, Stored, Adding
  <2> QED
    BY <2>1, <2>2, <2>3, Undisturbed
<1>15. CASE LinkFails \/ Callback \/ RebaseFails
  BY SMTT(30), <1>15, FaultInvReturn DEF LinkFails, Callback, RebaseFails, Adding, DbType, AddType
<1>16. CASE \/ NewCandidateBlock \/ MineFails \/ \E t \in Tx : AddTransaction(t)
            \/ UNCHANGED vars
  BY <1>16, FaultInvStutter
  DEF NewCandidateBlock, MineFails, AddTransaction, vars
<1>17. CASE AcceptNetworkBlock
  BY SMT, <1>17, FaultInvBeginAdd DEF AcceptNetworkBlock
<1>18. CASE MineCandidateBlock
  BY <1>18, FaultInvBeginAdd DEF MineCandidateBlock
<1> QED
  BY <1>1, <1>2, <1>3, <1>4, <1>5, <1>6, <1>7, <1>8, <1>9, <1>10, <1>11, <1>12, <1>13, <1>14, <1>15, <1>16, <1>17, <1>18
  DEF FaultNext, CrashNext, Next, Open, Produce, Walk

\* The invariant holds in every behaviour with crashes and failed rebases.
LEMMA FaultInvHolds == FaultSpec => []FaultInv
BY FaultInvInit, FaultInvStep, PTL DEF FaultSpec

-----------------------------------------------------------------------------
(* Theorems *)

\* A behaviour without faults is one of those with faults.
LEMMA SpecIsFaultSpec == Spec => FaultSpec
<1>1. [Next]_vars => [FaultNext]_vars
  BY DEF FaultNext, CrashNext
<1> QED
  BY <1>1, PTL DEF Spec, FaultSpec

\* The engine's database, memory and locals keep their types through adds,
\* crashes and restarts; in particular no walk runs past the genesis block.
THEOREM TypeCorrect == FaultSpec => []TypeOK
<1>1. FaultInv => TypeOK
  BY DEF FaultInv
<1> QED
  BY <1>1, FaultInvHolds, PTL

\* After any crash or failed Rebase the engine is at a tip no chain node beats; a
\* database NewBlockChainConsensus does not open keeps such a tip, or has no block.
THEOREM TipSurvivesFaults == FaultSpec => []TipSurvives
<1>1. ASSUME FaultInv PROVE TipSurvives
  <2>1. Visible => dagTip = tip /\ weight = block[tip].weight /\ Stored(tip) /\ dagTip # NoHash
    BY <1>1 DEF FaultInv, TipInv, Visible, Adding
  <2>2. Visible => \A h \in node : ~Better(block, h, tip)
    BY <1>1, <2>1 DEF FaultInv, TipInv
  <2>3. pc = "failed" /\ ~Stored(Genesis) => \A h \in Hash : ~Stored(h)
    BY <1>1 DEF FaultInv, BlockInv
  <2>4. pc = "failed" /\ Stored(Genesis) => TipKept
    BY <1>1 DEF FaultInv, TipInv, TipKept, Stored
  <2> QED
    BY <2>1, <2>2, <2>3, <2>4 DEF TipSurvives, TipKept, Stored
<1> QED
  BY <1>1, FaultInvHolds, PTL

\* addValidatedBlock and NewBlockChainConsensus replace the persisted tip only
\* by a better block.
THEOREM TipNeverWorsens == FaultSpec => TipNeverWorse
<1>1. ASSUME FaultInv, [FaultNext]_vars, dagTip # NoHash, dagTip' # dagTip
      PROVE  Better(block', dagTip', dagTip)
  <2>1. CASE SaveTip
    BY <1>1, <2>1 DEF SaveTip, FaultInv, TipInv, Better, Adding
  <2>2. CASE ~SaveTip
    <3>1. CASE AcceptNetworkBlock \/ MineCandidateBlock
      <4>1. PICK h, b : BeginAdd(h, b)
        BY ZenonT(60), <3>1 DEF AcceptNetworkBlock, MineCandidateBlock
      <4> QED
        BY <1>1, <4>1 DEF BeginAdd
    <3>2. CASE SaveGenesisTip
      BY <1>1, <3>2 DEF SaveGenesisTip
    <3>3. CASE \/ SaveGenesisBlock \/ SaveGenesisNode \/ OpenAtTip \/ OpenFails
               \/ OpenRebaseFails \/ NewCandidateBlock \/ MineFails \/ \E t \in Tx : AddTransaction(t)
      BY <1>1, <3>3
      DEF SaveGenesisBlock, SaveGenesisNode, OpenAtTip, OpenFails, OpenRebaseFails,
          NewCandidateBlock, MineFails, AddTransaction, db
    <3>4. CASE LinkParent \/ RebaseState \/ WalkUp \/ SaveChild \/ WalkDown \/ SideBranch
      BY ZenonT(60), <1>1, <3>4 DEF LinkParent, RebaseState, WalkUp, SaveChild, WalkDown, SideBranch
    <3>5. CASE LinkFails \/ EndWalk \/ Callback \/ Crash \/ RebaseFails \/ UNCHANGED vars
      BY <1>1, <3>5 DEF LinkFails, EndWalk, Callback, Crash, RebaseFails, vars, db
    <3> QED
      BY <1>1, <2>2, <3>1, <3>2, <3>3, <3>4, <3>5
      DEF FaultNext, CrashNext, Next, Open, Produce, Walk
  <2> QED
    BY <2>1, <2>2
<1> QED
  BY <1>1, FaultInvHolds, PTL DEF FaultSpec, TipNeverWorse

-----------------------------------------------------------------------------
(* Without faults: the main list *)

Depth(h) == block[h].depth

\* M is the line from Genesis to t.  The last conjunct says that the line has no
\* gap: what a walk down from any block of it does not miss.
Canon(M, t) ==
  /\ M \subseteq node /\ Genesis \in M /\ t \in M
  /\ \A h \in M \ {Genesis} : block[h].parent \in M
  /\ \A g, h \in M : Depth(g) = Depth(h) => g = h
  /\ \A h \in M : Depth(h) <= Depth(t)
  /\ \A h \in M \ {t} : \E g \in M \ {Genesis} : block[g].parent = h

\* A chain node is in its parent's list of children.
Listed(h) == \E i \in DOMAIN children[block[h].parent] : children[block[h].parent][i] = h

\* The blocks the walk up has passed, and the new block.
Fresh == (main \ oldMain) \cup {child}

\* They are the line from below parentNode down to the new block.
NewLine ==
  /\ \A h \in Fresh : /\ h # Genesis /\ Stored(h)
                      /\ block[h].parent \in Fresh \cup {parentNode}
                      /\ Depth(parentNode) < Depth(h) /\ Depth(h) <= Depth(child)
  /\ \A g, h \in Fresh : Depth(g) = Depth(h) => g = h
  /\ \A h \in (Fresh \cup {parentNode}) \ {child} : \E g \in Fresh : block[g].parent = h
  /\ mainListParent \in Fresh /\ block[mainListParent].parent = parentNode

\* During the walk down: the old line is whole up to parentNode and from
\* oldChild on, and reset in between.
OldLine ==
  /\ parentNode \in oldMain
  /\ \A h \in oldMain : Depth(h) <= Depth(parentNode) => h \in main
  /\ \A h \in main \cap oldMain :
       Depth(h) > Depth(parentNode) => oldChild # NoHash /\ Depth(h) >= Depth(oldChild)
  /\ oldChild # NoHash =>
       /\ oldChild \in main \cap oldMain /\ Depth(oldChild) > Depth(parentNode)
       /\ \A h \in oldMain : Depth(h) >= Depth(oldChild) => h \in main

MainInv ==
  /\ pc # "failed"
  /\ pc \in Opening => node = {} /\ main = {}
  /\ pc = "open" => dagTip = NoHash
  /\ \A h \in node \ {Genesis} : Listed(h)
  /\ pc \in Linked => Listed(child)
  /\ Visible => Canon(main, tip)
  /\ pc \in Adding \ {"callback"} => Canon(oldMain, oldTip) /\ child \notin oldMain
  /\ pc \in {"parent", "tip", "rebase", "side"} =>
       /\ main = oldMain /\ mainListParent = child
       /\ parentNode = block[child].parent /\ child \notin node
  /\ pc \in {"parent", "tip", "side"} => tip = oldTip
  /\ pc \in {"tip", "rebase", "up", "down"} => Better(block, child, oldTip)
  /\ pc = "up" => oldMain \subseteq main /\ child \notin node /\ NewLine
  /\ pc = "down" => child \in main /\ NewLine /\ OldLine
  /\ pc # "rebase" => state = tip

EngineInv == FaultInv /\ MainInv

-----------------------------------------------------------------------------
(* Facts about the tree *)

\* Depths and parents of stored blocks.
LEMMA DepthFact ==
  ASSUME FaultInv
  PROVE  /\ \A h \in Hash : Stored(h) => Depth(h) \in Nat
         /\ \A h \in Hash \ {Genesis} : Stored(h) =>
              /\ block[h].parent \in Hash /\ Stored(block[h].parent)
              /\ Depth(h) = Depth(block[h].parent) + 1
         /\ Stored(Genesis) => Depth(Genesis) = 0
         /\ node \subseteq Hash /\ main \subseteq node /\ oldMain \subseteq Hash
         /\ \A h \in node : Stored(h)
BY SMTT(30), StoredType DEF FaultInv, BlockInv, NodeInv, TypeOK, Depth, Stored, GenesisBlock

\* The variables MainInv reads.
mainVars == <<block, node, main, children, dagTip, tip, state, pc, child, parentNode,
              mainListParent, oldChild, oldMain, oldTip>>

\* A step that changes none of them keeps MainInv.
LEMMA MainInvStutter == MainInv /\ UNCHANGED mainVars => MainInv'
BY SMT DEF MainInv, mainVars, Listed, Visible, Canon, Depth, Better, NewLine, Fresh, OldLine, Stored

-----------------------------------------------------------------------------
(* The steps of an add, one lemma each *)

\* putBlock(child): the chain nodes and their blocks stay as they are.
LEMMA MainInvBeginAdd ==
  ASSUME EngineInv, FaultInv', NEW h \in Hash, NEW b, BeginAdd(h, b),
         block[h] \in {NoBlock, b}
  PROVE  MainInv'
<1>1. /\ pc = "idle" /\ pc' = "parent" /\ h \notin node
      /\ block' = [block EXCEPT ![h] = b] /\ child' = h /\ parentNode' = b.parent
      /\ mainListParent' = h /\ oldChild' = NoHash /\ oldMain' = main /\ oldTip' = tip
      /\ UNCHANGED <<node, main, children, dagTip, tip, state>>
  BY DEF BeginAdd, ValidBlock, Addable, memory
<1>2. \A g \in node : block'[g] = block[g]
  BY <1>1 DEF EngineInv, FaultInv, TypeOK
<1>3. block'[h] = b
  BY <1>1 DEF EngineInv, FaultInv, TypeOK
<1>4. Canon(main, tip) /\ tip \in node /\ main \subseteq node
  BY <1>1 DEF EngineInv, MainInv, Visible, Canon
<1>5. Canon(main, tip)'
  BY SMTT(30), <1>1, <1>2, <1>4 DEF Canon, Depth
<1>6. Canon(oldMain, oldTip)' /\ child' \notin oldMain'
  BY SMTT(30), <1>1, <1>4, <1>5 DEF Canon, Depth
<1>7. \A g \in node \ {Genesis} : Listed(g)'
  BY SMT, <1>1, <1>2 DEF EngineInv, MainInv, Listed
<1> QED
  BY <1>1, <1>3, <1>6, <1>7
  DEF MainInv, EngineInv, Visible, Opening, Adding, Linked

\* addChild: no entry of a list of children is lost, and the new block is entered.
LEMMA MainInvLinkParent == EngineInv /\ FaultInv' /\ LinkParent => MainInv'
<1> SUFFICES ASSUME EngineInv, FaultInv', LinkParent PROVE MainInv'
  OBVIOUS
<1>1. /\ pc = "parent" /\ pc' \in {"tip", "side"} /\ parentNode \in Hash
      /\ children' = [children EXCEPT ![parentNode] = Append(@, child)]
      /\ UNCHANGED <<block, node, main, dagTip, tip, state, child, parentNode,
                     mainListParent, oldChild, oldMain, oldTip>>
  BY DEF LinkParent, EngineInv, FaultInv, TypeOK, add, past, memory
<1>2. /\ child \in Hash /\ parentNode = block[child].parent
      /\ children \in [Hash -> Seq(Hash)]
  BY <1>1 DEF EngineInv, FaultInv, AddInv, TypeOK
<1>3. ASSUME NEW p \in Hash, NEW i \in DOMAIN children[p]
      PROVE  i \in DOMAIN children'[p] /\ children'[p][i] = children[p][i]
  BY SMT, <1>1, <1>2
<1>4. \E i \in DOMAIN children'[parentNode] : children'[parentNode][i] = child
  <2>1. children'[parentNode] = Append(children[parentNode], child)
    BY <1>1, <1>2
  <2>2. children[parentNode] \in Seq(Hash)
    BY <1>1, <1>2
  <2> QED
    BY SMT, <2>1, <2>2
<1>5. \A g \in node \ {Genesis} : Listed(g)'
  BY SMT, <1>1, <1>3, DepthFact DEF EngineInv, MainInv, Listed
<1>6. Listed(child)'
  BY <1>1, <1>2, <1>4 DEF Listed
<1>7. tip = oldTip /\ (pc' = "tip" => Better(block, child, oldTip))
  BY <1>1 DEF FaultInv, TipInv, EngineInv, MainInv, Better
<1>8. Canon(oldMain, oldTip)'
  BY <1>1 DEF EngineInv, MainInv, Canon, Depth, Adding
<1> QED
  BY <1>1, <1>5, <1>6, <1>7, <1>8
  DEF EngineInv, MainInv, Visible, Opening, Adding, Linked, Better

\* The tip moves; the flags do not yet.
LEMMA MainInvSaveTip == EngineInv /\ SaveTip => MainInv'
BY SMT DEF EngineInv, MainInv, SaveTip, Visible, Opening, Adding, Linked, Canon, Depth,
       Listed, Better, add, past

\* Before the walk up the new line is the new block alone.
LEMMA MainInvRebaseState == EngineInv /\ RebaseState => MainInv'
<1> SUFFICES ASSUME EngineInv, RebaseState PROVE MainInv'
  OBVIOUS
<1>1. /\ pc = "rebase" /\ pc' = "up" /\ state' = child
      /\ UNCHANGED <<block, node, main, children, dagTip, tip, child, parentNode,
                     mainListParent, oldChild, oldMain, oldTip>>
  BY DEF RebaseState, add, past
<1>2. /\ tip = child /\ child \in Hash /\ child # Genesis /\ Stored(child)
      /\ main = oldMain /\ mainListParent = child
      /\ parentNode = block[child].parent /\ child \notin node
  BY <1>1 DEF EngineInv, FaultInv, TypeOK, TipInv, AddInv, MainInv, Adding
<1>3. Fresh' = {child}
  BY <1>1, <1>2 DEF Fresh
<1>4. NewLine'
  BY SMTT(30), <1>1, <1>2, <1>3, DepthFact DEF EngineInv, NewLine, Stored, Depth
<1>5. Canon(oldMain, oldTip)' /\ \A g \in node \ {Genesis} : Listed(g)'
  BY SMT, <1>1 DEF EngineInv, MainInv, Canon, Depth, Listed, Adding
<1>6. Listed(child)' /\ Better(block, child, oldTip)' /\ child \notin oldMain
  BY <1>1 DEF EngineInv, MainInv, Listed, Better, Linked, Adding
<1> QED
  BY <1>1, <1>2, <1>4, <1>5, <1>6
  DEF MainInv, Visible, Opening, Adding, Linked

\* The walk up adds parentNode to the new line.
LEMMA MainInvWalkUp == EngineInv /\ WalkUp => MainInv'
<1> SUFFICES ASSUME EngineInv, WalkUp PROVE MainInv'
  OBVIOUS
<1>1. /\ pc = "up" /\ pc' = "up" /\ parentNode \notin main
      /\ main' = main \cup {parentNode} /\ mainListParent' = parentNode
      /\ parentNode' = block[parentNode].parent
      /\ UNCHANGED <<block, node, children, dagTip, tip, state, child, oldChild,
                     oldMain, oldTip>>
  BY DEF WalkUp, past, memory
<1>2. /\ NewLine /\ oldMain \subseteq main /\ child \notin node
      /\ Canon(oldMain, oldTip) /\ child \notin oldMain
      /\ parentNode \in node /\ child \in Hash /\ Stored(child)
  BY <1>1 DEF EngineInv, MainInv, FaultInv, AddInv, TypeOK, Adding, Linked
<1>3. /\ parentNode \in Hash \ {Genesis} /\ Stored(parentNode)
      /\ parentNode' \in Hash /\ Stored(parentNode')
      /\ Depth(parentNode) = Depth(parentNode') + 1
      /\ Depth(parentNode) \in Nat /\ Depth(parentNode') \in Nat
      /\ parentNode \notin oldMain
  BY <1>1, <1>2, DepthFact DEF EngineInv, Canon
<1>4. Fresh' = Fresh \cup {parentNode} /\ Fresh \subseteq Hash
  BY <1>1, <1>2, <1>3, DepthFact DEF Fresh, EngineInv
<1>5. \A h \in Fresh : /\ h # Genesis /\ Stored(h) /\ Depth(h) \in Nat
                       /\ block[h].parent \in Fresh \cup {parentNode}
                       /\ Depth(parentNode) < Depth(h) /\ Depth(h) <= Depth(child)
  BY <1>2, <1>4, DepthFact DEF NewLine, EngineInv
<1>6. child \in Fresh
  BY DEF Fresh
<1>7. NewLine'
  <2>1. \A h \in Fresh' : /\ h # Genesis /\ Stored(h)
                          /\ block[h].parent \in Fresh' \cup {parentNode'}
                          /\ Depth(parentNode') < Depth(h) /\ Depth(h) <= Depth(child)
    BY SMTT(30), <1>1, <1>3, <1>4, <1>5, <1>6
  <2>2. \A g, h \in Fresh' : Depth(g) = Depth(h) => g = h
    BY SMTT(30), <1>2, <1>3, <1>4, <1>5 DEF NewLine
  <2>3. \A h \in (Fresh' \cup {parentNode'}) \ {child} : \E g \in Fresh' : block[g].parent = h
    BY <1>1, <1>2, <1>4 DEF NewLine
  <2>4. mainListParent' \in Fresh' /\ block[mainListParent'].parent = parentNode'
    BY <1>1, <1>4
  <2> QED
    BY <1>1, <2>1, <2>2, <2>3, <2>4 DEF NewLine, Depth, Stored
<1>8. Canon(oldMain, oldTip)' /\ \A g \in node \ {Genesis} : Listed(g)'
  BY SMT, <1>1, <1>2 DEF EngineInv, MainInv, Canon, Depth, Listed
<1>9. Listed(child)' /\ Better(block, child, oldTip)' /\ state' = tip'
  BY <1>1 DEF EngineInv, MainInv, Listed, Better, Linked
<1> QED
  BY <1>1, <1>2, <1>7, <1>8, <1>9
  DEF MainInv, Visible, Opening, Adding, Linked

\* putChainNode(child) at the first ancestor on the old main list: the search
\* finds the next block of the old line, or the old line ends here.
LEMMA MainInvSaveChild == EngineInv /\ FaultInv' /\ SaveChild => MainInv'
<1> SUFFICES ASSUME EngineInv, FaultInv', SaveChild PROVE MainInv'
  OBVIOUS
<1>1. /\ pc = "up" /\ pc' = "down" /\ parentNode \in main
      /\ node' = node \cup {child} /\ main' = main \cup {child}
      /\ oldChild' = FindMainListChild(node', main', children, parentNode, mainListParent)
      /\ UNCHANGED <<block, children, dagTip, tip, state, child, parentNode,
                     mainListParent, oldMain, oldTip>>
  BY DEF SaveChild, past, memory
<1>2. /\ NewLine /\ oldMain \subseteq main /\ child \notin node
      /\ Canon(oldMain, oldTip) /\ child \notin oldMain
      /\ child \in Hash /\ Stored(child)
      /\ node \subseteq Hash /\ main \subseteq node /\ oldMain \subseteq node
  BY <1>1, DepthFact
  DEF EngineInv, MainInv, FaultInv, AddInv, TypeOK, Adding, Linked, Canon
<1>3. Fresh \subseteq Hash /\ child \in Fresh /\ main' = oldMain \cup Fresh
  BY <1>1, <1>2 DEF Fresh
<1>4. Fresh' = Fresh
  BY <1>1, <1>2 DEF Fresh
<1>5. /\ \A h \in Fresh : /\ Stored(h) /\ h # Genesis /\ Depth(h) \in Nat
                          /\ Depth(parentNode) < Depth(h)
      /\ \A h \in oldMain : Stored(h) /\ Depth(h) \in Nat
  BY <1>2, <1>3, DepthFact DEF NewLine, EngineInv
<1>6. parentNode \in oldMain /\ parentNode \in Hash /\ Depth(parentNode) \in Nat
  BY SMTT(30), <1>1, <1>2, <1>3, <1>5 DEF Fresh
<1>7. \A g \in Fresh : block[g].parent = parentNode => g = mainListParent
  <2> SUFFICES ASSUME NEW g \in Fresh, block[g].parent = parentNode
               PROVE  g = mainListParent
    OBVIOUS
  <2>1. mainListParent \in Fresh /\ block[mainListParent].parent = parentNode
    BY <1>2 DEF NewLine
  <2>2. Depth(g) = Depth(mainListParent)
    BY <1>3, <1>5, <2>1, DepthFact DEF EngineInv
  <2> QED
    BY <1>2, <2>1, <2>2 DEF NewLine
<1>8. /\ oldChild' \in Hash \cup {NoHash}
      /\ oldChild' # NoHash => /\ oldChild' \in main' /\ oldChild' # mainListParent
                               /\ oldChild' # Genesis /\ block[oldChild'].parent = parentNode
      /\ oldChild' = NoHash => \A i \in DOMAIN children[parentNode] :
           children[parentNode][i] \in node' \cap main' => children[parentNode][i] = mainListParent
  <2>1. node' \in SUBSET Hash /\ main' \in SUBSET Hash
    BY <1>1, <1>2
  <2> QED
    BY SMTT(30), <1>1, <1>6, <2>1, SearchFact DEF EngineInv, FaultInv
<1>9. oldChild' # NoHash => /\ oldChild' \in oldMain
                            /\ Depth(oldChild') = Depth(parentNode) + 1
  BY <1>2, <1>3, <1>7, <1>8, DepthFact DEF EngineInv
<1>10. oldChild' = NoHash => parentNode = oldTip
  <2> SUFFICES ASSUME oldChild' = NoHash, parentNode # oldTip PROVE FALSE
    OBVIOUS
  <2>1. PICK g \in oldMain \ {Genesis} : block[g].parent = parentNode
    BY <1>2, <1>6 DEF Canon
  <2>2. \E i \in DOMAIN children[parentNode] : children[parentNode][i] = g
    BY <1>2, <2>1 DEF EngineInv, MainInv, Listed
  <2>3. g = mainListParent
    BY <1>1, <1>2, <1>8, <2>1, <2>2
  <2>4. mainListParent \in Fresh
    BY <1>2 DEF NewLine
  <2> QED
    BY <1>2, <2>1, <2>3, <2>4 DEF Fresh
<1>11. OldLine'
  <2>1. \A h \in main' \cap oldMain : Depth(h) > Depth(parentNode) =>
          oldChild' # NoHash /\ Depth(h) >= Depth(oldChild')
    BY SMTT(30), <1>2, <1>5, <1>6, <1>9, <1>10 DEF Canon
  <2>2. oldChild' # NoHash => /\ oldChild' \in main' \cap oldMain
                              /\ Depth(oldChild') > Depth(parentNode)
    BY SMTT(30), <1>6, <1>8, <1>9
  <2>3. oldMain \subseteq main'
    BY <1>3
  <2> QED
    BY <1>1, <1>6, <2>1, <2>2, <2>3 DEF OldLine, Depth
<1>12. NewLine'
  BY <1>1, <1>2, <1>4 DEF NewLine, Depth, Stored
<1>13. Canon(oldMain, oldTip)'
  BY <1>1, <1>2 DEF Canon, Depth
<1>14. (\A g \in node' \ {Genesis} : Listed(g)') /\ Listed(child)'
  BY <1>1 DEF EngineInv, MainInv, Listed, Linked
<1> QED
  BY <1>1, <1>2, <1>11, <1>12, <1>13, <1>14
  DEF EngineInv, MainInv, Visible, Opening, Adding, Linked, Better

\* A search that finds nothing has seen every child.
LEMMA NothingFound ==
  ASSUME TypeOK, ChildrenInv,
         NEW n \in SUBSET Hash, NEW m \in SUBSET Hash, NEW p \in Hash,
         NEW c, c = FindMainListChild(n, m, children, p, NoHash), c = NoHash,
         NEW i \in DOMAIN children[p]
  PROVE  children[p][i] \notin n \cap m
<1> DEFINE skip == NoHash
<1>1. c = FindMainListChild(n, m, children, p, skip)
  OBVIOUS
<1> HIDE DEF skip
<1>2. children[p][i] \in n \cap m => children[p][i] = skip
  BY SMTT(30), <1>1, SearchFact
<1> QED
  BY <1>2, TreeAssumption DEF skip

\* The walk down resets one block of the old line and finds the next, or the
\* old line ends here.
LEMMA MainInvWalkDown == EngineInv /\ WalkDown => MainInv'
<1> SUFFICES ASSUME EngineInv, WalkDown PROVE MainInv'
  OBVIOUS
<1>1. /\ pc = "down" /\ pc' = "down" /\ oldChild # NoHash
      /\ main' = main \ {oldChild}
      /\ oldChild' = FindMainListChild(node, main', children, oldChild, NoHash)
      /\ UNCHANGED <<block, node, children, dagTip, tip, state, child, parentNode,
                     mainListParent, oldMain, oldTip>>
  BY DEF WalkDown, past, memory
<1>2. /\ NewLine /\ OldLine /\ child \in main /\ child \notin oldMain
      /\ Canon(oldMain, oldTip) /\ child \in Hash
      /\ node \subseteq Hash /\ main \subseteq node /\ oldMain \subseteq node
  BY <1>1, DepthFact DEF EngineInv, MainInv, FaultInv, TypeOK, Adding, Canon
<1>3. /\ oldChild \in main /\ oldChild \in oldMain /\ oldChild \in Hash
      /\ Depth(oldChild) > Depth(parentNode) /\ parentNode \in oldMain
  BY <1>1, <1>2 DEF OldLine
<1>4. Fresh' = Fresh /\ oldChild \notin Fresh /\ Fresh \subseteq Hash
  BY <1>1, <1>2, <1>3 DEF Fresh
<1>5. \A h \in oldMain \cup Fresh : Stored(h) /\ Depth(h) \in Nat
  BY <1>2, <1>4, DepthFact DEF EngineInv, NewLine
<1>6. oldChild # parentNode
  BY SMT, <1>3, <1>5
<1>7. /\ oldChild' \in Hash \cup {NoHash}
      /\ oldChild' # NoHash => /\ oldChild' \in main' /\ oldChild' # Genesis
                               /\ block[oldChild'].parent = oldChild
      /\ oldChild' = NoHash =>
           \A i \in DOMAIN children[oldChild] : children[oldChild][i] \notin node \cap main'
  <2>1. node \in SUBSET Hash /\ main' \in SUBSET Hash
    BY <1>1, <1>2
  <2>2. oldChild' = FindMainListChild(node, main', children, oldChild, NoHash)
    BY <1>1
  <2>3. TypeOK /\ ChildrenInv
    BY DEF EngineInv, FaultInv
  <2>4. oldChild' \in Hash \cup {NoHash}
    BY SMTT(30), <1>3, <2>1, <2>2, <2>3, SearchFact
  <2>5. oldChild' # NoHash => /\ oldChild' \in main' /\ oldChild' # Genesis
                              /\ block[oldChild'].parent = oldChild
    BY SMTT(30), <1>3, <2>1, <2>2, <2>3, SearchFact
  <2>6. oldChild' = NoHash =>
          \A i \in DOMAIN children[oldChild] : children[oldChild][i] \notin node \cap main'
    BY <1>3, <2>1, <2>2, <2>3, NothingFound
  <2> QED
    BY <2>4, <2>5, <2>6
<1>8. oldChild' # NoHash => /\ oldChild' \in main' \cap oldMain
                            /\ Depth(oldChild') = Depth(oldChild) + 1
  <2> SUFFICES ASSUME oldChild' # NoHash
               PROVE  /\ oldChild' \in main' \cap oldMain
                      /\ Depth(oldChild') = Depth(oldChild) + 1
    OBVIOUS
  <2>1. oldChild' \notin Fresh
    BY <1>2, <1>4, <1>6, <1>7 DEF NewLine
  <2>2. oldChild' \in oldMain
    BY <1>1, <1>7, <2>1 DEF Fresh
  <2> QED
    BY <1>2, <1>7, <2>2, DepthFact DEF EngineInv
<1>9. oldChild' = NoHash => oldChild = oldTip
  <2> SUFFICES ASSUME oldChild' = NoHash, oldChild # oldTip PROVE FALSE
    OBVIOUS
  <2>1. PICK g \in oldMain \ {Genesis} : block[g].parent = oldChild
    BY <1>2, <1>3 DEF Canon
  <2>2. \E i \in DOMAIN children[oldChild] : children[oldChild][i] = g
    BY <1>2, <2>1 DEF EngineInv, MainInv, Listed
  <2>3. Depth(g) = Depth(oldChild) + 1
    BY <1>2, <2>1, DepthFact DEF EngineInv
  <2>4. g \in main /\ g # oldChild
    <3>1. Depth(g) \in Nat /\ Depth(oldChild) \in Nat
      BY <1>3, <1>5, <2>1
    <3>2. Depth(g) >= Depth(oldChild) /\ g # oldChild
      BY SMT, <2>3, <3>1
    <3> QED
      BY <1>1, <1>2, <2>1, <3>2 DEF OldLine
  <2> QED
    BY <1>1, <1>2, <1>7, <2>1, <2>2, <2>4
<1>10. OldLine'
  <2>1. \A h \in oldMain : Depth(h) <= Depth(parentNode) => h \in main'
    BY SMTT(30), <1>1, <1>2, <1>3, <1>5 DEF OldLine
  <2>2. \A h \in main' \cap oldMain : Depth(h) > Depth(parentNode) => Depth(h) > Depth(oldChild)
    BY SMTT(30), <1>1, <1>2, <1>3, <1>5 DEF OldLine, Canon
  <2>3. \A h \in main' \cap oldMain : Depth(h) > Depth(parentNode) =>
          oldChild' # NoHash /\ Depth(h) >= Depth(oldChild')
    BY SMTT(30), <1>2, <1>3, <1>5, <1>8, <1>9, <2>2 DEF Canon
  <2>4. oldChild' # NoHash =>
          /\ oldChild' \in main' \cap oldMain /\ Depth(oldChild') > Depth(parentNode)
          /\ \A h \in oldMain : Depth(h) >= Depth(oldChild') => h \in main'
    BY SMTT(30), <1>1, <1>2, <1>3, <1>5, <1>8 DEF OldLine
  <2> QED
    BY ZenonT(60), <1>1, <1>3, <2>1, <2>3, <2>4 DEF OldLine, Depth
<1>11. NewLine' /\ child \in main'
  BY <1>1, <1>2, <1>3, <1>4 DEF NewLine, Depth, Stored
<1>12. Canon(oldMain, oldTip)'
  BY <1>1, <1>2 DEF Canon, Depth
<1>13. (\A g \in node \ {Genesis} : Listed(g)') /\ Listed(child)'
  BY <1>1 DEF EngineInv, MainInv, Listed, Linked
<1> QED
  BY <1>1, <1>2, <1>10, <1>11, <1>12, <1>13
  DEF EngineInv, MainInv, Visible, Opening, Adding, Linked, Better

\* When the walk down has ended, the flags are the line to the new block.
LEMMA WalkEnds ==
  ASSUME EngineInv, pc = "down", oldChild = NoHash
  PROVE  Canon(main, child)
<1>1. /\ NewLine /\ OldLine /\ child \in main /\ child \notin oldMain
      /\ Canon(oldMain, oldTip) /\ child \in Hash
      /\ node \subseteq Hash /\ main \subseteq node /\ oldMain \subseteq node
  BY DepthFact DEF EngineInv, MainInv, FaultInv, TypeOK, Adding, Canon
<1>2. /\ main = (main \cap oldMain) \cup Fresh /\ Fresh \subseteq main
      /\ parentNode \in main \cap oldMain
  BY SMT, <1>1, DepthFact DEF Fresh, OldLine, EngineInv
<1>3. /\ \A h \in main \cup oldMain : Stored(h) /\ Depth(h) \in Nat
      /\ Depth(Genesis) = 0
  BY <1>1, DepthFact DEF EngineInv, Canon
<1>4. \A h \in main \cap oldMain : Depth(h) <= Depth(parentNode)
  BY SMT, <1>1, <1>2, <1>3 DEF OldLine
<1>5. \A h \in Fresh : Depth(parentNode) < Depth(h) /\ Depth(h) <= Depth(child)
  BY <1>1 DEF NewLine
<1>6. Genesis \in main
  BY SMT, <1>1, <1>2, <1>3 DEF OldLine, Canon
<1>7. \A h \in main \ {Genesis} : block[h].parent \in main
  <2> SUFFICES ASSUME NEW h \in main \ {Genesis} PROVE block[h].parent \in main
    OBVIOUS
  <2>1. CASE h \in Fresh
    BY <1>1, <1>2, <2>1 DEF NewLine
  <2>2. CASE h \in oldMain
    <3>1. block[h].parent \in oldMain /\ Depth(h) = Depth(block[h].parent) + 1
      BY <1>1, <1>3, <2>2, DepthFact DEF Canon, EngineInv
    <3> QED
      BY SMTT(30), <1>1, <1>2, <1>3, <1>4, <2>2, <3>1 DEF OldLine
  <2> QED
    BY <1>2, <2>1, <2>2
<1>8. \A g, h \in main : Depth(g) = Depth(h) => g = h
  BY SMTT(30), <1>1, <1>2, <1>3, <1>4, <1>5 DEF NewLine, Canon
<1>9. \A h \in main : Depth(h) <= Depth(child)
  BY SMTT(30), <1>1, <1>2, <1>3, <1>4, <1>5
<1>10. \A h \in main \ {child} : \E g \in main \ {Genesis} : block[g].parent = h
  <2> SUFFICES ASSUME NEW h \in main \ {child}
               PROVE  \E g \in main \ {Genesis} : block[g].parent = h
    OBVIOUS
  <2>1. CASE h \in Fresh \cup {parentNode}
    BY <1>1, <1>2, <2>1 DEF NewLine
  <2>2. CASE h \notin Fresh \cup {parentNode}
    <3>1. h \in oldMain /\ Depth(h) < Depth(parentNode)
      BY SMTT(30), <1>1, <1>2, <1>3, <1>4, <2>2 DEF Canon
    <3>2. h # oldTip
      BY SMT, <1>1, <1>2, <1>3, <3>1 DEF Canon
    <3>3. PICK g \in oldMain \ {Genesis} : block[g].parent = h
      BY <1>1, <3>1, <3>2 DEF Canon
    <3>4. Depth(g) <= Depth(parentNode)
      BY SMTT(30), <1>1, <1>2, <1>3, <3>1, <3>3, DepthFact DEF EngineInv
    <3> QED
      BY <1>1, <3>3, <3>4 DEF OldLine
  <2> QED
    BY <2>1, <2>2
<1> QED
  BY <1>1, <1>6, <1>7, <1>8, <1>9, <1>10 DEF Canon

\* The add returns, or the miner gets its callback: the new line becomes the
\* main list.
LEMMA MainInvEndWalk == EngineInv /\ EndWalk => MainInv'
<1> SUFFICES ASSUME EngineInv, EndWalk PROVE MainInv'
  OBVIOUS
<1>1. /\ pc = "down" /\ oldChild = NoHash /\ pc' \in {"idle", "callback"}
      /\ pc' = "callback" => child' = child
      /\ UNCHANGED <<block, node, main, children, dagTip, tip, state>>
  BY DEF EndWalk, Release, Return, db, memory, add
<1>2. tip = child /\ Listed(child)
  BY <1>1 DEF EngineInv, FaultInv, AddInv, TipInv, MainInv, Linked, Adding
<1>3. Canon(main, tip)'
  BY <1>1, <1>2, WalkEnds DEF Canon, Depth
<1>4. \A g \in node \ {Genesis} : Listed(g)'
  BY <1>1 DEF EngineInv, MainInv, Listed
<1>5. pc' \in Linked => Listed(child)'
  BY <1>1, <1>2 DEF Linked, Listed
<1> QED
  BY <1>1, <1>3, <1>4, <1>5 DEF EngineInv, MainInv, Opening, Adding

\* A block on a side branch gets its chain node and leaves the main list alone.
LEMMA MainInvSideBranch == EngineInv /\ SideBranch => MainInv'
<1> SUFFICES ASSUME EngineInv, SideBranch PROVE MainInv'
  OBVIOUS
<1>1. /\ pc = "side" /\ pc' \in {"idle", "callback"}
      /\ pc' = "callback" => child' = child
      /\ node' = node \cup {child}
      /\ UNCHANGED <<block, main, children, dagTip, tip, state>>
  BY DEF SideBranch, Release, Return, memory, add
<1>2. Listed(child) /\ Canon(oldMain, oldTip) /\ main = oldMain /\ tip = oldTip
  BY <1>1 DEF EngineInv, MainInv, Linked, Adding
<1>3. Canon(main, tip)'
  BY SMTT(60), <1>1, <1>2 DEF Canon, Depth
<1>4. \A g \in node' \ {Genesis} : Listed(g)'
  BY <1>1, <1>2 DEF EngineInv, MainInv, Listed
<1>5. pc' \in Linked => Listed(child)'
  BY <1>1, <1>2 DEF Linked, Listed
<1> QED
  BY <1>1, <1>3, <1>4, <1>5 DEF EngineInv, MainInv, Opening, Adding

\* The callback's return changes only the locals of the add.
LEMMA MainInvCallback == EngineInv /\ Callback => MainInv'
<1> SUFFICES ASSUME EngineInv, Callback PROVE MainInv'
  OBVIOUS
<1>1. /\ pc = "callback" /\ pc' = "idle"
      /\ UNCHANGED <<block, node, main, children, dagTip, tip, state>>
  BY DEF Callback, Return, db, memory
<1>2. Canon(main, tip)'
  BY SMTT(30), <1>1 DEF EngineInv, MainInv, Visible, Canon, Depth
<1>3. \A g \in node \ {Genesis} : Listed(g)'
  BY <1>1 DEF EngineInv, MainInv, Listed
<1> QED
  BY <1>1, <1>2, <1>3 DEF EngineInv, MainInv, Opening, Adding, Linked

\* Opening an empty database makes the genesis block the whole main list; with
\* no crash, a database is opened only once.
LEMMA MainInvOpen == EngineInv /\ Open => MainInv'
<1> SUFFICES ASSUME EngineInv, Open PROVE MainInv'
  OBVIOUS
<1>1. CASE SaveGenesisTip \/ SaveGenesisBlock
  <2>1. /\ pc \in Opening /\ pc' \in {"genesisBlock", "genesisNode"}
        /\ UNCHANGED <<node, main, tip, state>>
    BY <1>1 DEF SaveGenesisTip, SaveGenesisBlock, Opening, memory
  <2> QED
    BY <2>1 DEF EngineInv, MainInv, Opening, Adding, Linked, Visible
<1>2. CASE SaveGenesisNode
  <2>1. /\ pc = "genesisNode" /\ pc' = "idle" /\ node' = {Genesis} /\ main' = {Genesis}
        /\ UNCHANGED <<block, tip, state>>
    BY <1>2 DEF SaveGenesisNode, EngineInv, MainInv, Opening, memory
  <2>2. tip = Genesis /\ Stored(Genesis)
    BY <2>1 DEF EngineInv, FaultInv, AddInv, BlockInv, NodeInv, TipInv, Opening
  <2>3. Depth(Genesis) \in Nat
    BY <2>2, DepthFact, TreeAssumption DEF EngineInv
  <2>4. Canon(main, tip)'
    BY SMT, <2>1, <2>2, <2>3 DEF Canon, Depth
  <2> QED
    BY <2>1, <2>4 DEF EngineInv, MainInv, Opening, Adding, Linked
<1>3. CASE OpenAtTip
  BY <1>3 DEF OpenAtTip, EngineInv, MainInv
<1> QED
  BY <1>1, <1>2, <1>3 DEF Open

-----------------------------------------------------------------------------
(* The theorems *)

\* An engine on an empty database.
LEMMA EngineInvInit == Init => EngineInv
<1> SUFFICES ASSUME Init PROVE MainInv
  BY FaultInvInit DEF EngineInv
<1> QED
  BY DEF Init, MainInv, Opening, Adding, Linked, Visible

\* Opening, and every write of an add, keep the invariant.
LEMMA EngineInvStep == EngineInv /\ [Next]_vars => EngineInv'
<1> SUFFICES ASSUME EngineInv, [Next]_vars PROVE EngineInv'
  OBVIOUS
<1>1. FaultInv'
  BY FaultInvStep DEF EngineInv, FaultNext, CrashNext
<1>2. CASE Open
  BY <1>1, <1>2, MainInvOpen DEF EngineInv
<1>3. CASE AcceptNetworkBlock
  BY SMT, <1>1, <1>3, MainInvBeginAdd DEF EngineInv, AcceptNetworkBlock
<1>4. CASE Produce
  <2>1. CASE MineCandidateBlock
    BY <1>1, <2>1, MainInvBeginAdd DEF EngineInv, MineCandidateBlock
  <2>2. CASE NewCandidateBlock \/ MineFails \/ \E t \in Tx : AddTransaction(t)
    BY <1>1, <2>2, MainInvStutter
    DEF EngineInv, NewCandidateBlock, MineFails, AddTransaction, mainVars,
        db, memory, add, past
  <2> QED
    BY <1>4, <2>1, <2>2 DEF Produce
<1>5. CASE Walk
  BY <1>1, <1>5, MainInvLinkParent, MainInvSaveTip, MainInvRebaseState,
     MainInvWalkUp, MainInvSaveChild, MainInvWalkDown, MainInvEndWalk,
     MainInvSideBranch, MainInvCallback
  DEF EngineInv, Walk
<1>6. CASE UNCHANGED vars
  BY <1>1, <1>6, MainInvStutter DEF EngineInv, vars, mainVars, db, memory, add, past
<1> QED
  BY <1>2, <1>3, <1>4, <1>5, <1>6 DEF Next

\* The invariant holds in every state of an engine without faults.
LEMMA EngineInvHolds == Spec => []EngineInv
BY EngineInvInit, EngineInvStep, PTL DEF Spec

\* The invariant, seen between two adds.
LEMMA CanonicalFact == EngineInv => CanonicalMainList
<1> SUFFICES ASSUME EngineInv, Visible PROVE IsCanonical(block, main, tip)
  BY DEF CanonicalMainList
<1>1. Canon(main, tip) /\ main \subseteq Hash
  BY DEF EngineInv, MainInv, FaultInv, TypeOK
<1>2. \A h \in main : block[h] # NoBlock
  BY ZenonT(60), <1>1, DepthFact DEF EngineInv, Canon, Stored
<1>3. \A h \in main \ {Genesis} : block[block[h].parent].depth < block[h].depth
  <2> SUFFICES ASSUME NEW h \in main \ {Genesis}
               PROVE  block[block[h].parent].depth < block[h].depth
    OBVIOUS
  <2>1. h \in Hash \ {Genesis} /\ Stored(h)
    BY <1>1, DepthFact DEF EngineInv
  <2>2. Depth(h) = Depth(block[h].parent) + 1 /\ Depth(block[h].parent) \in Nat
    BY <2>1, DepthFact DEF EngineInv
  <2> QED
    BY SMTT(60), <2>2 DEF Depth
<1> QED
  BY <1>1, <1>2, <1>3 DEF Canon, IsCanonical, Depth

\* Whatever blocks arrive in whatever order, the main list flags that
\* addValidatedBlock leaves are on the tip, its ancestors and nothing else.
THEOREM MainListIsCanonical == Spec => []CanonicalMainList
BY CanonicalFact, EngineInvHolds, PTL

\* No stored block beats the tip, and the persisted tip, the weight and the
\* world state follow it, whenever the engine's lock is free.
THEOREM TipIsTheBest == Spec => []TipIsBest
<1>1. EngineInv => TipIsBest
  BY DEF EngineInv, MainInv, FaultInv, TipInv, TipIsBest, Visible, Adding, Opening
<1> QED
  BY <1>1, EngineInvHolds, PTL
-----------------------------------------------------------------------------
(* The engine implements the abstract chain: each of the many writes of      *)
(* addValidatedBlock is invisible until the lock is released, and then the   *)
(* whole add is one step of HeaviestChain.                                   *)

barVars == <<knownBar, canonicalBar, bestBar>>

\* An engine that has not opened its database yet has the genesis block only.
LEMMA BarInit == Init => Abstract!Init
BY DEF Init, Abstract!Init, GenesisBlock, Abstract!GenesisBlock,
       knownBar, canonicalBar, bestBar, Opening

\* The variables the mapping reads.
LEMMA BarStutter ==
  UNCHANGED <<block, node, main, tip, pc, child, oldMain, oldTip>> => UNCHANGED barVars
BY DEF barVars, knownBar, canonicalBar, bestBar, Visible

\* Until the first opening is over readers have the genesis block, and then they
\* find it stored.
LEMMA BarOpen == EngineInv /\ Open => UNCHANGED barVars
<1> SUFFICES ASSUME EngineInv, Open PROVE UNCHANGED barVars
  OBVIOUS
<1>1. CASE SaveGenesisTip \/ SaveGenesisBlock
  <2>1. pc \in Opening /\ pc' \in Opening /\ tip' = tip
    BY <1>1 DEF SaveGenesisTip, SaveGenesisBlock, Opening, memory
  <2> QED
    BY <2>1 DEF barVars, knownBar, canonicalBar, bestBar
<1>2. CASE SaveGenesisNode
  <2>1. /\ pc \in Opening /\ pc' = "idle" /\ node' = {Genesis} /\ main' = {Genesis}
        /\ UNCHANGED <<block, tip>>
    BY <1>2 DEF SaveGenesisNode, EngineInv, MainInv, Opening, memory
  <2>2. block[Genesis] = GenesisBlock
    BY <1>2 DEF SaveGenesisNode, EngineInv, FaultInv, AddInv, BlockInv, Stored
  <2>3. pc' \notin Opening /\ Visible'
    BY <2>1 DEF Opening, Visible
  <2> QED
    BY <2>1, <2>2, <2>3 DEF barVars, knownBar, canonicalBar, bestBar
<1>3. CASE OpenAtTip
  BY <1>3 DEF OpenAtTip, EngineInv, MainInv
<1> QED
  BY <1>1, <1>2, <1>3 DEF Open

\* putBlock(child) makes the block stored, not known: it has no chain node.
LEMMA BarBeginAdd ==
  ASSUME EngineInv, NEW h \in Hash, NEW b, BeginAdd(h, b)
  PROVE  UNCHANGED barVars
<1>1. /\ pc = "idle" /\ pc' = "parent" /\ h \notin node
      /\ block' = [block EXCEPT ![h] = b] /\ child' = h
      /\ oldMain' = main /\ oldTip' = tip
      /\ UNCHANGED <<node, main, tip>>
  BY DEF BeginAdd, ValidBlock, Addable, memory
<1>2. \A g \in node : block'[g] = block[g] /\ g # child'
  BY <1>1 DEF EngineInv, FaultInv, TypeOK
<1>3. /\ pc \notin Opening /\ pc' \notin Opening
      /\ Visible /\ ~Visible'
  BY <1>1 DEF Opening, Visible
<1> QED
  BY <1>1, <1>2, <1>3 DEF barVars, knownBar, canonicalBar, bestBar

\* Between putBlock(child) and the release of the lock only the new block's
\* chain node and the main list flags change.
LEMMA BarWalk ==
  LinkParent \/ SaveTip \/ RebaseState \/ WalkUp \/ SaveChild \/ WalkDown
    => UNCHANGED barVars
<1> SUFFICES ASSUME LinkParent \/ SaveTip \/ RebaseState \/ WalkUp \/ SaveChild \/ WalkDown
             PROVE  UNCHANGED barVars
  OBVIOUS
<1>1. /\ pc \notin Opening /\ pc' \notin Opening /\ ~Visible /\ ~Visible'
      /\ UNCHANGED <<block, child, oldMain, oldTip>>
      /\ node' \in {node, node \cup {child}}
  BY DEF LinkParent, SaveTip, RebaseState, WalkUp, SaveChild, WalkDown, Opening, Visible,
         add, past
<1> QED
  BY <1>1 DEF barVars, knownBar, canonicalBar, bestBar

\* The new block extends a known one when its add ends, and was not known before.
LEMMA BarRelease ==
  ASSUME EngineInv, pc \in {"down", "side"}, pc' \in {"idle", "callback"},
         pc' = "callback" => child' = child,
         block' = block, node' = node \cup {child}
  PROVE  /\ child \in Hash /\ knownBar[child] = NoBlock
         /\ knownBar' = [knownBar EXCEPT ![child] = block[child]]
         /\ knownBar'[child] = block[child]
         /\ Abstract!Extends(block[child])
         /\ oldTip \in Hash /\ knownBar'[oldTip] = block[oldTip]
         /\ \A h \in node' : knownBar'[h] = block[h]
         /\ canonicalBar = oldMain /\ bestBar = oldTip
         /\ canonicalBar' = main' /\ bestBar' = tip'
<1>1. /\ pc \notin Opening /\ pc' \notin Opening /\ ~Visible /\ Visible'
      /\ pc \in Adding /\ pc \in Linked /\ pc # "callback"
  BY DEF Opening, Visible, Adding, Linked
<1>2. child \in Hash /\ node \subseteq Hash /\ node' \subseteq Hash
  BY DEF EngineInv, FaultInv, TypeOK
<1>3. \A h \in Hash : knownBar[h] = IF h \in node /\ h # child THEN block[h] ELSE NoBlock
  BY <1>1 DEF knownBar
<1>4. \A h \in Hash : knownBar'[h] = IF h \in node' THEN block[h] ELSE NoBlock
  BY <1>1 DEF knownBar
<1>5. knownBar' = [knownBar EXCEPT ![child] = block[child]]
  BY <1>1, <1>2 DEF knownBar
<1>6. Abstract!Extends(block[child])
  <2>1. child # Genesis /\ Stored(child) /\ block[child].parent \in node
    BY <1>1 DEF EngineInv, FaultInv, AddInv
  <2>2. /\ block[child].parent \in Hash /\ Stored(block[child].parent)
        /\ block[child].depth = block[block[child].parent].depth + 1
        /\ block[child].weight > block[block[child].parent].weight
    BY <1>2, <2>1 DEF EngineInv, FaultInv, BlockInv
  <2>3. block[child] \in BlockSpec /\ block[block[child].parent].depth \in Nat
    BY <1>2, <2>1, <2>2, StoredType DEF EngineInv, FaultInv
  <2>4. block[child].parent # child
    BY SMT, <2>2, <2>3
  <2>5. knownBar[block[child].parent] = block[block[child].parent]
    BY <1>3, <2>1, <2>2, <2>4
  <2> QED
    BY <2>2, <2>3, <2>5 DEF Abstract!Extends, Abstract!BlockSpec, BlockSpec, Stored
<1>7. oldTip \in node
  BY <1>1 DEF EngineInv, MainInv, Canon
<1>8. \A h \in node' : knownBar'[h] = block[h]
  BY <1>2, <1>4
<1>9. /\ canonicalBar = oldMain /\ bestBar = oldTip
      /\ canonicalBar' = main' /\ bestBar' = tip'
  BY <1>1 DEF canonicalBar, bestBar
<1>10. knownBar[child] = NoBlock
  BY <1>2, <1>3
<1> QED
  BY <1>2, <1>5, <1>6, <1>7, <1>8, <1>9, <1>10

\* A block on a side branch becomes known and changes nothing else.
LEMMA BarSideBranch == EngineInv /\ SideBranch => Abstract!Next
<1> SUFFICES ASSUME EngineInv, SideBranch PROVE Abstract!Next
  OBVIOUS
<1>1. /\ pc = "side" /\ pc' \in {"idle", "callback"}
      /\ pc' = "callback" => child' = child
      /\ block' = block /\ node' = node \cup {child}
      /\ UNCHANGED <<main, tip>>
  BY DEF SideBranch, Release, Return, memory, add
<1>2. main = oldMain /\ tip = oldTip /\ ~Better(block, child, tip)
  BY <1>1 DEF EngineInv, FaultInv, TipInv, MainInv
<1>3. ~Abstract!Better(knownBar', child, bestBar)
  BY <1>1, <1>2, BarRelease DEF Better, Abstract!Better
<1>4. Abstract!Add(child, knownBar'[child])
  BY <1>1, <1>2, <1>3, BarRelease DEF Abstract!Add
<1> QED
  BY <1>1, <1>4, BarRelease DEF Abstract!Next

\* The main list is canonical after every step.
LEMMA CanonicalNext == EngineInv' => CanonicalMainList'
BY CanonicalFact, PTL

\* A block that beats the old tip becomes known and the tip, and the main list
\* is by then the line to it.
LEMMA BarEndWalk == EngineInv /\ EngineInv' /\ EndWalk => Abstract!Next
<1> SUFFICES ASSUME EngineInv, EngineInv', EndWalk PROVE Abstract!Next
  OBVIOUS
<1>1. /\ pc = "down" /\ pc' \in {"idle", "callback"}
      /\ pc' = "callback" => child' = child
      /\ UNCHANGED <<block, node, main, tip>>
  BY DEF EndWalk, Release, Return, db, memory, add
<1>2. tip = child /\ Better(block, child, oldTip) /\ child \in main /\ main \subseteq node
  BY <1>1 DEF EngineInv, FaultInv, TipInv, MainInv, NodeInv
<1>3. node' = node \cup {child}
  BY <1>1, <1>2
<1>4. Abstract!Better(knownBar', child, bestBar)
  BY <1>1, <1>2, <1>3, BarRelease DEF Better, Abstract!Better
<1>5. IsCanonical(block', main', tip')
  BY <1>1, CanonicalNext DEF Visible, CanonicalMainList
<1>6. Abstract!IsCanonical(knownBar', main', child)
  BY SMTT(30), <1>1, <1>2, <1>3, <1>5, BarRelease DEF IsCanonical, Abstract!IsCanonical
<1>7. main' \in SUBSET Hash
  BY DEF EngineInv, FaultInv, TypeOK
<1>8. Abstract!Add(child, knownBar'[child])
  BY <1>1, <1>2, <1>3, <1>4, <1>6, <1>7, BarRelease DEF Abstract!Add
<1> QED
  BY <1>1, <1>3, <1>8, BarRelease DEF Abstract!Next

\* The callback's return changes only the locals of the add.
LEMMA BarCallback == Callback => UNCHANGED barVars
BY DEF Callback, Return, db, memory, Opening, Visible,
       barVars, knownBar, canonicalBar, bestBar

\* Every step of the engine is an atomic add or invisible.
LEMMA BarStep ==
  EngineInv /\ EngineInv' /\ [Next]_vars => [Abstract!Next]_barVars
<1> SUFFICES ASSUME EngineInv, EngineInv', [Next]_vars
             PROVE  Abstract!Next \/ UNCHANGED barVars
  OBVIOUS
<1>1. CASE Open
  BY <1>1, BarOpen
<1>2. CASE AcceptNetworkBlock
  BY SMT, <1>2, BarBeginAdd DEF AcceptNetworkBlock
<1>3. CASE Produce
  <2>1. CASE MineCandidateBlock
    BY <2>1, BarBeginAdd DEF MineCandidateBlock
  <2>2. CASE NewCandidateBlock \/ MineFails \/ \E t \in Tx : AddTransaction(t)
    BY <2>2, BarStutter
    DEF NewCandidateBlock, MineFails, AddTransaction, db, memory, add, past
  <2> QED
    BY <1>3, <2>1, <2>2 DEF Produce
<1>4. CASE Walk
  BY <1>4, BarWalk, BarEndWalk, BarSideBranch, BarCallback DEF Walk
<1>5. CASE UNCHANGED vars
  BY <1>5, BarStutter DEF vars, db, memory, add, past
<1> QED
  BY <1>1, <1>2, <1>3, <1>4, <1>5 DEF Next

\* Seen by its readers, the engine that saves one record after the other is the
\* chain of consensus.go: adding a block is atomic, and the canonical chain is
\* always the line to the best known block.
THEOREM EngineImplementsChain == Spec => ImplementsHeaviestChain
<1>1. Spec => Abstract!Init /\ [][Abstract!Next]_barVars
  BY BarInit, BarStep, EngineInvHolds, PTL DEF Spec
<1> QED
  BY <1>1 DEF ImplementsHeaviestChain, Abstract!Spec, barVars

-----------------------------------------------------------------------------
(* A candidate stays valid *)

\* A block is in its parent's list before it has a chain node.
Unsaved == pc \in {"tip", "rebase", "up", "side"}

\* Without faults every child listed is a chain node, the one being added aside.
ListInv ==
  \A p \in Hash : \A i \in DOMAIN children[p] :
    children[p][i] \in node \/ (Unsaved /\ children[p][i] = child)

\* Without faults every stored block is a chain node, the one being added aside.
StoredInv ==
  /\ \A h \in Hash : Stored(h) =>
       \/ h \in node
       \/ pc = "genesisNode" /\ h = Genesis
       \/ pc \in Adding /\ h = child
  /\ pc \in {"down", "callback"} => child \in node

\* The candidate is valid also in the middle of an add.
CandidateInv ==
  candidate # NoBlock => candidate.parent \in node /\ ValidBlock(candidate)

QuietInv == EngineInv /\ ListInv /\ StoredInv /\ CandidateInv

\* The chain nodes are a tree.
LEMMA TreeFact == FaultInv => IsTree(node, block)
<1> SUFFICES ASSUME FaultInv PROVE IsTree(node, block)
  OBVIOUS
<1>1. node \subseteq Hash /\ \A h \in node : Stored(h) /\ Depth(h) \in Nat
  BY DepthFact
<1>2. ASSUME NEW h \in node, h = Genesis PROVE block[h].parent = NoHash /\ block[h].depth = 0
  <2>1. block[Genesis] = GenesisBlock
    BY <1>1, <1>2 DEF FaultInv, BlockInv, Stored
  <2> QED
    BY SMT, <1>2, <2>1 DEF GenesisBlock
<1>3. ASSUME NEW h \in node, h # Genesis
      PROVE  block[h].parent \in node /\ block[h].depth = block[block[h].parent].depth + 1
  BY <1>1, <1>3 DEF FaultInv, BlockInv, NodeInv
<1> QED
  BY <1>1, <1>2, <1>3 DEF IsTree, Depth

\* While no block is being added, the lists of children are lists of chain nodes.
LEMMA KidsFact ==
  ASSUME FaultInv, ListInv, pc = "idle"
  PROVE  Kids(node, block, children)
<1> SUFFICES ASSUME NEW p \in node
             PROVE  /\ children[p] \in Seq(node)
                    /\ \A i \in DOMAIN children[p] : block[children[p][i]].parent = p
  BY DEF Kids
<1>1. p \in Hash /\ children[p] \in Seq(Hash)
  BY DEF FaultInv, TypeOK
<1>2. \A i \in DOMAIN children[p] : children[p][i] \in node
  BY <1>1 DEF ListInv, Unsaved
<1>3. \A i \in DOMAIN children[p] : block[children[p][i]].parent = p
  BY <1>1 DEF FaultInv, ChildrenInv
<1>4. children[p] \in Seq(node)
  BY SMT, <1>1, <1>2
<1> QED
  BY <1>3, <1>4

\* A step that adds to the tree and leaves the candidate alone leaves it valid.
LEMMA CandidateKept ==
  ASSUME FaultInv, FaultInv', CandidateInv, candidate' = candidate,
         node \subseteq node', \A g \in node : block'[g] = block[g]
  PROVE  CandidateInv'
<1> SUFFICES ASSUME candidate # NoBlock
             PROVE  candidate.parent \in node' /\ ValidBlock(candidate)'
  BY DEF CandidateInv
<1> DEFINE p == candidate.parent
<1>1. p \in node /\ p \in node' /\ ValidBlock(candidate)
  BY DEF CandidateInv
<1>2. block'[p] = block[p]
  BY <1>1
<1>3. IsTree(node, block) /\ NoHash \notin node'
  BY TreeFact, TreeAssumption DEF FaultInv, TypeOK
<1>4. ASSUME NEW i \in DOMAIN candidate.uncles
      PROVE  IsUncleValid(node', block', p, candidate.uncles[i])
  <2>1. IsUncleValid(node, block, p, candidate.uncles[i])
    BY <1>1 DEF ValidBlock
  <2> QED
    BY <1>3, <2>1, UncleGrows
<1>5. /\ candidate \in BlockSpec
      /\ p \in Hash /\ block[p] # NoBlock
      /\ candidate.depth = block[p].depth + 1
      /\ candidate.weight = block[p].weight + 1 + Len(candidate.uncles)
  BY <1>1 DEF ValidBlock
<1> HIDE DEF p
<1> QED
  BY <1>1, <1>2, <1>4, <1>5 DEF ValidBlock, p

\* NewCandidateBlock: findUncles and the depth and weight of the block it makes.
LEMMA NewCandidateValid == QuietInv /\ NewCandidateBlock => CandidateInv'
<1> SUFFICES ASSUME QuietInv, NewCandidateBlock PROVE CandidateInv'
  OBVIOUS
<1> DEFINE us == FindUncles(node, block, children, tip)
<1>1. /\ pc = "idle" /\ UNCHANGED <<block, node>>
      /\ candidate' = [parent |-> tip, depth |-> block[tip].depth + 1,
                       weight |-> block[tip].weight + 1 + Len(us),
                       uncles |-> us, txs |-> {}]
  BY DEF NewCandidateBlock, db
<1>2. FaultInv /\ tip \in node /\ tip \in Hash /\ Stored(tip)
  BY <1>1, DepthFact DEF QuietInv, EngineInv, MainInv, Visible, Canon
<1>3. us \in Seq({u \in node : IsUncleValid(node, block, tip, u)})
  BY <1>1, <1>2, TreeFact, KidsFact, FindUnclesFact DEF QuietInv
<1>4. block[tip].depth \in Nat /\ block[tip].weight \in Nat /\ node \subseteq Hash
  BY <1>2, StoredType DEF FaultInv, TypeOK
<1> HIDE DEF us
<1>5. /\ us \in Seq(Hash)
      /\ \A i \in DOMAIN us : IsUncleValid(node, block, tip, us[i])
      /\ Len(us) \in Nat
  BY SMTT(30), <1>3, <1>4
<1>6. candidate' \in BlockSpec
  BY SMTT(30), <1>1, <1>2, <1>4, <1>5 DEF BlockSpec
<1>7. /\ candidate'.parent = tip /\ candidate'.uncles = us
      /\ candidate'.depth = block[tip].depth + 1
      /\ candidate'.weight = block[tip].weight + 1 + Len(us)
  BY <1>1
<1>8. ValidBlock(candidate)'
  BY <1>1, <1>2, <1>5, <1>6, <1>7 DEF ValidBlock, Stored
<1> QED
  BY <1>1, <1>2, <1>7, <1>8 DEF CandidateInv

\* AddTransaction changes nothing that validateBlock looks at.
LEMMA CandidateTransaction ==
  ASSUME QuietInv, NEW t \in Tx, AddTransaction(t)
  PROVE  CandidateInv'
<1>1. /\ candidate # NoBlock /\ UNCHANGED <<block, node>>
      /\ candidate' = [candidate EXCEPT !.txs = @ \cup {t}]
  BY DEF AddTransaction, db
<1>2. candidate.parent \in node /\ ValidBlock(candidate) /\ candidate \in BlockSpec
  BY <1>1 DEF QuietInv, CandidateInv, ValidBlock
<1>3. /\ candidate' \in BlockSpec
      /\ candidate'.parent = candidate.parent /\ candidate'.uncles = candidate.uncles
      /\ candidate'.depth = candidate.depth /\ candidate'.weight = candidate.weight
  BY <1>1, <1>2 DEF BlockSpec
<1>4. ValidBlock(candidate)'
  BY <1>1, <1>2, <1>3 DEF ValidBlock
<1> QED
  BY SMTT(30), <1>1, <1>2, <1>3, <1>4 DEF CandidateInv

\* A step of an add, or of opening the engine, keeps what is listed and what is
\* stored in step with the chain nodes.
LEMMA ListedWalk ==
  ASSUME QuietInv, EngineInv', Open \/ Walk
  PROVE  ListInv' /\ StoredInv' /\ CandidateInv'
<1> USE DEF QuietInv, EngineInv
<1>1. CASE SaveGenesisTip
  <2>1. pc = "open" /\ pc' = "genesisBlock" /\ UNCHANGED <<block, node, children, candidate, child>>
    BY <1>1 DEF SaveGenesisTip, add
  <2> QED
    BY <2>1, CandidateKept DEF ListInv, StoredInv, Unsaved, Stored, Adding
<1>2. CASE SaveGenesisBlock
  <2>1. /\ pc = "genesisBlock" /\ pc' = "genesisNode"
        /\ block' = [block EXCEPT ![Genesis] = GenesisBlock]
        /\ UNCHANGED <<node, children, candidate, child>>
    BY <1>2 DEF SaveGenesisBlock, add
  <2>2. node = {} /\ \A h \in Hash \ {Genesis} : block'[h] = block[h]
    BY <2>1 DEF MainInv, Opening, FaultInv, TypeOK
  <2>3. ListInv'
    BY <2>1 DEF ListInv, Unsaved
  <2>4. StoredInv'
    BY <2>1, <2>2 DEF StoredInv, Stored, Adding
  <2> QED
    BY <2>1, <2>2, <2>3, <2>4, CandidateKept
<1>3. CASE SaveGenesisNode
  <2>1. /\ pc = "genesisNode" /\ pc' = "idle" /\ node' = node \cup {Genesis}
        /\ UNCHANGED <<block, children, candidate, child>>
    BY <1>3 DEF SaveGenesisNode, add
  <2> QED
    BY <2>1, CandidateKept DEF ListInv, StoredInv, Unsaved, Stored, Adding
<1>4. CASE OpenAtTip
  BY <1>4 DEF OpenAtTip, MainInv
<1>5. CASE LinkParent
  <2>1. /\ pc = "parent" /\ pc' \in {"tip", "side"} /\ parentNode \in Hash
        /\ children' = [children EXCEPT ![parentNode] = Append(@, child)]
        /\ UNCHANGED <<block, node, candidate, child>>
    BY <1>5 DEF LinkParent, FaultInv, TypeOK, add
  <2>2. children \in [Hash -> Seq(Hash)] /\ child \in Hash
    BY DEF FaultInv, TypeOK
  <2>3. ASSUME NEW p \in Hash, NEW i \in DOMAIN children'[p]
        PROVE  children'[p][i] = child \/ (i \in DOMAIN children[p] /\ children'[p][i] = children[p][i])
    BY SMTT(30), <2>1, <2>2
  <2>4. ListInv'
    BY SMT, <2>1, <2>3 DEF ListInv, Unsaved
  <2>5. StoredInv'
    BY <2>1 DEF StoredInv, Stored, Adding
  <2> QED
    BY <2>1, <2>4, <2>5, CandidateKept
<1>6. CASE SaveTip \/ RebaseState \/ WalkUp
  <2>1. /\ Unsaved /\ Unsaved' /\ pc \in Adding /\ pc' \in {"rebase", "up"}
        /\ UNCHANGED <<block, node, children, candidate, child>>
    BY <1>6 DEF SaveTip, RebaseState, WalkUp, Unsaved, Adding, add
  <2>2. StoredInv'
    BY <2>1 DEF StoredInv, Stored, Adding
  <2>3. ListInv'
    BY <2>1 DEF ListInv
  <2> QED
    BY <2>1, <2>2, <2>3, CandidateKept
<1>7. CASE SaveChild
  <2>1. /\ pc = "up" /\ pc' = "down" /\ node' = node \cup {child}
        /\ UNCHANGED <<block, children, candidate, child>>
    BY <1>7 DEF SaveChild
  <2> QED
    BY <2>1, CandidateKept DEF ListInv, StoredInv, Unsaved, Stored, Adding
<1>8. CASE WalkDown
  <2>1. /\ pc = "down" /\ pc' = "down"
        /\ UNCHANGED <<block, node, children, candidate, child>>
    BY <1>8 DEF WalkDown
  <2> QED
    BY <2>1, CandidateKept DEF ListInv, StoredInv, Unsaved, Stored, Adding
<1>9. CASE EndWalk
  <2>1. /\ pc = "down" /\ pc' \in {"idle", "callback"} /\ (pc' = "callback" => child' = child)
        /\ UNCHANGED <<block, node, children, candidate>>
    BY <1>9 DEF EndWalk, Release, Return, add, db
  <2> QED
    BY <2>1, CandidateKept DEF ListInv, StoredInv, Unsaved, Stored, Adding
<1>10. CASE SideBranch
  <2>1. /\ pc = "side" /\ pc' \in {"idle", "callback"} /\ (pc' = "callback" => child' = child)
        /\ node' = node \cup {child} /\ UNCHANGED <<block, children, candidate>>
    BY <1>10 DEF SideBranch, Release, Return, add
  <2> QED
    BY <2>1, CandidateKept DEF ListInv, StoredInv, Unsaved, Stored, Adding
<1>11. CASE Callback
  <2>1. /\ pc = "callback" /\ pc' = "idle"
        /\ UNCHANGED <<block, node, children, candidate>>
    BY <1>11 DEF Callback, Return, db
  <2> QED
    BY <2>1, CandidateKept DEF ListInv, StoredInv, Unsaved, Stored, Adding
<1> QED
  BY <1>1, <1>2, <1>3, <1>4, <1>5, <1>6, <1>7, <1>8, <1>9, <1>10, <1>11 DEF Open, Walk

\* A block that begins to be added has no chain node yet.
LEMMA ListedBeginAdd ==
  ASSUME QuietInv, NEW h \in Hash, NEW b, BeginAdd(h, b)
  PROVE  /\ ListInv' /\ StoredInv'
         /\ node' = node /\ \A g \in node : block'[g] = block[g]
<1>1. /\ pc = "idle" /\ pc' = "parent" /\ h \notin node
      /\ block' = [block EXCEPT ![h] = b] /\ child' = h /\ UNCHANGED <<node, children>>
  BY DEF BeginAdd, Addable
<1>2. \A g \in Hash \ {h} : block'[g] = block[g]
  BY <1>1 DEF QuietInv, EngineInv, FaultInv, TypeOK
<1>3. ListInv'
  BY <1>1 DEF QuietInv, ListInv, Unsaved
<1>4. StoredInv'
  BY <1>1, <1>2 DEF QuietInv, StoredInv, Stored, Adding
<1> QED
  BY <1>1, <1>2, <1>3, <1>4 DEF QuietInv, EngineInv, FaultInv, TypeOK

\* The invariant of an engine without faults.
LEMMA QuietInvStep == QuietInv /\ [Next]_vars => QuietInv'
<1> SUFFICES ASSUME QuietInv, [Next]_vars PROVE QuietInv'
  OBVIOUS
<1>0. EngineInv /\ EngineInv' /\ FaultInv /\ FaultInv'
  BY EngineInvStep DEF QuietInv, EngineInv
<1>1. CASE Open \/ Walk
  BY <1>0, <1>1, ListedWalk DEF QuietInv
<1>2. CASE AcceptNetworkBlock
  <2>1. /\ candidate' = candidate /\ ListInv' /\ StoredInv'
        /\ node' = node /\ \A g \in node : block'[g] = block[g]
    BY SMT, <1>2, ListedBeginAdd DEF AcceptNetworkBlock
  <2> QED
    BY <1>0, <2>1, CandidateKept DEF QuietInv
<1>3. CASE MineCandidateBlock
  <2>1. candidate' = NoBlock /\ ListInv' /\ StoredInv'
    BY <1>3, ListedBeginAdd DEF MineCandidateBlock
  <2> QED
    BY <1>0, <2>1 DEF QuietInv, CandidateInv
<1>4. CASE NewCandidateBlock \/ MineFails \/ (\E t \in Tx : AddTransaction(t)) \/ UNCHANGED vars
  <2>1. UNCHANGED <<block, node, children, pc, child>>
    BY <1>4 DEF NewCandidateBlock, MineFails, AddTransaction, vars, db, add
  <2>2. ListInv' /\ StoredInv'
    BY <2>1 DEF QuietInv, ListInv, StoredInv, Unsaved, Stored
  <2>3. CandidateInv'
    <3>1. CASE NewCandidateBlock
      BY <3>1, NewCandidateValid
    <3>2. CASE MineFails
      BY <3>2 DEF MineFails, CandidateInv
    <3>3. CASE \E t \in Tx : AddTransaction(t)
      BY <3>3, CandidateTransaction
    <3>4. CASE UNCHANGED vars
      BY <1>0, <2>1, <3>4, CandidateKept DEF vars, QuietInv
    <3> QED
      BY <1>4, <3>1, <3>2, <3>3, <3>4
  <2> QED
    BY <1>0, <2>2, <2>3 DEF QuietInv
<1> QED
  BY <1>1, <1>2, <1>3, <1>4 DEF Next, Produce

\* An engine on an empty database.
LEMMA QuietInvInit == Init => QuietInv
<1> SUFFICES ASSUME Init PROVE ListInv /\ StoredInv /\ CandidateInv
  BY EngineInvInit DEF QuietInv
<1> QED
  BY SMT DEF Init, ListInv, StoredInv, CandidateInv, Stored

\* A block that NewCandidateBlock made passes validateBlock whenever the engine's
\* lock is free, whatever blocks were added since.
THEOREM CandidateStaysValidHolds == Spec => []CandidateStaysValid
<1>1. QuietInv => CandidateStaysValid
  BY DEF QuietInv, CandidateInv, CandidateStaysValid
<1> QED
  BY <1>1, QuietInvInit, QuietInvStep, PTL DEF Spec

-----------------------------------------------------------------------------
(* The loop of Descendents reaches the tip *)

\* The main list leads from the genesis block to the tip, over children that are
\* listed, and the weight of each block counts it and its uncles.
LeadsTo(nodes, blocks, flagged, offspring, top, S) ==
  /\ flagged \subseteq nodes /\ Genesis \in flagged /\ top \in flagged /\ top # Genesis
  /\ NoHash \notin nodes /\ Genesis \in S /\ flagged \subseteq S /\ S \subseteq Hash
  /\ blocks[Genesis].uncles = <<>> /\ blocks[Genesis].weight = 0
  /\ \A h \in flagged :
       /\ offspring[h] \in Seq(nodes) /\ blocks[h].uncles \in Seq(S) /\ blocks[h].weight \in Nat
       /\ blocks[h].weight <= blocks[top].weight
       /\ \A i \in DOMAIN offspring[h] : LET c == offspring[h][i] IN
            /\ c # Genesis /\ (h = top => c \notin flagged)
            /\ c \in flagged => blocks[c].weight = blocks[h].weight + 1 + Len(blocks[c].uncles)
  /\ \A h \in flagged \ {top} : \E i \in DOMAIN offspring[h] : offspring[h][i] \in flagged

\* The next block of the main list, or none below the tip.
LEMMA NextOnMain ==
  ASSUME NEW nodes, NEW blocks, NEW flagged, NEW offspring, NEW top, NEW S,
         LeadsTo(nodes, blocks, flagged, offspring, top, S), NEW h \in flagged,
         NEW g, g = FindMainListChild(nodes, flagged, offspring, h, NoHash)
  PROVE  \/ h = top /\ g = NoHash
         \/ /\ g \in flagged /\ g # Genesis /\ g # NoHash
            /\ blocks[g].weight = blocks[h].weight + 1 + Len(blocks[g].uncles)
<1>1. /\ offspring[h] \in Seq(nodes) /\ NoHash \notin nodes /\ flagged \subseteq nodes
      /\ h # top => \E i \in DOMAIN offspring[h] : offspring[h][i] \in flagged
  BY DEF LeadsTo
<1>2. \A i \in DOMAIN offspring[h] :
        /\ offspring[h][i] # Genesis /\ (h = top => offspring[h][i] \notin flagged)
        /\ offspring[h][i] \in flagged =>
             blocks[offspring[h][i]].weight = blocks[h].weight + 1 + Len(blocks[offspring[h][i]].uncles)
  BY DEF LeadsTo
<1>3. IsMainChild(g, nodes, flagged, offspring[h], NoHash)
  BY <1>1, MainListChildFact
<1>4. CASE g \in nodes \cap flagged /\ \E i \in DOMAIN offspring[h] : offspring[h][i] = g
  BY <1>1, <1>2, <1>4
<1>5. CASE g = NoHash /\ \A i \in DOMAIN offspring[h] : offspring[h][i] \notin flagged \ {NoHash}
  BY <1>1, <1>2, <1>5
<1> QED
  BY <1>3, <1>4, <1>5 DEF IsMainChild

\* The loop is at a block of the main list and has all before it, or at the end.
Going(w, i, blocks, flagged, S) ==
  /\ w.at \in flagged /\ w.at # Genesis /\ w.at # NoHash /\ w.list \in Seq(S)
  /\ Len(w.list) >= i - 1
  /\ blocks[w.at].weight = Len(w.list) + 1 + Len(blocks[w.at].uncles)
Ended(w, top, S) ==
  w.at = NoHash /\ w.list \in Seq(S) /\ w.list # <<>> /\ w.list[Len(w.list)] = top

\* A round of the loop in a batch that is large enough.
LEMMA RoundReaches ==
  ASSUME NEW nodes, NEW blocks, NEW flagged, NEW offspring, NEW top, NEW S,
         LeadsTo(nodes, blocks, flagged, offspring, top, S), NEW limit \in Nat,
         blocks[top].weight <= limit, NEW i \in Nat \ {0}, NEW w, Going(w, i, blocks, flagged, S),
         NEW v, v = Round(nodes, blocks, flagged, offspring, Genesis, limit, w)
  PROVE  Going(v, i + 1, blocks, flagged, S) \/ Ended(v, top, S)
<1>1. PICK h, l, us, n : h = w.at /\ l = w.list /\ us = blocks[h].uncles /\ n = blocks[h].weight
  OBVIOUS
<1>2. /\ h \in flagged /\ h # Genesis /\ h # NoHash /\ l \in Seq(S) /\ Len(l) >= i - 1
      /\ n = Len(l) + 1 + Len(us) /\ us \in Seq(S) /\ h \in S /\ n \in Nat
      /\ n <= blocks[top].weight /\ blocks[top].weight \in Nat
  BY <1>1 DEF Going, LeadsTo
<1>3. Len(l) \in Nat /\ Len(us) \in Nat
  BY SMT, <1>2
<1>4. ~(Len(l) >= limit) /\ ~(Len(l) + Len(us) >= limit)
  BY SMT, <1>2, <1>3
<1>5. PICK g, k : g = FindMainListChild(nodes, flagged, offspring, h, NoHash) /\ k = l \o us \o <<h>>
  OBVIOUS
<1>6. v.at = g /\ v.list = k
  BY <1>1, <1>2, <1>4, <1>5 DEF Round
<1>7. k \in Seq(S) /\ Len(k) = n /\ Len(k) >= i /\ k # <<>> /\ k[Len(k)] = h
  <2>1. PICK a : a = l \o us
    OBVIOUS
  <2>2. a \in Seq(S) /\ Len(a) = Len(l) + Len(us)
    BY SMT, <1>2, <2>1
  <2>3. k = Append(a, h)
    BY SMT, <1>2, <1>5, <2>1, <2>2
  <2>4. k \in Seq(S) /\ Len(k) = Len(a) + 1 /\ k[Len(a) + 1] = h
    BY SMT, <1>2, <2>2, <2>3
  <2>5. Len(k) = n /\ Len(k) >= i
    BY SMT, <1>2, <1>3, <2>2, <2>4
  <2>6. k # <<>>
    BY SMT, <2>2, <2>4
  <2> QED
    BY <2>4, <2>5, <2>6
<1>8. CASE h = top /\ g = NoHash
  BY <1>6, <1>7, <1>8 DEF Ended
<1>9. CASE /\ g \in flagged /\ g # Genesis /\ g # NoHash
           /\ blocks[g].weight = n + 1 + Len(blocks[g].uncles)
  <2>1. Len(k) >= (i + 1) - 1
    BY SMT, <1>7
  <2> QED
    BY <1>6, <1>7, <1>9, <2>1 DEF Going
<1>10. \/ h = top /\ g = NoHash
       \/ /\ g \in flagged /\ g # Genesis /\ g # NoHash
          /\ blocks[g].weight = blocks[h].weight + 1 + Len(blocks[g].uncles)
  BY SMT, <1>2, <1>5, NextOnMain
<1> QED
  BY <1>1, <1>8, <1>9, <1>10

\* Descendents of the genesis block end with the tip, in a batch that is large
\* enough for the line of the tip and its uncles.
LEMMA DescentReaches ==
  ASSUME NEW nodes, NEW blocks, NEW flagged, NEW offspring, NEW top, NEW S,
         LeadsTo(nodes, blocks, flagged, offspring, top, S), blocks[top].weight <= MaxBlocks,
         NEW d, d = Descendents(nodes, blocks, flagged, offspring, Genesis, MaxBlocks)
  PROVE  d \in Seq(S) /\ d # <<>> /\ d[Len(d)] = top
<1>0. MaxBlocks \in Nat
  BY TreeAssumption
<1>1. PICK limit \in Nat : limit = Limit(MaxBlocks)
  BY <1>0 DEF Limit
<1>2. PICK walk : /\ IsDescent(walk, nodes, blocks, flagged, offspring, Genesis, limit)
                  /\ d = walk[limit + 1].list
  <2>1. Offers(nodes, blocks, flagged, offspring, S) /\ Genesis \in nodes \cap flagged
    BY DEF Offers, LeadsTo
  <2>2. \E walk : /\ IsDescent(walk, nodes, blocks, flagged, offspring, Genesis, Limit(MaxBlocks))
                  /\ Descendents(nodes, blocks, flagged, offspring, Genesis, MaxBlocks) =
                       walk[Limit(MaxBlocks) + 1].list
    BY SMT, <1>0, <2>1, DescendentsWalk
  <2> QED
    BY <1>1, <2>2
<1>3. d = walk[limit + 1].list
  BY <1>2
<1>4. ASSUME NEW i \in 1 .. limit + 1
      PROVE  walk[i] = Round(nodes, blocks, flagged, offspring, Genesis, limit, walk[i - 1])
  BY <1>2 DEF IsDescent
<1>5. blocks[top].weight \in Nat /\ limit > 0 /\ blocks[top].weight <= limit
  <2>0. blocks[top].weight <= limit
    <3>1. Limit(MaxBlocks) = MaxBlocks
      BY <1>0 DEF Limit
    <3> QED
      BY <1>1, <3>1
  <2>1. PICK g : g = FindMainListChild(nodes, flagged, offspring, Genesis, NoHash)
    OBVIOUS
  <2>2. /\ Genesis \in flagged /\ Genesis # top /\ blocks[Genesis].weight = 0
        /\ blocks[top].weight \in Nat
    BY DEF LeadsTo
  <2>3. g \in flagged /\ blocks[g].weight = blocks[Genesis].weight + 1 + Len(blocks[g].uncles)
    BY SMT, <2>1, <2>2, NextOnMain
  <2>4. blocks[g].weight <= blocks[top].weight /\ blocks[g].uncles \in Seq(S)
    BY <2>3 DEF LeadsTo
  <2>5. Len(blocks[g].uncles) \in Nat
    BY SMT, <2>4
  <2> QED
    BY ONLY <2>0, <2>2, <2>3, <2>4, <2>5, limit \in Nat
<1>6. Going(walk[1], 1, blocks, flagged, S)
  <2>1. PICK v, g : v = walk[1] /\ g = FindMainListChild(nodes, flagged, offspring, Genesis, NoHash)
    OBVIOUS
  <2>2. 1 \in 1 .. limit + 1 /\ 1 - 1 = 0
    BY SMT
  <2>3. v = Round(nodes, blocks, flagged, offspring, Genesis, limit, walk[0])
    BY <1>4, <2>1, <2>2
  <2>4. walk[0].at = Genesis /\ walk[0].list = <<>> /\ blocks[Genesis].uncles = <<>>
    <3>1. walk[0] = [at |-> Genesis, list |-> <<>>]
      BY <1>2 DEF IsDescent
    <3>2. blocks[Genesis].uncles = <<>>
      BY DEF LeadsTo
    <3> QED
      BY SMT, <3>1, <3>2
  <2>5. Genesis # NoHash /\ Len(<<>>) = 0 /\ ~(0 >= limit) /\ ~(0 + 0 >= limit)
    BY SMT, <1>5, TreeAssumption
  <2>6. v.at = g /\ v.list = <<>> \o <<>> \o <<>>
    <3>1. /\ walk[0].at # NoHash /\ ~(Len(walk[0].list) >= limit)
          /\ ~(Len(walk[0].list) + Len(blocks[walk[0].at].uncles) >= limit)
      BY <2>4, <2>5
    <3>2. v = [at   |-> FindMainListChild(nodes, flagged, offspring, walk[0].at, NoHash),
               list |-> walk[0].list \o blocks[walk[0].at].uncles \o <<>>]
      BY <2>3, <2>4, <3>1 DEF Round
    <3>3. /\ v.at = FindMainListChild(nodes, flagged, offspring, walk[0].at, NoHash)
          /\ v.list = walk[0].list \o blocks[walk[0].at].uncles \o <<>>
      BY <3>2
    <3>4. walk[0].list \o blocks[walk[0].at].uncles \o <<>> = <<>> \o <<>> \o <<>>
      BY <2>4
    <3> QED
      BY <2>1, <2>4, <3>3, <3>4
  <2>7. v.list \in Seq(S) /\ Len(v.list) = 0
    BY SMT, <2>6
  <2>8. Genesis \in flagged /\ Genesis # top /\ blocks[Genesis].weight = 0
    BY DEF LeadsTo
  <2>9. g \in flagged /\ g # Genesis /\ g # NoHash
        /\ blocks[g].weight = 0 + 1 + Len(blocks[g].uncles)
    BY SMT, <2>1, <2>8, NextOnMain
  <2>10. Len(v.list) >= 1 - 1
    BY SMT, <2>7
  <2> QED
    BY <2>1, <2>6, <2>7, <2>9, <2>10 DEF Going
<1> DEFINE Fine(i) == Going(walk[i], i, blocks, flagged, S) \/ Ended(walk[i], top, S)
           Bad == {i \in Nat : i \in 1 .. limit + 1 /\ ~Fine(i)}
<1>7. Bad = {}
  <2> SUFFICES ASSUME Bad # {} PROVE FALSE
    OBVIOUS
  <2>1. PICK i \in Bad : \A j \in Bad : i <= j
    BY LeastNumberPrinciple
  <2>2. i \in Nat /\ i \in 1 .. limit + 1 /\ ~Fine(i)
    BY <2>1
  <2>3. i # 1
    BY <1>6, <2>2
  <2>4. PICK k \in Nat \ {0} : i = k + 1 /\ k = i - 1 /\ k \in 1 .. limit + 1 /\ ~(i <= k)
    BY SMT, <2>2, <2>3
  <2>5. Fine(k)
    BY <2>1, <2>4
  <2>6. walk[i] = Round(nodes, blocks, flagged, offspring, Genesis, limit, walk[k])
    BY <1>4, <2>2, <2>4
  <2>7. CASE Going(walk[k], k, blocks, flagged, S)
    <3>1. Going(walk[i], k + 1, blocks, flagged, S) \/ Ended(walk[i], top, S)
      BY <1>5, <2>4, <2>6, <2>7, RoundReaches
    <3> QED
      BY <2>2, <2>4, <3>1
  <2>8. CASE Ended(walk[k], top, S)
    <3>1. walk[i] = walk[k]
      BY <2>6, <2>8 DEF Round, Ended
    <3> QED
      BY <2>2, <2>8, <3>1
  <2> QED
    BY <2>5, <2>7, <2>8
<1>8. ~Going(walk[limit + 1], limit + 1, blocks, flagged, S)
  <2> SUFFICES ASSUME Going(walk[limit + 1], limit + 1, blocks, flagged, S) PROVE FALSE
    OBVIOUS
  <2>1. PICK h, l : h = walk[limit + 1].at /\ l = walk[limit + 1].list
    OBVIOUS
  <2>2. /\ h \in flagged /\ l \in Seq(S) /\ Len(l) >= (limit + 1) - 1
        /\ blocks[h].weight = Len(l) + 1 + Len(blocks[h].uncles)
    BY <2>1 DEF Going
  <2>3. blocks[h].weight <= blocks[top].weight /\ blocks[h].uncles \in Seq(S)
    BY <2>2 DEF LeadsTo
  <2>4. Len(l) \in Nat /\ Len(blocks[h].uncles) \in Nat
    BY SMT, <2>2, <2>3
  <2> QED
    <3>1. PICK a, u, t : a = Len(l) /\ u = Len(blocks[h].uncles) /\ t = blocks[top].weight
      OBVIOUS
    <3>2. a \in Nat /\ u \in Nat /\ t \in Nat /\ t <= limit /\ a >= (limit + 1) - 1 /\ a + 1 + u <= t
      BY <1>5, <2>2, <2>3, <2>4, <3>1
    <3> QED
      BY ONLY <3>2, limit \in Nat
<1>9. Ended(walk[limit + 1], top, S)
  <2>1. limit + 1 \in Nat /\ limit + 1 \in 1 .. limit + 1
    BY SMT
  <2> QED
    BY <1>7, <1>8, <2>1
<1> QED
  BY <1>3, <1>9 DEF Ended

-----------------------------------------------------------------------------
(* Descendents *)

\* The weight of a block counts it and its uncles on top of its parent's, and
\* its uncles are stored: what validateBlock checked when it came.
WeightInv ==
  \A h \in Hash \ {Genesis} : Stored(h) =>
    /\ block[h].weight = block[block[h].parent].weight + 1 + Len(block[h].uncles)
    /\ \A i \in DOMAIN block[h].uncles : Stored(block[h].uncles[i])

\* validateBlock and the first write of an add.
LEMMA WeightBeginAdd ==
  ASSUME QuietInv, WeightInv, NEW h \in Hash, NEW b, BeginAdd(h, b)
  PROVE  WeightInv'
<1>1. FaultInv /\ StoredInv
  BY DEF QuietInv, EngineInv
<1>2. pc = "idle" /\ ValidBlock(b) /\ h \notin node /\ block' = [block EXCEPT ![h] = b]
  BY DEF BeginAdd, Addable
<1>3. block'[h] = b /\ \A g \in Hash \ {h} : block'[g] = block[g]
  BY <1>1, <1>2 DEF FaultInv, TypeOK
<1>4. ~Stored(h)
  BY <1>1, <1>2 DEF StoredInv, Adding
<1>5. \A g \in node : g \in Hash /\ Stored(g) /\ g # h /\ block'[g] # NoBlock
  BY <1>1, <1>2, <1>3, DepthFact DEF Stored
<1> SUFFICES ASSUME NEW g \in Hash \ {Genesis}, block'[g] # NoBlock
             PROVE  /\ block'[g].weight = block'[block'[g].parent].weight + 1 + Len(block'[g].uncles)
                    /\ \A i \in DOMAIN block'[g].uncles : block'[block'[g].uncles[i]] # NoBlock
  BY DEF WeightInv, Stored
<1>6. CASE g = h
  <2>1. /\ b.parent \in Hash /\ block[b.parent] # NoBlock
        /\ b.weight = block[b.parent].weight + 1 + Len(b.uncles)
        /\ \A i \in DOMAIN b.uncles : b.uncles[i] \in node
    BY <1>2 DEF ValidBlock, IsUncleValid
  <2>2. block'[b.parent] = block[b.parent]
    BY <1>3, <1>4, <2>1 DEF Stored
  <2>3. \A i \in DOMAIN b.uncles : block'[b.uncles[i]] # NoBlock
    BY <1>5, <2>1
  <2> QED
    BY <1>3, <1>6, <2>1, <2>2, <2>3
<1>7. CASE g # h
  <2>1. block'[g] = block[g] /\ Stored(g)
    BY <1>3, <1>7 DEF Stored
  <2>2. block[g].parent \in Hash /\ Stored(block[g].parent) /\ block[g].uncles \in Seq(Hash)
    <3>1. block[g] \in BlockSpec
      BY <1>1, <2>1, StoredType DEF FaultInv
    <3> QED
      BY <1>1, <2>1, <3>1, DepthFact DEF BlockSpec
  <2>3. block'[block[g].parent] = block[block[g].parent]
    BY <1>3, <1>4, <2>2
  <2>4. PICK us : us = block[g].uncles
    OBVIOUS
  <2>5. \A i \in DOMAIN us : us[i] \in Hash
    BY SMT, <2>2, <2>4
  <2>6. \A i \in DOMAIN us : Stored(us[i])
    BY <2>1, <2>4 DEF WeightInv
  <2>7. \A i \in DOMAIN us : block'[us[i]] # NoBlock
    BY <1>3, <1>4, <2>5, <2>6 DEF Stored
  <2>8. block[g].weight = block[block[g].parent].weight + 1 + Len(block[g].uncles)
    BY <2>1 DEF WeightInv
  <2> QED
    BY <2>1, <2>3, <2>4, <2>7, <2>8
<1> QED
  BY <1>6, <1>7

\* Only NewBlockChainConsensus and the first write of an add store a block.
LEMMA WeightInvStep == QuietInv /\ WeightInv /\ [Next]_vars => WeightInv'
<1> SUFFICES ASSUME QuietInv, WeightInv, [Next]_vars PROVE WeightInv'
  OBVIOUS
<1>1. CASE block' = block
  BY <1>1 DEF WeightInv, Stored
<1>2. CASE SaveGenesisBlock
  <2>1. pc = "genesisBlock" /\ block' = [block EXCEPT ![Genesis] = GenesisBlock]
    BY <1>2 DEF SaveGenesisBlock
  <2>2. \A g \in Hash \ {Genesis} : block'[g] = block[g]
    BY <2>1 DEF QuietInv, EngineInv, FaultInv, TypeOK
  <2>3. \A g \in Hash \ {Genesis} : ~Stored(g)
    BY <2>1 DEF QuietInv, EngineInv, MainInv, StoredInv, Opening, Adding
  <2> QED
    BY <2>2, <2>3 DEF WeightInv, Stored
<1>3. CASE AcceptNetworkBlock
  BY ZenonT(60), <1>3, WeightBeginAdd DEF AcceptNetworkBlock
<1>4. CASE MineCandidateBlock
  BY <1>4, WeightBeginAdd DEF MineCandidateBlock
<1>5. CASE UNCHANGED vars
  BY <1>1, <1>5 DEF vars, db
<1>6. CASE NewCandidateBlock \/ MineFails \/ \E t \in Tx : AddTransaction(t)
  BY <1>1, <1>6 DEF NewCandidateBlock, MineFails, AddTransaction, db
<1>7. CASE Open
  BY <1>1, <1>2, <1>7 DEF Open, SaveGenesisTip, SaveGenesisNode, OpenAtTip, db
<1>8. CASE Walk
  BY <1>1, <1>8 DEF Walk, LinkParent, SaveTip, RebaseState, WalkUp, SaveChild,
       WalkDown, EndWalk, SideBranch, Callback, db
<1> QED
  BY <1>3, <1>4, <1>5, <1>6, <1>7, <1>8 DEF Next, Produce

\* While the lock is free the main list leads to the tip.
LEMMA MainLeads ==
  ASSUME QuietInv, WeightInv, pc = "idle", tip # Genesis,
         NEW S, S = {h \in Hash : Stored(h)}
  PROVE  LeadsTo(node, block, main, children, tip, S)
<1>1. /\ FaultInv /\ ListInv /\ Canon(main, tip) /\ \A h \in node \ {Genesis} : Listed(h)
  BY DEF QuietInv, EngineInv, MainInv, Visible
<1>2. /\ main \subseteq node /\ Genesis \in main /\ tip \in main /\ node \subseteq Hash
      /\ NoHash \notin node /\ \A h \in node : Stored(h)
  BY <1>1, DepthFact, TreeAssumption DEF Canon
<1>3. main \subseteq S /\ Genesis \in S /\ S \subseteq Hash
  BY <1>2
<1>4. block[Genesis].uncles = <<>> /\ block[Genesis].weight = 0
  <2>1. block[Genesis] = GenesisBlock
    BY <1>1, <1>2 DEF FaultInv, BlockInv, Stored
  <2> QED
    BY SMT, <2>1 DEF GenesisBlock
<1>5. ASSUME NEW h \in main
      PROVE  /\ children[h] \in Seq(node) /\ block[h].uncles \in Seq(S) /\ block[h].weight \in Nat
             /\ block[h].weight <= block[tip].weight
  <2>1. h \in Hash /\ h \in node /\ Stored(h)
    BY <1>2
  <2>2. children[h] \in Seq(node)
    BY <1>1, <2>1, KidsFact DEF Kids
  <2>3. block[h] \in BlockSpec /\ block[h].weight \in Nat /\ block[tip].weight \in Nat
    BY <1>1, <1>2, <2>1, StoredType DEF FaultInv
  <2>4. block[h].weight <= block[tip].weight
    <3>1. ~Better(block, h, tip)
      BY <1>1, <1>2, <2>1, TreeAssumption DEF FaultInv, TipInv
    <3>2. ~(block[h].weight > block[tip].weight)
      BY <3>1 DEF Better
    <3> QED
      BY SMT, <2>3, <3>2
  <2>5. PICK us : us = block[h].uncles
    OBVIOUS
  <2>6. us \in Seq(Hash)
    BY <2>3, <2>5 DEF BlockSpec
  <2>7. \A i \in DOMAIN us : Stored(us[i])
    <3>1. CASE h = Genesis
      <4>1. DOMAIN us = {}
        BY SMTT(30), <1>4, <2>5, <3>1
      <4> QED
        BY <4>1
    <3>2. CASE h # Genesis
      BY <2>1, <2>5, <3>2 DEF WeightInv
    <3> QED
      BY <3>1, <3>2
  <2>8. \A i \in DOMAIN us : us[i] \in S
    <3>1. \A i \in DOMAIN us : us[i] \in Hash
      BY SMT, <2>6
    <3> QED
      BY <2>7, <3>1
  <2>9. us \in Seq(S)
    BY ONLY <2>6, <2>8
  <2> QED
    BY <2>2, <2>3, <2>4, <2>5, <2>9
<1>6. ASSUME NEW h \in main, NEW i \in DOMAIN children[h]
      PROVE  LET c == children[h][i] IN
             /\ c # Genesis /\ (h = tip => c \notin main)
             /\ c \in main => block[c].weight = block[h].weight + 1 + Len(block[c].uncles)
  <2>1. PICK c : c = children[h][i]
    OBVIOUS
  <2>2. c # Genesis /\ Stored(c) /\ block[c].parent = h
    BY <1>1, <1>2, <2>1 DEF FaultInv, ChildrenInv
  <2>3. ASSUME c \in main
        PROVE  h # tip /\ block[c].weight = block[h].weight + 1 + Len(block[c].uncles)
    <3>1. c \in Hash \ {Genesis}
      BY <1>2, <2>2, <2>3
    <3>2. Depth(c) = Depth(h) + 1 /\ Depth(h) \in Nat
      BY <1>1, <1>2, <2>2, <3>1, DepthFact
    <3>3. Depth(c) <= Depth(tip)
      BY <1>1, <2>3 DEF Canon
    <3>4. Depth(h) # Depth(tip)
      BY SMT, <3>2, <3>3
    <3> QED
      BY <2>2, <3>1, <3>4 DEF WeightInv
  <2> QED
    BY <2>1, <2>2, <2>3
<1>7. ASSUME NEW h \in main \ {tip}
      PROVE  \E i \in DOMAIN children[h] : children[h][i] \in main
  <2>1. PICK g \in main \ {Genesis} : block[g].parent = h
    BY <1>1 DEF Canon
  <2>2. Listed(g)
    BY <1>1, <1>2
  <2>3. \E i \in DOMAIN children[h] : children[h][i] = g
    BY <2>1, <2>2 DEF Listed
  <2> QED
    BY <2>1, <2>3
<1> QED
  BY <1>2, <1>3, <1>4, <1>5, <1>6, <1>7 DEF LeadsTo

\* The engine: Descendents of the genesis block, what a node that syncs asks
\* for, end with the tip while the lock is free, and name stored blocks only.
THEOREM DescendentsEndAtTip == Spec => []DescendentsReachTip
<1>1. Init => QuietInv /\ WeightInv
  <2>1. Init => WeightInv
    BY ZenonT(60) DEF Init, WeightInv, Stored
  <2> QED
    BY <2>1, QuietInvInit
<1>2. QuietInv /\ WeightInv /\ [Next]_vars => QuietInv' /\ WeightInv'
  BY QuietInvStep, WeightInvStep
<1>3. QuietInv /\ WeightInv => DescendentsReachTip
  <2> SUFFICES ASSUME QuietInv, WeightInv, pc = "idle", tip # Genesis, block[tip].weight <= MaxBlocks,
                      NEW d, d = Descendents(node, block, main, children, Genesis, MaxBlocks)
               PROVE  d # <<>> /\ d[Len(d)] = tip /\ \A i \in DOMAIN d : block[d[i]] # NoBlock
    BY DEF DescendentsReachTip
  <2>1. PICK S : S = {h \in Hash : Stored(h)}
    OBVIOUS
  <2>2. LeadsTo(node, block, main, children, tip, S)
    BY <2>1, MainLeads
  <2>3. d \in Seq(S) /\ d # <<>> /\ d[Len(d)] = tip
    BY SMTT(30), <2>2, DescentReaches
  <2>4. \A i \in DOMAIN d : d[i] \in S
    BY SMT, <2>3
  <2> QED
    BY <2>1, <2>3, <2>4 DEF Stored
<1> QED
  BY <1>1, <1>2, <1>3, PTL DEF Spec

-----------------------------------------------------------------------------
(* The transaction table *)

\* An engine that had no fault took no step that only faults lead to: its
\* database opens, and the parent of a stored block has a chain node.
LEMMA QuietFaultStep ==
  ASSUME crashes = 0 => QuietInv, FaultInv, [FaultNext]_vars, crashes' = 0
  PROVE  crashes = 0 /\ QuietInv /\ [Next]_vars
<1>1. crashes \in Nat
  BY DEF FaultInv, TypeOK
<1>2. ~Crash /\ ~RebaseFails /\ ~OpenRebaseFails
  BY SMT, <1>1 DEF Crash, RebaseFails, OpenRebaseFails
<1>3. CASE OpenFails \/ LinkFails
  <2>1. crashes = 0
    BY <1>3 DEF OpenFails, LinkFails
  <2>2. ~OpenFails
    BY <2>1 DEF OpenFails, QuietInv, EngineInv, MainInv
  <2>3. CASE LinkFails
    <3>1. pc = "parent" /\ parentNode \notin node
      BY <2>3 DEF LinkFails
    <3>2. /\ child \in Hash \ {Genesis} /\ Stored(child) /\ parentNode = block[child].parent
      BY <2>1, <3>1 DEF QuietInv, EngineInv, FaultInv, AddInv, TypeOK, Adding
    <3>3. /\ parentNode \in Hash /\ Stored(parentNode)
          /\ Depth(child) = Depth(parentNode) + 1 /\ Depth(parentNode) \in Nat
      BY <3>2, DepthFact
    <3>4. parentNode # child
      BY SMTT(30), <3>3
    <3> QED
      BY <2>1, <3>1, <3>3, <3>4 DEF QuietInv, StoredInv
  <2> QED
    BY <1>3, <2>2, <2>3
<1>4. CASE Next \/ UNCHANGED vars
  <2>1. crashes' = crashes
    <3>1. CASE Open
      BY <3>1 DEF Open, SaveGenesisTip, SaveGenesisBlock, SaveGenesisNode, OpenAtTip
    <3>2. CASE AcceptNetworkBlock
      BY SMT, <3>2 DEF AcceptNetworkBlock, BeginAdd
    <3>3. CASE Produce
      BY <3>3 DEF Produce, NewCandidateBlock, MineCandidateBlock, BeginAdd, MineFails, AddTransaction
    <3>4. CASE Walk
      BY <3>4 DEF Walk, LinkParent, SaveTip, RebaseState, WalkUp, SaveChild, WalkDown,
                  EndWalk, SideBranch, Callback
    <3>5. CASE UNCHANGED vars
      BY <3>5 DEF vars
    <3> QED
      BY <1>4, <3>1, <3>2, <3>3, <3>4, <3>5 DEF Next
  <2> QED
    BY <1>4, <2>1
<1> QED
  BY <1>2, <1>3, <1>4 DEF FaultNext, CrashNext

\* The engine finds the transactions of h in h.
Indexed(h) == \A t \in block[h].txs : txBlock[t] = h

\* No ancestor of h in the tree has a transaction of h.
HonestIn(nodes, blocks, h) ==
  \A k \in 0..blocks[h].depth :
    LET g == Up(nodes, blocks, blocks[h].parent, k)
    IN  g # NoHash => blocks[g].txs \cap blocks[h].txs = {}

\* HonestTxs, for the block being added too.
Honest == HonestTxs /\ (pc \in Linked => HonestIn(node, block, child))

\* h is the block being added or an ancestor of it.
OnLine(h) ==
  h = child \/ (\E k \in Nat : h \in node /\ Up(node, block, block[child].parent, k) = h)

\* The table of transactions during an add: what the walk up has passed is
\* registered, and the blocks that stay on the main list were not disturbed.
TxInv ==
  /\ Visible \/ pc \in {"parent", "tip", "rebase", "side"} => \A h \in main : Indexed(h)
  /\ pc \in {"up", "down"} =>
       /\ OnLine(parentNode)
       /\ \A h \in main \cup {child} : OnLine(h) => Indexed(h)

\* Two blocks of one line have no transaction in common.
LEMMA LineFact ==
  ASSUME FaultInv, Honest, pc \in Linked, NEW g, NEW h, OnLine(g), OnLine(h), g # h
  PROVE  block[g].txs \cap block[h].txs = {}
<1>0. /\ IsTree(node, block) /\ NoHash \notin node
      /\ child \in Hash /\ child # Genesis /\ Stored(child) /\ block[child].parent \in node
  BY TreeFact, TreeAssumption DEF FaultInv, TypeOK, AddInv, Linked, Adding
<1>1. /\ block[child].depth \in Nat
      /\ block[child].depth = block[block[child].parent].depth + 1
  BY <1>0, DepthFact DEF Depth
<1>2. ASSUME NEW k \in Nat, NEW a \in node, Up(node, block, block[child].parent, k) = a
      PROVE  /\ k \in 0..block[child].depth
             /\ block[a].depth = block[block[child].parent].depth - k
             /\ block[a].txs \cap block[child].txs = {}
  <2>1. /\ k <= block[block[child].parent].depth
        /\ block[a].depth = block[block[child].parent].depth - k
    BY SMTT(60), <1>0, <1>1, <1>2, UpDepth DEF IsTree
  <2>2. k \in 0..block[child].depth
    BY SMTT(30), <1>0, <1>1, <2>1 DEF IsTree
  <2> QED
    BY ZenonT(60), <1>0, <1>2, <2>1, <2>2 DEF Honest, HonestIn
<1>3. CASE g = child
  BY <1>2, <1>3 DEF OnLine
<1>4. CASE h = child
  BY <1>2, <1>4 DEF OnLine
<1>5. ASSUME NEW a \in node, NEW b \in node, NEW i \in Nat, NEW j \in Nat, i < j,
             Up(node, block, block[child].parent, i) = a,
             Up(node, block, block[child].parent, j) = b
      PROVE  block[a].txs \cap block[b].txs = {}
  <2> DEFINE k == j - i - 1
  <2>1. k \in Nat /\ i + (1 + k) = j /\ j - i \in Nat /\ 1 + k \in Nat
    BY SMTT(30), <1>5
  <2>2. Up(node, block, a, 1 + k) = b
    BY SMTT(60), <1>0, <1>5, <2>1, UpCompose
  <2>3. a # Genesis
    <3>1. block[a].depth = block[block[child].parent].depth - i
      BY <1>2, <1>5
    <3>2. block[b].depth = block[block[child].parent].depth - j
      BY <1>2, <1>5
    <3>3. block[block[child].parent].depth \in Nat /\ block[b].depth \in Nat
      BY <1>0 DEF IsTree
    <3> QED
      BY SMTT(30), <1>0, <1>5, <3>1, <3>2, <3>3 DEF IsTree
  <2>4. block[a].parent \in node
    BY <1>0, <2>3 DEF IsTree
  <2>5. Up(node, block, a, 1) = block[a].parent
    <3>1. Up(node, block, a, 0) = a
      BY <1>0, UpStep
    <3>2. Up(node, block, a, 0 + 1) = block[a].parent
      BY <1>0, <2>4, <3>1, UpNext
    <3> QED
      BY SMT, <3>2
  <2>6. Up(node, block, block[a].parent, k) = b
    <3>1. Up(node, block, Up(node, block, a, 1), k) = Up(node, block, a, 1 + k)
      BY SMTT(30), <1>0, <2>1, UpCompose
    <3> QED
      BY <2>2, <2>5, <3>1
  <2>7. k \in 0..block[a].depth
    <3>1. k <= block[block[a].parent].depth
      BY SMTT(30), <1>0, <2>1, <2>4, <2>6, UpDepth DEF IsTree
    <3>2. block[a].depth = block[block[a].parent].depth + 1 /\ block[block[a].parent].depth \in Nat
      BY <1>0, <2>3, <2>4 DEF IsTree
    <3> QED
      BY SMTT(60), <2>1, <3>1, <3>2
  <2> HIDE DEF k
  <2> QED
    BY <1>0, <1>5, <2>3, <2>6, <2>7 DEF Honest, HonestTxs
<1>6. CASE g # child /\ h # child
  <2>1. PICK i \in Nat : g \in node /\ Up(node, block, block[child].parent, i) = g
    BY <1>6 DEF OnLine
  <2>2. PICK j \in Nat : h \in node /\ Up(node, block, block[child].parent, j) = h
    BY <1>6 DEF OnLine
  <2>3. i < j \/ j < i
    BY SMTT(30), <2>1, <2>2
  <2> QED
    BY <1>5, <2>1, <2>2, <2>3
<1> QED
  BY <1>3, <1>4, <1>6

\* The blocks of the line that Canon describes are the ancestors of its end.
LEMMA CanonLine ==
  ASSUME FaultInv, NEW M, NEW t \in Hash, Canon(M, t), NEW h \in M \ {t}
  PROVE  \E k \in Nat : Up(node, block, block[t].parent, k) = h
<1>0. /\ IsTree(node, block) /\ NoHash \notin node /\ t \in M /\ M \subseteq node
  BY TreeFact, TreeAssumption DEF FaultInv, TypeOK, Canon
<1>1. /\ block[t].depth \in Nat /\ block[h].depth \in Nat
      /\ block[h].depth < block[t].depth /\ t # Genesis
  <2>1. block[t].depth \in Nat /\ block[h].depth \in Nat /\ block[h].depth <= block[t].depth
    BY <1>0 DEF IsTree, Canon, Depth
  <2>2. block[h].depth # block[t].depth
    BY <1>0 DEF Canon, Depth
  <2>3. block[h].depth < block[t].depth
    BY SMTT(30), <2>1, <2>2
  <2> QED
    BY SMTT(30), <1>0, <2>1, <2>3 DEF IsTree
<1>2. /\ block[t].parent \in M /\ block[t].depth = block[block[t].parent].depth + 1
  BY <1>0, <1>1 DEF IsTree, Canon
<1> DEFINE p == block[t].parent
           Claim(i) == i <= block[p].depth => Up(node, block, p, i) \in M
           Bad == {i \in Nat : ~Claim(i)}
<1>3. p \in node /\ block[p].depth \in Nat
  BY <1>0, <1>2 DEF IsTree
<1>4. Claim(0)
  BY SMTT(30), <1>0, <1>2, <1>3, UpStep
<1>5. ASSUME NEW i \in Nat, Claim(i) PROVE Claim(i + 1)
  <2> SUFFICES ASSUME i + 1 <= block[p].depth PROVE Up(node, block, p, i + 1) \in M
    OBVIOUS
  <2> DEFINE g == Up(node, block, p, i)
  <2> HIDE DEF p
  <2>1. g \in M /\ block[g].depth = block[p].depth - i
    BY SMTT(30), <1>3, <1>5, UpDepth, <1>0
  <2>2. Up(node, block, p, i + 1) =
          IF g \in node /\ block[g].parent \in node THEN block[g].parent ELSE NoHash
    BY <1>0, UpNext
  <2>3. g # Genesis
    BY SMTT(30), <1>0, <1>3, <2>1 DEF IsTree
  <2>4. block[g].parent \in M
    BY <2>1, <2>3 DEF Canon
  <2> QED
    BY <1>0, <2>1, <2>2, <2>4
<1> HIDE DEF Claim, p
<1>6. Bad = {}
  <2> SUFFICES ASSUME Bad # {} PROVE FALSE
    OBVIOUS
  <2>1. PICK i \in Bad : \A j \in Bad : i <= j
    BY LeastNumberPrinciple
  <2>2. i # 0
    BY <1>4
  <2>3. i - 1 \in Nat /\ (i - 1) + 1 = i /\ Claim(i - 1)
    BY SMT, <2>1, <2>2
  <2>4. Claim((i - 1) + 1)
    BY ZenonT(60), <1>5, <2>3
  <2> QED
    BY <2>1, <2>3, <2>4
<1> DEFINE k == block[p].depth - block[h].depth
<1>7. k \in Nat /\ k <= block[p].depth
  BY SMTT(60), <1>1, <1>2, <1>3 DEF p
<1>8. Up(node, block, p, k) \in M /\ block[Up(node, block, p, k)].depth = block[p].depth - k
  BY SMTT(60), <1>0, <1>3, <1>6, <1>7, UpDepth DEF Claim
<1>9. Up(node, block, p, k) = h
  BY SMTT(30), <1>1, <1>3, <1>8 DEF Canon, Depth
<1> QED
  BY <1>7, <1>9 DEF p

\* Blocks that were honest in the larger tree were so in the smaller one.
LEMMA HonestBefore ==
  ASSUME NEW nodes, NEW blocks, IsTree(nodes, blocks),
         NEW nodes2, NEW blocks2, NoHash \notin nodes2,
         nodes \subseteq nodes2, \A g \in nodes : blocks2[g] = blocks[g],
         NEW h, blocks2[h] = blocks[h], blocks[h].parent \in nodes, blocks[h].depth \in Nat,
         HonestIn(nodes2, blocks2, h)
  PROVE  HonestIn(nodes, blocks, h)
<1> SUFFICES ASSUME NEW k \in 0..blocks[h].depth, Up(nodes, blocks, blocks[h].parent, k) # NoHash
             PROVE  blocks[Up(nodes, blocks, blocks[h].parent, k)].txs \cap blocks[h].txs = {}
  BY DEF HonestIn
<1>1. k \in Nat /\ NoHash \notin nodes
  BY SMTT(30)
<1>2. Up(nodes2, blocks2, blocks[h].parent, k) = Up(nodes, blocks, blocks[h].parent, k)
  BY SMT, <1>1, UpGrows
<1>3. Up(nodes, blocks, blocks[h].parent, k) \in nodes
  BY <1>1, UpType
<1> QED
  BY <1>2, <1>3 DEF HonestIn

\* A step that adds to the tree, and forgets the block of an add only when that
\* block has its chain node, makes no dishonest tree honest.
LEMMA HonestStep ==
  ASSUME FaultInv, FaultInv', Honest',
         node \subseteq node', \A g \in node : block'[g] = block[g],
         pc \in Linked => /\ block'[child] = block[child]
                          /\ (pc' \in Linked /\ child' = child) \/ child \in node'
  PROVE  Honest
<1>0. IsTree(node, block) /\ NoHash \notin node'
  BY TreeFact, TreeAssumption DEF FaultInv, TypeOK
<1>1. HonestTxs' /\ (pc' \in Linked => HonestIn(node', block', child'))
  BY DEF Honest
<1>2. \A h \in node' \ {Genesis} : HonestIn(node', block', h)
  BY <1>1 DEF HonestTxs, HonestIn
<1>3. ASSUME NEW h \in node \ {Genesis} PROVE HonestIn(node, block, h)
  <2>1. block'[h] = block[h] /\ block[h].parent \in node /\ block[h].depth \in Nat
    BY <1>0 DEF IsTree
  <2> QED
    BY <1>0, <1>2, <2>1, HonestBefore
<1>4. ASSUME pc \in Linked PROVE HonestIn(node, block, child)
  <2>1. /\ child \in Hash /\ child # Genesis /\ Stored(child) /\ block[child].parent \in node
        /\ block[child].depth \in Nat /\ block'[child] = block[child]
    BY ZenonT(60), <1>4, DepthFact DEF FaultInv, AddInv, TypeOK, Linked, Adding, Depth
  <2>2. HonestIn(node', block', child)
    BY <1>1, <1>2, <1>4, <2>1
  <2> QED
    BY <1>0, <2>1, <2>2, HonestBefore
<1> QED
  BY <1>3, <1>4 DEF Honest, HonestTxs, HonestIn

\* registerTransactions
LEMMA RegisteredFact ==
  ASSUME FaultInv, NEW g \in Hash, Stored(g), txBlock' = Registered(g), block' = block
  PROVE  /\ Indexed(g)'
         /\ \A h \in Hash : Stored(h) /\ Indexed(h) /\ block[g].txs \cap block[h].txs = {} => Indexed(h)'
<1>1. \A h \in Hash : Stored(h) => block[h].txs \subseteq Tx
  BY StoredType DEF FaultInv
<1>2. \A t \in Tx : txBlock'[t] = IF t \in block[g].txs THEN g ELSE txBlock[t]
  BY DEF Registered
<1> QED
  BY <1>1, <1>2 DEF Indexed

\* RebaseState: the transactions of the new block.
LEMMA TxRebase == QuietInv /\ Honest /\ TxInv /\ RebaseState => TxInv'
<1> SUFFICES ASSUME QuietInv, Honest, TxInv, RebaseState PROVE TxInv'
  OBVIOUS
<1>1. /\ pc = "rebase" /\ pc' = "up" /\ txBlock' = Registered(child)
      /\ UNCHANGED <<block, node, main, child, parentNode>>
  BY DEF RebaseState, add
<1>2. /\ FaultInv /\ child \in Hash /\ Stored(child) /\ pc \in Linked
      /\ parentNode = block[child].parent /\ parentNode \in node /\ NoHash \notin node
      /\ main \subseteq node /\ \A h \in node : h \in Hash /\ Stored(h)
  BY <1>1, DepthFact, TreeAssumption
  DEF QuietInv, EngineInv, MainInv, FaultInv, AddInv, TypeOK, Linked, Adding
<1>3. ASSUME NEW h PROVE OnLine(h)' <=> OnLine(h)
  BY <1>1 DEF OnLine
<1>4. OnLine(parentNode)'
  <2>1. Up(node, block, parentNode, 0) = parentNode
    BY <1>2, UpStep
  <2> QED
    BY <1>1, <1>2, <2>1 DEF OnLine
<1>5. ASSUME NEW h \in main \cup {child}, OnLine(h) PROVE Indexed(h)'
  <2>1. CASE h = child
    <3>1. Indexed(child)'
      BY <1>1, <1>2, RegisteredFact DEF Indexed
    <3> QED
      BY <1>1, <2>1, <3>1 DEF Indexed
  <2>2. CASE h # child
    <3>1. h \in main /\ Indexed(h) /\ h \in Hash /\ Stored(h)
      BY <1>1, <1>2, <2>2 DEF TxInv
    <3>2. block[child].txs \cap block[h].txs = {}
      BY <1>2, <1>5, <2>2, LineFact DEF OnLine
    <3> QED
      BY <1>1, <1>2, <3>1, <3>2, RegisteredFact
  <2> QED
    BY <2>1, <2>2
<1> QED
  BY <1>1, <1>3, <1>4, <1>5 DEF TxInv, Visible

\* WalkUp: the transactions of a block the walk passes.
LEMMA TxWalkUp == QuietInv /\ Honest /\ TxInv /\ WalkUp => TxInv'
<1> SUFFICES ASSUME QuietInv, Honest, TxInv, WalkUp PROVE TxInv'
  OBVIOUS
<1>1. /\ pc = "up" /\ pc' = "up" /\ parentNode \notin main /\ txBlock' = Registered(parentNode)
      /\ main' = main \cup {parentNode} /\ parentNode' = block[parentNode].parent
      /\ UNCHANGED <<block, node, child>>
  BY DEF WalkUp
<1>2. /\ FaultInv /\ child \in Hash /\ Stored(child) /\ pc \in Linked
      /\ parentNode \in node /\ NoHash \notin node /\ child \notin node
      /\ Genesis \in main
      /\ main \subseteq node /\ \A h \in node : h \in Hash /\ Stored(h)
  BY ZenonT(60), <1>1, DepthFact, TreeAssumption
  DEF QuietInv, EngineInv, MainInv, FaultInv, AddInv, NodeInv, TypeOK, Linked, Adding
<1>3. ASSUME NEW h PROVE OnLine(h)' <=> OnLine(h)
  BY <1>1 DEF OnLine
<1>4. OnLine(parentNode) /\ parentNode # child /\ parentNode # Genesis
  BY <1>1, <1>2 DEF TxInv
<1>5. OnLine(parentNode)'
  <2>1. PICK k \in Nat : Up(node, block, block[child].parent, k) = parentNode
    BY <1>4 DEF OnLine
  <2>2. block[parentNode].parent \in node
    BY <1>2, <1>4 DEF FaultInv, NodeInv
  <2>3. Up(node, block, block[child].parent, k + 1) = block[parentNode].parent
    BY <1>2, <2>1, <2>2, UpNext
  <2> QED
    BY SMTT(30), <1>1, <2>2, <2>3 DEF OnLine
<1>6. ASSUME NEW h \in main' \cup {child}, OnLine(h) PROVE Indexed(h)'
  <2>1. CASE h = parentNode
    <3>1. \A t \in block[parentNode].txs : txBlock'[t] = parentNode
      BY <1>1, <1>2, StoredType DEF Registered, FaultInv
    <3> QED
      BY <1>1, <2>1, <3>1 DEF Indexed
  <2>2. CASE h # parentNode
    <3>1. h \in main \cup {child} /\ Indexed(h) /\ h \in Hash /\ Stored(h)
      BY <1>1, <1>2, <1>6, <2>2 DEF TxInv
    <3>2. block[parentNode].txs \cap block[h].txs = {}
      BY <1>2, <1>4, <1>6, <2>2, LineFact
    <3> QED
      BY <1>1, <1>2, <3>1, <3>2, RegisteredFact
  <2> QED
    BY <2>1, <2>2
<1> QED
  BY <1>1, <1>3, <1>5, <1>6 DEF TxInv, Visible

\* SaveChild: the new block gets its chain node, and no line changes.
LEMMA TxSaveChild == QuietInv /\ FaultInv' /\ TxInv /\ SaveChild => TxInv'
<1> SUFFICES ASSUME QuietInv, FaultInv', TxInv, SaveChild PROVE TxInv'
  OBVIOUS
<1>1. /\ pc = "up" /\ pc' = "down" /\ node' = node \cup {child} /\ main' = main \cup {child}
      /\ UNCHANGED <<block, txBlock, child, parentNode>>
  BY DEF SaveChild
<1>2. /\ FaultInv /\ IsTree(node, block) /\ NoHash \notin node /\ NoHash \notin node'
      /\ block[child].parent \in node
  BY <1>1, TreeFact, TreeAssumption
  DEF QuietInv, EngineInv, FaultInv, AddInv, TypeOK, Linked
<1>3. ASSUME NEW k \in Nat
      PROVE  /\ Up(node', block, block[child].parent, k) = Up(node, block, block[child].parent, k)
             /\ Up(node, block, block[child].parent, k) \in node \cup {NoHash}
  BY SMTT(30), <1>1, <1>2, UpGrows, UpType
<1>4. ASSUME NEW h PROVE OnLine(h)' <=> OnLine(h)
  BY <1>1, <1>2, <1>3 DEF OnLine
<1>5. ASSUME NEW h PROVE Indexed(h)' <=> Indexed(h)
  BY <1>1 DEF Indexed
<1>6. OnLine(parentNode) /\ \A h \in main \cup {child} : OnLine(h) => Indexed(h)
  BY <1>1 DEF TxInv
<1>7. OnLine(parentNode)'
  <2>1. OnLine(parentNode)' <=> (parentNode = child \/ \E k \in Nat : parentNode \in node' /\ Up(node', block, block[child].parent, k) = parentNode)
    BY <1>1 DEF OnLine
  <2> QED
    BY <1>1, <1>3, <1>6, <2>1 DEF OnLine
<1> QED
  BY <1>1, <1>4, <1>5, <1>6, <1>7 DEF TxInv, Visible

\* WalkDown only takes blocks off the main list.
LEMMA TxWalkDown == TxInv /\ WalkDown => TxInv'
<1> SUFFICES ASSUME TxInv, WalkDown PROVE TxInv'
  OBVIOUS
<1>1. /\ pc = "down" /\ pc' = "down" /\ main' \subseteq main
      /\ UNCHANGED <<block, node, txBlock, child, parentNode>>
  BY DEF WalkDown
<1>2. ASSUME NEW h PROVE (OnLine(h)' <=> OnLine(h)) /\ (Indexed(h)' <=> Indexed(h))
  BY <1>1 DEF OnLine, Indexed
<1>3. OnLine(parentNode)' <=> OnLine(parentNode)
  BY <1>1 DEF OnLine
<1> QED
  BY <1>1, <1>2, <1>3 DEF TxInv, Visible

\* When the walk down ends, the main list is the line of the new block.
LEMMA TxEndWalk == QuietInv /\ QuietInv' /\ TxInv /\ EndWalk => TxInv'
<1> SUFFICES ASSUME QuietInv, QuietInv', TxInv, EndWalk PROVE TxInv'
  OBVIOUS
<1>1. /\ pc = "down" /\ pc' \in {"idle", "callback"}
      /\ UNCHANGED <<block, node, main, txBlock, tip>>
  BY DEF EndWalk, Release, Return, db, memory
<1>2. FaultInv /\ tip = child /\ child \in Hash
  BY <1>1 DEF QuietInv, EngineInv, FaultInv, TipInv, TypeOK
<1>3. Canon(main, tip)'
  BY <1>1 DEF QuietInv, EngineInv, MainInv, Visible
<1>4. Canon(main, child) /\ main \subseteq node
  BY SMTT(30), <1>1, <1>2, <1>3 DEF Canon, Depth
<1>5. ASSUME NEW h \in main PROVE Indexed(h)
  <2>1. h # child => \E k \in Nat : Up(node, block, block[child].parent, k) = h
    BY SMTT(30), <1>2, <1>4, CanonLine
  <2>2. OnLine(h)
    BY <1>4, <2>1 DEF OnLine
  <2> QED
    BY <1>1, <2>2 DEF TxInv
<1> QED
  BY <1>1, <1>5 DEF TxInv, Indexed, Visible

\* A step that writes no transaction outside an add, or only begins or ends one.
LEMMA TxKept ==
  ASSUME QuietInv, TxInv,
         Visible \/ pc \in {"parent", "tip", "rebase", "side"},
         Visible' \/ pc' \in {"parent", "tip", "rebase", "side"},
         main' = main, txBlock' = txBlock, \A g \in node : block'[g] = block[g]
  PROVE  TxInv'
<1>1. main \subseteq node /\ \A h \in main : Indexed(h)
  BY DEF TxInv, QuietInv, EngineInv, FaultInv, NodeInv
<1>2. \A h \in main : Indexed(h)'
  BY <1>1 DEF Indexed
<1> QED
  BY <1>2 DEF TxInv, Visible

\* The table of transactions, for an engine without faults and honest blocks.
LEMMA TxInvStep ==
  ASSUME QuietInv, QuietInv', [Next]_vars, Honest => TxInv, Honest'
  PROVE  TxInv'
<1>0. FaultInv /\ FaultInv'
  BY DEF QuietInv, EngineInv
<1>1. CASE SaveGenesisTip \/ SaveGenesisBlock
  BY <1>1 DEF SaveGenesisTip, SaveGenesisBlock, TxInv, Visible
<1>2. CASE SaveGenesisNode
  <2>1. pc = "genesisNode" /\ main' = {Genesis} /\ block' = block /\ pc' = "idle"
    BY <1>2 DEF SaveGenesisNode, QuietInv, EngineInv, MainInv, Opening
  <2>2. block[Genesis] = GenesisBlock
    BY <2>1 DEF QuietInv, EngineInv, FaultInv, AddInv, BlockInv, Stored
  <2>3. \A h \in main' : Indexed(h)'
    BY SMTT(30), <2>1, <2>2 DEF Indexed, GenesisBlock
  <2> QED
    BY <2>1, <2>3 DEF TxInv, Visible
<1>3. CASE OpenAtTip
  BY <1>3 DEF OpenAtTip, QuietInv, EngineInv, MainInv
<1>4. CASE AcceptNetworkBlock \/ MineCandidateBlock
  <2>0. PICK h \in Hash : \E b : BeginAdd(h, b)
    BY ZenonT(60), <1>4 DEF AcceptNetworkBlock, MineCandidateBlock
  <2>1. PICK b : BeginAdd(h, b)
    BY <2>0
  <2>2. node' = node /\ \A g \in node : block'[g] = block[g]
    BY <2>1, ListedBeginAdd
  <2>3. pc = "idle" /\ pc' = "parent" /\ main' = main /\ txBlock' = txBlock
    BY <2>1 DEF BeginAdd
  <2>4. Honest
    BY <1>0, <2>2, <2>3, HonestStep DEF Linked
  <2> QED
    BY <2>2, <2>3, <2>4, TxKept DEF Visible
<1>5. CASE NewCandidateBlock \/ MineFails \/ (\E t \in Tx : AddTransaction(t)) \/ UNCHANGED vars
  <2>1. UNCHANGED <<block, node, main, txBlock, pc, child, parentNode>>
    BY <1>5 DEF NewCandidateBlock, MineFails, AddTransaction, vars, db, add
  <2>2. Honest
    BY <1>0, <2>1, HonestStep
  <2>3. TxInv
    BY <2>2
  <2> QED
    BY <2>1, <2>3 DEF TxInv, Visible, Indexed, OnLine
<1>6. CASE LinkParent \/ SaveTip
  <2>1. /\ pc \in {"parent", "tip"} /\ pc' \in {"tip", "side", "rebase"}
        /\ UNCHANGED <<block, node, main, txBlock, child>>
    BY <1>6 DEF LinkParent, SaveTip, add
  <2>2. Honest
    BY <1>0, <2>1, HonestStep DEF Linked
  <2> QED
    BY <2>1, <2>2, TxKept
<1>7. CASE RebaseState \/ WalkUp \/ SaveChild \/ WalkDown
  <2>1. pc' \in Linked /\ block' = block /\ child' = child /\ node \subseteq node'
    BY <1>7 DEF RebaseState, WalkUp, SaveChild, WalkDown, add, Linked
  <2>2. Honest
    BY <1>0, <2>1, HonestStep
  <2> QED
    BY <1>0, <1>7, <2>2, TxRebase, TxWalkUp, TxSaveChild, TxWalkDown
<1>8. CASE EndWalk \/ Callback
  <2>1. /\ pc \in {"down", "callback"} /\ pc' \in {"idle", "callback"}
        /\ UNCHANGED <<block, node, main, txBlock>>
    BY <1>8 DEF EndWalk, Callback, Release, Return, db
  <2>2. child \in node'
    BY <2>1 DEF QuietInv, StoredInv
  <2>3. Honest
    BY <1>0, <2>1, <2>2, HonestStep
  <2>4. CASE EndWalk
    BY <2>3, <2>4, TxEndWalk
  <2>5. CASE Callback
    <3>1. Visible /\ Visible'
      BY <2>5 DEF Callback, Return, Visible
    <3> QED
      BY <2>1, <2>3, <3>1, TxKept
  <2> QED
    BY <1>8, <2>4, <2>5
<1>9. CASE SideBranch
  <2>1. /\ pc = "side" /\ pc' \in {"idle", "callback"} /\ node' = node \cup {child}
        /\ UNCHANGED <<block, main, txBlock>>
    BY <1>9 DEF SideBranch, Release, Return
  <2>2. Honest
    BY <1>0, <2>1, HonestStep
  <2> QED
    BY <2>1, <2>2, TxKept DEF Visible
<1> QED
  BY <1>1, <1>2, <1>3, <1>4, <1>5, <1>6, <1>7, <1>8, <1>9 DEF Next, Open, Produce, Walk

\* The invariant of an engine that may have faults: as long as it had none, it is
\* the engine without faults.
FaultFree == crashes = 0 => QuietInv /\ (Honest => TxInv)

\* transactionStatus finds every transaction of the main list in its block, for
\* blocks that put no transaction twice on a line, also after the main list moved
\* to another branch.
THEOREM TxIndexedHolds == FaultSpec => []TxIndexed
<1>1. Init => FaultFree
  <2> SUFFICES ASSUME Init PROVE QuietInv /\ TxInv
    BY DEF FaultFree
  <2> QED
    BY QuietInvInit DEF Init, TxInv, Visible
<1>2. FaultInv /\ FaultFree /\ [FaultNext]_vars => FaultFree'
  <2> SUFFICES ASSUME FaultInv, FaultFree, [FaultNext]_vars, crashes' = 0
               PROVE  QuietInv' /\ (Honest' => TxInv')
    BY DEF FaultFree
  <2>1. crashes = 0 /\ QuietInv /\ [Next]_vars
    BY QuietFaultStep DEF FaultFree
  <2>2. QuietInv'
    BY <2>1, QuietInvStep
  <2> QED
    BY <2>1, <2>2, TxInvStep DEF FaultFree
<1>3. FaultFree => TxIndexed
  <2> SUFFICES ASSUME QuietInv, Honest => TxInv, Visible, HonestTxs
               PROVE  \A h \in main : \A t \in block[h].txs : txBlock[t] = h
    BY DEF FaultFree, TxIndexed
  <2>1. pc \in Linked => child \in node \ {Genesis}
    BY DEF QuietInv, StoredInv, EngineInv, FaultInv, AddInv, Visible, Linked, Adding
  <2>2. Honest
    BY <2>1 DEF Honest, HonestTxs, HonestIn
  <2> QED
    BY <2>2 DEF TxInv, Indexed
<1> QED
  BY <1>1, <1>2, <1>3, FaultInvHolds, PTL DEF FaultSpec
=============================================================================
