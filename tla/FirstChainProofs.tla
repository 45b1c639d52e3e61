-------------------------- MODULE FirstChainProofs --------------------------
(***************************************************************************)
(* Proofs about the first generation chain, for any tree of blocks and any *)
(* number of restarts and flushes: when it opens again, when it panics,    *)
(* what its tip is worth, what its main list holds, which uncles it finds, *)
(* and that Blocks lead to the tip.                                        *)
(***************************************************************************)
EXTENDS FirstChain, BlockTreeProofs

\* Most leaves are for Zenon; a leaf that needs another prover names it.
USE Zenon

Stored(h) == block[h] # NoBlock

\* The types the proofs rest on.
TableType ==
  /\ block \in [Hash -> BlockSpec \cup {NoBlock}]
  /\ node \in SUBSET Hash /\ main \in SUBSET Hash /\ fresh \in SUBSET Hash
  /\ children \in [Hash -> Seq(Hash)]
  /\ dagTip \in Hash \cup {NoHash}
  /\ tip \in Hash /\ weight \in Nat /\ flushes \in Nat
LocalType ==
  /\ pc \in Opening \cup Adding \cup Flushing \cup {"idle", "failed", "panic"}
  /\ child \in Hash /\ mainListParent \in Hash
  /\ {parentNode, oldChild} \subseteq Hash \cup {NoHash}

\* A node is saved after its block and deleted before it.
StoreInv ==
  /\ \A h \in node : Stored(h)
  /\ pc \in Adding => Stored(child)
  /\ pc \in {"parent", "tip"} => parentNode \in node
  /\ pc = "genesisNode" => Stored(Genesis)
  /\ pc = "flushBlock" => oldChild \in Hash \ node

\* The genesis block is nobody's child.
NoGenesis(list) == \A h \in Hash : \A i \in DOMAIN list[h] : list[h][i] # Genesis

\* Unless a call was interrupted, the saved tip has a node whenever the lock is
\* free, and the genesis block is never deleted.
SavedInv ==
  ~torn =>
    /\ NoGenesis(children)
    /\ pc \in {"genesisBlock", "genesisNode"} => dagTip = Genesis
    /\ pc = "open" => dagTip = NoHash \/ (dagTip \in node /\ Genesis \in node)
    /\ pc \notin Opening => Genesis \in node
    /\ pc \in {"idle", "parent", "tip", "side", "down"} => dagTip \in node
    /\ pc = "up" => dagTip = child
    /\ pc \in Adding => child # Genesis
    /\ pc \in Flushing => dagTip = Genesis
    /\ pc \in Flushing \cup {"down"} => oldChild # Genesis
    /\ pc # "failed"

\* Before the first flush nodes are closed under parents and the genesis block is
\* on the main list, so that a walk up ends there at the latest.
WalkInv ==
  /\ pc \in Adding /\ ~mixed => flushes = 0
  /\ pc \in Flushing => flushes > 0
  /\ ~torn /\ flushes = 0 =>
       /\ \A h \in node \ {Genesis} : block[h].parent \in node
       /\ pc \notin Opening \/ (pc = "open" /\ dagTip # NoHash) => Genesis \in main
       /\ pc \in {"parent", "tip", "up", "side"} => block[child].parent \in node
       /\ pc \in {"parent", "tip", "up"} => parentNode \in node
  /\ pc = "panic" => torn \/ mixed

\* Before the first flush no block that was added since the chain was opened is
\* heavier than the weight in memory, which is at most that of the tip.
WeightInv ==
  flushes = 0 =>
    /\ pc \in Opening => fresh = {} /\ weight = 0 /\ tip = Genesis
    /\ pc \in {"idle", "parent", "tip", "side", "down"} => tip \in node
    /\ pc = "up" => tip = child
    /\ pc \in {"idle"} \cup Adding => weight <= block[tip].weight
    /\ \A h \in fresh : /\ Stored(h)
                        /\ block[h].weight <= weight \/ (h = child /\ pc \in {"parent", "tip"})
    /\ pc = "tip" => weight < block[child].weight

TypeInv == TableType /\ LocalType
FirstInv == TypeInv /\ StoreInv /\ SavedInv /\ WalkInv /\ WeightInv

-----------------------------------------------------------------------------

\* A chain that is opened on an empty database.
LEMMA FirstInvInit == Init => FirstInv
<1> SUFFICES ASSUME Init PROVE FirstInv
  OBVIOUS
<1> USE TreeAssumption DEF Init, Opening, Adding, Flushing
<1>1. TypeInv
  BY SMT DEF TypeInv, TableType, LocalType
<1>2. StoreInv /\ SavedInv /\ WalkInv /\ WeightInv
  BY SMT DEF StoreInv, SavedInv, NoGenesis, WalkInv, WeightInv
<1> QED
  BY <1>1, <1>2 DEF FirstInv

\* What NewGenesisBlock makes is a block.
LEMMA GenesisType == GenesisBlock \in BlockSpec /\ GenesisBlock # NoBlock
<1>1. GenesisBlock \in BlockSpec
  BY SMT DEF GenesisBlock, BlockSpec
<1> QED
  BY <1>1, NoBlockAssumption

\* findMainListChild returns a listed child that has a node, or nil.
LEMMA SearchFact ==
  ASSUME NEW list \in [Hash -> Seq(Hash)], NEW n \in SUBSET Hash, NEW m \in SUBSET Hash,
         NEW p \in Hash, NEW skip
  PROVE  /\ FindMainListChild(n, m, list, p, skip) \in n \cup {NoHash}
         /\ NoGenesis(list) => FindMainListChild(n, m, list, p, skip) # Genesis
<1> DEFINE hits == {i \in DOMAIN list[p] : list[p][i] \in n \cap m /\ list[p][i] # skip}
           first == CHOOSE i \in hits : \A j \in hits : i <= j
           c == FindMainListChild(n, m, list, p, skip)
<1>1. list[p] \in Seq(Hash) /\ hits \in SUBSET Nat
  BY SMT
<1>2. c = IF hits = {} THEN NoHash ELSE list[p][first]
  BY DEF FindMainListChild
<1>3. SUFFICES c \in n \cup {NoHash} /\ (NoGenesis(list) => c # Genesis)
  OBVIOUS
<1> HIDE DEF c
<1>4. CASE hits = {}
  BY <1>2, <1>4, TreeAssumption
<1>5. CASE hits # {}
  <2>1. first \in hits
    BY <1>1, <1>5, LeastNumberPrinciple
  <2> HIDE DEF first
  <2> QED
    BY <1>2, <1>5, <2>1 DEF NoGenesis
<1> QED
  BY <1>4, <1>5

\* A stored block has a weight.
LEMMA StoredType ==
  ASSUME TypeInv, NEW h \in Hash, Stored(h)
  PROVE  block[h] \in BlockSpec /\ block[h].weight \in Nat
BY DEF TypeInv, TableType, Stored, BlockSpec

\* A new block is saved under a hash that has no node, as a child of a node.
LEMMA BeginFact ==
  ASSUME TypeInv, AddBlockNode \/ AddNetworkNode
  PROVE  /\ pc = "idle" /\ pc' = "parent"
         /\ child' \in Hash \ node /\ mainListParent' = child' /\ oldChild' = NoHash
         /\ \E b \in BlockSpec : block' = [block EXCEPT ![child'] = b]
         /\ parentNode' = block'[child'].parent /\ parentNode' \in node
         /\ block'[child'] \in BlockSpec /\ block'[child'] # NoBlock
         /\ block'[child'].depth = block[parentNode'].depth + 1
         /\ fresh' = fresh \cup {child'} /\ (mixed' <=> flushes > 0)
         /\ UNCHANGED <<node, main, children, dagTip, memory, torn, restarts, flushes>>
<1>1. ASSUME NEW h \in Hash, NEW b, BeginAdd(h, b), pc = "idle",
             b.depth = block[b.parent].depth + 1
      PROVE  /\ pc = "idle" /\ pc' = "parent"
             /\ child' \in Hash \ node /\ mainListParent' = child' /\ oldChild' = NoHash
             /\ \E d \in BlockSpec : block' = [block EXCEPT ![child'] = d]
             /\ parentNode' = block'[child'].parent /\ parentNode' \in node
             /\ block'[child'] \in BlockSpec /\ block'[child'] # NoBlock
             /\ block'[child'].depth = block[parentNode'].depth + 1
             /\ fresh' = fresh \cup {child'} /\ (mixed' <=> flushes > 0)
             /\ UNCHANGED <<node, main, children, dagTip, memory, torn, restarts, flushes>>
  <2>1. /\ pc' = "parent" /\ child' = h /\ mainListParent' = h /\ oldChild' = NoHash
        /\ b \in BlockSpec /\ block' = [block EXCEPT ![h] = b] /\ h \notin node
        /\ parentNode' = b.parent /\ b.parent \in node
        /\ fresh' = fresh \cup {h} /\ mixed' = (flushes > 0)
        /\ UNCHANGED <<node, main, children, dagTip, memory, torn, restarts, flushes>>
    BY <1>1 DEF BeginAdd
  <2>2. block'[h] = b /\ b # NoBlock
    BY <2>1, NoBlockAssumption DEF TypeInv, TableType
  <2> QED
    BY <1>1, <2>1, <2>2
<1>0. ASSUME NEW p, NEW us, NEW extra
      PROVE  LET b == SimpleBlock(p, us, extra) IN b.depth = block[b.parent].depth + 1
  BY DEF SimpleBlock
<1>2. CASE AddBlockNode
  <2>1. Unmade # {} => NextHash \in Hash
    BY DEF Unmade, NextHash
  <2>2. PICK p \in node : BeginAdd(NextHash, SimpleBlock(p, Uncles(p), 0))
    BY <1>2 DEF AddBlockNode
  <2> QED
    BY <1>0, <1>1, <1>2, <2>1, <2>2 DEF AddBlockNode
<1>3. CASE AddNetworkNode
  <2>1. Unmade # {} => NextHash \in Hash
    BY DEF Unmade, NextHash
  <2>2. PICK h \in (Hash \ Unmade) \cup (IF Unmade = {} THEN {} ELSE {NextHash}) :
          \E b : BeginAdd(h, b) /\ b.depth = block[b.parent].depth + 1
    BY <1>0, <1>3 DEF AddNetworkNode
  <2> QED
    BY <1>1, <1>3, <2>1, <2>2 DEF AddNetworkNode
<1> QED
  BY <1>2, <1>3

\* NewBlockChainInMem keeps the invariant.
LEMMA OpenStep ==
  ASSUME FirstInv, Open
  PROVE  FirstInv'
<1> USE DEF Opening, Adding, Flushing, db, memory, call, history
<1>1. CASE SaveGenesisTip
  <2>1. TypeInv'
    BY TreeAssumption, <1>1 DEF FirstInv, SaveGenesisTip, TypeInv, TableType, LocalType
  <2>2. StoreInv'
    BY <1>1 DEF FirstInv, SaveGenesisTip, StoreInv, Stored
  <2>3. SavedInv'
    BY <1>1 DEF FirstInv, SaveGenesisTip, SavedInv
  <2>4. WalkInv'
    BY <1>1 DEF FirstInv, SaveGenesisTip, WalkInv
  <2>5. WeightInv'
    BY <1>1 DEF FirstInv, SaveGenesisTip, WeightInv
  <2> QED
    BY <2>1, <2>2, <2>3, <2>4, <2>5 DEF FirstInv
<1>2. CASE SaveGenesisBlock
  <2>1. GenesisBlock \in BlockSpec /\ GenesisBlock # NoBlock
    BY <1>2, GenesisType
  <2>2. TypeInv'
    BY TreeAssumption, <1>2, <2>1 DEF FirstInv, SaveGenesisBlock, TypeInv, TableType, LocalType
  <2>3. StoreInv'
    BY TreeAssumption, <1>2, <2>1
    DEF FirstInv, SaveGenesisBlock, TypeInv, TableType, StoreInv, Stored
  <2>4. SavedInv'
    BY <1>2, <2>1 DEF FirstInv, SaveGenesisBlock, SavedInv
  <2>5. WalkInv'
    BY SMT, <1>2, <2>1 DEF FirstInv, SaveGenesisBlock, WalkInv
  <2>6. WeightInv'
    BY <1>2, <2>1 DEF FirstInv, SaveGenesisBlock, WeightInv
  <2> QED
    BY <2>2, <2>3, <2>4, <2>5, <2>6 DEF FirstInv
<1>3. CASE SaveGenesisNode
  <2>1. TypeInv'
    BY TreeAssumption, <1>3 DEF FirstInv, SaveGenesisNode, TypeInv, TableType, LocalType
  <2>2. StoreInv'
    BY <1>3 DEF FirstInv, SaveGenesisNode, StoreInv, Stored
  <2>3. SavedInv'
    BY <1>3 DEF FirstInv, SaveGenesisNode, SavedInv
  <2>4. WalkInv'
    BY <1>3 DEF FirstInv, SaveGenesisNode, TypeInv, TableType, StoreInv, WalkInv
  <2>5. WeightInv'
    BY SMT, <1>3
    DEF FirstInv, SaveGenesisNode, TypeInv, TableType, StoreInv, WeightInv, Stored, BlockSpec
  <2> QED
    BY <2>1, <2>2, <2>3, <2>4, <2>5 DEF FirstInv
<1>4. CASE OpenAtTip
  <2>1. TypeInv'
    BY <1>4 DEF FirstInv, OpenAtTip, TypeInv, TableType, LocalType
  <2>2. StoreInv'
    BY <1>4 DEF FirstInv, OpenAtTip, StoreInv, Stored
  <2>3. SavedInv'
    BY <1>4 DEF FirstInv, OpenAtTip, SavedInv
  <2>4. WalkInv'
    BY <1>4 DEF FirstInv, OpenAtTip, TypeInv, TableType, WalkInv
  <2>5. WeightInv'
    BY SMT, <1>4 DEF FirstInv, OpenAtTip, TypeInv, TableType, WeightInv, BlockSpec
  <2> QED
    BY <2>1, <2>2, <2>3, <2>4, <2>5 DEF FirstInv
<1>5. CASE OpenFails
  <2>1. TypeInv'
    BY TreeAssumption, <1>5 DEF FirstInv, OpenFails, TypeInv, TableType, LocalType
  <2>2. StoreInv'
    BY TreeAssumption, <1>5 DEF FirstInv, OpenFails, StoreInv, Stored
  <2>3. SavedInv'
    BY <1>5 DEF FirstInv, OpenFails, StoreInv, SavedInv, Stored
  <2>4. WalkInv'
    BY <1>5 DEF FirstInv, OpenFails, WalkInv
  <2>5. WeightInv'
    BY <1>5 DEF FirstInv, OpenFails, WeightInv
  <2> QED
    BY <2>1, <2>2, <2>3, <2>4, <2>5 DEF FirstInv
<1> QED
  BY <1>1, <1>2, <1>3, <1>4, <1>5 DEF Open

\* AddBlockNode, AddNetworkNode and every write of addBlock keep the invariant.
LEMMA AddStep ==
  ASSUME FirstInv, Add
  PROVE  FirstInv'
<1> USE DEF Opening, Adding, Flushing, db, memory, call, history
<1>1. CASE AddBlockNode \/ AddNetworkNode
  <2>1. /\ pc = "idle" /\ pc' = "parent"
        /\ child' \in Hash \ node /\ mainListParent' = child' /\ oldChild' = NoHash
        /\ \E b \in BlockSpec : block' = [block EXCEPT ![child'] = b]
        /\ parentNode' = block'[child'].parent /\ parentNode' \in node
        /\ block'[child'] \in BlockSpec /\ block'[child'] # NoBlock
        /\ fresh' = fresh \cup {child'} /\ (mixed' <=> flushes > 0)
        /\ UNCHANGED <<node, main, children, dagTip, memory, torn, restarts, flushes>>
    BY <1>1, BeginFact DEF FirstInv
  <2>2. TypeInv'
    BY <2>1 DEF FirstInv, TypeInv, TableType, LocalType
  <2>3. StoreInv'
    BY SMT, <2>1 DEF FirstInv, StoreInv, Stored
  <2>4. SavedInv'
    BY <2>1 DEF FirstInv, TypeInv, TableType, SavedInv
  <2>5. WalkInv'
    BY SMT, <2>1 DEF FirstInv, TypeInv, TableType, WalkInv, Stored
  <2>6. WeightInv'
    BY SMT, <2>1 DEF FirstInv, WeightInv, Stored
  <2> QED
    BY <2>2, <2>3, <2>4, <2>5, <2>6 DEF FirstInv
<1>2. CASE LinkParent
  <2>1. parentNode \in Hash /\ child \in Hash /\ children[parentNode] \in Seq(Hash)
    BY <1>2 DEF FirstInv, LinkParent, StoreInv, TypeInv, TableType, LocalType
  <2>2. /\ Append(children[parentNode], child) \in Seq(Hash)
        /\ \A i \in DOMAIN Append(children[parentNode], child) :
             \/ Append(children[parentNode], child)[i] = child
             \/ /\ i \in DOMAIN children[parentNode]
                /\ Append(children[parentNode], child)[i] = children[parentNode][i]
    BY SMT, <1>2, <2>1
  <2>3. pc \in Adding /\ ~torn => NoGenesis(children')
    BY <1>2, <2>1, <2>2 DEF FirstInv, LinkParent, SavedInv, NoGenesis, TypeInv, TableType
  <2>4. TypeInv'
    BY <1>2, <2>2 DEF FirstInv, LinkParent, TypeInv, TableType, LocalType
  <2>5. StoreInv'
    BY <1>2, <2>2 DEF FirstInv, LinkParent, StoreInv, Stored
  <2>6. SavedInv'
    BY <1>2, <2>2, <2>3 DEF FirstInv, LinkParent, SavedInv
  <2>7. WalkInv'
    BY <1>2, <2>2 DEF FirstInv, LinkParent, TypeInv, TableType, WalkInv
  <2>8. WeightInv'
    BY SMT, NoBlockAssumption, <1>2, <2>2
    DEF FirstInv, LinkParent, TypeInv, TableType, WeightInv, Stored, BlockSpec
  <2> QED
    BY <2>4, <2>5, <2>6, <2>7, <2>8 DEF FirstInv
<1>3. CASE SaveTip
  <2>1. block[child] \in BlockSpec /\ block[child].weight \in Nat
    BY <1>3, StoredType DEF FirstInv, SaveTip, StoreInv, TypeInv, LocalType
  <2>2. \A h \in fresh : flushes = 0 => block[h].weight \in Nat
    BY <1>3, StoredType DEF FirstInv, TypeInv, TableType, WeightInv
  <2>3. flushes = 0 => /\ weight < block[child].weight
                     /\ \A h \in fresh : block[h].weight <= weight \/ h = child
    BY <1>3 DEF FirstInv, SaveTip, WeightInv
  <2>4. weight \in Nat
    BY <1>3 DEF FirstInv, TypeInv, TableType
  <2>5. \A h \in fresh : flushes = 0 => block[h].weight <= block[child].weight
    BY SMT, <2>1, <2>2, <2>3, <2>4
  <2>6. TypeInv'
    BY NoBlockAssumption, <1>3, <2>1 DEF FirstInv, SaveTip, TypeInv, TableType, LocalType
  <2>7. StoreInv'
    BY <1>3 DEF FirstInv, SaveTip, StoreInv, Stored
  <2>8. SavedInv'
    BY <1>3 DEF FirstInv, SaveTip, SavedInv
  <2>9. WalkInv'
    BY <1>3 DEF FirstInv, SaveTip, WalkInv, Stored
  <2>10. WeightInv'
    BY SMT, TreeAssumption, <1>3, <2>1, <2>5 DEF FirstInv, SaveTip, WeightInv, Stored
  <2> QED
    BY <2>6, <2>7, <2>8, <2>9, <2>10 DEF FirstInv
<1>4. CASE WalkUp
  <2>1. TypeInv'
    BY <1>4 DEF FirstInv, WalkUp, TypeInv, TableType, LocalType
  <2>2. StoreInv'
    BY <1>4 DEF FirstInv, WalkUp, LocalType, StoreInv, Stored
  <2>3. SavedInv'
    BY <1>4 DEF FirstInv, WalkUp, LocalType, SavedInv
  <2>4. WalkInv'
    BY <1>4
    DEF FirstInv, WalkUp, TypeInv, TableType, LocalType, StoreInv, SavedInv, WalkInv, Stored
  <2>5. WeightInv'
    BY <1>4 DEF FirstInv, WalkUp, TypeInv, TableType, StoreInv, WeightInv, Stored
  <2> QED
    BY <2>1, <2>2, <2>3, <2>4, <2>5 DEF FirstInv
<1>5. CASE SaveChild
  <2>1. oldChild' = FindMainListChild(node', main', children', parentNode, mainListParent)
    BY <1>5 DEF SaveChild
  <2>2. children' \in [Hash -> Seq(Hash)] /\ node' \in SUBSET Hash /\ main' \in SUBSET Hash /\ parentNode \in Hash
    BY SMT, <1>5 DEF FirstInv, SaveChild, TypeInv, TableType, LocalType
  <2>3. FindMainListChild(node', main', children', parentNode, mainListParent) \in node' \cup {NoHash}
    BY <2>2, SearchFact
  <2>4. NoGenesis(children') => FindMainListChild(node', main', children', parentNode, mainListParent) # Genesis
    BY <2>2, SearchFact
  <2>5. oldChild' \in node' \cup {NoHash} /\ (NoGenesis(children') => oldChild' # Genesis)
    BY <2>1, <2>3, <2>4
  <2>6. NoGenesis(children) => NoGenesis(children')
    BY SMT, <1>5 DEF FirstInv, SaveChild, NoGenesis, TypeInv, TableType, LocalType
  <2>7. TypeInv'
    BY <1>5, <2>2, <2>5 DEF FirstInv, SaveChild, TypeInv, TableType, LocalType
  <2>8. StoreInv'
    BY <1>5, <2>5 DEF FirstInv, SaveChild, StoreInv, Stored
  <2>9. SavedInv'
    BY <1>5, <2>5, <2>6 DEF FirstInv, SaveChild, SavedInv
  <2>10. WalkInv'
    BY <1>5, <2>5 DEF FirstInv, SaveChild, WalkInv
  <2>11. WeightInv'
    BY <1>5, <2>5 DEF FirstInv, SaveChild, WeightInv, Stored
  <2> QED
    BY <2>7, <2>8, <2>9, <2>10, <2>11 DEF FirstInv
<1>6. CASE WalkDown
  <2>1. oldChild' = FindMainListChild(node, main', children, oldChild, NoHash)
    BY <1>6 DEF WalkDown
  <2>2. children \in [Hash -> Seq(Hash)] /\ node \in SUBSET Hash /\ main' \in SUBSET Hash /\ oldChild \in Hash
    BY <1>6 DEF FirstInv, WalkDown, TypeInv, TableType, LocalType
  <2>3. FindMainListChild(node, main', children, oldChild, NoHash) \in node \cup {NoHash}
    BY <2>2, SearchFact
  <2>4. NoGenesis(children) => FindMainListChild(node, main', children, oldChild, NoHash) # Genesis
    BY SMT, <2>2, SearchFact
  <2>5. oldChild' \in node \cup {NoHash} /\ (NoGenesis(children) => oldChild' # Genesis)
    BY <2>1, <2>3, <2>4
  <2>6. TypeInv'
    BY <1>6, <2>2, <2>5 DEF FirstInv, WalkDown, TypeInv, TableType, LocalType
  <2>7. StoreInv'
    BY <1>6, <2>5 DEF FirstInv, WalkDown, StoreInv, Stored
  <2>8. SavedInv'
    BY <1>6, <2>5 DEF FirstInv, WalkDown, SavedInv
  <2>9. WalkInv'
    BY <1>6, <2>5 DEF FirstInv, WalkDown, SavedInv, WalkInv
  <2>10. WeightInv'
    BY <1>6, <2>5 DEF FirstInv, WalkDown, WeightInv, Stored
  <2> QED
    BY <2>6, <2>7, <2>8, <2>9, <2>10 DEF FirstInv
<1>7. CASE EndWalk
  <2>1. TypeInv'
    BY TreeAssumption, <1>7 DEF FirstInv, EndWalk, Return, TypeInv, TableType, LocalType
  <2>2. StoreInv'
    BY <1>7 DEF FirstInv, EndWalk, Return, StoreInv, Stored
  <2>3. SavedInv'
    BY <1>7 DEF FirstInv, EndWalk, Return, SavedInv
  <2>4. WalkInv'
    BY <1>7 DEF FirstInv, EndWalk, Return, WalkInv
  <2>5. WeightInv'
    BY <1>7 DEF FirstInv, EndWalk, Return, WeightInv, Stored
  <2> QED
    BY <2>1, <2>2, <2>3, <2>4, <2>5 DEF FirstInv
<1>8. CASE SideBranch
  <2>1. NoGenesis(children) => NoGenesis(children')
    BY SMT, <1>8 DEF FirstInv, SideBranch, NoGenesis, TypeInv, TableType, LocalType
  <2>2. TypeInv'
    BY SMT, TreeAssumption, <1>8 DEF FirstInv, SideBranch, Return, TypeInv, TableType, LocalType
  <2>3. StoreInv'
    BY <1>8 DEF FirstInv, SideBranch, Return, StoreInv, Stored
  <2>4. SavedInv'
    BY <1>8, <2>1 DEF FirstInv, SideBranch, Return, SavedInv
  <2>5. WalkInv'
    BY <1>8 DEF FirstInv, SideBranch, Return, SavedInv, WalkInv
  <2>6. WeightInv'
    BY <1>8 DEF FirstInv, SideBranch, Return, WeightInv, Stored
  <2> QED
    BY <2>2, <2>3, <2>4, <2>5, <2>6 DEF FirstInv
<1> QED
  BY <1>1, <1>2, <1>3, <1>4, <1>5, <1>6, <1>7, <1>8 DEF Add

\* Every write of Flush keeps the invariant.
LEMMA FlushStep ==
  ASSUME FirstInv, Flush
  PROVE  FirstInv'
<1> USE DEF Opening, Adding, Flushing, db, memory, call, history
<1>1. CASE FlushTip
  <2>1. oldChild' = FindMainListChild(node, main, children, Genesis, NoHash)
    BY <1>1 DEF FlushTip
  <2>2. children \in [Hash -> Seq(Hash)] /\ node \in SUBSET Hash /\ main \in SUBSET Hash /\ Genesis \in Hash
    BY <1>1, TreeAssumption DEF FirstInv, FlushTip, TypeInv, TableType
  <2>3. FindMainListChild(node, main, children, Genesis, NoHash) \in node \cup {NoHash}
    BY <2>2, SearchFact
  <2>4. NoGenesis(children) => FindMainListChild(node, main, children, Genesis, NoHash) # Genesis
    BY SMT, <2>2, SearchFact
  <2>5. oldChild' \in node \cup {NoHash} /\ (NoGenesis(children) => oldChild' # Genesis)
    BY <2>1, <2>3, <2>4
  <2>6. TypeInv'
    BY SMT, <1>1, <2>2, <2>5 DEF FirstInv, FlushTip, TypeInv, TableType, LocalType
  <2>7. StoreInv'
    BY <1>1, <2>5 DEF FirstInv, FlushTip, StoreInv, Stored
  <2>8. SavedInv'
    BY <1>1, <2>5 DEF FirstInv, FlushTip, TypeInv, TableType, SavedInv
  <2>9. WalkInv'
    BY SMT, <1>1, <2>5 DEF FirstInv, FlushTip, TypeInv, TableType, WalkInv
  <2>10. WeightInv'
    BY SMT, <1>1, <2>5 DEF FirstInv, FlushTip, TypeInv, TableType, WeightInv
  <2> QED
    BY <2>6, <2>7, <2>8, <2>9, <2>10 DEF FirstInv
<1>2. CASE FlushNode
  <2>1. TypeInv'
    BY <1>2 DEF FirstInv, FlushNode, TypeInv, TableType, LocalType
  <2>2. StoreInv'
    BY <1>2 DEF FirstInv, FlushNode, TypeInv, LocalType, StoreInv, Stored
  <2>3. SavedInv'
    BY <1>2 DEF FirstInv, FlushNode, SavedInv
  <2>4. WalkInv'
    BY SMT, <1>2 DEF FirstInv, FlushNode, WalkInv
  <2>5. WeightInv'
    BY SMT, <1>2 DEF FirstInv, FlushNode, WeightInv, WalkInv
  <2> QED
    BY <2>1, <2>2, <2>3, <2>4, <2>5 DEF FirstInv
<1>3. CASE FlushBlock
  <2>1. oldChild' = FindMainListChild(node, main, children, oldChild, NoHash)
    BY <1>3 DEF FlushBlock
  <2>2. children \in [Hash -> Seq(Hash)] /\ node \in SUBSET Hash /\ main \in SUBSET Hash /\ oldChild \in Hash
    BY <1>3 DEF FirstInv, FlushBlock, TypeInv, TableType, StoreInv
  <2>3. FindMainListChild(node, main, children, oldChild, NoHash) \in node \cup {NoHash}
    BY <2>2, SearchFact
  <2>4. NoGenesis(children) => FindMainListChild(node, main, children, oldChild, NoHash) # Genesis
    BY SMT, <2>2, SearchFact
  <2>5. oldChild' \in node \cup {NoHash} /\ (NoGenesis(children) => oldChild' # Genesis)
    BY <2>1, <2>3, <2>4
  <2>6. TypeInv'
    BY <1>3, <2>2, <2>5 DEF FirstInv, FlushBlock, TypeInv, TableType, LocalType
  <2>7. StoreInv'
    BY SMT, <1>3, <2>5 DEF FirstInv, FlushBlock, StoreInv, Stored
  <2>8. SavedInv'
    BY <1>3, <2>5 DEF FirstInv, FlushBlock, SavedInv
  <2>9. WalkInv'
    BY SMT, <1>3, <2>5 DEF FirstInv, FlushBlock, WalkInv
  <2>10. WeightInv'
    BY SMT, <1>3, <2>5 DEF FirstInv, FlushBlock, WeightInv, WalkInv
  <2> QED
    BY <2>6, <2>7, <2>8, <2>9, <2>10 DEF FirstInv
<1>4. CASE EndFlush
  <2>1. TypeInv'
    BY TreeAssumption, <1>4 DEF FirstInv, EndFlush, Return, TypeInv, TableType, LocalType
  <2>2. StoreInv'
    BY <1>4 DEF FirstInv, EndFlush, Return, StoreInv, Stored
  <2>3. SavedInv'
    BY <1>4 DEF FirstInv, EndFlush, Return, SavedInv
  <2>4. WalkInv'
    BY <1>4 DEF FirstInv, EndFlush, Return, WalkInv
  <2>5. WeightInv'
    BY SMT, <1>4 DEF FirstInv, EndFlush, WeightInv, WalkInv
  <2> QED
    BY <2>1, <2>2, <2>3, <2>4, <2>5 DEF FirstInv
<1> QED
  BY <1>1, <1>2, <1>3, <1>4 DEF Flush

\* A restart between any two writes, and a panic, keep the invariant.
LEMMA OtherStep ==
  ASSUME FirstInv, Restart \/ Panic \/ UNCHANGED vars
  PROVE  FirstInv'
<1> USE DEF Opening, Adding, Flushing, db, memory, call, history
<1>1. CASE Restart
  <2>1. TypeInv'
    BY TreeAssumption, <1>1 DEF FirstInv, Restart, TypeInv, TableType, LocalType
  <2>2. StoreInv'
    BY <1>1 DEF FirstInv, Restart, StoreInv, Stored
  <2>3. SavedInv'
    BY <1>1 DEF FirstInv, Restart, SavedInv
  <2>4. WalkInv'
    BY <1>1 DEF FirstInv, Restart, WalkInv
  <2>5. WeightInv'
    BY <1>1 DEF FirstInv, Restart, WeightInv
  <2> QED
    BY <2>1, <2>2, <2>3, <2>4, <2>5 DEF FirstInv
<1>2. CASE Panic
  <2>1. TypeInv'
    BY <1>2 DEF FirstInv, Panic, TypeInv, TableType, LocalType
  <2>2. StoreInv'
    BY <1>2 DEF FirstInv, Panic, StoreInv, Stored
  <2>3. SavedInv'
    BY TreeAssumption, <1>2 DEF FirstInv, Panic, TypeInv, TableType, SavedInv
  <2>4. WalkInv'
    BY TreeAssumption, <1>2 DEF FirstInv, Panic, TypeInv, TableType, WalkInv
  <2>5. WeightInv'
    BY <1>2 DEF FirstInv, Panic, WeightInv, Stored
  <2> QED
    BY <2>1, <2>2, <2>3, <2>4, <2>5 DEF FirstInv
<1>3. CASE UNCHANGED vars
  <2>1. TypeInv'
    BY <1>3 DEF FirstInv, vars, TypeInv, TableType, LocalType
  <2>2. StoreInv'
    BY <1>3 DEF FirstInv, vars, StoreInv, Stored
  <2>3. SavedInv'
    BY <1>3 DEF FirstInv, vars, SavedInv
  <2>4. WalkInv'
    BY <1>3 DEF FirstInv, vars, WalkInv, Stored
  <2>5. WeightInv'
    BY <1>3 DEF FirstInv, vars, WeightInv, Stored
  <2> QED
    BY <2>1, <2>2, <2>3, <2>4, <2>5 DEF FirstInv
<1> QED
  BY <1>1, <1>2, <1>3

\* Every step keeps the invariant.
LEMMA FirstInvStep == FirstInv /\ [Next]_vars => FirstInv'
BY OpenStep, AddStep, FlushStep, OtherStep DEF Next

\* The invariant holds in every state, whatever restarts and flushes there are.
LEMMA FirstInvHolds == Spec => []FirstInv
BY FirstInvInit, FirstInvStep, PTL DEF Spec

\* A chain whose calls were not interrupted opens again, and addBlock panics at a
\* nil node only above what a Flush left behind.
THEOREM ChainOpensAgain == Spec => []OpensAgain
<1>1. FirstInv => OpensAgain
  BY DEF FirstInv, SavedInv, WalkInv, OpensAgain, Intact
<1> QED
  BY <1>1, FirstInvHolds, PTL

\* Until a Flush, addBlock leaves no block that was added since the chain was
\* opened heavier than its tip, though the weight it compares with starts at zero.
THEOREM TipIsHeaviest == Spec => []HeaviestSinceOpen
<1>1. ASSUME FirstInv, pc = "idle", flushes = 0, NEW h \in fresh
      PROVE  block[h].weight <= block[tip].weight
  <2>1. block[h].weight <= weight /\ weight <= block[tip].weight /\ Stored(h) /\ Stored(tip)
    BY <1>1 DEF FirstInv, WeightInv, StoreInv
  <2>2. h \in Hash /\ tip \in Hash /\ weight \in Nat
    BY <1>1 DEF FirstInv, TypeInv, TableType
  <2>3. block[h].weight \in Nat /\ block[tip].weight \in Nat
    BY <1>1, <2>1, <2>2, StoredType DEF FirstInv
  <2> QED
    BY SMT, <2>1, <2>2, <2>3
<1>2. FirstInv => HeaviestSinceOpen
  BY <1>1 DEF HeaviestSinceOpen
<1> QED
  BY <1>2, FirstInvHolds, PTL

-----------------------------------------------------------------------------
(* Lines of blocks *)

\* M is the line from the genesis block to t.  The last conjunct says that the
\* line has no gap.
LineOf(table, M, t) ==
  /\ Genesis \in M /\ t \in M
  /\ \A h \in M : table[h].depth \in Nat /\ table[h].depth <= table[t].depth
  /\ \A h \in M \ {Genesis} : /\ table[h].parent \in M
                              /\ table[h].depth = table[table[h].parent].depth + 1
  /\ \A g, h \in M : table[g].depth = table[h].depth => g = h
  /\ \A h \in M \ {t} : \E g \in M \ {Genesis} : table[g].parent = h

\* F is the line from below p down to c: what a walk up has passed.
Branch(table, F, p, c) ==
  /\ c \in F /\ Genesis \notin F
  /\ \A h \in F : /\ table[h].parent \in F \cup {p}
                  /\ table[h].depth = table[table[h].parent].depth + 1
                  /\ table[h].depth \in Nat
                  /\ table[p].depth < table[h].depth /\ table[h].depth <= table[c].depth
  /\ \A g, h \in F : table[g].depth = table[h].depth => g = h
  /\ \A h \in (F \cup {p}) \ {c} : \E g \in F : table[g].parent = h

\* T is a line that begins at top: what a walk down has still to visit.
Rest(table, T, top) ==
  /\ top \in T
  /\ \A h \in T : table[h].depth \in Nat
  /\ \A h \in T \ {top} : /\ table[h].parent \in T
                          /\ table[h].depth = table[table[h].parent].depth + 1
  /\ \A g, h \in T : table[g].parent = table[h].parent => g = h

\* The genesis block is the lowest of a line.
LEMMA GenesisLowest ==
  ASSUME NEW table, NEW M, NEW t, LineOf(table, M, t), NEW g \in M
  PROVE  table[Genesis].depth <= table[g].depth
<1> DEFINE d(h) == table[h].depth
           up(h) == table[h].parent
           D == {d(h) : h \in M}
<1>1. /\ Genesis \in M /\ \A h \in M : d(h) \in Nat
      /\ \A h \in M \ {Genesis} : up(h) \in M /\ d(h) = d(up(h)) + 1
  BY DEF LineOf
<1>2. SUFFICES d(Genesis) <= d(g)
  OBVIOUS
<1> HIDE DEF d, up
<1>3. PICK m \in D : \A y \in D : m <= y
  <2>1. D \in SUBSET Nat /\ D # {}
    BY <1>1
  <2> HIDE DEF D
  <2> QED
    BY <2>1, LeastNumberPrinciple
<1>4. PICK h \in M : d(h) = m
  BY <1>3
<1>5. h = Genesis
  <2> SUFFICES ASSUME h # Genesis PROVE FALSE
    OBVIOUS
  <2>1. up(h) \in M /\ d(h) = d(up(h)) + 1 /\ d(up(h)) \in Nat
    BY <1>1
  <2>2. d(h) <= d(up(h))
    BY <1>3, <1>4, <2>1
  <2> QED
    BY SMT, <2>1, <2>2
<1> QED
  BY <1>3, <1>4, <1>5

\* WalkUp passes one more block.
LEMMA BranchGrows ==
  ASSUME NEW table, NEW F, NEW p, NEW c, Branch(table, F, p, c), p # Genesis,
         NEW q, q = table[p].parent, table[q].depth \in Nat,
         table[p].depth = table[q].depth + 1
  PROVE  Branch(table, F \cup {p}, q, c)
<1> DEFINE d(h) == table[h].depth
           up(h) == table[h].parent
<1>1. /\ c \in F /\ Genesis \notin F /\ q = up(p) /\ d(q) \in Nat /\ d(p) = d(q) + 1
      /\ \A h \in F : /\ up(h) \in F \cup {p} /\ d(h) = d(up(h)) + 1 /\ d(h) \in Nat
                      /\ d(p) < d(h) /\ d(h) <= d(c)
      /\ \A g, h \in F : d(g) = d(h) => g = h
      /\ \A h \in (F \cup {p}) \ {c} : \E g \in F : up(g) = h
  BY DEF Branch
<1>2. SUFFICES
      /\ c \in F \cup {p} /\ Genesis \notin F \cup {p}
      /\ \A h \in F \cup {p} : /\ up(h) \in F \cup {p} \cup {q} /\ d(h) = d(up(h)) + 1
                               /\ d(h) \in Nat /\ d(q) < d(h) /\ d(h) <= d(c)
      /\ \A g, h \in F \cup {p} : d(g) = d(h) => g = h
      /\ \A h \in (F \cup {p} \cup {q}) \ {c} : \E g \in F \cup {p} : up(g) = h
  BY DEF Branch
<1> HIDE DEF d, up
<1>3. \A h \in F \cup {p} : /\ up(h) \in F \cup {p} \cup {q} /\ d(h) = d(up(h)) + 1
                            /\ d(h) \in Nat /\ d(q) < d(h) /\ d(h) <= d(c)
  BY SMT, <1>1
<1>4. \A g, h \in F \cup {p} : d(g) = d(h) => g = h
  BY SMT, <1>1
<1> QED
  BY <1>1, <1>3, <1>4

\* The main list that SaveChild leaves above the new block: the old one down to
\* the block p where the walk up met it, and the new branch.
LEMMA Splice ==
  ASSUME NEW table, NEW M, NEW t, LineOf(table, M, t), NEW p \in M,
         NEW F, NEW c, Branch(table, F, p, c)
  PROVE  LineOf(table, {h \in M : table[h].depth <= table[p].depth} \cup F, c)
<1> DEFINE d(h) == table[h].depth
           up(h) == table[h].parent
           K == {h \in M : d(h) <= d(p)}
<1>1. /\ Genesis \in M /\ t \in M
      /\ \A h \in M : d(h) \in Nat /\ d(h) <= d(t)
      /\ \A h \in M \ {Genesis} : up(h) \in M /\ d(h) = d(up(h)) + 1
      /\ \A g, h \in M : d(g) = d(h) => g = h
      /\ \A h \in M \ {t} : \E g \in M \ {Genesis} : up(g) = h
  BY DEF LineOf
<1>2. /\ c \in F /\ Genesis \notin F
      /\ \A h \in F : /\ up(h) \in F \cup {p} /\ d(h) = d(up(h)) + 1 /\ d(h) \in Nat
                      /\ d(p) < d(h) /\ d(h) <= d(c)
      /\ \A g, h \in F : d(g) = d(h) => g = h
      /\ \A h \in (F \cup {p}) \ {c} : \E g \in F : up(g) = h
  BY DEF Branch
<1>3. SUFFICES
      /\ Genesis \in K \cup F /\ c \in K \cup F
      /\ \A h \in K \cup F : d(h) \in Nat /\ d(h) <= d(c)
      /\ \A h \in (K \cup F) \ {Genesis} : up(h) \in K \cup F /\ d(h) = d(up(h)) + 1
      /\ \A g, h \in K \cup F : d(g) = d(h) => g = h
      /\ \A h \in (K \cup F) \ {c} : \E g \in (K \cup F) \ {Genesis} : up(g) = h
  BY DEF LineOf
<1> HIDE DEF d, up
<1>4. Genesis \in K
  <2>1. d(Genesis) <= d(p)
    BY GenesisLowest DEF d
  <2> QED
    BY <1>1, <2>1
<1>5. \A h \in K \cup F : d(h) \in Nat /\ d(h) <= d(c)
  BY SMT, <1>1, <1>2
<1>6. \A h \in (K \cup F) \ {Genesis} : up(h) \in K \cup F /\ d(h) = d(up(h)) + 1
  BY SMT, <1>1, <1>2
<1>7. \A g, h \in K \cup F : d(g) = d(h) => g = h
  BY SMT, <1>1, <1>2
<1>8. ASSUME NEW h \in (K \cup F) \ {c}
      PROVE  \E g \in (K \cup F) \ {Genesis} : up(g) = h
  <2>1. CASE h \in F \cup {p}
    BY <1>2, <1>8, <2>1
  <2>2. CASE h \notin F \cup {p}
    <3>1. h \in M /\ d(h) < d(p)
      BY SMT, <1>1, <1>8, <2>2
    <3>2. h # t
      BY SMT, <1>1, <3>1
    <3>3. PICK g \in M \ {Genesis} : up(g) = h
      BY <1>1, <3>1, <3>2
    <3>4. g \in K
      BY SMT, <1>1, <3>1, <3>3
    <3> QED
      BY <3>3, <3>4
  <2> QED
    BY <2>1, <2>2
<1> QED
  BY <1>2, <1>4, <1>5, <1>6, <1>7, <1>8

\* The part of the main list that is left to be reset: nothing if the walk up met
\* the old tip, and else a line that begins at a child of p.
LEMMA Cut ==
  ASSUME NEW table, NEW M, NEW t, LineOf(table, M, t), NEW p \in M
  PROVE  LET T == {h \in M : table[h].depth > table[p].depth}
         IN  /\ Genesis \notin T
             /\ T # {} => \E top \in T : table[top].parent = p /\ Rest(table, T, top)
<1> DEFINE d(h) == table[h].depth
           up(h) == table[h].parent
           T == {h \in M : d(h) > d(p)}
           Good(top) == /\ up(top) = p
                        /\ \A h \in T : d(h) \in Nat
                        /\ \A h \in T \ {top} : up(h) \in T /\ d(h) = d(up(h)) + 1
                        /\ \A g, h \in T : up(g) = up(h) => g = h
<1>1. /\ Genesis \in M /\ t \in M
      /\ \A h \in M : d(h) \in Nat /\ d(h) <= d(t)
      /\ \A h \in M \ {Genesis} : up(h) \in M /\ d(h) = d(up(h)) + 1
      /\ \A g, h \in M : d(g) = d(h) => g = h
      /\ \A h \in M \ {t} : \E g \in M \ {Genesis} : up(g) = h
  BY DEF LineOf
<1>2. SUFFICES Genesis \notin T /\ (T # {} => \E top \in T : Good(top))
  BY DEF Rest
<1> HIDE DEF d, up
<1>3. Genesis \notin T
  <2>1. \A h \in M : d(Genesis) <= d(h)
    BY GenesisLowest DEF d
  <2> QED
    BY SMT, <1>1, <2>1
<1>4. ASSUME T # {} PROVE p # t
  BY SMT, <1>1, <1>4
<1>5. ASSUME T # {}
      PROVE  \E top \in T : Good(top)
  <2>1. PICK top \in M \ {Genesis} : up(top) = p
    BY <1>1, <1>4, <1>5
  <2>2. top \in T
    BY SMT, <1>1, <2>1
  <2>3. \A h \in T \ {top} : up(h) \in T /\ d(h) = d(up(h)) + 1
    BY SMT, <1>1, <1>3, <2>1, <2>2
  <2>4. \A g, h \in T : up(g) = up(h) => g = h
    BY SMT, <1>1, <1>3
  <2>5. \A h \in T : d(h) \in Nat
    BY <1>1
  <2> QED
    BY <2>1, <2>2, <2>3, <2>4, <2>5
<1> QED
  BY <1>3, <1>5

\* When the walk down has dealt with the first block of the rest, the rest begins
\* at a child of it, or is done.
LEMMA RestShrinks ==
  ASSUME NEW table, NEW T, NEW top, Rest(table, T, top), T \ {top} # {}
  PROVE  \E next \in T \ {top} : table[next].parent = top /\ Rest(table, T \ {top}, next)
<1> DEFINE d(h) == table[h].depth
           up(h) == table[h].parent
           R == T \ {top}
           Good(next) == /\ up(next) = top
                         /\ \A h \in R : d(h) \in Nat
                         /\ \A h \in R \ {next} : up(h) \in R /\ d(h) = d(up(h)) + 1
                         /\ \A g, h \in R : up(g) = up(h) => g = h
<1>1. /\ top \in T
      /\ \A h \in T : d(h) \in Nat
      /\ \A h \in T \ {top} : up(h) \in T /\ d(h) = d(up(h)) + 1
      /\ \A g, h \in T : up(g) = up(h) => g = h
  BY DEF Rest
<1>2. SUFFICES \E next \in R : Good(next)
  BY DEF Rest
<1> HIDE DEF d, up
<1> DEFINE D == {d(h) : h \in R}
<1>3. PICK m \in D : \A y \in D : m <= y
  <2>1. D \in SUBSET Nat /\ D # {}
    BY <1>1
  <2> HIDE DEF D
  <2> QED
    BY <2>1, LeastNumberPrinciple
<1>4. PICK next \in R : d(next) = m
  BY <1>3
<1>5. up(next) = top
  <2> SUFFICES ASSUME up(next) \in R PROVE FALSE
    BY <1>1
  <2>1. d(next) = d(up(next)) + 1 /\ d(up(next)) \in Nat
    BY <1>1
  <2>2. d(next) <= d(up(next))
    BY <1>3, <1>4
  <2> QED
    BY SMT, <2>1, <2>2
<1>6. \A h \in R \ {next} : up(h) \in R /\ d(h) = d(up(h)) + 1
  BY <1>1, <1>5
<1> QED
  BY <1>1, <1>5, <1>6

-----------------------------------------------------------------------------
(* The inductive invariant of the main list *)

\* A node is in its parent's list of children.
Listed(h) == \E i \in DOMAIN children[block[h].parent] : children[block[h].parent][i] = h
Linked == {"tip", "up", "side", "down"}

\* No hash is listed twice.
OnceListed ==
  \A p, q \in Hash : \A i \in DOMAIN children[p], j \in DOMAIN children[q] :
    children[p][i] = children[q][j] => p = q /\ i = j

\* A stored block is listed below its parent only, and has a node unless it is
\* being added or deleted.
Owned(c) == c \in node \/ (pc \in Linked /\ c = child) \/ (pc = "flushBlock" /\ c = oldChild)
ListedBelow ==
  \A p \in Hash : \A i \in DOMAIN children[p] :
    Stored(children[p][i]) => block[children[p][i]].parent = p /\ Owned(children[p][i])

\* The depth of a node is one more than that of its parent.
NodeDepths ==
  \A h \in node : /\ block[h].depth \in Nat
                  /\ h # Genesis /\ block[h].parent \in node =>
                       block[h].depth = block[block[h].parent].depth + 1

\* The main list is made of nodes that are listed.
MainListed == main \subseteq node /\ \A h \in main \ {Genesis} : Listed(h)

ListInv ==
  /\ OnceListed /\ ListedBelow /\ NodeDepths /\ MainListed
  /\ Genesis \in node \/ pc = "genesisNode" => block[Genesis] = GenesisBlock

\* What the walk up has made of the main list M, which ended at t.
Climbed(M, t) ==
  LET F == (main \ M) \cup {child}
  IN  /\ LineOf(block, M, t) /\ Branch(block, F, parentNode, child)
      /\ mainListParent \in F /\ block[mainListParent].parent = parentNode

\* The main list before the first flush, and what an add has made of it so far.
MainInv ==
  /\ pc \in {"genesisBlock", "genesisNode"} \/ (pc = "open" /\ dagTip = NoHash) => node = {}
  /\ \A p \in Hash : \A i \in DOMAIN children[p] : Stored(children[p][i])
  /\ \A h \in node \ {Genesis} : Listed(h)
  /\ pc \in Adding => block[child].depth = block[block[child].parent].depth + 1
  /\ pc \in {"parent", "tip", "up", "side"} => child \notin node
  /\ pc \in {"parent", "tip", "side"} => parentNode = block[child].parent /\ mainListParent = child
  /\ pc \in Linked => Listed(child)
  /\ pc \in {"idle"} \cup Adding => tip = dagTip
  /\ \/ pc \in {"idle", "parent", "tip", "side"}
     \/ pc = "open" /\ dagTip # NoHash
     => LineOf(block, main, dagTip)
  /\ pc = "up" => tip = child /\ \E M \in SUBSET main : \E t \in M : Climbed(M, t)
  /\ pc = "down" =>
       /\ tip = child
       /\ \E T \in SUBSET main :
            /\ LineOf(block, main \ T, child)
            /\ IF oldChild = NoHash THEN T = {} ELSE Rest(block, T, oldChild)

\* The main list from the first flush on: what is left of it is a line below the
\* block that is being deleted.
FlushInv ==
  /\ pc \in {"idle", "open"} \cup Flushing
  /\ dagTip = Genesis /\ tip = Genesis /\ Genesis \in main
  /\ pc \in {"idle", "open"} => main = {Genesis}
  /\ pc = "flushNode" => IF oldChild = NoHash THEN main = {Genesis}
                         ELSE Rest(block, main \ {Genesis}, oldChild)
  /\ pc = "flushBlock" =>
       \/ main = {Genesis}
       \/ \E top \in main \ {Genesis} :
            block[top].parent = oldChild /\ Rest(block, main \ {Genesis}, top)

LineInv ==
  /\ mixed => flushes > 0
  /\ Intact => /\ ListInv
               /\ flushes = 0 => MainInv
               /\ flushes > 0 => FlushInv

ChainInv == FirstInv /\ LineInv

-----------------------------------------------------------------------------
(* The steps, one lemma each *)

\* Lines are about the blocks they are made of.
LEMMA SameLines ==
  ASSUME NEW one, NEW two
  PROVE  /\ \A M, t : (\A h \in M : two[h] = one[h]) /\ LineOf(one, M, t) => LineOf(two, M, t)
         /\ \A T, t : (\A h \in T : two[h] = one[h]) /\ Rest(one, T, t) => Rest(two, T, t)
<1>1. ASSUME NEW M, NEW t, \A h \in M : two[h] = one[h], LineOf(one, M, t)
      PROVE  LineOf(two, M, t)
  <2>1. /\ Genesis \in M /\ t \in M
        /\ \A h \in M : one[h].depth \in Nat /\ one[h].depth <= one[t].depth
        /\ \A h \in M \ {Genesis} : /\ one[h].parent \in M
                                    /\ one[h].depth = one[one[h].parent].depth + 1
        /\ \A g, h \in M : one[g].depth = one[h].depth => g = h
        /\ \A h \in M \ {t} : \E g \in M \ {Genesis} : one[g].parent = h
    BY <1>1 DEF LineOf
  <2> QED
    BY <1>1, <2>1 DEF LineOf
<1>2. ASSUME NEW T, NEW t, \A h \in T : two[h] = one[h], Rest(one, T, t)
      PROVE  Rest(two, T, t)
  BY <1>2 DEF Rest
<1> QED
  BY <1>1, <1>2

\* A block stays listed when its parent's list is kept.
LEMMA ListedKept ==
  ASSUME NEW h, Listed(h), block'[h] = block[h],
         LET q == block[h].parent
         IN  \A i \in DOMAIN children[q] :
               i \in DOMAIN children'[q] /\ children'[q][i] = children[q][i]
  PROVE  Listed(h)'
<1>1. PICK q : q = block[h].parent /\ q = block'[h].parent
  OBVIOUS
<1>2. \E i \in DOMAIN children'[q] : children'[q][i] = h
  BY <1>1 DEF Listed
<1> QED
  BY <1>1, <1>2 DEF Listed

\* c is what a search below p returns: a child on the main list, or there is none.
IsFound(c, n, m, list, p, skip) ==
  /\ c # NoHash => /\ c \in n \cap m /\ c # skip
                   /\ \E i \in DOMAIN list[p] : list[p][i] = c
  /\ c = NoHash => \A i \in DOMAIN list[p] : list[p][i] \in n \cap m => list[p][i] = skip

\* c is the first block of T below p, if T is a line that begins there.
IsNext(c, table, T, list, p) ==
  /\ T = {} => c = NoHash
  /\ \A next \in T : /\ table[next].parent = p /\ Rest(table, T, next)
                     /\ \E i \in DOMAIN list[p] : list[p][i] = next
                     => c = next

\* findMainListChild returns a child on the main list, or there is none.
LEMMA Found ==
  ASSUME NEW list \in [Hash -> Seq(Hash)], NEW n \in SUBSET Hash, NEW m \in SUBSET Hash,
         NEW p \in Hash, NEW skip
  PROVE  IsFound(FindMainListChild(n, m, list, p, skip), n, m, list, p, skip)
<1> DEFINE c == FindMainListChild(n, m, list, p, skip)
           hits == {i \in DOMAIN list[p] : list[p][i] \in n \cap m /\ list[p][i] # skip}
           first == CHOOSE i \in hits : \A j \in hits : i <= j
<1>1. list[p] \in Seq(Hash) /\ hits \in SUBSET Nat
  BY SMT
<1>2. c = IF hits = {} THEN NoHash ELSE list[p][first]
  BY DEF FindMainListChild
<1> SUFFICES IsFound(c, n, m, list, p, skip)
  OBVIOUS
<1> HIDE DEF c
<1>3. CASE hits = {}
  BY <1>2, <1>3 DEF IsFound
<1>4. CASE hits # {}
  <2>1. first \in hits
    BY <1>1, <1>4, LeastNumberPrinciple
  <2> HIDE DEF first
  <2>2. c # NoHash
    BY <1>2, <1>4, <2>1, TreeAssumption
  <2> QED
    BY <1>2, <1>4, <2>1, <2>2 DEF IsFound
<1> QED
  BY <1>3, <1>4

\* Below the block where a walk down stands, findMainListChild finds the first
\* block of what is left, and nothing once nothing is left.
LEMMA FoundRest ==
  ASSUME NEW list \in [Hash -> Seq(Hash)], NEW n \in SUBSET Hash, NEW m \in SUBSET Hash,
         NEW p \in Hash, m \subseteq n, NoGenesis(list), NEW table, NEW T \in SUBSET m,
         \A i \in DOMAIN list[p] : list[p][i] \in n => table[list[p][i]].parent = p,
         \A h \in m \ (T \cup {Genesis}) : table[h].parent # p
  PROVE  IsNext(FindMainListChild(n, m, list, p, NoHash), table, T, list, p)
<1> DEFINE c == FindMainListChild(n, m, list, p, NoHash)
<1>1. IsFound(c, n, m, list, p, NoHash)
  BY Found
<1> SUFFICES IsNext(c, table, T, list, p)
  OBVIOUS
<1> HIDE DEF c
<1>2. /\ c # NoHash => /\ c \in n \cap m
                       /\ \E i \in DOMAIN list[p] : list[p][i] = c
      /\ c = NoHash => \A i \in DOMAIN list[p] : list[p][i] \notin n \cap m
  <2>1. NoHash \notin n \cap m
    BY TreeAssumption
  <2> QED
    BY <1>1, <2>1 DEF IsFound
<1>3. c # NoHash => c \in T /\ table[c].parent = p
  BY <1>2 DEF NoGenesis
<1>4. ASSUME NEW next \in T, table[next].parent = p, Rest(table, T, next),
             \E i \in DOMAIN list[p] : list[p][i] = next
      PROVE  c = next
  <2>1. c # NoHash
    BY <1>2, <1>4
  <2> QED
    BY <1>3, <1>4, <2>1 DEF Rest
<1> QED
  BY <1>3, <1>4 DEF IsNext

\* NewBlockChainInMem on an empty database.
LEMMA LineOpen ==
  ASSUME ChainInv, FirstInv', SaveGenesisTip \/ SaveGenesisBlock \/ SaveGenesisNode
  PROVE  LineInv'
<1> USE DEF Opening, Adding, Flushing, Linked, db, memory, call, history
<1>1. /\ UNCHANGED <<children, tip, torn, mixed, flushes>>
      /\ pc \in {"genesisBlock", "genesisNode"} \/ (pc = "open" /\ dagTip = NoHash)
  BY DEF SaveGenesisTip, SaveGenesisBlock, SaveGenesisNode
<1>2. SUFFICES ASSUME Intact' PROVE ListInv' /\ MainInv' /\ flushes = 0
  <2>1. flushes = 0 => ~(flushes' > 0) /\ ~(flushes > 0)
    BY SMT, <1>1
  <2> QED
    BY <1>1, <2>1 DEF ChainInv, LineInv
<1>3. Intact /\ ListInv /\ (flushes = 0 => MainInv) /\ (flushes > 0 => FlushInv)
  BY <1>1, <1>2 DEF Intact, ChainInv, LineInv
<1>4. flushes = 0
  <2>1. ~FlushInv
    BY <1>1, TreeAssumption DEF FlushInv
  <2>2. flushes \in Nat
    BY DEF ChainInv, FirstInv, TypeInv, TableType
  <2> QED
    BY SMT, <1>3, <2>1, <2>2
<1>5. /\ node = {} /\ main = {} /\ tip = Genesis /\ tip' = Genesis /\ ~torn
      /\ \A p \in Hash : \A i \in DOMAIN children[p] : FALSE
  <2>1. node = {} /\ \A p \in Hash : \A i \in DOMAIN children[p] : Stored(children[p][i])
    BY <1>1, <1>3, <1>4 DEF MainInv
  <2>2. \A p \in Hash : \A i \in DOMAIN children[p] : FALSE
    BY <1>1, <1>3, <2>1 DEF ListInv, ListedBelow, Owned
  <2> QED
    BY <1>1, <1>3, <1>4, <2>1, <2>2
    DEF ListInv, MainListed, ChainInv, FirstInv, WeightInv, Intact
<1>6. CASE SaveGenesisTip \/ SaveGenesisBlock
  <2>1. /\ node' = {} /\ main' = {} /\ pc' \in {"genesisBlock", "genesisNode"}
        /\ pc' = "genesisNode" => block' = [block EXCEPT ![Genesis] = GenesisBlock]
    BY <1>5, <1>6 DEF SaveGenesisTip, SaveGenesisBlock
  <2>2. pc' = "genesisNode" => block'[Genesis] = GenesisBlock
    BY <2>1, TreeAssumption DEF ChainInv, FirstInv, TypeInv, TableType
  <2>3. ListInv'
    BY <1>1, <1>5, <2>1, <2>2
    DEF ListInv, OnceListed, ListedBelow, NodeDepths, MainListed
  <2>4. MainInv'
    BY <1>1, <1>5, <2>1 DEF MainInv
  <2> QED
    BY <1>4, <2>3, <2>4
<1>7. CASE SaveGenesisNode
  <2>1. /\ node' = {Genesis} /\ main' = {Genesis} /\ pc' = "idle"
        /\ UNCHANGED <<block, dagTip>> /\ dagTip = Genesis
        /\ block[Genesis] = GenesisBlock
    BY <1>3, <1>5, <1>7 DEF SaveGenesisNode, ListInv, ChainInv, FirstInv, SavedInv
  <2>2. block[Genesis].depth = 0
    BY SMT, <2>1 DEF GenesisBlock
  <2>3. ListInv'
    BY SMT, <1>1, <1>5, <2>1, <2>2
    DEF ListInv, OnceListed, ListedBelow, NodeDepths, MainListed
  <2>4. LineOf(block, {Genesis}, Genesis)
    BY SMT, <2>2 DEF LineOf
  <2>5. MainInv'
    BY <1>1, <1>5, <2>1, <2>4 DEF MainInv
  <2> QED
    BY <1>4, <2>3, <2>5
<1> QED
  BY <1>6, <1>7

\* SaveBlock(block): the new block is stored and listed nowhere.
LEMMA LineBegin ==
  ASSUME ChainInv, FirstInv', AddBlockNode \/ AddNetworkNode
  PROVE  LineInv'
<1> USE DEF Opening, Adding, Flushing, Linked, memory
<1>1. /\ pc = "idle" /\ pc' = "parent"
      /\ child' \in Hash \ node /\ mainListParent' = child' /\ oldChild' = NoHash
      /\ \E b \in BlockSpec : block' = [block EXCEPT ![child'] = b]
      /\ parentNode' = block'[child'].parent /\ parentNode' \in node
      /\ block'[child'] \in BlockSpec /\ block'[child'] # NoBlock
      /\ block'[child'].depth = block[parentNode'].depth + 1
      /\ (mixed' <=> flushes > 0)
      /\ UNCHANGED <<node, main, children, dagTip, tip, torn, flushes>>
  BY BeginFact DEF ChainInv, FirstInv
<1>2. SUFFICES ASSUME Intact' PROVE ListInv' /\ MainInv' /\ flushes = 0
  <2>1. flushes = 0 => ~(flushes' > 0) /\ ~(flushes > 0)
    BY SMT, <1>1
  <2> QED
    BY <1>1, <2>1 DEF LineInv
<1>3. flushes = 0 /\ Intact /\ ListInv /\ MainInv
  <2>1. ~(flushes > 0) /\ flushes \in Nat
    BY <1>1, <1>2 DEF Intact, ChainInv, FirstInv, TypeInv, TableType
  <2>2. flushes = 0
    BY SMT, <2>1
  <2> QED
    BY <1>1, <1>2, <2>1, <2>2 DEF Intact, ChainInv, LineInv
<1>4. /\ block \in [Hash -> BlockSpec \cup {NoBlock}] /\ node \in SUBSET Hash
      /\ Genesis \in node /\ dagTip \in node
      /\ \A h \in node \ {Genesis} : block[h].parent \in node
  BY <1>1, <1>3 DEF Intact, ChainInv, FirstInv, TypeInv, TableType, SavedInv, WalkInv
<1>5. \A h \in Hash : h # child' => block'[h] = block[h]
  BY <1>1, <1>4
<1>6. \A p \in Hash : \A i \in DOMAIN children[p] :
        children[p][i] \in node /\ block[children[p][i]].parent = p
  BY <1>1, <1>3 DEF ListInv, ListedBelow, Owned, MainInv
<1>7. \A h \in node : block'[h] = block[h]
  BY <1>1, <1>4, <1>5
<1>8. /\ OnceListed' /\ ListedBelow'
      /\ Genesis \in node' \/ pc' = "genesisNode" => block'[Genesis] = GenesisBlock
  BY SMT, <1>1, <1>3, <1>4, <1>6, <1>7 DEF ListInv, OnceListed, ListedBelow, Owned
<1>9. NodeDepths'
  BY ZenonT(40), <1>1, <1>3, <1>7 DEF ListInv, NodeDepths
<1>10. /\ MainListed'
       /\ \A h \in node' \ {Genesis} : Listed(h)'
  BY SMT, <1>1, <1>3, <1>7 DEF ListInv, MainListed, MainInv, Listed
<1>11. (\A p \in Hash : \A i \in DOMAIN children[p] : Stored(children[p][i]))'
  BY SMT, <1>1, <1>3, <1>6, <1>7 DEF Stored, MainInv
<1>12. LineOf(block', main', dagTip')
  <2>1. main \subseteq node /\ LineOf(block, main, dagTip)
    BY <1>1, <1>3 DEF ListInv, MainListed, MainInv
  <2> QED
    BY <1>1, <1>7, <2>1, SameLines
<1>13. block'[child'].depth = block'[block'[child'].parent].depth + 1
  BY <1>1, <1>7
<1>14. tip' = dagTip'
  BY <1>1, <1>3 DEF MainInv
<1>15. MainInv'
  BY <1>1, <1>10, <1>11, <1>12, <1>13, <1>14 DEF MainInv
<1> QED
  BY <1>3, <1>8, <1>9, <1>10, <1>15 DEF ListInv

\* A write of addBlock, which runs on an intact chain only before the first flush.
LEMMA AddKeeps ==
  ASSUME ChainInv, pc \in Adding, UNCHANGED <<torn, mixed, flushes>>,
         Intact /\ flushes = 0 /\ ListInv /\ MainInv => ListInv' /\ MainInv'
  PROVE  LineInv'
<1>1. flushes = 0 => ~(flushes > 0)
  BY SMT
<1>2. Intact => flushes = 0 /\ ListInv /\ MainInv
  BY DEF Intact, ChainInv, LineInv, FirstInv, WalkInv
<1> QED
  BY <1>1, <1>2 DEF ChainInv, LineInv, Intact

\* AddChild and SaveBlockNode(parent): the new block is listed, once.
LEMMA LineLink ==
  ASSUME ChainInv, FirstInv', LinkParent
  PROVE  LineInv'
<1> USE DEF Opening, Adding, Flushing, Linked, memory, call, history
<1>1. /\ pc = "parent" /\ pc' \in {"tip", "side"}
      /\ children' = [children EXCEPT ![parentNode] = Append(@, child)]
      /\ UNCHANGED <<block, node, main, dagTip, tip, child, parentNode, mainListParent,
                     oldChild, torn, mixed, flushes>>
  BY DEF LinkParent
<1>2. SUFFICES ASSUME Intact, flushes = 0 /\ ListInv /\ MainInv PROVE ListInv' /\ MainInv'
  BY <1>1, AddKeeps
<1>3. flushes = 0 /\ ListInv /\ MainInv
  BY <1>2
<1>4. /\ children \in [Hash -> Seq(Hash)] /\ node \in SUBSET Hash
      /\ parentNode \in node /\ parentNode \in Hash /\ child \in Hash \ node /\ Stored(child)
      /\ parentNode = block[child].parent
  BY <1>1, <1>3
  DEF ChainInv, FirstInv, TypeInv, TableType, LocalType, StoreInv, MainInv
<1>5. \A p \in Hash : \A i \in DOMAIN children[p] :
        children[p][i] \in node /\ block[children[p][i]].parent = p
  BY <1>1, <1>3 DEF ListInv, ListedBelow, Owned, MainInv
<1> DEFINE n == Len(children[parentNode]) + 1
<1>6. /\ n \notin DOMAIN children[parentNode]
      /\ DOMAIN children'[parentNode] = DOMAIN children[parentNode] \cup {n}
      /\ children'[parentNode][n] = child
      /\ \A i \in DOMAIN children[parentNode] :
           children'[parentNode][i] = children[parentNode][i]
      /\ \A p \in Hash \ {parentNode} : children'[p] = children[p]
  <2>1. /\ children'[parentNode] = Append(children[parentNode], child)
        /\ \A p \in Hash \ {parentNode} : children'[p] = children[p]
    BY <1>1, <1>4
  <2>2. children[parentNode] \in Seq(Hash)
    BY <1>4
  <2>3. /\ DOMAIN children[parentNode] = 1 .. Len(children[parentNode])
        /\ Len(children[parentNode]) \in Nat
    BY SMT, <2>2
  <2>4. /\ DOMAIN Append(children[parentNode], child) = 1 .. n
        /\ Append(children[parentNode], child)[n] = child
        /\ \A i \in 1 .. Len(children[parentNode]) :
             Append(children[parentNode], child)[i] = children[parentNode][i]
    BY SMT, <1>4, <2>2
  <2>5. 1 .. n = 1 .. Len(children[parentNode]) \cup {n} /\ n \notin 1 .. Len(children[parentNode])
    BY SMT, <2>3
  <2> QED
    BY <2>1, <2>3, <2>4, <2>5
<1> HIDE DEF n
<1>7. OnceListed'
  <2> SUFFICES ASSUME NEW p \in Hash, NEW q \in Hash,
                      NEW i \in DOMAIN children'[p], NEW j \in DOMAIN children'[q],
                      children'[p][i] = children'[q][j]
               PROVE  p = q /\ i = j
    BY DEF OnceListed
  <2>1. ASSUME NEW r \in Hash, NEW k \in DOMAIN children'[r]
        PROVE  \/ r = parentNode /\ k = n /\ children'[r][k] = child
               \/ /\ k \in DOMAIN children[r] /\ children'[r][k] = children[r][k]
                  /\ children[r][k] # child
    BY SMT, <1>4, <1>5, <1>6, <2>1
  <2> QED
    BY SMT, <1>3, <2>1 DEF ListInv, OnceListed
<1>8. ListedBelow'
  <2> SUFFICES ASSUME NEW p \in Hash, NEW i \in DOMAIN children'[p]
               PROVE  block[children'[p][i]].parent = p /\ (children'[p][i] \in node \cup {child})
    BY SMT, <1>1 DEF ListedBelow, Owned
  <2>1. \/ p = parentNode /\ children'[p][i] = child
        \/ i \in DOMAIN children[p] /\ children'[p][i] = children[p][i]
    BY <1>6
  <2> QED
    BY <1>4, <1>5, <2>1
<1>9. NodeDepths' /\ (Genesis \in node' \/ pc' = "genesisNode" => block'[Genesis] = GenesisBlock)
  BY <1>1, <1>3 DEF ListInv, NodeDepths
<1>10. /\ \A h \in node \ {Genesis} : Listed(h)'
       /\ Listed(child)'
  <2>1. \A h \in node \ {Genesis} : block[h].parent \in node /\ Listed(h)
    BY <1>1, <1>2, <1>3 DEF MainInv, ChainInv, FirstInv, WalkInv, Intact
  <2>2. \A p \in Hash : \A i \in DOMAIN children[p] :
          i \in DOMAIN children'[p] /\ children'[p][i] = children[p][i]
    BY <1>6
  <2>3. \A h \in node \ {Genesis} : Listed(h)'
    BY <1>1, <1>4, <2>1, <2>2, ListedKept
  <2>4. Listed(child)'
    BY <1>1, <1>4, <1>6 DEF Listed
  <2> QED
    BY <2>3, <2>4
<1>11. MainListed'
  BY ZenonT(40), <1>1, <1>3, <1>10 DEF ListInv, MainListed
<1>12. (\A p \in Hash : \A i \in DOMAIN children[p] : Stored(children[p][i]))'
  BY SMTT(30), <1>1, <1>3, <1>4, <1>6 DEF Stored, MainInv
<1>13. /\ \A h \in node' \ {Genesis} : Listed(h)'
       /\ block'[child'].depth = block'[block'[child'].parent].depth + 1
       /\ child' \notin node' /\ parentNode' = block'[child'].parent /\ mainListParent' = child'
       /\ tip' = dagTip' /\ LineOf(block', main', dagTip')
  BY <1>1, <1>3, <1>10 DEF MainInv
<1>14. MainInv'
  BY <1>1, <1>10, <1>12, <1>13 DEF MainInv
<1> QED
  BY <1>3, <1>7, <1>8, <1>9, <1>11, <1>14 DEF ListInv

\* SaveTip: the walk up begins above the new block.
LEMMA LineTip ==
  ASSUME ChainInv, FirstInv', SaveTip
  PROVE  LineInv'
<1> USE DEF Opening, Adding, Flushing, Linked, call, history
<1>1. /\ pc = "tip" /\ pc' = "up" /\ tip' = child /\ dagTip' = child
      /\ UNCHANGED <<block, node, main, children, child, parentNode, mainListParent,
                     oldChild, torn, mixed, flushes>>
  BY DEF SaveTip
<1>2. SUFFICES ASSUME Intact, flushes = 0 /\ ListInv /\ MainInv PROVE ListInv' /\ MainInv'
  BY <1>1, AddKeeps
<1>3. flushes = 0 /\ ListInv /\ MainInv
  BY <1>2
<1>4. ListInv'
  <2>1. OnceListed' /\ NodeDepths'
        /\ (Genesis \in node' \/ pc' = "genesisNode" => block'[Genesis] = GenesisBlock)
    BY SMT, <1>1, <1>3 DEF ListInv, OnceListed, NodeDepths
  <2>2. ListedBelow'
    BY SMT, <1>1, <1>3 DEF ListInv, ListedBelow, Owned, Stored
  <2>3. MainListed'
    BY <1>1, <1>3 DEF ListInv, MainListed, Listed
  <2> QED
    BY <2>1, <2>2, <2>3 DEF ListInv
<1>5. /\ LineOf(block, main, dagTip) /\ dagTip \in main
      /\ parentNode = block[child].parent /\ mainListParent = child
      /\ block[child].depth = block[parentNode].depth + 1
      /\ block[parentNode].depth \in Nat /\ child # Genesis /\ child # parentNode
  <2>1. /\ LineOf(block, main, dagTip) /\ parentNode = block[child].parent /\ mainListParent = child
        /\ block[child].depth = block[block[child].parent].depth + 1
    BY SMT, <1>1, <1>3 DEF MainInv
  <2>2. dagTip \in main
    BY <2>1 DEF LineOf
  <2>3. parentNode \in node /\ child # Genesis
    BY SMT, <1>1, <1>2 DEF ChainInv, FirstInv, StoreInv, SavedInv, Intact
  <2>4. block[parentNode].depth \in Nat
    BY <1>3, <2>3 DEF ListInv, NodeDepths
  <2>5. child # parentNode
    BY SMT, <2>1, <2>4
  <2> QED
    BY <2>1, <2>2, <2>3, <2>4, <2>5
<1>6. Branch(block, {child}, parentNode, child)
  BY SMT, <1>5 DEF Branch
<1>7. PICK M, t : M = main /\ t = dagTip
  OBVIOUS
<1>8. M \in SUBSET main' /\ t \in M /\ Climbed(M, t)'
  <2>1. (main' \ M) \cup {child'} = {child}
    BY <1>1, <1>7
  <2> QED
    BY <1>1, <1>5, <1>6, <1>7, <2>1 DEF Climbed
<1>9. /\ (\A p \in Hash : \A i \in DOMAIN children[p] : Stored(children[p][i]))'
      /\ \A h \in node' \ {Genesis} : Listed(h)'
      /\ block'[child'].depth = block'[block'[child'].parent].depth + 1
      /\ child' \notin node' /\ Listed(child)'
  BY <1>1, <1>3 DEF MainInv, Stored, Listed
<1>10. MainInv'
  BY <1>1, <1>5, <1>8, <1>9 DEF MainInv
<1> QED
  BY <1>3, <1>4, <1>10

\* The walk up flags the parent, a node beside the old main list.
LEMMA LineUp ==
  ASSUME ChainInv, FirstInv', WalkUp
  PROVE  LineInv'
<1> USE DEF Opening, Adding, Flushing, Linked, memory, history
<1>1. /\ pc = "up" /\ pc' = "up" /\ parentNode \in Hash \ main
      /\ main' = main \cup {parentNode} /\ mainListParent' = parentNode
      /\ parentNode' = IF block[parentNode].parent \in node THEN block[parentNode].parent
                       ELSE NoHash
      /\ UNCHANGED <<block, node, children, dagTip, tip, child, oldChild, torn, mixed, flushes>>
  BY DEF WalkUp
<1>2. SUFFICES ASSUME Intact, flushes = 0 /\ ListInv /\ MainInv PROVE ListInv' /\ MainInv'
  BY <1>1, AddKeeps
<1>3. flushes = 0 /\ ListInv /\ MainInv
  BY <1>2
<1>4. PICK M \in SUBSET main : \E t \in M : Climbed(M, t)
  BY <1>1, <1>3 DEF MainInv
<1>5. PICK t \in M : Climbed(M, t)
  BY <1>4
<1> DEFINE F == (main \ M) \cup {child}
           q == block[parentNode].parent
<1>6. /\ LineOf(block, M, t) /\ Branch(block, F, parentNode, child)
      /\ mainListParent \in F /\ block[mainListParent].parent = parentNode
  BY <1>5 DEF Climbed
<1>7. /\ parentNode \in node /\ parentNode # Genesis /\ q \in node /\ Listed(parentNode)
      /\ block[q].depth \in Nat /\ block[parentNode].depth = block[q].depth + 1
  <2>1. parentNode \in node /\ parentNode # Genesis
    BY <1>1, <1>2, <1>3, <1>6 DEF LineOf, ChainInv, FirstInv, WalkInv, Intact
  <2>2. q \in node
    BY <1>2, <1>3, <2>1 DEF ChainInv, FirstInv, WalkInv, Intact
  <2> QED
    BY <1>3, <2>1, <2>2 DEF ListInv, NodeDepths, MainInv
<1>8. Branch(block, F \cup {parentNode}, q, child)
  <2> HIDE DEF F
  <2> QED
    BY <1>6, <1>7, BranchGrows
<1>9. (main' \ M) \cup {child'} = F \cup {parentNode} /\ parentNode' = q
  BY <1>1, <1>7
<1>10. Climbed(M, t)'
  BY <1>1, <1>6, <1>8, <1>9 DEF Climbed
<1>11. ListInv'
  BY SMT, <1>1, <1>3, <1>7
  DEF ListInv, OnceListed, ListedBelow, Owned, Stored, NodeDepths, MainListed, Listed
<1>12. /\ (\A p \in Hash : \A i \in DOMAIN children[p] : Stored(children[p][i]))'
       /\ \A h \in node' \ {Genesis} : Listed(h)'
       /\ block'[child'].depth = block'[block'[child'].parent].depth + 1
       /\ child' \notin node' /\ Listed(child)' /\ tip' = child' /\ tip' = dagTip'
  BY ZenonT(40), <1>1, <1>3 DEF MainInv, Stored, Listed
<1>13. MainInv'
  BY <1>1, <1>10, <1>12 DEF MainInv
<1> QED
  BY <1>3, <1>11, <1>13

\* What saving the new node does to the lists: it is a node without children, and
\* nobody's parent.
LEMMA SaveFact ==
  ASSUME ChainInv, Intact, SaveChild \/ SideBranch
  PROVE  /\ flushes = 0 /\ ListInv /\ MainInv
         /\ child \in Hash \ node /\ child # Genesis
         /\ node' = node \cup {child} /\ UNCHANGED block
         /\ ListedBelow' /\ OnceListed' /\ NodeDepths' /\ block'[Genesis] = GenesisBlock
         /\ \A h \in node' \ {Genesis} : Listed(h)'
         /\ (\A p \in Hash : \A i \in DOMAIN children[p] : Stored(children[p][i]))'
         /\ \A p \in node : children'[p] = children[p]
<1> USE DEF Opening, Adding, Flushing, Linked, memory, history
<1>1. /\ pc \in {"up", "side"} /\ pc' \in {"down", "idle"}
      /\ node' = node \cup {child} /\ children' = [children EXCEPT ![child] = <<>>]
      /\ UNCHANGED block
  BY DEF SaveChild, SideBranch, Return
<1>2. flushes = 0 /\ ListInv /\ MainInv
  BY <1>1 DEF Intact, ChainInv, LineInv, FirstInv, WalkInv
<1>3. /\ child \in Hash \ node /\ child # Genesis /\ Genesis \in node
      /\ children \in [Hash -> Seq(Hash)] /\ node \in SUBSET Hash
      /\ block[child].parent \in node
      /\ \A h \in node \ {Genesis} : block[h].parent \in node
      /\ Listed(child)
      /\ block[child].depth = block[block[child].parent].depth + 1
  BY <1>1, <1>2
  DEF ChainInv, FirstInv, TypeInv, TableType, LocalType, SavedInv, WalkInv, Intact, MainInv
<1>4. /\ \A p \in Hash \ {child} : children'[p] = children[p]
      /\ DOMAIN children'[child] = {}
  <2>1. children'[child] = <<>> /\ \A p \in Hash \ {child} : children'[p] = children[p]
    BY <1>1, <1>3
  <2> QED
    BY SMT, <2>1
<1>5. \A p \in Hash : \A i \in DOMAIN children'[p] :
        p # child /\ i \in DOMAIN children[p] /\ children'[p][i] = children[p][i]
  BY <1>4
<1>6. OnceListed'
  BY SMT, <1>2, <1>5 DEF ListInv, OnceListed
<1>7. ListedBelow'
  <2> SUFFICES ASSUME NEW p \in Hash, NEW i \in DOMAIN children'[p]
               PROVE  block[children'[p][i]].parent = p /\ children'[p][i] \in node \cup {child}
    BY SMT, <1>1 DEF ListedBelow, Owned
  <2>1. Stored(children[p][i]) /\ i \in DOMAIN children[p] /\ children'[p][i] = children[p][i]
    BY <1>2, <1>5 DEF MainInv
  <2>2. block[children[p][i]].parent = p /\ children[p][i] \in node \cup {child}
    BY <1>1, <1>2, <2>1 DEF ListInv, ListedBelow, Owned
  <2> QED
    BY <2>1, <2>2
<1>8. NodeDepths'
  <2>1. block[block[child].parent].depth \in Nat
    BY <1>2, <1>3 DEF ListInv, NodeDepths
  <2>2. block[child].depth \in Nat
    BY SMT, <1>3, <2>1
  <2> QED
    BY <1>1, <1>2, <1>3, <2>2 DEF ListInv, NodeDepths
<1>9. \A h \in node' \ {Genesis} : Listed(h)'
  <2>1. \A h \in node' \ {Genesis} : block[h].parent \in Hash \ {child} /\ Listed(h)
    BY <1>1, <1>2, <1>3 DEF MainInv
  <2> QED
    BY <1>1, <1>4, <2>1, ListedKept
<1>10. (\A p \in Hash : \A i \in DOMAIN children[p] : Stored(children[p][i]))'
  BY SMT, <1>1, <1>2, <1>5 DEF MainInv, Stored
<1>11. \A p \in node : children'[p] = children[p]
  BY <1>3, <1>4
<1> QED
  BY <1>1, <1>2, <1>3, <1>6, <1>7, <1>8, <1>9, <1>10, <1>11 DEF ListInv

\* SaveBlockNode(child) of a block beside the main list.
LEMMA LineSide ==
  ASSUME ChainInv, FirstInv', SideBranch
  PROVE  LineInv'
<1> USE DEF Opening, Adding, Flushing, Linked, memory, history
<1>1. /\ pc = "side" /\ pc' = "idle" /\ main' = main \ {child}
      /\ UNCHANGED <<dagTip, tip, torn, mixed, flushes>>
  BY DEF SideBranch, Return
<1>2. SUFFICES ASSUME Intact PROVE ListInv' /\ MainInv'
  BY <1>1, AddKeeps
<1>3. /\ flushes = 0 /\ ListInv /\ MainInv
      /\ child \in Hash \ node /\ child # Genesis
      /\ node' = node \cup {child} /\ UNCHANGED block
      /\ ListedBelow' /\ OnceListed' /\ NodeDepths' /\ block'[Genesis] = GenesisBlock
      /\ \A h \in node' \ {Genesis} : Listed(h)'
      /\ (\A p \in Hash : \A i \in DOMAIN children[p] : Stored(children[p][i]))'
  BY <1>2, SaveFact
<1>4. main' = main /\ main \subseteq node
  BY <1>1, <1>3 DEF ListInv, MainListed
<1>5. ListInv'
  BY <1>3, <1>4 DEF ListInv, MainListed
<1>6. tip = dagTip /\ LineOf(block, main, dagTip)
  BY <1>1, <1>3 DEF MainInv
<1>7. MainInv'
  BY <1>1, <1>3, <1>4, <1>6 DEF MainInv
<1> QED
  BY <1>3, <1>5, <1>7

\* SaveBlockNode(child): above the new block the main list is a line, and what the
\* search finds is the first block of the old one that is no longer on it.
LEMMA LineSave ==
  ASSUME ChainInv, FirstInv', SaveChild
  PROVE  LineInv'
<1> USE DEF Opening, Adding, Flushing, Linked, memory, history
<1>1. /\ pc = "up" /\ pc' = "down" /\ parentNode \in main /\ main' = main \cup {child}
      /\ oldChild' = FindMainListChild(node', main', children', parentNode, mainListParent)
      /\ UNCHANGED <<dagTip, tip, child, parentNode, mainListParent, torn, mixed, flushes>>
  BY DEF SaveChild
<1>2. SUFFICES ASSUME Intact PROVE ListInv' /\ MainInv'
  BY <1>1, AddKeeps
<1>3. /\ flushes = 0 /\ ListInv /\ MainInv
      /\ child \in Hash \ node /\ child # Genesis
      /\ node' = node \cup {child} /\ UNCHANGED block
      /\ ListedBelow' /\ OnceListed' /\ NodeDepths' /\ block'[Genesis] = GenesisBlock
      /\ \A h \in node' \ {Genesis} : Listed(h)'
      /\ (\A p \in Hash : \A i \in DOMAIN children[p] : Stored(children[p][i]))'
      /\ \A p \in node : children'[p] = children[p]
  BY <1>2, SaveFact
<1>4. main \subseteq node
  BY <1>3 DEF ListInv, MainListed
<1>5. ListInv'
  BY <1>1, <1>3, <1>4 DEF ListInv, MainListed
<1>6. PICK M \in SUBSET main : \E t \in M : Climbed(M, t)
  BY <1>1, <1>3 DEF MainInv
<1>7. PICK t \in M : Climbed(M, t)
  BY <1>6
<1> DEFINE F == (main \ M) \cup {child}
           d(h) == block[h].depth
           up(h) == block[h].parent
           T == {h \in M : d(h) > d(parentNode)}
           K == {h \in M : d(h) <= d(parentNode)}
<1>8. /\ LineOf(block, M, t) /\ Branch(block, F, parentNode, child)
      /\ mainListParent \in F /\ up(mainListParent) = parentNode
  BY <1>7 DEF Climbed
<1>9. /\ \A h \in M : d(h) \in Nat
      /\ \A h \in M \ {Genesis} : up(h) \in M /\ d(h) = d(up(h)) + 1
      /\ \A h \in F : d(h) \in Nat /\ d(parentNode) < d(h) /\ d(h) = d(up(h)) + 1
      /\ \A g, h \in F : d(g) = d(h) => g = h
  BY <1>8 DEF LineOf, Branch
<1>10. parentNode \in M
  <2>1. parentNode \in F => d(parentNode) \in Nat /\ d(parentNode) < d(parentNode)
    BY <1>9
  <2> HIDE DEF d
  <2>2. parentNode \notin F
    BY SMT, <2>1
  <2> QED
    BY <1>1, <2>2
<1>11. LineOf(block, K \cup F, child)
  <2> HIDE DEF F
  <2> QED
    BY SMT, <1>8, <1>10, Splice
<1>12. Genesis \notin T /\ (T # {} => \E top \in T : up(top) = parentNode /\ Rest(block, T, top))
  BY SMT, <1>8, <1>10, Cut
<1> HIDE DEF d, up
<1>13. M = K \cup T /\ K \cap T = {}
  BY SMT, <1>9, <1>10
<1>14. main' \ T = K \cup F /\ T \in SUBSET main' /\ main' = K \cup F \cup T /\ F \cap T = {}
  <2> HIDE DEF K, T
  <2> QED
    BY <1>1, <1>3, <1>4, <1>6, <1>13
<1> DEFINE c == oldChild'
<1>15. /\ c # NoHash => /\ c \in main' /\ c # mainListParent /\ c # Genesis
                        /\ up(c) = parentNode
       /\ c = NoHash => \A h \in node' \cap main' :
                          h # Genesis /\ up(h) = parentNode => h = mainListParent
  <2>1. /\ children' \in [Hash -> Seq(Hash)] /\ node' \in SUBSET Hash /\ main' \in SUBSET Hash
        /\ parentNode \in Hash /\ NoGenesis(children')
    BY <1>1, <1>2 DEF FirstInv, TypeInv, TableType, SavedInv, Intact
  <2>2. /\ c # NoHash => /\ c \in node' \cap main' /\ c # mainListParent
                         /\ \E i \in DOMAIN children'[parentNode] : children'[parentNode][i] = c
        /\ c = NoHash => \A i \in DOMAIN children'[parentNode] :
                           children'[parentNode][i] \in node' \cap main' =>
                             children'[parentNode][i] = mainListParent
    <3>1. IsFound(c, node', main', children', parentNode, mainListParent)
      BY <1>1, <2>1, Found
    <3> HIDE DEF c
    <3> QED
      BY <3>1 DEF IsFound
  <2>3. \A i \in DOMAIN children'[parentNode] :
          children'[parentNode][i] # Genesis /\ up(children'[parentNode][i]) = parentNode
    BY <1>3, <2>1 DEF ListedBelow, NoGenesis, Stored, up
  <2>4. \A h \in node' \ {Genesis} : up(h) = parentNode =>
          \E i \in DOMAIN children'[parentNode] : children'[parentNode][i] = h
    BY ZenonT(40), <1>3 DEF Listed, up
  <2> HIDE DEF c
  <2> QED
    BY <2>2, <2>3, <2>4
<1>16. mainListParent \in F /\ up(mainListParent) = parentNode
  BY <1>8 DEF up
<1>17. ASSUME c = NoHash PROVE T = {}
  <2> SUFFICES ASSUME T # {} PROVE FALSE
    OBVIOUS
  <2>1. PICK top \in T : up(top) = parentNode
    BY <1>12
  <2> HIDE DEF T, F
  <2>2. top \in node' \cap main' /\ top # Genesis
    BY <1>1, <1>3, <1>4, <1>12, <1>14
  <2> QED
    BY <1>14, <1>15, <1>16, <1>17, <2>1, <2>2
<1>18. ASSUME c # NoHash PROVE Rest(block, T, c)
  <2>1. c \notin F
    <3>1. c \in F => d(c) = d(mainListParent)
      BY <1>9, <1>15, <1>16, <1>18
    <3> QED
      BY <1>9, <1>15, <1>16, <1>18, <3>1
  <2>2. c \notin K
    <3>1. c \in M => d(c) = d(parentNode) + 1 /\ d(parentNode) \in Nat
      BY <1>9, <1>10, <1>15, <1>18
    <3>2. c \in K => c \in M /\ d(c) <= d(parentNode)
      OBVIOUS
    <3> HIDE DEF c, K
    <3> QED
      BY SMT, <3>1, <3>2
  <2>3. c \in T
    <3> HIDE DEF c, K, T, F
    <3> QED
      BY <1>14, <1>15, <1>18, <2>1, <2>2
  <2>4. PICK top \in T : up(top) = parentNode /\ Rest(block, T, top)
    BY <1>12, <2>3
  <2>5. c = top
    <3> HIDE DEF c, T
    <3> QED
      BY <1>15, <1>18, <2>3, <2>4 DEF Rest, up
  <2> HIDE DEF c, T
  <2> QED
    BY <2>4, <2>5
<1>19. \E S \in SUBSET main' :
         /\ LineOf(block', main' \ S, child')
         /\ IF oldChild' = NoHash THEN S = {} ELSE Rest(block', S, oldChild')
  <2>1. LineOf(block, main' \ T, child)
    BY <1>11, <1>14
  <2>2. IF c = NoHash THEN T = {} ELSE Rest(block, T, c)
    BY <1>17, <1>18
  <2> HIDE DEF T
  <2> QED
    BY <1>1, <1>3, <1>14, <2>1, <2>2
<1>20. /\ block'[child'].depth = block'[block'[child'].parent].depth + 1
       /\ Listed(child)' /\ tip' = child' /\ tip' = dagTip'
  BY <1>1, <1>3 DEF MainInv
<1>21. MainInv'
  BY <1>1, <1>3, <1>19, <1>20 DEF MainInv
<1> QED
  BY <1>5, <1>21

\* The walk down resets the first block of the rest and finds the next one.
LEMMA LineDown ==
  ASSUME ChainInv, FirstInv', WalkDown
  PROVE  LineInv'
<1> USE DEF Opening, Adding, Flushing, Linked, memory, history
<1>1. /\ pc = "down" /\ pc' = "down" /\ oldChild # NoHash /\ main' = main \ {oldChild}
      /\ oldChild' = FindMainListChild(node, main', children, oldChild, NoHash)
      /\ UNCHANGED <<block, node, children, dagTip, tip, child, torn, mixed, flushes>>
  BY DEF WalkDown
<1>2. SUFFICES ASSUME Intact, flushes = 0 /\ ListInv /\ MainInv PROVE ListInv' /\ MainInv'
  BY <1>1, AddKeeps
<1>3. PICK T \in SUBSET main : LineOf(block, main \ T, child) /\ Rest(block, T, oldChild)
  BY <1>1, <1>2 DEF MainInv
<1>4. oldChild \in T /\ main' \ (T \ {oldChild}) = main \ T /\ T \ {oldChild} \in SUBSET main'
  BY <1>1, <1>3 DEF Rest
<1>5. ListInv'
  BY SMT, <1>1, <1>2
  DEF ListInv, OnceListed, ListedBelow, Owned, Stored, NodeDepths, MainListed, Listed
<1> DEFINE R == T \ {oldChild}
           c == oldChild'
<1>6. /\ R = {} => c = NoHash
      /\ \A next \in R :
           /\ block[next].parent = oldChild /\ Rest(block, R, next)
           /\ \E i \in DOMAIN children[oldChild] : children[oldChild][i] = next
           => c = next
  <2>1. /\ children \in [Hash -> Seq(Hash)] /\ node \in SUBSET Hash /\ main' \in SUBSET Hash
        /\ oldChild \in Hash /\ NoGenesis(children) /\ main' \subseteq node /\ R \in SUBSET main'
        /\ c = FindMainListChild(node, main', children, oldChild, NoHash)
    BY <1>1, <1>2, <1>4
    DEF ChainInv, FirstInv, TypeInv, TableType, LocalType, SavedInv, Intact, ListInv, MainListed
  <2>2. \A i \in DOMAIN children[oldChild] :
          children[oldChild][i] \in node => block[children[oldChild][i]].parent = oldChild
    BY <1>2, <2>1 DEF ListInv, ListedBelow, MainInv
  <2>3. \A h \in main' \ (R \cup {Genesis}) : block[h].parent # oldChild
    BY SMT, <1>3, <1>4 DEF LineOf
  <2> HIDE DEF R, c
  <2>4. IsNext(FindMainListChild(node, main', children, oldChild, NoHash), block, R,
               children, oldChild)
    BY <2>1, <2>2, <2>3, FoundRest
  <2> QED
    BY <2>1, <2>4 DEF IsNext
<1>7. IF c = NoHash THEN R = {} ELSE Rest(block, R, c)
  <2>1. CASE R = {}
    BY <1>6, <2>1
  <2>2. CASE R # {}
    <3>1. PICK next \in R : block[next].parent = oldChild /\ Rest(block, R, next)
      BY <1>3, <2>2, RestShrinks
    <3>2. Listed(next) /\ next \in Hash
      <4>1. next \in main /\ next # Genesis
        BY <1>1, <1>2, <1>3, <3>1 DEF LineOf
      <4> QED
        BY <1>2, <4>1 DEF ListInv, MainListed, ChainInv, FirstInv, TypeInv, TableType
    <3> HIDE DEF R, c
    <3>3. c = next
      BY <1>6, <3>1, <3>2 DEF Listed
    <3> QED
      BY <3>1, <3>2, <3>3, TreeAssumption
  <2> QED
    BY <2>1, <2>2
<1>8. \E S \in SUBSET main' :
        /\ LineOf(block', main' \ S, child')
        /\ IF oldChild' = NoHash THEN S = {} ELSE Rest(block', S, oldChild')
  BY <1>1, <1>3, <1>4, <1>7
<1>9. /\ (\A p \in Hash : \A i \in DOMAIN children[p] : Stored(children[p][i]))'
      /\ \A h \in node' \ {Genesis} : Listed(h)'
      /\ block'[child'].depth = block'[block'[child'].parent].depth + 1
      /\ Listed(child)' /\ tip' = child' /\ tip' = dagTip'
  BY <1>1, <1>2 DEF MainInv, Stored, Listed
<1>10. MainInv'
  BY <1>1, <1>8, <1>9 DEF MainInv
<1> QED
  BY <1>5, <1>10

\* addBlock returns when nothing of the old main list is left.
LEMMA LineEnd ==
  ASSUME ChainInv, FirstInv', EndWalk
  PROVE  LineInv'
<1> USE DEF Opening, Adding, Flushing, Linked, db, memory, history
<1>1. /\ pc = "down" /\ pc' = "idle" /\ oldChild = NoHash
      /\ UNCHANGED <<block, node, main, children, dagTip, tip, torn, mixed, flushes>>
  BY DEF EndWalk, Return
<1>2. SUFFICES ASSUME Intact, flushes = 0 /\ ListInv /\ MainInv PROVE ListInv' /\ MainInv'
  BY <1>1, AddKeeps
<1>3. tip = child /\ tip = dagTip /\ dagTip \in node /\ LineOf(block, main, dagTip)
  <2>1. main \ {} = main
    OBVIOUS
  <2> QED
    BY <1>1, <1>2, <2>1 DEF MainInv, ChainInv, FirstInv, SavedInv, Intact
<1>4. ListInv'
  BY SMT, <1>1, <1>2, <1>3
  DEF ListInv, OnceListed, ListedBelow, Owned, Stored, NodeDepths, MainListed, Listed
<1>5. /\ (\A p \in Hash : \A i \in DOMAIN children[p] : Stored(children[p][i]))'
      /\ \A h \in node' \ {Genesis} : Listed(h)'
  BY <1>1, <1>2 DEF MainInv, Stored, Listed
<1>6. MainInv'
  BY <1>1, <1>3, <1>5 DEF MainInv
<1> QED
  BY <1>4, <1>6

\* Flush goes on with the first block of what is left of the main list.
LEMMA FlushNext ==
  ASSUME FirstInv, ~torn, ListInv, Genesis \in main, NEW p \in Hash,
         NEW c, c = FindMainListChild(node, main, children, p, NoHash),
         \/ main = {Genesis}
         \/ \E top \in main \ {Genesis} :
              block[top].parent = p /\ Rest(block, main \ {Genesis}, top)
  PROVE  IF c = NoHash THEN main = {Genesis} ELSE Rest(block, main \ {Genesis}, c)
<1> DEFINE T == main \ {Genesis}
<1>1. /\ children \in [Hash -> Seq(Hash)] /\ node \in SUBSET Hash /\ main \in SUBSET Hash
      /\ NoGenesis(children) /\ main \subseteq node /\ T \in SUBSET main
  BY DEF FirstInv, TypeInv, TableType, SavedInv, ListInv, MainListed
<1>2. \A i \in DOMAIN children[p] :
        children[p][i] \in node => block[children[p][i]].parent = p
  BY DEF ListInv, ListedBelow, FirstInv, StoreInv
<1>3. \A h \in main \ (T \cup {Genesis}) : block[h].parent # p
  OBVIOUS
<1>4. /\ T = {} => c = NoHash
      /\ \A next \in T :
           /\ block[next].parent = p /\ Rest(block, T, next)
           /\ \E i \in DOMAIN children[p] : children[p][i] = next
           => c = next
  <2> HIDE DEF T
  <2>1. IsNext(FindMainListChild(node, main, children, p, NoHash), block, T, children, p)
    BY <1>1, <1>2, <1>3, FoundRest
  <2> QED
    BY <2>1 DEF IsNext
<1>5. CASE main = {Genesis}
  <2>1. T = {}
    BY <1>5
  <2> QED
    BY <1>4, <1>5, <2>1
<1>6. CASE main # {Genesis}
  <2>1. PICK top \in T : block[top].parent = p /\ Rest(block, T, top)
    BY <1>6
  <2>2. Listed(top) /\ top \in Hash
    BY <1>1, <2>1 DEF ListInv, MainListed
  <2>3. c = top
    BY <1>4, <2>1, <2>2 DEF Listed
  <2> QED
    BY <2>1, <2>2, <2>3, TreeAssumption
<1> QED
  BY <1>5, <1>6

\* Flush takes the main list below the genesis block, which is a line.
LEMMA LineFlush ==
  ASSUME ChainInv, FirstInv', FlushTip
  PROVE  LineInv'
<1> USE DEF Opening, Adding, Flushing, Linked
<1>1. /\ pc = "idle" /\ pc' = "flushNode" /\ flushes' = flushes + 1
      /\ tip' = Genesis /\ dagTip' = Genesis
      /\ oldChild' = FindMainListChild(node, main, children, Genesis, NoHash)
      /\ UNCHANGED <<block, node, main, children, torn, mixed>>
  BY DEF FlushTip
<1>2. flushes' > 0 /\ flushes' # 0 /\ (flushes # 0 => flushes > 0)
  <2>1. flushes \in Nat
    BY DEF ChainInv, FirstInv, TypeInv, TableType
  <2> QED
    BY SMT, <1>1, <2>1
<1>3. SUFFICES ASSUME Intact PROVE ListInv' /\ FlushInv'
  BY <1>1, <1>2 DEF LineInv, Intact
<1>4. ListInv /\ (flushes = 0 => MainInv) /\ (flushes # 0 => FlushInv)
  BY <1>2, <1>3 DEF ChainInv, LineInv
<1>5. ListInv'
  BY SMT, <1>1, <1>4
  DEF ListInv, OnceListed, ListedBelow, Owned, Stored, NodeDepths, MainListed, Listed
<1>6. /\ Genesis \in main
      /\ \/ main = {Genesis}
         \/ \E top \in main \ {Genesis} :
              block[top].parent = Genesis /\ Rest(block, main \ {Genesis}, top)
  <2>1. CASE flushes = 0
    <3> DEFINE d(h) == block[h].depth
               T == {h \in main : d(h) > d(Genesis)}
    <3>1. LineOf(block, main, dagTip)
      BY <1>1, <1>4, <2>1 DEF MainInv
    <3>2. /\ Genesis \in main /\ \A h \in main : d(h) \in Nat /\ d(Genesis) <= d(h)
          /\ \A g, h \in main : d(g) = d(h) => g = h
      BY <3>1, GenesisLowest DEF LineOf
    <3>3. T # {} => \E top \in T : block[top].parent = Genesis /\ Rest(block, T, top)
      BY SMT, <3>1, <3>2, Cut
    <3> HIDE DEF d
    <3>4. T = main \ {Genesis}
      BY SMT, <3>2
    <3> HIDE DEF T
    <3> QED
      BY <3>2, <3>3, <3>4
  <2>2. CASE flushes # 0
    BY <1>1, <1>4, <2>2 DEF FlushInv
  <2> QED
    BY <2>1, <2>2
<1>7. IF oldChild' = NoHash THEN main = {Genesis} ELSE Rest(block, main \ {Genesis}, oldChild')
  BY <1>1, <1>3, <1>4, <1>6, FlushNext, TreeAssumption DEF ChainInv, Intact
<1> QED
  BY <1>1, <1>5, <1>6, <1>7 DEF FlushInv

\* Flush deletes the node of the block at hand: what is left begins below it.
LEMMA LineFlushNode ==
  ASSUME ChainInv, FirstInv', FlushNode
  PROVE  LineInv'
<1> USE DEF Opening, Adding, Flushing, Linked, memory, call, history
<1>1. /\ pc = "flushNode" /\ pc' = "flushBlock" /\ oldChild # NoHash
      /\ node' = node \ {oldChild} /\ main' = main \ {oldChild}
      /\ UNCHANGED <<block, children, dagTip, tip, oldChild, torn, mixed, flushes>>
  BY DEF FlushNode
<1>2. flushes > 0 /\ flushes # 0
  <2>1. flushes > 0
    BY <1>1 DEF ChainInv, FirstInv, WalkInv
  <2> QED
    BY SMT, <2>1
<1>3. SUFFICES ASSUME Intact PROVE ListInv' /\ FlushInv'
  BY <1>1, <1>2 DEF LineInv, Intact
<1>4. ListInv /\ FlushInv
  BY <1>2, <1>3 DEF ChainInv, LineInv
<1>5. Rest(block, main \ {Genesis}, oldChild) /\ oldChild # Genesis /\ Genesis \in main
  BY <1>1, <1>3, <1>4 DEF FlushInv, ChainInv, FirstInv, SavedInv, Intact
<1>6. ListInv'
  BY SMT, <1>1, <1>4, <1>5
  DEF ListInv, OnceListed, ListedBelow, Owned, Stored, NodeDepths, MainListed, Listed
<1>7. \/ main' = {Genesis}
      \/ \E top \in main' \ {Genesis} :
           block[top].parent = oldChild /\ Rest(block, main' \ {Genesis}, top)
  <2> DEFINE T == main \ {Genesis}
             R == T \ {oldChild}
  <2>1. main' \ {Genesis} = R /\ Genesis \in main'
    BY <1>1, <1>5
  <2>2. R # {} => \E top \in R : block[top].parent = oldChild /\ Rest(block, R, top)
    <3> HIDE DEF T
    <3>1. Rest(block, T, oldChild)
      BY <1>5 DEF T
    <3> QED
      BY <3>1, RestShrinks
  <2>3. R = {} => main' = {Genesis}
    BY <2>1
  <2> HIDE DEF R
  <2> QED
    BY <2>1, <2>2, <2>3
<1> QED
  BY <1>1, <1>4, <1>5, <1>6, <1>7 DEF FlushInv

\* Flush deletes its block, which is nobody's on the main list, and searches below.
LEMMA LineFlushBlock ==
  ASSUME ChainInv, FirstInv', FlushBlock
  PROVE  LineInv'
<1> USE DEF Opening, Adding, Flushing, Linked, memory, history
<1>1. /\ pc = "flushBlock" /\ pc' = "flushNode"
      /\ block' = [block EXCEPT ![oldChild] = NoBlock]
      /\ oldChild' = FindMainListChild(node, main, children, oldChild, NoHash)
      /\ UNCHANGED <<node, main, children, dagTip, tip, torn, mixed, flushes>>
  BY DEF FlushBlock
<1>2. flushes > 0 /\ flushes # 0
  <2>1. flushes > 0
    BY <1>1 DEF ChainInv, FirstInv, WalkInv
  <2> QED
    BY SMT, <2>1
<1>3. SUFFICES ASSUME Intact PROVE ListInv' /\ FlushInv'
  BY <1>1, <1>2 DEF LineInv, Intact
<1>4. ListInv /\ FlushInv
  BY <1>2, <1>3 DEF ChainInv, LineInv
<1>5. /\ oldChild \in Hash \ node /\ main \subseteq node /\ node \in SUBSET Hash
      /\ block'[oldChild] = NoBlock /\ \A h \in Hash \ {oldChild} : block'[h] = block[h]
      /\ children \in [Hash -> Seq(Hash)]
  BY <1>1, <1>4
  DEF ChainInv, FirstInv, StoreInv, TypeInv, TableType, ListInv, MainListed
<1>6. \A h \in node : block'[h] = block[h]
  BY <1>5
<1>7. OnceListed' /\ (Genesis \in node' \/ pc' = "genesisNode" => block'[Genesis] = GenesisBlock)
  BY SMT, <1>1, <1>4, <1>6 DEF ListInv, OnceListed
<1>8. ListedBelow'
  <2> SUFFICES ASSUME NEW p \in Hash, NEW i \in DOMAIN children[p],
                      block'[children[p][i]] # NoBlock
               PROVE  block'[children[p][i]].parent = p /\ children[p][i] \in node
    BY ZenonT(40), <1>1 DEF ListedBelow, Owned, Stored
  <2>1. children[p][i] \in Hash
    BY SMT, <1>5
  <2>2. children[p][i] # oldChild /\ block'[children[p][i]] = block[children[p][i]]
    BY <1>5, <2>1
  <2> QED
    BY <1>1, <1>4, <2>2 DEF ListInv, ListedBelow, Owned, Stored
<1>9. NodeDepths' /\ MainListed'
  <2>1. NodeDepths'
    BY SMT, <1>1, <1>4, <1>6 DEF ListInv, NodeDepths
  <2>2. MainListed'
    BY <1>1, <1>4, <1>5, <1>6, ListedKept DEF ListInv, MainListed
  <2> QED
    BY <2>1, <2>2
<1>10. IF oldChild' = NoHash THEN main = {Genesis} ELSE Rest(block, main \ {Genesis}, oldChild')
  <2>1. /\ Genesis \in main /\ ~torn
        /\ \/ main = {Genesis}
           \/ \E top \in main \ {Genesis} :
                block[top].parent = oldChild /\ Rest(block, main \ {Genesis}, top)
    BY <1>1, <1>3, <1>4 DEF FlushInv, Intact
  <2> QED
    BY <1>1, <1>4, <1>5, <2>1, FlushNext DEF ChainInv
<1>11. oldChild' # NoHash => Rest(block', main \ {Genesis}, oldChild')
  <2>1. \A h \in main \ {Genesis} : block'[h] = block[h]
    BY <1>5, <1>6
  <2> QED
    BY <1>10, <2>1, SameLines
<1>12. FlushInv'
  BY <1>1, <1>4, <1>10, <1>11 DEF FlushInv
<1> QED
  BY <1>7, <1>8, <1>9, <1>12 DEF ListInv

\* The steps that change neither the tables nor the main list.
LEMMA LineOther ==
  ASSUME ChainInv, FirstInv',
         OpenAtTip \/ OpenFails \/ EndFlush \/ Restart \/ Panic \/ UNCHANGED vars
  PROVE  LineInv'
<1> USE DEF Opening, Adding, Flushing, Linked, db, memory, call, history
<1>1. /\ UNCHANGED <<block, node, main, children, dagTip, mixed, flushes>>
      /\ torn' = torn \/ torn' = (torn \/ pc # "idle")
  <2>1. CASE OpenAtTip \/ OpenFails \/ EndFlush
    BY <2>1 DEF OpenAtTip, OpenFails, EndFlush
  <2>2. CASE Restart \/ Panic \/ UNCHANGED vars
    BY <2>2 DEF Restart, Panic, vars
  <2> QED
    BY <2>1, <2>2
<1>2. SUFFICES ASSUME Intact'
               PROVE  ListInv' /\ (flushes = 0 => MainInv') /\ (flushes > 0 => FlushInv')
  BY <1>1 DEF ChainInv, LineInv
<1>3. Intact /\ ListInv /\ (flushes = 0 => MainInv) /\ (flushes > 0 => FlushInv)
  <2>1. ~torn
    BY ZenonT(40), <1>1, <1>2 DEF Intact
  <2> QED
    BY <1>1, <1>2, <2>1 DEF Intact, ChainInv, LineInv
<1>4. CASE UNCHANGED vars
  <2>1. ListInv'
    BY SMT, <1>3, <1>4
    DEF vars, ListInv, OnceListed, ListedBelow, Owned, Stored, NodeDepths, MainListed, Listed
  <2>2. flushes = 0 => MainInv'
    BY <1>3, <1>4 DEF vars, MainInv, Climbed, Listed, Stored
  <2>3. flushes > 0 => FlushInv'
    BY <1>3, <1>4 DEF vars, FlushInv
  <2> QED
    BY <2>1, <2>2, <2>3
<1>5. CASE OpenFails \/ Panic
  BY <1>2, <1>5 DEF OpenFails, Panic, FirstInv, SavedInv, WalkInv, Intact
<1>6. CASE OpenAtTip \/ EndFlush \/ Restart
  <2>1. /\ pc' \in {"idle", "open"} /\ pc \in {"idle", "open", "flushNode"}
        /\ pc = "flushNode" => pc' = "idle" /\ oldChild = NoHash /\ UNCHANGED tip
        /\ pc # "flushNode" => dagTip # NoHash
        /\ pc' = "open" => pc = "idle" /\ tip' = Genesis
        /\ pc # "flushNode" /\ pc' = "idle" => pc = "open" /\ tip' = dagTip
    <3>1. dagTip # NoHash \/ pc # "idle"
      BY <1>3, TreeAssumption DEF ChainInv, FirstInv, TypeInv, TableType, SavedInv, Intact
    <3> QED
      BY <1>2, <1>6, <3>1 DEF OpenAtTip, EndFlush, Return, Restart, Intact
  <2>2. ListInv'
    BY SMT, <1>1, <1>3, <2>1
    DEF ListInv, OnceListed, ListedBelow, Owned, Stored, NodeDepths, MainListed, Listed
  <2>3. ASSUME flushes = 0 PROVE MainInv'
    <3>1. pc # "flushNode"
      <4>1. pc = "flushNode" => flushes > 0
        BY DEF ChainInv, FirstInv, WalkInv
      <4> QED
        BY SMT, <2>3, <4>1
    <3>2. /\ (\A p \in Hash : \A i \in DOMAIN children[p] : Stored(children[p][i]))'
          /\ \A h \in node' \ {Genesis} : Listed(h)'
          /\ LineOf(block', main', dagTip')
      BY <1>1, <1>3, <2>1, <2>3, <3>1 DEF MainInv, Stored, Listed
    <3> QED
      BY <1>1, <2>1, <3>1, <3>2 DEF MainInv
  <2>4. ASSUME flushes > 0 PROVE FlushInv'
    BY <1>1, <1>3, <2>1, <2>4 DEF FlushInv
  <2> QED
    BY <2>2, <2>3, <2>4
<1> QED
  BY <1>4, <1>5, <1>6

\* The chain starts on an empty database.
LEMMA LineInit == Init => LineInv
<1> SUFFICES ASSUME Init PROVE ListInv /\ MainInv /\ ~mixed /\ ~(flushes > 0)
  BY DEF LineInv
<1>1. \A h \in Hash : DOMAIN children[h] = {}
  <2>1. \A h \in Hash : children[h] = <<>>
    BY DEF Init
  <2>2. DOMAIN <<>> = {}
    BY SMT
  <2> QED
    BY <2>1, <2>2
<1>2. ~(flushes > 0) /\ ~mixed
  BY SMT DEF Init
<1>3. ListInv
  BY <1>1 DEF Init, ListInv, OnceListed, ListedBelow, NodeDepths, MainListed
<1>4. MainInv
  BY <1>1 DEF Init, MainInv, Adding, Linked
<1> QED
  BY <1>2, <1>3, <1>4

\* Every step keeps the invariant.
LEMMA ChainInvStep == ChainInv /\ [Next]_vars => ChainInv'
<1> SUFFICES ASSUME ChainInv, [Next]_vars PROVE ChainInv'
  OBVIOUS
<1>1. FirstInv'
  BY FirstInvStep DEF ChainInv
<1>2. LineInv'
  BY <1>1, LineOpen, LineBegin, LineLink, LineTip, LineUp, LineSave, LineDown, LineEnd,
     LineSide, LineFlush, LineFlushNode, LineFlushBlock, LineOther
  DEF Next, Open, Add, Flush
<1> QED
  BY <1>1, <1>2 DEF ChainInv

\* The invariant holds in every state.
LEMMA ChainInvHolds == Spec => []ChainInv
<1>1. Init => ChainInv
  BY FirstInvInit, LineInit DEF ChainInv
<1> QED
  BY <1>1, ChainInvStep, PTL DEF Spec

\* addBlock and Flush of the first chain leave the main list flag on the tip and
\* its ancestors and on no other block, over restarts between calls, also where a
\* block lighter than the old tip takes over after one.
THEOREM FirstMainListIsCanonical == Spec => []CanonicalMainList
<1>1. ASSUME ChainInv, pc = "idle", Intact PROVE IsCanonical(block, main, tip)
  <2>1. ListInv /\ (flushes = 0 => MainInv) /\ (flushes > 0 => FlushInv)
    BY <1>1 DEF ChainInv, LineInv
  <2>2. \A h \in main : block[h] # NoBlock
    BY <1>1, <2>1 DEF ChainInv, FirstInv, StoreInv, Stored, ListInv, MainListed
  <2>3. CASE flushes = 0
    <3>1. LineOf(block, main, tip)
      BY <1>1, <2>1, <2>3 DEF MainInv
    <3>2. \A h \in main \ {Genesis} :
            block[h].parent \in main /\ block[block[h].parent].depth < block[h].depth
      <4> SUFFICES ASSUME NEW h \in main \ {Genesis}
                   PROVE  /\ block[h].parent \in main
                          /\ block[block[h].parent].depth < block[h].depth
        OBVIOUS
      <4>1. /\ block[h].parent \in main /\ block[block[h].parent].depth \in Nat
            /\ block[h].depth = block[block[h].parent].depth + 1
        BY <3>1 DEF LineOf
      <4> QED
        BY SMT, <4>1
    <3> QED
      BY <2>2, <3>1, <3>2 DEF LineOf, IsCanonical
  <2>4. CASE flushes # 0
    <3>1. flushes > 0
      <4>1. flushes \in Nat
        BY <1>1 DEF ChainInv, FirstInv, TypeInv, TableType
      <4> QED
        BY SMT, <2>4, <4>1
    <3>2. main = {Genesis} /\ tip = Genesis /\ block[Genesis].depth \in Nat
      BY <1>1, <2>1, <3>1 DEF FlushInv, ListInv, MainListed, NodeDepths
    <3> QED
      BY SMT, <2>2, <3>2 DEF IsCanonical
  <2> QED
    BY <2>3, <2>4
<1>2. ChainInv => CanonicalMainList
  BY <1>1 DEF CanonicalMainList
<1> QED
  BY <1>2, ChainInvHolds, PTL

-----------------------------------------------------------------------------
(***************************************************************************)
(* Each uncle once.  These facts need less than a tree: a flush leaves     *)
(* side branches whose parents are gone.                                   *)
(***************************************************************************)

\* Nothing is listed twice.
Once(list) == \A i, j \in DOMAIN list : list[i] = list[j] => i = j

\* Two lists that share nothing are one list.
LEMMA JoinOnce ==
  ASSUME NEW P, NEW Q, P \cap Q = {}, NEW s \in Seq(P), NEW t \in Seq(Q), Once(s), Once(t)
  PROVE  s \o t \in Seq(P \cup Q) /\ Once(s \o t)
<1>1. /\ s \in Seq(P \cup Q) /\ t \in Seq(P \cup Q) /\ Len(s) \in Nat /\ Len(t) \in Nat
      /\ DOMAIN s = 1 .. Len(s) /\ DOMAIN t = 1 .. Len(t)
  BY SMT
<1>2. /\ s \o t \in Seq(P \cup Q) /\ DOMAIN (s \o t) = 1 .. Len(s) + Len(t)
      /\ \A i \in 1 .. Len(s) + Len(t) :
           (s \o t)[i] = IF i <= Len(s) THEN s[i] ELSE t[i - Len(s)]
  BY SMT, <1>1
<1>3. ASSUME NEW i \in 1 .. Len(s) + Len(t)
      PROVE  IF i <= Len(s) THEN i \in DOMAIN s /\ (s \o t)[i] \in P
             ELSE i - Len(s) \in DOMAIN t /\ (s \o t)[i] \in Q
  <2>1. CASE i <= Len(s)
    <3>1. i \in DOMAIN s
      BY SMT, <1>1, <2>1
    <3> QED
      BY SMT, <1>2, <2>1, <3>1
  <2>2. CASE ~(i <= Len(s))
    <3>1. i - Len(s) \in DOMAIN t
      BY SMT, <1>1, <2>2
    <3> QED
      BY SMT, <1>2, <2>2, <3>1
  <2> QED
    BY <2>1, <2>2
<1>4. ASSUME NEW i \in 1 .. Len(s) + Len(t), NEW j \in 1 .. Len(s) + Len(t),
             (s \o t)[i] = (s \o t)[j]
      PROVE  i = j
  <2>1. CASE i <= Len(s) /\ j <= Len(s)
    BY <1>2, <1>3, <1>4, <2>1 DEF Once
  <2>2. CASE ~(i <= Len(s)) /\ ~(j <= Len(s))
    <3>1. i - Len(s) = j - Len(s)
      BY <1>2, <1>3, <1>4, <2>2 DEF Once
    <3> QED
      BY SMT, <1>1, <3>1
  <2>3. CASE (i <= Len(s)) # (j <= Len(s))
    BY SMT, <1>3, <1>4, <2>3
  <2> QED
    BY <2>1, <2>2, <2>3
<1> QED
  BY <1>2, <1>4 DEF Once

\* Lists of different things, one after the other, list nothing twice.
LEMMA ConcatOnce ==
  ASSUME NEW S, NEW n \in Nat, NEW part \in [1..n -> SUBSET S],
         \A i, j \in 1..n : i # j => part[i] \cap part[j] = {},
         NEW lists \in [1..n -> Seq(S)],
         \A i \in 1..n : lists[i] \in Seq(part[i]) /\ Once(lists[i])
  PROVE  Concat(lists) \in Seq(S) /\ Once(Concat(lists))
<1>1. PICK upTo : Concat(lists) = upTo[n] /\ IsJoin(upTo, lists, n)
  BY ConcatWalk
<1> DEFINE First(i) == {e \in S : \E k \in 1..i : e \in part[k]}
           Claim(i) == upTo[i] \in Seq(First(i)) /\ Once(upTo[i])
           Bad == {i \in Nat : i <= n /\ ~Claim(i)}
<1>2. Claim(0)
  <2>1. upTo[0] = <<>>
    BY <1>1 DEF IsJoin
  <2> QED
    BY SMT, <2>1 DEF Once
<1>3. ASSUME NEW i \in 1..n, Claim(i - 1) PROVE Claim(i)
  <2>1. upTo[i] = upTo[i - 1] \o lists[i] /\ lists[i] \in Seq(part[i]) /\ Once(lists[i])
    BY <1>1 DEF IsJoin
  <2>2. First(i - 1) \cap part[i] = {}
    <3>1. \A k \in 1 .. (i - 1) : k \in 1..n /\ k # i
      BY SMT
    <3> QED
      BY <3>1
  <2>3. First(i - 1) \cup part[i] \subseteq First(i)
    <3>1. i \in 1..i /\ \A k \in 1 .. (i - 1) : k \in 1..i
      BY SMT
    <3>2. part[i] \subseteq S
      OBVIOUS
    <3> QED
      BY <3>1, <3>2
  <2> HIDE DEF First
  <2>4. upTo[i] \in Seq(First(i - 1) \cup part[i]) /\ Once(upTo[i])
    <3>1. upTo[i - 1] \in Seq(First(i - 1)) /\ Once(upTo[i - 1])
      BY <1>3
    <3>2. /\ upTo[i - 1] \o lists[i] \in Seq(First(i - 1) \cup part[i])
          /\ Once(upTo[i - 1] \o lists[i])
      BY <2>1, <2>2, <3>1, JoinOnce
    <3> QED
      BY <2>1, <3>2
  <2>5. ASSUME NEW P, NEW Q, P \subseteq Q, NEW s \in Seq(P) PROVE s \in Seq(Q)
    BY SMT, <2>5
  <2> QED
    BY ZenonT(60), <2>3, <2>4, <2>5
<1> HIDE DEF Claim
<1>4. Bad = {}
  <2> SUFFICES ASSUME Bad # {} PROVE FALSE
    OBVIOUS
  <2>1. PICK i \in Bad : \A j \in Bad : i <= j
    BY LeastNumberPrinciple
  <2>2. i # 0
    BY <1>2
  <2>3. i - 1 \in Nat /\ i - 1 \notin Bad /\ i \in 1..n
    BY SMT, <2>1, <2>2
  <2>4. Claim(i - 1)
    BY SMT, <2>3
  <2> QED
    BY <1>3, <2>1, <2>3, <2>4
<1>5. Claim(n)
  BY SMT, <1>4
<1>6. First(n) \subseteq S
  OBVIOUS
<1> HIDE DEF First
<1> QED
  BY SMT, <1>1, <1>5, <1>6 DEF Claim

\* Chain nodes whose depths count the generations, each as far as it is linked.
IsForest(nodes, blocks) ==
  /\ nodes \subseteq Hash
  /\ \A h \in nodes :
       /\ blocks[h].depth \in Nat
       /\ blocks[h].parent \in nodes => blocks[h].depth = blocks[blocks[h].parent].depth + 1

\* Lists that name no child twice, and under its own parent where it is stored.
ForestKids(nodes, blocks, offspring) ==
  \A p \in nodes :
    /\ offspring[p] \in Seq(Hash)
    /\ Once(offspring[p])
    /\ \A i \in DOMAIN offspring[p] :
         blocks[offspring[p][i]] # NoBlock =>
           offspring[p][i] \in nodes /\ blocks[offspring[p][i]].parent = p

\* Depth counts the generations of a walk that stays in the forest.
LEMMA ForestDepth ==
  ASSUME NEW nodes, NEW blocks, IsForest(nodes, blocks), NEW h \in nodes, NEW k \in Nat,
         Up(nodes, blocks, h, k) \in nodes
  PROVE  /\ blocks[h].depth \in Nat /\ blocks[Up(nodes, blocks, h, k)].depth \in Nat
         /\ blocks[h].depth = blocks[Up(nodes, blocks, h, k)].depth + k
<1> DEFINE g(i) == Up(nodes, blocks, h, i)
           Claim(i) == g(i) \in nodes => blocks[h].depth = blocks[g(i)].depth + i
           Bad == {i \in Nat : ~Claim(i)}
<1>0. NoHash \notin nodes /\ \A f \in nodes : blocks[f].depth \in Nat
  BY TreeAssumption DEF IsForest
<1>1. Claim(0)
  <2>1. g(0) = h
    BY <1>0, UpStep
  <2> QED
    BY SMT, <1>0, <2>1
<1>2. ASSUME NEW i \in Nat, Claim(i) PROVE Claim(i + 1)
  <2> SUFFICES ASSUME g(i + 1) \in nodes PROVE blocks[h].depth = blocks[g(i + 1)].depth + (i + 1)
    OBVIOUS
  <2>1. g(i + 1) = IF g(i) \in nodes /\ blocks[g(i)].parent \in nodes THEN blocks[g(i)].parent ELSE NoHash
    BY <1>0, UpNext
  <2> HIDE DEF g
  <2>2. g(i) \in nodes /\ blocks[g(i)].parent \in nodes /\ g(i + 1) = blocks[g(i)].parent
    BY <1>0, <2>1
  <2>3. blocks[g(i)].depth = blocks[g(i + 1)].depth + 1
    BY <2>2 DEF IsForest
  <2>4. blocks[h].depth = blocks[g(i)].depth + i
    BY <1>2, <2>2
  <2>5. blocks[h].depth \in Nat /\ blocks[g(i)].depth \in Nat /\ blocks[g(i + 1)].depth \in Nat
    BY <1>0, <2>2
  <2> QED
    BY SMT, <2>3, <2>4, <2>5
<1> HIDE DEF Claim
<1>3. Bad = {}
  <2> SUFFICES ASSUME Bad # {} PROVE FALSE
    OBVIOUS
  <2>1. PICK i \in Bad : \A j \in Bad : i <= j
    BY LeastNumberPrinciple
  <2>2. i # 0
    BY <1>1, <2>1
  <2>3. i - 1 \in Nat /\ i - 1 \notin Bad /\ (i - 1) + 1 = i
    BY SMT, <2>1, <2>2
  <2> QED
    BY <1>2, <2>1, <2>3
<1>4. Claim(k)
  BY <1>3
<1> QED
  BY <1>0, <1>4 DEF Claim

\* The nodes that hang below g, g included.
Under(nodes, blocks, g) == {u \in nodes : \E j \in Nat : Up(nodes, blocks, u, j) = g}

\* The branches below two children of one block share nothing.
LEMMA BranchesApart ==
  ASSUME NEW nodes, NEW blocks, IsForest(nodes, blocks), NEW a \in nodes,
         NEW b \in nodes, NEW c \in nodes, blocks[b].parent = a, blocks[c].parent = a, b # c
  PROVE  Under(nodes, blocks, b) \cap Under(nodes, blocks, c) = {}
<1> SUFFICES ASSUME NEW u \in nodes, NEW j \in Nat, NEW k \in Nat,
                    Up(nodes, blocks, u, j) = b, Up(nodes, blocks, u, k) = c
             PROVE  FALSE
  BY DEF Under
<1>1. /\ blocks[u].depth = blocks[b].depth + j /\ blocks[u].depth = blocks[c].depth + k
      /\ blocks[b].depth \in Nat /\ blocks[c].depth \in Nat
  BY SMT, ForestDepth
<1>2. blocks[b].depth = blocks[c].depth
  BY DEF IsForest
<1>3. j = k
  BY SMT, <1>1, <1>2
<1> QED
  BY <1>3

\* A child followed by what is found below it lists nothing twice.
LEMMA BranchOnce ==
  ASSUME NEW nodes, NEW blocks, IsForest(nodes, blocks), NEW g \in nodes, NEW r \in Nat, NEW m,
         NEW list \in Seq(Below(nodes, blocks, g, r, m)), Once(list)
  PROVE  <<g>> \o list \in Seq(Under(nodes, blocks, g)) /\ Once(<<g>> \o list)
<1> DEFINE B == Below(nodes, blocks, g, r, m)
           U == Under(nodes, blocks, g)
<1>0. NoHash \notin nodes
  BY TreeAssumption DEF IsForest
<1>1. g \in U
  <2>1. Up(nodes, blocks, g, 0) = g
    BY <1>0, UpStep
  <2> QED
    BY <2>1 DEF Under
<1>2. B \subseteq U
  BY SMT DEF Below, Under
<1>3. {g} \cap B = {}
  <2> SUFFICES ASSUME g \in B PROVE FALSE
    OBVIOUS
  <2>1. PICK j \in 1..r : Up(nodes, blocks, g, j) = g
    BY DEF Below
  <2>2. j \in Nat /\ j >= 1
    BY SMT
  <2>3. blocks[g].depth \in Nat /\ blocks[g].depth = blocks[g].depth + j
    BY SMT, <2>1, <2>2, ForestDepth
  <2> QED
    BY SMT, <2>2, <2>3
<1>4. <<g>> \in Seq({g}) /\ Once(<<g>>)
  BY SMT DEF Once
<1> HIDE DEF B, U
<1>5. list \in Seq(B)
  BY DEF B
<1>6. <<g>> \o list \in Seq({g} \cup B) /\ Once(<<g>> \o list)
  BY <1>3, <1>4, <1>5, JoinOnce
<1>7. {g} \cup B \subseteq U
  BY <1>1, <1>2
<1>8. <<g>> \o list \in Seq(U)
  BY SMT, <1>6, <1>7
<1> QED
  BY <1>6, <1>8 DEF U

\* One list per child of a, each of that child's branch or empty, joined.
LEMMA BranchesOnce ==
  ASSUME NEW nodes, NEW blocks, IsForest(nodes, blocks), NEW a \in nodes, NEW S,
         NEW kids \in Seq(Hash), Once(kids),
         NEW lists \in [1..Len(kids) -> Seq(S)],
         \A i \in 1..Len(kids) :
           \/ lists[i] = <<>>
           \/ /\ kids[i] \in nodes /\ blocks[kids[i]].parent = a
              /\ lists[i] \in Seq(Under(nodes, blocks, kids[i])) /\ Once(lists[i])
  PROVE  Concat(lists) \in Seq(S) /\ Once(Concat(lists))
<1> DEFINE n == Len(kids)
           U(i) == Under(nodes, blocks, kids[i])
           part == [i \in 1..n |-> IF lists[i] = <<>> THEN {} ELSE S \cap U(i)]
<1>0. n \in Nat /\ DOMAIN kids = 1..n
  BY SMT
<1>1. part \in [1..n -> SUBSET S]
  OBVIOUS
<1>2. ASSUME NEW i \in 1..n, NEW j \in 1..n, i # j PROVE part[i] \cap part[j] = {}
  <2>1. CASE lists[i] = <<>> \/ lists[j] = <<>>
    BY <2>1
  <2>2. CASE lists[i] # <<>> /\ lists[j] # <<>>
    <3>1. /\ kids[i] \in nodes /\ blocks[kids[i]].parent = a
          /\ kids[j] \in nodes /\ blocks[kids[j]].parent = a
      BY <2>2
    <3>2. kids[i] # kids[j]
      BY <1>0, <1>2 DEF Once
    <3>3. U(i) \cap U(j) = {}
      BY <3>1, <3>2, BranchesApart
    <3> HIDE DEF U
    <3> QED
      BY <2>2, <3>3
  <2> QED
    BY <2>1, <2>2
<1>3. ASSUME NEW i \in 1..n PROVE lists[i] \in Seq(part[i]) /\ Once(lists[i])
  <2>1. CASE lists[i] = <<>>
    BY SMT, <2>1 DEF Once
  <2>2. CASE lists[i] # <<>>
    <3>1. lists[i] \in Seq(U(i)) /\ Once(lists[i]) /\ lists[i] \in Seq(S)
      BY <2>2
    <3>2. part[i] = S \cap U(i)
      BY <2>2
    <3> HIDE DEF U, part
    <3>3. lists[i] \in Seq(S \cap U(i))
      BY SMT, <3>1
    <3> QED
      BY <3>1, <3>2, <3>3
  <2> QED
    BY <2>1, <2>2
<1> HIDE DEF n, part
<1>4. lists \in [1..n -> Seq(S)]
  BY DEF n
<1> QED
  BY <1>0, <1>1, <1>2, <1>3, <1>4, ConcatOnce

\* findNonDirectAncestors lists blocks below child, and none twice.
LEMMA NonDirectOnce ==
  ASSUME NEW nodes, NEW blocks, NEW offspring,
         IsForest(nodes, blocks), ForestKids(nodes, blocks, offspring),
         NEW c \in nodes, NEW rem \in Nat, NEW m
  PROVE  /\ FindNonDirectAncestors(nodes, blocks, offspring, c, rem, m)
              \in Seq(Below(nodes, blocks, c, rem, m))
         /\ Once(FindNonDirectAncestors(nodes, blocks, offspring, c, rem, m))
<1>0. NoHash \notin nodes /\ nodes \subseteq Hash
  BY TreeAssumption DEF IsForest
<1>1. PICK below :
        /\ FindNonDirectAncestors(nodes, blocks, offspring, c, rem, m) = below[rem][c]
        /\ IsWalk(below, nodes, blocks, offspring, rem, m)
  BY <1>0, NonDirectWalk
<1>2. ASSUME NEW r \in Nat, NEW prev,
             \A g \in nodes : prev[g] \in Seq(Below(nodes, blocks, g, r, m)) /\ Once(prev[g]),
             NEW h \in nodes
      PROVE  /\ Concat(Branches(blocks, offspring[h], prev, m))
                  \in Seq(Below(nodes, blocks, h, r + 1, m))
             /\ Once(Concat(Branches(blocks, offspring[h], prev, m)))
  <2> DEFINE lists == Branches(blocks, offspring[h], prev, m)
             kids == offspring[h]
             S == Below(nodes, blocks, h, r + 1, m)
  <2>1. /\ kids \in Seq(Hash) /\ Once(kids)
        /\ \A i \in DOMAIN kids : blocks[kids[i]] # NoBlock =>
                                    kids[i] \in nodes /\ blocks[kids[i]].parent = h
    BY DEF ForestKids
  <2>2. DOMAIN kids = 1..Len(kids)
    BY SMT, <2>1
  <2>3. ASSUME NEW i \in 1..Len(kids)
        PROVE  /\ lists[i] \in Seq(S)
               /\ \/ lists[i] = <<>>
                  \/ /\ kids[i] \in nodes /\ blocks[kids[i]].parent = h
                     /\ lists[i] \in Seq(Under(nodes, blocks, kids[i])) /\ Once(lists[i])
    <3> DEFINE g == kids[i]
    <3>1. lists[i] = IF blocks[g] # NoBlock /\ blocks[g].depth <= m THEN <<g>> \o prev[g] ELSE <<>>
      BY <2>2 DEF Branches
    <3>2. CASE blocks[g] # NoBlock /\ blocks[g].depth <= m
      <4>1. g \in nodes /\ blocks[g].parent = h
        BY <2>1, <2>2, <3>2
      <4>2. prev[g] \in Seq(Below(nodes, blocks, g, r, m)) /\ Once(prev[g])
        BY <1>2, <4>1
      <4>3. <<g>> \o prev[g] \in Seq(S)
        BY <1>0, <3>2, <4>1, <4>2, BelowStep
      <4>4. <<g>> \o prev[g] \in Seq(Under(nodes, blocks, g)) /\ Once(<<g>> \o prev[g])
        BY <4>1, <4>2, BranchOnce
      <4>5. lists[i] = <<g>> \o prev[g]
        BY <3>1, <3>2
      <4> HIDE DEF lists, S
      <4> QED
        BY <4>1, <4>3, <4>4, <4>5
    <3>3. CASE ~(blocks[g] # NoBlock /\ blocks[g].depth <= m)
      <4>1. lists[i] = <<>>
        BY <3>1, <3>3
      <4> HIDE DEF lists, S
      <4> QED
        BY SMT, <4>1
    <3> QED
      BY <3>2, <3>3
  <2>4. lists = [i \in DOMAIN kids |-> lists[i]]
    BY DEF Branches
  <2> HIDE DEF lists, kids, S
  <2>5. lists \in [1..Len(kids) -> Seq(S)]
    BY <2>2, <2>3, <2>4
  <2>6. Concat(lists) \in Seq(S) /\ Once(Concat(lists))
    BY <2>1, <2>3, <2>5, BranchesOnce
  <2> QED
    BY <2>6 DEF lists, kids, S
<1> DEFINE Claim(r) == \A h \in nodes : /\ below[r][h] \in Seq(Below(nodes, blocks, h, r, m))
                                       /\ Once(below[r][h])
           Bad == {r \in Nat : r <= rem /\ ~Claim(r)}
<1>3. Claim(0)
  <2> SUFFICES ASSUME NEW h \in nodes
               PROVE  /\ below[0][h] \in Seq(Below(nodes, blocks, h, 0, m))
                      /\ Once(below[0][h])
    OBVIOUS
  <2>1. below[0][h] = <<>>
    BY <1>1 DEF IsWalk
  <2> QED
    BY SMT, <2>1 DEF Once
<1>4. ASSUME NEW r \in Nat, r + 1 <= rem, Claim(r) PROVE Claim(r + 1)
  <2> SUFFICES ASSUME NEW h \in nodes
               PROVE  /\ below[r + 1][h] \in Seq(Below(nodes, blocks, h, r + 1, m))
                      /\ Once(below[r + 1][h])
    OBVIOUS
  <2>1. below[r + 1][h] = Concat(Branches(blocks, offspring[h], below[r], m))
    BY <1>1, <1>4 DEF IsWalk
  <2>2. /\ Concat(Branches(blocks, offspring[h], below[r], m))
             \in Seq(Below(nodes, blocks, h, r + 1, m))
        /\ Once(Concat(Branches(blocks, offspring[h], below[r], m)))
    BY <1>2, <1>4
  <2> QED
    BY <2>1, <2>2
<1> HIDE DEF Claim
<1>5. Bad = {}
  <2> SUFFICES ASSUME Bad # {} PROVE FALSE
    OBVIOUS
  <2>1. PICK r \in Bad : \A j \in Bad : r <= j
    BY LeastNumberPrinciple
  <2>2. r # 0
    BY <1>3, <2>1
  <2>3. r - 1 \in Nat /\ r - 1 \notin Bad /\ (r - 1) + 1 = r /\ r <= rem
    BY SMT, <2>1, <2>2
  <2> QED
    BY SMT, <1>4, <2>1, <2>3
<1>6. Claim(rem)
  BY SMT, <1>5
<1> QED
  BY <1>1, <1>6 DEF Claim

\* The nodes whose line meets that of p at p's ancestor i + 1, and not before.
Off(nodes, blocks, p, i) ==
  {u \in nodes : \E j \in Nat :
     /\ Up(nodes, blocks, u, j) # Up(nodes, blocks, p, i)
     /\ Up(nodes, blocks, p, i + 1) \in nodes
     /\ Up(nodes, blocks, u, j + 1) = Up(nodes, blocks, p, i + 1)}

\* How far below the meeting point such a node is.
LEMMA OffDepth ==
  ASSUME NEW nodes, NEW blocks, IsForest(nodes, blocks), NEW p \in nodes, NEW i \in Nat,
         NEW u \in Off(nodes, blocks, p, i)
  PROVE  \E j \in Nat :
           /\ u \in nodes /\ blocks[p].depth \in Nat /\ blocks[u].depth \in Nat
           /\ blocks[u].depth + i = blocks[p].depth + j
           /\ Up(nodes, blocks, u, j) # Up(nodes, blocks, p, i)
           /\ Up(nodes, blocks, u, j + 1) = Up(nodes, blocks, p, i + 1)
<1>1. u \in nodes
  BY DEF Off
<1>2. PICK j \in Nat : /\ Up(nodes, blocks, u, j) # Up(nodes, blocks, p, i)
                       /\ Up(nodes, blocks, p, i + 1) \in nodes
                       /\ Up(nodes, blocks, u, j + 1) = Up(nodes, blocks, p, i + 1)
  BY DEF Off
<1> DEFINE a == Up(nodes, blocks, p, i + 1)
<1>3. j + 1 \in Nat /\ i + 1 \in Nat
  BY SMT
<1>4. blocks[u].depth \in Nat /\ blocks[a].depth \in Nat /\ blocks[u].depth = blocks[a].depth + (j + 1)
  BY SMT, <1>1, <1>2, <1>3, ForestDepth
<1>5. blocks[p].depth \in Nat /\ blocks[p].depth = blocks[a].depth + (i + 1)
  BY <1>2, <1>3, ForestDepth
<1> HIDE DEF a
<1>6. blocks[u].depth + i = blocks[p].depth + j
  BY SMT, <1>4, <1>5
<1> QED
  BY <1>1, <1>2, <1>4, <1>5, <1>6

\* A node meets p's line at one place,
LEMMA OffApart ==
  ASSUME NEW nodes, NEW blocks, IsForest(nodes, blocks), NEW p \in nodes, NEW i \in Nat,
         NEW k \in Nat, i < k, NEW u \in Off(nodes, blocks, p, i), u \in Off(nodes, blocks, p, k)
  PROVE  FALSE
<1>0. NoHash \notin nodes
  BY TreeAssumption DEF IsForest
<1>1. PICK j \in Nat :
        /\ u \in nodes /\ blocks[p].depth \in Nat /\ blocks[u].depth \in Nat
        /\ blocks[u].depth + i = blocks[p].depth + j
        /\ Up(nodes, blocks, u, j) # Up(nodes, blocks, p, i)
        /\ Up(nodes, blocks, u, j + 1) = Up(nodes, blocks, p, i + 1)
  BY SMT, OffDepth
<1>2. PICK l \in Nat :
        /\ u \in nodes /\ blocks[p].depth \in Nat /\ blocks[u].depth \in Nat
        /\ blocks[u].depth + k = blocks[p].depth + l
        /\ Up(nodes, blocks, u, l) # Up(nodes, blocks, p, k)
        /\ Up(nodes, blocks, u, l + 1) = Up(nodes, blocks, p, k + 1)
  BY SMT, OffDepth
<1> DEFINE d == k - (i + 1)
<1>3. d \in Nat /\ j + 1 \in Nat /\ i + 1 \in Nat /\ (i + 1) + d = k
  BY SMT
<1>4. (j + 1) + d = l
  BY SMT, <1>1, <1>2
<1> HIDE DEF d
<1>5. Up(nodes, blocks, Up(nodes, blocks, u, j + 1), d) = Up(nodes, blocks, u, (j + 1) + d)
  BY SMT, <1>0, <1>3, UpCompose
<1>6. Up(nodes, blocks, Up(nodes, blocks, p, i + 1), d) = Up(nodes, blocks, p, (i + 1) + d)
  BY SMT, <1>0, <1>3, UpCompose
<1> QED
  BY <1>1, <1>2, <1>3, <1>4, <1>5, <1>6

\* and is not on it.
LEMMA OffLine ==
  ASSUME NEW nodes, NEW blocks, IsForest(nodes, blocks), NEW p \in nodes, NEW i \in Nat,
         NEW l \in Nat, Up(nodes, blocks, p, l) \in Off(nodes, blocks, p, i)
  PROVE  FALSE
<1> DEFINE u == Up(nodes, blocks, p, l)
<1>0. NoHash \notin nodes
  BY TreeAssumption DEF IsForest
<1>1. PICK j \in Nat :
        /\ u \in nodes /\ blocks[p].depth \in Nat /\ blocks[u].depth \in Nat
        /\ blocks[u].depth + i = blocks[p].depth + j
        /\ Up(nodes, blocks, u, j) # Up(nodes, blocks, p, i)
        /\ Up(nodes, blocks, u, j + 1) = Up(nodes, blocks, p, i + 1)
  BY SMT, OffDepth
<1>2. blocks[p].depth = blocks[u].depth + l
  BY <1>1, ForestDepth
<1>3. Up(nodes, blocks, u, j) = Up(nodes, blocks, p, l + j)
  BY SMT, <1>0, UpCompose
<1> HIDE DEF u
<1>4. l + j = i
  BY SMT, <1>1, <1>2
<1> QED
  BY <1>1, <1>3, <1>4

\* What findUncles adds at one ancestor lists nothing twice, and only nodes that
\* meet the parent's line there.
LEMMA SiblingsOnce ==
  ASSUME NEW nodes, NEW blocks, NEW offspring,
         IsForest(nodes, blocks), ForestKids(nodes, blocks, offspring), NEW p \in nodes,
         NEW i \in Nat, Up(nodes, blocks, p, i + 1) \in nodes, NEW rem \in Nat \ {0}, NEW m
  PROVE  LET sibs == Concat(Siblings(nodes, blocks, offspring, Up(nodes, blocks, p, i + 1),
                                     Up(nodes, blocks, p, i), rem, m))
         IN  sibs \in Seq(Off(nodes, blocks, p, i)) /\ Once(sibs)
<1> DEFINE a == Up(nodes, blocks, p, i + 1)
           own == Up(nodes, blocks, p, i)
           lists == Siblings(nodes, blocks, offspring, a, own, rem, m)
           kids == offspring[a]
           S == Off(nodes, blocks, p, i)
<1> SUFFICES Concat(lists) \in Seq(S) /\ Once(Concat(lists))
  OBVIOUS
<1>0. NoHash \notin nodes /\ a \in nodes /\ rem - 1 \in Nat
  BY SMT, TreeAssumption DEF IsForest
<1>1. /\ kids \in Seq(Hash) /\ Once(kids)
      /\ \A k \in DOMAIN kids : blocks[kids[k]] # NoBlock =>
                                  kids[k] \in nodes /\ blocks[kids[k]].parent = a
  BY <1>0 DEF ForestKids
<1>2. DOMAIN kids = 1..Len(kids)
  BY SMT, <1>1
<1>3. ASSUME NEW k \in 1..Len(kids)
      PROVE  /\ lists[k] \in Seq(S)
             /\ \/ lists[k] = <<>>
                \/ /\ kids[k] \in nodes /\ blocks[kids[k]].parent = a
                   /\ lists[k] \in Seq(Under(nodes, blocks, kids[k])) /\ Once(lists[k])
  <2> DEFINE c == kids[k]
             below == FindNonDirectAncestors(nodes, blocks, offspring, c, rem - 1, m)
             U == Under(nodes, blocks, c)
  <2>1. lists[k] = IF c # own /\ blocks[c] # NoBlock THEN <<c>> \o below ELSE <<>>
    BY <1>2 DEF Siblings
  <2>2. CASE c # own /\ blocks[c] # NoBlock
    <3>1. c \in nodes /\ blocks[c].parent = a
      BY <1>1, <1>2, <2>2
    <3>2. below \in Seq(Below(nodes, blocks, c, rem - 1, m)) /\ Once(below)
      BY <1>0, <3>1, NonDirectOnce
    <3>3. <<c>> \o below \in Seq(U) /\ Once(<<c>> \o below)
      BY <1>0, <3>1, <3>2, BranchOnce
    <3>4. lists[k] = <<c>> \o below
      BY <2>1, <2>2
    <3>5. ASSUME NEW u \in U PROVE u \in S
      <4>1. PICK j \in Nat : u \in nodes /\ Up(nodes, blocks, u, j) = c
        BY DEF Under
      <4>2. Up(nodes, blocks, u, j + 1) =
              IF c \in nodes /\ blocks[c].parent \in nodes THEN blocks[c].parent ELSE NoHash
        BY <1>0, <4>1, UpNext
      <4>3. Up(nodes, blocks, u, j + 1) = a
        BY <1>0, <3>1, <4>2
      <4> HIDE DEF c
      <4> QED
        BY <1>0, <2>2, <4>1, <4>3 DEF Off
    <3> HIDE DEF lists, S, U, c, below
    <3>6. <<c>> \o below \in Seq(S)
      BY SMT, <3>3, <3>5
    <3> QED
      BY <3>1, <3>3, <3>4, <3>6 DEF c, U
  <2>3. CASE ~(c # own /\ blocks[c] # NoBlock)
    <3>1. lists[k] = <<>>
      BY <2>1, <2>3
    <3> HIDE DEF lists, S
    <3> QED
      BY SMT, <3>1
  <2> QED
    BY <2>2, <2>3
<1>4. lists = [k \in DOMAIN kids |-> lists[k]]
  BY DEF Siblings
<1> HIDE DEF lists, kids, S, a, own
<1>5. lists \in [1..Len(kids) -> Seq(S)]
  BY <1>2, <1>3, <1>4
<1> QED
  BY <1>0, <1>1, <1>3, <1>5, BranchesOnce

\* findUncles lists no block twice and none of the parent's own line.
LEMMA UnclesOnce ==
  ASSUME NEW nodes, NEW blocks, NEW offspring,
         IsForest(nodes, blocks), ForestKids(nodes, blocks, offspring), NEW parent \in nodes
  PROVE  /\ FindUncles(nodes, blocks, offspring, parent)
              \in Seq({u \in nodes : \A l \in Nat : u # Up(nodes, blocks, parent, l)})
         /\ Once(FindUncles(nodes, blocks, offspring, parent))
<1> DEFINE From(n) == {u \in nodes : \E i \in Nat : i >= n /\ u \in Off(nodes, blocks, parent, i)}
           Beside == {u \in nodes : \A l \in Nat : u # Up(nodes, blocks, parent, l)}
           Left(r) == MaxUncleDistance - r
<1>0. NoHash \notin nodes
  BY TreeAssumption DEF IsForest
<1>1. PICK found : /\ FindUncles(nodes, blocks, offspring, parent) = found[MaxUncleDistance]
                   /\ IsSearch(found, nodes, blocks, offspring, parent)
  BY <1>0, UnclesSearch
<1> DEFINE Claim(r) == found[r] \in Seq(From(Left(r))) /\ Once(found[r])
           Bad == {r \in Nat : r <= MaxUncleDistance /\ ~Claim(r)}
<1>2. Claim(0)
  <2>1. found[0] = <<>>
    BY <1>1 DEF IsSearch
  <2> HIDE DEF From
  <2> QED
    BY SMT, <2>1 DEF Once
<1>3. ASSUME NEW r \in 1..MaxUncleDistance, Claim(r - 1) PROVE Claim(r)
  <2> DEFINE i == MaxUncleDistance - r
             a == Up(nodes, blocks, parent, i + 1)
             own == Up(nodes, blocks, parent, i)
             sibs == Concat(Siblings(nodes, blocks, offspring, a, own, r, blocks[parent].depth))
             P == Off(nodes, blocks, parent, i)
             Q == From(i + 1)
  <2>1. i \in Nat /\ i + 1 \in Nat /\ r \in Nat \ {0} /\ Left(r) = i /\ Left(r - 1) = i + 1
    BY SMT, TreeAssumption
  <2>2. found[r] = IF a = NoHash THEN <<>> ELSE sibs \o found[r - 1]
    BY <1>1 DEF IsSearch
  <2>3. CASE a = NoHash
    <3>1. found[r] = <<>>
      BY <2>2, <2>3
    <3> HIDE DEF From
    <3> QED
      BY SMT, <3>1 DEF Once
  <2>4. CASE a # NoHash
    <3>1. a \in nodes
      BY <1>0, <2>1, <2>4, UpType
    <3>2. sibs \in Seq(P) /\ Once(sibs)
      BY <2>1, <3>1, SiblingsOnce
    <3>3. found[r - 1] \in Seq(Q) /\ Once(found[r - 1])
      BY <1>3, <2>1
    <3>4. P \cap Q = {}
      <4> SUFFICES ASSUME NEW u \in P, NEW k \in Nat, k >= i + 1, u \in Off(nodes, blocks, parent, k)
                   PROVE  FALSE
        OBVIOUS
      <4>1. i < k
        BY SMT, <2>1
      <4> QED
        BY <2>1, <4>1, OffApart
    <3>5. P \subseteq From(i) /\ Q \subseteq From(i)
      <4>1. i >= i /\ \A k \in Nat : k >= i + 1 => k >= i
        BY SMT, <2>1
      <4>2. P \subseteq nodes
        BY DEF Off
      <4> HIDE DEF i
      <4> QED
        BY <2>1, <4>1, <4>2
    <3>6. found[r] = sibs \o found[r - 1]
      BY <2>2, <2>4
    <3> HIDE DEF sibs, P, Q, a, From
    <3>7. sibs \o found[r - 1] \in Seq(P \cup Q) /\ Once(sibs \o found[r - 1])
      BY <3>2, <3>3, <3>4, JoinOnce
    <3>8. sibs \o found[r - 1] \in Seq(From(i))
      BY SMT, <3>5, <3>7
    <3> QED
      BY <2>1, <3>6, <3>7, <3>8
  <2> QED
    BY <2>3, <2>4
<1> HIDE DEF Claim
<1>4. Bad = {}
  <2> SUFFICES ASSUME Bad # {} PROVE FALSE
    OBVIOUS
  <2>1. PICK r \in Bad : \A j \in Bad : r <= j
    BY LeastNumberPrinciple
  <2>2. r # 0
    BY <1>2, <2>1
  <2>3. r - 1 \in Nat /\ r - 1 \notin Bad /\ r \in 1..MaxUncleDistance
    BY SMT, <2>1, <2>2, TreeAssumption
  <2>4. Claim(r - 1)
    BY SMT, <2>3, TreeAssumption
  <2> QED
    BY <1>3, <2>1, <2>3, <2>4
<1>5. Claim(MaxUncleDistance)
  BY SMT, <1>4, TreeAssumption
<1>6. From(Left(MaxUncleDistance)) \subseteq Beside
  <2> SUFFICES ASSUME NEW u \in nodes, NEW i \in Nat, u \in Off(nodes, blocks, parent, i),
                      NEW l \in Nat, u = Up(nodes, blocks, parent, l)
               PROVE  FALSE
    OBVIOUS
  <2> QED
    BY OffLine
<1>7. found[MaxUncleDistance] \in Seq(From(Left(MaxUncleDistance))) /\ Once(found[MaxUncleDistance])
  BY <1>5 DEF Claim
<1> HIDE DEF From, Beside, Left
<1>8. found[MaxUncleDistance] \in Seq(Beside)
  BY SMT, <1>6, <1>7
<1> QED
  BY <1>1, <1>7, <1>8 DEF Beside

\* The uncles that findUncles lists above any parent are known nodes beside that
\* parent's line, and each is listed once, so that AddBlockNode adds the weight of
\* an uncle to a block once.  Restarts and flushes are allowed: a flush leaves
\* side branches whose parents are gone.
THEOREM UnclesAreCountedOnce == Spec => []UnclesCountOnce
<1>1. ASSUME ChainInv, pc = "idle", Intact, NEW p \in node
      PROVE  LET us == Uncles(p)
             IN  /\ \A i, j \in DOMAIN us : us[i] = us[j] => i = j
                 /\ LET beside == BesideLine(p) IN \A i \in DOMAIN us : us[i] \in beside
  <2>1. OnceListed /\ ListedBelow /\ NodeDepths
        /\ (Genesis \in node => block[Genesis] = GenesisBlock)
    BY <1>1 DEF ChainInv, LineInv, ListInv
  <2>2. node \subseteq Hash /\ children \in [Hash -> Seq(Hash)]
    BY <1>1 DEF ChainInv, FirstInv, TypeInv, TableType
  <2>3. IsForest(node, block)
    <3>1. Genesis \in node => block[Genesis].parent \notin node
      BY SMT, <2>1, <2>2, TreeAssumption DEF GenesisBlock
    <3> QED
      BY <2>1, <2>2, <3>1 DEF IsForest, NodeDepths
  <2>4. ForestKids(node, block, children)
    <3> SUFFICES ASSUME NEW q \in node
                 PROVE  /\ children[q] \in Seq(Hash)
                        /\ Once(children[q])
                        /\ \A i \in DOMAIN children[q] :
                             block[children[q][i]] # NoBlock =>
                               children[q][i] \in node /\ block[children[q][i]].parent = q
      BY DEF ForestKids
    <3>1. q \in Hash /\ children[q] \in Seq(Hash)
      BY <2>2
    <3>2. Once(children[q])
      BY <2>1, <3>1 DEF OnceListed, Once
    <3>3. pc \notin Linked /\ pc # "flushBlock"
      BY <1>1 DEF Linked
    <3> QED
      BY <2>1, <3>1, <3>2, <3>3 DEF ListedBelow, Owned, Stored
  <2> DEFINE us == FindUncles(node, block, children, p)
             Beside == {u \in node : \A l \in Nat : u # Up(node, block, p, l)}
  <2>5. us \in Seq(Beside) /\ Once(us)
    BY <2>3, <2>4, UnclesOnce
  <2>6. Beside \subseteq BesideLine(p)
    BY SMT DEF BesideLine
  <2>7. us = Uncles(p)
    BY DEF Uncles
  <2> HIDE DEF us, Beside
  <2>8. \A i \in DOMAIN us : us[i] \in BesideLine(p)
    BY SMT, <2>5, <2>6
  <2> QED
    BY <2>5, <2>7, <2>8 DEF Once
<1>2. ChainInv => UnclesCountOnce
  BY <1>1 DEF UnclesCountOnce
<1> QED
  BY <1>2, ChainInvHolds, PTL

-----------------------------------------------------------------------------
(* Blocks reach the tip *)

\* A round of the loop of Blocks.
Turn(w) ==
  IF w.at = NoHash \/ block[w.at] = NoBlock THEN w
  ELSE [at   |-> FindMainListChild(node, main, children, w.at, NoHash),
        list |-> Append(w.list, w.at)]

\* The rounds of the loop, one after the other.
IsTour(walk, parent, limit) ==
  /\ walk[0] = [at   |-> FindMainListChild(node, main, children, parent, NoHash),
                list |-> <<>>]
  /\ \A i \in 1 .. limit : walk[i] = Turn(walk[i - 1])

\* The loop of Blocks is well defined.
LEMMA BlocksWalk ==
  ASSUME NEW parent, NEW max \in Nat
  PROVE  \E walk : /\ IsTour(walk, parent, Limit(max))
                   /\ Blocks(parent, max) =
                        IF parent \in node THEN walk[Limit(max)].list ELSE <<>>
<1> DEFINE n == Limit(max)
           First == [at |-> FindMainListChild(node, main, children, parent, NoHash), list |-> <<>>]
           IsUpTo(f, m) == f = [i \in 0 .. m |-> IF i = 0 THEN First ELSE Turn(f[i - 1])]
           NoUpTo == {m \in Nat : ~ \E f : IsUpTo(f, m)}
<1>1. Blocks(parent, max) =
        IF parent \in node THEN (CHOOSE f : IsUpTo(f, n))[n].list ELSE <<>>
  BY DEF Blocks, Turn, Limit
<1>2. n \in Nat
  BY SMT, TreeAssumption DEF Limit
<1> HIDE DEF First, n
<1>3. IsUpTo([i \in 0 .. 0 |-> First], 0)
  BY SMT
<1>4. ASSUME NEW m \in Nat, NEW f, IsUpTo(f, m) PROVE \E g : IsUpTo(g, m + 1)
  <2> DEFINE e == [i \in 0 .. m + 1 |-> IF i = m + 1 THEN Turn(f[m]) ELSE f[i]]
  <2>1. e = [i \in 0 .. m + 1 |-> IF i = 0 THEN First ELSE Turn(e[i - 1])]
    BY SMT, <1>4
  <2> QED
    BY <2>1
<1>5. NoUpTo = {}
  <2> HIDE DEF IsUpTo
  <2> SUFFICES ASSUME NoUpTo # {} PROVE FALSE
    OBVIOUS
  <2>1. PICK k \in NoUpTo : \A j \in NoUpTo : k <= j
    BY LeastNumberPrinciple
  <2>2. k # 0
    BY <1>3
  <2>3. k - 1 \in Nat /\ k - 1 \notin NoUpTo
    BY SMT, <2>1, <2>2
  <2> QED
    BY SMT, <1>4, <2>3
<1> DEFINE walk == CHOOSE f : IsUpTo(f, n)
<1>6. IsUpTo(walk, n)
  <2>1. \E f : IsUpTo(f, n)
    BY <1>2, <1>5
  <2> HIDE DEF IsUpTo
  <2> QED
    BY <2>1
<1>7. walk[0] = First /\ \A i \in 1 .. n : walk[i] = Turn(walk[i - 1])
  <2>1. walk = [i \in 0 .. n |-> IF i = 0 THEN First ELSE Turn(walk[i - 1])]
    BY <1>6
  <2> HIDE DEF walk
  <2> QED
    BY SMT, <1>2, <2>1
<1> HIDE DEF walk, IsUpTo
<1>8. IsTour(walk, parent, n)
  BY <1>7 DEF IsTour, First
<1>9. Blocks(parent, max) = IF parent \in node THEN walk[n].list ELSE <<>>
  BY <1>1 DEF walk
<1> QED
  BY <1>8, <1>9 DEF n

\* The lock is free, no call was interrupted and nothing was flushed.
Whole == ChainInv /\ Intact /\ pc = "idle" /\ flushes = 0

\* findMainListChild steps down the line, and ends at the tip.
LEMMA NextBelow ==
  ASSUME Whole, NEW h \in main, NEW g, g = FindMainListChild(node, main, children, h, NoHash)
  PROVE  \/ h = tip /\ g = NoHash
         \/ /\ g \in main /\ g # Genesis /\ g # NoHash
            /\ block[g].depth = block[h].depth + 1
<1>1. /\ FirstInv /\ ListInv /\ LineOf(block, main, tip) /\ ~torn
      /\ \A f \in node \ {Genesis} : Listed(f)
  BY DEF Whole, ChainInv, LineInv, MainInv, Intact
<1>2. /\ children \in [Hash -> Seq(Hash)] /\ node \in SUBSET Hash /\ main \in SUBSET Hash
      /\ main \subseteq node /\ NoGenesis(children) /\ \A f \in node : Stored(f)
  BY <1>1 DEF FirstInv, TypeInv, TableType, ListInv, MainListed, SavedInv, StoreInv
<1>3. IsFound(g, node, main, children, h, NoHash)
  BY <1>2, Found
<1>4. NoHash \notin node
  BY <1>2, TreeAssumption
<1>5. CASE g # NoHash
  <2>1. g \in main /\ g # Genesis
    BY <1>2, <1>3, <1>5 DEF IsFound, NoGenesis
  <2>2. block[g].parent = h
    BY <1>1, <1>2, <1>3, <1>5, <2>1 DEF IsFound, ListInv, ListedBelow
  <2> QED
    BY <1>1, <1>5, <2>1, <2>2 DEF LineOf
<1>6. CASE g = NoHash
  <2> SUFFICES ASSUME h # tip PROVE FALSE
    BY <1>6
  <2>1. PICK f \in main \ {Genesis} : block[f].parent = h
    BY <1>1 DEF LineOf
  <2>2. Listed(f)
    BY <1>1, <1>2
  <2>3. \E i \in DOMAIN children[h] : children[h][i] = f
    BY <2>1, <2>2 DEF Listed
  <2> QED
    BY <1>2, <1>3, <1>4, <1>6, <2>3 DEF IsFound
<1> QED
  BY <1>5, <1>6

\* The list names blocks of the depths 1, 2, ...
Rising(list) == list \in Seq(Hash) /\ \A j \in DOMAIN list : block[list[j]].depth = j

\* The loop has i blocks and is at the next one, or it has ended at the tip.
AtBlock(w, i) ==
  /\ w.at \in main /\ w.at # NoHash /\ Rising(w.list) /\ Len(w.list) = i
  /\ block[w.at].depth = i + 1
AtEnd(w) == w.at = NoHash /\ Rising(w.list) /\ w.list # <<>> /\ w.list[Len(w.list)] = tip

\* A round of the loop.
LEMMA TurnFact ==
  ASSUME Whole, NEW i \in Nat, NEW w, AtBlock(w, i), NEW v, v = Turn(w)
  PROVE  AtBlock(v, i + 1) \/ AtEnd(v)
<1>1. PICK h, l : h = w.at /\ l = w.list
  OBVIOUS
<1>2. /\ h \in main /\ h # NoHash /\ l \in Seq(Hash) /\ Len(l) = i /\ block[h].depth = i + 1
      /\ \A j \in DOMAIN l : block[l[j]].depth = j
  BY <1>1 DEF AtBlock, Rising
<1>3. h \in Hash /\ block[h] # NoBlock
  BY <1>2 DEF Whole, ChainInv, LineInv, ListInv, MainListed, FirstInv, StoreInv, Stored,
     TypeInv, TableType
<1>4. PICK g, k : g = FindMainListChild(node, main, children, h, NoHash) /\ k = Append(l, h)
  OBVIOUS
<1>5. v.at = g /\ v.list = k
  BY <1>1, <1>2, <1>3, <1>4 DEF Turn
<1>6. /\ k \in Seq(Hash) /\ Len(k) = i + 1 /\ k # <<>> /\ k[Len(k)] = h
      /\ DOMAIN k = 1 .. i + 1 /\ DOMAIN l = 1 .. i /\ k[i + 1] = h
      /\ \A j \in 1 .. i : k[j] = l[j]
  BY SMT, <1>2, <1>3, <1>4
<1>7. \A j \in DOMAIN k : block[k[j]].depth = j
  <2>1. \A j \in DOMAIN k : j \in DOMAIN l \/ j = i + 1
    BY SMT, <1>6
  <2> QED
    BY <1>2, <1>6, <2>1
<1>8. \/ h = tip /\ g = NoHash
      \/ /\ g \in main /\ g # Genesis /\ g # NoHash
         /\ block[g].depth = block[h].depth + 1
  BY SMT, <1>2, <1>4, NextBelow
<1>9. CASE h = tip /\ g = NoHash
  BY <1>5, <1>6, <1>7, <1>9 DEF AtEnd, Rising
<1>10. CASE g \in main /\ g # NoHash /\ block[g].depth = block[h].depth + 1
  BY <1>2, <1>5, <1>6, <1>7, <1>10 DEF AtBlock, Rising
<1> QED
  BY <1>8, <1>9, <1>10

\* The first chain: Blocks below the genesis block, what a peer that syncs asks
\* for, name the main list from the bottom up and end with the tip, over restarts
\* and reorganisations.
THEOREM BlocksEndAtTip == Spec => []BlocksReachTip
<1>1. ASSUME ChainInv, pc = "idle", Intact, tip # Genesis, block[tip].depth <= MaxBlocks,
             NEW d, d = Blocks(Genesis, MaxBlocks)
      PROVE  d # <<>> /\ d[Len(d)] = tip /\ \A i \in DOMAIN d : block[d[i]].depth = i
  <2>1. Whole
    <3>1. flushes \in Nat /\ (flushes > 0 => tip = Genesis)
      BY <1>1 DEF ChainInv, FirstInv, TypeInv, TableType, LineInv, FlushInv
    <3>2. flushes = 0
      BY SMT, <1>1, <3>1
    <3> QED
      BY <1>1, <3>2 DEF Whole
  <2>2. /\ LineOf(block, main, tip) /\ Genesis \in node /\ block[Genesis] = GenesisBlock
        /\ main \subseteq node
    BY <2>1 DEF Whole, ChainInv, LineInv, MainInv, ListInv, Intact, FirstInv, SavedInv,
       Opening, MainListed
  <2>3. block[Genesis].depth = 0
    BY SMT, <2>2 DEF GenesisBlock
  <2>4. MaxBlocks \in Nat
    BY TreeAssumption
  <2>5. PICK limit \in Nat : limit = Limit(MaxBlocks)
    BY SMT, <2>4 DEF Limit
  <2>6. block[tip].depth \in Nat /\ block[tip].depth <= limit
    <3>1. Limit(MaxBlocks) = MaxBlocks
      BY SMT, <2>4 DEF Limit
    <3> QED
      BY <1>1, <2>2, <2>5, <3>1 DEF LineOf
  <2>7. PICK walk : IsTour(walk, Genesis, limit) /\ d = walk[limit].list
    <3>1. \E walk : /\ IsTour(walk, Genesis, Limit(MaxBlocks))
                    /\ Blocks(Genesis, MaxBlocks) =
                         IF Genesis \in node THEN walk[Limit(MaxBlocks)].list ELSE <<>>
      BY SMT, <2>4, BlocksWalk
    <3> QED
      BY <1>1, <2>2, <2>5, <3>1
  <2>8. AtBlock(walk[0], 0)
    <3>1. PICK g : g = FindMainListChild(node, main, children, Genesis, NoHash)
      OBVIOUS
    <3>2. walk[0].at = g /\ walk[0].list = <<>>
      <4>1. walk[0] = [at |-> g, list |-> <<>>]
        BY <2>7, <3>1 DEF IsTour
      <4> QED
        BY SMT, <4>1
    <3>3. Genesis \in main
      BY <2>2 DEF LineOf
    <3>4. g \in main /\ g # NoHash /\ block[g].depth = block[Genesis].depth + 1
      BY SMT, <1>1, <2>1, <3>1, <3>3, NextBelow
    <3>5. block[g].depth = 0 + 1
      BY <2>3, <3>4
    <3>6. <<>> \in Seq(Hash) /\ Len(<<>>) = 0 /\ DOMAIN <<>> = {}
      BY SMT
    <3>7. Rising(<<>>)
      BY <3>6 DEF Rising
    <3> QED
      BY <3>2, <3>4, <3>5, <3>6, <3>7 DEF AtBlock
  <2> DEFINE Bad == {i \in Nat : i \in 0 .. limit /\ ~(AtBlock(walk[i], i) \/ AtEnd(walk[i]))}
  <2>9. Bad = {}
    <3> SUFFICES ASSUME Bad # {} PROVE FALSE
      OBVIOUS
    <3>1. PICK i \in Bad : \A j \in Bad : i <= j
      BY LeastNumberPrinciple
    <3>2. i \in Nat /\ i \in 0 .. limit /\ ~AtBlock(walk[i], i) /\ ~AtEnd(walk[i])
      BY <3>1
    <3>3. i # 0
      BY <2>8, <3>2
    <3>4. PICK k \in Nat : i = k + 1 /\ k = i - 1 /\ k \in 0 .. limit /\ ~(i <= k) /\ i \in 1 .. limit
      BY SMT, <3>2, <3>3
    <3>5. AtBlock(walk[k], k) \/ AtEnd(walk[k])
      BY <3>1, <3>4
    <3>6. walk[i] = Turn(walk[k])
      BY <2>7, <3>4 DEF IsTour
    <3>7. CASE AtBlock(walk[k], k)
      <4>1. AtBlock(walk[i], k + 1) \/ AtEnd(walk[i])
        BY <2>1, <3>4, <3>6, <3>7, TurnFact
      <4> QED
        BY <3>2, <3>4, <4>1
    <3>8. CASE AtEnd(walk[k])
      <4>1. walk[i] = walk[k]
        BY <3>6, <3>8 DEF Turn, AtEnd
      <4> QED
        BY <3>2, <3>8, <4>1
    <3> QED
      BY <3>5, <3>7, <3>8
  <2>10. ~AtBlock(walk[limit], limit)
    <3> SUFFICES ASSUME AtBlock(walk[limit], limit) PROVE FALSE
      OBVIOUS
    <3>1. PICK h : h = walk[limit].at
      OBVIOUS
    <3>2. block[h].depth = limit + 1 /\ block[h].depth <= block[tip].depth
      BY <2>2, <3>1 DEF AtBlock, LineOf
    <3>3. PICK n, t : n = block[h].depth /\ t = block[tip].depth
      OBVIOUS
    <3>4. n = limit + 1 /\ n <= t /\ t \in Nat /\ t <= limit
      BY <2>6, <3>2, <3>3
    <3> QED
      BY ONLY <3>4, limit \in Nat
  <2>11. AtEnd(walk[limit])
    <3>1. limit \in 0 .. limit
      BY SMT
    <3> QED
      BY <2>9, <2>10, <3>1
  <2> QED
    BY <2>7, <2>11 DEF AtEnd, Rising
<1>2. ChainInv => BlocksReachTip
  BY <1>1 DEF BlocksReachTip
<1> QED
  BY <1>2, ChainInvHolds, PTL
=============================================================================
