------------------------ MODULE BlockChainConsensus ------------------------
(***************************************************************************)
(* The consensus engine of one node (consensus/blockChainConsensus.go).    *)
(*                                                                         *)
(* The engine adds a block under its write lock, so at most one add is in  *)
(* progress; pc says how far it is.  A step saves the records of one block *)
(* at most, so that a crash may leave an add half done.  What is read      *)
(* under the read lock sees pc = "idle".                                   *)
(***************************************************************************)
EXTENDS BlockTree

CONSTANTS
  MaxUncles,      \* bound: uncles a network block lists
  MaxCrashes      \* bound: crashes and failed rebases in a behaviour

ASSUME BoundAssumption == MaxUncles \in Nat /\ MaxCrashes \in Nat

VARIABLES
  \* the database
  block,      \* table "Block-"
  node,       \* hashes that have an entry in table "ChainNode-"
  main,       \* those whose chain node has the main list flag set
  children,   \* the list of children in the chain node of a hash
  dagTip,     \* key "ChainState-DagTip"
  txBlock,    \* the transaction table: the block a transaction was found in
  \* the engine's memory
  tip, weight,
  state,      \* the block whose STATE the engine's world state is rebased to
  candidate,  \* the block a producer is filling, or NoBlock
  \* the add in progress
  pc,
  origin,     \* who made the block: this node mined it, or a peer sent it
  child, parentNode, mainListParent, oldChild,
  \* history: the main list and the tip when the add began; faults so far
  oldMain, oldTip, crashes

db     == <<block, node, main, children, dagTip, txBlock>>
memory == <<tip, weight, state>>
add    == <<origin, child, parentNode, mainListParent, oldChild>>
past   == <<oldMain, oldTip>>
vars   == <<db, memory, candidate, pc, add, past, crashes>>

Opening == {"open", "genesisBlock", "genesisNode"}
Adding  == {"parent", "tip", "rebase", "up", "down", "side", "callback"}
Steps   == Opening \cup Adding \cup {"idle", "failed"}

\* The candidate's type is part of CandidateStaysValid.
TypeOK ==
  /\ block \in [Hash -> BlockSpec \cup {NoBlock}]
  /\ node \in SUBSET Hash /\ main \in SUBSET Hash
  /\ children \in [Hash -> Seq(Hash)]
  /\ dagTip \in Hash \cup {NoHash}
  /\ txBlock \in [Tx -> Hash \cup {NoHash}]
  /\ tip \in Hash /\ weight \in Nat /\ state \in Hash
  /\ pc \in Steps /\ origin \in {"mined", "network"}
  /\ child \in Hash /\ mainListParent \in Hash
  /\ parentNode \in Hash \cup {NoHash} /\ oldChild \in Hash \cup {NoHash}
  /\ oldMain \in SUBSET Hash /\ oldTip \in Hash /\ crashes \in Nat

Init ==
  /\ block = [h \in Hash |-> NoBlock] /\ node = {} /\ main = {}
  /\ children = [h \in Hash |-> <<>>]
  /\ dagTip = NoHash /\ txBlock = [t \in Tx |-> NoHash]
  /\ tip = Genesis /\ weight = 0 /\ state = Genesis
  /\ candidate = NoBlock
  /\ pc = "open" /\ origin = "network"
  /\ child = Genesis /\ parentNode = Genesis /\ mainListParent = Genesis
  /\ oldChild = NoHash
  /\ oldMain = {} /\ oldTip = Genesis /\ crashes = 0

-----------------------------------------------------------------------------
(* NewBlockChainConsensus *)

\* No tip in the database: the tip is saved first, then the genesis block and
\* its chain node.
SaveGenesisTip ==
  /\ pc = "open" /\ dagTip = NoHash
  /\ dagTip' = Genesis
  /\ pc' = "genesisBlock"
  /\ UNCHANGED <<block, node, main, children, txBlock, memory, candidate, add,
                 past, crashes>>

SaveGenesisBlock ==
  /\ pc = "genesisBlock"
  /\ block' = [block EXCEPT ![Genesis] = GenesisBlock]
  /\ pc' = "genesisNode"
  /\ UNCHANGED <<node, main, children, dagTip, txBlock, memory, candidate, add,
                 past, crashes>>

SaveGenesisNode ==
  /\ pc = "genesisNode"
  /\ node' = node \cup {Genesis} /\ main' = main \cup {Genesis}
  /\ pc' = "idle"
  /\ UNCHANGED <<block, children, dagTip, txBlock, memory, candidate, add,
                 past, crashes>>

\* Mutant of OpenAtTip: the weight of the tip is not restored.
OpenWithoutWeight ==
  /\ pc = "open" /\ dagTip # NoHash /\ block[dagTip] # NoBlock
  /\ tip' = dagTip /\ weight' = 0 /\ state' = dagTip
  /\ pc' = "idle"
  /\ UNCHANGED <<db, candidate, add, past, crashes>>

\* A tip in the database: load it, its weight and its world state.
OpenAtTip ==
  /\ pc = "open" /\ dagTip # NoHash /\ block[dagTip] # NoBlock
  /\ tip' = dagTip /\ weight' = block[dagTip].weight /\ state' = dagTip
  /\ pc' = "idle"
  /\ UNCHANGED <<db, candidate, add, past, crashes>>

\* ERR_INITIALIZATION_FAILED: getBlock does not find the tip's block.
OpenFails ==
  /\ pc = "open" /\ dagTip # NoHash /\ block[dagTip] = NoBlock
  /\ pc' = "failed"
  /\ UNCHANGED <<db, memory, candidate, add, past, crashes>>

\* ERR_INITIALIZATION_FAILED: the tip's block is there, but Rebase does not find
\* its STATE.
OpenRebaseFails ==
  /\ crashes < MaxCrashes
  /\ pc = "open" /\ dagTip # NoHash /\ block[dagTip] # NoBlock
  /\ crashes' = crashes + 1
  /\ pc' = "failed"
  /\ UNCHANGED <<db, memory, candidate, add, past>>

-----------------------------------------------------------------------------
(* What an add requires *)

\* validateBlock
ValidBlock(b) ==
  /\ b \in BlockSpec
  /\ b.parent \in Hash /\ block[b.parent] # NoBlock
  /\ b.depth = block[b.parent].depth + 1
  /\ \A i \in DOMAIN b.uncles : IsUncleValid(node, block, b.parent, b.uncles[i])
  /\ b.weight = block[b.parent].weight + 1 + Len(b.uncles)

\* transactionStatus finds t in a block of the main list.
TxApplied(t) == txBlock[t] \in node \cap main /\ block[txBlock[t]] # NoBlock

\* The checks of addValidatedBlock before its first write.
Addable(h, b) == h \notin node /\ \A t \in b.txs : ~TxApplied(t)

\* AcceptNetworkBlock and mineCandidateBlock up to putBlock(child).
BeginAdd(h, b) ==
  /\ pc = "idle"
  /\ ValidBlock(b) /\ Addable(h, b)
  /\ block' = [block EXCEPT ![h] = b]
  /\ child' = h /\ parentNode' = b.parent /\ mainListParent' = h
  /\ oldChild' = NoHash
  /\ oldMain' = main /\ oldTip' = tip
  /\ pc' = "parent"
  /\ UNCHANGED <<node, main, children, dagTip, txBlock, memory, crashes>>

-----------------------------------------------------------------------------
(* Where blocks come from *)

UncleLists == UNION {[1..n -> Hash] : n \in 0..MaxUncles}

\* AcceptNetworkBlock: a block of a peer, with the depth and the weight the
\* peer claims.  A hash stands for one content, so a block that was stored
\* before a crash can only come back unchanged.
AcceptNetworkBlock ==
  \E h, p \in Hash, us \in UncleLists, ts \in SUBSET Tx, dd, dw \in {0, 1} :
    /\ block[p] # NoBlock
    /\ LET b == [parent |-> p, depth |-> block[p].depth + 1 + dd,
                 weight |-> block[p].weight + 1 + Len(us) + dw,
                 uncles |-> us, txs |-> ts]
       IN  block[h] \in {NoBlock, b} /\ BeginAdd(h, b)
    /\ origin' = "network"
    /\ UNCHANGED candidate

\* Mutant of NewCandidateBlock: addUncle does not add to the weight.
NewCandidateBlockLight ==
  /\ pc = "idle" /\ candidate = NoBlock
  /\ candidate' = [parent |-> tip, depth |-> block[tip].depth + 1,
                   weight |-> block[tip].weight + 1,
                   uncles |-> FindUncles(node, block, children, tip), txs |-> {}]
  /\ UNCHANGED <<db, memory, pc, add, past, crashes>>

\* NewCandidateBlock: a child of the tip that lists every uncle in reach.
NewCandidateBlock ==
  /\ pc = "idle" /\ candidate = NoBlock
  /\ LET us == FindUncles(node, block, children, tip)
     IN  candidate' = [parent |-> tip, depth |-> block[tip].depth + 1,
                       weight |-> block[tip].weight + 1 + Len(us),
                       uncles |-> us, txs |-> {}]
  /\ UNCHANGED <<db, memory, pc, add, past, crashes>>

\* AddTransaction takes the block's lock, not the engine's: it may run in the
\* middle of an add.
AddTransaction(t) ==
  /\ candidate # NoBlock
  /\ txBlock[t] = NoHash /\ t \notin candidate.txs
  /\ candidate' = [candidate EXCEPT !.txs = @ \cup {t}]
  /\ UNCHANGED <<db, memory, pc, add, past, crashes>>

\* mineCandidateBlock: the proof of work decides the hash.
MineCandidateBlock ==
  /\ candidate # NoBlock
  /\ \E h \in Hash : block[h] = NoBlock /\ BeginAdd(h, candidate)
  /\ origin' = "mined" /\ candidate' = NoBlock

\* The proof of work timed out, or the block is no longer addable.
MineFails ==
  /\ pc = "idle" /\ candidate # NoBlock
  /\ candidate' = NoBlock
  /\ UNCHANGED <<db, memory, pc, add, past, crashes>>

-----------------------------------------------------------------------------
(* addValidatedBlock, after putBlock(child) *)

\* The locals of an add go out of scope when it returns.
Return ==
  /\ pc' = "idle" /\ origin' = "network"
  /\ child' = Genesis /\ parentNode' = Genesis /\ mainListParent' = Genesis
  /\ oldChild' = NoHash /\ oldMain' = {} /\ oldTip' = Genesis

\* A miner gets its callback before the lock is released.
Release ==
  \/ origin = "mined" /\ pc' = "callback" /\ UNCHANGED <<add, past>>
  \/ origin = "network" /\ Return

\* registerTransactions
Registered(h) ==
  [t \in Tx |-> IF t \in block[h].txs THEN h ELSE txBlock[t]]

\* Mutant of LinkParent: of two blocks of one weight the later one wins.
LinkParentLastWins ==
  /\ pc = "parent" /\ parentNode \in node
  /\ children' = [children EXCEPT ![parentNode] = Append(@, child)]
  /\ pc' = IF weight <= block[child].weight THEN "tip" ELSE "side"
  /\ UNCHANGED <<block, node, main, dagTip, txBlock, memory, candidate, add,
                 past, crashes>>

\* addChild and putChainNode(parent), then the comparison with the tip.
LinkParent ==
  /\ pc = "parent" /\ parentNode \in node
  /\ children' = [children EXCEPT ![parentNode] = Append(@, child)]
  /\ pc' = IF \/ weight < block[child].weight
              \/ weight = block[child].weight /\ Numeric[tip] > Numeric[child]
           THEN "tip" ELSE "side"
  /\ UNCHANGED <<block, node, main, dagTip, txBlock, memory, candidate, add,
                 past, crashes>>

\* ERR_DB_CORRUPTED: the parent is stored but has no chain node.
LinkFails ==
  /\ pc = "parent" /\ parentNode \notin node
  /\ Return
  /\ UNCHANGED <<db, memory, candidate, crashes>>

SaveTip ==
  /\ pc = "tip"
  /\ weight' = block[child].weight /\ tip' = child /\ dagTip' = child
  /\ pc' = "rebase"
  /\ UNCHANGED <<block, node, main, children, txBlock, state, candidate, add,
                 past, crashes>>

RebaseState ==
  /\ pc = "rebase"
  /\ state' = child
  /\ txBlock' = Registered(child)
  /\ pc' = "up"
  /\ UNCHANGED <<block, node, main, children, dagTip, tip, weight, candidate,
                 add, past, crashes>>

\* Mutant of WalkUp: the transactions of the blocks passed are not registered.
WalkUpUnregistered ==
  /\ pc = "up" /\ parentNode \notin main
  /\ main' = main \cup {parentNode}
  /\ mainListParent' = parentNode
  /\ parentNode' = block[parentNode].parent
  /\ UNCHANGED <<block, node, children, dagTip, txBlock, memory, candidate, pc,
                 origin, child, oldChild, past, crashes>>

WalkUp ==
  /\ pc = "up" /\ parentNode \notin main
  /\ main' = main \cup {parentNode}
  /\ txBlock' = Registered(parentNode)
  /\ mainListParent' = parentNode
  /\ parentNode' = block[parentNode].parent
  /\ UNCHANGED <<block, node, children, dagTip, memory, candidate, pc, origin,
                 child, oldChild, past, crashes>>

\* Mutant of SaveChild: the search starts below the new block's own line.
SaveChildNoSkip ==
  /\ pc = "up" /\ parentNode \in main
  /\ node' = node \cup {child} /\ main' = main \cup {child}
  /\ oldChild' = FindMainListChild(node', main', children, parentNode, child)
  /\ pc' = "down"
  /\ UNCHANGED <<block, children, dagTip, txBlock, memory, candidate, origin,
                 child, parentNode, mainListParent, past, crashes>>

\* putChainNode(childNode), then the search for the old main list below the
\* first ancestor that was on it.
SaveChild ==
  /\ pc = "up" /\ parentNode \in main
  /\ node' = node \cup {child} /\ main' = main \cup {child}
  /\ oldChild' = FindMainListChild(node', main', children, parentNode, mainListParent)
  /\ pc' = "down"
  /\ UNCHANGED <<block, children, dagTip, txBlock, memory, candidate, origin,
                 child, parentNode, mainListParent, past, crashes>>

\* Mutant of WalkDown: only the first block of the old branch is reset.
WalkDownOnce ==
  /\ pc = "down" /\ oldChild # NoHash
  /\ main' = main \ {oldChild}
  /\ oldChild' = NoHash
  /\ UNCHANGED <<block, node, children, dagTip, txBlock, memory, candidate, pc,
                 origin, child, parentNode, mainListParent, past, crashes>>

\* Mutant of WalkDown: the loop does not move to the next block.
WalkDownInPlace ==
  /\ pc = "down" /\ oldChild # NoHash
  /\ main' = main \ {oldChild}
  /\ UNCHANGED <<block, node, children, dagTip, txBlock, memory, candidate, pc,
                 add, past, crashes>>

WalkDown ==
  /\ pc = "down" /\ oldChild # NoHash
  /\ main' = main \ {oldChild}
  /\ oldChild' = FindMainListChild(node, main', children, oldChild, NoHash)
  /\ UNCHANGED <<block, node, children, dagTip, txBlock, memory, candidate, pc,
                 origin, child, parentNode, mainListParent, past, crashes>>

EndWalk ==
  /\ pc = "down" /\ oldChild = NoHash
  /\ Release
  /\ UNCHANGED <<db, memory, candidate, crashes>>

SideBranch ==
  /\ pc = "side"
  /\ node' = node \cup {child}
  /\ Release
  /\ UNCHANGED <<block, main, children, dagTip, txBlock, memory, candidate,
                 crashes>>

\* The MiningResultHandler runs before the lock is released.
Callback ==
  /\ pc = "callback"
  /\ Return
  /\ UNCHANGED <<db, memory, candidate, crashes>>

-----------------------------------------------------------------------------
(* Faults *)

\* The process ends between two writes, or after it failed to open, and is
\* started again on its database.
Crash ==
  /\ crashes < MaxCrashes /\ pc # "open"
  /\ crashes' = crashes + 1
  /\ pc' = "open" /\ origin' = "network" /\ candidate' = NoBlock
  /\ tip' = Genesis /\ weight' = 0 /\ state' = Genesis
  /\ child' = Genesis /\ parentNode' = Genesis /\ mainListParent' = Genesis
  /\ oldChild' = NoHash /\ oldMain' = {} /\ oldTip' = Genesis
  /\ UNCHANGED db

\* state.Rebase(child.STATE) returns an error after the tip has moved.
RebaseFails ==
  /\ crashes < MaxCrashes /\ pc = "rebase"
  /\ crashes' = crashes + 1
  /\ Return
  /\ UNCHANGED <<db, memory, candidate>>

-----------------------------------------------------------------------------

Open == SaveGenesisTip \/ SaveGenesisBlock \/ SaveGenesisNode \/ OpenAtTip
Walk == \/ LinkParent \/ SaveTip \/ RebaseState \/ WalkUp \/ SaveChild
        \/ WalkDown \/ EndWalk \/ SideBranch \/ Callback
Produce == \/ NewCandidateBlock \/ MineCandidateBlock \/ MineFails
           \/ \E t \in Tx : AddTransaction(t)

Next == Open \/ AcceptNetworkBlock \/ Produce \/ Walk
Spec == Init /\ [][Next]_vars

\* The goroutine that holds the lock, or opens the engine, keeps running.
FairSpec == Spec /\ WF_vars(Open) /\ WF_vars(Walk)

CrashNext == Next \/ OpenFails \/ LinkFails \/ Crash
CrashSpec == Init /\ [][CrashNext]_vars

FaultNext == CrashNext \/ RebaseFails \/ OpenRebaseFails
FaultSpec == Init /\ [][FaultNext]_vars

-----------------------------------------------------------------------------
(* Properties *)

\* What readers of the engine see: the lock is free, or the miner that holds
\* it has its result.
Visible == pc \in {"idle", "callback"}

\* addValidatedBlock leaves the main list flag on the tip and its ancestors
\* and on no other block, whatever branch it switched from.
CanonicalMainList == Visible => IsCanonical(block, main, tip)

\* No stored block beats the tip in the order of addValidatedBlock, and the
\* tip in the database, its weight and the world state follow the tip.
TipIsBest ==
  Visible => /\ dagTip = tip /\ weight = block[tip].weight /\ state = tip
             /\ \A h \in node : ~Better(block, h, tip)

\* A candidate made by NewCandidateBlock stays valid for validateBlock while
\* other blocks arrive: findUncles proposes no uncle isUncleValid refuses.
CandidateStaysValid ==
  pc = "idle" /\ candidate # NoBlock => ValidBlock(candidate)

\* Descendents of the genesis block end with the tip when the line and its
\* uncles fit into a batch: the flags lead down to it and every uncle listed is
\* stored.
DescendentsReachTip ==
  pc = "idle" /\ tip # Genesis /\ block[tip].weight <= MaxBlocks =>
    LET d == Descendents(node, block, main, children, Genesis, MaxBlocks)
    IN  d # <<>> /\ d[Len(d)] = tip /\ \A i \in DOMAIN d : block[d[i]] # NoBlock

\* Every block was built with AddTransaction, which never puts a transaction on
\* a line that already has it.
HonestTxs ==
  \A h \in node \ {Genesis} : \A k \in 0..block[h].depth :
    LET g == Up(node, block, block[h].parent, k)
    IN  g # NoHash => block[g].txs \cap block[h].txs = {}

\* transactionStatus finds every transaction of the main list in its block,
\* also after the chain moved to another branch with the same transaction:
\* the walk up registers the transactions of every block it flags.  It takes
\* miners that put no transaction twice on a line, and an engine that did not
\* fail half way.
TxIndexed ==
  Visible /\ HonestTxs /\ crashes = 0 =>
    \A h \in main : \A t \in block[h].txs : txBlock[t] = h

\* No stored block beats the tip in the database.
TipKept == block[dagTip] # NoBlock /\ \A h \in node : ~Better(block, h, dagTip)

\* Whatever step a crash or a failed Rebase interrupted, the engine comes back
\* at a tip no stored block beats, with that tip's weight.  A database that does
\* not open (ERR_INITIALIZATION_FAILED) holds such a tip too, whose world state
\* is missing, or it holds no block at all: the first start ended between the
\* genesis tip and the genesis block.
TipSurvives ==
  /\ Visible => dagTip = tip /\ weight = block[tip].weight /\ TipKept
  /\ pc = "failed" => TipKept \/ \A h \in Hash : block[h] = NoBlock

\* The persisted tip is only ever replaced by a better one, crash or not.
TipNeverWorse ==
  [][dagTip # NoHash /\ dagTip' # dagTip => Better(block', dagTip', dagTip)]_vars

\* Every add that takes the lock releases it: the walks up and down end.
AddTerminates == (pc \in Adding) ~> (pc = "idle")
=============================================================================
