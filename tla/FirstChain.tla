----------------------------- MODULE FirstChain -----------------------------
(***************************************************************************)
(* The first generation block chain, BlockChainInMem of core/chain, with   *)
(* the blocks of core/block.go.  It keeps the tables of BlockTree in a     *)
(* database and tip and weight in memory; depth and td are those of the    *)
(* tip and are left out.  One add or flush at a time holds the lock; pc    *)
(* says how far it is, and every record it writes is a step of its own.    *)
(***************************************************************************)
EXTENDS BlockTree

CONSTANTS
  MaxClaim,      \* bound: weight a network block claims for uncles, listed or not
  MaxRestarts,   \* bound: restarts, clean or not, in a behaviour
  MaxFlushes     \* bound: calls of Flush

ASSUME FirstBounds == {MaxClaim, MaxRestarts, MaxFlushes} \subseteq Nat

VARIABLES
  \* the database
  block, node, main, children, dagTip,
  \* the chain's memory
  tip, weight,
  \* the call that holds the lock
  pc, child, parentNode, mainListParent, oldChild,
  \* history: the blocks that were ever made; those added since the chain was
  \* opened; whether a call was ever interrupted; whether a block was added to
  \* what a flush left behind; restarts and flushes so far
  made, fresh, torn, mixed, restarts, flushes

db      == <<block, node, main, children, dagTip>>
memory  == <<tip, weight>>
call    == <<child, parentNode, mainListParent, oldChild>>
history == <<made, fresh, torn, mixed, restarts, flushes>>
vars    == <<db, memory, pc, call, history>>

Opening  == {"open", "genesisBlock", "genesisNode"}
Adding   == {"parent", "tip", "up", "down", "side"}
Flushing == {"flushNode", "flushBlock"}

TypeOK ==
  /\ block \in [Hash -> BlockSpec \cup {NoBlock}] /\ made \in [Hash -> BlockSpec \cup {NoBlock}]
  /\ node \in SUBSET Hash /\ main \in SUBSET Hash /\ fresh \in SUBSET Hash
  /\ children \in [Hash -> Seq(Hash)]
  /\ dagTip \in Hash \cup {NoHash}
  /\ tip \in Hash /\ weight \in Nat
  /\ pc \in Opening \cup Adding \cup Flushing \cup {"idle", "failed", "panic"}
  /\ child \in Hash /\ mainListParent \in Hash
  /\ {parentNode, oldChild} \subseteq Hash \cup {NoHash}
  /\ torn \in BOOLEAN /\ mixed \in BOOLEAN /\ restarts \in Nat /\ flushes \in Nat

Init ==
  /\ block = [h \in Hash |-> NoBlock] /\ node = {} /\ main = {}
  /\ children = [h \in Hash |-> <<>>] /\ dagTip = NoHash
  /\ tip = Genesis /\ weight = 0
  /\ pc = "open"
  /\ child = Genesis /\ parentNode = Genesis /\ mainListParent = Genesis
  /\ oldChild = NoHash
  /\ made = [h \in Hash |-> IF h = Genesis THEN GenesisBlock ELSE NoBlock]
  /\ fresh = {} /\ torn = FALSE /\ mixed = FALSE /\ restarts = 0 /\ flushes = 0

-----------------------------------------------------------------------------
(* NewBlockChainInMem *)

SaveGenesisTip ==
  /\ pc = "open" /\ dagTip = NoHash
  /\ dagTip' = Genesis
  /\ pc' = "genesisBlock"
  /\ UNCHANGED <<block, node, main, children, memory, call, history>>

\* SaveBlock(genesis)
SaveGenesisBlock ==
  /\ pc = "genesisBlock"
  /\ block' = [block EXCEPT ![Genesis] = GenesisBlock]
  /\ pc' = "genesisNode"
  /\ UNCHANGED <<node, main, children, dagTip, memory, call, history>>

\* SaveBlockNode(chain.genesis), flagged as main list
SaveGenesisNode ==
  /\ pc = "genesisNode"
  /\ node' = node \cup {Genesis} /\ main' = main \cup {Genesis}
  /\ pc' = "idle"
  /\ UNCHANGED <<block, children, dagTip, memory, call, history>>

\* The tip is restored; the weight stays at zero.
OpenAtTip ==
  /\ pc = "open" /\ dagTip # NoHash
  /\ dagTip \in node /\ block[dagTip] # NoBlock
  /\ tip' = dagTip
  /\ pc' = "idle"
  /\ UNCHANGED <<db, weight, call, history>>

\* ERR_DB_CORRUPTED: "cannot find block node for the tip", or its block.
OpenFails ==
  /\ pc = "open" /\ dagTip # NoHash
  /\ dagTip \notin node \/ block[dagTip] = NoBlock
  /\ pc' = "failed"
  /\ UNCHANGED <<db, memory, call, history>>

-----------------------------------------------------------------------------
(* AddBlockNode and AddNetworkNode *)

\* Mutant of Uncles: the parent itself is not skipped among the children.
UnclesWithParent(parent) == <<parent>> \o FindUncles(node, block, children, parent)

\* findUncles and findNonDirectAncestors above a new block's parent.
Uncles(parent) == FindUncles(node, block, children, parent)

\* The hash of a block that has not been made yet.  Nothing depends on which
\* hash it is, so the next unused name stands for it.
NextHash == CHOOSE h \in Hash : made[h] = NoBlock
Unmade == {h \in Hash : made[h] = NoBlock}

\* The checks of both (a block is a SimpleBlock), and SaveBlock(block).  A hash stands for one
\* content: a block that comes again comes unchanged.
BeginAdd(h, b) ==
  /\ b \in BlockSpec /\ b.parent \in node /\ h \notin node
  /\ made[h] \in {NoBlock, b}
  /\ made' = [made EXCEPT ![h] = b]
  /\ block' = [block EXCEPT ![h] = b]
  /\ fresh' = fresh \cup {h} /\ mixed' = (flushes > 0)
  /\ child' = h /\ parentNode' = b.parent /\ mainListParent' = h
  /\ oldChild' = NoHash
  /\ pc' = "parent"
  /\ UNCHANGED <<node, main, children, dagTip, memory, torn, restarts, flushes>>

\* NewSimpleBlock for a child of p, with the uncles and the weight given.
SimpleBlock(p, uncles, extra) ==
  [parent |-> p, depth |-> block[p].depth + 1,
   weight |-> block[p].weight + 1 + Len(uncles) + extra, uncles |-> uncles, txs |-> {}]

\* A block of this node: every uncle in reach is added and weighs one.  The
\* time stamp makes its hash a new one.
AddBlockNode ==
  /\ pc = "idle" /\ Unmade # {}
  /\ \E p \in node : BeginAdd(NextHash, SimpleBlock(p, Uncles(p), 0))

\* The nodes beside the line of p, where the uncles of a child of p are found.
BesideLine(p) == node \ {Up(node, block, p, k) : k \in 0 .. block[p].depth}

\* A block of a peer, which lists uncles its own chain found: they must be
\* known here.  Its weight is not checked; the caller of the peer's
\* AddBlockNode may have set it higher.  Neither are its depth and its uncles,
\* which are those AddBlockNode gives a block on the peer.
AddNetworkNode ==
  /\ pc = "idle"
  /\ \E p \in node, n, extra \in 0..MaxClaim :
       /\ n + extra <= MaxClaim
       /\ \E us \in [1..n -> BesideLine(p)],
             h \in (Hash \ Unmade) \cup (IF Unmade = {} THEN {} ELSE {NextHash}) :
            BeginAdd(h, SimpleBlock(p, us, extra))

-----------------------------------------------------------------------------
(* addBlock, after SaveBlock *)

\* The locals of a call go out of scope when it returns.
Return ==
  /\ pc' = "idle"
  /\ child' = Genesis /\ parentNode' = Genesis /\ mainListParent' = Genesis
  /\ oldChild' = NoHash

\* Mutant of LinkParent: the parent is not saved when the tip moves.
LinkParentUnsaved ==
  /\ pc = "parent"
  /\ IF weight < block[child].weight
     THEN pc' = "tip" /\ UNCHANGED children
     ELSE pc' = "side" /\ children' = [children EXCEPT ![parentNode] = Append(@, child)]
  /\ UNCHANGED <<block, node, main, dagTip, memory, call, history>>

\* AddChild and SaveBlockNode(parent), then the comparison with the tip.
LinkParent ==
  /\ pc = "parent"
  /\ children' = [children EXCEPT ![parentNode] = Append(@, child)]
  /\ pc' = IF weight < block[child].weight THEN "tip" ELSE "side"
  /\ UNCHANGED <<block, node, main, dagTip, memory, call, history>>

\* Mutant of SaveTip: the weight is not moved with the tip.
SaveTipOnly ==
  /\ pc = "tip"
  /\ tip' = child /\ dagTip' = child
  /\ pc' = "up"
  /\ UNCHANGED <<block, node, main, children, weight, call, history>>

SaveTip ==
  /\ pc = "tip"
  /\ weight' = block[child].weight /\ tip' = child /\ dagTip' = child
  /\ pc' = "up"
  /\ UNCHANGED <<block, node, main, children, call, history>>

\* Flag the parent and go on with its own parent, a nil node if that is gone.
WalkUp ==
  /\ pc = "up" /\ parentNode \in Hash \ main
  /\ main' = main \cup {parentNode}
  /\ mainListParent' = parentNode
  /\ parentNode' = IF block[parentNode].parent \in node THEN block[parentNode].parent ELSE NoHash
  /\ UNCHANGED <<block, node, children, dagTip, memory, pc, child, oldChild, history>>

\* Mutant of SaveChild: the old main list is looked for below the new block.
SaveChildNoSearch ==
  /\ pc = "up" /\ parentNode \in main
  /\ node' = node \cup {child} /\ main' = main \cup {child}
  /\ children' = [children EXCEPT ![child] = <<>>]
  /\ oldChild' = FindMainListChild(node', main', children', child, NoHash)
  /\ pc' = "down"
  /\ UNCHANGED <<block, dagTip, memory, child, parentNode, mainListParent, history>>

\* SaveBlockNode(child), a node without children, then the search for the old
\* main list below the first ancestor that was on it.
SaveChild ==
  /\ pc = "up" /\ parentNode \in main
  /\ node' = node \cup {child} /\ main' = main \cup {child}
  /\ children' = [children EXCEPT ![child] = <<>>]
  /\ oldChild' = FindMainListChild(node', main', children', parentNode, mainListParent)
  /\ pc' = "down"
  /\ UNCHANGED <<block, dagTip, memory, child, parentNode, mainListParent, history>>

WalkDown ==
  /\ pc = "down" /\ oldChild # NoHash
  /\ main' = main \ {oldChild}
  /\ oldChild' = FindMainListChild(node, main', children, oldChild, NoHash)
  /\ UNCHANGED <<block, node, children, dagTip, memory, pc, child, parentNode,
                 mainListParent, history>>

EndWalk ==
  /\ pc = "down" /\ oldChild = NoHash
  /\ Return
  /\ UNCHANGED <<db, memory, history>>

\* SaveBlockNode(child) of a block that is not on the main list.
SideBranch ==
  /\ pc = "side"
  /\ node' = node \cup {child} /\ main' = main \ {child}
  /\ children' = [children EXCEPT ![child] = <<>>]
  /\ Return
  /\ UNCHANGED <<block, dagTip, memory, history>>

-----------------------------------------------------------------------------
(* Flush *)

\* Mutant of FlushTip: the tip is reset in memory only.
FlushTipMemory ==
  /\ pc = "idle" /\ flushes < MaxFlushes
  /\ flushes' = flushes + 1
  /\ tip' = Genesis
  /\ oldChild' = FindMainListChild(node, main, children, Genesis, NoHash)
  /\ pc' = "flushNode"
  /\ UNCHANGED <<db, weight, child, parentNode, mainListParent, made, fresh, torn, mixed, restarts>>

\* The tip goes back to the genesis block; the weight stays.
FlushTip ==
  /\ pc = "idle" /\ flushes < MaxFlushes
  /\ flushes' = flushes + 1
  /\ tip' = Genesis /\ dagTip' = Genesis
  /\ oldChild' = FindMainListChild(node, main, children, Genesis, NoHash)
  /\ pc' = "flushNode"
  /\ UNCHANGED <<block, node, main, children, weight, child, parentNode,
                 mainListParent, made, fresh, torn, mixed, restarts>>

\* Delete the node of a main list block; what hangs beside it stays.
FlushNode ==
  /\ pc = "flushNode" /\ oldChild # NoHash
  /\ node' = node \ {oldChild} /\ main' = main \ {oldChild}
  /\ pc' = "flushBlock"
  /\ UNCHANGED <<block, children, dagTip, memory, call, history>>

\* Delete its block, and go on from the node in memory.
FlushBlock ==
  /\ pc = "flushBlock"
  /\ block' = [block EXCEPT ![oldChild] = NoBlock]
  /\ oldChild' = FindMainListChild(node, main, children, oldChild, NoHash)
  /\ pc' = "flushNode"
  /\ UNCHANGED <<node, main, children, dagTip, memory, child, parentNode,
                 mainListParent, history>>

EndFlush ==
  /\ pc = "flushNode" /\ oldChild = NoHash
  /\ Return
  /\ UNCHANGED <<db, memory, history>>

-----------------------------------------------------------------------------
(* Restarts *)

\* The process ends, between two writes if a call is in progress, and is
\* started again on its database.
Restart ==
  /\ restarts < MaxRestarts /\ pc \notin {"open", "failed"}
  /\ restarts' = restarts + 1
  /\ torn' = (torn \/ pc # "idle")
  /\ pc' = "open" /\ tip' = Genesis /\ weight' = 0 /\ fresh' = {}
  /\ child' = Genesis /\ parentNode' = Genesis /\ mainListParent' = Genesis
  /\ oldChild' = NoHash
  /\ UNCHANGED <<db, made, mixed, flushes>>

\* The walk up leaves the tree: parent.IsMainList() of a nil node panics.
Panic ==
  /\ pc = "up" /\ parentNode = NoHash
  /\ pc' = "panic"
  /\ UNCHANGED <<db, memory, call, history>>

-----------------------------------------------------------------------------

Open == SaveGenesisTip \/ SaveGenesisBlock \/ SaveGenesisNode \/ OpenAtTip \/ OpenFails
Add  == \/ AddBlockNode \/ AddNetworkNode \/ LinkParent \/ SaveTip \/ WalkUp
        \/ SaveChild \/ WalkDown \/ EndWalk \/ SideBranch
Flush == FlushTip \/ FlushNode \/ FlushBlock \/ EndFlush

Next == Open \/ Add \/ Flush \/ Restart \/ Panic
Spec == Init /\ [][Next]_vars

-----------------------------------------------------------------------------
(* Blocks and BlockSpecs: the main list below parent, max blocks at most *)

Blocks(parent, max) ==
  LET limit == IF max > MaxBlocks THEN MaxBlocks ELSE max
      below(h) == FindMainListChild(node, main, children, h, NoHash)
      walk[i \in 0 .. limit] ==
        IF i = 0 THEN [at |-> below(parent), list |-> <<>>]
        ELSE LET w == walk[i - 1]
             IN  IF w.at = NoHash \/ block[w.at] = NoBlock THEN w
                 ELSE [at |-> below(w.at), list |-> Append(w.list, w.at)]
  IN  IF parent \in node THEN walk[limit].list ELSE <<>>

-----------------------------------------------------------------------------
(* Properties *)

\* No call was interrupted, and no block was added to what a flush left.
Intact == ~torn /\ ~mixed

\* addBlock and Flush leave the main list flag on the tip and its ancestors
\* and on no other block, over restarts, also where a block lighter than the
\* old tip takes over after one.
CanonicalMainList == pc = "idle" /\ Intact => IsCanonical(block, main, tip)

\* Blocks below the genesis block name the main list from the bottom up, and end
\* with the tip when the main list fits into a batch.  It takes an intact chain:
\* Flush leaves nodes beside the main list, and when their deleted parent is
\* added again it no longer lists them.
BlocksReachTip ==
  pc = "idle" /\ Intact /\ tip # Genesis /\ block[tip].depth <= MaxBlocks =>
    LET d == Blocks(Genesis, MaxBlocks)
    IN  /\ d # <<>> /\ d[Len(d)] = tip
        /\ \A i \in DOMAIN d : block[d[i]].depth = i

\* The uncles AddBlockNode would list above any parent are known, are not on
\* the parent's own line, and are listed once, so that each adds to the weight
\* of one block once.
UnclesCountOnce ==
  pc = "idle" /\ Intact => \A p \in node :
    LET us == Uncles(p)
    IN  /\ \A i, j \in DOMAIN us : us[i] = us[j] => i = j
        /\ LET beside == BesideLine(p) IN \A i \in DOMAIN us : us[i] \in beside

\* Since it was opened the chain has added no block heavier than its tip,
\* although it starts with a weight of zero: what a restart forgets is only
\* what was stored before.
HeaviestSinceOpen ==
  pc = "idle" /\ flushes = 0 => \A h \in fresh : block[h].weight <= block[tip].weight

\* A chain none of whose calls was interrupted opens again, the tip that was
\* saved has its node and its block, and it panics only when a block was added
\* after a flush: Flush leaves nodes whose parents are gone, and the walk up
\* from a child of such a node ends at a nil node.
OpensAgain == (pc = "failed" => torn) /\ (pc = "panic" => ~Intact)
=============================================================================
