----------------------------- MODULE WorldState -----------------------------
(***************************************************************************)
(* World states of blocks: the trie roots the engine and the blocks it     *)
(* handles work on (core/trie/trieImpl.go, consensus/block.go).            *)
(*                                                                         *)
(* Nodes of a trie are put and never removed: they are stored unmarked, so *)
(* that cleanupDepthFirst stops at the root.  What is put and removed is   *)
(* the entry of a root in table TransactionRootByWorldState, and Rebase    *)
(* fails without it.                                                       *)
(***************************************************************************)
EXTENDS Trie, FiniteSets

CONSTANTS
  Block,        \* names of blocks
  Genesis,
  Bounds        \* bounds, a set of [blocks : how many there are, keys : what
                \* they may write, writes : how many keys each]

\* nil: an unknown block; also: nobody holds the engine's lock.
NoBlock == <<>>

ASSUME BlockAssumption ==
  /\ Genesis \in Block /\ NoBlock \notin Block
  /\ \A n \in Bounds : /\ n.blocks \in Nat /\ n.writes \in Nat
                       /\ n.keys \subseteq Key /\ IsFiniteSet(n.keys)

VARIABLES
  txRoot,    \* the roots that have an entry in the table
  stored,    \* table "Block-": parent, depth, writes, STATE and view of a block
  work,      \* the blocks some goroutine is handling
  tip, state,  \* the engine's tip, and the root of its world state
  lock,      \* the block whose add holds the engine's write lock, or NoBlock
  cleaned,   \* history: the roots that Cleanup has removed
  transient, \* history: the roots that the writes of some block pass through
  bounds     \* the one of Bounds; it does not change

vars == <<txRoot, stored, work, tip, state, lock, cleaned, transient, bounds>>

\* The variables a block sets (a value) or deletes (NoValue).
Writes == UNION {[S -> Value \cup {NoValue}] :
                   S \in {T \in SUBSET bounds.keys : Cardinality(T) <= bounds.writes}}

\* There may be one more block.
Room == Cardinality({b \in Block : stored[b] # NoBlock \/ work[b] # NoBlock}) <= bounds.blocks

Stages == {"fill", "mine", "pow", "accept", "rebase"}

TypeOK ==
  /\ tip \in Block /\ stored[tip] # NoBlock
  /\ lock \in Block \cup {NoBlock}
  /\ lock # NoBlock => work[lock] # NoBlock /\ work[lock].stage \in {"mine", "rebase"}
  /\ \A b \in Block : /\ stored[b] # NoBlock => stored[b].writes \in Writes
                      /\ work[b] # NoBlock => /\ work[b].stage \in Stages
                                              /\ work[b].todo \subseteq Key

-----------------------------------------------------------------------------
(* Rebase, Update, Delete and Cleanup of a world state *)

\* Rebase of a world state at root from to root to: both entries are put again.
Rebased(table, from, to) == table \cup {from, to}

\* NewMptWorldState puts the entry of the empty root; then Rebase.
NewAt(root) == Rebased(txRoot, EmptyNode, root)

\* Update for a value, Delete for NoValue.
Written(root, k, value) ==
  IF value = NoValue THEN DeleteDepthFirst(root, MakeHex(k))
  ELSE UpdateDepthFirst(root, MakeHex(k), value)

\* Both put the entries of the old and the new root, unless the key to delete
\* has no path.
Touches(root, k, value) ==
  value # NoValue \/ Walk(root, MakeHex(k))[2 * Len(k)] # Null

Put(table, root, k, value) ==
  IF Touches(root, k, value) THEN table \cup {root, Written(root, k, value)} ELSE table

\* Cleanup removes the entry of a root; the root is unmarked, so no node goes.
Cleaned(table, roots) == table \ roots

-----------------------------------------------------------------------------
(* Where blocks come from *)

\* The roots a miner may compute for a block: persistState ranges over a map,
\* so the order of the writes is arbitrary.
Orders(S) == {f \in [1 .. Cardinality(S) -> S] : \A i, j \in DOMAIN f : f[i] = f[j] => i = j}
Applied(root, w, order) ==
  LET r[i \in 0 .. Len(order)] ==
        IF i = 0 THEN root
        ELSE LET before == r[i - 1] IN Written(before, order[i], w[order[i]])
  IN  r[Len(order)]

Computed(root, w) == {Applied(root, w, order) : order \in Orders(DOMAIN w)}

\* The roots on the way from root to the block's own, in any order of the writes.
Between(root, w) ==
  (UNION {Computed(root, [k \in S |-> w[k]]) : S \in SUBSET DOMAIN w})
    \ ({root} \cup Computed(root, w))

\* The map a block's world state stands for.
View(parent, w) ==
  [k \in Key |-> IF k \in DOMAIN w THEN w[k] ELSE stored[parent].view[k]]

NewBlock(parent, w, root) ==
  [parent |-> parent, depth |-> stored[parent].depth + 1, writes |-> w,
   State |-> root, view |-> View(parent, w)]

Init ==
  /\ txRoot = {EmptyNode}
  /\ stored = [b \in Block |->
       IF b = Genesis
       THEN [parent |-> NoBlock, depth |-> 0, writes |-> <<>>, State |-> EmptyNode,
             view |-> [k \in Key |-> NoValue]]
       ELSE NoBlock]
  /\ work = [b \in Block |-> NoBlock]
  /\ tip = Genesis /\ state = EmptyNode
  /\ lock = NoBlock /\ cleaned = {} /\ transient = {}
  /\ bounds \in Bounds

\* processNetworkBlock for a peer's block: its world state starts at the parent's
\* STATE; the application then runs the transactions and so makes the writes.
\* The STATE it claims is what its miner computed, or wrong.  Without the
\* parent's entry the block is refused.
DecodeNetworkBlock(b) ==
  \E p \in Block, w \in Writes :
    /\ lock = NoBlock /\ stored[b] = NoBlock /\ work[b] = NoBlock
    /\ stored[p] # NoBlock /\ stored[p].State \in txRoot /\ Room
    /\ \E claimed \in Computed(stored[p].State, w) \cup {EmptyNode} :
         work' = [work EXCEPT ![b] =
           [stage |-> "pow", root |-> stored[p].State, todo |-> DOMAIN w, skipped |-> "no",
            block |-> NewBlock(p, w, claimed)]]
    /\ txRoot' = NewAt(stored[p].State)
    /\ transient' = transient \cup Between(stored[p].State, w)
    /\ UNCHANGED <<stored, tip, state, lock, cleaned, bounds>>

\* NewCandidateBlock; nil without the entry of the engine's root.
NewCandidateBlock(b) ==
  \E w \in Writes :
    /\ lock = NoBlock /\ stored[b] = NoBlock /\ work[b] = NoBlock
    /\ state \in txRoot /\ Room
    /\ work' = [work EXCEPT ![b] =
         [stage |-> "fill", root |-> state, todo |-> DOMAIN w, skipped |-> "no",
          block |-> NewBlock(tip, w, state)]]
    /\ txRoot' = NewAt(state)
    /\ transient' = transient \cup Between(state, w)
    /\ UNCHANGED <<stored, tip, state, lock, cleaned, bounds>>

\* mineCandidateBlock takes the lock and computes the hash under it.
MineCandidateBlock(b) ==
  /\ lock = NoBlock /\ work[b] # NoBlock /\ work[b].stage = "fill"
  /\ work' = [work EXCEPT ![b].stage = "mine"]
  /\ lock' = b
  /\ UNCHANGED <<txRoot, stored, tip, state, cleaned, transient, bounds>>

-----------------------------------------------------------------------------
(* persistState *)

\* Mutant of PersistState: the parent's root is cleaned up too.
PersistCleansParent(b, k) ==
  /\ work[b] # NoBlock /\ work[b].stage \in {"mine", "pow"} /\ k \in work[b].todo
  /\ LET old == work[b].root
         new == Written(old, k, work[b].block.writes[k])
     IN  /\ work' = [work EXCEPT ![b].root = new, ![b].todo = @ \ {k}]
         /\ txRoot' = Put(txRoot, old, k, work[b].block.writes[k])
                      \ (IF new = old THEN {} ELSE {old})
  /\ UNCHANGED <<stored, tip, state, lock, cleaned, transient, bounds>>

\* Mutant of PersistState: the tombstone of a deleted variable is left in the map.
PersistSkipsDeletes(b, k) ==
  /\ work[b] # NoBlock /\ work[b].stage \in {"mine", "pow"} /\ k \in work[b].todo
  /\ LET old == work[b].root
         new == IF work[b].block.writes[k] = NoValue THEN old
                ELSE Written(old, k, work[b].block.writes[k])
     IN  work' = [work EXCEPT ![b].root = new, ![b].todo = @ \ {k}]
  /\ UNCHANGED <<txRoot, stored, tip, state, lock, cleaned, transient, bounds>>

\* One turn of the loop: write the variable, then clean up the root before, if
\* it is neither the new root nor the parent's.  CheckNetworkBlockPoW runs it
\* without the engine's lock.
PersistState(b, k) ==
  /\ work[b] # NoBlock /\ work[b].stage \in {"mine", "pow"} /\ k \in work[b].todo
  /\ LET old == work[b].root
         value == work[b].block.writes[k]
         new == Written(old, k, value)
         gone == IF new # old /\ work[b].skipped = "yes" THEN {old} ELSE {}
     IN  /\ work' = [work EXCEPT ![b].root = new, ![b].todo = @ \ {k},
                                 ![b].skipped = IF new = old THEN @ ELSE "yes"]
         /\ txRoot' = Cleaned(Put(txRoot, old, k, value), gone)
         /\ cleaned' = cleaned \cup gone
  /\ UNCHANGED <<stored, tip, state, lock, transient, bounds>>

CheckNetworkBlockPoW(b) ==
  /\ work[b] # NoBlock /\ work[b].stage = "pow" /\ work[b].todo = {}
  /\ work' = [work EXCEPT ![b].stage = "accept"]
  /\ UNCHANGED <<txRoot, stored, tip, state, lock, cleaned, transient, bounds>>

-----------------------------------------------------------------------------
(* addValidatedBlock, as far as world states go *)

\* Every block weighs one more than its parent here; of two blocks of one
\* weight the hash decides.
AddValidatedBlock(b, block) ==
  /\ stored' = [stored EXCEPT ![b] = block]
  /\ \/ /\ block.depth >= stored[tip].depth
        /\ tip' = b /\ lock' = b
        /\ work' = [work EXCEPT ![b].stage = "rebase"]
     \/ /\ block.depth <= stored[tip].depth
        /\ lock' = NoBlock
        /\ work' = [work EXCEPT ![b] = NoBlock]
        /\ UNCHANGED tip

\* computeHash has left the root of the mined block in STATE.
AddMinedBlock(b) ==
  /\ lock = b /\ work[b].stage = "mine" /\ work[b].todo = {}
  /\ AddValidatedBlock(b, [work[b].block EXCEPT !.State = work[b].root])
  /\ UNCHANGED <<txRoot, state, cleaned, transient, bounds>>

\* Mutant of AcceptNetworkBlock: the computed root is not compared with STATE.
AcceptUnchecked(b) ==
  /\ lock = NoBlock /\ work[b] # NoBlock /\ work[b].stage = "accept"
  /\ AddValidatedBlock(b, work[b].block)
  /\ UNCHANGED <<txRoot, state, cleaned, transient, bounds>>

\* computeHash writes the variables once more, which leaves the root as it is.
AcceptNetworkBlock(b) ==
  /\ lock = NoBlock /\ work[b] # NoBlock /\ work[b].stage = "accept"
  /\ txRoot' = IF \E k \in DOMAIN work[b].block.writes :
                    Touches(work[b].root, k, work[b].block.writes[k])
               THEN txRoot \cup {work[b].root} ELSE txRoot
  /\ IF work[b].root = work[b].block.State THEN AddValidatedBlock(b, work[b].block)
     ELSE work' = [work EXCEPT ![b] = NoBlock] /\ UNCHANGED <<stored, tip, lock>>
  /\ UNCHANGED <<state, cleaned, transient, bounds>>

\* Mutant of RebaseState: the engine's world state is not moved.
RebaseForgotten(b) ==
  /\ lock = b /\ work[b].stage = "rebase"
  /\ work' = [work EXCEPT ![b] = NoBlock]
  /\ lock' = NoBlock
  /\ UNCHANGED <<txRoot, stored, tip, state, cleaned, transient, bounds>>

\* state.Rebase(child.State); its error is returned, with the tip moved already.
RebaseState(b) ==
  /\ lock = b /\ work[b].stage = "rebase"
  /\ \/ /\ stored[b].State \in txRoot
        /\ state' = stored[b].State
        /\ txRoot' = Rebased(txRoot, state, stored[b].State)
     \/ /\ stored[b].State \notin txRoot
        /\ UNCHANGED <<state, txRoot>>
  /\ work' = [work EXCEPT ![b] = NoBlock]
  /\ lock' = NoBlock
  /\ UNCHANGED <<stored, tip, cleaned, transient, bounds>>

Next ==
  \E b \in Block \ {Genesis} :
    \/ DecodeNetworkBlock(b) \/ NewCandidateBlock(b) \/ MineCandidateBlock(b)
    \/ \E k \in Key : PersistState(b, k)
    \/ CheckNetworkBlockPoW(b) \/ AddMinedBlock(b) \/ AcceptNetworkBlock(b)
    \/ RebaseState(b)

Spec == Init /\ [][Next]_vars

-----------------------------------------------------------------------------
(* Properties *)

\* A lookup in the world state of a stored block finds what the block and its
\* ancestors wrote last, whatever else was written to the shared tables.  The
\* engine keeps the world state of an older tip, and candidates start from it,
\* once Rebase has failed for a root that Cleanup removed.
WorldViews ==
  (\A b \in Block : stored[b] # NoBlock => stored[b].State \notin cleaned) =>
    \A b \in Block : stored[b] # NoBlock =>
      \A k \in Key : LookupDepthFirst(stored[b].State, MakeHex(k)) = stored[b].view[k]

\* The root that AcceptNetworkBlock compares with STATE is the one the miner got,
\* though both range over the block's variables in an order of their own: an
\* honest block is never refused with ERR_STATE_INCORRECT.
ComputedStateMatches ==
  \A b \in Block : work[b] # NoBlock /\ work[b].stage = "accept" =>
    Computed(stored[work[b].block.parent].State, work[b].block.writes) = {work[b].root}

\* The engine's world state is the tip's whenever its lock is free, unless the
\* tip's root was a transient root of some block, which Cleanup removed, so that
\* Rebase failed.
StateFollowsTip ==
  lock = NoBlock => state = stored[tip].State \/ stored[tip].State \in cleaned

\* processNetworkBlock of a child of a stored block finds the world state to start
\* from, unless the writes of some other block pass through that very root: no
\* block's persistState costs it, its parent or a sibling with the same writes
\* their root, and blocks that write one variable each lose none.
StatesAvailable ==
  \A b \in Block : stored[b] # NoBlock /\ lock # b =>
    stored[b].State \in txRoot \cup transient

\* "get a new candidate block, initialized with a copy of world state from
\* request time tip of the canonical chain" (consensus.go): the tip's root can
\* be rebased to.
CandidateAvailable == lock = NoBlock => stored[tip].State \in txRoot
=============================================================================
