# A TLA+ development of go-trust-net

go-trust-net is a block chain platform: applications submit transactions, nodes
mine them into blocks, and all nodes agree on the heaviest chain, where the
uncles a block lists add to its weight (GHOST). This directory models its
consensus engines, its world state, its network platform and the two protocols
that came before it, checks the models with TLC on small instances, and proves
what matters most with TLAPS for every instance.

## The system

| part | code | module |
|---|---|---|
| consensus engine | `consensus/blockChainConsensus.go`, `chainNode.go` | `BlockTree` (pure operators), `BlockChainConsensus` |
| what the engine promises | `consensus/consensus.go` | `HeaviestChain`, shown implemented in `ChainRefinement` |
| world state | `core/trie/trieImpl.go`, `consensus/block.go` | `Trie` (pure), `WorldState` |
| life cycle, block producer | `network/platform.go` | `BlockProducer` |
| handshake and sync with a new peer | `network/platform.go`, `node.go` | `PlatformSync`, on `Chain` |
| propagation of new blocks | `network/platform.go`, `db/peerSetDbInMem.go` | `Gossip`, on `Chain` |
| mining rewards, transfers, the application's counters | `network/trustee.go`, `countrApp/app.go` | `Trustee`, on `Chain` |
| first generation chain | `core/chain/blockChain.go`, `blockNode.go` | `FirstChain`, on `BlockTree` |
| counter protocol | `protocol/counter/manager.go`, `protocol/manager.go` | `Counter`, on `Chain` |
| pager protocol, peer connections | `protocol/pager/manager.go`, `protocol/manager.go`, `protocol/node.go`, `common/util.go`, `common/set.go` | `Pager` |
| proofs | | `BlockTreeProofs` (trees and chains), `BlockChainConsensusProofs`, `FirstChainProofs`, `WorldStateProofs`, `GossipProofs`, `CounterProofs`, `PlatformProofs` (`PlatformSync` and `Trustee`), `GoroutineProofs` (`BlockProducer` and `Pager`) |

The application calls `Submit`; the producer takes transactions from a queue,
lets the application and the trustee write to a candidate block and has the
engine mine it; a mined block is broadcast; a peer replays the block's
transactions and has its own engine accept it; a node that meets a heavier peer
suspends production and syncs. The counter and pager protocols are older users
of the same connections; the counter runs on the consensus engine, too, and
`core/chain` is the engine before it. The modules cut the system along these
calls. `MC*` modules hold the small instances, one `.cfg` for each run.

### How the modules correspond to the code

`BlockChainConsensus`. `block`, `node` with `main` and `children`, `dagTip` and
`txBlock` are the tables of the database; `tip`, `weight` and `state` are the
engine's memory. The engine adds a block under its write lock, so there is one
add at a time and its locals (`child`, `parentNode`, `mainListParent`,
`oldChild`) are variables; `pc` says how far it is. One step saves the records
of one block at most, so that `Crash` may come between any two of them. `Spec` is
the engine without faults, `CrashSpec` adds crashes and the error paths only a
crash leads to, `FaultSpec` also a failing `Rebase`, of an add or on opening: a tip
whose root is lost makes the database refuse to open, and the node may be started
again. `oldMain`, `oldTip` and
`crashes` are history. A hash stands for a block's content; proof of work is
the choice of a hash. A network block claims any depth and weight near the right
ones, so that `validateBlock` has something to refuse.

`HeaviestChain` has one action, an atomic `Add`. In `ChainRefinement` an add
takes effect when the lock is released, or the miner's callback runs.

`Trie` writes the recursive walks over nibbles as functions of a root node; the
hash of a node is the node itself, and the null hash is no node. `WorldState` has the table of roots
(`txRoot`), the stored blocks, the blocks that goroutines are handling (`work`)
and the engine's lock. `PersistState` is one turn of the loop in `persistState`,
and the keys come in any order, as Go's maps do; for network blocks it runs
outside the lock, as `CheckNetworkBlockPoW` does. Two sets of roots are history:
`cleaned`, those a `Cleanup` has removed, and `transient`, those that lie between
the start and the end of some block's writes, in any order of them.

`BlockProducer` has a program counter for each goroutine that calls `Start`,
`Suspend` or `Stop` (the application, and `syncNode` of each new peer). Each
access of `isRunning` is a step, and a send on the unbuffered channel is one step
with the `select` that receives it. Calls may overlap; `overlapped` remembers
that two of them were past their test of `isRunning` at a time, and `wanted`
whether production was last switched on.

`Chain` gives the engine to the network modules as a record and adds blocks in
one step, which is what `ChainRefinement` justifies. What nodes know when they
meet is a list of blocks in an order in which an engine can have got them
(`IsHistory`), out of a set of blocks that are valid among themselves (`IsWorld`);
`Build` adds them one by one. `PlatformSync` has `Run` on
both sides (handshake, registration, deregistration, `Disconnect`), the two
goroutines of a node, `syncNode` and `listen`, the channel between them, the
peer's `listen`, and the two directions of the connection. `Gossip` has any
number of connected nodes; `HandleNewBlock` and `Forward` are two steps because
`processBlock` accepts under the engine's lock and broadcasts after it. `Trustee`
follows balances along the tree of blocks of one network. The application's
counters (`incr` and `decr` of its `txProcessor`) are in the same world state under
any name, an account's too; only transfers look at a balance. Its variables and
specification have names of their own (`contents`, `TrusteeSpec`), so that one
module proves about both. In `PlatformSync` the node is the one whose tip does
not beat the peer's at first: of two nodes that meet, the code syncs the other
one.

`FirstChain` has the tables of `core/chain` (`block`, `node` with its flags and
children, the saved tip), the memory of the chain, and the locals of the add,
the opening or the `Flush` that is under way, one write a step. `Restart` may
come between any two writes. The weight in memory starts at zero whenever the
chain is opened, as in the code; `fresh` is the history that says what was added
since. `torn` remembers an interrupted call, `flushes` the flushes.

`Counter` has, for each end of a connection, `Run` with its handshake and
`syncNode`; nodes mine (`Increment` and `Decrement`), announce, forward, shut
down. The handshake message is one variable for all connections of a node, and
its two fields are set in two steps; `garbled` and `missed` are history.

`Pager` has, for each end, `Run` and the goroutine `RunTimeBound` starts; both
variables `err` and the message they share are accessed in single steps, and
`peerCount++` is a load and a store. A page is flooded peer by peer (`todo`), and
`knownTxs` forgets any three pages when it is full. `overlap` remembers nodes
that made or ended two connections at a time.

## What is checked

Bounds are named constants of the modules; the `.cfg` files give their values.
`Hash` bounds the number of blocks everywhere.

| run | shows | bounds |
|---|---|---|
| `engine` | main list, best tip, candidates stay valid, `Descendents` reaches the tip, every add ends, refinement of `HeaviestChain` | 4 blocks and genesis, one uncle in a network block, any number in a candidate, a pair of colliding byte sums |
| `engine_faults` | the tip survives crashes and failed rebases, also on opening, and no failure to open loses a block; without them the transaction table follows the main list | 3 blocks, one transaction, 2 faults |
| `world_state` | write order and no-op deletes do not change a root; lookups, availability of roots, state follows tip | 2 blocks with 2 writes to 2 keys of which one begins the other, 3 blocks with one write to 2 keys of which one begins the other or which part in their second nibble, or 1 block with 2 writes to these 3 keys |
| `producer` | one producer, production kept, capacity, no greedy block, no lost transaction, `Suspend` and `Stop` return, transactions settle | 2 transactions, queue of 1 and block of 2, one sync, calls of the application in any order and overlapping |
| `sync` | from the handshake on, a sync ends and leaves the nodes at one tip; blocks are refused in the known cases only | the code's batch of 10 and rewind by 10; forks up to 19 deep, five generations with an uncle each (the peer may mine the sixth), uncles with uncles; connection may break or be refused |
| `gossip` | nodes converge up to ties; disconnects only after overtaking | 3 nodes, 3 blocks, a pair of colliding byte sums |
| `trustee` | peers accept mined blocks; balances are explained by their line, and by mining and transfers alone where counters have names of their own | 2 miners and a name besides, 4 blocks with transfers, or 3 with transfers and with counter operations on the name and on accounts; one transaction a block, awards 5 and 1 (the code's ratio) |
| `first_chain` | main list, `Blocks` reaches the tip, an uncle is listed once, heaviest tip since opening, opens again | 4 blocks and genesis, one restart, one flush, claimed weights off by one |
| `counter` | tips agree, counters are the sum of their line, no nil block is read, a sync advances | 3 nodes and 2 connections, 6 blocks, batch 2 and rewind 2, channel of 2, counters modulo 4, 8 requests counted |
| `pager` | registered peers have shown their status, pages spread, each node is paged once, capacity | 5 nodes in six setups, at most 2 peers, sets of known pages that hold 1, 2 pages, one of the nodes of another network |

Three blocks are the fewest with a reorganisation that flags more than the new
block, and with an uncle and its nephew; four with a move from a branch of two
to another branch of two. The sizes of `PlatformSync` are the code's own because its edge cases are about
them; `Counter`, whose sync is the same, has small ones, so that requests,
rewinds and new blocks interleave. The radix of the trie is 2 instead of 16,
which keeps two nibbles to a byte. `UInt64` in `Trustee` is 256: larger than any
supply in reach, so that a negative amount is, as in the code, larger than any
balance; in `Counter` it is 4, so that decrements wrap around. A set of known
pages that holds one forgets with every page. Three connections at a node with
room for two meet the limit.

Deadlock checking is off where the model stops by design: hashes are used up, a
sync has ended, the application has stopped the node.

Two more runs expect a violation, each of a sentence in the code's own comments;
`findings` in `PROJECT.json` quotes them.

* `world_state_shared`: cleaning up a transient root removes the entry of another
  block with the same root; then no candidate can be made. If that block is
  being added at the same time, its `Rebase` fails and the tip moves without its
  world state. It takes blocks with two writes or more that pass through one
  state.
* `sync_livelock`: with one uncle in each of seven generations a batch ends with
  uncles and the sync repeats itself for ever. Six generations are fine.

What the properties of the passing runs exempt is behaviour of the code too:

* a candidate that is overtaken while it is mined goes to a side branch and is
  reported as mined (`MineCandidateBlock`), so no property says that a mined
  block is on the main list;
* after a crash between saving the tip and flagging its line, `Descendents` does
  not reach the tip, and the next block repairs part of the flags only
  (`DescendentsReachTip` is checked without crashes);
* `Descendents` counts uncles, and `Blocks` blocks, against the size of the batch;
  `DescendentsReachTip` and `BlocksReachTip` speak of main lists that fit, and of
  any size of batch. What happens beyond is the sync's to handle (`sync`,
  `sync_livelock`);
* a root that a block passed through may be removed from under another block
  (`StatesAvailable` exempts the roots in `transient`, whether or not they were
  removed; `WorldViews` and `StateFollowsTip` those in `cleaned`). Where each block
  writes one variable there is no such root, and nothing is exempt;
* a `Rebase` that fails in an add leaves the new tip saved without its world state,
  and the database does not open again while that root is missing. `TipSurvives`
  says that the blocks and the saved tip are all there;
* a counter operation writes any name, the name of an account included, and looks at
  no balance. `BalancesExplained` accounts for it modulo 2^64, and says that money
  is made by mining alone only for lines on which counters and accounts have
  different names. Without that condition the run finds a balance that wraps;
* two overlapping calls of `Start` run two producers, and the second of two
  overlapping shutdowns waits for ever (`overlapped` in `BlockProducer`); a sync
  that fails leaves production off (`KeepsRunning`);
* `Stop` while no producer runs does not return (`SuspendReturns`);
* an uncle that lists an uncle of its own may be sent too early and refused
  (`SyncNotRefused`);
* a block mined between a peer's handshake and its registration is neither
  synced nor announced (`missed` in `PlatformSync` and `Counter`);
* two handshakes of a counter node at one time may announce the weight of one tip
  and the byte sum of another (`garbled`);
* a counter peer whose uncles do not fit a batch makes a sync repeat itself as in
  `sync_livelock` (`WholeBatches` in `SyncAdvances`). The run has such a peer: without
  the condition it finds more requests than the bound;
* equal weight and equal byte sum leave nodes at different tips (`NodesConverge`,
  and `TipsAgree` speaks of better tips only);
* connections that are made at the same time may exceed the limit of peers and
  lose an update of the count (`CapacityUnlessOverlap`);
* `Flush` leaves nodes of side branches behind; a block below one of them makes
  the walk up of the first generation chain panic (`OpensAgain`);
* `Disconnect` with an `AppConfig` that `Peers` returned does nothing, because the
  `NodeId` there has one more leading byte (`platform.go:213` and `:760`, against
  the comment at `platform.go:39`); the action in `PlatformSync` says so.

### Fairness

`BlockChainConsensus!FairSpec`: the goroutine that holds the lock, or opens the
engine, keeps running (weak fairness of `Walk` and `Open`); no block has to come.
`BlockProducer!ProducerFairSpec`: goroutines are scheduled and mining ends, as the proof
of work is bounded in time (weak); Go's `select` picks at random among the ready
cases, so a case that is ready again and again is taken (strong fairness of the
timer, the queue and the shutdown). No call has to be made.
`PlatformSync!FairSpec`: goroutines run and messages on a live connection arrive
(weak); the peer need not mine and the connection need not break. The other
specifications state no fairness; instead of liveness their properties speak of
states in which everything has been handled (`NodesConverge`, `TipsAgree`,
`PagesSpread`), or bound the number of steps (`SyncAdvances`).

## What is proved

`BlockChainConsensusProofs`, for every `Hash`, `Numeric` and bound, from
`TreeAssumption` (genesis is a hash, nil is none, byte sums are numbers),
`NoBlockAssumption` and `BoundAssumption`:

* `TypeCorrect`: `FaultSpec => []TypeOK`;
* `TipSurvivesFaults`: `FaultSpec => []TipSurvives`;
* `TipNeverWorsens`: `FaultSpec => TipNeverWorse`.

`TipSurvives` has two halves: where readers see the engine, its tip is the saved one,
stored, with its own weight and beaten by no chain node; where the engine did not
open, the same is true of the saved tip, or the database has no block at all, as
after a crash before the genesis block was saved. The inductive invariant `FaultInv` says that stored blocks form a tree in which
depth grows by one and weight by at least one (`BlockInv`), that chain nodes are
closed under parents (`NodeInv`), that children lists hold children
(`ChildrenInv`), what the locals of an add are (`AddInv`), and that the saved tip
is the tip in memory and beaten by no chain node (`TipInv`). The last fact
survives a crash because a block that beats the tip gets its chain node only
after the tip has been saved.

The same module, for the engine without faults:

* `MainListIsCanonical`: `Spec => []CanonicalMainList`;
* `TipIsTheBest`: `Spec => []TipIsBest`.

`CanonicalMainList` speaks of states between two adds. The invariant `MainInv`
adds what holds inside one: the blocks the walk up has flagged are the line from
`parentNode` to the new block (`NewLine`), and the walk down has reset the old
line between `parentNode` and `oldChild` and nothing else (`OldLine`). The walk
down must not stop early; this needs that the old line has no gap, that a chain
node is in its parent's list of children, and the least number principle to pick
the highest block that would be left.

* `EngineImplementsChain`: `Spec => ImplementsHeaviestChain`.

Readers see `oldMain` and `oldTip` and not the new block while an add is under
way. Each write up to the release of the lock is then a stutter: it concerns the
new block, the flags or the memory. The step that ends the walk down, and the
step that saves a block on a side branch, are `Add` of `HeaviestChain`: the
parent is known (`NodeInv`), the block beats the old tip or does not (`MainInv`
carries the comparison through the walks), and the main list is canonical by
`MainListIsCanonical`. The network modules rest on this theorem when they add a
block in one step.

On the same invariant:

* `CandidateStaysValidHolds`: `Spec => []CandidateStaysValid`. `QuietInv` adds
  that every listed child and every stored block has a chain node, the one being
  added aside, and that the candidate is valid in the middle of an add too. That
  a candidate is valid when it is made is a theorem about `findUncles` against
  `isUncleValid` (`FindUnclesFact` in `BlockTreeProofs`): what the search up and
  down the tree lists passes the walk that checks it, for every tree and every
  `maxUncleDistance`. That it stays valid is `UncleGrows`: the walk finds the same
  when blocks are added;
* `TxIndexedHolds`: `FaultSpec => []TxIndexed`. `TxInv` says that during the
  walks every flagged block of the new line is registered; two blocks of one line
  have no transaction in common (`LineFact`), so that registering one of them
  takes nothing away from another. A transaction that is on both branches may be
  found in the old one until the walk up has passed the new one;
* `DescendentsEndAtTip`: `Spec => []DescendentsReachTip`. `WeightInv` says that a
  weight counts a block and its uncles on top of its parent's, and that uncles
  are stored. A round of the loop that puts the uncles of a block and the block
  into the batch has then used as many places as the weight says, and the next
  block of the main list is a listed child until the tip is reached (`LeadsTo`,
  `DescentReaches`). So a batch the tip's weight fits into is not full before the tip is in it.

`BlockTreeProofs` has the facts about walks and searches in a tree on which these
rest (`Up`, `IsUncleValid`, `FindNonDirectAncestors`, `FindUncles`,
`Descendents`), and about the chains of the network modules: `Added` keeps
`IsChain` (the blocks form a tree, the tip is beaten by none, the main list is
its line), and blocks that are added in the order of a history of a valid world
make such a chain (`Build`). They are
inductions over the number of generations, rounds or blocks, done by hand: the
least number for which a claim fails, from the library's well-foundedness of the
naturals, takes the place of an induction rule. The recursive functions are shown
to exist in the same way before anything is said about them. `Descendents` and
`Blocks` are loops in the code, and in the models a function of the number of
rounds, which is what makes them tractable here.

`WorldStateProofs`, for any keys, values, radix, blocks and bounds, from
`TrieAssumption` and `BlockAssumption`:

* `ComputedStateMatchesHolds`, `WorldViewsHold`, `StateFollowsTipHolds`,
  `StatesAvailableHolds`: `Spec => []P` for the four properties of the run.

The first half is about the trie alone. `Walk` after an update or a delete is
described path by path, and `Holds(new, root, w, S)` says what the writes `w` to
the keys `S` make of a trie: the paths to the keys it sets are there, each of
those keys has its value, everything else is as it was. There is one such trie
(`HoldsUnique`, from `Extensional`: tries that show the same at every path are the
same node), hence the order of writes does not matter. `WorldInv` then says that each block in work has its parent's
trie with the writes made so far, and each stored block a trie that shows its
view. A root that was cleaned up may make a candidate start elsewhere, which is
why `Clean` guards what is said of candidates. For `StatesAvailable`, `TransientInv`
adds that only transient roots are cleaned up: `persistState` cleans the root before
a write that changes it, and only after an earlier write changed the root it started
from. The root it cleans then differs from the start (at that earlier key, which no
later write undoes) and from the end (at the key it is about to write).

`GossipProofs`, for any number of nodes and blocks, from `TreeAssumption`
and `NoBlockAssumption`:

* `RefusedOnlyWhenOvertakenHolds`: `Spec => []RefusedOnlyWhenOvertaken`;
* `NodesConvergeHolds`: `Spec => []NodesConverge`.

`GossipInv` says that each node has a part of the blocks made and its tip is best
among them (`ChainInv`), that a block one node knows and a connected peer does not
is on the wire between them or is still to be forwarded by somebody (`SpreadInv`),
and that a node that was never overtaken has sent what a block builds on before
the block (`OrderInv`). In a state where nothing is on the wire all know the same.

`CounterProofs`, for any nodes, connections, blocks, batch and channel sizes and
counters of any width, from `CounterAssumption` (a connection has two different
ends; the blocks miners make are valid among themselves; each node begins with a
history of such blocks; a batch may be empty, a rewind and a channel are not):

* `CountersAreExplained`: `Spec => []CountersExplained`. `ValueInv` says it of every
  node and block at every moment. A block is applied to the counter of its parent,
  and the line to the parent is the same on all nodes (`ReplaySame`), whatever
  each has beside it;
* `BestIsNotNil`: `Spec => []NoNilBest`. `StageInv` orders the steps of a
  shutdown, `SyncInv` says that the best block of a sync is nil only if the
  database was closed;
* `ConnectedTipsAgree`: `Spec => []TipsAgree`. `HelloInv` ties what a peer read to
  the block the handshake announced, `SyncInv` says that a sync that ended has
  met it, and `SpreadInv` that a block better than the announcement is known to
  the peer, on its way there, or still to be broadcast by another connection's
  `listen`. When all is handled only the first is left, and the tip that was
  announced, or a later one, has arrived;
* `WaitingSyncsAreAnswered`: `Spec => []SyncAnswered`. `WaitInv` follows a request
  from one queue to the next: as a request, as its answer, as the request for the
  blocks, as the batch in work, as a signal on the channel. It takes that no list
  of hashes on the wire is empty (`FullInv`), as the handler of the last block of a
  list is who signals `syncNode`.

`PlatformProofs`, for any two histories, sizes and numbers of blocks the peer
mines, from `SyncAssumption`, which is like the counter's:

* `SyncedTipsAgree`: `Spec => []SyncedNodesAgree`. `PlatformInv` is built like the
  counter's invariant, with one thing more: the node never has a block that beats
  the peer's tip (`BothInv`), since all it gets comes from the peer. A sync that
  ended has met the status of the peer (`SyncInv`); a block that beats the status
  was announced (`SpreadInv`). So neither tip beats the other, and weight and
  Numeric are equal;

and for `Trustee` and any miners, names, transactions, awards and width, from
`TrusteeAssumption` and `BoundsAssumption`:

* `MinedBlocksAreAccepted`: `TrusteeSpec => []PeersAcceptMined`. `TrusteeInv` gives
  each block and each candidate its witness, the ledgers after the reward and after
  each transaction, which lead from the parent's `STATE` to its own and of which none
  refuses the next one (`Follows`). `Replayed` is shown to compute these
  ledgers. A candidate's witness does not depend on the tip, so that it lasts while
  other blocks are mined.

`GoroutineProofs`, for `BlockProducer` and any number of syncs, transactions and
producers and any sizes, from `ProducerAssumption` (the two modules share this one
because neither rests on a tree of blocks; the definitions of `BlockProducer`
carry the prefix `Producer` for that):

* `OneProducerRuns` and `ProductionIsKept`: `ProducerSpec => []OneProducer` and
  `ProducerSpec => []KeepsRunning`. The invariant `LifeInv` says, for every point
  of the call that is under way, whether there is a producer and what `isRunning`
  says;
* `BlocksKeepCapacity`, `NoBlockIsGreedy`, `OnlyShutdownLoses`: capacity, no
  greedy block, no transaction lost but by a shutdown, also when calls overlap.
  `BlockInv` ties the count to the block, `QueueInv` says that a transaction is
  queued once and leaves the queue for a block.

and for `Pager` and any nodes, connections, pages and sizes, from
`PagerAssumption` (a connection has two different ends; those that are up at first
are between nodes of one network, no more of them at a node than the limit; nodes,
ends, pages, statuses and the nil message are told apart):

* `HandshakesAreSound`: `Spec => []HandshakeSound`. `ErrInv` is the point: after
  the timer, `err` says nil only if the goroutine has read a message, however its
  write and that of the timer are ordered;
* `PagesComeToRest`: `Spec => []PagedOnce`. `SentInv` is an account: what has been
  sent over a connection, and what a goroutine has still to send over it, is at
  most one for a page in the history and one for a page of the node's own;
* `CapacityIsKept`: `Spec => []CapacityUnlessOverlap`. `CountInv` says that the
  count of a node that never overlapped is the number of its connections between
  the store that counts them and the store that discounts them, and that what was
  loaded is still the count when it is stored. The limit was looked at when no
  other connection was being made;
* `PagesReachEveryPeer`: `Spec => []PagesSpread`. `SpreadInv` says of a page and a
  connection older than it: if one side has the page, then the other side has it,
  too, or it is on the wire, or a goroutine has the peer still on its list. The
  set of known messages matters here: a peer is left out because it is known to
  have the page, and what the set forgets costs a message and loses none.

`FirstChainProofs`, for any blocks, restarts and flushes, from `TreeAssumption`:

* `ChainOpensAgain`: `Spec => []OpensAgain`. `SavedInv` says where the saved tip
  and the genesis block have their nodes, unless a call was interrupted;
  `WalkInv` that before the first flush nodes are closed under parents, so that a
  walk up ends;
* `TipIsHeaviest`: `Spec => []HeaviestSinceOpen`. `WeightInv` bounds what was
  added since the opening by the weight in memory, and that by the tip's;
* `FirstMainListIsCanonical`: `Spec => []CanonicalMainList`. `LineInv` has three
  parts. `ListInv`: no child is listed twice, and where it is stored it is listed
  below its parent. `MainInv`, before a flush: the main list is a line
  (`LineOf`); during the walk up it is the old line and the branch climbed so far
  (`Branch`); during the walk down it is the new line and what is left of the old
  one (`Rest`). `FlushInv`: a flush leaves a line that gets shorter from below.
  Weights have no part in this, so that it holds where a lighter block takes over
  after a restart;
* `UnclesAreCountedOnce`: `Spec => []UnclesCountOnce`. The search collects from
  lists of children at different parents; a stored child is listed once, below its
  parent, so that the collected lists have nothing in common (`ForestKids`,
  `UnclesOnce`);
* `BlocksEndAtTip`: `Spec => []BlocksReachTip`. Each round of the loop steps from a
  block of the line to the next, one deeper (`NextBelow`), until the tip.

Only model-checked:

* liveness (`AddTerminates`, `SuspendReturns`, `TxSettles`, `SyncEnds`), which this
  prover does not reach;
* the bound on requests in `SyncAdvances`, for peers whose batches are whole. It is a
  bound for the instance: a peer
  that changes its branch again and again makes a sync walk back again and again,
  and there is no bound in terms of the two lines at the end. Its first half is
  proved (`WaitingSyncsAreAnswered`);
* `SyncNotRefused`. It depends on what is in a batch together with what is before
  it (`Descendents` from a block in the middle, with uncles of uncles), and on the
  order of uncles in a block;
* `BalancesExplained`, whose sums over sets come from folds with an operator as
  parameter, which none of the provers can instantiate.

## What is not modelled

Serialisation, digests, signatures and the nonce search (a hash is a name, an
honest signature verifies). The transaction trie, switched off in the code. The
key-value stores: a put is one atomic write. Unsynchronised accesses of Go maps
(the peer set, the sets of known messages), which are undefined in Go and not
interleavings of smaller steps. Configuration, logging and the command lines,
apart from the order in which they stop and shut down. `PROJECT.json` lists every
part with its reason, and the hazards with the properties that cover them.

## Plan

1. Done: both engines, world state, producer, handshake and sync, propagation,
   rewards, the counter and pager protocols; the theorems above.
2. Models: a composition of producer and engine in which a failed sync leaves
   production suspended; crashes of `WorldState` between the trie's writes and
   the chain's.
3. Proofs: uniqueness of the best block when byte sums differ, which would turn
   the agreement on weight and byte sum into one on blocks; `SyncNotRefused`;
   `BalancesExplained` with the sum along a line as a function of the depth.
