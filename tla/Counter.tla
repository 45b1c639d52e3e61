------------------------------ MODULE Counter -------------------------------
(***************************************************************************)
(* The counter protocol (protocol/counter/manager.go on                    *)
(* protocol/manager.go): nodes that connect, announce their tips, sync,    *)
(* increment and decrement a network counter, pass new blocks on, and shut *)
(* down.  Unlike the platform, a node syncs while it mines, announces no   *)
(* uncles after a sync, and fills its handshake in a message that all its  *)
(* connections share.                                                      *)
(*                                                                         *)
(* An end <<n, m>> is n's side of the connection between n and m.  It has  *)
(* two goroutines: Run, which listens after the handshake, and syncNode.   *)
(* Nodes are of one network, so handshakes are refused for no other reason *)
(* than a broken connection; Pager models their time bound.  LastHash is   *)
(* set before the first request, so a rewind always finds it.              *)
(***************************************************************************)
EXTENDS Chain, FiniteSets

CONSTANTS
  Node,        \* the nodes
  Links,       \* the connections they make, sets of two nodes
  World,       \* the blocks there are at first: a function from hashes to blocks
  Setups,      \* bounds, a set of [know : what the nodes know at first, a
               \* function from Node to Seq(Hash); down : connections that are
               \* not made; miners : nodes that mine; faults : whether
               \* connections may break and applications quit]
  Op,          \* the transaction in each block: "incr" or "decr"
  UInt64,      \* 2^64 in the code: counters wrap around
  SyncBlocks,  \* maxBlocks, 10 in the code
  RewindBy,    \* ancestors to walk back on a rewind, 10 in the code
  ChanSize,    \* capacity of GetBlockHashesChan, 2 in the code
  MaxRequests  \* bound: requests of one sync that are counted

ASSUME CounterAssumption ==
  /\ \A l \in Links : \E n, m \in Node : n # m /\ l = {n, m}
  /\ IsWorld(World)
  /\ \A s \in Setups : /\ s.down \subseteq Links
                       /\ \A n \in Node : IsHistory(World, s.know[n])
  /\ \A h \in Hash : Op[h] \in {"incr", "decr"}
  /\ UInt64 \in Nat \ {0} /\ SyncBlocks \in Nat /\ RewindBy \in Nat \ {0}
  /\ ChanSize \in Nat \ {0} /\ MaxRequests \in Nat

Ends == {e \in Node \X Node : {e[1], e[2]} \in Links}
Other(e) == <<e[2], e[1]>>
Link(e) == {e[1], e[2]}

VARIABLES
  setup,       \* the one of Setups; it does not change
  made,        \* the blocks mined so far, by hash
  stateOf,     \* the STATE in each of them: the value of the counter
  chain,       \* the chain of each node
  value,       \* value[n][h]: the counter in n's world state of block h
  candidate,   \* the block delta has made, or NoBlock
  handshakeMsg, \* TotalWeight and TipNumeric of the node's only handshake message
  stopped,     \* the nodes whose p2p server is stopped
  isInShutdown, \* those whose manager is shutting down
  closed,      \* those whose database is closed
  run,         \* run[e]: where Run is
  myBest,      \* run[e]: its best block
  status,      \* the handshake of the peer
  sync,        \* where syncNode is
  best,        \* its best block; NoHash is nil
  lastHash,    \* node.LastHash
  chan,        \* GetBlockHashesChan
  batch,       \* blocks of the response listen is working on
  pending,     \* block accepted and not yet broadcast
  sent,        \* sent[e]: messages on their way from e[1] to e[2]
  down,        \* broken connections
  \* history:
  garbled,     \* ends that announced another weight or Numeric than their tip's
  missed,      \* ends whose node had a new block between handshake and registration
  requests     \* number of requests for hashes of each sync, up to MaxRequests

nodeVars == <<setup, made, stateOf, chain, value, candidate>>
syncVars == <<sync, best, requests>>
listenVars == <<lastHash, chan, batch, pending>>
stageVars == <<stopped, isInShutdown, closed>>
vars == <<nodeVars, handshakeMsg, stageVars, run, myBest, status, syncVars, listenVars,
          sent, down, garbled, missed>>

-----------------------------------------------------------------------------
(* Counters *)

\* processBlock and delta: a transaction of a block on the counter's value.
Apply(v, op) == (IF op = "incr" THEN v + 1 ELSE v + UInt64 - 1) % UInt64

\* The value after all transactions on the line to h.
Replay(block, h) ==
  LET upTo[d \in 0 .. block[h].depth] ==
        IF d = 0 THEN 0
        ELSE Apply(upTo[d - 1], Op[Up(DOMAIN block, block, h, block[h].depth - d)])
  IN  upTo[block[h].depth]

Values(block) == [h \in Hash |-> IF block[h] = NoBlock THEN 0 ELSE Replay(block, h)]

Announced(c, h) == [weight |-> c.block[h].weight, numeric |-> Numeric[h]]

Init ==
  /\ setup \in Setups
  /\ made = Premade(World) /\ stateOf = Values(made)
  /\ chain = [n \in Node |-> Build(World, setup.know[n])]
  /\ value = [n \in Node |-> Values(chain[n].block)]
  /\ candidate = [n \in Node |-> NoBlock]
  /\ handshakeMsg = [n \in Node |-> [weight |-> 0, numeric |-> 0]]
  /\ stopped = {} /\ isInShutdown = {} /\ closed = {}
  /\ run = [e \in Ends |-> "best"] /\ myBest = [e \in Ends |-> NoHash]
  /\ status = [e \in Ends |-> [weight |-> 0, numeric |-> 0]]
  /\ sync = [e \in Ends |-> "none"] /\ best = [e \in Ends |-> NoHash]
  /\ lastHash = [e \in Ends |-> NoHash] /\ chan = [e \in Ends |-> <<>>]
  /\ batch = [e \in Ends |-> <<>>] /\ pending = [e \in Ends |-> NoHash]
  /\ sent = [e \in Ends |-> <<>>]
  /\ down = setup.down /\ garbled = {} /\ missed = {}
  /\ requests = [e \in Ends |-> 0]

TypeOK ==
  /\ \A h \in Hash : made[h] # NoBlock => made[h] \in BlockSpec
  /\ stateOf \in [Hash -> 0 .. UInt64 - 1]
  /\ \A n \in Node : chain[n].tip \in Known(chain[n])
  /\ value \in [Node -> [Hash -> 0 .. UInt64 - 1]]
  /\ stopped \subseteq Node /\ isInShutdown \subseteq stopped /\ closed \subseteq stopped
  /\ run \in [Ends -> {"best", "weight", "numeric", "send", "read", "listen"}]
  /\ sync \in [Ends -> {"none", "begin", "loop", "wait", "next", "best", "test", "done", "failed"}]
  /\ \A e \in Ends : chan[e] \in Seq({"NEXT", "RETRY"}) /\ Len(chan[e]) <= ChanSize
  /\ down \subseteq Links /\ garbled \subseteq Ends /\ missed \subseteq Ends

-----------------------------------------------------------------------------
(* Run: the handshake *)

Connected(e) == Link(e) \notin down

RunBest(e) ==
  /\ run[e] = "best" /\ Connected(e)
  /\ myBest' = [myBest EXCEPT ![e] = chain[e[1]].tip]
  /\ run' = [run EXCEPT ![e] = "weight"]
  /\ UNCHANGED <<nodeVars, handshakeMsg, stageVars, status, syncVars, listenVars, sent, down, garbled, missed>>

\* getHandshakeMsg fills the message of the package, field by field.
SetWeight(e) ==
  /\ run[e] = "weight" /\ Connected(e)
  /\ handshakeMsg' = [handshakeMsg EXCEPT ![e[1]].weight = Announced(chain[e[1]], myBest[e]).weight]
  /\ run' = [run EXCEPT ![e] = "numeric"]
  /\ UNCHANGED <<nodeVars, stageVars, myBest, status, syncVars, listenVars, sent, down, garbled, missed>>

SetNumeric(e) ==
  /\ run[e] = "numeric" /\ Connected(e)
  /\ handshakeMsg' = [handshakeMsg EXCEPT ![e[1]].numeric = Numeric[myBest[e]]]
  /\ run' = [run EXCEPT ![e] = "send"]
  /\ UNCHANGED <<nodeVars, stageVars, myBest, status, syncVars, listenVars, sent, down, garbled, missed>>

SendStatus(e) ==
  /\ run[e] = "send" /\ Connected(e)
  /\ sent' = [sent EXCEPT ![e] = Append(@, [type |-> "Handshake", status |-> handshakeMsg[e[1]]])]
  /\ garbled' = IF handshakeMsg[e[1]] = Announced(chain[e[1]], myBest[e]) THEN garbled
                ELSE garbled \cup {e}
  /\ run' = [run EXCEPT ![e] = "read"]
  /\ UNCHANGED <<nodeVars, handshakeMsg, stageVars, myBest, status, syncVars, listenVars, down, missed>>

\* The rest of Handshake; the peer is registered and syncNode started.
ReadStatus(e) ==
  /\ run[e] = "read" /\ Connected(e) /\ sent[Other(e)] # <<>>
  /\ status' = [status EXCEPT ![e] = Head(sent[Other(e)]).status]
  /\ sent' = [sent EXCEPT ![Other(e)] = Tail(@)]
  /\ run' = [run EXCEPT ![e] = "listen"]
  /\ sync' = [sync EXCEPT ![e] = "begin"] /\ best' = [best EXCEPT ![e] = myBest[e]]
  /\ UNCHANGED <<requests, nodeVars, handshakeMsg, stageVars, myBest, listenVars, down, garbled, missed>>

-----------------------------------------------------------------------------
(* syncNode *)

\* Mutant of IsSyncNeeded: a tie is not broken by Numeric.
IsSyncNeededWeightOnly(e, h) == status[e].weight > Announced(chain[e[1]], h).weight

IsSyncNeeded(e, h) ==
  LET mine == Announced(chain[e[1]], h) IN
    \/ status[e].weight > mine.weight
    \/ status[e].weight = mine.weight /\ status[e].numeric < mine.numeric

SyncUnchanged == UNCHANGED <<nodeVars, handshakeMsg, stageVars, run, myBest, status, batch, pending,
                             down, garbled, missed>>

BeginSync(e) ==
  /\ sync[e] = "begin"
  /\ \/ /\ ~IsSyncNeeded(e, best[e])
        /\ sync' = [sync EXCEPT ![e] = "done"] /\ UNCHANGED lastHash
     \/ /\ IsSyncNeeded(e, best[e])
        /\ lastHash' = [lastHash EXCEPT ![e] = best[e]]
        /\ sync' = [sync EXCEPT ![e] = "test"]
  /\ SyncUnchanged /\ UNCHANGED <<best, chan, sent, requests>>

\* for !mgr.isInShutdown && isSyncNeeded(best, node)
SyncTest(e) ==
  /\ sync[e] = "test"
  /\ sync' = [sync EXCEPT ![e] = IF e[1] \notin isInShutdown /\ IsSyncNeeded(e, best[e])
                                 THEN "loop" ELSE "done"]
  /\ SyncUnchanged /\ UNCHANGED <<best, lastHash, chan, sent, requests>>

RequestHashes(e) ==
  /\ sync[e] = "loop"
  /\ \/ /\ Connected(e)
        /\ sent' = [sent EXCEPT ![e] =
             Append(@, [type |-> "GetBlockHashesRequest", parent |-> lastHash[e]])]
        /\ sync' = [sync EXCEPT ![e] = "wait"]
        /\ requests' = [requests EXCEPT ![e] = IF @ < MaxRequests THEN @ + 1 ELSE @]
     \/ /\ ~Connected(e)
        /\ sync' = [sync EXCEPT ![e] = "failed"] /\ UNCHANGED <<sent, requests>>
  /\ SyncUnchanged /\ UNCHANGED <<best, lastHash, chan>>

\* Run has returned and closed the channel.
Closed(e) == ~Connected(e) /\ batch[e] = <<>> /\ pending[e] = NoHash

\* <- node.GetBlockHashesChan; a closed channel delivers CHAN_ERROR, and
\* CHAN_NEXT and CHAN_RETRY are handled alike.
ReadChan(e) ==
  /\ sync[e] = "wait"
  /\ \/ /\ chan[e] # <<>>
        /\ chan' = [chan EXCEPT ![e] = Tail(@)]
        /\ sync' = [sync EXCEPT ![e] = "next"]
     \/ /\ chan[e] = <<>> /\ Closed(e)
        /\ sync' = [sync EXCEPT ![e] = "failed"] /\ UNCHANGED chan
  /\ SyncUnchanged /\ UNCHANGED <<best, lastHash, sent, requests>>

\* if !mgr.isInShutdown
SyncNext(e) ==
  /\ sync[e] = "next"
  /\ sync' = [sync EXCEPT ![e] = IF e[1] \in isInShutdown THEN "test" ELSE "best"]
  /\ SyncUnchanged /\ UNCHANGED <<best, lastHash, chan, sent, requests>>

\* BestBlock returns nil when the database is closed.  It does so too when
\* its state cannot be rebased, which is left to WorldState.
SyncBest(e) ==
  /\ sync[e] = "best"
  /\ best' = [best EXCEPT ![e] = IF e[1] \in closed THEN NoHash ELSE chain[e[1]].tip]
  /\ sync' = [sync EXCEPT ![e] = "test"]
  /\ SyncUnchanged /\ UNCHANGED <<lastHash, chan, sent, requests>>

-----------------------------------------------------------------------------
(* listen and its handlers *)

Listening(e) == run[e] = "listen" /\ Connected(e) /\ batch[e] = <<>> /\ pending[e] = NoHash

\* The listener of e takes a message of this type.
Receives(e, type) ==
  Listening(e) /\ sent[Other(e)] # <<>> /\ Head(sent[Other(e)]).type = type

Message(e) == Head(sent[Other(e)])

\* The message is answered with another one.
Reply(e, msg) ==
  sent' = [sent EXCEPT ![Other(e)] = Tail(@), ![e] = Append(@, msg)]
Consume(e) == sent' = [sent EXCEPT ![Other(e)] = Tail(@)]

ListenUnchanged == UNCHANGED <<handshakeMsg, stageVars, run, myBest, status, syncVars, garbled>>

HandleHashesRequest(e) ==
  /\ Receives(e, "GetBlockHashesRequest")
  /\ LET hashes == DescendentsOf(chain[e[1]], Message(e).parent, SyncBlocks)
     IN  Reply(e, IF hashes = <<>> THEN [type |-> "GetBlockHashesRewind"]
                  ELSE [type |-> "GetBlockHashesResponse", hashes |-> hashes])
  /\ ListenUnchanged /\ UNCHANGED <<nodeVars, listenVars, down, missed>>

HandleHashesResponse(e) ==
  /\ Receives(e, "GetBlockHashesResponse")
  /\ Reply(e, [type |-> "GetBlocksRequest", hashes |-> Message(e).hashes])
  /\ ListenUnchanged /\ UNCHANGED <<nodeVars, listenVars, down, missed>>

\* There is no ancestor of the genesis block: the node disconnects.
HandleRewind(e) ==
  /\ Receives(e, "GetBlockHashesRewind")
  /\ Consume(e)
  /\ \/ /\ lastHash[e] = Genesis
        /\ down' = down \cup {Link(e)} /\ UNCHANGED <<lastHash, chan>>
     \/ /\ lastHash[e] # Genesis /\ Len(chan[e]) < ChanSize
        /\ lastHash' = [lastHash EXCEPT ![e] = Ancestor(chain[e[1]], @, RewindBy)]
        /\ chan' = [chan EXCEPT ![e] = Append(@, "RETRY")]
        /\ UNCHANGED down
  /\ ListenUnchanged /\ UNCHANGED <<nodeVars, batch, pending, missed>>

\* The hashes are this node's own, so it finds every block.
HandleBlocksRequest(e) ==
  /\ Receives(e, "GetBlocksRequest")
  /\ Reply(e, [type |-> "GetBlocksResponse", hashes |-> Message(e).hashes])
  /\ ListenUnchanged /\ UNCHANGED <<nodeVars, listenVars, down, missed>>

HandleBlocksResponse(e) ==
  /\ Receives(e, "GetBlocksResponse")
  /\ Consume(e)
  /\ batch' = [batch EXCEPT ![e] = Message(e).hashes]
  /\ ListenUnchanged /\ UNCHANGED <<nodeVars, lastHash, chan, pending, down, missed>>

\* DecodeNetworkBlockSpec, processBlock and AcceptNetworkBlock of block h: n
\* replays the transaction on the world state of h's parent and compares the
\* result with the STATE of the block.
Accepts(n, h) ==
  Valid(chain[n], made[h]) /\ stateOf[h] = Apply(value[n][made[h].parent], Op[h])

Accept(e, h) ==
  LET n == e[1] IN
    /\ chain' = [chain EXCEPT ![n] = Added(@, h, made[h])]
    /\ value' = [value EXCEPT ![n][h] = Apply(value[n][made[h].parent], Op[h])]
    /\ pending' = [pending EXCEPT ![e] = IF h \in Known(chain[n]) THEN NoHash ELSE h]
    /\ UNCHANGED <<setup, made, stateOf, candidate>>

\* Mutant of Advance: LastHash stays where it was.
AdvanceInPlace(e) ==
  /\ chan' = IF Len(batch[e]) = 1 THEN [chan EXCEPT ![e] = Append(@, "NEXT")] ELSE chan
  /\ batch' = [batch EXCEPT ![e] = Tail(@)]
  /\ UNCHANGED lastHash

\* A block of the response is done; the last one asks syncNode for the next batch.
Advance(e) ==
  /\ Len(batch[e]) = 1 => Len(chan[e]) < ChanSize
  /\ lastHash' = [lastHash EXCEPT ![e] = Head(batch[e])]
  /\ chan' = IF Len(batch[e]) = 1 THEN [chan EXCEPT ![e] = Append(@, "NEXT")] ELSE chan
  /\ batch' = [batch EXCEPT ![e] = Tail(@)]

\* The next block of a response: added, skipped as a duplicate, or refused, which
\* ends the connection.
ProcessBlock(e) ==
  /\ batch[e] # <<>> /\ pending[e] = NoHash
  /\ LET h == Head(batch[e]) IN
       \/ h \in Known(chain[e[1]]) /\ Advance(e) /\ UNCHANGED <<nodeVars, pending, down>>
       \/ /\ h \notin Known(chain[e[1]]) /\ Accepts(e[1], h) /\ Accept(e, h)
          /\ UNCHANGED <<lastHash, chan, batch, down>>
       \/ /\ ~Accepts(e[1], h)
          /\ down' = down \cup {Link(e)} /\ batch' = [batch EXCEPT ![e] = <<>>]
          /\ UNCHANGED <<nodeVars, lastHash, chan, pending>>
  /\ ListenUnchanged /\ UNCHANGED <<sent, missed>>

HandleNewBlock(e) ==
  /\ Receives(e, "NewBlock")
  /\ Consume(e)
  /\ LET h == Message(e).hash IN
       \/ Accepts(e[1], h) /\ Accept(e, h) /\ UNCHANGED down
       \/ /\ ~Accepts(e[1], h)
          /\ down' = down \cup {Link(e)} /\ UNCHANGED <<nodeVars, pending>>
  /\ ListenUnchanged /\ UNCHANGED <<lastHash, chan, batch, missed>>

\* broadCast of h to the registered peers of n but those in except; peers whose
\* handshake is under way are not told.
BroadCast(n, h, except) ==
  /\ sent' = [e \in Ends |->
       IF e[1] = n /\ run[e] = "listen" /\ Connected(e) /\ e \notin except
       THEN Append(sent[e], [type |-> "NewBlock", hash |-> h]) ELSE sent[e]]
  /\ missed' = missed \cup
       {e \in Ends : e[1] = n /\ run[e] \in {"weight", "numeric", "send", "read"}}

\* processBlock after AcceptNetworkBlock; the sender has been marked.
Forward(e) ==
  /\ pending[e] # NoHash
  /\ BroadCast(e[1], pending[e], {e})
  /\ pending' = [pending EXCEPT ![e] = NoHash]
  /\ \/ batch[e] # <<>> /\ Advance(e)
     \/ batch[e] = <<>> /\ UNCHANGED <<lastHash, chan, batch>>
  /\ ListenUnchanged /\ UNCHANGED <<nodeVars, down>>

-----------------------------------------------------------------------------
(* Increment and Decrement *)

NodeUnchanged == UNCHANGED <<handshakeMsg, run, myBest, status, syncVars, listenVars, garbled>>

\* Hash bounds the number of blocks.  Which of the unused hashes a block gets
\* makes no difference but for Numeric and Op.
Unused == {h \in Hash : made[h] = NoBlock}
Fresh == CHOOSE h \in Unused : TRUE

\* delta up to MineCandidateBlock: the value is read in the candidate's own
\* world state, a copy of the tip's.
NewCandidateBlock(n) ==
  /\ n \in setup.miners /\ n \notin stopped /\ candidate[n] = NoBlock /\ Unused # {}
  /\ LET us == CandidateUncles(chain[n])
         tip == chain[n].block[chain[n].tip]
     IN  candidate' = [candidate EXCEPT ![n] =
           [parent |-> chain[n].tip, depth |-> tip.depth + 1,
            weight |-> tip.weight + 1 + Len(us), uncles |-> us, txs |-> {}]]
  /\ NodeUnchanged /\ UNCHANGED <<setup, made, stateOf, chain, value, stageVars, sent, down, missed>>

\* The block is mined with the value of the counter at position h.
MinedWith(n, h) ==
  /\ candidate[n] # NoBlock /\ Unused # {}
  /\ LET v == Apply(value[n][h], Op[Fresh]) IN
       /\ made' = [made EXCEPT ![Fresh] = candidate[n]]
       /\ stateOf' = [stateOf EXCEPT ![Fresh] = v]
       /\ value' = [value EXCEPT ![n][Fresh] = v]
  /\ chain' = [chain EXCEPT ![n] = Added(@, Fresh, candidate[n])]
  /\ candidate' = [candidate EXCEPT ![n] = NoBlock]
  /\ BroadCast(n, Fresh, {})
  /\ NodeUnchanged /\ UNCHANGED <<setup, stageVars, down>>

\* Mutant of MineCandidateBlock: the counter is read at the best block of the
\* moment, not in the candidate.
MineFromBestBlock(n) == MinedWith(n, chain[n].tip)

\* The miner adds the block; its callback broadcasts it under the engine's lock.
MineCandidateBlock(n) == MinedWith(n, candidate[n].parent)

-----------------------------------------------------------------------------
(* The end of connections and of the node *)

Drop(l) ==
  /\ setup.faults /\ l \notin down
  /\ down' = down \cup {l}
  /\ NodeUnchanged /\ UNCHANGED <<nodeVars, stageVars, sent, missed>>

\* srv.Stop in the application, which waits for every Run to return.
StopServer(n) ==
  /\ setup.faults /\ n \notin stopped /\ candidate[n] = NoBlock
  /\ down' = down \cup {l \in Links : n \in l}
  /\ stopped' = stopped \cup {n}
  /\ NodeUnchanged /\ UNCHANGED <<nodeVars, isInShutdown, closed, sent, missed>>

\* Every Run of the node has returned.
Stopped(n) == n \in stopped /\ \A e \in Ends : e[1] = n => Closed(e)

\* Mutant of Shutdown: the database is closed first.
ShutdownCloseFirst(n) ==
  /\ Stopped(n)
  /\ \/ n \notin closed /\ closed' = closed \cup {n} /\ UNCHANGED isInShutdown
     \/ n \in closed \ isInShutdown /\ isInShutdown' = isInShutdown \cup {n} /\ UNCHANGED closed
  /\ NodeUnchanged /\ UNCHANGED <<nodeVars, stopped, sent, down, missed>>

\* isInShutdown is set, then the database is closed.
Shutdown(n) ==
  /\ Stopped(n)
  /\ \/ n \notin isInShutdown /\ isInShutdown' = isInShutdown \cup {n} /\ UNCHANGED closed
     \/ n \in isInShutdown \ closed /\ closed' = closed \cup {n} /\ UNCHANGED isInShutdown
  /\ NodeUnchanged /\ UNCHANGED <<nodeVars, stopped, sent, down, missed>>

-----------------------------------------------------------------------------

Handshake(e) == RunBest(e) \/ SetWeight(e) \/ SetNumeric(e) \/ SendStatus(e) \/ ReadStatus(e)
SyncNode(e) == \/ BeginSync(e) \/ SyncTest(e) \/ RequestHashes(e) \/ ReadChan(e)
               \/ SyncNext(e) \/ SyncBest(e)
Listen(e) == \/ HandleHashesRequest(e) \/ HandleHashesResponse(e) \/ HandleRewind(e)
             \/ HandleBlocksRequest(e) \/ HandleBlocksResponse(e) \/ ProcessBlock(e)
             \/ HandleNewBlock(e) \/ Forward(e)

Next ==
  \/ \E e \in Ends : Handshake(e) \/ SyncNode(e) \/ Listen(e)
  \/ \E n \in Node : NewCandidateBlock(n) \/ MineCandidateBlock(n) \/ StopServer(n) \/ Shutdown(n)
  \/ \E l \in Links : Drop(l)

Spec == Init /\ [][Next]_vars

-----------------------------------------------------------------------------
(* Properties *)

\* The answer to the request of e is on its way: a message, or a batch that
\* listen is working on.
Answering(e) ==
  \/ chan[e] # <<>> \/ batch[e] # <<>>
  \/ \E i \in DOMAIN sent[e] : sent[e][i].type \in {"GetBlockHashesRequest", "GetBlocksRequest"}
  \/ \E i \in DOMAIN sent[Other(e)] :
       sent[Other(e)][i].type \in {"GetBlockHashesRewind", "GetBlockHashesResponse",
                                   "GetBlocksResponse"}

\* A sync waits only for an answer that is on its way or for a channel that
\* will be closed.
SyncAnswered == \A e \in Ends : sync[e] = "wait" /\ Connected(e) => Answering(e)

\* Every batch n serves below its tip ends with a block of its main list.  One
\* that ends with an uncle leaves the asking node where n has to say rewind.
WholeBatches(n) ==
  \A h \in chain[n].main \ {chain[n].tip} :
    LET hashes == DescendentsOf(chain[n], h, SyncBlocks)
    IN  hashes # <<>> /\ hashes[Len(hashes)] \in chain[n].main

\* "wait until sync completes, or an error" (syncNode): besides, it ends with no
\* more requests than there are blocks on the two lines, as each request walks
\* back a block or brings one, whatever is forwarded, dropped or shut down
\* meanwhile, whichever node mines and if the peer changes its branch once.  Two
\* exceptions: a peer that announced a weight and a byte sum that are not those of
\* its tip, as its announcement may never be met; and a peer whose uncles do not
\* fit a batch, as the node may walk back and ask for the same batch for ever.
SyncAdvances ==
  /\ SyncAnswered
  /\ \A e \in Ends : requests[e] > 0 /\ Other(e) \notin garbled /\ WholeBatches(e[2]) =>
       requests[e] <= chain[e[1]].block[myBest[e]].depth
                      + chain[e[2]].block[chain[e[2]].tip].depth

Quiet ==
  /\ \A e \in Ends : sent[e] = <<>> /\ batch[e] = <<>> /\ pending[e] = NoHash
  /\ \A e \in Ends : run[e] = "listen" /\ sync[e] \in {"done", "failed"}

\* Two nodes that are connected when all messages are handled have no better tip
\* than one another, whichever way the blocks came: by sync, by announcement
\* or by both.  It takes handshakes that announced the tip, and no new block
\* between a handshake and the registration of the peer (Run registers it last).
TipsAgree ==
  Quiet => \A e \in Ends :
    Connected(e) /\ {e, Other(e)} \cap (garbled \cup missed) = {} =>
      ~Better(made, chain[e[2]].tip, chain[e[1]].tip)

\* A counter read at any block is what the transactions on the line to that block
\* make of it, on every node: those of other branches leave no trace, and a
\* decrement at zero wraps around alike everywhere.
CountersExplained ==
  \A n \in Node : \A h \in Known(chain[n]) : value[n][h] = Replay(chain[n].block, h)

\* syncNode outlives its connection; it never looks at the nil block BestBlock
\* returns once Shutdown has closed the database.
NoNilBest ==
  \A e \in Ends : sync[e] = "test" /\ e[1] \notin isInShutdown => best[e] # NoHash
=============================================================================
