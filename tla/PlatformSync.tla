---------------------------- MODULE PlatformSync ----------------------------
(***************************************************************************)
(* A node and a peer with a better chain (network/platform.go): handshake  *)
(* and registration on both sides, syncNode and listen of the node, listen *)
(* of the peer, and the messages between them, up to the disconnect.       *)
(*                                                                         *)
(* The node's two goroutines share node.LastHash and the buffered channel  *)
(* GetBlockHashesChan, which is closed when listen returns.  The peer      *)
(* needs no sync (isSyncNeeded is false on its side), so its syncNode      *)
(* returns at once.  An honest peer sends no empty list of hashes, so      *)
(* CHAN_DONE is left out.  Pager models the time bound of a handshake.     *)
(***************************************************************************)
EXTENDS Chain, FiniteSets

CONSTANTS
  World,       \* the blocks miners make: a function from hashes to blocks
  Setups,      \* what the two nodes know at first: [local, remote : Seq(Hash)]
  SyncBlocks,  \* maxBlocks of the platform, 10 in the code
  RewindBy,    \* ancestors to walk back on a rewind, 10 in the code
  ChanSize,    \* capacity of GetBlockHashesChan, 2 in the code
  MaxMined,    \* bound: blocks the peer mines during the sync
  MayDrop      \* whether the connection may be lost, or refused by an application

ASSUME SyncAssumption ==
  /\ IsWorld(World)
  /\ \A s \in Setups :
       /\ IsHistory(World, s.local) /\ IsHistory(World, s.remote)
       /\ ~Better(Premade(World), Build(World, s.local).tip, Build(World, s.remote).tip)
  /\ SyncBlocks \in Nat /\ RewindBy \in Nat \ {0} /\ ChanSize \in Nat \ {0}
  /\ MaxMined \in Nat /\ MayDrop \in BOOLEAN

VARIABLES
  run,                 \* where Run is on either side, "node" and "peer"
  peerDb,              \* the sides that have registered the other one
  missed,              \* history: a block was mined between the peer's status and
                       \* its registration of the node
  local, remote,       \* the chains of the node and of the peer
  status,              \* weight and Numeric of the peer's tip at the handshake
  pc,                  \* where syncNode is
  best, lastHash,      \* its best block, and node.LastHash
  chan,                \* GetBlockHashesChan
  batch,               \* blocks of the response listen is working on
  toPeer, toNode,      \* messages on their way
  link,                \* the connection: up, closed by a node that refused a
                       \* message, or lost
  mined                \* blocks the peer has mined since

runVars == <<run, peerDb, missed>>
vars == <<runVars, local, remote, status, pc, best, lastHash, chan, batch, toPeer, toNode,
          link, mined>>
syncVars == <<pc, best, lastHash>>

Sides == {"node", "peer"}

TypeOK ==
  /\ run \in [Sides -> {"send", "read", "listen", "left"}] /\ peerDb \subseteq Sides
  /\ local.tip \in Known(local) /\ remote.tip \in Known(remote)
  /\ pc \in {"none", "begin", "loop", "wait", "announce", "done", "failed"}
  /\ best \in Known(local) /\ lastHash \in Known(local)
  /\ chan \in Seq({"NEXT", "RETRY"}) /\ Len(chan) <= ChanSize
  /\ batch \in Seq(Hash) /\ link \in {"up", "refused", "lost"}

Init ==
  /\ \E s \in Setups : local = Build(World, s.local) /\ remote = Build(World, s.remote)
  /\ run = [s \in Sides |-> "send"] /\ peerDb = {} /\ missed = FALSE
  /\ status = [weight |-> 0, numeric |-> 0]
  /\ pc = "none" /\ best = local.tip /\ lastHash = local.tip
  /\ chan = <<>> /\ batch = <<>> /\ toPeer = <<>> /\ toNode = <<>>
  /\ link = "up" /\ mined = 0

-----------------------------------------------------------------------------
(* Run: handshake, registration and the end of the connection *)

Status(chain) == [weight |-> chain.block[chain.tip].weight, numeric |-> Numeric[chain.tip]]

\* BestBlock, getHandshakeMsg and the send in handshake.
SendStatus(s) ==
  /\ run[s] = "send" /\ link = "up"
  /\ run' = [run EXCEPT ![s] = "read"]
  /\ \/ /\ s = "node" /\ UNCHANGED toNode
        /\ toPeer' = Append(toPeer, [type |-> "Handshake", status |-> Status(local)])
     \/ /\ s = "peer" /\ UNCHANGED toPeer
        /\ toNode' = Append(toNode, [type |-> "Handshake", status |-> Status(remote)])
  /\ UNCHANGED <<peerDb, missed, local, remote, status, syncVars, chan, batch, link, mined>>

\* The rest of handshake: the application's PeerValidator may refuse; else
\* registerPeer, and on the node's side syncNode starts.
ReadStatus(s) ==
  LET inbox == IF s = "node" THEN toNode ELSE toPeer IN
  /\ run[s] = "read" /\ link = "up" /\ inbox # <<>>
  /\ IF s = "node" THEN toNode' = Tail(inbox) /\ UNCHANGED toPeer
                   ELSE toPeer' = Tail(inbox) /\ UNCHANGED toNode
  /\ \/ /\ run' = [run EXCEPT ![s] = "listen"] /\ peerDb' = peerDb \cup {s}
        /\ IF s = "node" THEN status' = Head(inbox).status /\ pc' = "begin"
                         ELSE UNCHANGED <<status, pc>>
        /\ UNCHANGED link
     \/ /\ MayDrop /\ link' = "lost"
        /\ UNCHANGED <<run, peerDb, status, pc>>
  /\ UNCHANGED <<missed, local, remote, best, lastHash, chan, batch, mined>>

\* Run returns: unregisterPeer, and the channel is closed.
UnregisterPeer(s) ==
  /\ run[s] # "left" /\ link # "up" /\ (s = "node" => batch = <<>>)
  /\ run' = [run EXCEPT ![s] = "left"] /\ peerDb' = peerDb \ {s}
  /\ UNCHANGED <<missed, local, remote, status, syncVars, chan, batch, toPeer, toNode, link, mined>>

\* The application disconnects the other side by its node ID.  An AppConfig from
\* Peers has one more byte in its NodeId and is not found: nothing happens.
Disconnect(s) ==
  /\ MayDrop /\ s \in peerDb /\ link = "up"
  /\ peerDb' = peerDb \ {s} /\ link' = "lost"
  /\ UNCHANGED <<run, missed, local, remote, status, syncVars, chan, batch, toPeer, toNode, mined>>

-----------------------------------------------------------------------------
(* syncNode *)

\* Mutant of IsSyncNeeded: a tie is not broken by Numeric.
IsSyncNeededWeightOnly(h) == status.weight > local.block[h].weight

IsSyncNeeded(h) ==
  \/ status.weight > local.block[h].weight
  \/ status.weight = local.block[h].weight /\ status.numeric < Numeric[h]

BeginSync ==
  /\ pc = "begin"
  /\ lastHash' = best
  /\ pc' = IF IsSyncNeeded(best) THEN "loop" ELSE "done"
  /\ UNCHANGED <<runVars, local, remote, status, best, chan, batch, toPeer, toNode, link, mined>>

RequestHashes ==
  /\ pc = "loop"
  /\ \/ /\ link = "up"
        /\ toPeer' = Append(toPeer, [type |-> "GetBlockHashesRequest", parent |-> lastHash])
        /\ pc' = "wait"
     \/ link # "up" /\ pc' = "failed" /\ UNCHANGED toPeer
  /\ UNCHANGED <<runVars, local, remote, status, best, lastHash, chan, batch, toNode, link, mined>>

\* <- node.GetBlockHashesChan; CHAN_NEXT and CHAN_RETRY are handled alike.
ReadChan ==
  /\ pc = "wait" /\ chan # <<>>
  /\ chan' = Tail(chan)
  /\ best' = local.tip
  /\ pc' = IF IsSyncNeeded(best') THEN "loop" ELSE "announce"
  /\ UNCHANGED <<runVars, local, remote, status, lastHash, batch, toPeer, toNode, link, mined>>

\* A closed channel delivers zero, which is CHAN_ERROR.
ReadClosedChan ==
  /\ pc = "wait" /\ chan = <<>> /\ run["node"] = "left"
  /\ pc' = "failed"
  /\ UNCHANGED <<runVars, local, remote, status, best, lastHash, chan, batch, toPeer, toNode,
                 link, mined>>

\* The uncles of the next candidate are announced, then production is resumed.
AnnounceUncles ==
  /\ pc = "announce"
  /\ pc' = "done"
  /\ toPeer' = IF link # "up" THEN toPeer
               ELSE LET uncles == CandidateUncles(local)
                    IN  toPeer \o [i \in DOMAIN uncles |-> [type |-> "NewBlock", hash |-> uncles[i]]]
  /\ UNCHANGED <<runVars, local, remote, status, best, lastHash, chan, batch, toNode, link, mined>>

-----------------------------------------------------------------------------
(* listen of the node *)

Receives(type) ==
  /\ run["node"] = "listen" /\ link = "up" /\ batch = <<>> /\ toNode # <<>> /\ Head(toNode).type = type
  /\ toNode' = Tail(toNode)

HandleHashesResponse ==
  /\ Receives("GetBlockHashesResponse")
  /\ toPeer' = Append(toPeer, [type |-> "GetBlocksRequest", hashes |-> Head(toNode).hashes])
  /\ UNCHANGED <<runVars, local, remote, status, syncVars, chan, batch, link, mined>>

\* Mutant of HandleRewind: the walk back starts from the tip each time.
HandleRewindFromTip ==
  /\ Receives("GetBlockHashesRewind")
  /\ lastHash' = Ancestor(local, local.tip, RewindBy)
  /\ chan' = Append(chan, "RETRY")
  /\ UNCHANGED <<runVars, local, remote, status, pc, best, batch, toPeer, link, mined>>

\* There is no ancestor of the genesis block: the node disconnects.
HandleRewind ==
  /\ Receives("GetBlockHashesRewind")
  /\ \/ /\ lastHash = Genesis
        /\ link' = "refused" /\ UNCHANGED <<lastHash, chan>>
     \/ /\ lastHash # Genesis /\ Len(chan) < ChanSize
        /\ lastHash' = Ancestor(local, lastHash, RewindBy)
        /\ chan' = Append(chan, "RETRY")
        /\ UNCHANGED link
  /\ UNCHANGED <<runVars, local, remote, status, pc, best, batch, toPeer, mined>>

HandleBlocksResponse ==
  /\ Receives("GetBlocksResponse")
  /\ batch' = Head(toNode).hashes
  /\ UNCHANGED <<runVars, local, remote, status, syncVars, chan, toPeer, link, mined>>

\* One block of the response: added, skipped as a duplicate, or refused, which
\* ends the connection.  The last one asks syncNode for the next batch.  A batch
\* that is here is worked through also when the connection is gone.
ProcessBlock ==
  /\ batch # <<>>
  /\ LET h == Head(batch) IN
       \/ /\ Valid(local, World[h])
          /\ Len(batch) = 1 => Len(chan) < ChanSize
          /\ local' = Added(local, h, World[h])
          /\ lastHash' = h
          /\ chan' = IF Len(batch) = 1 THEN Append(chan, "NEXT") ELSE chan
          /\ batch' = Tail(batch)
          /\ UNCHANGED link
       \/ /\ ~Valid(local, World[h])
          /\ link' = (IF link = "up" THEN "refused" ELSE link) /\ batch' = <<>>
          /\ UNCHANGED <<local, lastHash, chan>>
  /\ UNCHANGED <<runVars, remote, status, pc, best, toPeer, toNode, mined>>

HandleNewBlock ==
  /\ Receives("NewBlock")
  /\ LET h == Head(toNode).hash IN
       \/ Valid(local, World[h]) /\ local' = Added(local, h, World[h]) /\ UNCHANGED link
       \/ ~Valid(local, World[h]) /\ link' = "refused" /\ UNCHANGED local
  /\ UNCHANGED <<runVars, remote, status, syncVars, chan, batch, toPeer, mined>>

-----------------------------------------------------------------------------
(* The peer *)

PeerReceives(type) ==
  /\ run["peer"] = "listen" /\ link = "up" /\ toPeer # <<>> /\ Head(toPeer).type = type
  /\ toPeer' = Tail(toPeer)

PeerHashesRequest ==
  /\ PeerReceives("GetBlockHashesRequest")
  /\ LET hashes == DescendentsOf(remote, Head(toPeer).parent, SyncBlocks)
     IN  toNode' = Append(toNode, IF hashes = <<>> THEN [type |-> "GetBlockHashesRewind"]
                                  ELSE [type |-> "GetBlockHashesResponse", hashes |-> hashes])
  /\ UNCHANGED <<runVars, local, remote, status, syncVars, chan, batch, link, mined>>

\* The hashes are the peer's own, so that it finds every block.
PeerBlocksRequest ==
  /\ PeerReceives("GetBlocksRequest")
  /\ toNode' = Append(toNode, [type |-> "GetBlocksResponse", hashes |-> Head(toPeer).hashes])
  /\ UNCHANGED <<runVars, local, remote, status, syncVars, chan, batch, link, mined>>

PeerNewBlock ==
  /\ PeerReceives("NewBlock")
  /\ LET h == Head(toPeer).hash IN
       \/ Valid(remote, World[h]) /\ remote' = Added(remote, h, World[h]) /\ UNCHANGED link
       \/ ~Valid(remote, World[h]) /\ link' = "refused" /\ UNCHANGED remote
  /\ UNCHANGED <<runVars, local, status, syncVars, chan, batch, toNode, mined>>

\* The peer goes on producing blocks and broadcasts each one to the nodes in its
\* peer set.
PeerMines ==
  /\ mined < MaxMined
  /\ \E h \in DOMAIN World \ Known(remote) :
       /\ World[h].parent = remote.tip /\ Valid(remote, World[h])
       /\ remote' = Added(remote, h, World[h])
       /\ toNode' = IF "peer" \in peerDb /\ link = "up" THEN Append(toNode, [type |-> "NewBlock", hash |-> h]) ELSE toNode
  /\ mined' = mined + 1
  /\ missed' = (missed \/ run["peer"] = "read")
  /\ UNCHANGED <<run, peerDb, local, status, syncVars, chan, batch, toPeer, link>>

Drop ==
  /\ MayDrop /\ link = "up"
  /\ link' = "lost"
  /\ UNCHANGED <<runVars, local, remote, status, syncVars, chan, batch, toPeer, toNode, mined>>

-----------------------------------------------------------------------------

Run == \E s \in Sides : SendStatus(s) \/ ReadStatus(s) \/ UnregisterPeer(s)
SyncNode == \/ BeginSync \/ RequestHashes \/ ReadChan \/ ReadClosedChan \/ AnnounceUncles
Listen == \/ HandleHashesResponse \/ HandleRewind \/ HandleBlocksResponse \/ ProcessBlock
          \/ HandleNewBlock
PeerListen == PeerHashesRequest \/ PeerBlocksRequest \/ PeerNewBlock

Next == \/ Run \/ SyncNode \/ Listen \/ PeerListen \/ PeerMines \/ Drop
        \/ \E s \in Sides : Disconnect(s)
Spec == Init /\ [][Next]_vars

\* Goroutines are scheduled and messages arrive; the peer need not mine and the
\* connection need not fail.
FairSpec == Spec /\ WF_vars(Run) /\ WF_vars(SyncNode) /\ WF_vars(Listen) /\ WF_vars(PeerListen)

-----------------------------------------------------------------------------
(* Properties *)

\* "wait until sync completes, or an error" (syncNode): the loop ends, also when
\* the connection is lost, an application disconnects, or the peer mines; or the
\* handshake fails and there is no sync.  It holds of forks at any depth and of
\* uncles that fit a batch, not of seven generations of them (SevenGenerations).
SyncEnds == <>(pc \in {"done", "failed"} \/ (pc = "none" /\ link # "up"))

\* When all messages are handled after a sync that ended well, the tips of both
\* nodes have the same weight and Numeric, so that they are one block unless two
\* byte sums tie: the node took the peer's chain and the uncles it announced did
\* not move the peer.  A block the peer mines after it has sent its status and
\* before it has registered the node is neither synced nor announced.
SyncedNodesAgree ==
  pc = "done" /\ ~missed /\ link = "up" /\ toPeer = <<>> /\ toNode = <<>> /\ batch = <<>>
    => Status(local) = Status(remote)

\* The block of h lists an uncle before one that this uncle lists itself, and its
\* parent does not list the latter.
CousinFirst(h) ==
  LET b == World[h] IN
    \E i, j \in DOMAIN b.uncles :
      /\ i < j
      /\ \E k \in DOMAIN World[b.uncles[i]].uncles : World[b.uncles[i]].uncles[k] = b.uncles[j]
      /\ ~ \E k \in DOMAIN World[b.parent].uncles : World[b.parent].uncles[k] = b.uncles[j]

\* "walk through the list of blocks and add them into our blockchain"
\* (handleGetBlocksResponseMsg): two honest nodes do not disconnect over a block
\* of the sync itself, unless some block of the peer has its uncles in an order
\* that Descendents cannot send; they may over a block mined meanwhile.
SyncNotRefused ==
  link = "refused" /\ pc # "done" =>
    mined > 0 \/ \E h \in Known(remote) \ {Genesis} : CousinFirst(h)
=============================================================================
