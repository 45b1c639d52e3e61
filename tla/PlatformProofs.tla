--------------------------- MODULE PlatformProofs ---------------------------
(***************************************************************************)
(* A node that has synced with a peer has a tip as good as the peer's      *)
(* (PlatformSync), and a peer accepts every block a producer mines         *)
(* (Trustee).                                                              *)
(***************************************************************************)
EXTENDS PlatformSync, Trustee, BlockTreeProofs

\* Most leaves are for Zenon; a leaf that needs another prover names it.
USE Zenon

-----------------------------------------------------------------------------
(* The inductive invariant of PlatformSync *)

\* All blocks that miners make, as one table.
All == Table(World)

\* The node and the peer have blocks that miners made; the node has none that
\* beats the peer's tip.
BothInv ==
  /\ IsChain(local) /\ Within(local, All) /\ IsChain(remote) /\ Within(remote, All)
  /\ \A h \in Known(local) : ~Better(All.block, h, remote.tip)

NewBlockMsg(h) == [type |-> "NewBlock", hash |-> h]

\* The peer sends the hashes of blocks it knows.
ToNodeOK(m) ==
  /\ m.type = "NewBlock" => m.hash \in Known(remote)
  /\ m.type \in {"GetBlockHashesResponse", "GetBlocksResponse"} =>
       IsQueue(m.hashes) /\ Elems(m.hashes) \subseteq Known(remote)

\* The node announces blocks it knows, and asks for those the peer knows.
ToPeerOK(m) ==
  /\ m.type = "NewBlock" => m.hash \in Known(local)
  /\ m.type = "GetBlocksRequest" => IsQueue(m.hashes) /\ Elems(m.hashes) \subseteq Known(remote)

MsgInv ==
  /\ IsQueue(toNode) /\ \A m \in Elems(toNode) : ToNodeOK(m)
  /\ IsQueue(toPeer) /\ \A m \in Elems(toPeer) : ToPeerOK(m)
  /\ IsQueue(batch) /\ Elems(batch) \subseteq Known(remote)

Statuses == [weight : Nat, numeric : Nat]

\* The status of the peer, read by the node or still on its way.
Heard == run["node"] = "listen"
PeerStatus == IF Heard THEN status ELSE Head(toNode).status

\* The peer's handshake is its first message, and the node reads it first.
UpInv ==
  /\ run["node"] # "left" /\ run["peer"] # "left"
  /\ run["peer"] = "send" => toNode = <<>> /\ ~Heard
  /\ run["peer"] # "send" /\ ~Heard =>
       toNode # <<>> /\ Head(toNode).type = "Handshake" /\ Head(toNode).status \in Statuses
  /\ run["peer"] = "listen" <=> "peer" \in peerDb

HelloInv ==
  /\ run \in [Sides -> {"send", "read", "listen", "left"}] /\ status \in Statuses
  /\ link = "up" => UpInv

\* A block that beats a status.
Beats(h, s) ==
  \/ All.block[h].weight > s.weight
  \/ All.block[h].weight = s.weight /\ Numeric[h] < s.numeric

\* A block the peer has is no better than its status, known to the node, or
\* announced to it.
Covered(h) == ~Beats(h, PeerStatus) \/ h \in Known(local) \/ NewBlockMsg(h) \in Elems(toNode)
SpreadInv ==
  link = "up" /\ ~missed /\ run["peer"] # "send" => \A h \in Known(remote) : Covered(h)

\* A sync that has ended has met the status of the peer.
SyncInv ==
  /\ best \in Known(local)
  /\ pc # "none" => run["node"] \in {"listen", "left"}
  /\ pc \in {"announce", "done"} => ~IsSyncNeeded(local.tip)

PlatformInv == BothInv /\ MsgInv /\ HelloInv /\ SpreadInv /\ SyncInv

-----------------------------------------------------------------------------
(* Chains and queues *)

\* Two lists of messages, one behind the other.
LEMMA ConcatFact ==
  ASSUME NEW s, IsQueue(s), NEW t, IsQueue(t)
  PROVE  IsQueue(s \o t) /\ Elems(s \o t) = Elems(s) \cup Elems(t)
<1>1. PICK S, T : s \in Seq(S) /\ t \in Seq(T)
  BY DEF IsQueue
<1>2. PICK U : U = S \cup T
  OBVIOUS
<1>3. s \in Seq(U) /\ t \in Seq(U)
  BY SMT, <1>1, <1>2
<1>4. /\ s \o t \in Seq(U) /\ Len(s) \in Nat /\ Len(t) \in Nat
      /\ DOMAIN s = 1 .. Len(s) /\ DOMAIN t = 1 .. Len(t)
      /\ DOMAIN (s \o t) = 1 .. Len(s) + Len(t)
      /\ \A i \in 1 .. Len(s) : (s \o t)[i] = s[i]
      /\ \A i \in 1 .. Len(t) : (s \o t)[Len(s) + i] = t[i]
  BY SMT, <1>3
<1>5. ASSUME NEW i \in DOMAIN (s \o t)
      PROVE  (s \o t)[i] \in Elems(s) \cup Elems(t)
  <2>1. CASE i <= Len(s)
    <3>1. i \in 1 .. Len(s)
      BY SMT, <2>1, <1>4
    <3> QED
      BY <3>1, <1>4 DEF Elems
  <2>2. CASE ~(i <= Len(s))
    <3>1. i - Len(s) \in 1 .. Len(t) /\ Len(s) + (i - Len(s)) = i
      BY SMT, <2>2, <1>4
    <3> QED
      BY <3>1, <1>4 DEF Elems
  <2> QED
    BY <2>1, <2>2
<1>6. ASSUME NEW i \in DOMAIN s PROVE s[i] \in Elems(s \o t)
  <2>1. i \in DOMAIN (s \o t) /\ (s \o t)[i] = s[i]
    BY SMT, <1>4
  <2> QED
    BY <2>1 DEF Elems
<1>7. ASSUME NEW i \in DOMAIN t PROVE t[i] \in Elems(s \o t)
  <2>1. Len(s) + i \in DOMAIN (s \o t) /\ (s \o t)[Len(s) + i] = t[i]
    BY SMT, <1>4
  <2> QED
    BY <2>1 DEF Elems
<1>8. Elems(s \o t) = Elems(s) \cup Elems(t)
  BY <1>5, <1>6, <1>7 DEF Elems
<1> QED
  BY <1>4, <1>8 DEF IsQueue

\* A block of a world is added to a chain of its blocks, or it was there.
LEMMA AddedWithin ==
  ASSUME NEW world, IsWorld(world), NEW c, IsChain(c), Within(c, Table(world)),
         NEW h \in Known(Table(world)), Valid(c, world[h]), NEW d, d = Added(c, h, world[h])
  PROVE  IsChain(d) /\ Within(d, Table(world)) /\ Within(c, d) /\ Known(d) = Known(c) \cup {h}
<1>1. CASE h \in Known(c)
  <2>1. d = c
    BY <1>1 DEF Added
  <2> QED
    BY <1>1, <2>1 DEF Within
<1>2. CASE h \notin Known(c)
  <2>1. /\ h \in DOMAIN world /\ h \in Hash /\ world[h] \in BlockSpec
        /\ Table(world).block[h] = world[h]
    BY <1>2, WorldGrown, GenesisFact DEF IsChain, IsWorld
  <2>2. /\ IsChain(d) /\ Within(c, d) /\ Known(d) = Known(c) \cup {h} /\ d.block[h] = world[h]
    BY <1>2, <2>1, AddedChain
  <2> QED
    BY <2>1, <2>2 DEF Within
<1> QED
  BY <1>1, <1>2

\* A tip gets no worse, in the table of all blocks.
LEMMA TipUp ==
  ASSUME NEW all, NEW c, NEW d, IsChain(c), IsChain(d), Within(c, d), Within(d, all)
  PROVE  /\ c.tip \in Known(all) /\ d.tip \in Known(all)
         /\ ~Better(all.block, c.tip, d.tip)
<1>1. c.tip \in Known(d) /\ d.tip \in Known(d) /\ ~Better(d.block, c.tip, d.tip)
  BY DEF IsChain, Within
<1>2. /\ c.tip \in Known(all) /\ d.tip \in Known(all)
      /\ all.block[c.tip] = d.block[c.tip] /\ all.block[d.tip] = d.block[d.tip]
  BY <1>1 DEF Within
<1> QED
  BY <1>1, <1>2 DEF Better

\* findUncles of the tip finds blocks that the node has.
LEMMA UnclesKnown ==
  ASSUME NEW c, IsChain(c)
  PROVE  CandidateUncles(c) \in Seq(Known(c))
<1>1. /\ Grown(c) /\ Kids(Known(c), c.block, c.children) /\ c.tip \in Known(c)
      /\ Known(c) \subseteq Hash
  BY DEF IsChain, Known
<1>2. CandidateUncles(c) \in Seq({u \in Known(c) : IsUncleValid(Known(c), c.block, c.tip, u)})
  BY <1>1, GrownTree, FindUnclesFact DEF CandidateUncles
<1> QED
  BY SMT, <1>2

\* A message was taken out of a queue: the queue is not what it was.
LEMMA SameNotTail ==
  ASSUME NEW s, IsQueue(s), s # <<>>
  PROVE  Tail(s) # s
<1>1. PICK S : s \in Seq(S)
  BY DEF IsQueue
<1>2. Len(Tail(s)) = Len(s) - 1 /\ Len(s) \in Nat
  BY SMT, <1>1
<1>3. Len(Tail(s)) # Len(s)
  BY ONLY <1>2
<1> QED
  BY <1>3

\* Nor is it the queue with one more message.
LEMMA AppendNotTail ==
  ASSUME NEW s, IsQueue(s), s # <<>>, NEW m
  PROVE  Tail(s) # Append(s, m)
<1>1. PICK S : s \in Seq(S)
  BY DEF IsQueue
<1>2. PICK T : T = S \cup {m}
  OBVIOUS
<1>3. s \in Seq(T) /\ m \in T
  BY SMT, <1>1, <1>2
<1>4. Len(Tail(s)) = Len(s) - 1 /\ Len(Append(s, m)) = Len(s) + 1 /\ Len(s) \in Nat
  BY SMT, <1>3
<1>5. Len(Tail(s)) # Len(Append(s, m))
  BY ONLY <1>4
<1> QED
  BY <1>5

-----------------------------------------------------------------------------
(* The two chains *)

\* Neither node loses a block, and the node gets blocks that the peer has.
GrowStep ==
  /\ IsChain(local') /\ Within(local', All) /\ Within(local, local')
  /\ IsChain(remote') /\ Within(remote', All) /\ Within(remote, remote')
  /\ Known(local') \subseteq Known(local) \cup Known(remote)

\* The table of all blocks.
LEMMA AllFact ==
  /\ IsWorld(World) /\ All' = All /\ Grown(All)
  /\ \A h \in Known(All) : All.block[h].weight \in Nat /\ Numeric[h] \in Nat
<1>1. IsWorld(World) /\ Grown(All)
  BY SyncAssumption, WorldGrown DEF All
<1>2. \A h \in Known(All) : All.block[h] \in BlockSpec /\ h \in Hash
  BY <1>1, GenesisFact DEF Known
<1>3. \A h \in Known(All) : All.block[h].weight \in Nat /\ Numeric[h] \in Nat
  BY <1>2, TreeAssumption DEF BlockSpec
<1>4. All' = All
  BY DEF All
<1> QED
  BY <1>1, <1>3, <1>4

\* Both chains are left alone.
LEMMA GrowSame ==
  ASSUME BothInv, UNCHANGED <<local, remote>>
  PROVE  GrowStep
BY DEF BothInv, GrowStep, Within

\* A block that a miner made is added to a chain of such blocks.
LEMMA AddAll ==
  ASSUME NEW c, IsChain(c), Within(c, All), NEW h, h \in Known(All), Valid(c, World[h]),
         NEW d, d = Added(c, h, World[h])
  PROVE  IsChain(d) /\ Within(d, All) /\ Within(c, d) /\ Known(d) = Known(c) \cup {h}
<1>1. IsWorld(World)
  BY SyncAssumption
<1>2. Within(c, Table(World)) /\ h \in Known(Table(World))
  BY DEF All
<1>3. IsChain(d) /\ Within(d, Table(World)) /\ Within(c, d) /\ Known(d) = Known(c) \cup {h}
  BY SMT, <1>1, <1>2, AddedWithin
<1> QED
  BY <1>3 DEF All

\* The node adds a block of the peer.
LEMMA GrowLocal ==
  ASSUME BothInv, NEW h \in Known(remote), Valid(local, World[h]),
         local' = Added(local, h, World[h]), remote' = remote
  PROVE  GrowStep /\ h \in Known(local')
<1>1. IsChain(local) /\ Within(local, All) /\ h \in Known(All)
  BY DEF BothInv, Within
<1>2. /\ IsChain(local') /\ Within(local', All) /\ Within(local, local')
      /\ Known(local') = Known(local) \cup {h}
  BY <1>1, AddAll
<1> QED
  BY <1>2 DEF BothInv, GrowStep, Within

\* The peer adds a block.
LEMMA GrowRemote ==
  ASSUME BothInv, NEW h \in Known(All), Valid(remote, World[h]),
         remote' = Added(remote, h, World[h]), local' = local
  PROVE  GrowStep /\ Known(remote') = Known(remote) \cup {h}
<1>1. IsChain(remote) /\ Within(remote, All)
  BY DEF BothInv
<1>2. /\ IsChain(remote') /\ Within(remote', All) /\ Within(remote, remote')
      /\ Known(remote') = Known(remote) \cup {h}
  BY <1>1, AddAll
<1> QED
  BY <1>2 DEF BothInv, GrowStep, Within

\* The node gets no block that beats the peer's tip.
LEMMA BothStep ==
  ASSUME BothInv, GrowStep
  PROVE  BothInv'
<1>1. /\ Grown(All) /\ remote.tip \in Known(All) /\ remote'.tip \in Known(All)
      /\ ~Better(All.block, remote.tip, remote'.tip)
  BY AllFact, TipUp DEF BothInv, GrowStep
<1>2. ASSUME NEW h \in Known(local') PROVE ~Better(All.block, h, remote'.tip)
  <2>1. h \in Known(All)
    BY DEF GrowStep, Within
  <2>2. ~Better(All.block, h, remote.tip)
    <3>1. CASE h \in Known(local)
      BY <3>1 DEF BothInv
    <3>2. CASE h \in Known(remote)
      <4>1. ~Better(remote.block, h, remote.tip) /\ remote.tip \in Known(remote)
        BY <3>2 DEF BothInv, IsChain
      <4>2. All.block[h] = remote.block[h] /\ All.block[remote.tip] = remote.block[remote.tip]
        BY <3>2, <4>1 DEF BothInv, Within
      <4> QED
        BY <4>1, <4>2 DEF Better
    <3> QED
      BY <3>1, <3>2 DEF GrowStep
  <2> QED
    BY <1>1, <2>1, <2>2, BetterTrans
<1> QED
  BY <1>2, AllFact DEF BothInv, GrowStep

-----------------------------------------------------------------------------
(* Messages on their way *)

\* The node takes a message, the peer sends one, or neither.
ToNodeStep ==
  \/ toNode' = toNode
  \/ toNode # <<>> /\ toNode' = Tail(toNode)
  \/ \E m : toNode' = Append(toNode, m) /\ ToNodeOK(m)'

ToPeerStep ==
  \/ toPeer' = toPeer
  \/ toPeer # <<>> /\ toPeer' = Tail(toPeer)
  \/ \E m : toPeer' = Append(toPeer, m) /\ ToPeerOK(m)'
  \/ \E l : IsQueue(l) /\ toPeer' = toPeer \o l /\ \A m \in Elems(l) : ToPeerOK(m)'

BatchStep ==
  \/ batch' = batch \/ batch' = <<>>
  \/ batch # <<>> /\ batch' = Tail(batch)
  \/ IsQueue(batch') /\ Elems(batch') \subseteq Known(remote)

\* Messages stay about blocks that the node, or the peer, knows.
LEMMA MsgStep ==
  ASSUME MsgInv, GrowStep, ToNodeStep, ToPeerStep, BatchStep
  PROVE  MsgInv'
<1>1. Known(local) \subseteq Known(local') /\ Known(remote) \subseteq Known(remote')
  BY DEF GrowStep, Within
<1>2. ASSUME NEW m, ToNodeOK(m) PROVE ToNodeOK(m)'
  BY <1>1, <1>2 DEF ToNodeOK
<1>3. ASSUME NEW m, ToPeerOK(m) PROVE ToPeerOK(m)'
  BY <1>1, <1>3 DEF ToPeerOK
<1>4. IsQueue(toNode') /\ \A m \in Elems(toNode') : ToNodeOK(m)'
  <2>1. IsQueue(toNode) /\ \A m \in Elems(toNode) : ToNodeOK(m)'
    BY <1>2 DEF MsgInv
  <2>2. CASE toNode' = toNode
    BY <2>1, <2>2
  <2>3. CASE toNode # <<>> /\ toNode' = Tail(toNode)
    BY <2>1, <2>3, TailFact
  <2>4. CASE \E m : toNode' = Append(toNode, m) /\ ToNodeOK(m)'
    <3>1. PICK m : toNode' = Append(toNode, m) /\ ToNodeOK(m)'
      BY <2>4
    <3>2. IsQueue(toNode') /\ Elems(toNode') = Elems(toNode) \cup {m}
      BY <2>1, <3>1, AppendFact
    <3> QED
      BY <2>1, <3>1, <3>2
  <2> QED
    BY <2>2, <2>3, <2>4 DEF ToNodeStep
<1>5. IsQueue(toPeer') /\ \A m \in Elems(toPeer') : ToPeerOK(m)'
  <2>1. IsQueue(toPeer) /\ \A m \in Elems(toPeer) : ToPeerOK(m)'
    BY <1>3 DEF MsgInv
  <2>2. CASE toPeer' = toPeer
    BY <2>1, <2>2
  <2>3. CASE toPeer # <<>> /\ toPeer' = Tail(toPeer)
    BY <2>1, <2>3, TailFact
  <2>4. CASE \E m : toPeer' = Append(toPeer, m) /\ ToPeerOK(m)'
    <3>1. PICK m : toPeer' = Append(toPeer, m) /\ ToPeerOK(m)'
      BY <2>4
    <3>2. IsQueue(toPeer') /\ Elems(toPeer') = Elems(toPeer) \cup {m}
      BY <2>1, <3>1, AppendFact
    <3> QED
      BY <2>1, <3>1, <3>2
  <2>5. CASE \E l : IsQueue(l) /\ toPeer' = toPeer \o l /\ \A m \in Elems(l) : ToPeerOK(m)'
    <3>1. PICK l : IsQueue(l) /\ toPeer' = toPeer \o l /\ \A m \in Elems(l) : ToPeerOK(m)'
      BY <2>5
    <3>2. IsQueue(toPeer') /\ Elems(toPeer') = Elems(toPeer) \cup Elems(l)
      BY <2>1, <3>1, ConcatFact
    <3> QED
      BY <2>1, <3>1, <3>2
  <2> QED
    BY <2>2, <2>3, <2>4, <2>5 DEF ToPeerStep
<1>6. IsQueue(batch') /\ Elems(batch') \subseteq Known(remote)
  <2>1. CASE batch' = <<>>
    BY <2>1, EmptyFact
  <2>2. CASE batch # <<>> /\ batch' = Tail(batch)
    BY <2>2, TailFact DEF MsgInv
  <2> QED
    BY <2>1, <2>2 DEF MsgInv, BatchStep
<1> QED
  BY <1>1, <1>4, <1>5, <1>6 DEF MsgInv

-----------------------------------------------------------------------------
(* The handshake, and what the node hears of *)

\* The connection is gone: there is nothing more to say about what is heard.
LEMMA DownStep ==
  ASSUME HelloInv, link' # "up", status' = status,
         run' = run \/ \E s \in Sides : run' = [run EXCEPT ![s] = "left"]
  PROVE  HelloInv' /\ SpreadInv'
<1>1. run' \in [Sides -> {"send", "read", "listen", "left"}]
  BY DEF HelloInv
<1> QED
  BY <1>1 DEF HelloInv, SpreadInv, Statuses

\* After the handshake of the node, it takes one message at a time; the peer
\* sends when it has registered the node.
QuietStep ==
  /\ run' = run /\ status' = status /\ peerDb' = peerDb /\ (link' = "up" => link = "up")
  /\ \/ toNode' = toNode
     \/ Heard /\ toNode # <<>> /\ toNode' = Tail(toNode)
     \/ "peer" \in peerDb /\ \E m : toNode' = Append(toNode, m)

\* The peer's handshake stays its first message.
LEMMA HelloStep ==
  ASSUME MsgInv, HelloInv, QuietStep
  PROVE  HelloInv' /\ (link' = "up" /\ run["peer"] # "send" => PeerStatus' = PeerStatus)
<1>1. /\ run' \in [Sides -> {"send", "read", "listen", "left"}] /\ status' \in Statuses
      /\ Heard' <=> Heard
  BY DEF HelloInv, QuietStep, Heard
<1>2. ASSUME link' = "up"
      PROVE  UpInv' /\ (run["peer"] # "send" => PeerStatus' = PeerStatus)
  <2>1. UpInv /\ run' = run /\ status' = status /\ peerDb' = peerDb
    BY <1>2 DEF HelloInv, QuietStep
  <2>2. run["peer"] = "send" => toNode' = <<>>
    BY <2>1 DEF QuietStep, UpInv
  <2>3. run["peer"] # "send" /\ ~Heard =>
          toNode' # <<>> /\ Head(toNode') = Head(toNode) /\ toNode # <<>>
    <3>1. SUFFICES ASSUME run["peer"] # "send", ~Heard
                   PROVE  toNode' # <<>> /\ Head(toNode') = Head(toNode) /\ toNode # <<>>
      OBVIOUS
    <3>2. toNode # <<>> /\ IsQueue(toNode)
      BY <3>1, <2>1 DEF UpInv, MsgInv
    <3>3. CASE toNode' = toNode
      BY <3>2, <3>3
    <3>4. CASE \E m : toNode' = Append(toNode, m)
      <4>1. PICK m : toNode' = Append(toNode, m)
        BY <3>4
      <4> QED
        BY ONLY Zenon, <4>1, <3>2, AppendFact
    <3> QED
      BY <3>1, <3>3, <3>4 DEF QuietStep
  <2>4. UpInv'
    BY <2>1, <2>2, <2>3, <1>1 DEF UpInv, Statuses
  <2>5. run["peer"] # "send" => PeerStatus' = PeerStatus
    BY <2>1, <2>3, <1>1 DEF PeerStatus
  <2> QED
    BY <2>4, <2>5
<1> QED
  BY <1>1, <1>2 DEF HelloInv

\* An announced block is taken by the node when its message is.
TakenStep ==
  toNode' = Tail(toNode) /\ toNode # <<>> /\ Head(toNode).type = "NewBlock" =>
    link' # "up" \/ Head(toNode).hash \in Known(local')

\* A new block of the peer comes from the node or is announced to it, unless
\* the peer has not registered the node.
MinedStep ==
  \A h \in Known(remote') \ Known(remote) :
    h \in Known(local') \/ NewBlockMsg(h) \in Elems(toNode') \/ missed' \/ run["peer"] = "send"
      \/ link' # "up"

\* A block that the node was to hear of is still on its way, or it has come.
LEMMA SpreadStep ==
  ASSUME MsgInv, HelloInv, SpreadInv, GrowStep, QuietStep, TakenStep, MinedStep,
         missed => missed'
  PROVE  SpreadInv'
<1>1. SUFFICES ASSUME link' = "up", ~missed', run["peer"] # "send", NEW h \in Known(remote')
               PROVE  Covered(h)'
  BY DEF SpreadInv, QuietStep
<1>2. link = "up" /\ ~missed /\ PeerStatus' = PeerStatus
  BY <1>1, HelloStep DEF QuietStep
<1>3. CASE h \notin Known(remote)
  BY <1>1, <1>3 DEF MinedStep, Covered
<1>4. CASE h \in Known(remote)
  <2>1. Covered(h)
    BY <1>1, <1>2, <1>4 DEF SpreadInv
  <2>2. CASE ~Beats(h, PeerStatus)
    <3>1. ~Beats(h, PeerStatus')
      BY <2>2, <1>2
    <3>2. Beats(h, PeerStatus)' => Beats(h, PeerStatus')
      BY AllFact DEF Beats
    <3> QED
      BY <3>1, <3>2 DEF Covered
  <2>3. CASE h \in Known(local)
    BY <2>3 DEF Covered, GrowStep, Within
  <2>4. CASE NewBlockMsg(h) \in Elems(toNode)
    <3>1. NewBlockMsg(h) \in Elems(toNode') \/ h \in Known(local')
      <4>1. IsQueue(toNode) /\ NewBlockMsg(h).type = "NewBlock" /\ NewBlockMsg(h).hash = h
        BY DEF MsgInv, NewBlockMsg
      <4>2. CASE toNode' = toNode
        BY <2>4, <4>2
      <4>3. CASE toNode # <<>> /\ toNode' = Tail(toNode)
        BY <2>4, <4>1, <4>3, <1>1, TailFact DEF TakenStep
      <4>4. CASE \E m : toNode' = Append(toNode, m)
        <5>1. PICK m : toNode' = Append(toNode, m)
          BY <4>4
        <5>2. Elems(toNode') = Elems(toNode) \cup {m}
          BY ONLY Zenon, <5>1, <4>1, AppendFact
        <5> QED
          BY <5>2, <2>4
      <4> QED
        BY <4>2, <4>3, <4>4 DEF QuietStep
    <3> QED
      BY <3>1 DEF Covered, NewBlockMsg
  <2> QED
    BY <2>1, <2>2, <2>3, <2>4 DEF Covered
<1> QED
  BY <1>3, <1>4

-----------------------------------------------------------------------------
(* The sync *)

\* A status that is met by a block is met by a better one.
LEMMA MetFact ==
  ASSUME NEW g \in Known(All), NEW h \in Known(All), ~Better(All.block, g, h),
         NEW s \in Statuses,
         ~(\/ s.weight > All.block[g].weight
           \/ s.weight = All.block[g].weight /\ s.numeric < Numeric[g])
  PROVE  ~(\/ s.weight > All.block[h].weight
           \/ s.weight = All.block[h].weight /\ s.numeric < Numeric[h])
<1>1. /\ All.block[g].weight \in Nat /\ Numeric[g] \in Nat
      /\ All.block[h].weight \in Nat /\ Numeric[h] \in Nat
      /\ s.weight \in Nat /\ s.numeric \in Nat
  BY AllFact DEF Statuses
<1> QED
  BY SMT, <1>1 DEF Better

\* The tip is no worse than a block of the node.
LEMMA TipMet ==
  ASSUME BothInv, HelloInv, NEW g \in Known(local), ~IsSyncNeeded(g)
  PROVE  ~IsSyncNeeded(local.tip)
<1>1. local.tip \in Known(local) /\ ~Better(local.block, g, local.tip)
  BY DEF BothInv, IsChain
<1>2. /\ g \in Known(All) /\ All.block[g] = local.block[g]
      /\ local.tip \in Known(All) /\ All.block[local.tip] = local.block[local.tip]
  BY <1>1 DEF BothInv, Within
<1>3. ~Better(All.block, g, local.tip)
  BY <1>1, <1>2 DEF Better
<1>4. status \in Statuses
  BY DEF HelloInv
<1>5. ~(\/ status.weight > All.block[g].weight
        \/ status.weight = All.block[g].weight /\ status.numeric < Numeric[g])
  BY <1>2 DEF IsSyncNeeded
<1>6. ~(\/ status.weight > All.block[local.tip].weight
        \/ status.weight = All.block[local.tip].weight /\ status.numeric < Numeric[local.tip])
  BY <1>2, <1>3, <1>4, <1>5, MetFact
<1> QED
  BY <1>2, <1>6 DEF IsSyncNeeded

\* A status that the node has met stays met while its chain grows.
LEMMA MetStep ==
  ASSUME BothInv, HelloInv, GrowStep, status' = status, ~IsSyncNeeded(local.tip)
  PROVE  ~IsSyncNeeded(local.tip)'
<1>1. /\ local.tip \in Known(All) /\ local'.tip \in Known(All)
      /\ ~Better(All.block, local.tip, local'.tip)
  BY TipUp DEF BothInv, GrowStep
<1>2. local.tip \in Known(local) /\ local'.tip \in Known(local')
  BY DEF BothInv, GrowStep, IsChain
<1>3. /\ All.block[local.tip] = local.block[local.tip]
      /\ All.block[local'.tip] = local'.block[local'.tip]
  BY <1>2 DEF BothInv, GrowStep, Within
<1>4. status \in Statuses
  BY DEF HelloInv
<1>5. ~(\/ status.weight > All.block[local.tip].weight
        \/ status.weight = All.block[local.tip].weight /\ status.numeric < Numeric[local.tip])
  BY <1>3 DEF IsSyncNeeded
<1>6. ~(\/ status.weight > All.block[local'.tip].weight
        \/ status.weight = All.block[local'.tip].weight /\ status.numeric < Numeric[local'.tip])
  BY <1>1, <1>4, <1>5, MetFact
<1> QED
  BY <1>3, <1>6 DEF IsSyncNeeded

\* syncNode does not move.
LEMMA SyncSame ==
  ASSUME BothInv, HelloInv, SyncInv, GrowStep, status' = status, UNCHANGED <<pc, best>>,
         run["node"] \in {"listen", "left"} => run'["node"] \in {"listen", "left"}
  PROVE  SyncInv'
<1>1. best' \in Known(local')
  BY DEF SyncInv, GrowStep, Within
<1>2. pc \in {"announce", "done"} => ~IsSyncNeeded(local.tip)'
  BY MetStep DEF SyncInv
<1> QED
  BY <1>1, <1>2 DEF SyncInv

\* The parts of the invariant, after a step that leaves the handshake alone.
LEMMA QuietInv ==
  ASSUME PlatformInv, GrowStep, ToNodeStep, ToPeerStep, BatchStep,
         QuietStep, TakenStep, MinedStep, missed => missed'
  PROVE  BothInv' /\ MsgInv' /\ HelloInv' /\ SpreadInv'
<1>1. BothInv'
  BY BothStep DEF PlatformInv
<1>2. MsgInv'
  BY MsgStep DEF PlatformInv
<1>3. HelloInv'
  BY HelloStep DEF PlatformInv
<1>4. SpreadInv'
  BY SpreadStep DEF PlatformInv
<1> QED
  BY <1>1, <1>2, <1>3, <1>4

\* A step that sends nothing to the node, and adds no block.
LEMMA NoneTaken ==
  ASSUME PlatformInv, UNCHANGED <<run, peerDb, missed, local, remote, status, toNode>>,
         link' = "up" => link = "up"
  PROVE  GrowStep /\ ToNodeStep /\ QuietStep /\ TakenStep /\ MinedStep
<1>1. GrowStep
  BY GrowSame DEF PlatformInv
<1>2. ToNodeStep /\ QuietStep /\ MinedStep
  BY DEF ToNodeStep, QuietStep, MinedStep
<1>3. TakenStep
  BY SameNotTail DEF PlatformInv, MsgInv, TakenStep
<1> QED
  BY <1>1, <1>2, <1>3

-----------------------------------------------------------------------------
(* The steps *)

\* Handshakes: BestBlock, getHandshakeMsg and the send.
LEMMA SendStatusStep ==
  ASSUME PlatformInv, NEW s \in Sides, SendStatus(s)
  PROVE  PlatformInv'
<1>1. /\ BothInv /\ MsgInv /\ HelloInv /\ SpreadInv /\ SyncInv /\ UpInv /\ link = "up"
  BY DEF PlatformInv, HelloInv, SendStatus
<1>2. GrowStep /\ BothInv'
  BY <1>1, GrowSame, BothStep DEF SendStatus
<1>3. /\ run \in [Sides -> {"send", "read", "listen", "left"}]
      /\ run[s] = "send" /\ run' = [run EXCEPT ![s] = "read"]
  BY <1>1 DEF HelloInv, SendStatus
<1>4. /\ run' \in [Sides -> {"send", "read", "listen", "left"}] /\ run'[s] = "read"
      /\ \A t \in Sides \ {s} : run'[t] = run[t]
  BY <1>3
<1>5. SyncInv'
  <2>1. run["node"] \in {"listen", "left"} => run'["node"] \in {"listen", "left"}
    BY <1>3, <1>4 DEF Sides
  <2> QED
    BY <1>1, <1>2, <2>1, SyncSame DEF SendStatus, syncVars
<1>6. CASE s = "node"
  <2>1. PICK m : /\ m = [type |-> "Handshake", status |-> Status(local)]
                 /\ toPeer' = Append(toPeer, m) /\ toNode' = toNode
    BY <1>6 DEF SendStatus
  <2>2. ToPeerOK(m)'
    <3>1. m.type = "Handshake"
      BY <2>1
    <3> QED
      BY <3>1 DEF ToPeerOK
  <2>3. MsgInv'
    BY <1>1, <1>2, <2>1, <2>2, MsgStep DEF ToNodeStep, ToPeerStep, BatchStep, SendStatus
  <2>4. /\ run'["peer"] = run["peer"] /\ ~Heard /\ ~Heard'
        /\ run'["node"] = "read" /\ peerDb' = peerDb /\ link' = link /\ status' = status
    BY <1>3, <1>4, <1>6 DEF Sides, Heard, SendStatus
  <2>5. UpInv'
    BY <1>1, <2>1, <2>4 DEF UpInv, Statuses
  <2>6. HelloInv'
    BY <1>1, <1>4, <2>4, <2>5 DEF HelloInv, Statuses
  <2>7. SpreadInv'
    <3>1. SUFFICES ASSUME ~missed', run["peer"] # "send", NEW h \in Known(remote')
                   PROVE  Covered(h)'
      BY <2>4 DEF SpreadInv
    <3>2. Covered(h) /\ PeerStatus' = PeerStatus /\ local' = local
      BY <1>1, <2>1, <2>4, <3>1 DEF SpreadInv, SendStatus, PeerStatus
    <3> QED
      BY <2>1, <3>2, AllFact DEF Covered, Beats, NewBlockMsg
  <2> QED
    BY <1>2, <1>5, <2>3, <2>6, <2>7 DEF PlatformInv
<1>7. CASE s = "peer"
  <2>1. PICK m : /\ m = [type |-> "Handshake", status |-> Status(remote)]
                 /\ toNode' = Append(toNode, m) /\ toPeer' = toPeer
    BY <1>7 DEF SendStatus
  <2>2. m.type = "Handshake" /\ m.status = Status(remote) /\ ToNodeOK(m)'
    <3>1. m.type = "Handshake" /\ m.status = Status(remote)
      BY <2>1
    <3> QED
      BY <3>1 DEF ToNodeOK
  <2>3. MsgInv'
    BY <1>1, <1>2, <2>1, <2>2, MsgStep DEF ToNodeStep, ToPeerStep, BatchStep, SendStatus
  <2>4. /\ run'["node"] = run["node"] /\ ~Heard /\ ~Heard' /\ toNode = <<>>
        /\ run'["peer"] = "read" /\ peerDb' = peerDb /\ link' = link /\ status' = status
        /\ run["peer"] = "send"
    BY SMTT(30), <1>1, <1>3, <1>4, <1>7 DEF Sides, Heard, SendStatus, UpInv
  <2>5. remote.tip \in Known(remote) /\ remote.tip \in Known(All)
        /\ All.block[remote.tip] = remote.block[remote.tip]
    BY <1>1 DEF BothInv, IsChain, Within
  <2>6. Status(remote) \in Statuses
    BY <2>5, AllFact DEF Status, Statuses
  <2>7. toNode' # <<>> /\ Head(toNode') = m
    BY SMT, <2>1, <2>4
  <2>8. UpInv'
    BY SMTT(30), <1>1, <2>2, <2>4, <2>6, <2>7 DEF UpInv, Statuses
  <2>9. HelloInv'
    BY <1>1, <1>4, <2>4, <2>8 DEF HelloInv, Statuses
  <2>10. SpreadInv'
    <3>1. SUFFICES ASSUME NEW h \in Known(remote) PROVE Covered(h)'
      BY DEF SpreadInv, SendStatus
    <3>2. PICK st : st = Status(remote)
      OBVIOUS
    <3>3. PeerStatus' = st
      BY <2>2, <2>4, <2>7, <3>2 DEF PeerStatus
    <3>4. ~Better(remote.block, h, remote.tip) /\ All.block[h] = remote.block[h]
      BY <1>1 DEF BothInv, IsChain, Within
    <3>5. st.weight = All.block[remote.tip].weight /\ st.numeric = Numeric[remote.tip]
      BY <2>5, <3>2 DEF Status
    <3>6. ~Beats(h, st)
      BY <2>5, <3>4, <3>5 DEF Beats, Better
    <3> QED
      BY <3>3, <3>6, AllFact DEF Covered, Beats
  <2> QED
    BY <1>2, <1>5, <2>3, <2>9, <2>10 DEF PlatformInv
<1> QED
  BY <1>6, <1>7 DEF Sides

\* The rest of a handshake: the node reads the status of the peer.
LEMMA ReadStatusStep ==
  ASSUME PlatformInv, NEW s \in Sides, ReadStatus(s)
  PROVE  PlatformInv'
<1>1. /\ BothInv /\ MsgInv /\ HelloInv /\ SpreadInv /\ SyncInv /\ UpInv /\ link = "up"
  BY DEF PlatformInv, HelloInv, ReadStatus
<1>2. GrowStep /\ BothInv'
  BY <1>1, GrowSame, BothStep DEF ReadStatus
<1>3. \/ s = "node" /\ toNode # <<>> /\ toNode' = Tail(toNode) /\ toPeer' = toPeer
      \/ s = "peer" /\ toPeer # <<>> /\ toPeer' = Tail(toPeer) /\ toNode' = toNode
  BY DEF ReadStatus, Sides
<1>4. MsgInv'
  <2>1. ToNodeStep /\ ToPeerStep
    BY <1>3 DEF ToNodeStep, ToPeerStep
  <2> QED
    BY <1>1, <1>2, <2>1, MsgStep DEF BatchStep, ReadStatus
<1>5. CASE link' = "lost"
  <2>1. UNCHANGED <<run, status, pc, best>> /\ link' # "up"
    BY <1>1, <1>5 DEF ReadStatus
  <2>2. HelloInv' /\ SpreadInv'
    BY <1>1, <2>1, DownStep
  <2>3. SyncInv'
    BY <1>1, <1>2, <2>1, SyncSame
  <2> QED
    BY <1>2, <1>4, <2>2, <2>3 DEF PlatformInv
<1>6. CASE link' # "lost"
  <2>1. /\ run' = [run EXCEPT ![s] = "listen"] /\ peerDb' = peerDb \cup {s} /\ link' = "up"
        /\ run[s] = "read" /\ run \in [Sides -> {"send", "read", "listen", "left"}]
        /\ missed' = missed /\ best' = best /\ local' = local /\ remote' = remote
    BY <1>1, <1>6 DEF ReadStatus, HelloInv
  <2>2. /\ run' \in [Sides -> {"send", "read", "listen", "left"}] /\ run'[s] = "listen"
        /\ \A t \in Sides \ {s} : run'[t] = run[t]
    BY <2>1
  <2>3. CASE s = "node"
    <3>1. /\ status' = Head(toNode).status /\ pc' = "begin" /\ toNode # <<>>
          /\ toNode' = Tail(toNode)
      BY <1>6, <2>3 DEF ReadStatus
    <3>2. /\ run["node"] = "read" /\ run'["node"] = "listen" /\ run'["peer"] = run["peer"]
          /\ ~Heard /\ Heard'
      BY <2>1, <2>2, <2>3 DEF Sides, Heard
    <3>3. run["peer"] # "send" /\ Head(toNode).type = "Handshake" /\ status' \in Statuses
      BY <1>1, <3>1, <3>2 DEF UpInv
    <3>4. "peer" \in peerDb' <=> "peer" \in peerDb
      BY <2>1, <2>3
    <3>5. UpInv'
      BY SMTT(30), <1>1, <3>2, <3>3, <3>4 DEF UpInv
    <3>6. HelloInv'
      BY <2>2, <3>3, <3>5 DEF HelloInv, Statuses
    <3>7. SpreadInv'
      <4>1. SUFFICES ASSUME ~missed, NEW h \in Known(remote) PROVE Covered(h)'
        BY <2>1 DEF SpreadInv
      <4>2. Covered(h)
        BY <1>1, <3>3, <4>1 DEF SpreadInv
      <4>3. PeerStatus' = PeerStatus
        BY <3>1, <3>2 DEF PeerStatus
      <4>4. Beats(h, PeerStatus)' => Beats(h, PeerStatus)
        BY <4>3, AllFact DEF Beats
      <4>5. NewBlockMsg(h) # Head(toNode)
        <5>1. NewBlockMsg(h).type = "NewBlock"
          BY DEF NewBlockMsg
        <5> QED
          BY <5>1, <3>3
      <4>6. NewBlockMsg(h) \in Elems(toNode) => NewBlockMsg(h) \in Elems(toNode')
        BY <1>1, <3>1, <4>5, TailFact DEF MsgInv
      <4> QED
        BY <2>1, <4>2, <4>4, <4>6 DEF Covered, NewBlockMsg
    <3>8. SyncInv'
      <4>1. pc' # "announce" /\ pc' # "done"
        BY SMTT(30), <3>1
      <4> QED
        BY <1>1, <2>1, <3>2, <4>1 DEF SyncInv
    <3> QED
      BY <1>2, <1>4, <3>6, <3>7, <3>8 DEF PlatformInv
  <2>4. CASE s = "peer"
    <3>1. /\ UNCHANGED <<status, pc, toNode>>
      BY <1>3, <1>6, <2>4 DEF ReadStatus
    <3>2. /\ run["peer"] = "read" /\ run'["peer"] = "listen" /\ run'["node"] = run["node"]
          /\ Heard' <=> Heard
      BY <2>1, <2>2, <2>4 DEF Sides, Heard
    <3>3. "peer" \in peerDb'
      BY <2>1, <2>4
    <3>4. UpInv'
      BY SMTT(30), <1>1, <3>1, <3>2, <3>3 DEF UpInv, Statuses
    <3>5. HelloInv'
      BY <1>1, <2>2, <3>1, <3>4 DEF HelloInv, Statuses
    <3>6. run["peer"] # "send"
      BY <3>2
    <3>7. SpreadInv'
      <4>1. SUFFICES ASSUME ~missed, NEW h \in Known(remote) PROVE Covered(h)'
        BY <2>1 DEF SpreadInv
      <4>2. Covered(h)
        BY <1>1, <3>6, <4>1 DEF SpreadInv
      <4>3. PeerStatus' = PeerStatus
        BY <3>1, <3>2 DEF PeerStatus
      <4>4. Beats(h, PeerStatus)' => Beats(h, PeerStatus)
        BY <4>3, AllFact DEF Beats
      <4> QED
        BY <2>1, <3>1, <4>2, <4>4 DEF Covered, NewBlockMsg
    <3>8. SyncInv'
      BY <1>1, <1>2, <2>1, <3>1, <3>2, SyncSame
    <3> QED
      BY <1>2, <1>4, <3>5, <3>7, <3>8 DEF PlatformInv
  <2> QED
    BY <2>3, <2>4 DEF Sides
<1> QED
  BY <1>5, <1>6

\* The end of a connection: lost, dropped by an application, or left by Run.
LEMMA EndStep ==
  ASSUME PlatformInv, \/ Drop \/ \E s \in Sides : UnregisterPeer(s) \/ Disconnect(s)
  PROVE  PlatformInv'
<1>1. BothInv /\ MsgInv /\ HelloInv /\ SyncInv
  BY DEF PlatformInv
<1>2. /\ UNCHANGED <<missed, local, remote, status, pc, best, toPeer, toNode, batch>>
      /\ link' # "up" /\ (run' = run \/ \E s \in Sides : run' = [run EXCEPT ![s] = "left"])
  <2>1. CASE Drop
    BY <2>1 DEF Drop, runVars, syncVars
  <2>2. ASSUME NEW s \in Sides, UnregisterPeer(s)
        PROVE  /\ UNCHANGED <<missed, local, remote, status, pc, best, toPeer, toNode, batch>>
               /\ link' # "up" /\ run' = [run EXCEPT ![s] = "left"]
    BY <2>2 DEF UnregisterPeer, syncVars
  <2>3. ASSUME NEW s \in Sides, Disconnect(s)
        PROVE  /\ UNCHANGED <<missed, local, remote, status, pc, best, toPeer, toNode, batch>>
               /\ link' # "up" /\ run' = run
    BY <2>3 DEF Disconnect, syncVars
  <2> QED
    BY <2>1, <2>2, <2>3
<1>3. run["node"] \in {"listen", "left"} => run'["node"] \in {"listen", "left"}
  BY <1>1, <1>2 DEF HelloInv, Sides
<1>4. GrowStep /\ BothInv'
  BY <1>1, <1>2, GrowSame, BothStep
<1>5. MsgInv'
  BY <1>1, <1>2, <1>4, MsgStep DEF ToNodeStep, ToPeerStep, BatchStep
<1>6. HelloInv' /\ SpreadInv'
  BY <1>1, <1>2, DownStep
<1>7. SyncInv'
  BY <1>1, <1>2, <1>3, <1>4, SyncSame
<1> QED
  BY <1>4, <1>5, <1>6, <1>7 DEF PlatformInv

\* syncNode: it ends when the status of the peer is met, and then announces
\* uncles that the node knows.
LEMMA SyncNodeStep ==
  ASSUME PlatformInv, SyncNode
  PROVE  PlatformInv'
<1>1. BothInv /\ MsgInv /\ HelloInv /\ SyncInv
  BY DEF PlatformInv
<1>2. /\ UNCHANGED <<run, peerDb, missed, local, remote, status, batch, toNode, link>>
      /\ pc # "none"
  BY DEF SyncNode, BeginSync, RequestHashes, ReadChan, ReadClosedChan, AnnounceUncles, runVars
<1>3. ToPeerStep
  <2>1. CASE RequestHashes
    <3>1. CASE toPeer' = toPeer
      BY <3>1 DEF ToPeerStep
    <3>2. CASE toPeer' # toPeer
      <4>1. PICK m : /\ m = [type |-> "GetBlockHashesRequest", parent |-> lastHash]
                     /\ toPeer' = Append(toPeer, m)
        BY <2>1, <3>2 DEF RequestHashes
      <4>2. m.type = "GetBlockHashesRequest"
        BY <4>1
      <4>3. ToPeerOK(m)'
        BY SMTT(30), <4>2 DEF ToPeerOK
      <4> QED
        BY <4>1, <4>3 DEF ToPeerStep
    <3> QED
      BY <3>1, <3>2
  <2>2. CASE AnnounceUncles
    <3>1. CASE toPeer' = toPeer
      BY <3>1 DEF ToPeerStep
    <3>2. CASE toPeer' # toPeer
      <4>1. PICK us : us = CandidateUncles(local)
        OBVIOUS
      <4>2. PICK l : l = [i \in DOMAIN us |-> NewBlockMsg(us[i])]
        OBVIOUS
      <4>3. toPeer' = toPeer \o l
        BY <2>2, <3>2, <4>1, <4>2 DEF AnnounceUncles, NewBlockMsg
      <4>4. us \in Seq(Known(local))
        BY <1>1, <4>1, UnclesKnown DEF BothInv
      <4>5. IsQueue(l) /\ \A m \in Elems(l) : \E h \in Known(local) : m = NewBlockMsg(h)
        <5>1. PICK S : S = {NewBlockMsg(h) : h \in Known(local)}
          OBVIOUS
        <5>2. \A i \in DOMAIN us : NewBlockMsg(us[i]) \in S
          BY SMTT(30), <4>4, <5>1
        <5>3. Len(us) \in Nat /\ DOMAIN us = 1 .. Len(us)
          BY SMT, <4>4
        <5>4. l \in [1 .. Len(us) -> S]
          BY <4>2, <5>2, <5>3
        <5>5. l \in Seq(S)
          BY SMTT(30), <5>3, <5>4
        <5>6. IsQueue(l) /\ Elems(l) \subseteq S
          BY ONLY SMTT(30), <5>5, SeqFact
        <5> QED
          BY <5>1, <5>6
      <4>6. ASSUME NEW m \in Elems(l) PROVE ToPeerOK(m)'
        <5>1. PICK h \in Known(local) : m = NewBlockMsg(h)
          BY <4>5
        <5>2. m.type = "NewBlock" /\ m.hash = h
          BY <5>1 DEF NewBlockMsg
        <5>3. local' = local
          BY <1>2
        <5> QED
          BY <5>2, <5>3 DEF ToPeerOK
      <4> QED
        BY <4>3, <4>5, <4>6 DEF ToPeerStep
    <3> QED
      BY <3>1, <3>2
  <2>3. CASE toPeer' = toPeer
    BY <2>3 DEF ToPeerStep
  <2> QED
    BY <2>1, <2>2, <2>3 DEF SyncNode, BeginSync, ReadChan, ReadClosedChan
<1>4. BothInv' /\ MsgInv' /\ HelloInv' /\ SpreadInv'
  BY <1>2, <1>3, NoneTaken, QuietInv DEF BatchStep
<1>5. local.tip \in Known(local)
  BY <1>1 DEF BothInv, IsChain
<1>6. best' \in Known(local)
  BY <1>1, <1>5 DEF SyncNode, BeginSync, RequestHashes, ReadChan, ReadClosedChan,
       AnnounceUncles, SyncInv
<1>7. ASSUME pc' \in {"announce", "done"} PROVE ~IsSyncNeeded(local.tip)
  <2>1. CASE BeginSync
    <3>1. ~IsSyncNeeded(best)
      BY <1>7, <2>1 DEF BeginSync
    <3> QED
      BY <1>1, <3>1, TipMet DEF SyncInv
  <2>2. CASE ReadChan
    <3>1. ~(\/ status.weight > local.block[best'].weight
            \/ status.weight = local.block[best'].weight /\ status.numeric < Numeric[best'])
      BY <1>7, <2>2 DEF ReadChan, IsSyncNeeded
    <3> QED
      BY <2>2, <3>1 DEF ReadChan, IsSyncNeeded
  <2>3. CASE AnnounceUncles
    BY <1>1, <2>3 DEF AnnounceUncles, SyncInv
  <2>4. ~RequestHashes /\ ~ReadClosedChan
    BY <1>7 DEF RequestHashes, ReadClosedChan
  <2> QED
    BY <2>1, <2>2, <2>3, <2>4 DEF SyncNode
<1>8. SyncInv'
  BY <1>1, <1>2, <1>6, <1>7 DEF SyncInv, IsSyncNeeded
<1> QED
  BY <1>4, <1>8 DEF PlatformInv

\* The node takes a message after its handshake.
LEMMA TakeFact ==
  ASSUME PlatformInv, NEW t, Receives(t)
  PROVE  /\ ToNodeStep /\ Heard /\ toNode # <<>> /\ toNode' = Tail(toNode) /\ link = "up"
         /\ Head(toNode).type = t /\ ToNodeOK(Head(toNode))
<1>1. /\ Heard /\ toNode # <<>> /\ toNode' = Tail(toNode) /\ link = "up" /\ Head(toNode).type = t
  BY DEF Receives, Heard
<1>2. IsQueue(toNode) /\ \A m \in Elems(toNode) : ToNodeOK(m)
  BY DEF PlatformInv, MsgInv
<1>3. Head(toNode) \in Elems(toNode)
  BY <1>1, <1>2, TailFact
<1> QED
  BY <1>1, <1>2, <1>3 DEF ToNodeStep

\* handleGetBlockHashesResponse, the rewind and handleGetBlocksResponse.
LEMMA HashesStep ==
  ASSUME PlatformInv, HandleHashesResponse \/ HandleRewind \/ HandleBlocksResponse
  PROVE  PlatformInv'
<1>1. BothInv /\ MsgInv /\ HelloInv /\ SyncInv
  BY DEF PlatformInv
<1>2. PICK t \in {"GetBlockHashesResponse", "GetBlockHashesRewind", "GetBlocksResponse"} : Receives(t)
  BY DEF HandleHashesResponse, HandleRewind, HandleBlocksResponse
<1>3. /\ UNCHANGED <<run, peerDb, missed, local, remote, status, pc, best>>
      /\ link' = "up" => link = "up"
  BY <1>2, TakeFact DEF HandleHashesResponse, HandleRewind, HandleBlocksResponse, runVars, syncVars
<1>4. /\ ToNodeStep /\ Heard /\ toNode # <<>> /\ toNode' = Tail(toNode)
      /\ Head(toNode).type = t /\ ToNodeOK(Head(toNode))
  BY <1>2, TakeFact
<1>5. GrowStep
  BY <1>1, <1>3, GrowSame
<1>6. QuietStep /\ MinedStep
  BY <1>3, <1>4 DEF QuietStep, MinedStep
<1>7. TakenStep
  <2>1. Head(toNode).type # "NewBlock"
    BY <1>2, <1>4
  <2> QED
    BY <2>1 DEF TakenStep
<1>8. ToPeerStep
  <2>1. CASE HandleHashesResponse
    <3>1. Head(toNode).type = "GetBlockHashesResponse"
      BY <2>1 DEF HandleHashesResponse, Receives
    <3>2. IsQueue(Head(toNode).hashes) /\ Elems(Head(toNode).hashes) \subseteq Known(remote)
      BY <1>4, <3>1 DEF ToNodeOK
    <3>3. PICK m : /\ m = [type |-> "GetBlocksRequest", hashes |-> Head(toNode).hashes]
                   /\ toPeer' = Append(toPeer, m)
      BY <2>1 DEF HandleHashesResponse
    <3>4. m.type = "GetBlocksRequest" /\ m.hashes = Head(toNode).hashes
      BY <3>3
    <3>5. ToPeerOK(m)'
      BY <1>3, <3>2, <3>4 DEF ToPeerOK
    <3> QED
      BY <3>3, <3>5 DEF ToPeerStep
  <2>2. CASE ~HandleHashesResponse
    BY <2>2 DEF HandleRewind, HandleBlocksResponse, ToPeerStep
  <2> QED
    BY <2>1, <2>2
<1>9. BatchStep
  <2>1. CASE HandleBlocksResponse
    <3>1. Head(toNode).type = "GetBlocksResponse"
      BY <2>1 DEF HandleBlocksResponse, Receives
    <3>2. IsQueue(Head(toNode).hashes) /\ Elems(Head(toNode).hashes) \subseteq Known(remote)
      BY <1>4, <3>1 DEF ToNodeOK
    <3> QED
      BY <2>1, <3>2 DEF BatchStep, HandleBlocksResponse
  <2>2. CASE ~HandleBlocksResponse
    BY <2>2 DEF HandleRewind, HandleHashesResponse, BatchStep
  <2> QED
    BY <2>1, <2>2
<1>10. BothInv' /\ MsgInv' /\ HelloInv' /\ SpreadInv'
  BY <1>3, <1>4, <1>5, <1>6, <1>7, <1>8, <1>9, QuietInv
<1>11. SyncInv'
  BY <1>1, <1>3, <1>5, SyncSame
<1> QED
  BY <1>10, <1>11 DEF PlatformInv

\* handleGetBlocksResponse: one block of the peer is added, or refused.
LEMMA ProcessBlockStep ==
  ASSUME PlatformInv, ProcessBlock
  PROVE  PlatformInv'
<1>1. BothInv /\ MsgInv /\ HelloInv /\ SyncInv
  BY DEF PlatformInv
<1>2. /\ UNCHANGED <<run, peerDb, missed, remote, status, pc, best, toPeer, toNode>>
      /\ link' = "up" => link = "up"
      /\ batch # <<>> /\ (batch' = Tail(batch) \/ batch' = <<>>)
  BY DEF ProcessBlock, runVars
<1>3. IsQueue(batch) /\ Elems(batch) \subseteq Known(remote)
  BY <1>1 DEF MsgInv
<1>4. Head(batch) \in Known(remote)
  BY <1>2, <1>3, TailFact
<1>5. GrowStep
  <2>1. CASE local' = local
    BY <1>1, <1>2, <2>1, GrowSame
  <2>2. CASE local' # local
    <3>1. PICK h : h = Head(batch)
      OBVIOUS
    <3>2. Valid(local, World[h]) /\ local' = Added(local, h, World[h])
      BY <2>2, <3>1 DEF ProcessBlock
    <3> QED
      BY <1>1, <1>2, <1>4, <3>1, <3>2, GrowLocal
  <2> QED
    BY <2>1, <2>2
<1>6. ToNodeStep /\ ToPeerStep /\ BatchStep /\ QuietStep /\ MinedStep
  BY <1>2 DEF ToNodeStep, ToPeerStep, BatchStep, QuietStep, MinedStep
<1>7. TakenStep
  BY <1>1, <1>2, SameNotTail DEF MsgInv, TakenStep
<1>8. BothInv' /\ MsgInv' /\ HelloInv' /\ SpreadInv'
  BY <1>2, <1>5, <1>6, <1>7, QuietInv
<1>9. SyncInv'
  BY <1>1, <1>2, <1>5, SyncSame
<1> QED
  BY <1>8, <1>9 DEF PlatformInv

\* handleNewBlock of the node.
LEMMA NewBlockStep ==
  ASSUME PlatformInv, HandleNewBlock
  PROVE  PlatformInv'
<1>1. BothInv /\ MsgInv /\ HelloInv /\ SyncInv
  BY DEF PlatformInv
<1>2. Receives("NewBlock") /\ UNCHANGED <<run, peerDb, missed, remote, status, pc, best, toPeer, batch>>
  BY DEF HandleNewBlock, runVars, syncVars
<1>3. /\ ToNodeStep /\ Heard /\ toNode # <<>> /\ toNode' = Tail(toNode) /\ link = "up"
      /\ Head(toNode).type = "NewBlock" /\ ToNodeOK(Head(toNode))
  BY <1>2, TakeFact
<1>4. PICK h : h = Head(toNode).hash
  OBVIOUS
<1>5. h \in Known(remote)
  BY <1>3, <1>4 DEF ToNodeOK
<1>6. \/ Valid(local, World[h]) /\ local' = Added(local, h, World[h])
      \/ link' = "refused" /\ local' = local
  BY <1>4 DEF HandleNewBlock
<1>7. GrowStep /\ (link' # "up" \/ h \in Known(local'))
  <2>1. CASE Valid(local, World[h]) /\ local' = Added(local, h, World[h])
    BY <1>1, <1>2, <1>5, <2>1, GrowLocal
  <2>2. CASE link' = "refused" /\ local' = local
    <3>1. link' # "up"
      BY <2>2
    <3> QED
      BY <1>1, <1>2, <2>2, <3>1, GrowSame
  <2> QED
    BY <1>6, <2>1, <2>2
<1>8. ToPeerStep /\ BatchStep /\ QuietStep /\ MinedStep /\ TakenStep
  BY <1>2, <1>3, <1>4, <1>7 DEF ToPeerStep, BatchStep, QuietStep, MinedStep, TakenStep
<1>9. BothInv' /\ MsgInv' /\ HelloInv' /\ SpreadInv'
  BY <1>2, <1>3, <1>7, <1>8, QuietInv
<1>10. SyncInv'
  BY <1>1, <1>2, <1>7, SyncSame
<1> QED
  BY <1>9, <1>10 DEF PlatformInv

\* The peer takes a message.
LEMMA PeerTakeFact ==
  ASSUME PlatformInv, NEW t, PeerReceives(t)
  PROVE  /\ ToPeerStep /\ link = "up" /\ "peer" \in peerDb
         /\ Head(toPeer).type = t /\ ToPeerOK(Head(toPeer))
<1>1. /\ run["peer"] = "listen" /\ toPeer # <<>> /\ toPeer' = Tail(toPeer) /\ link = "up"
      /\ Head(toPeer).type = t
  BY DEF PeerReceives
<1>2. IsQueue(toPeer) /\ \A m \in Elems(toPeer) : ToPeerOK(m)
  BY DEF PlatformInv, MsgInv
<1>3. Head(toPeer) \in Elems(toPeer)
  BY <1>1, <1>2, TailFact
<1>4. "peer" \in peerDb
  BY <1>1 DEF PlatformInv, HelloInv, UpInv
<1> QED
  BY <1>1, <1>2, <1>3, <1>4 DEF ToPeerStep

\* handleGetBlockHashesRequest and handleGetBlocksRequest of the peer.
LEMMA PeerAnswers ==
  ASSUME PlatformInv, PeerHashesRequest \/ PeerBlocksRequest
  PROVE  PlatformInv'
<1>1. BothInv /\ MsgInv /\ HelloInv /\ SyncInv
  BY DEF PlatformInv
<1>2. UNCHANGED <<run, peerDb, missed, local, remote, status, pc, best, batch, link>>
  BY DEF PeerHashesRequest, PeerBlocksRequest, runVars, syncVars
<1>3. ToPeerStep /\ "peer" \in peerDb
  BY PeerTakeFact DEF PeerHashesRequest, PeerBlocksRequest
<1>4. GrowStep
  BY <1>1, <1>2, GrowSame
<1>5. \E m : toNode' = Append(toNode, m) /\ ToNodeOK(m)'
  <2>1. CASE PeerHashesRequest
    <3>1. PICK hashes : hashes = DescendentsOf(remote, Head(toPeer).parent, SyncBlocks)
      OBVIOUS
    <3>2. IsQueue(hashes) /\ Elems(hashes) \subseteq Known(remote)
      <4>1. IsChain(remote) /\ SyncBlocks \in Nat
        BY <1>1, SyncAssumption DEF BothInv
      <4>2. hashes \in Seq(Known(remote))
        BY <3>1, <4>1, DescendentsKnown
      <4> QED
        BY ONLY SMTT(30), <4>2, SeqFact
    <3>3. PICK m : /\ m = IF hashes = <<>> THEN [type |-> "GetBlockHashesRewind"]
                          ELSE [type |-> "GetBlockHashesResponse", hashes |-> hashes]
                   /\ toNode' = Append(toNode, m)
      BY <2>1, <3>1 DEF PeerHashesRequest
    <3>4. ToNodeOK(m)'
      <4>1. CASE hashes = <<>>
        <5>1. m.type = "GetBlockHashesRewind"
          BY <3>3, <4>1
        <5> QED
          BY <5>1 DEF ToNodeOK
      <4>2. CASE hashes # <<>>
        <5>1. m.type = "GetBlockHashesResponse" /\ m.hashes = hashes
          BY <3>3, <4>2
        <5> QED
          BY <1>2, <3>2, <5>1 DEF ToNodeOK
      <4> QED
        BY <4>1, <4>2
    <3> QED
      BY <3>3, <3>4
  <2>2. CASE PeerBlocksRequest
    <3>1. Head(toPeer).type = "GetBlocksRequest" /\ ToPeerOK(Head(toPeer))
      BY <2>2, PeerTakeFact DEF PeerBlocksRequest
    <3>2. IsQueue(Head(toPeer).hashes) /\ Elems(Head(toPeer).hashes) \subseteq Known(remote)
      BY <3>1 DEF ToPeerOK
    <3>3. PICK m : /\ m = [type |-> "GetBlocksResponse", hashes |-> Head(toPeer).hashes]
                   /\ toNode' = Append(toNode, m)
      BY <2>2 DEF PeerBlocksRequest
    <3>4. m.type = "GetBlocksResponse" /\ m.hashes = Head(toPeer).hashes
      BY <3>3
    <3>5. ToNodeOK(m)'
      BY SMTT(30), <1>2, <3>2, <3>4 DEF ToNodeOK
    <3> QED
      BY <3>3, <3>5
  <2> QED
    BY <2>1, <2>2
<1>6. ToNodeStep /\ BatchStep /\ QuietStep /\ MinedStep
  BY <1>2, <1>3, <1>5 DEF ToNodeStep, BatchStep, QuietStep, MinedStep
<1>7. TakenStep
  BY <1>1, <1>5, AppendNotTail DEF MsgInv, TakenStep
<1>8. BothInv' /\ MsgInv' /\ HelloInv' /\ SpreadInv'
  BY <1>2, <1>3, <1>4, <1>6, <1>7, QuietInv
<1>9. SyncInv'
  BY <1>1, <1>2, <1>4, SyncSame
<1> QED
  BY <1>8, <1>9 DEF PlatformInv

\* handleNewBlock of the peer: a block that the node knows.
LEMMA PeerNewBlockStep ==
  ASSUME PlatformInv, PeerNewBlock
  PROVE  PlatformInv'
<1>1. BothInv /\ MsgInv /\ HelloInv /\ SyncInv
  BY DEF PlatformInv
<1>2. /\ PeerReceives("NewBlock")
      /\ UNCHANGED <<run, peerDb, missed, local, status, pc, best, batch, toNode>>
  BY DEF PeerNewBlock, runVars, syncVars
<1>3. /\ ToPeerStep /\ link = "up" /\ Head(toPeer).type = "NewBlock" /\ ToPeerOK(Head(toPeer))
  BY <1>2, PeerTakeFact
<1>4. PICK h : h = Head(toPeer).hash
  OBVIOUS
<1>5. h \in Known(local) /\ h \in Known(All)
  BY <1>1, <1>3, <1>4 DEF ToPeerOK, BothInv, Within
<1>6. \/ Valid(remote, World[h]) /\ remote' = Added(remote, h, World[h])
      \/ remote' = remote
  BY <1>4 DEF PeerNewBlock
<1>7. GrowStep /\ Known(remote') \subseteq Known(remote) \cup {h}
  <2>1. CASE Valid(remote, World[h]) /\ remote' = Added(remote, h, World[h])
    BY <1>1, <1>2, <1>5, <2>1, GrowRemote
  <2>2. CASE remote' = remote
    BY <1>1, <1>2, <2>2, GrowSame
  <2> QED
    BY <1>6, <2>1, <2>2
<1>8. ToNodeStep /\ BatchStep /\ QuietStep /\ MinedStep
  BY <1>2, <1>3, <1>5, <1>7 DEF ToNodeStep, BatchStep, QuietStep, MinedStep
<1>9. TakenStep
  BY <1>1, <1>2, SameNotTail DEF MsgInv, TakenStep
<1>10. BothInv' /\ MsgInv' /\ HelloInv' /\ SpreadInv'
  BY <1>2, <1>3, <1>7, <1>8, <1>9, QuietInv
<1>11. SyncInv'
  BY <1>1, <1>2, <1>7, SyncSame
<1> QED
  BY <1>10, <1>11 DEF PlatformInv

\* The peer mines: its block is announced, or it is missed.
LEMMA PeerMinesStep ==
  ASSUME PlatformInv, PeerMines
  PROVE  PlatformInv'
<1>1. BothInv /\ MsgInv /\ HelloInv /\ SyncInv
  BY DEF PlatformInv
<1>2. /\ UNCHANGED <<run, peerDb, local, status, pc, best, batch, toPeer, link>>
      /\ missed' = (missed \/ run["peer"] = "read")
  BY DEF PeerMines, syncVars
<1>3. PICK h \in DOMAIN World \ Known(remote) :
        /\ Valid(remote, World[h]) /\ remote' = Added(remote, h, World[h])
        /\ toNode' = IF "peer" \in peerDb /\ link = "up"
                     THEN Append(toNode, [type |-> "NewBlock", hash |-> h]) ELSE toNode
  BY DEF PeerMines
<1>4. h \in Known(All)
  BY <1>3, AllFact, WorldGrown DEF All
<1>5. GrowStep /\ Known(remote') = Known(remote) \cup {h}
  BY <1>1, <1>2, <1>3, <1>4, GrowRemote
<1>6. PICK m : m = NewBlockMsg(h)
  OBVIOUS
<1>7. \/ "peer" \in peerDb /\ link = "up" /\ toNode' = Append(toNode, m)
      \/ ~("peer" \in peerDb /\ link = "up") /\ toNode' = toNode
  BY <1>3, <1>6 DEF NewBlockMsg
<1>8. ToNodeOK(m)'
  <2>1. m.type = "NewBlock" /\ m.hash = h
    BY <1>6 DEF NewBlockMsg
  <2> QED
    BY <1>5, <2>1 DEF ToNodeOK
<1>9. ToNodeStep /\ ToPeerStep /\ BatchStep /\ QuietStep /\ (missed => missed')
  BY <1>2, <1>7, <1>8 DEF ToNodeStep, ToPeerStep, BatchStep, QuietStep
<1>10. TakenStep
  BY <1>1, <1>7, AppendNotTail, SameNotTail DEF MsgInv, TakenStep
<1>11. MinedStep
  <2>1. CASE toNode' = Append(toNode, m)
    <3>1. IsQueue(toNode)
      BY <1>1 DEF MsgInv
    <3>2. Elems(toNode') = Elems(toNode) \cup {m}
      BY ONLY Zenon, <2>1, <3>1, AppendFact
    <3> QED
      BY <3>2, <1>5, <1>6 DEF MinedStep, NewBlockMsg
  <2>2. CASE link # "up"
    BY <1>2, <2>2 DEF MinedStep
  <2>3. CASE "peer" \notin peerDb /\ link = "up"
    <3>1. run["peer"] \in {"send", "read", "listen", "left"} /\ UpInv
      BY <1>1, <2>3 DEF HelloInv, Sides
    <3>2. run["peer"] = "send" \/ run["peer"] = "read"
      BY <2>3, <3>1 DEF UpInv
    <3> QED
      BY <1>2, <3>2 DEF MinedStep
  <2> QED
    BY <1>7, <2>1, <2>2, <2>3
<1>12. BothInv' /\ MsgInv' /\ HelloInv' /\ SpreadInv'
  BY <1>5, <1>9, <1>10, <1>11, QuietInv
<1>13. SyncInv'
  BY <1>1, <1>2, <1>5, SyncSame
<1> QED
  BY <1>12, <1>13 DEF PlatformInv

\* Both nodes start with blocks that miners made, the peer with the better tip.
LEMMA PlatformInit == Init => PlatformInv
<1> SUFFICES ASSUME Init PROVE PlatformInv
  OBVIOUS
<1>1. PICK s \in Setups : local = Build(World, s.local) /\ remote = Build(World, s.remote)
  BY DEF Init
<1>2. /\ IsWorld(World) /\ IsHistory(World, s.local) /\ IsHistory(World, s.remote)
      /\ ~Better(Premade(World), local.tip, remote.tip)
  BY <1>1, SyncAssumption
<1>3. IsChain(local) /\ Within(local, All) /\ IsChain(remote) /\ Within(remote, All)
  BY <1>1, <1>2, BuildFact DEF All
<1>4. All.block = Premade(World)
  BY DEF All, Table
<1>5. local.tip \in Known(local) /\ remote.tip \in Known(remote)
  BY <1>3 DEF IsChain
<1>6. local.tip \in Known(All) /\ remote.tip \in Known(All)
  BY <1>3, <1>5 DEF Within
<1>7. ASSUME NEW h \in Known(local) PROVE ~Better(All.block, h, remote.tip)
  <2>1. /\ ~Better(local.block, h, local.tip) /\ h \in Known(All)
        /\ All.block[h] = local.block[h] /\ All.block[local.tip] = local.block[local.tip]
    BY <1>3, <1>5 DEF IsChain, Within
  <2>2. ~Better(All.block, h, local.tip)
    BY <2>1 DEF Better
  <2> QED
    BY <1>2, <1>4, <1>6, <2>1, <2>2, AllFact, BetterTrans
<1>8. BothInv
  BY <1>3, <1>7 DEF BothInv
<1>9. toNode = <<>> /\ toPeer = <<>> /\ batch = <<>>
  BY DEF Init
<1>10. MsgInv
  BY <1>9, EmptyFact DEF MsgInv
<1>11. HelloInv /\ SpreadInv
  <2>1. run["node"] = "send" /\ run["peer"] = "send" /\ peerDb = {}
    BY DEF Init, Sides
  <2>2. ~Heard /\ UpInv
    BY <1>9, <2>1 DEF Heard, UpInv
  <2>3. run \in [Sides -> {"send", "read", "listen", "left"}] /\ status \in Statuses
    BY DEF Init, Statuses
  <2> QED
    BY <2>1, <2>2, <2>3 DEF HelloInv, SpreadInv
<1>12. SyncInv
  <2>1. best = local.tip /\ pc = "none"
    BY DEF Init
  <2> QED
    BY <1>5, <2>1 DEF SyncInv
<1> QED
  BY <1>8, <1>10, <1>11, <1>12 DEF PlatformInv

\* A step that changes nothing.
LEMMA PlatformStutter ==
  ASSUME PlatformInv, UNCHANGED vars
  PROVE  PlatformInv'
<1>1. BothInv /\ MsgInv /\ HelloInv /\ SyncInv
  BY DEF PlatformInv
<1>2. /\ UNCHANGED <<run, peerDb, missed, local, remote, status, pc, best, batch, toPeer, toNode, link>>
  BY DEF vars, runVars
<1>3. GrowStep
  BY <1>2, NoneTaken
<1>4. BothInv' /\ MsgInv' /\ HelloInv' /\ SpreadInv'
  BY <1>2, NoneTaken, QuietInv DEF BatchStep, ToPeerStep
<1>5. SyncInv'
  BY <1>1, <1>2, <1>3, SyncSame
<1> QED
  BY <1>4, <1>5 DEF PlatformInv

\* What holds of a sync at every moment: both chains are made of valid blocks
\* and the node's does not overtake the peer's, messages are about blocks their
\* sender knows, the peer's handshake comes first, every block of the peer that
\* beats its status is announced to the node or has arrived, and syncNode ends
\* well only when that status is met.
THEOREM PlatformInvariant == Spec => []PlatformInv
<1>1. ASSUME PlatformInv, Next PROVE PlatformInv'
  <2>1. CASE Run
    <3>1. PICK s \in Sides : SendStatus(s) \/ ReadStatus(s) \/ UnregisterPeer(s)
      BY <2>1 DEF Run
    <3> QED
      BY <1>1, <3>1, SendStatusStep, ReadStatusStep, EndStep
  <2>2. CASE SyncNode
    BY <1>1, <2>2, SyncNodeStep
  <2>3. CASE Listen
    BY <1>1, <2>3, HashesStep, ProcessBlockStep, NewBlockStep DEF Listen
  <2>4. CASE PeerListen
    BY <1>1, <2>4, PeerAnswers, PeerNewBlockStep DEF PeerListen
  <2>5. CASE PeerMines
    BY <1>1, <2>5, PeerMinesStep
  <2>6. CASE Drop \/ \E s \in Sides : Disconnect(s)
    BY <1>1, <2>6, EndStep
  <2> QED
    BY <1>1, <2>1, <2>2, <2>3, <2>4, <2>5, <2>6 DEF Next
<1>2. PlatformInv /\ [Next]_vars => PlatformInv'
  BY <1>1, PlatformStutter
<1> QED
  BY <1>2, PlatformInit, PTL DEF Spec

\* Two tips that do not beat each other have one status.
LEMMA SameStatus ==
  ASSUME NEW g \in Known(All), NEW h \in Known(All),
         ~Better(All.block, g, h), ~Better(All.block, h, g)
  PROVE  All.block[g].weight = All.block[h].weight /\ Numeric[g] = Numeric[h]
<1>1. /\ All.block[g].weight \in Nat /\ Numeric[g] \in Nat
      /\ All.block[h].weight \in Nat /\ Numeric[h] \in Nat
  BY AllFact
<1> QED
  BY SMT, <1>1 DEF Better

\* syncNode, listen and the handshake together: when a sync has ended well and
\* all messages are handled, the tips of the node and of the peer have the same
\* weight and Numeric, whatever the two mined before, in whatever order blocks of
\* the sync and new blocks arrived, unless the peer mined a block between its
\* status and its registration of the node.
THEOREM SyncedTipsAgree == Spec => []SyncedNodesAgree
<1>1. PlatformInv => SyncedNodesAgree
  <2>1. SUFFICES ASSUME PlatformInv, pc = "done", ~missed, link = "up", toNode = <<>>
                 PROVE  Status(local) = Status(remote)
    BY DEF SyncedNodesAgree
  <2>2. BothInv /\ HelloInv /\ SpreadInv /\ SyncInv /\ UpInv
    BY <2>1 DEF PlatformInv, HelloInv
  <2>3. Heard /\ ~IsSyncNeeded(local.tip)
    BY <2>1, <2>2 DEF SyncInv, UpInv, Heard
  <2>4. run["peer"] # "send" /\ PeerStatus = status /\ status \in Statuses
    BY <2>2, <2>3 DEF UpInv, PeerStatus, HelloInv
  <2>5. local.tip \in Known(local) /\ remote.tip \in Known(remote)
    BY <2>2 DEF BothInv, IsChain
  <2>6. /\ local.tip \in Known(All) /\ All.block[local.tip] = local.block[local.tip]
        /\ remote.tip \in Known(All) /\ All.block[remote.tip] = remote.block[remote.tip]
    BY <2>2, <2>5 DEF BothInv, Within
  <2>7. ~Better(All.block, local.tip, remote.tip)
    BY <2>2, <2>5 DEF BothInv
  <2>8. ~Better(All.block, remote.tip, local.tip)
    <3>1. Covered(remote.tip)
      BY <2>1, <2>2, <2>4, <2>5 DEF SpreadInv
    <3>2. CASE remote.tip \in Known(local)
      <4>1. ~Better(local.block, remote.tip, local.tip)
        BY <2>2, <3>2 DEF BothInv, IsChain
      <4>2. All.block[remote.tip] = local.block[remote.tip]
        BY <2>2, <3>2 DEF BothInv, Within
      <4> QED
        BY <2>6, <4>1, <4>2 DEF Better
    <3>3. CASE ~Beats(remote.tip, status)
      <4>1. /\ All.block[local.tip].weight \in Nat /\ Numeric[local.tip] \in Nat
            /\ All.block[remote.tip].weight \in Nat /\ Numeric[remote.tip] \in Nat
            /\ status.weight \in Nat /\ status.numeric \in Nat
        BY <2>4, <2>6, AllFact DEF Statuses
      <4>2. ~(\/ status.weight > All.block[local.tip].weight
              \/ status.weight = All.block[local.tip].weight /\ status.numeric < Numeric[local.tip])
        BY <2>3, <2>6 DEF IsSyncNeeded
      <4> QED
        BY SMTT(30), <3>3, <4>1, <4>2 DEF Beats, Better
    <3> QED
      BY <2>1, <2>4, <3>1, <3>2, <3>3, EmptyFact DEF Covered
  <2>9. /\ All.block[local.tip].weight = All.block[remote.tip].weight
        /\ Numeric[local.tip] = Numeric[remote.tip]
    BY <2>6, <2>7, <2>8, SameStatus
  <2> QED
    BY <2>6, <2>9 DEF Status
<1> QED
  BY <1>1, PlatformInvariant, PTL

-----------------------------------------------------------------------------
(* A peer replays a block that a producer made (Trustee) *)

Fcn(f, S) == f = [x \in S |-> f[x]]

\* The ledgers w[0], w[1], ... after the reward and after each transaction of a
\* content, of which none is refused, from the ledger of the block's parent.
Follows(w, start, ops, txs) ==
  /\ w[0] = Process(start, ops)
  /\ \A i \in 1 .. Len(txs) : /\ w[i] = Applied(w[i - 1], txs[i])
                              /\ TxProcessed(w[i - 1], txs[i])

Replays(start, c) ==
  \E w : Follows(w, start, c.ops, c.txs) /\ w[Len(c.txs)] = c.state

\* A content that fits its block.
Good(b, c) ==
  /\ c.txs \in Seq(TestTx)
  /\ ProcessAccepts(c.ops, c.miner, UncleMiners(b.uncles))
  /\ Replays(StateOf(b.parent), c)

IsContent(c) == c = [miner |-> c.miner, ops |-> c.ops, txs |-> c.txs, state |-> c.state]

CandidateOK(k) ==
  /\ k = [block |-> k.block, content |-> k.content] /\ IsContent(k.content)
  /\ k.block \in BlockSpec /\ Valid(chain, k.block) /\ Good(k.block, k.content)

TrusteeInv ==
  /\ IsChain(chain) /\ Fcn(contents, Hash) /\ Fcn(candidate, Miner)
  /\ \A h \in Known(chain) \ {Genesis} :
       contents[h].txs # <<>> /\ Good(chain.block[h], contents[h])
  /\ \A m \in Miner : candidate[m] # NoBlock => CandidateOK(candidate[m])

\* The ledgers of a replay of the first n transfers of a block.
IsReplay(w, h, n) ==
  /\ w[0] = Process(StateOf(chain.block[h].parent), contents[h].ops)
  /\ \A i \in 1 .. n : w[i] = Applied(w[i - 1], contents[h].txs[i])

\* There is one replay only.
LEMMA ReplayedFact ==
  ASSUME NEW h, NEW w, NEW n \in Nat, IsReplay(w, h, n), NEW k \in 0 .. n
  PROVE  Replayed(h, k) = w[k]
<1> DEFINE First == Process(StateOf(chain.block[h].parent), contents[h].ops)
           Do(l, i) == Applied(l, contents[h].txs[i])
           IsUpTo(f) == f = [i \in 0 .. k |-> IF i = 0 THEN First ELSE Do(f[i - 1], i)]
           after == CHOOSE f : IsUpTo(f)
           e == [i \in 0 .. k |-> w[i]]
           Bad == {i \in Nat : i <= k /\ after[i] # w[i]}
<1>1. Replayed(h, k) = after[k]
  BY DEF Replayed
<1>2. w[0] = First /\ \A i \in 1 .. n : w[i] = Do(w[i - 1], i)
  BY DEF IsReplay
<1> HIDE DEF First, Do
<1>3. IsUpTo(e)
  <2>1. ASSUME NEW i \in 0 .. k PROVE e[i] = IF i = 0 THEN First ELSE Do(e[i - 1], i)
    <3>1. CASE i = 0
      BY <1>2, <3>1
    <3>2. CASE i # 0
      <4>1. i \in 1 .. n /\ i - 1 \in 0 .. k
        BY SMT, <3>2
      <4>2. e[i] = w[i] /\ e[i - 1] = w[i - 1]
        BY <4>1
      <4> QED
        BY <1>2, <3>2, <4>1, <4>2
    <3> QED
      BY <3>1, <3>2
  <2> QED
    BY <2>1
<1>4. after = [i \in 0 .. k |-> IF i = 0 THEN First ELSE Do(after[i - 1], i)]
  <2>1. IsUpTo(after)
    <3> HIDE DEF IsUpTo, e
    <3> QED
      BY <1>3
  <2> QED
    BY <2>1
<1> HIDE DEF after, IsUpTo, e
<1>5. Bad = {}
  <2> SUFFICES ASSUME Bad # {} PROVE FALSE
    OBVIOUS
  <2>1. PICK d \in Bad : \A j \in Bad : d <= j
    BY LeastNumberPrinciple
  <2>2. d \in 0 .. k /\ after[d] # w[d]
    BY SMT, <2>1
  <2>3. d # 0
    BY <1>2, <1>4, <2>2
  <2>4. d - 1 \in Nat /\ d - 1 \notin Bad /\ d \in 1 .. n /\ d - 1 <= k
    BY SMTT(30), <2>1, <2>3
  <2>5. after[d - 1] = w[d - 1]
    BY <2>4
  <2>6. after[d] = Do(after[d - 1], d) /\ w[d] = Do(w[d - 1], d)
    BY <1>2, <1>4, <2>2, <2>3, <2>4
  <2> QED
    BY <2>2, <2>5, <2>6
<1>6. k \notin Bad /\ k \in Nat /\ k <= k
  BY SMT, <1>5
<1> QED
  BY <1>1, <1>6

\* processBlock accepts a block with a good content.
LEMMA GoodAccepted ==
  ASSUME NEW h, contents[h].txs # <<>>, Good(chain.block[h], contents[h])
  PROVE  ProcessBlockAccepts(h)
<1> DEFINE c == contents[h]
           n == Len(contents[h].txs)
<1>1. n \in Nat /\ DOMAIN c.txs = 1 .. n
  BY SMT DEF Good
<1>2. PICK w : /\ w[0] = Process(StateOf(chain.block[h].parent), c.ops)
               /\ \A i \in 1 .. n : /\ w[i] = Applied(w[i - 1], c.txs[i])
                                    /\ TxProcessed(w[i - 1], c.txs[i])
               /\ w[n] = c.state
  BY DEF Good, Replays, Follows
<1>3. ASSUME NEW k \in 0 .. n PROVE Replayed(h, k) = w[k]
  <2>1. IsReplay(w, h, n)
    BY <1>2 DEF IsReplay
  <2> QED
    BY <1>1, <2>1, ReplayedFact
<1>4. ASSUME NEW i \in DOMAIN c.txs
      PROVE  TxProcessed(Replayed(h, i - 1), c.txs[i])
  <2>1. i - 1 \in 0 .. n /\ i \in 1 .. n
    BY SMT, <1>1
  <2> QED
    BY <1>2, <1>3, <2>1
<1>5. Replayed(h, n) = c.state
  <2>1. n \in 0 .. n
    BY SMT, <1>1
  <2> QED
    BY <1>2, <1>3, <2>1
<1> QED
  BY <1>4, <1>5 DEF ProcessBlockAccepts, Good

\* The contents of the known blocks are left alone.
Keeps == \A h \in Known(chain) : contents'[h] = contents[h]

\* A content stays good: it depends on the parent and the uncles of its block.
LEMMA GoodKept ==
  ASSUME Keeps, NEW b, Deps(b) \subseteq Known(chain), NEW c, Good(b, c)
  PROVE  Good(b, c)'
<1>1. StateOf(b.parent)' = StateOf(b.parent)
  BY DEF Keeps, Deps, StateOf
<1>2. UncleMiners(b.uncles)' = UncleMiners(b.uncles)
  <2>1. \A i \in DOMAIN b.uncles : contents'[b.uncles[i]].miner = contents[b.uncles[i]].miner
    BY DEF Keeps, Deps
  <2> QED
    BY <2>1 DEF UncleMiners
<1>3. PICK start, ums : start = StateOf(b.parent) /\ ums = UncleMiners(b.uncles)
  OBVIOUS
<1>4. StateOf(b.parent)' = start /\ UncleMiners(b.uncles)' = ums
  BY <1>1, <1>2, <1>3
<1>5. c.txs \in Seq(TestTx) /\ ProcessAccepts(c.ops, c.miner, ums) /\ Replays(start, c)
  BY <1>3 DEF Good
<1> QED
  BY <1>4, <1>5 DEF Good

\* NewMiningRewardTx makes the operations that process wants to see.
LEMMA RewardFact ==
  ASSUME NEW m, NEW ums, IsQueue(ums)
  PROVE  ProcessAccepts(RewardOps(m, ums), m, ums)
<1> DEFINE one == [to |-> m, award |-> MinerAward]
           Pay(a) == [to |-> a, award |-> UncleAward]
           rest == [i \in DOMAIN ums |-> Pay(ums[i])]
           ops == <<one>> \o rest
<1>1. RewardOps(m, ums) = ops
  BY DEF RewardOps
<1>2. PICK n \in Nat : Len(ums) = n /\ DOMAIN ums = 1 .. n
  BY SMT DEF IsQueue
<1> HIDE DEF one, Pay
<1>3. PICK S : S = {one} \cup {Pay(ums[i]) : i \in 1 .. n}
  OBVIOUS
<1>4. rest \in [1 .. n -> S] /\ \A i \in 1 .. n : rest[i] = Pay(ums[i])
  BY <1>2, <1>3
<1> HIDE DEF rest
<1>5. rest \in Seq(S) /\ Len(rest) = n /\ one \in S
  BY SMTT(30), <1>3, <1>4
<1>6. /\ Len(ops) = 1 + n /\ ops[1] = one
      /\ \A i \in 1 .. n : ops[i + 1] = rest[i]
  BY SMT, <1>5
<1> HIDE DEF ops
<1> QED
  BY <1>1, <1>2, <1>4, <1>6 DEF ProcessAccepts, one, Pay

\* The chain grows, or stays as it is.
LedgerStep == IsChain(chain') /\ Within(chain, chain') /\ Keeps

\* Candidates stay what they are.
LEMMA CandidateKept ==
  ASSUME IsChain(chain), LedgerStep, NEW k, CandidateOK(k)
  PROVE  CandidateOK(k)'
<1>1. PICK b, c : b = k.block /\ c = k.content
  OBVIOUS
<1>2. /\ k = [block |-> b, content |-> c] /\ IsContent(c)
      /\ b \in BlockSpec /\ Valid(chain, b) /\ Good(b, c)
  BY <1>1 DEF CandidateOK
<1>3. Good(b, c)'
  BY <1>2, DepsKnown, GoodKept DEF LedgerStep
<1>4. PICK d : d = chain'
  OBVIOUS
<1>5. Grown(chain) /\ Within(chain, d) /\ NoHash \notin Known(d)
  BY <1>4, GenesisFact DEF IsChain, LedgerStep
<1>6. Valid(d, b)
  BY <1>2, <1>5, ValidGrows
<1>7. Valid(chain, b)'
  BY <1>4, <1>6 DEF Valid, Known
<1> QED
  BY <1>1, <1>2, <1>3, <1>7 DEF CandidateOK, IsContent, BlockSpec

\* A block and what it carries.
BlockOK(h) == contents[h].txs # <<>> /\ Good(chain.block[h], contents[h])

LEMMA BlockKept ==
  ASSUME IsChain(chain), LedgerStep, NEW h \in Known(chain) \ {Genesis}, BlockOK(h)
  PROVE  BlockOK(h)'
<1>1. PICK b, c : b = chain.block[h] /\ c = contents[h]
  OBVIOUS
<1>2. b = chain'.block[h] /\ c = contents'[h]
  BY <1>1 DEF LedgerStep, Within, Keeps
<1>3. Valid(chain, b)
  BY <1>1 DEF IsChain, Grown
<1>4. Good(b, c) /\ c.txs # <<>>
  BY <1>1 DEF BlockOK
<1>5. Good(b, c)'
  BY <1>3, <1>4, DepsKnown, GoodKept DEF LedgerStep
<1> QED
  BY <1>2, <1>4, <1>5 DEF BlockOK, Good, UncleMiners, StateOf

\* The invariant after a step that adds at most one good block and makes at most
\* one new candidate.
LEMMA LedgerKept ==
  ASSUME TrusteeInv, LedgerStep, Fcn(contents, Hash)', NEW m \in Miner, NEW k,
         candidate' = [candidate EXCEPT ![m] = k], k # NoBlock => CandidateOK(k)',
         \A h \in Known(chain') \ Known(chain) : BlockOK(h)'
  PROVE  TrusteeInv'
<1>1. /\ IsChain(chain) /\ Fcn(candidate, Miner)
      /\ \A h \in Known(chain) \ {Genesis} : BlockOK(h)
      /\ \A n \in Miner : candidate[n] # NoBlock => CandidateOK(candidate[n])
  BY DEF TrusteeInv, BlockOK
<1>2. /\ Fcn(candidate', Miner) /\ candidate'[m] = k
      /\ \A n \in Miner \ {m} : candidate'[n] = candidate[n]
  BY <1>1 DEF Fcn
<1>3. ASSUME NEW n \in Miner, candidate'[n] # NoBlock PROVE CandidateOK(candidate[n])'
  <2>1. PICK j : j = candidate'[n]
    OBVIOUS
  <2>2. CandidateOK(j)'
    <3>1. CASE n = m
      BY <1>2, <1>3, <2>1, <3>1
    <3>2. CASE n # m
      <4>1. j = candidate[n] /\ CandidateOK(j)
        BY <1>1, <1>2, <1>3, <2>1, <3>2
      <4> QED
        BY <1>1, <4>1, CandidateKept
    <3> QED
      BY <3>1, <3>2
  <2> QED
    BY <2>1, <2>2 DEF CandidateOK, IsContent, BlockSpec, Valid, Good
<1>4. ASSUME NEW h \in Known(chain') \ {Genesis} PROVE BlockOK(h)'
  BY <1>1, BlockKept
<1> QED
  BY <1>2, <1>3, <1>4 DEF TrusteeInv, LedgerStep, BlockOK, Fcn

\* NewCandidateBlock and NewMiningRewardTx.
LEMMA NewCandidateStep ==
  ASSUME TrusteeInv, NEW m \in Miner, NewCandidate(m)
  PROVE  TrusteeInv'
<1>1. PICK us, ums, ops : us = CandidateUncles(chain) /\ ums = UncleMiners(us)
                          /\ ops = RewardOps(m, ums)
  OBVIOUS
<1>2. PICK b : b = [parent |-> chain.tip, depth |-> chain.block[chain.tip].depth + 1,
                    weight |-> chain.block[chain.tip].weight + 1 + Len(us), uncles |-> us, txs |-> {}]
  OBVIOUS
<1>3. PICK c : c = [miner |-> m, ops |-> ops, txs |-> <<>>,
                    state |-> IF ProcessAccepts(ops, m, ums) THEN Process(StateOf(chain.tip), ops)
                              ELSE StateOf(chain.tip)]
  OBVIOUS
<1>4. PICK k : k = [block |-> b, content |-> c]
  OBVIOUS
<1>5. candidate' = [candidate EXCEPT ![m] = k] /\ chain' = chain /\ contents' = contents
  BY <1>1, <1>2, <1>3, <1>4 DEF NewCandidate
<1>6. b \in BlockSpec /\ Valid(chain, b) /\ us \in Seq(Known(chain))
  BY <1>1, <1>2, CandidateValid, UnclesKnown DEF TrusteeInv
<1>7. IsQueue(ums)
  <2>1. Len(us) \in Nat /\ DOMAIN us = 1 .. Len(us)
    BY SMT, <1>6
  <2>2. PICK S : S = {contents[us[i]].miner : i \in 1 .. Len(us)}
    OBVIOUS
  <2>3. ums \in [1 .. Len(us) -> S]
    BY <1>1, <2>1, <2>2 DEF UncleMiners
  <2>4. ums \in Seq(S)
    BY SMTT(30), <2>1, <2>3
  <2> QED
    BY <2>4 DEF IsQueue
<1>8. ProcessAccepts(ops, m, ums)
  BY <1>1, <1>7, RewardFact
<1>9. /\ c.miner = m /\ c.ops = ops /\ c.txs = <<>> /\ c.state = Process(StateOf(chain.tip), ops)
      /\ IsContent(c) /\ b.parent = chain.tip /\ b.uncles = us /\ k.block = b /\ k.content = c
  BY <1>2, <1>3, <1>4, <1>8 DEF IsContent
<1>10. Good(b, c)
  <2>1. PICK w : w = [i \in {0} |-> Process(StateOf(chain.tip), ops)]
    OBVIOUS
  <2>2. w[0] = c.state /\ Len(c.txs) = 0 /\ c.txs \in Seq(TestTx)
    BY SMTT(30), <1>9, <2>1
  <2>3. Follows(w, StateOf(b.parent), c.ops, c.txs)
    BY SMTT(30), <1>9, <2>2 DEF Follows
  <2>4. Replays(StateOf(b.parent), c)
    BY <2>2, <2>3 DEF Replays
  <2> QED
    BY <1>1, <1>8, <1>9, <2>2, <2>4 DEF Good
<1>11. CandidateOK(k)
  BY <1>4, <1>6, <1>9, <1>10 DEF CandidateOK
<1>12. LedgerStep
  BY <1>5 DEF LedgerStep, Keeps, Within, TrusteeInv
<1>13. CandidateOK(k)'
  BY <1>11, <1>12, CandidateKept DEF TrusteeInv
<1>14. Fcn(contents, Hash)' /\ \A h \in Known(chain') \ Known(chain) : BlockOK(h)'
  BY <1>5 DEF TrusteeInv, Fcn
<1> QED
  BY <1>5, <1>12, <1>13, <1>14, LedgerKept

\* A transfer that is not refused is replayed after those before it.
LEMMA ReplaysTransfer ==
  ASSUME NEW start, NEW c, c.txs \in Seq(TestTx), Replays(start, c), NEW tx \in TestTx,
         TxProcessed(c.state, tx),
         NEW d, d.ops = c.ops, d.txs = Append(c.txs, tx), d.state = Applied(c.state, tx)
  PROVE  d.txs \in Seq(TestTx) /\ Replays(start, d)
<1>1. PICK n \in Nat : Len(c.txs) = n
  BY SMT
<1>2. PICK w : /\ w[0] = Process(start, c.ops) /\ w[n] = c.state
               /\ \A i \in 1 .. n : /\ w[i] = Applied(w[i - 1], c.txs[i])
                                    /\ TxProcessed(w[i - 1], c.txs[i])
  BY <1>1 DEF Replays, Follows
<1>3. /\ d.txs \in Seq(TestTx) /\ Len(d.txs) = n + 1 /\ d.txs[n + 1] = tx
      /\ \A i \in 1 .. n : d.txs[i] = c.txs[i]
  BY SMT, <1>1
<1>4. PICK v : v = [i \in 0 .. n + 1 |-> IF i = n + 1 THEN d.state ELSE w[i]]
  OBVIOUS
<1>5. /\ \A i \in 0 .. n : v[i] = w[i]
      /\ v[n + 1] = d.state
  BY SMTT(30), <1>4
<1>6. v[0] = w[0] /\ v[n] = w[n] /\ (n + 1) - 1 = n
  BY SMT, <1>5
<1>7. ASSUME NEW i \in 1 .. n + 1
      PROVE  /\ v[i] = Applied(v[i - 1], d.txs[i])
             /\ TxProcessed(v[i - 1], d.txs[i])
  <2>1. CASE i = n + 1
    BY <1>2, <1>3, <1>5, <1>6, <2>1
  <2>2. CASE i # n + 1
    <3>1. i \in 1 .. n /\ i \in 0 .. n /\ i - 1 \in 0 .. n
      BY SMT, <2>2
    <3> QED
      BY <1>2, <1>3, <1>5, <3>1
  <2> QED
    BY <2>1, <2>2
<1>8. Follows(v, start, d.ops, d.txs)
  BY <1>2, <1>3, <1>6, <1>7 DEF Follows
<1>9. Replays(start, d)
  BY <1>3, <1>5, <1>8 DEF Replays
<1> QED
  BY <1>3, <1>9

\* processTx on a candidate.
LEMMA ProcessTxStep ==
  ASSUME TrusteeInv, NEW m \in Miner, NEW tx \in TestTx, ProcessTx(m, tx)
  PROVE  TrusteeInv'
<1>1. PICK k, b, c : k = candidate[m] /\ b = k.block /\ c = k.content
  OBVIOUS
<1>2. /\ k = [block |-> b, content |-> c] /\ b \in BlockSpec /\ Valid(chain, b) /\ Good(b, c)
      /\ c = [miner |-> c.miner, ops |-> c.ops, txs |-> c.txs, state |-> c.state]
      /\ TxProcessed(c.state, tx) /\ Fcn(candidate, Miner)
  BY <1>1 DEF TrusteeInv, ProcessTx, CandidateOK, IsContent
<1>3. PICK d : d = [miner |-> c.miner, ops |-> c.ops, txs |-> Append(c.txs, tx),
                    state |-> Applied(c.state, tx)]
  OBVIOUS
<1>4. PICK j : j = [block |-> b, content |-> d]
  OBVIOUS
<1>5. candidate' = [candidate EXCEPT ![m] = j] /\ chain' = chain /\ contents' = contents
  <2>1. PICK x : x = [candidate EXCEPT ![m].content.state = Applied(@, tx)]
    OBVIOUS
  <2>2. /\ candidate' = [x EXCEPT ![m].content.txs = Append(@, tx)]
        /\ chain' = chain /\ contents' = contents
    BY <2>1 DEF ProcessTx
  <2>3. PICK e : e = [miner |-> c.miner, ops |-> c.ops, txs |-> c.txs, state |-> Applied(c.state, tx)]
    OBVIOUS
  <2>4. /\ [k EXCEPT !.content.state = Applied(@, tx)] = [block |-> b, content |-> e]
    BY SMTT(30), <1>2, <2>3
  <2>5. x = [candidate EXCEPT ![m] = [block |-> b, content |-> e]]
    BY <1>1, <1>2, <2>1, <2>4 DEF Fcn
  <2>6. x[m] = [block |-> b, content |-> e] /\ Fcn(x, Miner) /\ \A n \in Miner \ {m} : x[n] = candidate[n]
    BY SMT, <1>2, <2>5 DEF Fcn
  <2>7. [[block |-> b, content |-> e] EXCEPT !.content.txs = Append(@, tx)] = j
    <3>1. PICK l, z : l = Append(c.txs, tx) /\ z = Applied(c.state, tx)
      OBVIOUS
    <3>2. /\ e = [miner |-> c.miner, ops |-> c.ops, txs |-> c.txs, state |-> z]
          /\ d = [miner |-> c.miner, ops |-> c.ops, txs |-> l, state |-> z]
      BY <1>3, <2>3, <3>1
    <3>3. [e EXCEPT !.txs = l] = d
      BY ONLY <3>2
    <3>4. Append(e.txs, tx) = l
      BY <3>1, <3>2
    <3>5. [[block |-> b, content |-> e] EXCEPT !.content.txs = l] = j
      BY ONLY SMTT(30), <1>4, <3>3
    <3> QED
      BY SMT, <3>4, <3>5
  <2>8. candidate' = [x EXCEPT ![m] = j]
    BY <2>2, <2>6, <2>7 DEF Fcn
  <2>9. candidate' = [candidate EXCEPT ![m] = j]
    BY <1>2, <2>5, <2>8 DEF Fcn
  <2> QED
    BY <2>2, <2>9
<1>6. /\ d.miner = c.miner /\ d.ops = c.ops /\ d.txs = Append(c.txs, tx)
      /\ d.state = Applied(c.state, tx) /\ IsContent(d) /\ j.block = b /\ j.content = d
  BY <1>3, <1>4 DEF IsContent
<1>7. Good(b, d)
  <2>1. PICK start : start = StateOf(b.parent)
    OBVIOUS
  <2>2. c.txs \in Seq(TestTx) /\ Replays(start, c)
    BY <1>2, <2>1 DEF Good
  <2>3. d.txs \in Seq(TestTx) /\ Replays(start, d)
    BY <1>2, <1>6, <2>2, ReplaysTransfer
  <2> QED
    BY <1>2, <1>6, <2>1, <2>3 DEF Good
<1>8. CandidateOK(j)
  BY <1>2, <1>4, <1>6, <1>7 DEF CandidateOK
<1>9. LedgerStep
  BY <1>5 DEF LedgerStep, Keeps, Within, TrusteeInv
<1>10. CandidateOK(j)'
  BY <1>8, <1>9, CandidateKept DEF TrusteeInv
<1>11. Fcn(contents, Hash)' /\ \A h \in Known(chain') \ Known(chain) : BlockOK(h)'
  BY <1>5 DEF TrusteeInv, Fcn
<1> QED
  BY <1>5, <1>9, <1>10, <1>11, LedgerKept

\* mineCandidateBlock.
LEMMA MineCandidateStep ==
  ASSUME TrusteeInv, NEW m \in Miner, MineCandidate(m)
  PROVE  TrusteeInv'
<1>1. PICK k, b, c, f : k = candidate[m] /\ b = k.block /\ c = k.content /\ f = Fresh
  OBVIOUS
<1>2. /\ b \in BlockSpec /\ Valid(chain, b) /\ Good(b, c) /\ c.txs # <<>>
      /\ Fcn(contents, Hash) /\ IsChain(chain)
  BY <1>1 DEF TrusteeInv, MineCandidate, CandidateOK
<1>3. /\ f \in Hash \ Known(chain) /\ chain' = Added(chain, f, b)
      /\ contents' = [contents EXCEPT ![f] = c] /\ candidate' = [candidate EXCEPT ![m] = NoBlock]
  BY <1>1 DEF MineCandidate, Fresh, Unused
<1>4. /\ IsChain(chain') /\ Within(chain, chain') /\ Known(chain') = Known(chain) \cup {f}
      /\ chain'.block[f] = b
  BY SMTT(30), <1>2, <1>3, AddedChain
<1>5. /\ Fcn(contents', Hash) /\ contents'[f] = c
      /\ \A h \in Hash \ {f} : contents'[h] = contents[h]
  BY <1>2, <1>3 DEF Fcn
<1>6. LedgerStep
  <2>1. Keeps
    BY <1>3, <1>5 DEF Keeps, Known
  <2> QED
    BY <1>4, <2>1 DEF LedgerStep
<1>7. Good(b, c)'
  BY <1>2, <1>6, DepsKnown, GoodKept DEF LedgerStep
<1>8. BlockOK(f)'
  BY <1>2, <1>4, <1>5, <1>7 DEF BlockOK, Good, UncleMiners, StateOf
<1>9. \A h \in Known(chain') \ Known(chain) : BlockOK(h)'
  BY <1>4, <1>8
<1>10. Fcn(contents, Hash)'
  BY <1>5 DEF Fcn
<1>11. PICK none : none = NoBlock
  OBVIOUS
<1> QED
  BY <1>3, <1>6, <1>9, <1>10, <1>11, LedgerKept

\* What holds of rewards and transactions at every moment: each block of the chain
\* and each candidate carries the operations its peers expect, and the ledgers
\* after each of its transactions lead from its parent's STATE to its own.
THEOREM TrusteeInvariant == TrusteeSpec => [](TrusteeInv /\ bounds \in Bounds)
<1>1. TrusteeInit => TrusteeInv /\ bounds \in Bounds
  <2>1. SUFFICES ASSUME TrusteeInit PROVE TrusteeInv /\ bounds \in Bounds
    OBVIOUS
  <2>2. IsChain(chain) /\ Known(chain) = {Genesis}
    BY <2>1, NewChainFact DEF TrusteeInit
  <2>3. /\ Fcn(contents, Hash) /\ Fcn(candidate, Miner)
        /\ \A m \in Miner : candidate[m] = NoBlock
    BY <2>1 DEF TrusteeInit, Fcn
  <2> QED
    BY <2>1, <2>2, <2>3 DEF TrusteeInv, TrusteeInit
<1>2. ASSUME TrusteeInv, bounds \in Bounds, TrusteeNext PROVE TrusteeInv' /\ bounds' = bounds
  <2>1. PICK m \in Miner : \/ NewCandidate(m) \/ \E tx \in bounds.txs : ProcessTx(m, tx)
                           \/ MineCandidate(m)
    BY <1>2 DEF TrusteeNext
  <2>2. bounds' = bounds
    BY <2>1 DEF NewCandidate, ProcessTx, MineCandidate
  <2>3. bounds.txs \subseteq TestTx
    BY <1>2, BoundsAssumption
  <2> QED
    BY <1>2, <2>1, <2>2, <2>3, NewCandidateStep, ProcessTxStep, MineCandidateStep
<1>3. ASSUME TrusteeInv, UNCHANGED trusteeVars PROVE TrusteeInv' /\ bounds' = bounds
  BY <1>3 DEF trusteeVars, TrusteeInv, CandidateOK, Good, UncleMiners, StateOf
<1>4. TrusteeInv /\ bounds \in Bounds /\ [TrusteeNext]_trusteeVars
        => (TrusteeInv /\ bounds \in Bounds)'
  BY <1>2, <1>3
<1> QED
  BY <1>1, <1>4, PTL DEF TrusteeSpec

\* NewMiningRewardTx, processTx and mineCandidateBlock against processBlock and
\* AcceptNetworkBlock: every block that is mined is accepted by a peer that has
\* its parent and uncles, whatever was mined between the start of the candidate
\* and its end, for any number of miners and transactions, of any amounts.
THEOREM MinedBlocksAreAccepted == TrusteeSpec => []PeersAcceptMined
<1>1. TrusteeInv => PeersAcceptMined
  BY GoodAccepted DEF TrusteeInv, PeersAcceptMined
<1> QED
  BY <1>1, TrusteeInvariant, PTL
=============================================================================
