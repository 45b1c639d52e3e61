---------------------------- MODULE CounterProofs ----------------------------
(***************************************************************************)
(* Proofs about the counter protocol, for any nodes, connections, blocks   *)
(* and bounds: a counter is what the transactions on the line to the block *)
(* make of it, nodes that have handled all messages agree on the tip, and  *)
(* syncNode never looks at a nil block, nor waits for no answer.           *)
(***************************************************************************)
EXTENDS Counter, BlockTreeProofs

\* Most leaves are for Zenon; a leaf that needs another prover names it.
USE Zenon

-----------------------------------------------------------------------------
(* Replay *)

\* upTo has the value of the counter after each generation of the line to h.
IsReplay(upTo, block, h) ==
  /\ upTo[0] = 0
  /\ \A d \in 1 .. block[h].depth :
       upTo[d] = Apply(upTo[d - 1], Op[Up(DOMAIN block, block, h, block[h].depth - d)])

\* The replay of the line to a block is well defined.
LEMMA ReplayWalk ==
  ASSUME NEW block, NEW h, block[h].depth \in Nat
  PROVE  \E upTo : Replay(block, h) = upTo[block[h].depth] /\ IsReplay(upTo, block, h)
<1> DEFINE n == block[h].depth
           Do(v, d) == Apply(v, Op[Up(DOMAIN block, block, h, n - d)])
           IsUpTo(f, m) == f = [d \in 0 .. m |-> IF d = 0 THEN 0 ELSE Do(f[d - 1], d)]
           NoUpTo == {m \in Nat : ~ \E f : IsUpTo(f, m)}
<1>1. Replay(block, h) = (CHOOSE f : IsUpTo(f, n))[n]
  BY DEF Replay
<1>2. n \in Nat
  OBVIOUS
<1> HIDE DEF Do, n
<1>3. IsUpTo([d \in 0 .. 0 |-> 0], 0)
  BY SMT
<1>4. ASSUME NEW m \in Nat, NEW f, IsUpTo(f, m) PROVE \E g : IsUpTo(g, m + 1)
  <2> DEFINE e == [d \in 0 .. m + 1 |-> IF d = m + 1 THEN Do(f[m], m + 1) ELSE f[d]]
  <2>1. e = [d \in 0 .. m + 1 |-> IF d = 0 THEN 0 ELSE Do(e[d - 1], d)]
    BY SMT, <1>4
  <2> QED
    BY <2>1
<1>5. NoUpTo = {}
  <2> HIDE DEF IsUpTo
  <2> SUFFICES ASSUME NoUpTo # {} PROVE FALSE
    OBVIOUS
  <2>1. PICK k \in NoUpTo : \A j \in NoUpTo : k <= j
    BY LeastNumberPrinciple
  <2>2. k # 0
    BY <1>3
  <2>3. k - 1 \in Nat /\ k - 1 \notin NoUpTo
    BY SMT, <2>1, <2>2
  <2> QED
    BY SMT, <1>4, <2>3
<1> DEFINE upTo == CHOOSE f : IsUpTo(f, n)
<1>6. IsUpTo(upTo, n)
  <2>1. \E f : IsUpTo(f, n)
    BY <1>2, <1>5
  <2> HIDE DEF IsUpTo
  <2> QED
    BY <2>1
<1>7. upTo[0] = 0 /\ \A d \in 1 .. n : upTo[d] = Do(upTo[d - 1], d)
  <2>1. upTo = [d \in 0 .. n |-> IF d = 0 THEN 0 ELSE Do(upTo[d - 1], d)]
    BY <1>6
  <2> HIDE DEF upTo
  <2> QED
    BY SMT, <1>2, <2>1
<1> HIDE DEF upTo, IsUpTo
<1>8. IsReplay(upTo, block, h)
  BY <1>7 DEF IsReplay, Do, n
<1>9. Replay(block, h) = upTo[n]
  BY <1>1 DEF upTo
<1> QED
  BY <1>8, <1>9 DEF n

\* f has the values the operations make one after the other.
Follows(f, ops, n) == \A d \in 1 .. n : f[d] = Apply(f[d - 1], ops[d])

\* Two replays of the same operations end in the same value.
LEMMA ReplaysAgree ==
  ASSUME NEW n \in Nat, NEW ops, NEW f, NEW g, f[0] = g[0], Follows(f, ops, n), Follows(g, ops, n)
  PROVE  f[n] = g[n]
<1> DEFINE Bad == {d \in Nat : d <= n /\ f[d] # g[d]}
<1>1. Bad = {}
  <2> SUFFICES ASSUME Bad # {} PROVE FALSE
    OBVIOUS
  <2>1. PICK d \in Bad : \A j \in Bad : d <= j
    BY LeastNumberPrinciple
  <2>2. d # 0
    OBVIOUS
  <2>3. d - 1 \in Nat /\ d - 1 \notin Bad /\ d \in 1 .. n
    BY SMT, <2>1, <2>2
  <2>4. f[d - 1] = g[d - 1]
    BY SMT, <2>3
  <2>5. f[d] = Apply(f[d - 1], ops[d]) /\ g[d] = Apply(g[d - 1], ops[d])
    BY <2>3 DEF Follows
  <2> QED
    BY <2>1, <2>4, <2>5
<1> QED
  BY SMT, <1>1

\* The line to a block is the same for all who know the block.
LEMMA ReplaySame ==
  ASSUME NEW c, NEW d, Grown(c), Grown(d), Within(c, d), NEW h \in Known(c)
  PROVE  Replay(d.block, h) = Replay(c.block, h)
<1> DEFINE n == c.block[h].depth
           ops == [i \in 1 .. n |-> Op[Up(Known(c), c.block, h, n - i)]]
<1>1. /\ n \in Nat /\ d.block[h].depth = n
      /\ DOMAIN c.block = Hash /\ DOMAIN d.block = Hash
  <2>1. c.block[h] \in BlockSpec /\ d.block[h] = c.block[h]
    BY GenesisFact DEF Within
  <2> QED
    BY <2>1 DEF BlockSpec, Grown
<1>2. /\ IsTree(Known(c), c.block) /\ NoHash \notin Hash /\ Known(c) \subseteq Hash
      /\ \A g \in Known(c) : d.block[g] = c.block[g]
  BY GrownTree, TreeAssumption DEF Known, Within
<1>3. ASSUME NEW i \in 1 .. n
      PROVE  /\ Up(Hash, c.block, h, n - i) = Up(Known(c), c.block, h, n - i)
             /\ Up(Hash, d.block, h, n - i) = Up(Known(c), c.block, h, n - i)
  <2>1. n - i \in Nat
    BY SMT, <1>1
  <2>2. \A g \in Known(c) : c.block[g] = c.block[g]
    OBVIOUS
  <2> HIDE DEF n
  <2>3. Up(Hash, c.block, h, n - i) = Up(Known(c), c.block, h, n - i)
    BY SMT, <1>2, <2>1, <2>2, UpGrows
  <2>4. Up(Hash, d.block, h, n - i) = Up(Known(c), c.block, h, n - i)
    BY SMT, <1>2, <2>1, UpGrows
  <2> QED
    BY <2>3, <2>4
<1>4. PICK f : Replay(c.block, h) = f[n] /\ IsReplay(f, c.block, h)
  BY <1>1, ReplayWalk
<1>5. PICK g : Replay(d.block, h) = g[n] /\ IsReplay(g, d.block, h)
  BY <1>1, ReplayWalk
<1>6. ASSUME NEW i \in 1 .. n
      PROVE  f[i] = Apply(f[i - 1], ops[i]) /\ g[i] = Apply(g[i - 1], ops[i])
  <2>1. ops[i] = Op[Up(Known(c), c.block, h, n - i)]
    OBVIOUS
  <2>2. /\ f[i] = Apply(f[i - 1], Op[Up(Hash, c.block, h, n - i)])
        /\ g[i] = Apply(g[i - 1], Op[Up(Hash, d.block, h, n - i)])
    BY <1>1, <1>4, <1>5 DEF IsReplay
  <2> HIDE DEF n, ops
  <2> QED
    BY <1>3, <2>1, <2>2
<1>7. f[0] = g[0]
  BY <1>4, <1>5 DEF IsReplay
<1> HIDE DEF n, ops
<1>8. f[n] = g[n]
  <2>1. Follows(f, ops, n) /\ Follows(g, ops, n)
    BY <1>6 DEF Follows
  <2> QED
    BY ZenonT(60), <1>1, <1>7, <2>1, ReplaysAgree
<1> QED
  BY <1>4, <1>5, <1>8

\* The value at a block is its transaction's on the value at its parent.
LEMMA ReplayStep ==
  ASSUME NEW c, Grown(c), NEW h \in Known(c), h # Genesis
  PROVE  Replay(c.block, h) = Apply(Replay(c.block, c.block[h].parent), Op[h])
<1> DEFINE p == c.block[h].parent
           n == c.block[p].depth
           U(g, k) == Up(Hash, c.block, g, k)
           ops == [i \in 1 .. n |-> Op[U(p, n - i)]]
<1>1. /\ p \in Known(c) /\ n \in Nat /\ c.block[h].depth = n + 1
      /\ DOMAIN c.block = Hash /\ NoHash \notin Hash
      /\ Known(c) \subseteq Hash
  <2>1. IsTree(Known(c), c.block)
    BY GrownTree
  <2> QED
    BY <2>1, TreeAssumption DEF IsTree, Grown
<1>2. U(h, 0) = h
  BY <1>1, UpStep
<1>3. U(h, 0 + 1) = p
  <2>1. 0 \in Nat
    OBVIOUS
  <2>2. U(h, 0 + 1) = IF h \in Hash /\ c.block[h].parent \in Hash THEN c.block[h].parent ELSE NoHash
    BY <1>1, <1>2, <2>1, UpNext
  <2> QED
    BY <1>1, <2>2
<1>4. ASSUME NEW k \in Nat PROVE U(h, 1 + k) = U(p, k)
  <2>1. 0 + 1 = 1 /\ 1 \in Nat
    BY SMT
  <2>2. Up(Hash, c.block, Up(Hash, c.block, h, 1), k) = Up(Hash, c.block, h, 1 + k)
    BY SMT, <1>1, <2>1, UpCompose
  <2> QED
    BY <1>3, <2>1, <2>2
<1>5. PICK f : Replay(c.block, h) = f[n + 1] /\ IsReplay(f, c.block, h)
  <2>1. c.block[h].depth \in Nat
    BY SMT, <1>1
  <2> QED
    BY <1>1, <2>1, ReplayWalk
<1>6. PICK g : Replay(c.block, p) = g[n] /\ IsReplay(g, c.block, p)
  BY <1>1, ReplayWalk
<1>7. ASSUME NEW i \in 1 .. n
      PROVE  f[i] = Apply(f[i - 1], ops[i]) /\ g[i] = Apply(g[i - 1], ops[i])
  <2>1. n - i \in Nat /\ (n + 1) - i = 1 + (n - i) /\ i \in 1 .. n + 1
    BY SMT, <1>1
  <2>2. f[i] = Apply(f[i - 1], Op[U(h, (n + 1) - i)])
    BY <1>1, <1>5, <2>1 DEF IsReplay
  <2>3. U(h, (n + 1) - i) = U(p, n - i)
    BY <1>4, <2>1
  <2>4. g[i] = Apply(g[i - 1], Op[U(p, n - i)])
    BY <1>1, <1>6 DEF IsReplay
  <2> QED
    BY <2>2, <2>3, <2>4
<1>8. f[0] = g[0]
  BY <1>5, <1>6 DEF IsReplay
<1>9. f[n + 1] = Apply(f[n], Op[h])
  <2>1. n + 1 \in 1 .. n + 1 /\ (n + 1) - 1 = n /\ (n + 1) - (n + 1) = 0
    BY SMT, <1>1
  <2>2. f[n + 1] = Apply(f[(n + 1) - 1], Op[U(h, (n + 1) - (n + 1))])
    BY <1>1, <1>5, <2>1 DEF IsReplay
  <2> QED
    BY <1>2, <2>1, <2>2
<1> HIDE DEF n, ops, p
<1>10. f[n] = g[n]
  <2>1. Follows(f, ops, n) /\ Follows(g, ops, n)
    BY <1>7 DEF Follows
  <2> QED
    BY <1>1, <1>8, <2>1, ReplaysAgree
<1> QED
  BY <1>5, <1>6, <1>9, <1>10 DEF p

-----------------------------------------------------------------------------
(* The inductive invariant *)

\* All blocks mined, as one table.
All == [block |-> made]

Fcn(f, S) == f = [x \in S |-> f[x]]

Places == {"best", "weight", "numeric", "send", "read", "listen"}

TypeInv ==
  /\ Fcn(chain, Node) /\ Fcn(candidate, Node)
  /\ Fcn(value, Node) /\ \A n \in Node : Fcn(value[n], Hash)
  /\ run \in [Ends -> Places]
  /\ Fcn(myBest, Ends) /\ Fcn(status, Ends) /\ Fcn(sync, Ends) /\ Fcn(best, Ends)
  /\ Fcn(batch, Ends) /\ Fcn(pending, Ends) /\ Fcn(sent, Ends)

\* Every node has a part of the blocks mined, and what it works on is valid.
ChainInv ==
  /\ Grown(All)
  /\ \A n \in Node : IsChain(chain[n]) /\ Within(chain[n], All)
  /\ \A n \in Node : candidate[n] # NoBlock =>
       candidate[n] \in BlockSpec /\ Valid(chain[n], candidate[n])

\* The counters are those of the lines of blocks.
ValueInv == \A n \in Node : \A h \in Known(chain[n]) : value[n][h] = Replay(made, h)

\* A node sends the hashes of blocks it knows, and asks for those its peer knows.
MsgOK(e, m) ==
  /\ m.type = "NewBlock" => m.hash \in Known(chain[e[1]])
  /\ m.type \in {"GetBlockHashesResponse", "GetBlocksResponse"} =>
       IsQueue(m.hashes) /\ Elems(m.hashes) \subseteq Known(chain[e[1]])
  /\ m.type = "GetBlocksRequest" =>
       IsQueue(m.hashes) /\ Elems(m.hashes) \subseteq Known(chain[e[2]])

\* What listen works on, the peer knows; what it is to forward, the node too.
MsgEnd(e) ==
  /\ IsQueue(sent[e]) /\ \A m \in Elems(sent[e]) : MsgOK(e, m)
  /\ IsQueue(batch[e]) /\ Elems(batch[e]) \subseteq Known(chain[e[2]])
  /\ pending[e] # NoHash => pending[e] \in Known(chain[e[1]]) \cap Known(chain[e[2]])
MsgInv == \A e \in Ends : MsgEnd(e)

\* The handshake is the first message of an end, and the peer reads it first.
HelloEnd(e) ==
  /\ run[e] \notin {"read", "listen"} => sent[e] = <<>> /\ run[Other(e)] # "listen"
  /\ run[e] \in {"read", "listen"} /\ run[Other(e)] # "listen" =>
       /\ sent[e] # <<>> /\ Head(sent[e]).type = "Handshake"
       /\ e \notin garbled => Head(sent[e]).status = Announced(All, myBest[e])
  /\ run[Other(e)] = "listen" /\ e \notin garbled => status[Other(e)] = Announced(All, myBest[e])
  /\ run[e] # "best" => myBest[e] \in Known(chain[e[1]])
  /\ run[e] # "listen" => sync[e] = "none" /\ batch[e] = <<>> /\ pending[e] = NoHash
HelloInv == \A e \in Ends : HelloEnd(e)

\* A node is shutting down when its database is closed, and all its connections
\* are broken then.
StageInv ==
  /\ closed \subseteq isInShutdown /\ isInShutdown \subseteq stopped
  /\ \A l \in Links : l \cap stopped # {} => l \in down

\* A sync that has ended has met the announcement of the peer.
SyncEnd(e) ==
  /\ sync[e] # "none" => \/ best[e] \in Known(chain[e[1]])
                         \/ best[e] = NoHash /\ e[1] \in closed
  /\ sync[e] = "done" /\ Connected(e) /\ Other(e) \notin garbled =>
       ~Better(made, myBest[Other(e)], chain[e[1]].tip)
  /\ sync[e] = "failed" => ~Connected(e)
SyncInv == \A e \in Ends : SyncEnd(e)

NewBlockMsg(h) == [type |-> "NewBlock", hash |-> h]

\* A block that the node of e has is no better than its announcement, or known to
\* the peer, on its way there, or still to be broadcast.
Covered(e, h) ==
  \/ ~Better(made, h, myBest[e])
  \/ h \in Known(chain[e[2]])
  \/ NewBlockMsg(h) \in Elems(sent[e])
  \/ \E d \in Ends \ {e} : d[1] = e[1] /\ pending[d] = h

SpreadEnd(e) ==
  Connected(e) /\ e \notin missed /\ run[e] # "best" =>
    \A h \in Known(chain[e[1]]) : Covered(e, h)
SpreadInv == \A e \in Ends : SpreadEnd(e)

CounterInv ==
  TypeInv /\ ChainInv /\ ValueInv /\ MsgInv /\ HelloInv /\ StageInv /\ SyncInv /\ SpreadInv

\* The two ends of a connection.
LEMMA EndFact ==
  ASSUME NEW e \in Ends
  PROVE  /\ Other(e) \in Ends /\ Other(e) # e /\ Other(Other(e)) = e
         /\ e[1] \in Node /\ e[2] \in Node /\ e[1] # e[2]
         /\ Other(e)[1] = e[2] /\ Other(e)[2] = e[1]
         /\ Link(Other(e)) = Link(e) /\ Link(e) \in Links /\ e[1] \in Link(e)
<1>1. /\ e \in Node \X Node /\ {e[1], e[2]} \in Links
  BY DEF Ends
<1>2. e[1] \in Node /\ e[2] \in Node /\ e = <<e[1], e[2]>>
  BY SMT, <1>1
<1>3. e[1] # e[2]
  <2>1. PICK n, m \in Node : n # m /\ {e[1], e[2]} = {n, m}
    BY <1>1, CounterAssumption
  <2> QED
    BY SMT, <2>1
<1>4. Other(e) = <<e[2], e[1]>> /\ Other(e)[1] = e[2] /\ Other(e)[2] = e[1]
  BY DEF Other
<1>5. Other(e) # e
  BY <1>2, <1>3, <1>4
<1>6. {e[2], e[1]} = {e[1], e[2]}
  OBVIOUS
<1>7. Other(e) \in Ends
  <2>1. Other(e) \in Node \X Node
    BY <1>2, <1>4
  <2> QED
    BY <1>1, <1>4, <1>6, <2>1 DEF Ends
<1>8. Other(Other(e)) = e
  BY <1>2, <1>4 DEF Other
<1> QED
  BY <1>1, <1>2, <1>3, <1>4, <1>5, <1>6, <1>7, <1>8 DEF Link

\* All nodes start with chains of the blocks there are, and nothing is on its way.
LEMMA CounterInvInit == Init => CounterInv
<1> SUFFICES ASSUME Init PROVE CounterInv
  OBVIOUS
<1>1. PICK s \in Setups : s = setup
  BY DEF Init
<1>2. All = Table(World) /\ made = Premade(World)
  BY DEF Init, All, Table
<1>3. IsWorld(World) /\ \A n \in Node : IsHistory(World, setup.know[n])
  BY <1>1, CounterAssumption
<1>4. Grown(All)
  BY <1>2, <1>3, WorldGrown
<1>5. ASSUME NEW n \in Node PROVE IsChain(chain[n]) /\ Within(chain[n], All)
  <2>1. chain[n] = Build(World, setup.know[n])
    BY DEF Init
  <2> QED
    BY <1>2, <1>3, <2>1, BuildFact
<1>6. ChainInv
  BY <1>4, <1>5 DEF ChainInv, Init
<1>7. TypeInv
  BY DEF Init, TypeInv, Fcn, Values, Places
<1>8. ValueInv
  <2> SUFFICES ASSUME NEW n \in Node, NEW h \in Known(chain[n]) PROVE value[n][h] = Replay(made, h)
    BY DEF ValueInv
  <2>1. value[n] = Values(chain[n].block)
    BY DEF Init
  <2>2. h \in Hash /\ chain[n].block[h] # NoBlock
    BY DEF Known
  <2>3. value[n][h] = Replay(chain[n].block, h)
    BY <2>1, <2>2 DEF Values
  <2>4. Replay(All.block, h) = Replay(chain[n].block, h)
    BY <1>4, <1>5, ReplaySame DEF IsChain
  <2> QED
    BY <2>3, <2>4 DEF All
<1>9. ASSUME NEW e \in Ends
      PROVE  /\ run[e] = "best" /\ sent[e] = <<>> /\ batch[e] = <<>> /\ pending[e] = NoHash
             /\ sync[e] = "none" /\ run[Other(e)] = "best"
  BY EndFact DEF Init
<1>10. MsgInv
  BY <1>9, EmptyFact DEF MsgInv, MsgEnd
<1>11. HelloInv
  <2>1. "best" \notin {"read", "listen"} /\ "best" # "listen"
    OBVIOUS
  <2> QED
    BY <1>9, <2>1 DEF HelloInv, HelloEnd
<1>12. SyncInv
  <2>1. "none" # "done" /\ "none" # "failed"
    OBVIOUS
  <2> QED
    BY <1>9, <2>1 DEF SyncInv, SyncEnd
<1>13. SpreadInv
  BY <1>9 DEF SpreadInv, SpreadEnd
<1>14. StageInv
  BY DEF StageInv, Init
<1> QED
  BY <1>6, <1>7, <1>8, <1>10, <1>11, <1>12, <1>13, <1>14 DEF CounterInv

-----------------------------------------------------------------------------
(* Steps that change a chain *)

NodeInv == TypeInv /\ ChainInv /\ ValueInv

\* No block is forgotten, and none changes.
Grows == /\ Within(All, All') /\ \A n \in Node : Within(chain[n], chain'[n])
         /\ Grown(All) /\ Grown(All)'

\* A chain within another one, and that within a third one.
LEMMA WithinTrans ==
  ASSUME NEW b, NEW c, NEW d, Within(b, c), Within(c, d)
  PROVE  Within(b, d)
BY DEF Within

\* A step that leaves the chains alone.
LEMMA NodeStutter ==
  ASSUME ChainInv, ValueInv, made' = made, chain' = chain, value' = value, candidate' = candidate
  PROVE  ChainInv' /\ ValueInv' /\ Grows
<1>1. All' = All
  BY DEF All
<1>2. \A c : Within(c, c)
  BY DEF Within
<1> QED
  BY <1>1, <1>2 DEF ChainInv, ValueInv, Grows

\* AcceptNetworkBlock: the block is one of those mined, the node has what it
\* builds on, and its counter follows the parent's.
LEMMA AcceptStep ==
  ASSUME NodeInv, NEW e \in Ends, NEW h \in Known(All), Accepts(e[1], h), Accept(e, h)
  PROVE  /\ ChainInv' /\ ValueInv' /\ Grows /\ made' = made
         /\ Known(chain'[e[1]]) = Known(chain[e[1]]) \cup {h}
         /\ \A n \in Node \ {e[1]} : chain'[n] = chain[n]
<1> DEFINE n == e[1]
           b == made[h]
<1>1. /\ n \in Node /\ Fcn(chain, Node) /\ Fcn(value, Node) /\ Fcn(value[n], Hash)
      /\ h \in Hash
  BY EndFact DEF NodeInv, TypeInv, Known
<1>2. /\ chain' = [chain EXCEPT ![n] = Added(chain[n], h, b)]
      /\ value' = [value EXCEPT ![n] = [value[n] EXCEPT ![h] = Apply(value[n][b.parent], Op[h])]]
      /\ made' = made /\ candidate' = candidate
  BY DEF Accept
<1> HIDE DEF n, b
<1>3. /\ chain'[n] = Added(chain[n], h, b) /\ \A m \in Node \ {n} : chain'[m] = chain[m]
      /\ value'[n][h] = Apply(value[n][b.parent], Op[h])
      /\ \A g \in Hash \ {h} : value'[n][g] = value[n][g]
      /\ \A m \in Node \ {n} : value'[m] = value[m]
  BY <1>1, <1>2 DEF Fcn
<1>4. /\ All' = All /\ All.block = made
  BY <1>2 DEF All
<1>5. /\ IsChain(chain[n]) /\ Within(chain[n], All) /\ Grown(All)
      /\ b \in BlockSpec /\ Valid(chain[n], b)
  <2>1. /\ IsChain(chain[n]) /\ Within(chain[n], All) /\ Grown(All)
    BY <1>1 DEF NodeInv, ChainInv
  <2>2. b \in BlockSpec
    BY <1>4, <2>1, GenesisFact DEF b
  <2> QED
    BY <2>1, <2>2 DEF Accepts, n, b
<1>6. /\ IsChain(chain'[n]) /\ Within(chain[n], chain'[n])
      /\ Known(chain'[n]) = Known(chain[n]) \cup {h}
      /\ h \notin Known(chain[n]) => chain'[n].block[h] = b
  BY SMT, <1>1, <1>3, <1>5, AddedChain
<1>7. Within(chain'[n], All)
  BY <1>4, <1>5, <1>6 DEF Within, b
<1>8. Grows
  <2>1. \A c : Within(c, c)
    BY DEF Within
  <2> QED
    BY <1>3, <1>4, <1>5, <1>6, <2>1 DEF Grows
<1>9. ChainInv'
  <2>1. \A m \in Node : IsChain(chain'[m]) /\ Within(chain'[m], All)
    BY <1>3, <1>6, <1>7 DEF NodeInv, ChainInv
  <2>2. ASSUME NEW m \in Node, candidate[m] # NoBlock
        PROVE  candidate[m] \in BlockSpec /\ Valid(chain'[m], candidate[m])
    <3>1. /\ candidate[m] \in BlockSpec /\ Valid(chain[m], candidate[m]) /\ Grown(chain[m])
      BY <2>2 DEF NodeInv, ChainInv, IsChain
    <3>2. Within(chain[m], chain'[m]) /\ NoHash \notin Known(chain'[m])
      BY <1>8, <2>1, GenesisFact DEF Grows, IsChain
    <3> QED
      BY <3>1, <3>2, ValidGrows
  <2> QED
    BY <1>2, <1>4, <1>5, <2>1, <2>2 DEF ChainInv
<1>10. ValueInv'
  <2> SUFFICES ASSUME NEW m \in Node, NEW g \in Known(chain'[m]) PROVE value'[m][g] = Replay(made, g)
    BY <1>2 DEF ValueInv
  <2>1. CASE m # n \/ g # h
    <3>1. g \in Known(chain[m]) /\ g \in Hash
      BY <1>3, <1>6, <2>1 DEF Known
    <3>2. value'[m][g] = value[m][g]
      BY <1>3, <2>1, <3>1
    <3> QED
      BY <3>1, <3>2 DEF NodeInv, ValueInv
  <2>2. CASE m = n /\ g = h
    <3>1. b.parent \in Known(chain[n]) /\ b.parent # NoHash
      BY <1>5, GenesisFact DEF Valid, IsChain
    <3>2. h # Genesis
      <4>1. made[Genesis].parent = NoHash
        BY SMT, <1>4, <1>5 DEF Grown, GenesisBlock
      <4> QED
        BY <3>1, <4>1 DEF b
    <3>3. Replay(made, h) = Apply(Replay(made, b.parent), Op[h])
      BY <1>4, <1>5, <3>2, ReplayStep DEF b
    <3> QED
      BY <1>1, <1>3, <2>2, <3>1, <3>3 DEF NodeInv, ValueInv
  <2> QED
    BY <2>1, <2>2
<1> QED
  BY <1>2, <1>3, <1>6, <1>8, <1>9, <1>10 DEF n

\* MineCandidateBlock: the candidate is still valid, whatever came since it was
\* made, and carries the counter of its parent's line.
LEMMA MineStep ==
  ASSUME NodeInv, NEW n \in Node, MineCandidateBlock(n)
  PROVE  /\ ChainInv' /\ ValueInv' /\ Grows
         /\ Known(chain'[n]) = Known(chain[n]) \cup {Fresh}
         /\ \A m \in Node \ {n} : chain'[m] = chain[m]
<1> DEFINE h == Fresh
           b == candidate[n]
           v == Apply(value[n][b.parent], Op[h])
<1>1. /\ Fcn(chain, Node) /\ Fcn(value, Node) /\ Fcn(value[n], Hash) /\ Fcn(candidate, Node)
  BY DEF NodeInv, TypeInv
<1>2. h \in Hash \ Known(All)
  <2>1. Unused # {}
    BY DEF MineCandidateBlock, MinedWith
  <2>2. h \in Unused
    BY <2>1 DEF Fresh
  <2> QED
    BY <2>2 DEF Unused, Known, All
<1>3. /\ b # NoBlock
      /\ chain' = [chain EXCEPT ![n] = Added(chain[n], h, b)]
      /\ value' = [value EXCEPT ![n] = [value[n] EXCEPT ![h] = v]]
      /\ made' = [made EXCEPT ![h] = b] /\ candidate' = [candidate EXCEPT ![n] = NoBlock]
  BY DEF MineCandidateBlock, MinedWith
<1>4. /\ IsChain(chain[n]) /\ Within(chain[n], All) /\ Grown(All)
      /\ b \in BlockSpec /\ Valid(chain[n], b)
  BY <1>3 DEF NodeInv, ChainInv
<1> HIDE DEF h, b, v
<1>5. /\ chain'[n] = Added(chain[n], h, b) /\ \A m \in Node \ {n} : chain'[m] = chain[m]
      /\ value'[n][h] = v
      /\ \A g \in Hash \ {h} : value'[n][g] = value[n][g]
      /\ \A m \in Node \ {n} : value'[m] = value[m]
      /\ candidate'[n] = NoBlock /\ \A m \in Node \ {n} : candidate'[m] = candidate[m]
  BY <1>1, <1>2, <1>3 DEF Fcn
<1>6. All.block = made /\ All'.block = made'
  BY DEF All
<1>7. /\ Grown(All') /\ Within(All, All')
      /\ Known(All') = Known(All) \cup {h} /\ All'.block[h] = b
  <2>1. /\ All'.block \in [Hash -> BlockSpec \cup {NoBlock}] /\ All'.block[h] = b
        /\ \A g \in Hash \ {h} : All'.block[g] = All.block[g]
    BY SMT, <1>2, <1>3, <1>4, <1>6 DEF Grown
  <2>2. Valid(All, b)
    BY <1>4, GenesisFact, ValidGrows DEF IsChain
  <2> QED
    BY SMTT(30), <1>2, <1>4, <2>1, <2>2, GrownAdd
<1>8. /\ IsChain(chain'[n]) /\ Within(chain[n], chain'[n])
      /\ Known(chain'[n]) = Known(chain[n]) \cup {h}
      /\ h \notin Known(chain[n]) => chain'[n].block[h] = b
  BY SMT, <1>2, <1>4, <1>5, AddedChain
<1>9. h \notin Known(chain[n])
  BY <1>2, <1>4 DEF Within
<1>10. ASSUME NEW m \in Node PROVE IsChain(chain'[m]) /\ Within(chain'[m], All')
  <2>1. CASE m = n
    BY <1>4, <1>7, <1>8, <1>9, <2>1 DEF Within
  <2>2. CASE m # n
    BY <1>5, <1>7, <2>2, WithinTrans DEF NodeInv, ChainInv
  <2> QED
    BY <2>1, <2>2
<1>11. Grows
  <2>1. \A c : Within(c, c)
    BY DEF Within
  <2> QED
    BY <1>4, <1>5, <1>7, <1>8, <2>1 DEF Grows
<1>12. ChainInv'
  <2>1. ASSUME NEW m \in Node, candidate'[m] # NoBlock
        PROVE  candidate'[m] \in BlockSpec /\ Valid(chain'[m], candidate'[m])
    <3>1. m # n /\ candidate'[m] = candidate[m] /\ chain'[m] = chain[m]
      BY <1>5, <2>1
    <3> QED
      BY <2>1, <3>1 DEF NodeInv, ChainInv
  <2> QED
    BY <1>7, <1>10, <2>1 DEF ChainInv
<1>13. ValueInv'
  <2>1. ASSUME NEW m \in Node, NEW g \in Known(chain[m]) PROVE value[m][g] = Replay(made', g)
    <3>1. g \in Known(All)
      BY DEF NodeInv, ChainInv, Within
    <3>2. Replay(made', g) = Replay(made, g)
      BY <1>4, <1>6, <1>7, <3>1, ReplaySame
    <3> QED
      BY <3>2 DEF NodeInv, ValueInv
  <2> SUFFICES ASSUME NEW m \in Node, NEW g \in Known(chain'[m]) PROVE value'[m][g] = Replay(made', g)
    BY DEF ValueInv
  <2>2. CASE m # n \/ g # h
    <3>1. g \in Known(chain[m])
      <4>1. CASE m = n
        BY <1>8, <2>2, <4>1
      <4>2. CASE m # n
        BY <1>5, <4>2
      <4> QED
        BY <4>1, <4>2
    <3>3. g \in Hash
      BY <3>1 DEF Known
    <3>2. value'[m][g] = value[m][g]
      BY <1>5, <2>2, <3>3
    <3> QED
      BY <2>1, <3>1, <3>2
  <2>3. CASE m = n /\ g = h
    <3>1. b.parent \in Known(chain[n])
      BY <1>4 DEF Valid
    <3>2. h \in Known(All') /\ h # Genesis
      BY <1>2, <1>4, <1>7, GenesisFact
    <3>3. Replay(made', h) = Apply(Replay(made', b.parent), Op[h])
      BY <1>6, <1>7, <3>2, ReplayStep
    <3> QED
      BY <1>5, <2>1, <2>3, <3>1, <3>3 DEF v
  <2> QED
    BY <2>2, <2>3
<1> QED
  BY <1>5, <1>8, <1>11, <1>12, <1>13 DEF h

\* NewCandidateBlock makes a valid block of the tip and the uncles it finds.
LEMMA CandidateStep ==
  ASSUME NodeInv, NEW n \in Node, NewCandidateBlock(n)
  PROVE  /\ ChainInv' /\ ValueInv' /\ Grows /\ made' = made /\ chain' = chain
<1> DEFINE us == CandidateUncles(chain[n])
           tip == chain[n].block[chain[n].tip]
           b == [parent |-> chain[n].tip, depth |-> tip.depth + 1,
                 weight |-> tip.weight + 1 + Len(us), uncles |-> us, txs |-> {}]
<1>1. /\ Fcn(candidate, Node) /\ candidate' = [candidate EXCEPT ![n] = b]
      /\ made' = made /\ chain' = chain /\ value' = value
  BY DEF NewCandidateBlock, NodeInv, TypeInv
<1>2. b \in BlockSpec /\ Valid(chain[n], b)
  <2>1. IsChain(chain[n])
    BY DEF NodeInv, ChainInv
  <2> QED
    BY <2>1, CandidateValid
<1> HIDE DEF b
<1>3. candidate'[n] = b /\ \A m \in Node \ {n} : candidate'[m] = candidate[m]
  BY <1>1 DEF Fcn
<1>4. All' = All /\ \A c : Within(c, c)
  BY <1>1 DEF All, Within
<1>5. ChainInv'
  BY <1>1, <1>2, <1>3, <1>4 DEF NodeInv, ChainInv
<1>6. ValueInv'
  BY <1>1 DEF NodeInv, ValueInv
<1> QED
  BY <1>1, <1>4, <1>5, <1>6 DEF Grows, NodeInv, ChainInv

-----------------------------------------------------------------------------
(* What other steps may change *)

\* What a node knows it keeps, with its weight and its place among the tips.
LEMMA GrowsFact ==
  ASSUME ChainInv, Grows
  PROVE  /\ \A n \in Node : /\ Known(chain[n]) \subseteq Known(chain'[n])
                            /\ Known(chain[n]) \subseteq Known(All)
         /\ Known(All) \subseteq Known(All')
         /\ \A g \in Known(All) : Announced(All', g) = Announced(All, g)
         /\ \A g, h \in Known(All) : Better(made', g, h) <=> Better(made, g, h)
<1>1. Within(All, All') /\ \A n \in Node : Within(chain[n], chain'[n]) /\ Within(chain[n], All)
  BY DEF Grows, ChainInv
<1>2. made = All.block /\ made' = All'.block
  BY DEF All
<1>3. \A g \in Known(All) : made'[g] = made[g] /\ All'.block[g] = All.block[g]
  BY <1>1, <1>2 DEF Within
<1>4. \A g \in Known(All) : Announced(All', g) = Announced(All, g)
  BY <1>3 DEF Announced
<1>5. \A g, h \in Known(All) : Better(made', g, h) <=> Better(made, g, h)
  BY <1>3 DEF Better
<1> QED
  BY <1>1, <1>4, <1>5 DEF Within

\* The tip gets no worse.
LEMMA TipGrows ==
  ASSUME ChainInv, ChainInv', Grows, NEW n \in Node, NEW g \in Known(All),
         ~Better(made, g, chain[n].tip)
  PROVE  ~Better(made', g, chain'[n].tip)
<1>1. /\ IsChain(chain[n]) /\ IsChain(chain'[n]) /\ Within(chain'[n], All') /\ Grown(All')
      /\ Within(chain[n], chain'[n]) /\ All'.block = made'
  BY DEF ChainInv, Grows, All
<1>2. chain[n].tip \in Known(chain[n]) /\ chain'[n].tip \in Known(chain'[n])
  BY <1>1 DEF IsChain
<1>3. /\ chain[n].tip \in Known(All) /\ chain[n].tip \in Known(All') /\ g \in Known(All')
      /\ chain'[n].tip \in Known(All')
  BY <1>1, <1>2, GrowsFact DEF Within
<1>4. ~Better(made', g, chain[n].tip)
  BY <1>3, GrowsFact
<1>5. ~Better(made', chain[n].tip, chain'[n].tip)
  <2>1. ~Better(chain'[n].block, chain[n].tip, chain'[n].tip)
    BY <1>1, <1>2 DEF IsChain, Within
  <2>2. /\ chain'[n].block[chain[n].tip] = made'[chain[n].tip]
        /\ chain'[n].block[chain'[n].tip] = made'[chain'[n].tip]
    BY <1>1, <1>2 DEF Within
  <2> QED
    BY <2>1, <2>2 DEF Better
<1> QED
  BY <1>1, <1>3, <1>4, <1>5, BetterTrans

\* At most one message is sent or received at an end.
SentStep(e) ==
  \/ sent'[e] = sent[e]
  \/ sent[e] # <<>> /\ sent'[e] = Tail(sent[e])
  \/ \E m : sent'[e] = Append(sent[e], m) /\ MsgOK(e, m)'

BatchStep(e) ==
  \/ batch'[e] = batch[e] \/ batch'[e] = <<>>
  \/ batch[e] # <<>> /\ batch'[e] = Tail(batch[e])
  \/ IsQueue(batch'[e]) /\ Elems(batch'[e]) \subseteq Known(chain[e[2]])

PendingStep(e) ==
  \/ pending'[e] = pending[e] \/ pending'[e] = NoHash
  \/ pending'[e] \in Known(chain'[e[1]]) \cap Known(chain[e[2]])

\* Messages on their way stay about blocks that the node, or its peer, knows.
LEMMA MsgStep ==
  ASSUME ChainInv, Grows, NEW e \in Ends, MsgEnd(e), SentStep(e), BatchStep(e), PendingStep(e)
  PROVE  MsgEnd(e)'
<1>1. /\ e[1] \in Node /\ e[2] \in Node
      /\ Known(chain[e[1]]) \subseteq Known(chain'[e[1]])
      /\ Known(chain[e[2]]) \subseteq Known(chain'[e[2]])
  BY EndFact, GrowsFact
<1>2. ASSUME NEW m, MsgOK(e, m) PROVE MsgOK(e, m)'
  BY <1>1, <1>2 DEF MsgOK
<1>3. IsQueue(sent'[e]) /\ \A m \in Elems(sent'[e]) : MsgOK(e, m)'
  <2>1. IsQueue(sent[e]) /\ \A m \in Elems(sent[e]) : MsgOK(e, m)'
    BY <1>2 DEF MsgEnd
  <2>2. CASE sent'[e] = sent[e]
    BY <2>1, <2>2
  <2>3. CASE sent[e] # <<>> /\ sent'[e] = Tail(sent[e])
    BY <2>1, <2>3, TailFact
  <2>4. CASE \E m : sent'[e] = Append(sent[e], m) /\ MsgOK(e, m)'
    <3>1. PICK m : sent'[e] = Append(sent[e], m) /\ MsgOK(e, m)'
      BY <2>4
    <3>2. IsQueue(sent'[e]) /\ Elems(sent'[e]) = Elems(sent[e]) \cup {m}
      BY <2>1, <3>1, AppendFact
    <3> QED
      BY <2>1, <3>1, <3>2
  <2> QED
    BY <2>2, <2>3, <2>4 DEF SentStep
<1>4. IsQueue(batch'[e]) /\ Elems(batch'[e]) \subseteq Known(chain'[e[2]])
  <2>1. IsQueue(batch[e]) /\ Elems(batch[e]) \subseteq Known(chain'[e[2]])
    BY <1>1 DEF MsgEnd
  <2>2. CASE batch[e] # <<>> /\ batch'[e] = Tail(batch[e])
    BY <2>1, <2>2, TailFact
  <2>3. CASE batch'[e] = <<>>
    BY <2>3, EmptyFact
  <2> QED
    BY <1>1, <2>1, <2>2, <2>3 DEF BatchStep
<1>5. pending'[e] # NoHash => pending'[e] \in Known(chain'[e[1]]) \cap Known(chain'[e[2]])
  BY <1>1 DEF MsgEnd, PendingStep
<1> QED
  BY <1>3, <1>4, <1>5 DEF MsgEnd

\* Once an end listens, its peer's handshake has been read; messages follow it.
TalkStep(e) ==
  /\ \/ sent'[e] = sent[e]
     \/ run[Other(e)] = "listen"
     \/ run[e] = "listen" /\ \E m : sent'[e] = Append(sent[e], m)
  /\ run[e] # "listen" => sync'[e] = sync[e] /\ batch'[e] = batch[e] /\ pending'[e] = pending[e]

LEMMA HelloStep ==
  ASSUME ChainInv, MsgInv, Grows, NEW e \in Ends, HelloEnd(e), TalkStep(e),
         run' = run, myBest' = myBest, status' = status, garbled' = garbled
  PROVE  HelloEnd(e)'
<1>1. /\ e[1] \in Node /\ Known(chain[e[1]]) \subseteq Known(chain'[e[1]])
      /\ \A g \in Known(chain[e[1]]) : Announced(All', g) = Announced(All, g)
  BY EndFact, GrowsFact
<1>2. run'[e] \notin {"read", "listen"} => sent'[e] = <<>> /\ run'[Other(e)] # "listen"
  <2>1. "listen" \in {"read", "listen"}
    OBVIOUS
  <2> QED
    BY <2>1 DEF HelloEnd, TalkStep
<1>3. run[e] \in {"read", "listen"} => run[e] # "best"
  OBVIOUS
<1>4. ASSUME run[e] \in {"read", "listen"}, run[Other(e)] # "listen"
      PROVE  /\ sent'[e] # <<>> /\ Head(sent'[e]).type = "Handshake"
             /\ e \notin garbled => Head(sent'[e]).status = Announced(All', myBest[e])
  <2>1. /\ sent[e] # <<>> /\ Head(sent[e]).type = "Handshake" /\ IsQueue(sent[e])
        /\ e \notin garbled => Head(sent[e]).status = Announced(All', myBest[e])
    BY <1>1, <1>3, <1>4 DEF HelloEnd, MsgInv, MsgEnd
  <2>2. sent'[e] # <<>> /\ Head(sent'[e]) = Head(sent[e])
    <3>1. sent'[e] = sent[e] \/ \E m : sent'[e] = Append(sent[e], m)
      BY <1>4 DEF TalkStep
    <3> QED
      BY <2>1, <3>1, AppendFact
  <2> QED
    BY <2>1, <2>2
<1>5. run[Other(e)] = "listen" /\ e \notin garbled => status[Other(e)] = Announced(All', myBest[e])
  BY <1>1, <1>3 DEF HelloEnd
<1>6. /\ run'[e] # "best" => myBest'[e] \in Known(chain'[e[1]])
      /\ run'[e] # "listen" => sync'[e] = "none" /\ batch'[e] = <<>> /\ pending'[e] = NoHash
  BY <1>1 DEF HelloEnd, TalkStep
<1> QED
  BY <1>2, <1>4, <1>5, <1>6 DEF HelloEnd

\* The sync of an end goes on as it was, while both nodes learn more blocks.
LEMMA SyncStep ==
  ASSUME ChainInv, ChainInv', HelloInv, Grows, NEW e \in Ends, SyncEnd(e),
         sync'[e] = sync[e], best'[e] = best[e],
         sync[e] # "none" => myBest'[Other(e)] = myBest[Other(e)],
         down \subseteq down', closed \subseteq closed', garbled \subseteq garbled'
  PROVE  SyncEnd(e)'
<1>1. /\ e[1] \in Node /\ Known(chain[e[1]]) \subseteq Known(chain'[e[1]]) /\ Other(e) \in Ends
  BY EndFact, GrowsFact
<1>2. Connected(e)' => Connected(e)
  BY DEF Connected
<1>3. sync'[e] # "none" => \/ best'[e] \in Known(chain'[e[1]])
                           \/ best'[e] = NoHash /\ e[1] \in closed'
  BY <1>1 DEF SyncEnd
<1>4. ASSUME sync'[e] = "done", Connected(e)', Other(e) \notin garbled'
      PROVE  ~Better(made', myBest'[Other(e)], chain'[e[1]].tip)
  <2>1. /\ ~Better(made, myBest[Other(e)], chain[e[1]].tip)
        /\ myBest'[Other(e)] = myBest[Other(e)] /\ sync[e] # "none"
    <3>1. "done" # "none"
      OBVIOUS
    <3> QED
      BY <1>2, <1>4, <3>1 DEF SyncEnd
  <2>2. myBest[Other(e)] \in Known(All)
    <3>1. run[Other(e)] # "best"
      <4>1. run[Other(Other(e))] = "listen"
        BY <2>1, EndFact DEF HelloInv, HelloEnd
      <4>2. run[Other(e)] \in {"read", "listen"}
        BY <1>1, <4>1 DEF HelloInv, HelloEnd
      <4> QED
        BY <4>2
    <3> QED
      BY <1>1, <3>1, EndFact, GrowsFact DEF HelloInv, HelloEnd
  <2> QED
    BY <1>1, <2>1, <2>2, TipGrows
<1>5. sync'[e] = "failed" => ~Connected(e)'
  BY <1>2 DEF SyncEnd
<1> QED
  BY <1>3, <1>4, <1>5 DEF SyncEnd

\* A block that was announced, or need not be, when the announcement is kept.
SpreadStep(e, h) ==
  /\ NewBlockMsg(h) \in Elems(sent[e]) =>
       NewBlockMsg(h) \in Elems(sent'[e]) \/ h \in Known(chain'[e[2]])
  /\ \A d \in Ends \ {e} : d[1] = e[1] /\ pending[d] = h =>
       \/ pending'[d] = h \/ NewBlockMsg(h) \in Elems(sent'[e]) \/ h \in Known(chain'[e[2]])

LEMMA CoveredStep ==
  ASSUME ChainInv, Grows, NEW e \in Ends, NEW h \in Known(chain[e[1]]), Covered(e, h),
         SpreadStep(e, h), myBest'[e] = myBest[e], myBest[e] \in Known(chain[e[1]])
  PROVE  Covered(e, h)'
<1>1. /\ e[1] \in Node /\ e[2] \in Node /\ h \in Known(All) /\ myBest[e] \in Known(All)
      /\ Known(chain[e[2]]) \subseteq Known(chain'[e[2]])
  BY EndFact, GrowsFact
<1>2. CASE ~Better(made, h, myBest[e])
  BY <1>1, <1>2, GrowsFact DEF Covered
<1>3. CASE h \in Known(chain[e[2]])
  BY <1>1, <1>3 DEF Covered
<1>4. CASE NewBlockMsg(h) \in Elems(sent[e])
  <2>1. NewBlockMsg(h)' = NewBlockMsg(h)
    BY DEF NewBlockMsg
  <2> QED
    BY <1>4, <2>1 DEF Covered, SpreadStep
<1>5. CASE \E d \in Ends \ {e} : d[1] = e[1] /\ pending[d] = h
  BY <1>5 DEF Covered, SpreadStep
<1> QED
  BY <1>2, <1>3, <1>4, <1>5 DEF Covered

\* Where a node learns nothing new, no block loses its announcement.
LEMMA SpreadEndStep ==
  ASSUME ChainInv, HelloInv, Grows, NEW e \in Ends, SpreadEnd(e),
         Known(chain'[e[1]]) = Known(chain[e[1]]),
         run'[e] # "best" => run[e] # "best" /\ myBest'[e] = myBest[e],
         down \subseteq down', missed \subseteq missed',
         Connected(e)' /\ e \notin missed' /\ run[e] # "best" =>
           \A h \in Known(chain[e[1]]) : SpreadStep(e, h)
  PROVE  SpreadEnd(e)'
<1> SUFFICES ASSUME Connected(e)', e \notin missed', run'[e] # "best", NEW h \in Known(chain'[e[1]])
             PROVE  Covered(e, h)'
  BY DEF SpreadEnd
<1>1. /\ Connected(e) /\ e \notin missed /\ run[e] # "best" /\ myBest'[e] = myBest[e]
      /\ h \in Known(chain[e[1]])
  BY DEF Connected
<1>2. Covered(e, h) /\ SpreadStep(e, h) /\ myBest[e] \in Known(chain[e[1]])
  BY <1>1 DEF SpreadEnd, HelloInv, HelloEnd
<1> QED
  BY <1>1, <1>2, CoveredStep

-----------------------------------------------------------------------------
(* Steps of the handshake *)

\* Run reads the best block: what the node knows is no better.
LEMMA RunBestStep ==
  ASSUME CounterInv, NEW e \in Ends, RunBest(e)
  PROVE  CounterInv'
<1>1. /\ run[e] = "best" /\ Connected(e)
      /\ myBest' = [myBest EXCEPT ![e] = chain[e[1]].tip] /\ run' = [run EXCEPT ![e] = "weight"]
  BY DEF RunBest
<1>2. /\ made' = made /\ chain' = chain /\ value' = value /\ candidate' = candidate
      /\ status' = status /\ sync' = sync /\ best' = best /\ batch' = batch /\ pending' = pending
      /\ sent' = sent /\ down' = down /\ garbled' = garbled /\ missed' = missed
      /\ stopped' = stopped /\ isInShutdown' = isInShutdown /\ closed' = closed
  BY DEF RunBest, nodeVars, stageVars, syncVars, listenVars
<1>3. "weight" \in Places /\ "best" # "listen"
  BY DEF Places
<1>4. /\ Fcn(myBest, Ends) /\ run \in [Ends -> Places] /\ Fcn(run, Ends)
  BY DEF CounterInv, TypeInv, Fcn
<1>5. /\ Fcn(myBest', Ends) /\ myBest'[e] = chain[e[1]].tip
      /\ \A d \in Ends \ {e} : myBest'[d] = myBest[d]
  BY <1>1, <1>4 DEF Fcn
<1>6. /\ run' \in [Ends -> Places] /\ run'[e] = "weight"
      /\ \A d \in Ends \ {e} : run'[d] = run[d]
  BY <1>1, <1>3, <1>4
<1>7. TypeInv'
  BY <1>2, <1>5, <1>6 DEF CounterInv, TypeInv
<1>8. ChainInv' /\ ValueInv' /\ Grows
  BY <1>2, NodeStutter DEF CounterInv
<1>9. MsgInv'
  BY <1>2, <1>8, MsgStep DEF CounterInv, MsgInv, SentStep, BatchStep, PendingStep
<1>10. run[Other(e)] # "listen" /\ sync[Other(e)] = "none"
  <2>1. run[Other(e)] # "listen"
    BY <1>1 DEF CounterInv, HelloInv, HelloEnd
  <2> QED
    BY <2>1, EndFact DEF CounterInv, HelloInv, HelloEnd
<1>11. chain[e[1]].tip \in Known(chain[e[1]])
  BY EndFact DEF CounterInv, ChainInv, IsChain
<1>12. ASSUME NEW d \in Ends PROVE HelloEnd(d)'
  <2>1. HelloEnd(d) /\ Other(d) \in Ends /\ All' = All /\ Other(Other(d)) = d
    BY <1>2, EndFact DEF CounterInv, HelloInv, All
  <2>2. CASE d = e
    BY SMTT(30), <1>1, <1>2, <1>3, <1>5, <1>6, <1>10, <1>11, <2>1, <2>2, EndFact DEF HelloEnd
  <2>3. CASE d # e
    <3>1. run'[Other(d)] # "listen" <=> run[Other(d)] # "listen"
      BY <1>1, <1>3, <1>6, <2>1
    <3> QED
      BY <1>2, <1>5, <1>6, <2>1, <2>3, <3>1 DEF HelloEnd
  <2> QED
    BY <2>2, <2>3
<1>13. StageInv'
  BY <1>2 DEF CounterInv, StageInv
<1>14. ASSUME NEW d \in Ends PROVE SyncEnd(d)'
  <2>1. sync[d] # "none" => myBest'[Other(d)] = myBest[Other(d)]
    BY <1>5, <1>10, EndFact
  <2> QED
    BY <1>2, <1>8, <2>1, SyncStep DEF CounterInv, SyncInv
<1>15. ASSUME NEW d \in Ends PROVE SpreadEnd(d)'
  <2>1. CASE d = e
    <3>1. ASSUME NEW h \in Known(chain[e[1]]) PROVE ~Better(made, h, chain[e[1]].tip)
      <4>1. IsChain(chain[e[1]]) /\ Within(chain[e[1]], All) /\ All.block = made
        BY EndFact DEF CounterInv, ChainInv, All
      <4>2. ~Better(chain[e[1]].block, h, chain[e[1]].tip)
        BY <4>1 DEF IsChain
      <4> QED
        BY <1>11, <4>1, <4>2 DEF Better, Within
    <3> QED
      BY <1>2, <1>5, <2>1, <3>1 DEF SpreadEnd, Covered
  <2>2. CASE d # e
    BY <1>2, <1>5, <1>6, <1>8, <2>2, SpreadEndStep DEF CounterInv, SpreadInv, SpreadStep
  <2> QED
    BY <2>1, <2>2
<1> QED
  BY <1>7, <1>8, <1>9, <1>12, <1>13, <1>14, <1>15 DEF CounterInv, HelloInv, SyncInv, SpreadInv

\* getHandshakeMsg: only the message of the package changes.
LEMMA SetMsgStep ==
  ASSUME CounterInv, NEW e \in Ends, SetWeight(e) \/ SetNumeric(e)
  PROVE  CounterInv'
<1>1. PICK p \in {"numeric", "send"} :
        run[e] \in {"weight", "numeric"} /\ run' = [run EXCEPT ![e] = p]
  BY DEF SetWeight, SetNumeric
<1>2. /\ made' = made /\ chain' = chain /\ value' = value /\ candidate' = candidate
      /\ myBest' = myBest
      /\ status' = status /\ sync' = sync /\ best' = best /\ batch' = batch /\ pending' = pending
      /\ sent' = sent /\ down' = down /\ garbled' = garbled /\ missed' = missed
      /\ stopped' = stopped /\ isInShutdown' = isInShutdown /\ closed' = closed
  BY DEF SetWeight, SetNumeric, nodeVars, stageVars, syncVars, listenVars
<1>3. /\ p \in Places /\ p # "listen" /\ p # "read" /\ p # "best" /\ p \notin {"read", "listen"}
      /\ run[e] # "listen" /\ run[e] # "read" /\ run[e] # "best" /\ run[e] \notin {"read", "listen"}
  BY <1>1 DEF Places
<1>4. run \in [Ends -> Places]
  BY DEF CounterInv, TypeInv
<1>5. /\ run' \in [Ends -> Places] /\ run'[e] = p
      /\ \A d \in Ends \ {e} : run'[d] = run[d]
  BY <1>1, <1>3, <1>4
<1>6. TypeInv'
  BY <1>2, <1>5 DEF CounterInv, TypeInv
<1>7. ChainInv' /\ ValueInv' /\ Grows
  BY <1>2, NodeStutter DEF CounterInv
<1>8. MsgInv'
  BY <1>2, <1>7, MsgStep DEF CounterInv, MsgInv, SentStep, BatchStep, PendingStep
<1>9. \A d \in Ends : /\ run'[d] = "listen" <=> run[d] = "listen"
                      /\ run'[d] \in {"read", "listen"} <=> run[d] \in {"read", "listen"}
                      /\ run'[d] = "best" <=> run[d] = "best"
  BY <1>3, <1>5
<1>10. ASSUME NEW d \in Ends PROVE HelloEnd(d)'
  <2>1. HelloEnd(d) /\ Other(d) \in Ends /\ All' = All
    BY <1>2, EndFact DEF CounterInv, HelloInv, All
  <2> QED
    BY <1>2, <1>9, <2>1 DEF HelloEnd
<1>11. StageInv'
  BY <1>2 DEF CounterInv, StageInv
<1>12. ASSUME NEW d \in Ends PROVE SyncEnd(d)'
  BY <1>2, <1>7, SyncStep DEF CounterInv, SyncInv
<1>13. ASSUME NEW d \in Ends PROVE SpreadEnd(d)'
  BY <1>2, <1>7, <1>9, SpreadEndStep DEF CounterInv, SpreadInv, SpreadStep
<1> QED
  BY <1>6, <1>7, <1>8, <1>10, <1>11, <1>12, <1>13 DEF CounterInv, HelloInv, SyncInv, SpreadInv

\* The handshake is sent: it is the first message.
LEMMA SendStatusStep ==
  ASSUME CounterInv, NEW e \in Ends, SendStatus(e)
  PROVE  CounterInv'
<1>0. PICK m : m = [type |-> "Handshake", status |-> handshakeMsg[e[1]]]
  OBVIOUS
<1>1. /\ run[e] = "send" /\ run' = [run EXCEPT ![e] = "read"]
      /\ sent' = [sent EXCEPT ![e] = Append(sent[e], m)]
      /\ garbled' = IF handshakeMsg[e[1]] = Announced(chain[e[1]], myBest[e]) THEN garbled
                    ELSE garbled \cup {e}
  BY <1>0 DEF SendStatus
<1>2. /\ made' = made /\ chain' = chain /\ value' = value /\ candidate' = candidate
      /\ myBest' = myBest
      /\ status' = status /\ sync' = sync /\ best' = best /\ batch' = batch /\ pending' = pending
      /\ down' = down /\ missed' = missed
      /\ stopped' = stopped /\ isInShutdown' = isInShutdown /\ closed' = closed
  BY DEF SendStatus, nodeVars, stageVars, syncVars, listenVars
<1>3. /\ "read" \in Places /\ "read" # "listen" /\ "read" # "best" /\ "read" \in {"read", "listen"}
      /\ "send" # "listen" /\ "send" # "best" /\ "send" \notin {"read", "listen"}
  BY DEF Places
<1>4. /\ run \in [Ends -> Places] /\ Fcn(sent, Ends)
  BY DEF CounterInv, TypeInv
<1>5. /\ run' \in [Ends -> Places] /\ run'[e] = "read"
      /\ \A d \in Ends \ {e} : run'[d] = run[d]
  BY <1>1, <1>3, <1>4
<1>6. m.type = "Handshake" /\ m.status = handshakeMsg[e[1]]
  BY <1>0
<1>7. /\ Fcn(sent', Ends) /\ sent'[e] = Append(sent[e], m)
      /\ \A d \in Ends \ {e} : sent'[d] = sent[d]
  BY <1>1, <1>4 DEF Fcn
<1>8. TypeInv'
  BY <1>2, <1>5, <1>7 DEF CounterInv, TypeInv
<1>9. ChainInv' /\ ValueInv' /\ Grows
  BY <1>2, NodeStutter DEF CounterInv
<1>10. MsgInv'
  <2>1. MsgOK(e, m)'
    BY <1>6 DEF MsgOK
  <2> QED
    BY <1>2, <1>7, <1>9, <2>1, MsgStep
       DEF CounterInv, MsgInv, SentStep, BatchStep, PendingStep
<1>11. garbled \subseteq garbled' /\ \A d \in Ends \ {e} : d \notin garbled => d \notin garbled'
  BY <1>1
<1>12. /\ sent[e] = <<>> /\ run[Other(e)] # "listen" /\ IsQueue(sent[e])
       /\ myBest[e] \in Known(chain[e[1]]) /\ Other(e) # e
  BY <1>1, <1>3, EndFact DEF CounterInv, HelloInv, HelloEnd, MsgInv, MsgEnd
<1>13. Announced(chain[e[1]], myBest[e]) = Announced(All, myBest[e])
  BY <1>12, EndFact DEF CounterInv, ChainInv, Within, Announced
<1>13a. sent'[e] # <<>> /\ Head(sent'[e]) = m /\ Elems(sent[e]) \subseteq Elems(sent'[e])
  <2>1. IsQueue(sent[e])
    BY <1>12
  <2>2. /\ Append(sent[e], m) # <<>> /\ Elems(Append(sent[e], m)) = Elems(sent[e]) \cup {m}
        /\ sent[e] = <<>> => Head(Append(sent[e], m)) = m
    BY ONLY Zenon, <2>1, AppendFact
  <2> QED
    BY <1>7, <1>12, <2>2
<1>14. ASSUME NEW d \in Ends PROVE HelloEnd(d)'
  <2>1. HelloEnd(d) /\ Other(d) \in Ends /\ All' = All /\ Other(Other(d)) = d
    BY <1>2, EndFact DEF CounterInv, HelloInv, All
  <2>2. CASE d = e
    <3>1. sent'[d] # <<>> /\ Head(sent'[d]).type = "Handshake"
      BY <1>6, <1>13a, <2>2
    <3>2. d \notin garbled' => Head(sent'[d]).status = Announced(All, myBest[d])
      BY <1>1, <1>6, <1>13, <1>13a, <2>2
    <3>3. run'[Other(d)] # "listen" /\ run'[d] = "read"
      BY <1>5, <1>12, <2>1, <2>2
    <3> QED
      BY <1>1, <1>2, <1>3, <2>1, <2>2, <3>1, <3>2, <3>3 DEF HelloEnd
  <2>3. CASE d # e
    <3>1. run'[Other(d)] # "listen" <=> run[Other(d)] # "listen"
      BY <1>1, <1>3, <1>5, <2>1
    <3>2. d \notin garbled' => d \notin garbled
      BY <1>11
    <3> QED
      BY <1>2, <1>5, <1>7, <2>1, <2>3, <3>1, <3>2 DEF HelloEnd
  <2> QED
    BY <2>2, <2>3
<1>15. StageInv'
  BY <1>2 DEF CounterInv, StageInv
<1>16. ASSUME NEW d \in Ends PROVE SyncEnd(d)'
  BY <1>2, <1>9, <1>11, SyncStep DEF CounterInv, SyncInv
<1>17. ASSUME NEW d \in Ends PROVE SpreadEnd(d)'
  <2>1. Elems(sent[d]) \subseteq Elems(sent'[d]) /\ (run'[d] # "best" => run[d] # "best")
    BY <1>1, <1>3, <1>5, <1>7, <1>13a
  <2> QED
    BY <1>2, <1>9, <2>1, SpreadEndStep DEF CounterInv, SpreadInv, SpreadStep
<1> QED
  BY <1>8, <1>9, <1>10, <1>14, <1>15, <1>16, <1>17 DEF CounterInv, HelloInv, SyncInv, SpreadInv

\* The handshake of the peer is read, and the peer registered.
LEMMA ReadStatusStep ==
  ASSUME CounterInv, NEW e \in Ends, ReadStatus(e)
  PROVE  CounterInv'
<1>0. PICK o \in Ends : /\ o = Other(e) /\ o # e /\ Other(o) = e
                        /\ e[1] \in Node /\ o[1] = e[2] /\ o[2] = e[1]
  BY EndFact
<1>1. /\ run[e] = "read" /\ run' = [run EXCEPT ![e] = "listen"] /\ sent[o] # <<>>
      /\ status' = [status EXCEPT ![e] = Head(sent[o]).status]
      /\ sent' = [sent EXCEPT ![o] = Tail(sent[o])]
      /\ sync' = [sync EXCEPT ![e] = "begin"] /\ best' = [best EXCEPT ![e] = myBest[e]]
  BY <1>0 DEF ReadStatus
<1>2. /\ made' = made /\ chain' = chain /\ value' = value /\ candidate' = candidate
      /\ myBest' = myBest /\ batch' = batch /\ pending' = pending
      /\ down' = down /\ garbled' = garbled /\ missed' = missed
      /\ stopped' = stopped /\ isInShutdown' = isInShutdown /\ closed' = closed
  BY DEF ReadStatus, nodeVars, stageVars, listenVars
<1>3. /\ "listen" \in Places /\ "read" # "listen" /\ "read" # "best" /\ "read" \in {"read", "listen"}
      /\ "listen" \in {"read", "listen"} /\ "listen" # "best"
      /\ "begin" # "done" /\ "begin" # "failed" /\ "NewBlock" # "Handshake"
  BY DEF Places
<1>4. /\ run \in [Ends -> Places] /\ Fcn(status, Ends) /\ Fcn(sent, Ends) /\ Fcn(sync, Ends)
      /\ Fcn(best, Ends)
  BY DEF CounterInv, TypeInv
<1>5. /\ run' \in [Ends -> Places] /\ run'[e] = "listen"
      /\ \A d \in Ends \ {e} : run'[d] = run[d]
  BY <1>1, <1>3, <1>4
<1>6. /\ Fcn(status', Ends) /\ status'[e] = Head(sent[o]).status
      /\ \A d \in Ends \ {e} : status'[d] = status[d]
  BY <1>1, <1>4 DEF Fcn
<1>7. /\ Fcn(sent', Ends) /\ sent'[o] = Tail(sent[o])
      /\ \A d \in Ends \ {o} : sent'[d] = sent[d]
  BY <1>0, <1>1, <1>4 DEF Fcn
<1>8. /\ Fcn(sync', Ends) /\ sync'[e] = "begin"
      /\ \A d \in Ends \ {e} : sync'[d] = sync[d]
      /\ Fcn(best', Ends) /\ best'[e] = myBest[e]
      /\ \A d \in Ends \ {e} : best'[d] = best[d]
  BY <1>1, <1>4 DEF Fcn
<1>9. TypeInv'
  BY <1>2, <1>5, <1>6, <1>7, <1>8 DEF CounterInv, TypeInv
<1>10. ChainInv' /\ ValueInv' /\ Grows
  BY <1>2, NodeStutter DEF CounterInv
<1>11. MsgInv'
  BY <1>1, <1>2, <1>7, <1>10, MsgStep DEF CounterInv, MsgInv, SentStep, BatchStep, PendingStep
<1>12. /\ run[o] \in {"read", "listen"} /\ Head(sent[o]).type = "Handshake"
       /\ o \notin garbled => Head(sent[o]).status = Announced(All, myBest[o])
       /\ myBest[e] \in Known(chain[e[1]])
  BY <1>0, <1>1, <1>3 DEF CounterInv, HelloInv, HelloEnd
<1>13. ASSUME NEW d \in Ends PROVE HelloEnd(d)'
  <2>1. HelloEnd(d) /\ Other(d) \in Ends /\ All' = All /\ Other(Other(d)) = d
    BY <1>2, EndFact DEF CounterInv, HelloInv, All
  <2>2. CASE d = e
    <3>1. /\ sent'[d] = sent[d] /\ run'[Other(d)] = run[Other(d)] /\ run'[d] = "listen"
          /\ status'[Other(d)] = status[Other(d)] /\ run[d] = "read"
      BY <1>0, <1>1, <1>5, <1>6, <1>7, <2>1, <2>2
    <3> QED
      BY <1>2, <1>3, <2>1, <3>1 DEF HelloEnd
  <2>3. CASE d = o
    <3>1. /\ run'[Other(d)] = "listen" /\ run'[d] = run[d]
          /\ status'[Other(d)] = Head(sent[o]).status /\ sync'[d] = sync[d]
      BY <1>0, <1>5, <1>6, <1>8, <2>3
    <3> QED
      BY <1>2, <1>12, <2>1, <2>3, <3>1 DEF HelloEnd
  <2>4. CASE d # e /\ d # o
    <3>1. Other(d) # e
      BY <1>0, <2>1, <2>4
    <3> QED
      BY <1>2, <1>5, <1>6, <1>7, <1>8, <2>1, <2>4, <3>1 DEF HelloEnd
  <2> QED
    BY <2>2, <2>3, <2>4
<1>14. StageInv'
  BY <1>2 DEF CounterInv, StageInv
<1>15. ASSUME NEW d \in Ends PROVE SyncEnd(d)'
  <2>1. CASE d = e
    BY <1>2, <1>3, <1>8, <1>12, <2>1 DEF SyncEnd
  <2>2. CASE d # e
    BY <1>2, <1>8, <1>10, <2>2, SyncStep DEF CounterInv, SyncInv
  <2> QED
    BY <2>1, <2>2
<1>16. ASSUME NEW d \in Ends PROVE SpreadEnd(d)'
  <2>1. ASSUME NEW h PROVE NewBlockMsg(h) \in Elems(sent[d]) => NewBlockMsg(h) \in Elems(sent'[d])
    <3>1. CASE d = o
      <4>1. NewBlockMsg(h).type = "NewBlock"
        BY DEF NewBlockMsg
      <4>2. IsQueue(sent[o])
        BY DEF CounterInv, MsgInv, MsgEnd
      <4>3. Elems(sent[o]) \subseteq Elems(Tail(sent[o])) \cup {Head(sent[o])}
        BY ONLY Zenon, <1>1, <4>2, TailFact
      <4> QED
        BY <1>3, <1>7, <1>12, <3>1, <4>1, <4>3
    <3>2. CASE d # o
      BY <1>7, <3>2
    <3> QED
      BY <3>1, <3>2
  <2>2. run'[d] # "best" => run[d] # "best"
    BY <1>1, <1>3, <1>5
  <2> QED
    BY <1>2, <1>10, <2>1, <2>2, SpreadEndStep DEF CounterInv, SpreadInv, SpreadStep
<1> QED
  BY <1>9, <1>10, <1>11, <1>13, <1>14, <1>15, <1>16 DEF CounterInv, HelloInv, SyncInv, SpreadInv

-----------------------------------------------------------------------------
(* Steps of syncNode *)

\* A connected node is not shutting down.
LEMMA ConnectedFact ==
  ASSUME StageInv, NEW e \in Ends, Connected(e)
  PROVE  e[1] \notin stopped /\ e[1] \notin isInShutdown /\ e[1] \notin closed
<1>1. Link(e) \in Links /\ e[1] \in Link(e) /\ Link(e) \notin down
  BY EndFact DEF Connected
<1> QED
  BY <1>1 DEF StageInv

\* syncNode runs once the peer's handshake has been read.
LEMMA SyncRuns ==
  ASSUME CounterInv, NEW e \in Ends, sync[e] # "none"
  PROVE  /\ run[e] = "listen" /\ run[Other(e)] \in {"read", "listen"}
         /\ myBest[Other(e)] \in Known(All)
         /\ Other(e) \notin garbled => status[e] = Announced(All, myBest[Other(e)])
<1>1. PICK o \in Ends : o = Other(e) /\ Other(o) = e /\ o[1] \in Node
  BY EndFact
<1>2. HelloEnd(e) /\ HelloEnd(o)
  BY DEF CounterInv, HelloInv
<1>3. run[e] = "listen"
  BY <1>2 DEF HelloEnd
<1>4. run[o] \in {"read", "listen"} /\ (o \notin garbled => status[e] = Announced(All, myBest[o]))
  BY <1>1, <1>2, <1>3 DEF HelloEnd
<1>5. run[o] # "best"
  BY <1>4
<1>6. myBest[o] \in Known(chain[o[1]])
  BY <1>2, <1>5 DEF HelloEnd
<1>7. myBest[o] \in Known(All)
  BY <1>1, <1>6 DEF CounterInv, ChainInv, Within
<1> QED
  BY <1>1, <1>3, <1>4, <1>7

\* isSyncNeeded compares with the best block of syncNode; the tip is no worse.
LEMMA SyncMet ==
  ASSUME CounterInv, NEW e \in Ends, sync[e] # "none", Connected(e), Other(e) \notin garbled,
         ~IsSyncNeeded(e, best[e])
  PROVE  ~Better(made, myBest[Other(e)], chain[e[1]].tip)
<1> DEFINE g == myBest[Other(e)]
           b == best[e]
           c == chain[e[1]]
<1>1. status[e] = Announced(All, g) /\ g \in Known(All)
  BY SyncRuns
<1>2. e[1] \notin closed
  BY ConnectedFact DEF CounterInv
<1>3. b \in Known(c)
  BY <1>2 DEF CounterInv, SyncInv, SyncEnd
<1>4. IsChain(c) /\ Within(c, All) /\ Grown(All) /\ All.block = made
  BY EndFact DEF CounterInv, ChainInv, All
<1> HIDE DEF g, b, c
<1>5. /\ b \in Known(All) /\ c.tip \in Known(All) /\ c.block[b] = made[b]
      /\ c.block[c.tip] = made[c.tip] /\ ~Better(c.block, b, c.tip)
  BY <1>3, <1>4 DEF IsChain, Within
<1>6. ~Better(made, b, c.tip)
  BY <1>5 DEF Better
<1>7. ~Better(made, g, b)
  <2>1. ~IsSyncNeeded(e, b)
    BY DEF b
  <2>2. /\ status[e].weight = made[g].weight /\ status[e].numeric = Numeric[g]
        /\ Announced(c, b).weight = made[b].weight /\ Announced(c, b).numeric = Numeric[b]
    BY SMT, <1>1, <1>4, <1>5 DEF Announced
  <2> QED
    BY <2>1, <2>2 DEF IsSyncNeeded, Better, c
<1>8. ~Better(made, g, c.tip)
  BY <1>1, <1>4, <1>5, <1>6, <1>7, BetterTrans
<1> QED
  BY <1>8 DEF g, c

\* syncNode sends at most a request.
SyncSends(e) ==
  \/ sent' = sent
  \/ \E m : m.type = "GetBlockHashesRequest" /\ sent' = [sent EXCEPT ![e] = Append(sent[e], m)]

\* What steps of syncNode have in common.
LEMMA SyncActStep ==
  ASSUME CounterInv, NEW e \in Ends, SyncUnchanged, sync[e] # "none",
         NEW p, sync' = [sync EXCEPT ![e] = p], NEW b, best' = [best EXCEPT ![e] = b],
         SyncSends(e), SyncEnd(e)'
  PROVE  CounterInv'
<1>1. /\ made' = made /\ chain' = chain /\ value' = value /\ candidate' = candidate
      /\ run' = run /\ myBest' = myBest /\ status' = status /\ batch' = batch /\ pending' = pending
      /\ down' = down /\ garbled' = garbled /\ missed' = missed
      /\ stopped' = stopped /\ isInShutdown' = isInShutdown /\ closed' = closed
  BY DEF SyncUnchanged, nodeVars, stageVars
<1>2. Fcn(sync, Ends) /\ Fcn(best, Ends) /\ Fcn(sent, Ends)
  BY DEF CounterInv, TypeInv
<1>3. /\ Fcn(sync', Ends) /\ \A d \in Ends \ {e} : sync'[d] = sync[d]
      /\ Fcn(best', Ends) /\ \A d \in Ends \ {e} : best'[d] = best[d]
  BY <1>2 DEF Fcn
<1>4. /\ Fcn(sent', Ends)
      /\ \A d \in Ends : \/ sent'[d] = sent[d]
                         \/ /\ d = e
                            /\ \E m : m.type = "GetBlockHashesRequest" /\ sent'[d] = Append(sent[d], m)
  <2>1. CASE sent' = sent
    BY <1>2, <2>1
  <2>2. CASE \E m : m.type = "GetBlockHashesRequest" /\ sent' = [sent EXCEPT ![e] = Append(sent[e], m)]
    <3>1. PICK m : m.type = "GetBlockHashesRequest" /\ sent' = [sent EXCEPT ![e] = Append(sent[e], m)]
      BY <2>2
    <3>2. /\ Fcn(sent', Ends) /\ sent'[e] = Append(sent[e], m)
          /\ \A d \in Ends \ {e} : sent'[d] = sent[d]
      BY <1>2, <3>1 DEF Fcn
    <3> QED
      BY <3>1, <3>2
  <2> QED
    BY <2>1, <2>2 DEF SyncSends
<1>5. TypeInv'
  BY <1>1, <1>3, <1>4 DEF CounterInv, TypeInv
<1>6. ChainInv' /\ ValueInv' /\ Grows
  BY <1>1, NodeStutter DEF CounterInv
<1>7. run[e] = "listen"
  BY SyncRuns
<1>8. ASSUME NEW d \in Ends
      PROVE  SentStep(d) /\ TalkStep(d) /\ \A x \in Elems(sent[d]) : x \in Elems(sent'[d])
  <2>1. CASE sent'[d] = sent[d]
    BY <1>1, <1>3, <1>7, <2>1 DEF SentStep, TalkStep
  <2>2. CASE d = e /\ \E m : m.type = "GetBlockHashesRequest" /\ sent'[d] = Append(sent[d], m)
    <3>1. PICK m : m.type = "GetBlockHashesRequest" /\ sent'[d] = Append(sent[d], m)
      BY <2>2
    <3>2. MsgOK(d, m)'
      BY <3>1 DEF MsgOK
    <3>3. IsQueue(sent[d])
      BY DEF CounterInv, MsgInv, MsgEnd
    <3>4. Elems(Append(sent[d], m)) = Elems(sent[d]) \cup {m}
      BY ONLY Zenon, <3>3, AppendFact
    <3> QED
      BY <1>1, <1>3, <1>7, <2>2, <3>1, <3>2, <3>4 DEF SentStep, TalkStep
  <2> QED
    BY <1>4, <2>1, <2>2
<1>9. MsgInv'
  BY <1>1, <1>6, <1>8, MsgStep DEF CounterInv, MsgInv, BatchStep, PendingStep
<1>10. HelloInv'
  BY <1>1, <1>6, <1>8, HelloStep DEF CounterInv, HelloInv
<1>11. StageInv'
  BY <1>1 DEF CounterInv, StageInv
<1>12. ASSUME NEW d \in Ends \ {e} PROVE SyncEnd(d)'
  BY <1>1, <1>3, <1>6, SyncStep DEF CounterInv, SyncInv
<1>13. ASSUME NEW d \in Ends PROVE SpreadEnd(d)'
  BY <1>1, <1>6, <1>8, SpreadEndStep DEF CounterInv, SpreadInv, SpreadStep
<1> QED
  BY <1>5, <1>6, <1>9, <1>10, <1>11, <1>12, <1>13 DEF CounterInv, SyncInv, SpreadInv

\* syncNode ends when it has met the announcement, or when the connection is gone.
LEMMA SyncNodeStep ==
  ASSUME CounterInv, NEW e \in Ends, SyncNode(e)
  PROVE  CounterInv'
<1>1. /\ Fcn(sync, Ends) /\ Fcn(best, Ends) /\ e[1] \in Node
  BY EndFact DEF CounterInv, TypeInv
<1>2. best = [best EXCEPT ![e] = best[e]]
  BY <1>1 DEF Fcn
<1>3. /\ "begin" # "none" /\ "test" # "none" /\ "loop" # "none" /\ "wait" # "none"
      /\ "next" # "none" /\ "best" # "none"
      /\ \A p \in {"test", "loop", "wait", "next", "best"} : p # "done" /\ p # "failed"
  OBVIOUS
<1>4. SyncUnchanged
  BY DEF SyncNode, BeginSync, SyncTest, RequestHashes, ReadChan, SyncNext, SyncBest
<1>5. /\ chain' = chain /\ made' = made /\ myBest' = myBest /\ down' = down /\ garbled' = garbled
      /\ closed' = closed /\ (Connected(e)' <=> Connected(e))
  BY <1>4 DEF SyncUnchanged, nodeVars, stageVars, Connected
<1>6. SyncEnd(e)
  BY DEF CounterInv, SyncInv
\* The place that syncNode goes to, and what holds there.
<1> DEFINE Good(p) == /\ p = "done" /\ Connected(e) /\ Other(e) \notin garbled =>
                           ~IsSyncNeeded(e, best[e])
                      /\ p = "failed" => ~Connected(e)
<1>7. ASSUME NEW p, sync[e] # "none", sync' = [sync EXCEPT ![e] = p], Good(p), best' = best, SyncSends(e)
      PROVE  CounterInv'
  <2>1. sync'[e] = p
    BY <1>1, <1>7 DEF Fcn
  <2>2. p = "done" /\ Connected(e) /\ Other(e) \notin garbled =>
          ~Better(made, myBest[Other(e)], chain[e[1]].tip)
    BY <1>7, SyncMet
  <2>3. SyncEnd(e)'
    BY <1>5, <1>6, <1>7, <2>1, <2>2 DEF SyncEnd
  <2>4. PICK b : b = best[e]
    OBVIOUS
  <2>5. best' = [best EXCEPT ![e] = b]
    BY <1>2, <1>7, <2>4
  <2> QED
    BY <1>4, <1>7, <2>3, <2>5, SyncActStep
<1>8. CASE BeginSync(e)
  <2>1. sync[e] = "begin" /\ best' = best /\ sent' = sent
    BY <1>8 DEF BeginSync
  <2>2. PICK p : sync' = [sync EXCEPT ![e] = p] /\ (p = "test" \/ (p = "done" /\ ~IsSyncNeeded(e, best[e])))
    <3>1. \/ sync' = [sync EXCEPT ![e] = "test"]
          \/ sync' = [sync EXCEPT ![e] = "done"] /\ ~IsSyncNeeded(e, best[e])
      BY <1>8 DEF BeginSync
    <3> QED
      BY <3>1
  <2>3. p # "failed"
    BY <2>2
  <2>4. Good(p)
    BY <1>3, <2>2, <2>3
  <2> QED
    BY <1>3, <1>7, <2>1, <2>2, <2>4 DEF SyncSends
<1>9. CASE SyncTest(e)
  <2>1. sync[e] = "test" /\ best' = best /\ sent' = sent
    BY <1>9 DEF SyncTest
  <2>2. PICK p : p = IF e[1] \notin isInShutdown /\ IsSyncNeeded(e, best[e]) THEN "loop" ELSE "done"
    OBVIOUS
  <2>3. sync' = [sync EXCEPT ![e] = p]
    BY <1>9, <2>2 DEF SyncTest
  <2>4. Good(p)
    <3>1. p # "failed"
      BY <2>2
    <3>2. Connected(e) => e[1] \notin isInShutdown
      BY ConnectedFact DEF CounterInv
    <3> QED
      BY <1>3, <2>2, <3>1, <3>2
  <2> QED
    BY <1>3, <1>7, <2>1, <2>3, <2>4 DEF SyncSends
<1>10. CASE RequestHashes(e)
  <2>1. sync[e] = "loop" /\ best' = best
    BY <1>10 DEF RequestHashes
  <2>2. PICK m : m = [type |-> "GetBlockHashesRequest", parent |-> lastHash[e]]
    OBVIOUS
  <2>3. m.type = "GetBlockHashesRequest"
    BY <2>2
  <2>4. SyncSends(e)
    BY <1>10, <2>2, <2>3 DEF RequestHashes, SyncSends
  <2>5. PICK p : sync' = [sync EXCEPT ![e] = p] /\ (p = "wait" \/ (p = "failed" /\ ~Connected(e)))
    <3>1. \/ sync' = [sync EXCEPT ![e] = "wait"]
          \/ sync' = [sync EXCEPT ![e] = "failed"] /\ ~Connected(e)
      BY <1>10 DEF RequestHashes
    <3> QED
      BY <3>1
  <2>6. p # "done"
    BY <2>5
  <2>7. Good(p)
    BY <1>3, <2>5, <2>6
  <2> QED
    BY <1>3, <1>7, <2>1, <2>4, <2>5, <2>7
<1>11. CASE ReadChan(e)
  <2>1. sync[e] = "wait" /\ best' = best /\ sent' = sent
    BY <1>11 DEF ReadChan
  <2>2. PICK p : sync' = [sync EXCEPT ![e] = p] /\ (p = "next" \/ (p = "failed" /\ ~Connected(e)))
    <3>1. \/ sync' = [sync EXCEPT ![e] = "next"]
          \/ sync' = [sync EXCEPT ![e] = "failed"] /\ ~Connected(e)
      BY <1>11 DEF ReadChan, Closed
    <3> QED
      BY <3>1
  <2>3. p # "done"
    BY <2>2
  <2>4. Good(p)
    BY <1>3, <2>2, <2>3
  <2> QED
    BY <1>3, <1>7, <2>1, <2>2, <2>4 DEF SyncSends
<1>12. CASE SyncNext(e)
  <2>1. sync[e] = "next" /\ best' = best /\ sent' = sent
    BY <1>12 DEF SyncNext
  <2>2. PICK p : p = IF e[1] \in isInShutdown THEN "test" ELSE "best"
    OBVIOUS
  <2>3. sync' = [sync EXCEPT ![e] = p]
    BY <1>12, <2>2 DEF SyncNext
  <2>4. Good(p)
    BY <1>3, <2>2
  <2> QED
    BY <1>3, <1>7, <2>1, <2>3, <2>4 DEF SyncSends
<1>13. CASE SyncBest(e)
  <2>1. PICK b : b = IF e[1] \in closed THEN NoHash ELSE chain[e[1]].tip
    OBVIOUS
  <2>2. /\ sync[e] = "best" /\ sync' = [sync EXCEPT ![e] = "test"]
        /\ best' = [best EXCEPT ![e] = b] /\ sent' = sent
    BY <1>13, <2>1 DEF SyncBest
  <2>3. sync'[e] = "test" /\ best'[e] = b
    BY <1>1, <2>2 DEF Fcn
  <2>4. chain[e[1]].tip \in Known(chain[e[1]])
    BY <1>1 DEF CounterInv, ChainInv, IsChain
  <2>5. SyncEnd(e)'
    BY <1>3, <1>5, <2>1, <2>3, <2>4 DEF SyncEnd
  <2> QED
    BY <1>3, <1>4, <2>2, <2>5, SyncActStep DEF SyncSends
<1> QED
  BY <1>8, <1>9, <1>10, <1>11, <1>12, <1>13 DEF SyncNode

-----------------------------------------------------------------------------
(* Steps of listen *)

\* What steps of listen, of the miner and of the application have in common.
LEMMA TameStep ==
  ASSUME CounterInv, TypeInv', ChainInv', ValueInv', Grows, StageInv',
         run' = run, myBest' = myBest, status' = status, garbled' = garbled,
         sync' = sync, best' = best, closed \subseteq closed', down \subseteq down',
         \A d \in Ends : SentStep(d) /\ TalkStep(d) /\ BatchStep(d) /\ PendingStep(d),
         \A d \in Ends : SpreadEnd(d)'
  PROVE  CounterInv'
<1>1. MsgInv'
  BY MsgStep DEF CounterInv, MsgInv
<1>2. HelloInv'
  BY HelloStep DEF CounterInv, HelloInv
<1>3. ASSUME NEW d \in Ends PROVE SyncEnd(d)'
  BY SyncStep DEF CounterInv, SyncInv
<1> QED
  BY <1>1, <1>2, <1>3 DEF CounterInv, SyncInv, SpreadInv

\* The state of the node's stages does not change, and more connections break.
LEMMA StageSame ==
  ASSUME StageInv, stageVars' = stageVars, down \subseteq down'
  PROVE  StageInv' /\ closed' = closed
<1>1. stopped' = stopped /\ isInShutdown' = isInShutdown /\ closed' = closed
  BY DEF stageVars
<1> QED
  BY <1>1 DEF StageInv

\* The handler of a message takes it, and may answer.
HandlerSends(e) == Consume(e) \/ \E m : Reply(e, m) /\ MsgOK(e, m)

LEMMA HandlerSent ==
  ASSUME CounterInv, NEW e \in Ends, sent[Other(e)] # <<>>, HandlerSends(e)
  PROVE  /\ Fcn(sent', Ends) /\ sent'[Other(e)] = Tail(sent[Other(e)])
         /\ \/ sent'[e] = sent[e]
            \/ \E m : sent'[e] = Append(sent[e], m) /\ MsgOK(e, m)
         /\ \A d \in Ends \ {e, Other(e)} : sent'[d] = sent[d]
         /\ \A d \in Ends : \A x \in Elems(sent[d]) :
              x \in Elems(sent'[d]) \/ (d = Other(e) /\ x = Head(sent[d]))
<1>1. PICK o \in Ends : o = Other(e) /\ o # e
  BY EndFact
<1>2. Fcn(sent, Ends) /\ IsQueue(sent[e]) /\ IsQueue(sent[o])
  BY DEF CounterInv, TypeInv, MsgInv, MsgEnd
<1>3. Elems(sent[o]) \subseteq Elems(Tail(sent[o])) \cup {Head(sent[o])}
  BY <1>1, <1>2, TailFact
<1>4. CASE Consume(e)
  <2>1. sent' = [sent EXCEPT ![o] = Tail(sent[o])]
    BY <1>1, <1>4 DEF Consume
  <2>2. /\ Fcn(sent', Ends) /\ sent'[o] = Tail(sent[o])
        /\ \A d \in Ends \ {o} : sent'[d] = sent[d]
    BY <1>2, <2>1 DEF Fcn
  <2> QED
    BY <1>1, <1>3, <2>2
<1>5. CASE \E m : Reply(e, m) /\ MsgOK(e, m)
  <2>1. PICK m : Reply(e, m) /\ MsgOK(e, m)
    BY <1>5
  <2>2. sent' = [sent EXCEPT ![o] = Tail(sent[o]), ![e] = Append(sent[e], m)]
    BY <1>1, <1>2, <2>1 DEF Reply, Fcn
  <2>3. /\ Fcn(sent', Ends) /\ sent'[o] = Tail(sent[o]) /\ sent'[e] = Append(sent[e], m)
        /\ \A d \in Ends \ {e, o} : sent'[d] = sent[d]
    BY <1>1, <1>2, <2>2 DEF Fcn
  <2>4. Elems(Append(sent[e], m)) = Elems(sent[e]) \cup {m}
    BY ONLY Zenon, <1>2, AppendFact
  <2> QED
    BY <1>1, <1>3, <2>1, <2>3, <2>4
<1> QED
  BY <1>4, <1>5 DEF HandlerSends

\* What listen is to work on next comes from the peer.
HandlerBatch(e) ==
  \/ batch' = batch
  \/ \E q : IsQueue(q) /\ Elems(q) \subseteq Known(chain[e[2]]) /\ batch' = [batch EXCEPT ![e] = q]

\* Messages other than NewBlock.
LEMMA HandlerStep ==
  ASSUME CounterInv, NEW e \in Ends, Listening(e), sent[Other(e)] # <<>>,
         Head(sent[Other(e)]).type # "NewBlock", HandlerSends(e), HandlerBatch(e),
         ListenUnchanged, UNCHANGED <<nodeVars, pending, missed>>, down \subseteq down'
  PROVE  CounterInv'
<1>0. PICK o \in Ends : o = Other(e) /\ o # e /\ Other(o) = e
  BY EndFact
<1>1. /\ made' = made /\ chain' = chain /\ value' = value /\ candidate' = candidate
      /\ run' = run /\ myBest' = myBest /\ status' = status /\ sync' = sync /\ best' = best
      /\ pending' = pending /\ garbled' = garbled /\ missed' = missed /\ stageVars' = stageVars
      /\ run[e] = "listen"
  BY DEF ListenUnchanged, nodeVars, syncVars, Listening
<1>2. /\ Fcn(sent', Ends) /\ sent'[o] = Tail(sent[o])
      /\ \/ sent'[e] = sent[e]
         \/ \E m : sent'[e] = Append(sent[e], m) /\ MsgOK(e, m)
      /\ \A d \in Ends \ {e, o} : sent'[d] = sent[d]
      /\ \A d \in Ends : \A x \in Elems(sent[d]) :
           x \in Elems(sent'[d]) \/ (d = o /\ x = Head(sent[o]))
  BY <1>0, HandlerSent
<1>3. Fcn(batch', Ends) /\ \A d \in Ends : BatchStep(d) /\ (d # e => batch'[d] = batch[d])
  <2>1. Fcn(batch, Ends)
    BY DEF CounterInv, TypeInv
  <2>2. CASE batch' = batch
    BY <2>1, <2>2 DEF BatchStep
  <2>3. CASE \E q : IsQueue(q) /\ Elems(q) \subseteq Known(chain[e[2]]) /\ batch' = [batch EXCEPT ![e] = q]
    <3>1. PICK q : IsQueue(q) /\ Elems(q) \subseteq Known(chain[e[2]]) /\ batch' = [batch EXCEPT ![e] = q]
      BY <2>3
    <3>2. Fcn(batch', Ends) /\ batch'[e] = q /\ \A d \in Ends \ {e} : batch'[d] = batch[d]
      BY <2>1, <3>1 DEF Fcn
    <3> QED
      BY <3>1, <3>2 DEF BatchStep
  <2> QED
    BY <2>2, <2>3 DEF HandlerBatch
<1>4. TypeInv'
  BY <1>1, <1>2, <1>3 DEF CounterInv, TypeInv
<1>5. ChainInv' /\ ValueInv' /\ Grows
  BY <1>1, NodeStutter DEF CounterInv
<1>6. StageInv' /\ closed' = closed
  BY <1>1, StageSame DEF CounterInv
<1>7. ASSUME NEW d \in Ends PROVE SentStep(d) /\ TalkStep(d) /\ PendingStep(d)
  <2>1. \A m : MsgOK(e, m)' <=> MsgOK(e, m)
    BY <1>1 DEF MsgOK
  <2>2. SentStep(d)
    BY <1>0, <1>2, <2>1 DEF SentStep
  <2>3. TalkStep(d)
    BY <1>0, <1>1, <1>2, <1>3 DEF TalkStep
  <2> QED
    BY <1>1, <2>2, <2>3 DEF PendingStep
<1>8. ASSUME NEW d \in Ends PROVE SpreadEnd(d)'
  <2>1. ASSUME NEW h PROVE NewBlockMsg(h) \in Elems(sent[d]) => NewBlockMsg(h) \in Elems(sent'[d])
    <3>1. NewBlockMsg(h).type = "NewBlock"
      BY DEF NewBlockMsg
    <3> QED
      BY <1>0, <1>2, <3>1
  <2> QED
    BY <1>1, <1>5, <2>1, SpreadEndStep DEF CounterInv, SpreadInv, SpreadStep
<1> QED
  BY <1>1, <1>3, <1>4, <1>5, <1>6, <1>7, <1>8, TameStep

\* The handlers of the messages of a sync.
LEMMA SyncMessagesStep ==
  ASSUME CounterInv, NEW e \in Ends,
         \/ HandleHashesRequest(e) \/ HandleHashesResponse(e) \/ HandleRewind(e)
         \/ HandleBlocksRequest(e) \/ HandleBlocksResponse(e)
  PROVE  CounterInv'
<1>0. PICK o \in Ends : /\ o = Other(e) /\ o # e /\ Other(o) = e /\ o[1] = e[2] /\ o[2] = e[1]
                        /\ e[1] \in Node
  BY EndFact
<1>1. Listening(e) /\ sent[o] # <<>> /\ Head(sent[o]).type # "NewBlock"
  BY <1>0 DEF HandleHashesRequest, HandleHashesResponse, HandleRewind, HandleBlocksRequest,
              HandleBlocksResponse, Receives
<1>2. PICK msg : msg = Message(e)
  OBVIOUS
<1>3. msg \in Elems(sent[o]) /\ MsgOK(o, msg)
  <2>1. IsQueue(sent[o]) /\ \A m \in Elems(sent[o]) : MsgOK(o, m)
    BY DEF CounterInv, MsgInv, MsgEnd
  <2>2. Head(sent[o]) \in Elems(sent[o])
    BY <1>1, <2>1, TailFact
  <2> QED
    BY <1>0, <1>2, <2>1, <2>2 DEF Message
<1>4. ListenUnchanged /\ UNCHANGED <<nodeVars, pending, missed>>
  BY DEF HandleHashesRequest, HandleHashesResponse, HandleRewind, HandleBlocksRequest,
               HandleBlocksResponse, listenVars
<1>5. ASSUME HandlerSends(e), HandlerBatch(e), down \subseteq down' PROVE CounterInv'
  BY <1>0, <1>1, <1>4, <1>5, HandlerStep
<1>6. CASE HandleHashesRequest(e)
  <2>1. PICK hashes : hashes = DescendentsOf(chain[e[1]], msg.parent, SyncBlocks)
    OBVIOUS
  <2>2. IsQueue(hashes) /\ Elems(hashes) \subseteq Known(chain[e[1]])
    <3>1. IsChain(chain[e[1]]) /\ SyncBlocks \in Nat
      BY <1>0, CounterAssumption DEF CounterInv, ChainInv
    <3>2. hashes \in Seq(Known(chain[e[1]]))
      BY <2>1, <3>1, DescendentsKnown
    <3> QED
      BY <3>2, SeqFact
  <2>3. PICK m : m = IF hashes = <<>> THEN [type |-> "GetBlockHashesRewind"]
                     ELSE [type |-> "GetBlockHashesResponse", hashes |-> hashes]
    OBVIOUS
  <2>4. Reply(e, m) /\ batch' = batch /\ down' = down
    BY <1>2, <1>6, <2>1, <2>3 DEF HandleHashesRequest, listenVars
  <2>5. MsgOK(e, m)
    BY <2>2, <2>3 DEF MsgOK
  <2> QED
    BY <1>5, <2>4, <2>5 DEF HandlerSends, HandlerBatch
<1>7. CASE HandleHashesResponse(e)
  <2>1. PICK m : m = [type |-> "GetBlocksRequest", hashes |-> msg.hashes]
    OBVIOUS
  <2>2. Reply(e, m) /\ batch' = batch /\ down' = down /\ msg.type = "GetBlockHashesResponse"
    BY <1>2, <1>7, <2>1 DEF HandleHashesResponse, listenVars, Receives, Message
  <2>3. IsQueue(msg.hashes) /\ Elems(msg.hashes) \subseteq Known(chain[e[2]])
    BY <1>0, <1>3, <2>2 DEF MsgOK
  <2>4. MsgOK(e, m)
    BY <2>1, <2>3 DEF MsgOK
  <2> QED
    BY <1>5, <2>2, <2>4 DEF HandlerSends, HandlerBatch
<1>8. CASE HandleRewind(e)
  <2>1. Consume(e) /\ batch' = batch /\ down \subseteq down'
    BY <1>8 DEF HandleRewind
  <2> QED
    BY <1>5, <2>1 DEF HandlerSends, HandlerBatch
<1>9. CASE HandleBlocksRequest(e)
  <2>1. PICK m : m = [type |-> "GetBlocksResponse", hashes |-> msg.hashes]
    OBVIOUS
  <2>2. Reply(e, m) /\ batch' = batch /\ down' = down /\ msg.type = "GetBlocksRequest"
    BY <1>2, <1>9, <2>1 DEF HandleBlocksRequest, listenVars, Receives, Message
  <2>3. IsQueue(msg.hashes) /\ Elems(msg.hashes) \subseteq Known(chain[e[1]])
    BY <1>0, <1>3, <2>2 DEF MsgOK
  <2>4. MsgOK(e, m)
    BY <2>1, <2>3 DEF MsgOK
  <2> QED
    BY <1>5, <2>2, <2>4 DEF HandlerSends, HandlerBatch
<1>10. CASE HandleBlocksResponse(e)
  <2>1. /\ Consume(e) /\ batch' = [batch EXCEPT ![e] = msg.hashes] /\ down' = down
        /\ msg.type = "GetBlocksResponse"
    BY <1>2, <1>10 DEF HandleBlocksResponse, Receives, Message
  <2>2. IsQueue(msg.hashes) /\ Elems(msg.hashes) \subseteq Known(chain[e[2]])
    BY <1>0, <1>3, <2>1 DEF MsgOK
  <2> QED
    BY <1>5, <2>1, <2>2 DEF HandlerSends, HandlerBatch
<1> QED
  BY <1>6, <1>7, <1>8, <1>9, <1>10

\* A block that was accepted is still to be broadcast to the other peers; the
\* sender has it.
LEMMA AcceptSpread ==
  ASSUME CounterInv, NEW e \in Ends, NEW h \in Known(chain[e[2]]), Accepts(e[1], h), Accept(e, h),
         pending[e] = NoHash, run' = run, myBest' = myBest, down' = down, missed' = missed,
         \A d \in Ends : \A g : NewBlockMsg(g) \in Elems(sent[d]) =>
           NewBlockMsg(g) \in Elems(sent'[d]) \/ g \in Known(chain'[d[2]])
  PROVE  /\ ChainInv' /\ ValueInv' /\ Grows /\ made' = made
         /\ Fcn(chain', Node) /\ Fcn(value', Node) /\ \A n \in Node : Fcn(value'[n], Hash)
         /\ candidate' = candidate /\ Fcn(pending', Ends)
         /\ \A d \in Ends : PendingStep(d) /\ SpreadEnd(d)'
         /\ \A d \in Ends \ {e} : pending'[d] = pending[d]
         /\ h \in Known(chain'[e[1]])
<1>0. /\ e[1] \in Node /\ e[2] \in Node /\ e[1] # e[2]
  BY EndFact
<1>1. h \in Known(All)
  BY <1>0 DEF CounterInv, ChainInv, Within
<1>2. /\ ChainInv' /\ ValueInv' /\ Grows /\ made' = made
      /\ Known(chain'[e[1]]) = Known(chain[e[1]]) \cup {h}
      /\ \A n \in Node \ {e[1]} : chain'[n] = chain[n]
  BY <1>1, AcceptStep DEF CounterInv, NodeInv
<1>3. /\ Fcn(chain, Node) /\ Fcn(value, Node) /\ Fcn(pending, Ends)
      /\ \A n \in Node : Fcn(value[n], Hash)
  BY DEF CounterInv, TypeInv
<1>4. PICK v, c, p : /\ chain' = [chain EXCEPT ![e[1]] = c] /\ value' = [value EXCEPT ![e[1]][h] = v]
                     /\ pending' = [pending EXCEPT ![e] = p] /\ candidate' = candidate
                     /\ p = IF h \in Known(chain[e[1]]) THEN NoHash ELSE h
  BY DEF Accept
<1>5. /\ Fcn(chain', Node) /\ Fcn(pending', Ends) /\ pending'[e] = p
      /\ \A d \in Ends \ {e} : pending'[d] = pending[d]
  BY <1>3, <1>4 DEF Fcn
<1>6. Fcn(value', Node) /\ \A n \in Node : Fcn(value'[n], Hash)
  <2>1. Fcn(value', Node) /\ value'[e[1]] = [value[e[1]] EXCEPT ![h] = v]
        /\ \A n \in Node \ {e[1]} : value'[n] = value[n]
    BY SMTT(30), <1>0, <1>3, <1>4 DEF Fcn
  <2>2. Fcn(value'[e[1]], Hash)
    BY SMT, <1>0, <1>3, <2>1 DEF Fcn
  <2> QED
    BY <1>3, <2>1, <2>2
<1>7. ASSUME NEW d \in Ends PROVE PendingStep(d)
  BY <1>2, <1>4, <1>5 DEF PendingStep
<1>8. ASSUME NEW d \in Ends, NEW g \in Known(chain[d[1]]) PROVE SpreadStep(d, g)
  <2>1. g # NoHash
    <3>1. Grown(chain[d[1]])
      BY EndFact DEF CounterInv, ChainInv, IsChain
    <3> QED
      BY <3>1, GenesisFact
  <2>2. \A f \in Ends : pending[f] = g => pending'[f] = g
    BY <1>5, <2>1
  <2>3. NewBlockMsg(g) \in Elems(sent[d]) =>
          NewBlockMsg(g) \in Elems(sent'[d]) \/ g \in Known(chain'[d[2]])
    OBVIOUS
  <2> QED
    BY ONLY Zenon, <2>2, <2>3 DEF SpreadStep
<1>9. ASSUME NEW d \in Ends PROVE SpreadEnd(d)'
  <2>0. d[1] \in Node /\ SpreadEnd(d)
    BY EndFact DEF CounterInv, SpreadInv
  <2>1. CASE Known(chain'[d[1]]) = Known(chain[d[1]])
    BY <1>2, <1>8, <2>0, <2>1, SpreadEndStep DEF CounterInv
  <2>2. CASE Known(chain'[d[1]]) # Known(chain[d[1]])
    <3>1. d[1] = e[1] /\ h \notin Known(chain[e[1]])
      BY <1>2, <2>0, <2>2
    <3>2. p = h
      BY <1>4, <3>1
    <3> SUFFICES ASSUME Connected(d)', d \notin missed', run'[d] # "best", NEW g \in Known(chain'[d[1]])
                 PROVE  Covered(d, g)'
      BY DEF SpreadEnd
    <3>3. CASE g = h
      <4>1. CASE d = e
        BY <1>0, <1>2, <3>3, <4>1 DEF Covered
      <4>2. CASE d # e
        BY <1>5, <3>1, <3>2, <3>3, <4>2 DEF Covered
      <4> QED
        BY <4>1, <4>2
    <3>4. CASE g # h
      <4>1. g \in Known(chain[d[1]])
        BY <1>2, <3>1, <3>4
      <4>2. Connected(d) /\ d \notin missed /\ run[d] # "best"
        BY DEF Connected
      <4>3. Covered(d, g) /\ myBest[d] \in Known(chain[d[1]])
        BY <2>0, <4>1, <4>2 DEF SpreadEnd, CounterInv, HelloInv, HelloEnd
      <4> QED
        BY <1>2, <1>8, <4>1, <4>3, CoveredStep DEF CounterInv
    <3> QED
      BY <3>3, <3>4
  <2> QED
    BY <2>1, <2>2
<1> QED
  BY <1>2, <1>4, <1>5, <1>6, <1>7, <1>9

\* A block of a response: added, skipped or refused.
LEMMA ProcessBlockStep ==
  ASSUME CounterInv, NEW e \in Ends, ProcessBlock(e)
  PROVE  CounterInv'
<1>0. PICK h : h = Head(batch[e])
  OBVIOUS
<1>1. /\ batch[e] # <<>> /\ pending[e] = NoHash /\ sent' = sent /\ missed' = missed
      /\ run' = run /\ myBest' = myBest /\ status' = status /\ sync' = sync /\ best' = best
      /\ garbled' = garbled /\ stageVars' = stageVars
  BY DEF ProcessBlock, ListenUnchanged, syncVars
<1>2. /\ IsQueue(batch[e]) /\ Elems(batch[e]) \subseteq Known(chain[e[2]]) /\ Fcn(batch, Ends)
      /\ (run[e] # "listen" => batch[e] = <<>>)
  BY DEF CounterInv, TypeInv, MsgInv, MsgEnd, HelloInv, HelloEnd
<1>3. h \in Known(chain[e[2]]) /\ run[e] = "listen"
  <2>1. Head(batch[e]) \in Elems(batch[e])
    BY <1>1, <1>2, TailFact
  <2> QED
    BY <1>0, <1>1, <1>2, <2>1
<1>4. CASE UNCHANGED <<nodeVars, pending>> /\ down \subseteq down'
           /\ \E q \in {Tail(batch[e]), <<>>} : batch' = [batch EXCEPT ![e] = q]
  <2>1. PICK q \in {Tail(batch[e]), <<>>} : batch' = [batch EXCEPT ![e] = q]
    BY <1>4
  <2>2. Fcn(batch', Ends) /\ batch'[e] = q /\ \A d \in Ends \ {e} : batch'[d] = batch[d]
    BY <1>2, <2>1 DEF Fcn
  <2>3. made' = made /\ chain' = chain /\ value' = value /\ candidate' = candidate /\ pending' = pending
    BY <1>4 DEF nodeVars
  <2>4. TypeInv'
    BY <1>1, <2>2, <2>3 DEF CounterInv, TypeInv
  <2>5. ChainInv' /\ ValueInv' /\ Grows
    BY <2>3, NodeStutter DEF CounterInv
  <2>6. StageInv' /\ closed' = closed
    BY <1>1, <1>4, StageSame DEF CounterInv
  <2>7. ASSUME NEW d \in Ends PROVE SentStep(d) /\ TalkStep(d) /\ BatchStep(d) /\ PendingStep(d)
    BY <1>1, <1>3, <2>1, <2>2, <2>3 DEF SentStep, TalkStep, BatchStep, PendingStep
  <2>8. ASSUME NEW d \in Ends PROVE SpreadEnd(d)'
    BY <1>1, <1>4, <2>3, <2>5, SpreadEndStep DEF CounterInv, SpreadInv, SpreadStep
  <2> QED
    BY <1>1, <1>4, <2>4, <2>5, <2>6, <2>7, <2>8, TameStep
<1>5. CASE Accepts(e[1], h) /\ Accept(e, h) /\ UNCHANGED <<batch, down>>
  <2>1. /\ ChainInv' /\ ValueInv' /\ Grows
        /\ Fcn(chain', Node) /\ Fcn(value', Node) /\ \A n \in Node : Fcn(value'[n], Hash)
        /\ candidate' = candidate /\ Fcn(pending', Ends)
        /\ \A d \in Ends : PendingStep(d) /\ SpreadEnd(d)'
        /\ \A d \in Ends \ {e} : pending'[d] = pending[d]
    BY <1>1, <1>3, <1>5, AcceptSpread
  <2>2. TypeInv'
    BY <1>1, <1>5, <2>1 DEF CounterInv, TypeInv
  <2>3. StageInv' /\ closed' = closed
    BY <1>1, <1>5, StageSame DEF CounterInv
  <2>4. ASSUME NEW d \in Ends PROVE SentStep(d) /\ TalkStep(d) /\ BatchStep(d)
    BY <1>1, <1>3, <1>5, <2>1 DEF SentStep, TalkStep, BatchStep
  <2> QED
    BY <1>1, <1>5, <2>1, <2>2, <2>3, <2>4, TameStep
<1> QED
  <2>1. CASE h \in Known(chain[e[1]]) /\ Advance(e) /\ UNCHANGED <<nodeVars, pending, down>>
    BY <1>4, <2>1 DEF Advance
  <2>2. CASE down' = down \cup {Link(e)} /\ batch' = [batch EXCEPT ![e] = <<>>]
             /\ UNCHANGED <<nodeVars, pending>>
    BY <1>4, <2>2
  <2> QED
    BY <1>0, <1>5, <2>1, <2>2 DEF ProcessBlock

\* A block announced by a peer: added, skipped or refused.
LEMMA HandleNewBlockStep ==
  ASSUME CounterInv, NEW e \in Ends, HandleNewBlock(e)
  PROVE  CounterInv'
<1>0. PICK o \in Ends : /\ o = Other(e) /\ o # e /\ Other(o) = e /\ o[1] = e[2] /\ o[2] = e[1]
                        /\ Link(o) = Link(e)
  BY EndFact
<1>1. /\ Listening(e) /\ sent[o] # <<>> /\ Head(sent[o]).type = "NewBlock" /\ Consume(e)
      /\ batch' = batch /\ missed' = missed
      /\ run' = run /\ myBest' = myBest /\ status' = status /\ sync' = sync /\ best' = best
      /\ garbled' = garbled /\ stageVars' = stageVars
  BY <1>0 DEF HandleNewBlock, Receives, ListenUnchanged, syncVars
<1>2. PICK h : h = Head(sent[o]).hash
  OBVIOUS
<1>3. h \in Known(chain[e[2]]) /\ run[e] = "listen" /\ pending[e] = NoHash
  <2>1. IsQueue(sent[o]) /\ \A m \in Elems(sent[o]) : MsgOK(o, m)
    BY DEF CounterInv, MsgInv, MsgEnd
  <2>2. Head(sent[o]) \in Elems(sent[o])
    BY <1>1, <2>1, TailFact
  <2>3. MsgOK(o, Head(sent[o]))
    BY <2>1, <2>2
  <2> QED
    BY <1>0, <1>1, <1>2, <2>3 DEF MsgOK, Listening
<1>4. /\ Fcn(sent', Ends) /\ sent'[o] = Tail(sent[o])
      /\ \A d \in Ends : \A x \in Elems(sent[d]) :
           x \in Elems(sent'[d]) \/ (d = o /\ x = Head(sent[o]))
  BY <1>0, <1>1, HandlerSent DEF HandlerSends
<1>5. \A d \in Ends \ {o} : sent'[d] = sent[d]
  <2>1. sent' = [sent EXCEPT ![o] = Tail(sent[o])] /\ Fcn(sent, Ends)
    BY <1>0, <1>1 DEF Consume, CounterInv, TypeInv
  <2> QED
    BY <2>1 DEF Fcn
<1>6. ASSUME NEW d \in Ends PROVE SentStep(d) /\ BatchStep(d)
  BY <1>1, <1>4, <1>5 DEF SentStep, BatchStep
<1>7. ASSUME NEW d \in Ends, d # e => pending'[d] = pending[d] PROVE TalkStep(d)
  BY <1>0, <1>1, <1>3, <1>5, <1>7 DEF TalkStep
<1>8. ASSUME NEW g, NEW d \in Ends, NewBlockMsg(g) \in Elems(sent[d])
      PROVE  NewBlockMsg(g) \in Elems(sent'[d]) \/ (d = o /\ g = h)
  <2>1. NewBlockMsg(g).hash = g
    BY DEF NewBlockMsg
  <2> QED
    BY <1>2, <1>4, <1>8, <2>1
<1>9. CASE Accepts(e[1], h) /\ Accept(e, h) /\ down' = down
  <2>1. h \in Known(chain'[e[1]])
    <3>1. h \in Known(All)
      BY <1>3, EndFact DEF CounterInv, ChainInv, Within
    <3>2. Known(chain'[e[1]]) = Known(chain[e[1]]) \cup {h}
      BY <1>9, <3>1, AcceptStep DEF CounterInv, NodeInv
    <3> QED
      BY <3>2
  <2>2. \A d \in Ends : \A g : NewBlockMsg(g) \in Elems(sent[d]) =>
          NewBlockMsg(g) \in Elems(sent'[d]) \/ g \in Known(chain'[d[2]])
    BY <1>0, <1>8, <2>1
  <2>3. /\ ChainInv' /\ ValueInv' /\ Grows
        /\ Fcn(chain', Node) /\ Fcn(value', Node) /\ \A n \in Node : Fcn(value'[n], Hash)
        /\ candidate' = candidate /\ Fcn(pending', Ends)
        /\ \A d \in Ends : PendingStep(d) /\ SpreadEnd(d)'
        /\ \A d \in Ends \ {e} : pending'[d] = pending[d]
    BY <1>1, <1>3, <1>9, <2>2, AcceptSpread
  <2>4. TypeInv'
    BY <1>1, <1>4, <2>3 DEF CounterInv, TypeInv
  <2>5. StageInv' /\ closed' = closed
    BY <1>1, <1>9, StageSame DEF CounterInv
  <2>6. \A d \in Ends : TalkStep(d)
    BY <1>7, <2>3
  <2> QED
    BY <1>1, <1>6, <1>9, <2>3, <2>4, <2>5, <2>6, TameStep
<1>10. CASE down' = down \cup {Link(e)} /\ UNCHANGED <<nodeVars, pending>>
  <2>1. made' = made /\ chain' = chain /\ value' = value /\ candidate' = candidate /\ pending' = pending
    BY <1>10 DEF nodeVars
  <2>2. TypeInv'
    BY <1>1, <1>4, <2>1 DEF CounterInv, TypeInv
  <2>3. ChainInv' /\ ValueInv' /\ Grows
    BY <2>1, NodeStutter DEF CounterInv
  <2>4. StageInv' /\ closed' = closed
    BY <1>1, <1>10, StageSame DEF CounterInv
  <2>5. \A d \in Ends : TalkStep(d) /\ PendingStep(d)
    BY <1>7, <2>1 DEF PendingStep
  <2>6. ASSUME NEW d \in Ends PROVE SpreadEnd(d)'
    <3>1. ASSUME Connected(d)', NEW g PROVE SpreadStep(d, g)
      <4>1. d # o
        BY <1>0, <1>10, <3>1 DEF Connected
      <4> QED
        BY <1>5, <2>1, <4>1 DEF SpreadStep
    <3> QED
      BY <1>1, <1>10, <2>1, <2>3, <3>1, SpreadEndStep DEF CounterInv, SpreadInv
  <2> QED
    BY <1>1, <1>6, <1>10, <2>2, <2>3, <2>4, <2>5, <2>6, TameStep
<1> QED
  BY <1>0, <1>2, <1>9, <1>10 DEF HandleNewBlock, Message

\* The registered peers that are connected are told, and the others missed it.
LEMMA BroadCastFact ==
  ASSUME CounterInv, NEW n, NEW h, NEW except, BroadCast(n, h, except)
  PROVE  /\ Fcn(sent', Ends) /\ missed \subseteq missed'
         /\ \A d \in Ends :
              /\ \/ sent'[d] = sent[d]
                 \/ d[1] = n /\ run[d] = "listen" /\ sent'[d] = Append(sent[d], NewBlockMsg(h))
              /\ Elems(sent[d]) \subseteq Elems(sent'[d])
              /\ d[1] = n /\ d \notin except /\ Connected(d) /\ d \notin missed' /\ run[d] # "best" =>
                   NewBlockMsg(h) \in Elems(sent'[d])
<1>1. /\ sent' = [e \in Ends |->
           IF e[1] = n /\ run[e] = "listen" /\ Connected(e) /\ e \notin except
           THEN Append(sent[e], NewBlockMsg(h)) ELSE sent[e]]
      /\ missed' = missed \cup
           {e \in Ends : e[1] = n /\ run[e] \in {"weight", "numeric", "send", "read"}}
  BY DEF BroadCast, NewBlockMsg
<1>2. Fcn(sent', Ends) /\ missed \subseteq missed'
  BY <1>1 DEF Fcn
<1>3. ASSUME NEW d \in Ends
      PROVE  /\ Elems(Append(sent[d], NewBlockMsg(h))) = Elems(sent[d]) \cup {NewBlockMsg(h)}
             /\ sent'[d] = IF d[1] = n /\ run[d] = "listen" /\ Connected(d) /\ d \notin except
                           THEN Append(sent[d], NewBlockMsg(h)) ELSE sent[d]
  <2>1. IsQueue(sent[d])
    BY DEF CounterInv, MsgInv, MsgEnd
  <2>2. Elems(Append(sent[d], NewBlockMsg(h))) = Elems(sent[d]) \cup {NewBlockMsg(h)}
    BY <2>1, AppendFact
  <2> QED
    BY <1>1, <2>2
<1>4. ASSUME NEW d \in Ends, d[1] = n, d \notin missed', run[d] # "best" PROVE run[d] = "listen"
  <2>1. run[d] \in Places
    BY DEF CounterInv, TypeInv
  <2>2. run[d] \notin {"weight", "numeric", "send", "read"}
    BY <1>1, <1>4
  <2> QED
    BY <1>4, <2>1, <2>2 DEF Places
<1> QED
  BY <1>2, <1>3, <1>4

\* A block that was accepted is broadcast.
LEMMA ForwardStep ==
  ASSUME CounterInv, NEW e \in Ends, Forward(e)
  PROVE  CounterInv'
<1>0. PICK h : h = pending[e]
  OBVIOUS
<1>1. /\ h # NoHash /\ BroadCast(e[1], h, {e}) /\ pending' = [pending EXCEPT ![e] = NoHash]
      /\ run' = run /\ myBest' = myBest /\ status' = status /\ sync' = sync /\ best' = best
      /\ garbled' = garbled /\ stageVars' = stageVars /\ down' = down
      /\ made' = made /\ chain' = chain /\ value' = value /\ candidate' = candidate
      /\ batch' = batch \/ (batch[e] # <<>> /\ batch' = [batch EXCEPT ![e] = Tail(batch[e])])
  BY <1>0 DEF Forward, ListenUnchanged, syncVars, nodeVars, Advance
<1>2. /\ Fcn(sent', Ends) /\ missed \subseteq missed'
      /\ \A d \in Ends :
           /\ \/ sent'[d] = sent[d]
              \/ d[1] = e[1] /\ run[d] = "listen" /\ sent'[d] = Append(sent[d], NewBlockMsg(h))
           /\ Elems(sent[d]) \subseteq Elems(sent'[d])
           /\ d[1] = e[1] /\ d \notin {e} /\ Connected(d) /\ d \notin missed' /\ run[d] # "best" =>
                NewBlockMsg(h) \in Elems(sent'[d])
  BY <1>1, BroadCastFact
<1>3. Fcn(pending, Ends) /\ Fcn(batch, Ends)
  BY DEF CounterInv, TypeInv
<1>4. /\ Fcn(pending', Ends) /\ pending'[e] = NoHash
      /\ \A d \in Ends \ {e} : pending'[d] = pending[d]
  BY <1>1, <1>3 DEF Fcn
<1>5. /\ Fcn(batch', Ends) /\ \A d \in Ends \ {e} : batch'[d] = batch[d]
      /\ batch'[e] = batch[e] \/ (batch[e] # <<>> /\ batch'[e] = Tail(batch[e]))
  BY <1>1, <1>3 DEF Fcn
<1>6. h \in Known(chain[e[1]]) /\ run[e] = "listen"
  BY <1>0, <1>1 DEF CounterInv, MsgInv, MsgEnd, HelloInv, HelloEnd
<1>7. TypeInv'
  BY <1>1, <1>2, <1>4, <1>5 DEF CounterInv, TypeInv
<1>8. ChainInv' /\ ValueInv' /\ Grows
  BY <1>1, NodeStutter DEF CounterInv
<1>9. StageInv' /\ closed' = closed
  BY <1>1, StageSame DEF CounterInv
<1>10. ASSUME NEW d \in Ends PROVE SentStep(d) /\ TalkStep(d) /\ BatchStep(d) /\ PendingStep(d)
  <2>1. ASSUME d[1] = e[1] PROVE MsgOK(d, NewBlockMsg(h))'
    <3>1. NewBlockMsg(h).type = "NewBlock" /\ NewBlockMsg(h).hash = h
      BY DEF NewBlockMsg
    <3>2. h \in Known(chain'[d[1]])
      BY <1>1, <1>6, <2>1
    <3> QED
      BY <3>1, <3>2 DEF MsgOK
  <2>2. SentStep(d)
    BY <1>2, <2>1 DEF SentStep
  <2>3. TalkStep(d)
    BY <1>1, <1>2, <1>4, <1>5, <1>6 DEF TalkStep
  <2> QED
    BY <1>4, <1>5, <2>2, <2>3 DEF BatchStep, PendingStep
<1>11. ASSUME NEW d \in Ends PROVE SpreadEnd(d)'
  <2>1. ASSUME Connected(d)', d \notin missed', run[d] # "best", NEW g PROVE SpreadStep(d, g)
    <3>1. Connected(d)
      BY <1>1, <2>1 DEF Connected
    <3>2. ASSUME NEW f \in Ends \ {d}, f[1] = d[1], pending[f] = g
          PROVE  pending'[f] = g \/ NewBlockMsg(g) \in Elems(sent'[d])
      <4>1. CASE f = e
        BY <1>0, <1>2, <2>1, <3>1, <3>2, <4>1
      <4>2. CASE f # e
        BY <1>4, <3>2, <4>2
      <4> QED
        BY <4>1, <4>2
    <3> QED
      BY <1>2, <3>2 DEF SpreadStep
  <2> QED
    BY <1>1, <1>2, <1>8, <2>1, SpreadEndStep DEF CounterInv, SpreadInv
<1> QED
  BY <1>1, <1>7, <1>8, <1>9, <1>10, <1>11, TameStep

-----------------------------------------------------------------------------
(* Steps of the miner and of the application *)

\* A block that was mined is broadcast with the step that adds it.
LEMMA MinerStep ==
  ASSUME CounterInv, NEW n \in Node, MineCandidateBlock(n)
  PROVE  CounterInv'
<1>0. PICK h, none : h = Fresh /\ none = {}
  OBVIOUS
<1>1. /\ BroadCast(n, h, none) /\ pending' = pending /\ batch' = batch
      /\ run' = run /\ myBest' = myBest /\ status' = status /\ sync' = sync /\ best' = best
      /\ garbled' = garbled /\ stageVars' = stageVars /\ down' = down
  BY <1>0 DEF MineCandidateBlock, MinedWith, NodeUnchanged, syncVars, listenVars
<1>2. /\ Fcn(sent', Ends) /\ missed \subseteq missed'
      /\ \A d \in Ends :
           /\ \/ sent'[d] = sent[d]
              \/ d[1] = n /\ run[d] = "listen" /\ sent'[d] = Append(sent[d], NewBlockMsg(h))
           /\ Elems(sent[d]) \subseteq Elems(sent'[d])
           /\ d[1] = n /\ d \notin none /\ Connected(d) /\ d \notin missed' /\ run[d] # "best" =>
                NewBlockMsg(h) \in Elems(sent'[d])
  BY <1>1, BroadCastFact
<1>3. /\ ChainInv' /\ ValueInv' /\ Grows
      /\ Known(chain'[n]) = Known(chain[n]) \cup {h}
      /\ \A m \in Node \ {n} : chain'[m] = chain[m]
  BY <1>0, MineStep DEF CounterInv, NodeInv
<1>4. TypeInv'
  <2>1. /\ Fcn(chain, Node) /\ Fcn(value, Node) /\ Fcn(candidate, Node)
        /\ \A m \in Node : Fcn(value[m], Hash)
    BY DEF CounterInv, TypeInv
  <2>2. PICK v, c : /\ chain' = [chain EXCEPT ![n] = c] /\ value' = [value EXCEPT ![n][h] = v]
                    /\ candidate' = [candidate EXCEPT ![n] = NoBlock]
    BY <1>0 DEF MineCandidateBlock, MinedWith
  <2>3. Fcn(chain', Node) /\ Fcn(candidate', Node)
    BY <2>1, <2>2 DEF Fcn
  <2>4. Fcn(value', Node) /\ value'[n] = [value[n] EXCEPT ![h] = v]
        /\ \A m \in Node \ {n} : value'[m] = value[m]
    BY <2>1, <2>2 DEF Fcn
  <2>5. Fcn(value'[n], Hash)
    BY <2>1, <2>4 DEF Fcn
  <2>6. \A m \in Node : Fcn(value'[m], Hash)
    BY <2>1, <2>4, <2>5
  <2> QED
    BY <1>1, <1>2, <2>3, <2>4, <2>6 DEF CounterInv, TypeInv
<1>5. StageInv' /\ closed' = closed
  BY <1>1, StageSame DEF CounterInv
<1>6. ASSUME NEW d \in Ends PROVE SentStep(d) /\ TalkStep(d) /\ BatchStep(d) /\ PendingStep(d)
  <2>1. ASSUME d[1] = n PROVE MsgOK(d, NewBlockMsg(h))'
    <3>1. NewBlockMsg(h).type = "NewBlock" /\ NewBlockMsg(h).hash = h
      BY DEF NewBlockMsg
    <3>2. h \in Known(chain'[d[1]])
      BY <1>3, <2>1
    <3> QED
      BY <3>1, <3>2 DEF MsgOK
  <2>2. SentStep(d)
    BY <1>2, <2>1 DEF SentStep
  <2>3. TalkStep(d)
    BY <1>1, <1>2 DEF TalkStep
  <2> QED
    BY <1>1, <2>2, <2>3 DEF BatchStep, PendingStep
<1>7. ASSUME NEW d \in Ends PROVE SpreadEnd(d)'
  <2>1. ASSUME NEW g PROVE SpreadStep(d, g)
    BY <1>1, <1>2 DEF SpreadStep
  <2>2. CASE d[1] # n
    <3>1. Known(chain'[d[1]]) = Known(chain[d[1]])
      BY <1>3, <2>2, EndFact
    <3> QED
      BY <1>1, <1>2, <1>3, <2>1, <3>1, SpreadEndStep DEF CounterInv, SpreadInv
  <2>3. CASE d[1] = n
    <3> SUFFICES ASSUME Connected(d)', d \notin missed', run'[d] # "best", NEW g \in Known(chain'[d[1]])
                 PROVE  Covered(d, g)'
      BY DEF SpreadEnd
    <3>1. Connected(d) /\ d \notin missed /\ run[d] # "best"
      BY <1>1, <1>2 DEF Connected
    <3>2. CASE g = h
      <4>1. NewBlockMsg(h) \in Elems(sent'[d])
        BY <1>0, <1>2, <2>3, <3>1
      <4> QED
        BY <3>2, <4>1 DEF Covered
    <3>3. CASE g # h
      <4>1. g \in Known(chain[d[1]])
        BY <1>3, <2>3, <3>3
      <4>2. Covered(d, g) /\ myBest[d] \in Known(chain[d[1]])
        BY <3>1, <4>1 DEF SpreadEnd, CounterInv, SpreadInv, HelloInv, HelloEnd
      <4> QED
        BY <1>1, <1>3, <2>1, <4>1, <4>2, CoveredStep DEF CounterInv
    <3> QED
      BY <3>2, <3>3
  <2> QED
    BY <2>2, <2>3
<1> QED
  BY <1>1, <1>3, <1>4, <1>5, <1>6, <1>7, TameStep

\* Steps that change no message: a candidate is made, a connection breaks, or
\* the node shuts down.
LEMMA SilentStep ==
  ASSUME CounterInv, TypeInv', ChainInv', ValueInv', Grows, StageInv', NodeUnchanged,
         chain' = chain, sent' = sent, missed' = missed, down \subseteq down', closed \subseteq closed'
  PROVE  CounterInv'
<1>1. /\ pending' = pending /\ batch' = batch
      /\ run' = run /\ myBest' = myBest /\ status' = status /\ sync' = sync /\ best' = best
      /\ garbled' = garbled
  BY DEF NodeUnchanged, syncVars, listenVars
<1>2. ASSUME NEW d \in Ends PROVE SentStep(d) /\ TalkStep(d) /\ BatchStep(d) /\ PendingStep(d)
  BY <1>1 DEF SentStep, TalkStep, BatchStep, PendingStep
<1>3. ASSUME NEW d \in Ends PROVE SpreadEnd(d)'
  BY <1>1, SpreadEndStep DEF CounterInv, SpreadInv, SpreadStep
<1> QED
  BY <1>1, <1>2, <1>3, TameStep

\* A candidate is made.
LEMMA NewCandidateStep ==
  ASSUME CounterInv, NEW n \in Node, NewCandidateBlock(n)
  PROVE  CounterInv'
<1>1. /\ NodeUnchanged /\ chain' = chain /\ value' = value /\ stageVars' = stageVars
      /\ sent' = sent /\ down' = down /\ missed' = missed
  BY DEF NewCandidateBlock
<1>2. ChainInv' /\ ValueInv' /\ Grows
  BY CandidateStep DEF CounterInv, NodeInv
<1>3. TypeInv'
  <2>1. Fcn(candidate, Node)
    BY DEF CounterInv, TypeInv
  <2>2. PICK b : candidate' = [candidate EXCEPT ![n] = b]
    BY DEF NewCandidateBlock
  <2>3. Fcn(candidate', Node)
    BY <2>1, <2>2 DEF Fcn
  <2> QED
    BY <1>1, <2>3 DEF CounterInv, TypeInv, NodeUnchanged, syncVars, listenVars
<1>4. StageInv' /\ closed' = closed
  BY <1>1, StageSame DEF CounterInv
<1> QED
  BY <1>1, <1>2, <1>3, <1>4, SilentStep

\* A connection breaks, the server stops, or the manager shuts down.
LEMMA StageStep ==
  ASSUME CounterInv,
         \/ \E l \in Links : Drop(l)
         \/ \E n \in Node : StopServer(n) \/ Shutdown(n)
  PROVE  CounterInv'
<1>1. /\ NodeUnchanged /\ nodeVars' = nodeVars /\ sent' = sent /\ missed' = missed
      /\ down \subseteq down'
  BY DEF Drop, StopServer, Shutdown
<1>2. made' = made /\ chain' = chain /\ value' = value /\ candidate' = candidate
  BY <1>1 DEF nodeVars
<1>3. ChainInv' /\ ValueInv' /\ Grows
  BY <1>2, NodeStutter DEF CounterInv
<1>4. TypeInv'
  BY <1>1, <1>2 DEF CounterInv, TypeInv, NodeUnchanged, syncVars, listenVars
<1>5. StageInv' /\ closed \subseteq closed'
  <2>1. CASE \E l \in Links : Drop(l)
    BY <1>1, <2>1, StageSame DEF Drop, CounterInv
  <2>2. ASSUME NEW n \in Node, StopServer(n) PROVE StageInv' /\ closed \subseteq closed'
    <3>1. /\ down' = down \cup {l \in Links : n \in l} /\ stopped' = stopped \cup {n}
          /\ isInShutdown' = isInShutdown /\ closed' = closed
      BY <2>2 DEF StopServer
    <3> QED
      BY <3>1 DEF CounterInv, StageInv
  <2>3. ASSUME NEW n \in Node, Shutdown(n) PROVE StageInv' /\ closed \subseteq closed'
    <3>1. /\ down' = down /\ stopped' = stopped /\ n \in stopped
          /\ \/ isInShutdown' = isInShutdown \cup {n} /\ closed' = closed
             \/ n \in isInShutdown /\ closed' = closed \cup {n} /\ isInShutdown' = isInShutdown
      BY <2>3 DEF Shutdown, Stopped
    <3> QED
      BY <3>1 DEF CounterInv, StageInv
  <2> QED
    BY <2>1, <2>2, <2>3
<1> QED
  BY <1>1, <1>2, <1>3, <1>4, <1>5, SilentStep

-----------------------------------------------------------------------------
(* The theorems *)

\* Every step of the nodes, of their connections and of their applications keeps
\* the invariant.
LEMMA CounterInvNext == CounterInv /\ [Next]_vars => CounterInv'
<1> SUFFICES ASSUME CounterInv, [Next]_vars PROVE CounterInv'
  OBVIOUS
<1>1. ASSUME NEW e \in Ends, Handshake(e) PROVE CounterInv'
  BY <1>1, RunBestStep, SetMsgStep, SendStatusStep, ReadStatusStep DEF Handshake
<1>2. ASSUME NEW e \in Ends, Listen(e) PROVE CounterInv'
  BY <1>2, SyncMessagesStep, ProcessBlockStep, HandleNewBlockStep, ForwardStep DEF Listen
<1>3. CASE UNCHANGED vars
  <2>1. /\ nodeVars' = nodeVars /\ NodeUnchanged /\ stageVars' = stageVars
        /\ sent' = sent /\ down' = down /\ missed' = missed
    BY <1>3 DEF vars, NodeUnchanged
  <2>2. made' = made /\ chain' = chain /\ value' = value /\ candidate' = candidate
    BY <2>1 DEF nodeVars
  <2>3. ChainInv' /\ ValueInv' /\ Grows
    BY <2>2, NodeStutter DEF CounterInv
  <2>4. TypeInv'
    BY <2>1, <2>2 DEF CounterInv, TypeInv, NodeUnchanged, syncVars, listenVars
  <2>5. StageInv' /\ closed' = closed
    BY <2>1, StageSame DEF CounterInv
  <2> QED
    BY <2>1, <2>2, <2>3, <2>4, <2>5, SilentStep
<1> QED
  BY <1>1, <1>2, <1>3, SyncNodeStep, NewCandidateStep, MinerStep, StageStep DEF Next

\* The invariant holds throughout, whatever is mined, announced, synced, dropped
\* or shut down.
THEOREM CounterInvariant == Spec => []CounterInv
BY CounterInvInit, CounterInvNext, PTL DEF Spec

\* processBlock and delta: the counter that a node reads at a block is what the
\* transactions on the line to the block make of it, on every node alike.
THEOREM CountersAreExplained == Spec => []CountersExplained
<1>1. ASSUME CounterInv PROVE CountersExplained
  <2> SUFFICES ASSUME NEW n \in Node, NEW h \in Known(chain[n])
               PROVE  value[n][h] = Replay(chain[n].block, h)
    BY DEF CountersExplained
  <2>1. /\ Grown(chain[n]) /\ Grown(All) /\ Within(chain[n], All) /\ All.block = made
    BY <1>1 DEF CounterInv, ChainInv, IsChain, All
  <2>2. Replay(made, h) = Replay(chain[n].block, h)
    BY <2>1, ReplaySame
  <2> QED
    BY <1>1, <2>2 DEF CounterInv, ValueInv
<1> QED
  BY <1>1, CounterInvariant, PTL

\* syncNode and Shutdown: the loop of a sync that outlives its connection does
\* not compare the nil block of a closed database.
THEOREM BestIsNotNil == Spec => []NoNilBest
<1>1. ASSUME CounterInv PROVE NoNilBest
  <2> SUFFICES ASSUME NEW e \in Ends, sync[e] = "test", e[1] \notin isInShutdown
               PROVE  best[e] # NoHash
    BY DEF NoNilBest
  <2>1. e[1] \notin closed /\ "test" # "none"
    BY <1>1 DEF CounterInv, StageInv
  <2>2. best[e] \in Known(chain[e[1]])
    BY <1>1, <2>1 DEF CounterInv, SyncInv, SyncEnd
  <2>3. Grown(chain[e[1]])
    BY <1>1, EndFact DEF CounterInv, ChainInv, IsChain
  <2> QED
    BY <2>2, <2>3, GenesisFact
<1> QED
  BY <1>1, CounterInvariant, PTL

\* syncNode, broadCast and processBlock together: connected nodes that have
\* handled all messages agree on the tip.
THEOREM ConnectedTipsAgree == Spec => []TipsAgree
<1>1. ASSUME CounterInv PROVE TipsAgree
  <2> SUFFICES ASSUME Quiet, NEW e \in Ends, Connected(e), {e, Other(e)} \cap (garbled \cup missed) = {}
               PROVE  ~Better(made, chain[e[2]].tip, chain[e[1]].tip)
    BY DEF TipsAgree
  <2>1. PICK o \in Ends : /\ o = Other(e) /\ o[1] = e[2] /\ o[2] = e[1] /\ Link(o) = Link(e)
                          /\ e[1] \in Node /\ e[2] \in Node
    BY EndFact
  <2>2. PICK t : t = chain[e[2]].tip
    OBVIOUS
  <2>3. /\ run[o] # "best" /\ Connected(o) /\ o \notin missed /\ o \notin garbled
        /\ sync[e] = "done" \/ sync[e] = "failed"
    <3>1. run[o] = "listen" /\ "listen" # "best" /\ sync[e] \in {"done", "failed"}
      BY DEF Quiet
    <3> QED
      BY <2>1, <3>1 DEF Connected
  <2>4. /\ IsChain(chain[e[1]]) /\ IsChain(chain[e[2]]) /\ Grown(All) /\ All.block = made
        /\ Within(chain[e[1]], All) /\ Within(chain[e[2]], All)
    BY <1>1, <2>1 DEF CounterInv, ChainInv, All
  <2>5. /\ t \in Known(chain[o[1]]) /\ t \in Known(All) /\ t # NoHash
        /\ chain[e[1]].tip \in Known(chain[e[1]]) /\ chain[e[1]].tip \in Known(All)
    BY <2>1, <2>2, <2>4, GenesisFact DEF IsChain, Within
  <2>6. Covered(o, t)
    BY <1>1, <2>3, <2>5 DEF CounterInv, SpreadInv, SpreadEnd
  <2>7. CASE ~Better(made, t, myBest[o])
    <3>1. ~Better(made, myBest[o], chain[e[1]].tip)
      BY <1>1, <2>1, <2>3 DEF CounterInv, SyncInv, SyncEnd
    <3>2. myBest[o] \in Known(All)
      BY <1>1, <2>1, <2>3, <2>4 DEF CounterInv, HelloInv, HelloEnd, Within
    <3> QED
      BY <2>2, <2>4, <2>5, <2>7, <3>1, <3>2, BetterTrans
  <2>8. CASE t \in Known(chain[o[2]])
    <3>1. ~Better(chain[e[1]].block, t, chain[e[1]].tip)
      BY <2>1, <2>4, <2>8 DEF IsChain
    <3>2. /\ chain[e[1]].block[t] = made[t]
          /\ chain[e[1]].block[chain[e[1]].tip] = made[chain[e[1]].tip]
      BY <2>1, <2>4, <2>5, <2>8 DEF Within
    <3> QED
      BY <2>2, <3>1, <3>2 DEF Better
  <2>9. ~(NewBlockMsg(t) \in Elems(sent[o])) /\ ~ \E d \in Ends \ {o} : pending[d] = t
    BY <2>5, EmptyFact DEF Quiet
  <2> QED
    BY <2>6, <2>7, <2>8, <2>9 DEF Covered
<1> QED
  BY <1>1, CounterInvariant, PTL

-----------------------------------------------------------------------------
(* A sync that waits is answered *)

Asks == {"GetBlockHashesRequest", "GetBlocksRequest"}
Answers == {"GetBlockHashesRewind", "GetBlockHashesResponse", "GetBlocksResponse"}
AskedIn(M) == \E m \in M : m.type \in Asks
AnsweredIn(M) == \E m \in M : m.type \in Answers

\* The request of e, or what has become of it.
OnWay(e) == \/ chan[e] # <<>> \/ batch[e] # <<>>
            \/ AskedIn(Elems(sent[e])) \/ AnsweredIn(Elems(sent[Other(e)]))
WaitEnd(e) == sync[e] = "wait" /\ Connected(e) => OnWay(e)

\* No list of hashes is empty: a handler of the last of its blocks signals
\* syncNode, so that an empty list would leave it waiting.
Full(m) == m.type \in {"GetBlockHashesResponse", "GetBlocksRequest", "GetBlocksResponse"} =>
             m.hashes # <<>>
FullInv == \A e \in Ends : \A m \in Elems(sent[e]) : Full(m)

ChanInv == Fcn(chan, Ends) /\ \A e \in Ends : IsQueue(chan[e])
WaitInv == ChanInv /\ FullInv /\ \A e \in Ends : WaitEnd(e)

\* At most the messages of M are sent at e, and one is taken at o.
Moves(e, o, M) ==
  /\ \A d \in Ends : \A m \in Elems(sent'[d]) : m \in Elems(sent[d]) \/ (d = e /\ m \in M)
  /\ \A d \in Ends \ {o} : Elems(sent[d]) \subseteq Elems(sent'[d])
  /\ \A m \in Elems(sent[o]) : m \in Elems(sent'[o]) \/ m = Head(sent[o])
  /\ M \subseteq Elems(sent'[e])

\* A step that takes no message, and sends no empty list of hashes.
Adds == /\ \A d \in Ends : Elems(sent[d]) \subseteq Elems(sent'[d])
        /\ \A d \in Ends : \A m \in Elems(sent'[d]) : m \in Elems(sent[d]) \/ Full(m)

\* An end that stays on its way, or whose connection breaks.
LEMMA WaitKept ==
  ASSUME WaitInv, NEW e \in Ends, down \subseteq down', sync'[e] = "wait" => sync[e] = "wait",
         OnWay(e) /\ Connected(e)' => OnWay(e)'
  PROVE  WaitEnd(e)'
BY DEF WaitInv, WaitEnd, Connected

\* What is sent does not disturb what is on its way.
LEMMA AddsKeep ==
  ASSUME WaitInv, Adds, UNCHANGED <<chan, batch>>, down \subseteq down',
         \A d \in Ends : sync'[d] = "wait" => sync[d] = "wait" \/ OnWay(d)'
  PROVE  WaitInv'
<1>1. ChanInv'
  BY DEF WaitInv, ChanInv
<1>2. FullInv'
  BY DEF WaitInv, FullInv, Adds
<1>3. ASSUME NEW d \in Ends PROVE WaitEnd(d)'
  <2>1. Other(d) \in Ends
    BY EndFact
  <2>2. OnWay(d) => OnWay(d)'
    BY <2>1 DEF OnWay, Adds, AskedIn, AnsweredIn
  <2> QED
    BY <2>2 DEF WaitInv, WaitEnd, Connected
<1> QED
  BY <1>1, <1>2, <1>3 DEF WaitInv

\* A handler takes a message and may answer it.
LEMMA ReplyMoves ==
  ASSUME CounterInv, NEW e \in Ends, sent[Other(e)] # <<>>, NEW m, Reply(e, m)
  PROVE  Moves(e, Other(e), {m})
<1>1. PICK o \in Ends : o = Other(e) /\ o # e
  BY EndFact
<1>2. Fcn(sent, Ends) /\ IsQueue(sent[e]) /\ IsQueue(sent[o]) /\ sent[o] # <<>>
  BY <1>1 DEF CounterInv, TypeInv, MsgInv, MsgEnd
<1>3. /\ Elems(sent[o]) \subseteq Elems(Tail(sent[o])) \cup {Head(sent[o])}
      /\ Elems(Tail(sent[o])) \subseteq Elems(sent[o])
  BY ONLY Zenon, <1>2, TailFact
<1>4. sent' = [sent EXCEPT ![o] = Tail(sent[o]), ![e] = Append(sent[e], m)]
  BY <1>1, <1>2 DEF Reply, Fcn
<1>5. /\ sent'[o] = Tail(sent[o]) /\ sent'[e] = Append(sent[e], m)
      /\ \A d \in Ends \ {e, o} : sent'[d] = sent[d]
  BY <1>1, <1>2, <1>4 DEF Fcn
<1>6. Elems(Append(sent[e], m)) = Elems(sent[e]) \cup {m}
  BY ONLY Zenon, <1>2, AppendFact
<1> QED
  BY <1>1, <1>3, <1>5, <1>6 DEF Moves

\* A handler takes a message and sends none.
LEMMA ConsumeMoves ==
  ASSUME CounterInv, NEW e \in Ends, sent[Other(e)] # <<>>, Consume(e)
  PROVE  \E M : Moves(e, Other(e), M) /\ \A m \in M : Full(m)
<1>1. PICK o \in Ends : o = Other(e) /\ o # e
  BY EndFact
<1>2. Fcn(sent, Ends) /\ IsQueue(sent[o]) /\ sent[o] # <<>>
  BY <1>1 DEF CounterInv, TypeInv, MsgInv, MsgEnd
<1>3. /\ Elems(sent[o]) \subseteq Elems(Tail(sent[o])) \cup {Head(sent[o])}
      /\ Elems(Tail(sent[o])) \subseteq Elems(sent[o])
  BY ONLY Zenon, <1>2, TailFact
<1>4. sent' = [sent EXCEPT ![o] = Tail(sent[o])]
  BY <1>1 DEF Consume
<1>5. sent'[o] = Tail(sent[o]) /\ \A d \in Ends \ {o} : sent'[d] = sent[d]
  BY <1>1, <1>2, <1>4 DEF Fcn
<1>6. PICK M : M = {}
  OBVIOUS
<1>7. Moves(e, Other(e), M)
  BY <1>1, <1>3, <1>5, <1>6 DEF Moves
<1>8. \A m \in M : Full(m)
  BY SMT, <1>6
<1> QED
  BY <1>7, <1>8

\* What the two ends of the connection have to show for a message that is taken;
\* the others are not concerned.
LEMMA MovesKeep ==
  ASSUME CounterInv, WaitInv, NEW e \in Ends, NEW M, Moves(e, Other(e), M),
         \A m \in M : Full(m), ChanInv', sync' = sync, down \subseteq down',
         \A d \in Ends : /\ chan[d] # <<>> => chan'[d] # <<>>
                         /\ batch[d] # <<>> => batch'[d] # <<>>,
         Head(sent[Other(e)]).type \in Asks => AnsweredIn(M),
         Head(sent[Other(e)]).type \in Answers =>
           AskedIn(M) \/ chan'[e] # <<>> \/ batch'[e] # <<>> \/ ~Connected(e)'
  PROVE  WaitInv'
<1>1. PICK o \in Ends : o = Other(e) /\ o # e /\ Other(o) = e
  BY EndFact
<1>2. PICK head : head = Head(sent[o])
  OBVIOUS
<1>3. /\ \A d \in Ends \ {o} : Elems(sent[d]) \subseteq Elems(sent'[d])
      /\ \A m \in Elems(sent[o]) : m \in Elems(sent'[o]) \/ m = head
      /\ M \subseteq Elems(sent'[e])
      /\ head.type \in Asks => AnsweredIn(M)
      /\ head.type \in Answers => AskedIn(M) \/ chan'[e] # <<>> \/ batch'[e] # <<>> \/ ~Connected(e)'
  BY <1>1, <1>2 DEF Moves
<1>4. FullInv'
  BY DEF WaitInv, FullInv, Moves
<1>5. ASSUME NEW d \in Ends, OnWay(d), Connected(d)' PROVE OnWay(d)'
  <2>1. CASE d = e
    <3>1. AskedIn(Elems(sent[e])) => AskedIn(Elems(sent'[e]))
      BY <1>1, <1>3 DEF AskedIn
    <3>2. AnsweredIn(Elems(sent[o])) =>
            AnsweredIn(Elems(sent'[o])) \/ AskedIn(M) \/ chan'[e] # <<>> \/ batch'[e] # <<>>
      BY <1>3, <1>5, <2>1 DEF AnsweredIn
    <3>3. AskedIn(M) => AskedIn(Elems(sent'[e]))
      BY <1>3 DEF AskedIn
    <3> QED
      BY <1>1, <1>5, <2>1, <3>1, <3>2, <3>3 DEF OnWay
  <2>2. CASE d = o
    <3>1. AskedIn(Elems(sent[o])) => AskedIn(Elems(sent'[o])) \/ AnsweredIn(M)
      BY <1>3 DEF AskedIn
    <3>2. AnsweredIn(Elems(sent[e])) \/ AnsweredIn(M) => AnsweredIn(Elems(sent'[e]))
      BY <1>1, <1>3 DEF AnsweredIn
    <3> QED
      BY <1>1, <1>5, <2>2, <3>1, <3>2 DEF OnWay
  <2>3. CASE d # e /\ d # o
    <3>1. Other(d) \in Ends /\ Other(d) # o
      BY <1>1, <2>3, EndFact
    <3>2. /\ AskedIn(Elems(sent[d])) => AskedIn(Elems(sent'[d]))
          /\ AnsweredIn(Elems(sent[Other(d)])) => AnsweredIn(Elems(sent'[Other(d)]))
      BY <1>3, <2>3, <3>1 DEF AskedIn, AnsweredIn
    <3> QED
      BY <1>5, <3>2 DEF OnWay
  <2> QED
    BY <2>1, <2>2, <2>3
<1>6. ASSUME NEW d \in Ends PROVE WaitEnd(d)'
  BY <1>5, WaitKept
<1> QED
  BY <1>4, <1>6 DEF WaitInv

\* listen goes on to the next block of a response, or signals syncNode.
LEMMA AdvanceKeeps ==
  ASSUME CounterInv, WaitInv, NEW e \in Ends, batch[e] # <<>>, Advance(e)
  PROVE  /\ ChanInv'
         /\ \A d \in Ends : /\ chan[d] # <<>> => chan'[d] # <<>>
                            /\ batch[d] # <<>> => batch'[d] # <<>> \/ chan'[d] # <<>>
<1>1. Fcn(chan, Ends) /\ Fcn(batch, Ends) /\ IsQueue(batch[e]) /\ \A d \in Ends : IsQueue(chan[d])
  BY DEF CounterInv, TypeInv, MsgInv, MsgEnd, WaitInv, ChanInv
<1>2. PICK q : q = batch[e]
  OBVIOUS
<1>3. batch'[e] = Tail(q) /\ \A d \in Ends \ {e} : batch'[d] = batch[d]
  BY <1>1, <1>2 DEF Advance, Fcn
<1>4. CASE Len(q) = 1
  <2>1. chan' = [chan EXCEPT ![e] = Append(chan[e], "NEXT")]
    BY <1>2, <1>4 DEF Advance
  <2>2. IsQueue(Append(chan[e], "NEXT")) /\ Append(chan[e], "NEXT") # <<>>
    BY ONLY Zenon, <1>1, e \in Ends, AppendFact
  <2>3. /\ Fcn(chan', Ends) /\ chan'[e] = Append(chan[e], "NEXT")
        /\ \A d \in Ends \ {e} : chan'[d] = chan[d]
    BY <1>1, <2>1 DEF Fcn
  <2>4. ChanInv'
    BY <1>1, <2>2, <2>3 DEF ChanInv
  <2> QED
    BY <1>3, <2>2, <2>3, <2>4
<1>5. CASE Len(q) # 1
  <2>1. chan' = chan
    BY <1>2, <1>5 DEF Advance
  <2>2. Tail(q) # <<>>
    <3>1. PICK S : q \in Seq(S)
      BY <1>1, <1>2 DEF IsQueue
    <3>2. q # <<>>
      BY <1>2
    <3>3. Len(Tail(q)) = Len(q) - 1 /\ Len(q) \in Nat /\ Len(q) # 0
      BY ONLY <3>1, <3>2
    <3>4. Len(Tail(q)) # 0
      BY ONLY <1>5, <3>3
    <3>5. Len(<<>>) = 0
      BY SMT
    <3> QED
      BY <3>4, <3>5
  <2>3. ChanInv'
    BY <2>1 DEF WaitInv, ChanInv
  <2> QED
    BY <1>3, <2>1, <2>2, <2>3
<1> QED
  BY <1>4, <1>5

\* A step of listen that takes no message.
LEMMA WorkKeeps ==
  ASSUME WaitInv, Adds, ChanInv', sync' = sync, down \subseteq down',
         \A d \in Ends : /\ chan[d] # <<>> => chan'[d] # <<>>
                         /\ batch[d] # <<>> => batch'[d] # <<>> \/ chan'[d] # <<>> \/ ~Connected(d)'
  PROVE  WaitInv'
<1>1. FullInv'
  BY DEF WaitInv, FullInv, Adds
<1>2. ASSUME NEW d \in Ends PROVE WaitEnd(d)'
  <2>1. Other(d) \in Ends
    BY EndFact
  <2>2. OnWay(d) /\ Connected(d)' => OnWay(d)'
    BY <2>1 DEF OnWay, Adds, AskedIn, AnsweredIn
  <2> QED
    BY <2>2, WaitKept
<1> QED
  BY <1>1, <1>2 DEF WaitInv

\* A broadcast adds announcements.
LEMMA BroadCastAdds ==
  ASSUME CounterInv, NEW n, NEW h, NEW except, BroadCast(n, h, except)
  PROVE  Adds
<1>1. ASSUME NEW d \in Ends
      PROVE  /\ Elems(sent[d]) \subseteq Elems(sent'[d])
             /\ Elems(sent'[d]) \subseteq Elems(sent[d]) \cup {NewBlockMsg(h)}
  <2>1. IsQueue(sent[d])
    BY DEF CounterInv, MsgInv, MsgEnd
  <2>2. Elems(Append(sent[d], NewBlockMsg(h))) = Elems(sent[d]) \cup {NewBlockMsg(h)}
    BY ONLY Zenon, <2>1, AppendFact
  <2>3. sent'[d] = sent[d] \/ sent'[d] = Append(sent[d], NewBlockMsg(h))
    BY BroadCastFact
  <2> QED
    BY <2>2, <2>3
<1>2. NewBlockMsg(h).type = "NewBlock"
  BY DEF NewBlockMsg
<1>3. Full(NewBlockMsg(h))
  BY <1>2 DEF Full
<1> QED
  BY <1>1, <1>3 DEF Adds

\* Steps of Run: the handshake is not part of a sync.
LEMMA WaitHandshake ==
  ASSUME CounterInv, WaitInv, NEW e \in Ends, Handshake(e)
  PROVE  WaitInv'
<1>0. PICK o \in Ends : o = Other(e) /\ o # e /\ Other(o) = e
  BY EndFact
<1>1. Fcn(sent, Ends) /\ IsQueue(sent[e]) /\ IsQueue(sent[o]) /\ Fcn(sync, Ends)
  BY DEF CounterInv, TypeInv, MsgInv, MsgEnd
<1>2. chan' = chan /\ batch' = batch /\ down' = down
  BY DEF Handshake, RunBest, SetWeight, SetNumeric, SendStatus, ReadStatus, listenVars
<1>3. CASE RunBest(e) \/ SetWeight(e) \/ SetNumeric(e)
  <2>1. sent' = sent /\ sync' = sync
    BY <1>3 DEF RunBest, SetWeight, SetNumeric, syncVars
  <2> QED
    BY <1>2, <2>1, AddsKeep DEF Adds
<1>4. CASE SendStatus(e)
  <2>1. PICK m : m = [type |-> "Handshake", status |-> handshakeMsg[e[1]]]
    OBVIOUS
  <2>2. sent' = [sent EXCEPT ![e] = Append(sent[e], m)] /\ sync' = sync
    BY <1>4, <2>1 DEF SendStatus, syncVars
  <2>3. sent'[e] = Append(sent[e], m) /\ \A d \in Ends \ {e} : sent'[d] = sent[d]
    BY <1>1, <2>2 DEF Fcn
  <2>4. Elems(Append(sent[e], m)) = Elems(sent[e]) \cup {m}
    BY ONLY Zenon, <1>1, AppendFact
  <2>5. Full(m)
    BY <2>1 DEF Full
  <2>6. Adds
    BY <2>3, <2>4, <2>5 DEF Adds
  <2> QED
    BY <1>2, <2>2, <2>6, AddsKeep
<1>5. CASE ReadStatus(e)
  <2>1. /\ run[e] = "read" /\ sent[o] # <<>> /\ sent' = [sent EXCEPT ![o] = Tail(sent[o])]
        /\ sync' = [sync EXCEPT ![e] = "begin"]
    BY <1>0, <1>5 DEF ReadStatus
  <2>2. Consume(e)
    BY <1>0, <2>1 DEF Consume
  <2>3. Head(sent[o]).type = "Handshake"
    BY <1>0, <2>1 DEF CounterInv, HelloInv, HelloEnd
  <2>4. PICK M : Moves(e, o, M) /\ \A m \in M : Full(m)
    BY <1>0, <2>1, <2>2, ConsumeMoves
  <2>5. ASSUME NEW d \in Ends, NEW m \in Elems(sent[d]), m.type \in Asks \cup Answers
        PROVE  m \in Elems(sent'[d])
    BY <2>3, <2>4, <2>5 DEF Moves, Asks, Answers
  <2>6. FullInv'
    BY <2>4 DEF WaitInv, FullInv, Moves
  <2>7. ASSUME NEW d \in Ends PROVE WaitEnd(d)'
    <3>1. sync'[d] = "wait" => sync[d] = "wait"
      BY <1>1, <2>1 DEF Fcn
    <3>2. Other(d) \in Ends
      BY EndFact
    <3>3. OnWay(d) => OnWay(d)'
      BY <1>2, <2>5, <3>2 DEF OnWay, AskedIn, AnsweredIn
    <3> QED
      BY <1>2, <3>1, <3>3, WaitKept
  <2> QED
    BY <1>2, <2>6, <2>7 DEF WaitInv, ChanInv
<1> QED
  BY <1>3, <1>4, <1>5 DEF Handshake

\* Steps of syncNode: it waits once its request is on its way.
LEMMA WaitSyncNode ==
  ASSUME CounterInv, WaitInv, NEW e \in Ends, SyncNode(e)
  PROVE  WaitInv'
<1>1. Fcn(sent, Ends) /\ IsQueue(sent[e]) /\ Fcn(sync, Ends) /\ Fcn(chan, Ends)
      /\ \A d \in Ends : IsQueue(chan[d])
  BY DEF CounterInv, TypeInv, MsgInv, MsgEnd, WaitInv, ChanInv
<1>2. batch' = batch /\ down' = down
  BY DEF SyncNode, BeginSync, SyncTest, RequestHashes, ReadChan, SyncNext, SyncBest,
     SyncUnchanged
<1>3. CASE BeginSync(e) \/ SyncTest(e) \/ SyncNext(e) \/ SyncBest(e)
  <2>1. /\ sent' = sent /\ chan' = chan
        /\ \E p \in {"done", "test", "loop", "best"} : sync' = [sync EXCEPT ![e] = p]
    BY <1>3 DEF BeginSync, SyncTest, SyncNext, SyncBest
  <2>2. \A d \in Ends : sync'[d] = "wait" => sync[d] = "wait"
    BY <1>1, <2>1 DEF Fcn
  <2> QED
    BY <1>2, <2>1, <2>2, AddsKeep DEF Adds
<1>4. CASE RequestHashes(e)
  <2>1. CASE Connected(e)
    <3>1. PICK m : m = [type |-> "GetBlockHashesRequest", parent |-> lastHash[e]]
      OBVIOUS
    <3>2. /\ sent' = [sent EXCEPT ![e] = Append(sent[e], m)] /\ chan' = chan
          /\ sync' = [sync EXCEPT ![e] = "wait"]
      BY <1>4, <2>1, <3>1 DEF RequestHashes
    <3>3. /\ sent'[e] = Append(sent[e], m) /\ \A d \in Ends \ {e} : sent'[d] = sent[d]
          /\ \A d \in Ends \ {e} : sync'[d] = sync[d]
      BY <1>1, <3>2 DEF Fcn
    <3>4. Elems(Append(sent[e], m)) = Elems(sent[e]) \cup {m}
      BY ONLY Zenon, <1>1, AppendFact
    <3>5. Full(m) /\ m.type \in Asks
      BY <3>1 DEF Full, Asks
    <3>6. Adds
      BY <3>3, <3>4, <3>5 DEF Adds
    <3>7. OnWay(e)'
      BY <3>3, <3>4, <3>5 DEF OnWay, AskedIn
    <3> QED
      BY <1>2, <3>2, <3>3, <3>6, <3>7, AddsKeep
  <2>2. CASE ~Connected(e)
    <3>1. sent' = sent /\ chan' = chan /\ sync' = [sync EXCEPT ![e] = "failed"]
      BY <1>4, <2>2 DEF RequestHashes
    <3>2. \A d \in Ends : sync'[d] = "wait" => sync[d] = "wait"
      BY <1>1, <3>1 DEF Fcn
    <3> QED
      BY <1>2, <3>1, <3>2, AddsKeep DEF Adds
  <2> QED
    BY <2>1, <2>2
<1>5. CASE ReadChan(e)
  <2>1. /\ sent' = sent /\ \E p \in {"next", "failed"} : sync' = [sync EXCEPT ![e] = p]
        /\ chan' = chan \/ (chan[e] # <<>> /\ chan' = [chan EXCEPT ![e] = Tail(chan[e])])
    BY <1>5 DEF ReadChan
  <2>2. sync'[e] # "wait" /\ \A d \in Ends \ {e} : sync'[d] = sync[d]
    BY <1>1, <2>1 DEF Fcn
  <2>3. ChanInv' /\ \A d \in Ends \ {e} : chan'[d] = chan[d]
    <3>1. CASE chan' = chan
      BY <1>1, <3>1 DEF ChanInv
    <3>2. CASE chan[e] # <<>> /\ chan' = [chan EXCEPT ![e] = Tail(chan[e])]
      <4>1. /\ Fcn(chan', Ends) /\ chan'[e] = Tail(chan[e])
            /\ \A d \in Ends \ {e} : chan'[d] = chan[d]
        BY <1>1, <3>2 DEF Fcn
      <4>2. IsQueue(Tail(chan[e]))
        BY ONLY Zenon, <1>1, <3>2, e \in Ends, TailFact
      <4> QED
        BY <1>1, <4>1, <4>2 DEF ChanInv
    <3> QED
      BY <2>1, <3>1, <3>2
  <2>4. FullInv'
    BY <2>1 DEF WaitInv, FullInv
  <2>5. ASSUME NEW d \in Ends PROVE WaitEnd(d)'
    <3>1. CASE d = e
      BY <2>2, <3>1 DEF WaitEnd
    <3>2. CASE d # e
      BY <1>2, <2>1, <2>2, <2>3, <3>2 DEF WaitInv, WaitEnd, OnWay, Connected
    <3> QED
      BY <3>1, <3>2
  <2> QED
    BY <2>3, <2>4, <2>5 DEF WaitInv
<1> QED
  BY <1>3, <1>4, <1>5 DEF SyncNode

\* The handlers of the messages of a sync: each is answered by another one, by
\* blocks to work on or by a signal to syncNode, or the connection ends.
LEMMA WaitMessages ==
  ASSUME CounterInv, WaitInv, NEW e \in Ends,
         \/ HandleHashesRequest(e) \/ HandleHashesResponse(e) \/ HandleRewind(e)
         \/ HandleBlocksRequest(e) \/ HandleBlocksResponse(e)
  PROVE  WaitInv'
<1>0. PICK o, head : o \in Ends /\ o = Other(e) /\ o # e /\ head = Head(sent[o])
  BY EndFact
<1>1. sent[o] # <<>> /\ batch[e] = <<>> /\ sync' = sync
  BY <1>0 DEF HandleHashesRequest, HandleHashesResponse, HandleRewind, HandleBlocksRequest,
     HandleBlocksResponse, Receives, Listening, ListenUnchanged, syncVars
<1>2. IsQueue(sent[o]) /\ Fcn(batch, Ends) /\ ChanInv
  BY <1>0 DEF CounterInv, TypeInv, MsgInv, MsgEnd, WaitInv
<1>3. Full(head)
  <2>1. Head(sent[o]) \in Elems(sent[o])
    BY ONLY Zenon, <1>1, <1>2, TailFact
  <2> QED
    BY <1>0, <2>1 DEF WaitInv, FullInv
<1>4. CASE HandleHashesRequest(e)
  <2>1. PICK hashes : hashes = DescendentsOf(chain[e[1]], Message(e).parent, SyncBlocks)
    OBVIOUS
  <2>2. PICK m : m = IF hashes = <<>> THEN [type |-> "GetBlockHashesRewind"]
                     ELSE [type |-> "GetBlockHashesResponse", hashes |-> hashes]
    OBVIOUS
  <2>3. Reply(e, m) /\ UNCHANGED <<chan, batch, down>> /\ head.type = "GetBlockHashesRequest"
    BY <1>0, <1>4, <2>1, <2>2 DEF HandleHashesRequest, listenVars, Receives
  <2>4. m.type \in Answers /\ Full(m)
    <3>1. CASE hashes = <<>>
      <4>1. m.type = "GetBlockHashesRewind"
        BY <2>2, <3>1
      <4> QED
        BY <4>1 DEF Answers, Full
    <3>2. CASE hashes # <<>>
      <4>1. m.type = "GetBlockHashesResponse" /\ m.hashes = hashes
        BY <2>2, <3>2
      <4> QED
        BY <3>2, <4>1 DEF Answers, Full
    <3> QED
      BY <3>1, <3>2
  <2>5. Moves(e, o, {m})
    BY <1>0, <1>1, <2>3, ReplyMoves
  <2>6. AnsweredIn({m}) /\ "GetBlockHashesRequest" \notin Answers
    BY <2>4 DEF AnsweredIn, Answers
  <2>7. ChanInv'
    BY <1>2, <2>3 DEF ChanInv
  <2> QED
    BY <1>0, <1>1, <2>3, <2>4, <2>5, <2>6, <2>7, MovesKeep
<1>5. CASE HandleHashesResponse(e)
  <2>1. PICK m : m = [type |-> "GetBlocksRequest", hashes |-> head.hashes]
    OBVIOUS
  <2>2. Reply(e, m) /\ UNCHANGED <<chan, batch, down>> /\ head.type = "GetBlockHashesResponse"
    BY <1>0, <1>5, <2>1 DEF HandleHashesResponse, Message, listenVars, Receives
  <2>3. m.type \in Asks /\ Full(m)
    BY <1>3, <2>1, <2>2 DEF Asks, Full
  <2>4. Moves(e, o, {m})
    BY <1>0, <1>1, <2>2, ReplyMoves
  <2>5. AskedIn({m}) /\ "GetBlockHashesResponse" \notin Asks
    BY <2>3 DEF AskedIn, Asks
  <2>6. ChanInv'
    BY <1>2, <2>2 DEF ChanInv
  <2> QED
    BY <1>0, <1>1, <2>2, <2>3, <2>4, <2>5, <2>6, MovesKeep
<1>6. CASE HandleRewind(e)
  <2>1. Consume(e) /\ head.type = "GetBlockHashesRewind" /\ batch' = batch
    BY <1>0, <1>6 DEF HandleRewind, Receives
  <2>2. PICK M : Moves(e, o, M) /\ \A m \in M : Full(m)
    BY <1>0, <1>1, <2>1, ConsumeMoves
  <2>3. "GetBlockHashesRewind" \notin Asks
    BY DEF Asks
  <2>4. CASE down' = down \cup {Link(e)} /\ chan' = chan
    <3>1. ~Connected(e)' /\ ChanInv'
      BY <1>2, <2>4 DEF Connected, ChanInv
    <3> QED
      BY <1>0, <1>1, <2>1, <2>2, <2>3, <2>4, <3>1, MovesKeep
  <2>5. CASE chan' = [chan EXCEPT ![e] = Append(chan[e], "RETRY")] /\ down' = down
    <3>1. IsQueue(chan[e])
      BY <1>2 DEF ChanInv
    <3>2. IsQueue(Append(chan[e], "RETRY")) /\ Append(chan[e], "RETRY") # <<>>
      BY ONLY Zenon, <3>1, AppendFact
    <3>3. /\ Fcn(chan', Ends) /\ chan'[e] = Append(chan[e], "RETRY")
          /\ \A d \in Ends \ {e} : chan'[d] = chan[d]
      BY <1>2, <2>5 DEF ChanInv, Fcn
    <3>4. ChanInv' /\ \A d \in Ends : chan[d] # <<>> => chan'[d] # <<>>
      BY <1>2, <3>2, <3>3 DEF ChanInv
    <3> QED
      BY <1>0, <1>1, <2>1, <2>2, <2>3, <2>5, <3>2, <3>3, <3>4, MovesKeep
  <2> QED
    BY <1>6, <2>4, <2>5 DEF HandleRewind
<1>7. CASE HandleBlocksRequest(e)
  <2>1. PICK m : m = [type |-> "GetBlocksResponse", hashes |-> head.hashes]
    OBVIOUS
  <2>2. Reply(e, m) /\ UNCHANGED <<chan, batch, down>> /\ head.type = "GetBlocksRequest"
    BY <1>0, <1>7, <2>1 DEF HandleBlocksRequest, Message, listenVars, Receives
  <2>3. m.type \in Answers /\ Full(m)
    BY <1>3, <2>1, <2>2 DEF Answers, Full
  <2>4. Moves(e, o, {m})
    BY <1>0, <1>1, <2>2, ReplyMoves
  <2>5. AnsweredIn({m}) /\ "GetBlocksRequest" \notin Answers
    BY <2>3 DEF AnsweredIn, Answers
  <2>6. ChanInv'
    BY <1>2, <2>2 DEF ChanInv
  <2> QED
    BY <1>0, <1>1, <2>2, <2>3, <2>4, <2>5, <2>6, MovesKeep
<1>8. CASE HandleBlocksResponse(e)
  <2>1. /\ Consume(e) /\ head.type = "GetBlocksResponse" /\ UNCHANGED <<chan, down>>
        /\ batch' = [batch EXCEPT ![e] = head.hashes]
    BY <1>0, <1>8 DEF HandleBlocksResponse, Receives, Message
  <2>2. PICK M : Moves(e, o, M) /\ \A m \in M : Full(m)
    BY <1>0, <1>1, <2>1, ConsumeMoves
  <2>3. batch'[e] # <<>> /\ \A d \in Ends \ {e} : batch'[d] = batch[d]
    BY <1>2, <1>3, <2>1 DEF Full, Fcn
  <2>4. ChanInv' /\ "GetBlocksResponse" \notin Asks
    BY <1>2, <2>1 DEF ChanInv, Asks
  <2> QED
    BY <1>0, <1>1, <2>1, <2>2, <2>3, <2>4, MovesKeep
<1> QED
  BY <1>4, <1>5, <1>6, <1>7, <1>8

\* Blocks that a response brought, and blocks that were announced.
LEMMA WaitBlocks ==
  ASSUME CounterInv, WaitInv, NEW e \in Ends, ProcessBlock(e) \/ HandleNewBlock(e) \/ Forward(e)
  PROVE  WaitInv'
<1>1. sync' = sync /\ Fcn(batch, Ends) /\ ChanInv
  BY DEF ProcessBlock, HandleNewBlock, Forward, ListenUnchanged, syncVars, CounterInv, TypeInv,
     WaitInv
<1>2. CASE ProcessBlock(e)
  <2>1. sent' = sent /\ batch[e] # <<>>
    BY <1>2 DEF ProcessBlock
  <2>2. Adds
    BY <2>1 DEF Adds
  <2>3. CASE Advance(e) /\ down' = down
    BY <1>1, <2>1, <2>2, <2>3, AdvanceKeeps, WorkKeeps
  <2>4. CASE UNCHANGED <<chan, batch, down>>
    BY <1>1, <2>2, <2>4, WorkKeeps DEF ChanInv
  <2>5. CASE down' = down \cup {Link(e)} /\ batch' = [batch EXCEPT ![e] = <<>>] /\ chan' = chan
    <3>1. ~Connected(e)' /\ \A d \in Ends \ {e} : batch'[d] = batch[d]
      BY <1>1, <2>5 DEF Connected, Fcn
    <3>2. ChanInv'
      BY <1>1, <2>5 DEF ChanInv
    <3> QED
      BY <1>1, <2>2, <2>5, <3>1, <3>2, WorkKeeps
  <2> QED
    BY <1>2, <2>3, <2>4, <2>5 DEF ProcessBlock
<1>3. CASE HandleNewBlock(e)
  <2>1. PICK o, head : o \in Ends /\ o = Other(e) /\ o # e /\ head = Head(sent[o])
    BY EndFact
  <2>2. /\ Consume(e) /\ sent[o] # <<>> /\ head.type = "NewBlock" /\ UNCHANGED <<chan, batch>>
        /\ down \subseteq down'
    BY <1>3, <2>1 DEF HandleNewBlock, Receives
  <2>3. PICK M : Moves(e, o, M) /\ \A m \in M : Full(m)
    BY <2>1, <2>2, ConsumeMoves
  <2>4. ChanInv' /\ "NewBlock" \notin Asks \cup Answers
    BY <1>1, <2>2 DEF ChanInv, Asks, Answers
  <2> QED
    BY <1>1, <2>1, <2>2, <2>3, <2>4, MovesKeep
<1>4. CASE Forward(e)
  <2>1. BroadCast(e[1], pending[e], {e}) /\ down' = down
    BY <1>4 DEF Forward
  <2>2. Adds
    BY <2>1, BroadCastAdds
  <2>3. CASE batch[e] # <<>> /\ Advance(e)
    BY <1>1, <2>1, <2>2, <2>3, AdvanceKeeps, WorkKeeps
  <2>4. CASE UNCHANGED <<chan, batch>>
    BY <1>1, <2>1, <2>2, <2>4, WorkKeeps DEF ChanInv
  <2> QED
    BY <1>4, <2>3, <2>4 DEF Forward
<1> QED
  BY <1>2, <1>3, <1>4

\* Every step leaves a sync that waits with an answer on its way.
LEMMA WaitInvNext == CounterInv /\ WaitInv /\ [Next]_vars => WaitInv'
<1> SUFFICES ASSUME CounterInv, WaitInv, [Next]_vars PROVE WaitInv'
  OBVIOUS
<1>1. ASSUME UNCHANGED <<chan, batch, sync>>, down \subseteq down', Adds PROVE WaitInv'
  BY <1>1, AddsKeep
<1>2. ASSUME NEW e \in Ends, Listen(e) PROVE WaitInv'
  BY <1>2, WaitMessages, WaitBlocks DEF Listen
<1>3. ASSUME NEW n \in Node, NewCandidateBlock(n) \/ StopServer(n) \/ Shutdown(n) PROVE WaitInv'
  <2>1. UNCHANGED <<chan, batch, sync, sent>> /\ down \subseteq down'
    BY <1>3 DEF NewCandidateBlock, StopServer, Shutdown, NodeUnchanged, syncVars, listenVars
  <2> QED
    BY <1>1, <2>1 DEF Adds
<1>4. ASSUME NEW n \in Node, MineCandidateBlock(n) PROVE WaitInv'
  <2>1. UNCHANGED <<chan, batch, sync, down>> /\ BroadCast(n, Fresh, {})
    BY <1>4 DEF MineCandidateBlock, MinedWith, NodeUnchanged, syncVars, listenVars
  <2> QED
    BY <1>1, <2>1, BroadCastAdds
<1>5. ASSUME NEW l \in Links, Drop(l) PROVE WaitInv'
  <2>1. UNCHANGED <<chan, batch, sync, sent>> /\ down \subseteq down'
    BY <1>5 DEF Drop, NodeUnchanged, syncVars, listenVars
  <2> QED
    BY <1>1, <2>1 DEF Adds
<1>6. CASE UNCHANGED vars
  <2>1. UNCHANGED <<chan, batch, sync, sent, down>>
    BY <1>6 DEF vars, syncVars, listenVars
  <2> QED
    BY <1>1, <2>1 DEF Adds
<1> QED
  BY <1>2, <1>3, <1>4, <1>5, <1>6, WaitHandshake, WaitSyncNode DEF Next

\* syncNode and listen: a sync never waits on a connection that brings it no
\* answer, however requests, announcements and new blocks overlap.
THEOREM WaitingSyncsAreAnswered == Spec => []SyncAnswered
<1>1. Init => WaitInv
  <2> SUFFICES ASSUME Init PROVE WaitInv
    OBVIOUS
  <2>1. /\ chan = [e \in Ends |-> <<>>] /\ sent = [e \in Ends |-> <<>>]
        /\ sync = [e \in Ends |-> "none"]
    BY DEF Init
  <2>2. \A e \in Ends : chan[e] = <<>> /\ sent[e] = <<>> /\ sync[e] = "none"
    BY <2>1
  <2>3. ChanInv
    BY <2>1, <2>2, EmptyFact DEF ChanInv, Fcn
  <2>4. FullInv
    BY <2>2, EmptyFact DEF FullInv
  <2>5. \A e \in Ends : WaitEnd(e)
    BY <2>2 DEF WaitEnd
  <2> QED
    BY <2>3, <2>4, <2>5 DEF WaitInv
<1>2. CounterInv /\ WaitInv => SyncAnswered
  <2> SUFFICES ASSUME CounterInv, WaitInv, NEW e \in Ends, sync[e] = "wait", Connected(e)
               PROVE  Answering(e)
    BY DEF SyncAnswered
  <2>1. OnWay(e)
    BY DEF WaitInv, WaitEnd
  <2> QED
    BY <2>1 DEF OnWay, AskedIn, AnsweredIn, Elems, Asks, Answers, Answering
<1> QED
  BY <1>1, <1>2, CounterInvInit, CounterInvNext, WaitInvNext, PTL DEF Spec
=============================================================================
