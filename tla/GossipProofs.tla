---------------------------- MODULE GossipProofs ----------------------------
(***************************************************************************)
(* Proofs about Gossip, for any nodes, any hashes and any Numeric: nodes   *)
(* disconnect over a block only when one of them was overtaken, and know   *)
(* the same blocks once everything is delivered.                           *)
(***************************************************************************)
EXTENDS Gossip, BlockTreeProofs

\* Most leaves are for Zenon; a leaf that needs another prover names it.
USE Zenon

-----------------------------------------------------------------------------
(* The inductive invariant *)

\* All blocks mined, as one table.
All == [block |-> made]

TypeInv ==
  /\ chain = [n \in Node |-> chain[n]] /\ candidate = [n \in Node |-> candidate[n]]
  /\ sent \in [Node -> [Node -> Seq(Hash)]]
  /\ pending \in [Node -> [Node -> Hash \cup {NoHash}]]

\* Every node has a part of the blocks mined, and what it works on is valid.
ChainInv ==
  /\ Grown(All)
  /\ \A n \in Node : IsChain(chain[n]) /\ Within(chain[n], All)
  /\ \A n \in Node : candidate[n] # NoBlock =>
       candidate[n] \in BlockSpec /\ Valid(chain[n], candidate[n])

\* A node sends and forwards what it knows; what it is to forward, the sender of
\* it knows too.
SentInv ==
  \A n, m \in Node :
    /\ \A i \in DOMAIN sent[n][m] : sent[n][m][i] \in Known(chain[n]) \ {Genesis}
    /\ pending[n][m] # NoHash =>
         pending[n][m] \in (Known(chain[n]) \cap Known(chain[m])) \ {Genesis}
    /\ n = m => sent[n][m] = <<>>

\* A block that n knows is known to m, on its way there, or to be forwarded.
OnTheWay(n, m, h) ==
  \/ h \in Known(chain[m])
  \/ \E i \in DOMAIN sent[n][m] : sent[n][m][i] = h
  \/ \E k \in Node \ {m} : pending[n][k] = h

SpreadInv ==
  \A n, m \in Node : n # m /\ {n, m} \notin down =>
    \A h \in Known(chain[n]) : OnTheWay(n, m, h)

\* What a block in s builds on is known to c or comes before it in s.
InOrder(s, c, blocks) ==
  \A i \in DOMAIN s : \A d \in Deps(blocks[s[i]]) :
    d \in Known(c) \/ \E j \in 1 .. i - 1 : s[j] = d

\* Whoever was never overtaken has sent what a block builds on before the block.
OrderInv ==
  \A n, m \in Node : n \notin overtaken /\ {n, m} \notin down =>
    InOrder(sent[n][m], chain[m], made)

GossipInv == TypeInv /\ ChainInv /\ SentInv /\ SpreadInv /\ OrderInv /\ RefusedOnlyWhenOvertaken

\* All nodes start with the genesis block, and nothing is on its way.
LEMMA GossipInvInit == Init => GossipInv
<1> SUFFICES ASSUME Init PROVE GossipInv
  OBVIOUS
<1>1. /\ made = NewChain.block /\ All.block = made
      /\ \A n \in Node : chain[n] = NewChain /\ candidate[n] = NoBlock
      /\ \A n, m \in Node : sent[n][m] = <<>> /\ pending[n][m] = NoHash
      /\ down = {} /\ overtaken = {}
  BY DEF Init, All
<1>2. /\ NewChain.block \in [Hash -> BlockSpec \cup {NoBlock}]
      /\ NewChain.block[Genesis] = GenesisBlock
      /\ \A h \in Hash \ {Genesis} : NewChain.block[h] = NoBlock
  BY GenesisFact, TreeAssumption DEF NewChain
<1>3. \A c : c.block = NewChain.block => Known(c) = {Genesis}
  BY <1>2, GenesisFact, TreeAssumption DEF Known
<1>4. \A c : c.block = NewChain.block => Grown(c)
  BY <1>2, <1>3 DEF Grown
<1>5. IsChain(NewChain)
  <2>1. /\ NewChain.children \in [Hash -> Seq(Hash)] /\ NewChain.tip = Genesis
        /\ \A p \in Hash : NewChain.children[p] = <<>>
    BY SMT DEF NewChain
  <2>2. Kids(Known(NewChain), NewChain.block, NewChain.children)
    <3>1. Known(NewChain) = {Genesis} /\ NewChain.children[Genesis] = <<>>
      BY <1>3, <2>1, TreeAssumption
    <3>2. <<>> \in Seq({Genesis}) /\ DOMAIN <<>> = {}
      BY SMT
    <3> QED
      BY <3>1, <3>2 DEF Kids
  <2>3. \A g \in Known(NewChain) : ~Better(NewChain.block, g, NewChain.tip)
    BY SMT, <1>2, <1>3, <2>1, TreeAssumption DEF Better, GenesisBlock
  <2> QED
    BY <1>3, <1>4, <2>1, <2>2, <2>3 DEF IsChain
<1>6. TypeInv
  BY SMT DEF Init, TypeInv
<1>7. ChainInv
  BY <1>1, <1>3, <1>4, <1>5 DEF ChainInv, Within
<1>8. SentInv
  BY SMT, <1>1 DEF SentInv
<1>9. SpreadInv
  BY <1>1, <1>3 DEF SpreadInv, OnTheWay
<1>10. OrderInv
  BY SMT, <1>1 DEF OrderInv, InOrder
<1> QED
  BY <1>1, <1>6, <1>7, <1>8, <1>9, <1>10 DEF GossipInv, RefusedOnlyWhenOvertaken

-----------------------------------------------------------------------------
(* Facts about one step *)

\* A connection before and after a block is sent on it.
OneMore(s, t, h) ==
  /\ Len(s) \in Nat /\ DOMAIN s = 1 .. Len(s)
  /\ DOMAIN t = 1 .. Len(s) + 1 /\ t[Len(s) + 1] = h
  /\ \A i \in DOMAIN s : t[i] = s[i]

\* The block is on the connection then, and so are those that were before.
LEMMA OneMoreFact ==
  ASSUME NEW s, NEW t, NEW h, OneMore(s, t, h)
  PROVE  /\ \E i \in DOMAIN t : t[i] = h
         /\ \A i \in DOMAIN s : i \in DOMAIN t /\ t[i] = s[i]
BY SMT DEF OneMore

\* A connection after the first block on it was read.
LEMMA SentTail ==
  ASSUME NEW s \in Seq(Hash), s # <<>>, NEW t, t = Tail(s)
  PROVE  /\ t \in Seq(Hash) /\ 1 \in DOMAIN s /\ Head(s) = s[1]
         /\ \A i \in DOMAIN t : i \in Nat /\ i >= 1 /\ i + 1 \in DOMAIN s /\ t[i] = s[i + 1]
         /\ \A i \in DOMAIN s : i # 1 => i - 1 \in DOMAIN t /\ t[i - 1] = s[i]
<1>1. /\ Len(s) \in Nat /\ Len(s) >= 1 /\ Len(t) = Len(s) - 1
      /\ DOMAIN s = 1 .. Len(s) /\ DOMAIN t = 1 .. Len(t) /\ t \in Seq(Hash)
  BY SMT
<1>2. \A i \in 1 .. Len(t) : t[i] = s[i + 1]
  BY SMT, <1>1
<1>3. Head(s) = s[1]
  BY SMTT(30)
<1> QED
  BY SMT, <1>1, <1>2, <1>3

\* broadcast reaches the peers.
LEMMA BroadcastFact ==
  ASSUME TypeInv, NEW n \in Node, NEW h \in Hash, NEW except, Broadcast(n, h, except)
  PROVE  /\ sent' \in [Node -> [Node -> Seq(Hash)]]
         /\ \A m \in Peers(n) \ except : OneMore(sent[n][m], sent'[n][m], h)
         /\ \A a, m \in Node : a # n \/ m \notin Peers(n) \ except => sent'[a][m] = sent[a][m]
<1> DEFINE New == [m \in Node |-> IF m \in Peers(n) \ except THEN Append(sent[n][m], h) ELSE sent[n][m]]
<1>1. sent' = [sent EXCEPT ![n] = New]
  BY DEF Broadcast
<1>2. New \in [Node -> Seq(Hash)]
  BY SMT DEF TypeInv
<1>3. \A m \in Node : New[m] = IF m \in Peers(n) \ except THEN Append(sent[n][m], h) ELSE sent[n][m]
  OBVIOUS
<1> HIDE DEF New
<1>4. sent' \in [Node -> [Node -> Seq(Hash)]] /\ sent'[n] = New
  BY <1>1, <1>2 DEF TypeInv
<1>5. \A a \in Node \ {n} : sent'[a] = sent[a]
  BY <1>1 DEF TypeInv
<1>6. ASSUME NEW m \in Peers(n) \ except PROVE OneMore(sent[n][m], sent'[n][m], h)
  <2>1. sent[n][m] \in Seq(Hash) /\ sent'[n][m] = Append(sent[n][m], h)
    BY ZenonT(60), <1>3, <1>4 DEF TypeInv, Peers
  <2> QED
    BY SMT, <2>1 DEF OneMore
<1> QED
  BY <1>3, <1>4, <1>5, <1>6 DEF Peers

\* What n knows to be built on is at the peer or on its way, unless n is about to
\* forward it.
LEMMA LastInOrder ==
  ASSUME GossipInv, NEW n \in Node, NEW m \in Node, n # m, {n, m} \notin down,
         NEW b, Deps(b) \subseteq Known(chain[n]), ~Overtakes(n, b), NEW d \in Deps(b)
  PROVE  d \in Known(chain[m]) \/ \E i \in DOMAIN sent[n][m] : sent[n][m][i] = d
<1>1. OnTheWay(n, m, d)
  BY DEF GossipInv, SpreadInv
<1>2. d # NoHash
  BY TreeAssumption DEF Known
<1>3. ASSUME NEW k \in Node, pending[n][k] = d PROVE FALSE
  <2>1. d = b.parent \/ \E i \in DOMAIN b.uncles : b.uncles[i] = d
    BY DEF Deps
  <2> QED
    BY <1>2, <1>3, <2>1 DEF Overtakes
<1> QED
  BY <1>1, <1>3 DEF OnTheWay

\* What a node knows builds on what it knows, and is what was mined.
LEMMA KnownFact ==
  ASSUME ChainInv, NEW n \in Node, NEW h \in Known(chain[n]), h # Genesis
  PROVE  /\ h \in Known(All) /\ made[h] \in BlockSpec /\ h \in Hash
         /\ Valid(chain[n], made[h]) /\ Valid(All, made[h])
         /\ Deps(made[h]) \subseteq Known(chain[n])
<1>1. Grown(All) /\ Grown(chain[n]) /\ Within(chain[n], All) /\ All.block = made
  BY DEF ChainInv, IsChain, All
<1>2. h \in Known(All) /\ made[h] = chain[n].block[h] /\ h \in Hash
  BY <1>1 DEF Within, Known
<1>3. Valid(chain[n], made[h]) /\ Valid(All, made[h]) /\ made[h] \in BlockSpec
  BY <1>1, <1>2, GenesisFact DEF Grown
<1> QED
  BY <1>2, <1>3, DepsKnown

\* What is known stays known.
LEMMA WithinTrans ==
  ASSUME NEW a, NEW b, NEW c, Within(a, b), Within(b, c)
  PROVE  Within(a, c)
BY DEF Within

\* NewCandidateBlock.
LEMMA CandidateStep ==
  ASSUME GossipInv, NEW n \in Node, NewCandidateBlock(n)
  PROVE  GossipInv'
<1> DEFINE c == chain[n]
           us == CandidateUncles(c)
           b == [parent |-> c.tip, depth |-> c.block[c.tip].depth + 1,
                 weight |-> c.block[c.tip].weight + 1 + Len(us), uncles |-> us, txs |-> {}]
<1>1. /\ candidate' = [candidate EXCEPT ![n] = b]
      /\ UNCHANGED <<made, chain, sent, pending, down, overtaken>>
  BY DEF NewCandidateBlock
<1>2. IsChain(c)
  BY DEF GossipInv, ChainInv
<1>3. b \in BlockSpec /\ Valid(c, b)
  <2> HIDE DEF c
  <2> QED
    BY <1>2, CandidateValid
<1> HIDE DEF b
<1>4. /\ candidate' = [a \in Node |-> candidate'[a]]
      /\ \A a \in Node : candidate'[a] = IF a = n THEN b ELSE candidate[a]
  BY <1>1 DEF GossipInv, TypeInv
<1>5. TypeInv'
  BY <1>1, <1>4 DEF GossipInv, TypeInv
<1>6. ChainInv'
  BY <1>1, <1>3, <1>4 DEF GossipInv, ChainInv, All
<1>7. SentInv' /\ RefusedOnlyWhenOvertaken'
  BY <1>1 DEF GossipInv, SentInv, RefusedOnlyWhenOvertaken
<1>8. SpreadInv'
  BY SMT, <1>1 DEF GossipInv, SpreadInv, OnTheWay
<1>9. OrderInv'
  BY <1>1 DEF GossipInv, OrderInv
<1> QED
  BY <1>5, <1>6, <1>7, <1>8, <1>9 DEF GossipInv

\* A block is sent after the blocks it builds on.
LEMMA OrderMore ==
  ASSUME NEW s, NEW t, NEW h, OneMore(s, t, h), NEW c, NEW blocks, InOrder(s, c, blocks),
         \A d \in Deps(blocks[h]) : d \in Known(c) \/ \E i \in DOMAIN s : s[i] = d
  PROVE  InOrder(t, c, blocks)
<1> SUFFICES ASSUME NEW i \in DOMAIN t, NEW d \in Deps(blocks[t[i]])
             PROVE  d \in Known(c) \/ \E j \in 1 .. i - 1 : t[j] = d
  BY DEF InOrder
<1>1. /\ Len(s) \in Nat /\ DOMAIN s = 1 .. Len(s) /\ i \in 1 .. Len(s) + 1 /\ t[Len(s) + 1] = h
      /\ \A j \in DOMAIN s : t[j] = s[j]
  BY DEF OneMore
<1>2. CASE i \in DOMAIN s
  <2>1. d \in Known(c) \/ \E j \in 1 .. i - 1 : s[j] = d
    BY <1>1, <1>2 DEF InOrder
  <2>2. \A j \in 1 .. i - 1 : j \in DOMAIN s
    BY SMT, <1>1, <1>2
  <2> QED
    BY <1>1, <2>1, <2>2
<1>3. CASE i \notin DOMAIN s
  <2>1. i = Len(s) + 1 /\ 1 .. i - 1 = DOMAIN s
    BY SMT, <1>1, <1>3
  <2> QED
    BY <1>1, <2>1
<1> QED
  BY <1>2, <1>3

\* Blocks that are known or mined later disturb no order.
LEMMA OrderKept ==
  ASSUME NEW s, NEW c, NEW blocks, InOrder(s, c, blocks),
         NEW c2, Known(c) \subseteq Known(c2),
         NEW blocks2, \A i \in DOMAIN s : blocks2[s[i]] = blocks[s[i]]
  PROVE  InOrder(s, c2, blocks2)
BY DEF InOrder

\* Whoever has read the first block can do without it on the connection.
LEMMA OrderTail ==
  ASSUME NEW s \in Seq(Hash), s # <<>>, NEW c, NEW blocks, InOrder(s, c, blocks),
         NEW c2, Known(c) \subseteq Known(c2), Head(s) \in Known(c2)
  PROVE  InOrder(Tail(s), c2, blocks)
<1> DEFINE t == Tail(s)
<1>1. /\ 1 \in DOMAIN s /\ Head(s) = s[1]
      /\ \A i \in DOMAIN t : i \in Nat /\ i >= 1 /\ i + 1 \in DOMAIN s /\ t[i] = s[i + 1]
  BY SMTT(30), SentTail
<1> HIDE DEF t
<1> SUFFICES ASSUME NEW i \in DOMAIN t, NEW d \in Deps(blocks[t[i]])
             PROVE  d \in Known(c2) \/ \E j \in 1 .. i - 1 : t[j] = d
  BY DEF InOrder, t
<1>2. i \in Nat /\ i >= 1 /\ i + 1 \in DOMAIN s /\ t[i] = s[i + 1]
  BY <1>1
<1>3. d \in Known(c) \/ \E j \in 1 .. (i + 1) - 1 : s[j] = d
  BY <1>2 DEF InOrder
<1>4. ASSUME NEW j \in 1 .. (i + 1) - 1, s[j] = d
      PROVE  d \in Known(c2) \/ \E k \in 1 .. i - 1 : t[k] = d
  <2>1. CASE j = 1
    BY <1>1, <1>4, <2>1
  <2>2. CASE j # 1
    <3>1. j - 1 \in 1 .. i - 1 /\ (j - 1) + 1 = j
      BY SMT, <1>2, <2>2
    <3>2. t[j - 1] = s[j]
      <4>1. j - 1 \in DOMAIN t
        BY SMT, <1>2, <2>2 DEF t
      <4> QED
        BY <1>1, <3>1, <4>1
    <3> QED
      BY <1>4, <3>1, <3>2
  <2> QED
    BY <2>1, <2>2
<1> QED
  BY <1>3, <1>4

\* processBlock forwards a block: unless n is overtaken by this, the peers get it
\* after what it builds on.
LEMMA ForwardStep ==
  ASSUME GossipInv, NEW n \in Node, NEW m \in Node, Forward(n, m)
  PROVE  GossipInv'
<1> DEFINE h == pending[n][m]
<1>1. /\ h # NoHash /\ Broadcast(n, h, {m})
      /\ pending' = [pending EXCEPT ![n][m] = NoHash]
      /\ overtaken' = IF Overtakes(n, made[h]) THEN overtaken \cup {n} ELSE overtaken
      /\ UNCHANGED <<made, chain, candidate, down>>
  BY DEF Forward
<1>2. TypeInv /\ ChainInv /\ SentInv /\ SpreadInv /\ OrderInv /\ RefusedOnlyWhenOvertaken
  BY DEF GossipInv
<1>3. h \in Known(chain[n]) /\ h \in Known(chain[m]) /\ h # Genesis
  BY <1>1, <1>2 DEF SentInv
<1>4. h \in Hash /\ Deps(made[h]) \subseteq Known(chain[n])
  BY <1>2, <1>3, KnownFact
<1>5. /\ pending' \in [Node -> [Node -> Hash \cup {NoHash}]] /\ pending'[n][m] = NoHash
      /\ \A a, c \in Node : a # n \/ c # m => pending'[a][c] = pending[a][c]
  BY <1>1, <1>2 DEF TypeInv
<1> HIDE DEF h
<1>6. /\ sent' \in [Node -> [Node -> Seq(Hash)]]
      /\ \A c \in Peers(n) \ {m} : OneMore(sent[n][c], sent'[n][c], h)
      /\ \A a, c \in Node : a # n \/ c \notin Peers(n) \ {m} => sent'[a][c] = sent[a][c]
  BY SMT, <1>1, <1>2, <1>4, BroadcastFact
<1>7. TypeInv'
  BY <1>1, <1>2, <1>5, <1>6 DEF TypeInv
<1>8. ChainInv'
  BY <1>1, <1>2 DEF ChainInv, All
<1>9. SentInv'
  <2> SUFFICES ASSUME NEW a \in Node, NEW c \in Node
               PROVE  /\ \A i \in DOMAIN sent'[a][c] : sent'[a][c][i] \in Known(chain[a]) \ {Genesis}
                      /\ pending'[a][c] # NoHash =>
                           pending'[a][c] \in (Known(chain[a]) \cap Known(chain[c])) \ {Genesis}
                      /\ a = c => sent'[a][c] = <<>>
    BY <1>1 DEF SentInv
  <2>1. CASE a = n /\ c \in Peers(n) \ {m}
    <3>1. OneMore(sent[a][c], sent'[a][c], h) /\ a # c
      BY <1>6, <2>1 DEF Peers
    <3>2. \A i \in DOMAIN sent'[a][c] : sent'[a][c][i] \in Known(chain[a]) \ {Genesis}
      BY SMT, <1>2, <1>3, <2>1, <3>1 DEF SentInv, OneMore
    <3> QED
      BY SMTT(30), <1>2, <1>5, <3>1, <3>2 DEF SentInv
  <2>2. CASE ~(a = n /\ c \in Peers(n) \ {m})
    <3>1. sent'[a][c] = sent[a][c]
      BY <1>6, <2>2
    <3> QED
      BY SMT, <1>2, <1>5, <3>1 DEF SentInv
  <2> QED
    BY <2>1, <2>2
<1>10. SpreadInv'
  <2> SUFFICES ASSUME NEW a \in Node, NEW c \in Node, a # c, {a, c} \notin down,
                      NEW x \in Known(chain[a])
               PROVE  OnTheWay(a, c, x)'
    BY <1>1 DEF SpreadInv
  <2>1. OnTheWay(a, c, x) /\ x # NoHash
    BY <1>2, TreeAssumption DEF SpreadInv, Known
  <2>2. CASE x \in Known(chain[c])
    BY <1>1, <2>2 DEF OnTheWay
  <2>3. ASSUME NEW i \in DOMAIN sent[a][c], sent[a][c][i] = x
        PROVE  \E j \in DOMAIN sent'[a][c] : sent'[a][c][j] = x
    <3>1. CASE a = n /\ c \in Peers(n) \ {m}
      <4>1. OneMore(sent[a][c], sent'[a][c], h)
        BY <1>6, <3>1
      <4> QED
        BY SMT, <2>3, <4>1, OneMoreFact
    <3>2. CASE ~(a = n /\ c \in Peers(n) \ {m})
      BY <1>6, <2>3, <3>2
    <3> QED
      BY <3>1, <3>2
  <2>4. ASSUME NEW k \in Node \ {c}, pending[a][k] = x PROVE OnTheWay(a, c, x)'
    <3>1. CASE a = n /\ k = m
      <4>1. c \in Peers(n) \ {m} /\ x = h
        BY <2>4, <3>1 DEF Peers, h
      <4>2. OneMore(sent[n][c], sent'[n][c], h)
        BY <1>6, <4>1
      <4>3. \E j \in DOMAIN sent'[n][c] : sent'[n][c][j] = h
        BY SMT, <4>2, OneMoreFact
      <4> QED
        BY <3>1, <4>1, <4>3 DEF OnTheWay
    <3>2. CASE a # n \/ k # m
      BY <1>5, <2>4, <3>2 DEF OnTheWay
    <3> QED
      BY <3>1, <3>2
  <2> QED
    BY <2>1, <2>2, <2>3, <2>4 DEF OnTheWay
<1>11. OrderInv'
  <2> SUFFICES ASSUME NEW a \in Node, NEW c \in Node, a \notin overtaken', {a, c} \notin down'
               PROVE  InOrder(sent'[a][c], chain[c], made)
    BY <1>1 DEF OrderInv
  <2>1. a \notin overtaken /\ {a, c} \notin down /\ InOrder(sent[a][c], chain[c], made)
    BY <1>1, <1>2 DEF OrderInv
  <2>2. CASE a = n /\ c \in Peers(n) \ {m}
    <3>1. OneMore(sent[n][c], sent'[n][c], h) /\ n # c
      BY <1>6, <2>2 DEF Peers
    <3>2. ~Overtakes(n, made[h])
      BY <1>1, <2>2
    <3>3. \A d \in Deps(made[h]) :
            d \in Known(chain[c]) \/ \E i \in DOMAIN sent[n][c] : sent[n][c][i] = d
      BY SMTT(30), <1>4, <2>1, <2>2, <3>1, <3>2, LastInOrder
    <3> QED
      BY SMT, <2>1, <2>2, <3>1, <3>3, OrderMore
  <2>3. CASE ~(a = n /\ c \in Peers(n) \ {m})
    BY <1>6, <2>1, <2>3
  <2> QED
    BY <2>2, <2>3
<1>12. RefusedOnlyWhenOvertaken'
  BY SMT, <1>1, <1>2 DEF RefusedOnlyWhenOvertaken
<1> QED
  BY <1>7, <1>8, <1>9, <1>10, <1>11, <1>12 DEF GossipInv

\* mineCandidateBlock: the block is new to everyone, and broadcast to all.
LEMMA MineStep ==
  ASSUME GossipInv, NEW n \in Node, MineCandidateBlock(n)
  PROVE  GossipInv'
<1> DEFINE h == Fresh
           b == candidate[n]
<1>1. /\ b # NoBlock /\ Unused # {} /\ Broadcast(n, h, {})
      /\ made' = [made EXCEPT ![h] = b]
      /\ chain' = [chain EXCEPT ![n] = Added(@, h, b)]
      /\ candidate' = [candidate EXCEPT ![n] = NoBlock]
      /\ overtaken' = IF Overtakes(n, b) THEN overtaken \cup {n} ELSE overtaken
      /\ UNCHANGED <<pending, down>>
  BY DEF MineCandidateBlock
<1>2. TypeInv /\ ChainInv /\ SentInv /\ SpreadInv /\ OrderInv /\ RefusedOnlyWhenOvertaken
  BY DEF GossipInv
<1>3. h \in Hash /\ made[h] = NoBlock
  <2>1. h \in Unused
    BY <1>1 DEF Fresh
  <2> QED
    BY <2>1 DEF Unused
<1> HIDE DEF h
<1>4. /\ Grown(All) /\ IsChain(chain[n]) /\ Grown(chain[n]) /\ Within(chain[n], All)
      /\ b \in BlockSpec /\ Valid(chain[n], b)
  BY <1>1, <1>2 DEF ChainInv, IsChain
<1> HIDE DEF b
<1>5. h \notin Known(All) /\ h # Genesis /\ \A a \in Node : h \notin Known(chain[a])
  <2>1. h \notin Known(All)
    BY <1>3 DEF Known, All
  <2> QED
    BY <1>2, <1>4, <2>1, GenesisFact DEF ChainInv, Within
<1>6. Valid(All, b) /\ Deps(b) \subseteq Known(chain[n])
  BY <1>4, GenesisFact, ValidGrows, DepsKnown
<1>7. Grown(All') /\ Within(All, All') /\ made'[h] = b /\ Known(All') = Known(All) \cup {h}
  <2>1. /\ All'.block \in [Hash -> BlockSpec \cup {NoBlock}] /\ All'.block[h] = b
        /\ \A g \in Hash \ {h} : All'.block[g] = All.block[g]
    BY <1>1, <1>3, <1>4 DEF All, Grown
  <2>2. h \in Hash \ Known(All) /\ All'.block = made'
    BY <1>3, <1>5 DEF All
  <2> QED
    BY SMT, <1>4, <1>6, <2>1, <2>2, GrownAdd
<1>8. /\ IsChain(chain'[n]) /\ Within(chain[n], chain'[n])
      /\ Known(chain'[n]) = Known(chain[n]) \cup {h} /\ chain'[n].block[h] = b
  <2>1. chain'[n] = Added(chain[n], h, b)
    BY <1>1, <1>2 DEF TypeInv
  <2> QED
    BY SMT, <1>3, <1>4, <1>5, <2>1, AddedChain
<1>9. /\ chain' = [a \in Node |-> chain'[a]] /\ candidate' = [a \in Node |-> candidate'[a]]
      /\ \A a \in Node \ {n} : chain'[a] = chain[a] /\ candidate'[a] = candidate[a]
      /\ candidate'[n] = NoBlock
  BY <1>1, <1>2 DEF TypeInv
<1>10. \A a \in Node : Known(chain[a]) \subseteq Known(chain'[a])
  BY <1>8, <1>9
<1>11. /\ sent' \in [Node -> [Node -> Seq(Hash)]]
       /\ \A c \in Peers(n) : OneMore(sent[n][c], sent'[n][c], h)
       /\ \A a, c \in Node : a # n \/ c \notin Peers(n) => sent'[a][c] = sent[a][c]
  BY SMT, <1>1, <1>2, <1>3, BroadcastFact
<1>12. TypeInv'
  BY <1>1, <1>2, <1>9, <1>11 DEF TypeInv
<1>13. ChainInv'
  <2>1. ASSUME NEW a \in Node PROVE IsChain(chain'[a]) /\ Within(chain'[a], All')
    <3>1. CASE a = n
      <4>1. \A g \in Known(chain[n]) :
              /\ g \in Known(All') /\ All'.block[g] = chain[n].block[g]
              /\ chain'[n].block[g] = chain[n].block[g]
        BY <1>4, <1>7, <1>8 DEF Within
      <4>2. h \in Known(All') /\ All'.block[h] = chain'[n].block[h]
        BY <1>7, <1>8 DEF All
      <4> QED
        BY <1>8, <3>1, <4>1, <4>2 DEF Within
    <3>2. CASE a # n
      BY <1>2, <1>7, <1>9, <3>2, WithinTrans DEF ChainInv
    <3> QED
      BY <3>1, <3>2
  <2>2. ASSUME NEW a \in Node, candidate'[a] # NoBlock
        PROVE  candidate'[a] \in BlockSpec /\ Valid(chain'[a], candidate'[a])
    <3>1. a # n
      BY <1>9, <2>2
    <3> QED
      BY <1>2, <1>9, <2>2, <3>1 DEF ChainInv
  <2> QED
    BY <1>7, <2>1, <2>2 DEF ChainInv
<1>14. SentInv'
  <2> SUFFICES ASSUME NEW a \in Node, NEW c \in Node
               PROVE  /\ \A i \in DOMAIN sent'[a][c] : sent'[a][c][i] \in Known(chain'[a]) \ {Genesis}
                      /\ pending[a][c] # NoHash =>
                           pending[a][c] \in (Known(chain'[a]) \cap Known(chain'[c])) \ {Genesis}
                      /\ a = c => sent'[a][c] = <<>>
    BY <1>1 DEF SentInv
  <2>1. pending[a][c] # NoHash =>
          pending[a][c] \in (Known(chain'[a]) \cap Known(chain'[c])) \ {Genesis}
    BY <1>2, <1>10 DEF SentInv
  <2>2. CASE a = n /\ c \in Peers(n)
    <3>1. OneMore(sent[a][c], sent'[a][c], h) /\ a # c
      BY <1>11, <2>2 DEF Peers
    <3>2. \A i \in DOMAIN sent[a][c] : sent[a][c][i] \in Known(chain'[a]) \ {Genesis}
      BY <1>2, <1>10 DEF SentInv
    <3>3. h \in Known(chain'[a]) \ {Genesis}
      BY <1>5, <1>8, <2>2
    <3>4. \A i \in DOMAIN sent'[a][c] : sent'[a][c][i] \in Known(chain'[a]) \ {Genesis}
      BY SMT, <3>1, <3>2, <3>3 DEF OneMore
    <3> QED
      BY <2>1, <3>1, <3>4
  <2>3. CASE ~(a = n /\ c \in Peers(n))
    <3>1. sent'[a][c] = sent[a][c]
      BY <1>11, <2>3
    <3> QED
      BY <1>2, <1>10, <2>1, <3>1 DEF SentInv
  <2> QED
    BY <2>2, <2>3
<1>15. SpreadInv'
  <2> SUFFICES ASSUME NEW a \in Node, NEW c \in Node, a # c, {a, c} \notin down,
                      NEW x \in Known(chain'[a])
               PROVE  OnTheWay(a, c, x)'
    BY <1>1 DEF SpreadInv
  <2>1. CASE a = n /\ x = h
    <3>1. OneMore(sent[a][c], sent'[a][c], h)
      BY <1>11, <2>1 DEF Peers
    <3> QED
      BY SMT, <2>1, <3>1, OneMoreFact DEF OnTheWay
  <2>2. CASE ~(a = n /\ x = h)
    <3>1. OnTheWay(a, c, x)
      BY <1>2, <1>8, <1>9, <2>2 DEF SpreadInv
    <3>2. ASSUME NEW i \in DOMAIN sent[a][c], sent[a][c][i] = x
          PROVE  \E j \in DOMAIN sent'[a][c] : sent'[a][c][j] = x
      <4>1. CASE a = n /\ c \in Peers(n)
        <5>1. OneMore(sent[a][c], sent'[a][c], h)
          BY <1>11, <4>1
        <5> QED
          BY SMT, <3>2, <5>1, OneMoreFact
      <4>2. CASE ~(a = n /\ c \in Peers(n))
        BY <1>11, <3>2, <4>2
      <4> QED
        BY <4>1, <4>2
    <3> QED
      BY <1>1, <1>10, <3>1, <3>2 DEF OnTheWay
  <2> QED
    BY <2>1, <2>2
<1>16. OrderInv'
  <2> SUFFICES ASSUME NEW a \in Node, NEW c \in Node, a \notin overtaken', {a, c} \notin down'
               PROVE  InOrder(sent'[a][c], chain'[c], made')
    BY DEF OrderInv
  <2>1. a \notin overtaken /\ {a, c} \notin down /\ InOrder(sent[a][c], chain[c], made)
    BY <1>1, <1>2 DEF OrderInv
  <2>2. \A i \in DOMAIN sent[a][c] : made'[sent[a][c][i]] = made[sent[a][c][i]]
    BY SMTT(30), <1>1, <1>2, <1>5 DEF SentInv
  <2>3. InOrder(sent[a][c], chain'[c], made')
    BY <1>10, <2>1, <2>2, OrderKept
  <2>4. CASE a = n /\ c \in Peers(n)
    <3>1. OneMore(sent[n][c], sent'[n][c], h) /\ n # c
      BY <1>11, <2>4 DEF Peers
    <3>2. ~Overtakes(n, b)
      BY <1>1, <2>4
    <3>3. \A d \in Deps(b) :
            d \in Known(chain[c]) \/ \E i \in DOMAIN sent[n][c] : sent[n][c][i] = d
      BY SMTT(30), <1>6, <2>1, <2>4, <3>1, <3>2, LastInOrder
    <3>4. \A d \in Deps(made'[h]) :
            d \in Known(chain'[c]) \/ \E i \in DOMAIN sent[n][c] : sent[n][c][i] = d
      BY <1>7, <1>10, <3>3
    <3> QED
      BY SMT, <2>3, <2>4, <3>1, <3>4, OrderMore
  <2>5. CASE ~(a = n /\ c \in Peers(n))
    BY <1>11, <2>3, <2>5
  <2> QED
    BY <2>4, <2>5
<1>17. RefusedOnlyWhenOvertaken'
  BY SMT, <1>1, <1>2 DEF RefusedOnlyWhenOvertaken
<1> QED
  BY <1>12, <1>13, <1>14, <1>15, <1>16, <1>17 DEF GossipInv

\* A block that is accepted or dropped as a duplicate: what the reader comes to
\* know it is to forward.
LEMMA AcceptStep ==
  ASSUME GossipInv, NEW n \in Node, NEW m \in Node, HandleNewBlock(n, m),
         Valid(chain[n], made[Head(sent[m][n])])
  PROVE  GossipInv'
<1> DEFINE s == sent[m][n]
           h == Head(s)
<1>1. /\ {n, m} \notin down /\ s # <<>> /\ pending[n][m] = NoHash /\ Valid(chain[n], made[h])
      /\ chain' = [chain EXCEPT ![n] = Added(@, h, made[h])]
      /\ pending' = [pending EXCEPT ![n][m] = IF h \in Known(chain[n]) THEN NoHash ELSE h]
      /\ sent' = [sent EXCEPT ![m][n] = Tail(@)]
      /\ UNCHANGED <<made, candidate, down, overtaken>>
  BY DEF HandleNewBlock
<1>2. TypeInv /\ ChainInv /\ SentInv /\ SpreadInv /\ OrderInv /\ RefusedOnlyWhenOvertaken
  BY DEF GossipInv
<1>3. n # m /\ s \in Seq(Hash)
  BY SMT, <1>1, <1>2 DEF SentInv, TypeInv
<1>4. /\ Tail(s) \in Seq(Hash) /\ 1 \in DOMAIN s /\ h = s[1]
      /\ \A i \in DOMAIN Tail(s) : i + 1 \in DOMAIN s /\ Tail(s)[i] = s[i + 1]
      /\ \A i \in DOMAIN s : i # 1 => i - 1 \in DOMAIN Tail(s) /\ Tail(s)[i - 1] = s[i]
  BY SMTT(30), <1>1, <1>3, SentTail
<1>5. h \in Known(chain[m]) /\ h # Genesis
  BY SMT, <1>2, <1>4 DEF SentInv
<1>6. h \in Hash /\ made[h] \in BlockSpec /\ h \in Known(All)
  BY <1>2, <1>5, KnownFact
<1> HIDE DEF h
<1>7. /\ sent' \in [Node -> [Node -> Seq(Hash)]] /\ sent'[m][n] = Tail(s)
      /\ \A a, c \in Node : a # m \/ c # n => sent'[a][c] = sent[a][c]
  BY <1>1, <1>2, <1>4 DEF TypeInv
<1>8. /\ pending' \in [Node -> [Node -> Hash \cup {NoHash}]]
      /\ pending'[n][m] = IF h \in Known(chain[n]) THEN NoHash ELSE h
      /\ \A a, c \in Node : a # n \/ c # m => pending'[a][c] = pending[a][c]
  BY <1>1, <1>2, <1>6 DEF TypeInv
<1> HIDE DEF s
<1>9. /\ chain' = [a \in Node |-> chain'[a]] /\ chain'[n] = Added(chain[n], h, made[h])
      /\ \A a \in Node \ {n} : chain'[a] = chain[a]
  BY <1>1, <1>2 DEF TypeInv
<1>10. /\ IsChain(chain'[n]) /\ Within(chain[n], chain'[n])
       /\ Known(chain'[n]) = Known(chain[n]) \cup {h}
       /\ h \notin Known(chain[n]) => chain'[n].block[h] = made[h]
  <2>1. IsChain(chain[n])
    BY <1>2 DEF ChainInv
  <2> QED
    BY SMT, <1>1, <1>6, <1>9, <2>1, AddedChain
<1>11. \A a \in Node : Known(chain[a]) \subseteq Known(chain'[a])
  BY <1>9, <1>10
<1>12. TypeInv'
  BY <1>1, <1>2, <1>7, <1>8, <1>9 DEF TypeInv
<1>13. ChainInv'
  <2>1. Grown(All') /\ All' = All /\ All.block = made
    BY <1>1, <1>2 DEF ChainInv, All
  <2>2. ASSUME NEW a \in Node PROVE IsChain(chain'[a]) /\ Within(chain'[a], All)
    <3>1. CASE a = n
      <4>1. \A g \in Known(chain[n]) :
              /\ g \in Known(All) /\ All.block[g] = chain[n].block[g]
              /\ chain'[n].block[g] = chain[n].block[g]
        BY <1>2, <1>10 DEF Within, ChainInv
      <4>2. h \in Known(chain[n]) \/ All.block[h] = chain'[n].block[h]
        BY <1>10, <2>1
      <4> QED
        BY <1>6, <1>10, <3>1, <4>1, <4>2 DEF Within
    <3>2. CASE a # n
      BY <1>2, <1>9, <3>2 DEF ChainInv
    <3> QED
      BY <3>1, <3>2
  <2>3. ASSUME NEW a \in Node, candidate[a] # NoBlock
        PROVE  candidate[a] \in BlockSpec /\ Valid(chain'[a], candidate[a])
    <3>1. candidate[a] \in BlockSpec /\ Valid(chain[a], candidate[a]) /\ Grown(chain[a])
      BY <1>2, <2>3 DEF ChainInv, IsChain
    <3>2. Within(chain[a], chain'[a])
      BY <1>9, <1>10 DEF Within
    <3>3. NoHash \notin Known(chain'[a])
      BY TreeAssumption DEF Known
    <3> QED
      BY <3>1, <3>2, <3>3, ValidGrows
  <2> QED
    BY <1>1, <2>1, <2>2, <2>3 DEF ChainInv
<1>14. SentInv'
  <2> SUFFICES ASSUME NEW a \in Node, NEW c \in Node
               PROVE  /\ \A i \in DOMAIN sent'[a][c] : sent'[a][c][i] \in Known(chain'[a]) \ {Genesis}
                      /\ pending'[a][c] # NoHash =>
                           pending'[a][c] \in (Known(chain'[a]) \cap Known(chain'[c])) \ {Genesis}
                      /\ a = c => sent'[a][c] = <<>>
    BY DEF SentInv
  <2>1. pending'[a][c] # NoHash =>
          pending'[a][c] \in (Known(chain'[a]) \cap Known(chain'[c])) \ {Genesis}
    <3>1. CASE a = n /\ c = m
      <4>1. h \in Known(chain'[n]) /\ h \in Known(chain'[m])
        BY <1>5, <1>10, <1>11
      <4>2. pending'[a][c] = NoHash \/ pending'[a][c] = h
        BY <1>8, <3>1
      <4> QED
        BY <1>5, <3>1, <4>1, <4>2
    <3>2. CASE ~(a = n /\ c = m)
      <4>1. pending'[a][c] = pending[a][c]
        BY <1>8, <3>2
      <4> QED
        BY <1>2, <1>11, <4>1 DEF SentInv
    <3> QED
      BY <3>1, <3>2
  <2>2. CASE a = m /\ c = n
    <3>1. \A i \in DOMAIN s : s[i] \in Known(chain'[a]) \ {Genesis}
      BY <1>2, <1>11, <2>2 DEF SentInv, s
    <3>2. \A i \in DOMAIN Tail(s) : Tail(s)[i] \in Known(chain'[a]) \ {Genesis}
      BY <1>4, <3>1
    <3> QED
      BY <1>3, <1>7, <2>1, <2>2, <3>2
  <2>3. CASE ~(a = m /\ c = n)
    <3>1. sent'[a][c] = sent[a][c]
      BY <1>7, <2>3
    <3> QED
      BY <1>2, <1>11, <2>1, <3>1 DEF SentInv
  <2> QED
    BY <2>2, <2>3
<1>15. SpreadInv'
  <2> SUFFICES ASSUME NEW a \in Node, NEW c \in Node, a # c, {a, c} \notin down,
                      NEW x \in Known(chain'[a])
               PROVE  OnTheWay(a, c, x)'
    BY <1>1 DEF SpreadInv
  <2>1. CASE a = n /\ x = h /\ h \notin Known(chain[n])
    <3>1. CASE c = m
      BY <1>5, <1>11, <2>1, <3>1 DEF OnTheWay
    <3>2. CASE c # m
      BY <1>8, <2>1, <3>2 DEF OnTheWay
    <3> QED
      BY <3>1, <3>2
  <2>2. CASE ~(a = n /\ x = h /\ h \notin Known(chain[n]))
    <3>1. OnTheWay(a, c, x) /\ x # NoHash
      <4>1. x \in Known(chain[a])
        BY <1>9, <1>10, <2>2
      <4> QED
        BY <1>2, <4>1, TreeAssumption DEF SpreadInv, Known
    <3>2. ASSUME NEW i \in DOMAIN sent[a][c], sent[a][c][i] = x
          PROVE  \/ x \in Known(chain'[c])
                 \/ \E j \in DOMAIN sent'[a][c] : sent'[a][c][j] = x
      <4>1. CASE a = m /\ c = n
        <5>1. i \in DOMAIN s /\ s[i] = x
          BY <3>2, <4>1 DEF s
        <5>2. CASE i = 1
          BY <1>4, <1>10, <4>1, <5>1, <5>2
        <5>3. CASE i # 1
          <6>1. i - 1 \in DOMAIN Tail(s) /\ Tail(s)[i - 1] = x
            BY <1>4, <5>1, <5>3
          <6> QED
            BY <1>7, <4>1, <6>1
        <5> QED
          BY <5>2, <5>3
      <4>2. CASE ~(a = m /\ c = n)
        BY <1>7, <3>2, <4>2
      <4> QED
        BY <4>1, <4>2
    <3>3. ASSUME NEW k \in Node \ {c}, pending[a][k] = x PROVE pending'[a][k] = x
      BY <1>1, <1>8, <3>1, <3>3
    <3> QED
      BY <1>11, <3>1, <3>2, <3>3 DEF OnTheWay
  <2> QED
    BY <2>1, <2>2
<1>16. OrderInv'
  <2> SUFFICES ASSUME NEW a \in Node, NEW c \in Node, a \notin overtaken, {a, c} \notin down
               PROVE  InOrder(sent'[a][c], chain'[c], made)
    BY <1>1 DEF OrderInv
  <2>1. InOrder(sent[a][c], chain[c], made) /\ Known(chain[c]) \subseteq Known(chain'[c])
    BY <1>2, <1>11 DEF OrderInv
  <2>2. CASE a = m /\ c = n
    <3>1. InOrder(s, chain[n], made) /\ Head(s) \in Known(chain'[n])
          /\ Known(chain[n]) \subseteq Known(chain'[n])
      BY <1>10, <2>1, <2>2 DEF s, h
    <3>2. InOrder(Tail(s), chain'[n], made)
      BY <1>1, <1>3, <3>1, OrderTail
    <3> QED
      BY <1>7, <2>2, <3>2
  <2>3. CASE ~(a = m /\ c = n)
    <3>1. InOrder(sent[a][c], chain'[c], made)
      BY <2>1, OrderKept
    <3> QED
      BY <1>7, <2>3, <3>1
  <2> QED
    BY <2>2, <2>3
<1>17. RefusedOnlyWhenOvertaken'
  BY <1>1, <1>2 DEF RefusedOnlyWhenOvertaken
<1> QED
  BY <1>12, <1>13, <1>14, <1>15, <1>16, <1>17 DEF GossipInv

\* A block that is refused: its sender was overtaken, since otherwise the reader
\* would know what the block builds on.
LEMMA RefuseStep ==
  ASSUME GossipInv, NEW n \in Node, NEW m \in Node, HandleNewBlock(n, m),
         ~Valid(chain[n], made[Head(sent[m][n])])
  PROVE  GossipInv'
<1> DEFINE s == sent[m][n]
           h == Head(s)
<1>1. /\ {n, m} \notin down /\ s # <<>> /\ ~Valid(chain[n], made[h])
      /\ down' = down \cup {{n, m}}
      /\ sent' = [sent EXCEPT ![m][n] = <<>>, ![n][m] = <<>>]
      /\ UNCHANGED <<chain, pending, made, candidate, overtaken>>
  BY DEF HandleNewBlock
<1>2. TypeInv /\ ChainInv /\ SentInv /\ SpreadInv /\ OrderInv /\ RefusedOnlyWhenOvertaken
  BY DEF GossipInv
<1>3. n # m /\ s \in Seq(Hash)
  BY SMT, <1>1, <1>2 DEF SentInv, TypeInv
<1>4. 1 \in DOMAIN s /\ h = s[1]
  BY ZenonT(60), <1>1, <1>3, SentTail
<1>5. h \in Known(chain[m]) /\ h # Genesis
  BY SMT, <1>2, <1>4 DEF SentInv
<1>6. Valid(All, made[h])
  BY <1>2, <1>5, KnownFact
<1>7. m \in overtaken
  <2> SUFFICES ASSUME m \notin overtaken PROVE FALSE
    OBVIOUS
  <2>1. {m, n} = {n, m}
    OBVIOUS
  <2>2. InOrder(s, chain[n], made)
    BY <1>1, <1>2, <2>1 DEF OrderInv
  <2> HIDE DEF s, h
  <2>3. \A d \in Deps(made[h]) : d \in Known(chain[n]) \/ \E j \in 1 .. 1 - 1 : s[j] = d
    BY <1>4, <2>2 DEF InOrder
  <2>4. Deps(made[h]) \subseteq Known(chain[n])
    BY SMT, <2>3
  <2>5. Grown(chain[n]) /\ Within(chain[n], All) /\ NoHash \notin Known(All)
    BY <1>2, TreeAssumption DEF ChainInv, IsChain, Known
  <2> QED
    BY <1>1, <1>6, <2>4, <2>5, ValidWithin
<1>8. /\ sent' \in [Node -> [Node -> Seq(Hash)]]
      /\ sent'[m][n] = <<>> /\ sent'[n][m] = <<>>
      /\ \A a, c \in Node : {a, c} # {n, m} => sent'[a][c] = sent[a][c]
      /\ \A a, c \in Node : sent'[a][c] = sent[a][c] \/ sent'[a][c] = <<>>
  <2> DEFINE None == <<>>
  <2>1. sent' = [sent EXCEPT ![m][n] = None, ![n][m] = None] /\ None \in Seq(Hash)
    BY SMT, <1>1
  <2> HIDE DEF None
  <2>2. sent' \in [Node -> [Node -> Seq(Hash)]]
    BY <1>2, <2>1 DEF TypeInv
  <2>3. \A a, c \in Node :
          sent'[a][c] = IF (a = m /\ c = n) \/ (a = n /\ c = m) THEN None ELSE sent[a][c]
    BY <1>2, <1>3, <2>1 DEF TypeInv
  <2> QED
    BY SMT, <2>2, <2>3 DEF None
<1>9. TypeInv' /\ ChainInv'
  BY <1>1, <1>2, <1>8 DEF TypeInv, ChainInv, All
<1>10. SentInv'
  <2> SUFFICES ASSUME NEW a \in Node, NEW c \in Node
               PROVE  /\ \A i \in DOMAIN sent'[a][c] : sent'[a][c][i] \in Known(chain[a]) \ {Genesis}
                      /\ pending[a][c] # NoHash =>
                           pending[a][c] \in (Known(chain[a]) \cap Known(chain[c])) \ {Genesis}
                      /\ a = c => sent'[a][c] = <<>>
    BY <1>1 DEF SentInv
  <2>1. CASE sent'[a][c] = sent[a][c]
    BY <1>2, <2>1 DEF SentInv
  <2>2. CASE sent'[a][c] = <<>>
    BY <1>2, <2>2 DEF SentInv
  <2> QED
    BY <1>8, <2>1, <2>2
<1>11. SpreadInv'
  <2> SUFFICES ASSUME NEW a \in Node, NEW c \in Node, a # c, {a, c} \notin down',
                      NEW x \in Known(chain[a])
               PROVE  OnTheWay(a, c, x)'
    BY <1>1 DEF SpreadInv
  <2>1. {a, c} \notin down /\ sent'[a][c] = sent[a][c]
    BY <1>1, <1>8
  <2>2. OnTheWay(a, c, x)
    BY <1>2, <2>1 DEF SpreadInv
  <2> QED
    BY <1>1, <2>1, <2>2 DEF OnTheWay
<1>12. OrderInv'
  <2> SUFFICES ASSUME NEW a \in Node, NEW c \in Node, a \notin overtaken, {a, c} \notin down'
               PROVE  InOrder(sent'[a][c], chain[c], made)
    BY <1>1 DEF OrderInv
  <2>1. {a, c} \notin down /\ sent'[a][c] = sent[a][c]
    BY <1>1, <1>8
  <2> QED
    BY <1>2, <2>1 DEF OrderInv
<1>13. RefusedOnlyWhenOvertaken'
  BY <1>1, <1>2, <1>7 DEF RefusedOnlyWhenOvertaken
<1> QED
  BY <1>9, <1>10, <1>11, <1>12, <1>13 DEF GossipInv

\* GossipInv is inductive.
LEMMA GossipInvNext == GossipInv /\ [Next]_vars => GossipInv'
<1> SUFFICES ASSUME GossipInv, [Next]_vars PROVE GossipInv'
  OBVIOUS
<1>1. CASE UNCHANGED vars
  <2>1. UNCHANGED <<made, chain, candidate, sent, pending, down, overtaken>>
    BY <1>1 DEF vars
  <2>2. TypeInv' /\ ChainInv' /\ SentInv' /\ RefusedOnlyWhenOvertaken'
    BY <2>1 DEF GossipInv, TypeInv, ChainInv, All, SentInv, RefusedOnlyWhenOvertaken
  <2>3. SpreadInv'
    BY SMT, <2>1 DEF GossipInv, SpreadInv, OnTheWay
  <2>4. OrderInv'
    BY <2>1 DEF GossipInv, OrderInv
  <2> QED
    BY <2>2, <2>3, <2>4 DEF GossipInv
<1>2. ASSUME NEW n \in Node, NewCandidateBlock(n) \/ MineCandidateBlock(n) PROVE GossipInv'
  BY <1>2, CandidateStep, MineStep
<1>3. ASSUME NEW n \in Node, NEW m \in Node, HandleNewBlock(n, m) \/ Forward(n, m)
      PROVE  GossipInv'
  BY <1>3, AcceptStep, RefuseStep, ForwardStep
<1> QED
  BY <1>1, <1>2, <1>3 DEF Next

-----------------------------------------------------------------------------
(* Theorems *)

\* In every reachable state each node has a part of the blocks mined, and what
\* it knows has reached a connected peer, is on its way or is to be forwarded.
THEOREM Invariance == Spec => []GossipInv
BY GossipInvInit, GossipInvNext, PTL DEF Spec

\* Nodes disconnect over a new block only when one of them has sent a block
\* before one it builds on, for any number of nodes and blocks: the order in
\* which processBlock and the mining callback broadcast is all that matters.
THEOREM RefusedOnlyWhenOvertakenHolds == Spec => []RefusedOnlyWhenOvertaken
<1>1. GossipInv => RefusedOnlyWhenOvertaken
  BY DEF GossipInv
<1> QED
  BY <1>1, Invariance, PTL

\* When every block is delivered and forwarded and nobody has disconnected, all
\* nodes know the same blocks and no tip beats another.
THEOREM NodesConvergeHolds == Spec => []NodesConverge
<1>1. GossipInv => NodesConverge
  <2> SUFFICES ASSUME GossipInv, Quiet, down = {}, NEW n \in Node, NEW m \in Node
               PROVE  /\ Known(chain[n]) = Known(chain[m])
                      /\ ~Better(made, chain[n].tip, chain[m].tip)
    BY DEF NodesConverge
  <2>1. ASSUME NEW a \in Node, NEW c \in Node PROVE Known(chain[a]) \subseteq Known(chain[c])
    <3> SUFFICES ASSUME a # c, NEW h \in Known(chain[a]) PROVE h \in Known(chain[c])
      OBVIOUS
    <3>1. OnTheWay(a, c, h) /\ h # NoHash
      BY TreeAssumption DEF GossipInv, SpreadInv, Known
    <3>2. sent[a][c] = <<>> /\ \A k \in Node : pending[a][k] = NoHash
      BY DEF Quiet
    <3> QED
      BY SMT, <3>1, <3>2 DEF OnTheWay
  <2>2. Known(chain[n]) = Known(chain[m])
    BY <2>1
  <2>3. /\ chain[n].tip \in Known(chain[m]) /\ chain[m].tip \in Known(chain[m])
        /\ ~Better(chain[m].block, chain[n].tip, chain[m].tip)
    BY <2>2 DEF GossipInv, ChainInv, IsChain
  <2>4. \A g \in Known(chain[m]) : made[g] = chain[m].block[g]
    BY DEF GossipInv, ChainInv, Within, All
  <2> QED
    BY <2>2, <2>3, <2>4 DEF Better
<1> QED
  BY <1>1, Invariance, PTL
=============================================================================
