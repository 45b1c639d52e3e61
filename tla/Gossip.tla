------------------------------- MODULE Gossip -------------------------------
(***************************************************************************)
(* How new blocks spread between connected nodes (network/platform.go):    *)
(* mined blocks are broadcast, accepted blocks are forwarded, and a block  *)
(* that is refused ends the connection it came on.                         *)
(*                                                                         *)
(* The listen goroutine of a connection accepts a block under the engine's *)
(* lock and forwards it after that, so other goroutines of the node may    *)
(* send blocks in between.  Connections deliver in order.  The set of      *)
(* messages a peer has seen holds pointers to hashes; of a received block  *)
(* it thus names the sender and nobody else.                               *)
(***************************************************************************)
EXTENDS Chain, FiniteSets

CONSTANT Node     \* the nodes; each one is connected to all others

VARIABLES
  made,        \* the blocks mined so far, by hash
  chain,       \* the chain of each node
  candidate,   \* the block a node's producer is filling, or NoBlock
  sent,        \* sent[n][m]: blocks on their way from n to m
  pending,     \* pending[n][m]: block n accepted from m and is to forward, or NoHash
  down,        \* the connections that were closed, as sets of two nodes
  overtaken    \* nodes that sent a block before one it builds on

vars == <<made, chain, candidate, sent, pending, down, overtaken>>

Pairs == {{n, m} : n, m \in Node}

TypeOK ==
  /\ \A h \in Hash : made[h] # NoBlock => made[h] \in BlockSpec
  /\ \A n \in Node : Known(chain[n]) \subseteq {h \in Hash : made[h] # NoBlock}
  /\ \A n \in Node : candidate[n] = NoBlock \/ candidate[n] \in BlockSpec
  /\ \A n, m \in Node : sent[n][m] \in Seq(Hash) /\ pending[n][m] \in Hash \cup {NoHash}
  /\ down \subseteq Pairs /\ overtaken \subseteq Node

Init ==
  /\ made = NewChain.block
  /\ chain = [n \in Node |-> NewChain]
  /\ candidate = [n \in Node |-> NoBlock]
  /\ sent = [n \in Node |-> [m \in Node |-> <<>>]]
  /\ pending = [n \in Node |-> [m \in Node |-> NoHash]]
  /\ down = {} /\ overtaken = {}

-----------------------------------------------------------------------------

Peers(n) == {m \in Node \ {n} : {n, m} \notin down}

\* broadcast to the peers but the one in except.
Broadcast(n, h, except) ==
  sent' = [sent EXCEPT ![n] =
    [m \in Node |-> IF m \in Peers(n) \ except THEN Append(@[m], h) ELSE @[m]]]

\* The block builds on one that the node has yet to forward.
Overtakes(n, b) ==
  \E m \in Node : pending[n][m] # NoHash /\
    (pending[n][m] = b.parent \/ \E i \in DOMAIN b.uncles : b.uncles[i] = pending[n][m])

\* Hash bounds the number of blocks.  Which of the unused hashes a block gets
\* makes no difference but for Numeric.
Unused == {h \in Hash : made[h] = NoBlock}
Fresh == CHOOSE h \in Unused : TRUE

NewCandidateBlock(n) ==
  /\ candidate[n] = NoBlock /\ Unused # {}
  /\ LET us == CandidateUncles(chain[n])
         tip == chain[n].block[chain[n].tip]
     IN  candidate' = [candidate EXCEPT ![n] =
           [parent |-> chain[n].tip, depth |-> tip.depth + 1,
            weight |-> tip.weight + 1 + Len(us), uncles |-> us, txs |-> {}]]
  /\ UNCHANGED <<made, chain, sent, pending, down, overtaken>>

\* mineCandidateBlock: the callback broadcasts the block under the engine's lock.
MineCandidateBlock(n) ==
  /\ candidate[n] # NoBlock /\ Unused # {}
  /\ made' = [made EXCEPT ![Fresh] = candidate[n]]
  /\ chain' = [chain EXCEPT ![n] = Added(@, Fresh, candidate[n])]
  /\ Broadcast(n, Fresh, {})
  /\ candidate' = [candidate EXCEPT ![n] = NoBlock]
  /\ overtaken' = IF Overtakes(n, candidate[n]) THEN overtaken \cup {n} ELSE overtaken
  /\ UNCHANGED <<pending, down>>

\* Mutant of HandleNewBlock: a block that does not become the tip is dropped, and
\* no block is forwarded.
HandleNewBlockTipOnly(n, m) ==
  /\ {n, m} \notin down /\ sent[m][n] # <<>> /\ pending[n][m] = NoHash
  /\ LET h == Head(sent[m][n]) IN
       /\ sent' = [sent EXCEPT ![m][n] = Tail(@)]
       /\ chain' = [chain EXCEPT ![n] = IF Valid(@, made[h]) /\ Better(made, h, @.tip)
                                        THEN Added(@, h, made[h]) ELSE @]
  /\ UNCHANGED <<made, candidate, pending, down, overtaken>>

\* Mutant of HandleNewBlock: blocks are accepted and never forwarded.
HandleNewBlockKeeps(n, m) ==
  /\ {n, m} \notin down /\ sent[m][n] # <<>> /\ pending[n][m] = NoHash
  /\ LET h == Head(sent[m][n]) IN
       \/ /\ Valid(chain[n], made[h])
          /\ chain' = [chain EXCEPT ![n] = Added(@, h, made[h])]
          /\ sent' = [sent EXCEPT ![m][n] = Tail(@)]
          /\ UNCHANGED down
       \/ /\ ~Valid(chain[n], made[h])
          /\ down' = down \cup {{n, m}}
          /\ sent' = [sent EXCEPT ![m][n] = <<>>, ![n][m] = <<>>]
          /\ UNCHANGED chain
  /\ UNCHANGED <<made, candidate, pending, overtaken>>

\* handleNewBlockMsg and processBlock up to AcceptNetworkBlock: the block is
\* added, dropped as a duplicate, or refused.
HandleNewBlock(n, m) ==
  /\ {n, m} \notin down /\ sent[m][n] # <<>> /\ pending[n][m] = NoHash
  /\ LET h == Head(sent[m][n]) IN
       \/ /\ Valid(chain[n], made[h])
          /\ chain' = [chain EXCEPT ![n] = Added(@, h, made[h])]
          /\ pending' = [pending EXCEPT ![n][m] = IF h \in Known(chain[n]) THEN NoHash ELSE h]
          /\ sent' = [sent EXCEPT ![m][n] = Tail(@)]
          /\ UNCHANGED down
       \/ /\ ~Valid(chain[n], made[h])
          /\ down' = down \cup {{n, m}}
          /\ sent' = [sent EXCEPT ![m][n] = <<>>, ![n][m] = <<>>]
          /\ UNCHANGED <<chain, pending>>
  /\ UNCHANGED <<made, candidate, overtaken>>

\* processBlock after AcceptNetworkBlock.
Forward(n, m) ==
  /\ pending[n][m] # NoHash
  /\ Broadcast(n, pending[n][m], {m})
  /\ pending' = [pending EXCEPT ![n][m] = NoHash]
  /\ overtaken' = IF Overtakes(n, made[pending[n][m]]) THEN overtaken \cup {n} ELSE overtaken
  /\ UNCHANGED <<made, chain, candidate, down>>

Next ==
  \/ \E n \in Node : NewCandidateBlock(n) \/ MineCandidateBlock(n)
  \/ \E n, m \in Node : HandleNewBlock(n, m) \/ Forward(n, m)

Spec == Init /\ [][Next]_vars

-----------------------------------------------------------------------------
(* Properties *)

\* Nodes disconnect over a new block only after one of them sent a block before
\* the parent or an uncle that it had just accepted: in any other order a block
\* reaches every peer after the blocks it builds on.
RefusedOnlyWhenOvertaken == \A n, m \in Node : {n, m} \in down => {n, m} \cap overtaken # {}

Quiet == \A n, m \in Node : sent[n][m] = <<>> /\ pending[n][m] = NoHash

\* "validate that all 3 chains have same tip node hash"
\* (blockChainConsensus_test.go): when every block is delivered and nobody
\* disconnected, the nodes know the same blocks and no tip beats another, whoever
\* mined at the same time and in whatever order the blocks came.  The tips are
\* the same but for blocks of one weight and one byte sum, where each node stays
\* with the first it saw.
NodesConverge ==
  Quiet /\ down = {} =>
    \A n, m \in Node : /\ Known(chain[n]) = Known(chain[m])
                       /\ ~Better(made, chain[n].tip, chain[m].tip)
=============================================================================
