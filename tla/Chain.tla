-------------------------------- MODULE Chain --------------------------------
(***************************************************************************)
(* The chain of a node as its protocol layer sees it: blocks are added in  *)
(* one step, as HeaviestChain promises and BlockChainConsensus implements  *)
(* it.  A chain is a record of the stored blocks, the children of each in  *)
(* the order they came, the main list and the tip.                         *)
(***************************************************************************)
EXTENDS BlockTree

Known(chain) == {h \in Hash : chain.block[h] # NoBlock}

NewChain ==
  [block    |-> [h \in Hash |-> IF h = Genesis THEN GenesisBlock ELSE NoBlock],
   children |-> [h \in Hash |-> <<>>],
   main     |-> {Genesis},
   tip      |-> Genesis]

\* validateBlock
Valid(chain, b) ==
  /\ b.parent \in Known(chain)
  /\ b.depth = chain.block[b.parent].depth + 1
  /\ \A i \in DOMAIN b.uncles : IsUncleValid(Known(chain), chain.block, b.parent, b.uncles[i])
  /\ b.weight = chain.block[b.parent].weight + 1 + Len(b.uncles)

\* The line from the genesis block to h.
Line(block, node, h) == {Up(node, block, h, k) : k \in 0 .. block[h].depth}

\* addValidatedBlock; a block that is known already changes nothing.
Added(chain, h, b) ==
  LET block == [chain.block EXCEPT ![h] = b]
      better == Better(block, h, chain.tip)
  IN  IF h \in Known(chain) THEN chain
      ELSE [block    |-> block,
            children |-> [chain.children EXCEPT ![b.parent] = Append(@, h)],
            main     |-> IF better THEN Line(block, Known(chain) \cup {h}, h) ELSE chain.main,
            tip      |-> IF better THEN h ELSE chain.tip]

\* The blocks a block builds on.
Deps(b) == {b.parent} \cup {b.uncles[i] : i \in DOMAIN b.uncles}

\* The blocks of world, a function from hashes to blocks, and the genesis block.
Premade(world) == [h \in Hash |-> IF h = Genesis THEN GenesisBlock
                                  ELSE IF h \in DOMAIN world THEN world[h] ELSE NoBlock]

\* All blocks of world are valid among themselves.
IsWorld(world) ==
  \A h \in DOMAIN world : /\ h \in Hash \ {Genesis} /\ world[h] \in BlockSpec
                          /\ Valid([block |-> Premade(world)], world[h])

\* A list of blocks of world each of which comes after those it builds on.
IsHistory(world, hashes) ==
  /\ hashes \in Seq(DOMAIN world)
  /\ \A i \in DOMAIN hashes :
       Deps(world[hashes[i]]) \subseteq {Genesis} \cup {hashes[j] : j \in 1 .. i - 1}

\* The chain that got the blocks of a list one after the other.
Build(world, hashes) ==
  LET upTo[i \in 0 .. Len(hashes)] ==
        IF i = 0 THEN NewChain
        ELSE LET c == upTo[i - 1] IN Added(c, hashes[i], world[hashes[i]])
  IN  upTo[Len(hashes)]

\* Uncles of the block NewCandidateBlock makes.
CandidateUncles(chain) == FindUncles(Known(chain), chain.block, chain.children, chain.tip)

DescendentsOf(chain, h, max) ==
  Descendents(Known(chain), chain.block, chain.main, chain.children, h, max)

\* Ancestor: max generations up, or the genesis block if that is nearer.
Ancestor(chain, h, max) ==
  LET d == chain.block[h].depth
  IN  Up(Known(chain), chain.block, h, IF d < max THEN d ELSE max)
==============================================================================
