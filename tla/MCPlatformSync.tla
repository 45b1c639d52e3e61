--------------------------- MODULE MCPlatformSync ---------------------------
(* A world of blocks for PlatformSync: three trees on one genesis block, the *)
(* hash 0.  Hashes are numbers, and Numeric of a hash is the number itself.  *)
EXTENDS PlatformSync, TLC

MCHash == 0 .. 62
MCNumeric == [h \in MCHash |-> h]

B(parent, depth, weight, uncles) ==
  [parent |-> parent, depth |-> depth, weight |-> weight, uncles |-> uncles, txs |-> {}]

Ints(a, b) == [i \in 1 .. b - a + 1 |-> a + i - 1]

\* Two branches of one fork, 1..20 and 21..40, both starting at the genesis
\* block; the node is on the second one.  The peer has the longer branch, or one
\* of the same length and the smaller Numeric, and may mine further blocks.
ForkWorld == [h \in 1 .. 40 |->
  LET d == IF h > 20 THEN h - 20 ELSE h
  IN  B(IF d = 1 THEN 0 ELSE h - 1, d, d, <<>>)]
ForkSetups == {[local |-> Ints(21, 20 + n), remote |-> Ints(1, m)] :
                 n \in {0, 1, 4, 10, 12}, m \in {1, 5, 12, 19}}
PeerAhead == {s \in ForkSetups : Len(s.remote) >= Len(s.local)}

\* One uncle in every generation: 39 + 2i is the main list block of generation i
\* and 40 + 2i its sibling.  Every block lists the uncles of the five generations
\* before it, as NewCandidateBlock does.
Smaller(a, b) == IF a < b THEN a ELSE b
UncleWeight[i \in 0 .. 7] ==
  IF i = 0 THEN 0 ELSE UncleWeight[i - 1] + 1 + Smaller(i - 1, MaxUncleDistance)
UncleWorld == [h \in 41 .. 54 |->
  LET i == (h - 39) \div 2
      n == Smaller(i - 1, MaxUncleDistance)
  IN  B(IF i = 1 THEN 0 ELSE 37 + 2 * i, i, UncleWeight[i], [j \in 1 .. n |-> 40 + 2 * (i - j)])]
\* The peer has five generations and may mine the sixth, or it has seven; the node
\* starts at any earlier one.
UncleSetups(n) == {[local |-> Ints(41, 40 + k), remote |-> Ints(41, 40 + 2 * n)] : k \in {0, 1, 2, 4, 7}}
SevenGenerations == UncleSetups(7)

\* Three miners: 58 lists 59 as an uncle; 60, mined where 55, 56 and 57 are the
\* main list, lists both, the nearer one first, and so does 62.
CousinWorld == [h \in 55 .. 62 |->
  CASE h = 55 -> B(0, 1, 1, <<>>)
    [] h = 56 -> B(55, 2, 2, <<>>)
    [] h = 57 -> B(56, 3, 3, <<>>)
    [] h = 58 -> B(55, 2, 3, <<59>>)
    [] h = 59 -> B(0, 1, 1, <<>>)
    [] h = 60 -> B(57, 4, 6, <<58, 59>>)
    [] h = 61 -> B(57, 4, 4, <<>>)
    [] h = 62 -> B(60, 5, 9, <<58, 59>>)]
\* The peer has all of it up to 60; or the node is on 58, and its peer, which
\* lacks 58 and 59, on 57.
CousinSetups == {[local |-> <<>>, remote |-> <<55, 59, 56, 58, 57, 60>>],
                 [local |-> <<55, 59, 58>>, remote |-> <<55, 56, 57>>]}

MCWorld == ForkWorld @@ UncleWorld @@ CousinWorld
MCSetups == PeerAhead \cup UncleSetups(5) \cup CousinSetups
=============================================================================
