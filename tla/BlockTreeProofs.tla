-------------------------- MODULE BlockTreeProofs --------------------------
(***************************************************************************)
(* Proofs about the walks of BlockTree, for any tree of blocks, and about  *)
(* the chain of a node as Chain keeps it.                                  *)
(***************************************************************************)
EXTENDS Chain, WellFoundedInduction, TLAPS

-----------------------------------------------------------------------------
(* Induction is the search for a least counterexample *)

NatLess == {r \in Nat \X Nat : r[1] < r[2]}

\* Every non-empty set of natural numbers has a least element: "the first entry
\* of a list" is well defined, and induction is the search for a least
\* counterexample.
LEMMA LeastNumberPrinciple ==
  ASSUME NEW T \in SUBSET Nat, T # {}
  PROVE  \E x \in T : \A y \in T : x <= y
<1>1. IsWellFoundedOn(NatLess, Nat)
  BY Zenon, NatLessThanWellFounded DEF OpToRel, NatLess
<1>2. PICK x \in T : \A y \in T : <<y, x>> \notin NatLess
  BY Zenon, <1>1, WFMin
<1>3. \A y \in T : ~(y < x)
  BY Zenon, <1>2 DEF NatLess
<1> QED
  BY <1>3

-----------------------------------------------------------------------------
(* Walks up *)

\* The chain nodes are a tree rooted in Genesis.
IsTree(node, block) ==
  /\ node \subseteq Hash
  /\ \A h \in node :
       /\ block[h].depth \in Nat
       /\ h = Genesis => block[h].parent = NoHash /\ block[h].depth = 0
       /\ h # Genesis => /\ block[h].parent \in node
                         /\ block[h].depth = block[block[h].parent].depth + 1

\* The loop that goes up one generation at a time is well defined.
LEMMA UpStep ==
  ASSUME NEW node, NEW block, NoHash \notin node, NEW h
  PROVE  /\ Up(node, block, h, 0) = IF h \in node THEN h ELSE NoHash
         /\ \A k \in Nat :
              Up(node, block, h, k + 1) =
                IF /\ Up(node, block, h, k) \in node
                   /\ block[Up(node, block, h, k)].parent \in node
                THEN block[Up(node, block, h, k)].parent ELSE NoHash
<1> DEFINE over == [g \in node \cup {NoHash} |->
                      IF g \in node /\ block[g].parent \in node THEN block[g].parent ELSE NoHash]
           start == IF h \in node THEN h ELSE NoHash
           IsUp(f, k) == f = [i \in 0 .. k |-> IF i = 0 THEN start ELSE over[f[i - 1]]]
           NoUp == {k \in Nat : ~ \E f : IsUp(f, k)}
<1>1. ASSUME NEW k \in Nat PROVE Up(node, block, h, k) = (CHOOSE f : IsUp(f, k))[k]
  BY Zenon DEF Up
<1> HIDE DEF over, start
<1>2. ASSUME NEW k \in Nat, NEW f, IsUp(f, k)
      PROVE  f[0] = start /\ \A i \in 1 .. k : f[i] = over[f[i - 1]]
  <2>1. f = [i \in 0 .. k |-> IF i = 0 THEN start ELSE over[f[i - 1]]]
    BY Zenon, <1>2
  <2> QED
    BY <2>1
<1>3. IsUp([i \in 0 .. 0 |-> start], 0)
  OBVIOUS
<1>4. ASSUME NEW k \in Nat, NEW f, IsUp(f, k) PROVE \E g : IsUp(g, k + 1)
  <2> DEFINE e == [i \in 0 .. k + 1 |-> IF i = k + 1 THEN over[f[k]] ELSE f[i]]
  <2>1. e = [i \in 0 .. k + 1 |-> IF i = 0 THEN start ELSE over[e[i - 1]]]
    BY <1>4
  <2> QED
    BY Zenon, <2>1
<1> HIDE DEF IsUp
<1>5. NoUp = {}
  <2> SUFFICES ASSUME NoUp # {} PROVE FALSE
    BY Zenon
  <2>1. PICK k \in NoUp : \A j \in NoUp : k <= j
    BY Zenon, LeastNumberPrinciple
  <2>2. k # 0
    BY Zenon, <1>3
  <2>3. k - 1 \in Nat /\ k - 1 \notin NoUp
    BY <2>1, <2>2
  <2> QED
    BY <1>4, <2>3
<1> DEFINE up(k) == CHOOSE f : IsUp(f, k)
<1>6. ASSUME NEW k \in Nat PROVE IsUp(up(k), k)
  BY Zenon, <1>5
<1> HIDE DEF up
<1>7. ASSUME NEW k \in Nat PROVE up(k + 1)[k] = up(k)[k]
  <2> DEFINE Differ == {i \in Nat : i <= k /\ up(k + 1)[i] # up(k)[i]}
  <2> SUFFICES ASSUME Differ # {} PROVE FALSE
    OBVIOUS
  <2>1. PICK i \in Differ : \A j \in Differ : i <= j
    BY Zenon, LeastNumberPrinciple
  <2>2. IsUp(up(k), k) /\ IsUp(up(k + 1), k + 1)
    BY <1>6
  <2>3. i # 0
    BY <1>2, <2>1, <2>2
  <2>4. i - 1 \in Nat /\ i - 1 \notin Differ /\ i \in 1 .. k /\ i \in 1 .. k + 1
    BY <2>1, <2>3
  <2>5. up(k + 1)[i - 1] = up(k)[i - 1]
    BY <2>4
  <2>6. up(k)[i] = over[up(k)[i - 1]]
    BY Zenon, <1>2, <2>2, <2>4
  <2>7. up(k + 1)[i] = over[up(k + 1)[i - 1]]
    BY <1>2, <2>2, <2>4
  <2> QED
    BY Zenon, <2>1, <2>5, <2>6, <2>7
<1>8. ASSUME NEW k \in Nat PROVE up(k + 1)[k + 1] = over[up(k)[k]]
  <2>1. IsUp(up(k + 1), k + 1) /\ k + 1 \in 1 .. k + 1 /\ (k + 1) - 1 = k
    BY <1>6
  <2>2. up(k + 1)[k + 1] = over[up(k + 1)[(k + 1) - 1]]
    BY <1>2, <2>1
  <2> QED
    BY Zenon, <1>7, <2>1, <2>2
<1>9. Up(node, block, h, 0) = start
  <2>1. IsUp(up(0), 0)
    BY Zenon, <1>6
  <2> QED
    BY Zenon, <1>1, <1>2, <2>1 DEF up
<1>10. ASSUME NEW k \in Nat
       PROVE  Up(node, block, h, k + 1) = over[Up(node, block, h, k)]
  <2>1. k + 1 \in Nat
    OBVIOUS
  <2>2. Up(node, block, h, k) = up(k)[k] /\ Up(node, block, h, k + 1) = up(k + 1)[k + 1]
    BY Zenon, <1>1, <2>1 DEF up
  <2> QED
    BY Zenon, <1>8, <2>2
<1>11. /\ start \in node \cup {NoHash}
       /\ \A g \in node \cup {NoHash} : over[g] \in node \cup {NoHash}
  BY Zenon DEF start, over
<1>12. ASSUME NEW k \in Nat PROVE Up(node, block, h, k) \in node \cup {NoHash}
  <2> DEFINE Off == {i \in Nat : Up(node, block, h, i) \notin node \cup {NoHash}}
  <2> SUFFICES ASSUME Off # {} PROVE FALSE
    BY Zenon
  <2>1. PICK i \in Off : \A j \in Off : i <= j
    BY Zenon, LeastNumberPrinciple
  <2>2. i # 0
    BY Zenon, <1>9, <1>11
  <2>3. i - 1 \in Nat /\ i - 1 \notin Off /\ (i - 1) + 1 = i
    BY <2>1, <2>2
  <2>4. Up(node, block, h, i) = over[Up(node, block, h, i - 1)]
    BY Zenon, <1>10, <2>3
  <2> QED
    BY Zenon, <1>11, <2>3, <2>4
<1> QED
  BY Zenon, <1>9, <1>10, <1>12 DEF start, over

\* The same, one generation: to the parent of the block reached, if both are
\* chain nodes.
LEMMA UpNext ==
  ASSUME NEW node, NEW block, NoHash \notin node, NEW h, NEW k \in Nat, NEW g,
         g = Up(node, block, h, k)
  PROVE  Up(node, block, h, k + 1) =
           IF g \in node /\ block[g].parent \in node THEN block[g].parent ELSE NoHash
<1>1. \A i \in Nat :
        Up(node, block, h, i + 1) =
          IF /\ Up(node, block, h, i) \in node
             /\ block[Up(node, block, h, i)].parent \in node
          THEN block[Up(node, block, h, i)].parent ELSE NoHash
  BY UpStep, Zenon
<1> QED
  BY Zenon, <1>1

\* A walk leads to a chain node or nowhere.
LEMMA UpType ==
  ASSUME NEW node, NEW block, NoHash \notin node, NEW h, NEW k \in Nat
  PROVE  Up(node, block, h, k) \in node \cup {NoHash}
<1>1. CASE k = 0
  <2>1. Up(node, block, h, 0) = IF h \in node THEN h ELSE NoHash
    BY Zenon, UpStep
  <2> QED
    BY Zenon, <1>1, <2>1
<1>2. CASE k # 0
  <2>1. k - 1 \in Nat /\ (k - 1) + 1 = k
    BY <1>2
  <2>2. Up(node, block, h, (k - 1) + 1) \in node \cup {NoHash}
    <3> DEFINE g == Up(node, block, h, k - 1)
    <3>1. Up(node, block, h, (k - 1) + 1) =
            IF g \in node /\ block[g].parent \in node THEN block[g].parent ELSE NoHash
      BY Zenon, <2>1, UpNext
    <3> QED
      BY Zenon, <3>1
  <2> QED
    BY Zenon, <2>1, <2>2
<1> QED
  BY Zenon, <1>1, <1>2

\* In a tree every generation above a block is there, down to Genesis.
LEMMA UpDepth ==
  ASSUME NEW node, NEW block, IsTree(node, block), NEW h \in node, NEW k \in Nat
  PROVE  /\ k <= block[h].depth => /\ Up(node, block, h, k) \in node
                                   /\ block[Up(node, block, h, k)].depth = block[h].depth - k
         /\ k > block[h].depth => Up(node, block, h, k) = NoHash
<1> DEFINE d == block[h].depth
           g(i) == Up(node, block, h, i)
           Claim(i) == /\ i <= d => g(i) \in node /\ block[g(i)].depth = d - i
                       /\ i > d => g(i) = NoHash
           Bad == {i \in Nat : ~Claim(i)}
<1>0. NoHash \notin node /\ d \in Nat
  BY Zenon, TreeAssumption DEF IsTree
<1>1. Claim(0)
  BY <1>0, UpStep
<1>2. ASSUME NEW i \in Nat, Claim(i) PROVE Claim(i + 1)
  <2>1. g(i + 1) = IF g(i) \in node /\ block[g(i)].parent \in node THEN block[g(i)].parent ELSE NoHash
    BY <1>0, UpStep
  <2> HIDE DEF g
  <2>2. CASE i + 1 <= d
    <3>1. g(i) \in node /\ block[g(i)].depth = d - i /\ g(i) # Genesis
      BY <1>0, <1>2, <2>2 DEF IsTree
    <3>2. /\ block[g(i)].parent \in node /\ block[block[g(i)].parent].depth \in Nat
          /\ block[g(i)].depth = block[block[g(i)].parent].depth + 1
      BY Zenon, <3>1 DEF IsTree
    <3> QED
      BY <1>0, <2>1, <2>2, <3>1, <3>2
  <2>3. CASE i = d
    <3>1. g(i) \in node /\ block[g(i)].depth = 0
      BY <1>0, <1>2, <2>3
    <3>2. g(i) = Genesis
      BY <3>1 DEF IsTree
    <3>3. block[g(i)].parent = NoHash
      BY Zenon, <3>1, <3>2 DEF IsTree
    <3> QED
      BY <1>0, <2>1, <2>3, <3>3
  <2>4. CASE i > d
    BY <1>0, <1>2, <2>1, <2>4
  <2> QED
    BY <1>0, <2>2, <2>3, <2>4
<1> HIDE DEF Claim
<1>3. Bad = {}
  <2> SUFFICES ASSUME Bad # {} PROVE FALSE
    BY Zenon
  <2>1. PICK i \in Bad : \A j \in Bad : i <= j
    BY Zenon, LeastNumberPrinciple
  <2>2. i # 0
    BY Zenon, <1>1
  <2>3. i - 1 \in Nat /\ (i - 1) + 1 = i /\ Claim(i - 1)
    BY <2>1, <2>2
  <2>4. Claim((i - 1) + 1)
    BY Zenon, <1>2, <2>3
  <2> QED
    BY Zenon, <2>1, <2>3, <2>4
<1>4. Claim(k)
  BY Zenon, <1>3
<1> QED
  BY Zenon, <1>4 DEF Claim

\* Two walks one after the other are one walk.
LEMMA UpCompose ==
  ASSUME NEW node, NEW block, NoHash \notin node, NEW h, NEW j \in Nat, NEW k \in Nat
  PROVE  Up(node, block, Up(node, block, h, j), k) = Up(node, block, h, j + k)
<1> DEFINE m == Up(node, block, h, j)
           Claim(i) == Up(node, block, m, i) = Up(node, block, h, j + i)
           Bad == {i \in Nat : ~Claim(i)}
<1>1. Claim(0)
  <2>1. Up(node, block, m, 0) = IF m \in node THEN m ELSE NoHash
    BY Zenon, UpStep
  <2>2. m \in node \cup {NoHash} /\ j + 0 = j
    BY UpType
  <2> QED
    BY Zenon, <2>1, <2>2
<1>2. ASSUME NEW i \in Nat, Claim(i) PROVE Claim(i + 1)
  <2> HIDE DEF m
  <2>1. j + i \in Nat /\ j + (i + 1) = (j + i) + 1
    OBVIOUS
  <2> DEFINE g == Up(node, block, m, i)
             e == Up(node, block, h, j + i)
  <2>2. Up(node, block, m, i + 1) =
          IF g \in node /\ block[g].parent \in node THEN block[g].parent ELSE NoHash
    BY Zenon, UpNext
  <2>3. Up(node, block, h, (j + i) + 1) =
          IF e \in node /\ block[e].parent \in node THEN block[e].parent ELSE NoHash
    BY Zenon, <2>1, UpNext
  <2> QED
    BY <1>2, <2>1, <2>2, <2>3
<1> HIDE DEF Claim
<1>3. Bad = {}
  <2> SUFFICES ASSUME Bad # {} PROVE FALSE
    BY Zenon
  <2>1. PICK i \in Bad : \A l \in Bad : i <= l
    BY Zenon, LeastNumberPrinciple
  <2>2. i # 0
    BY Zenon, <1>1
  <2>3. i - 1 \in Nat /\ (i - 1) + 1 = i /\ Claim(i - 1)
    BY <2>1, <2>2
  <2>4. Claim((i - 1) + 1)
    BY Zenon, <1>2, <2>3
  <2> QED
    BY Zenon, <2>1, <2>3, <2>4
<1>4. Claim(k)
  BY Zenon, <1>3
<1> QED
  BY Zenon, <1>4 DEF Claim

\* What a walk finds does not change when blocks are added to the tree.
LEMMA UpGrows ==
  ASSUME NEW node, NEW block, IsTree(node, block),
         NEW node2, NEW block2, NoHash \notin node2,
         node \subseteq node2, \A g \in node : block2[g] = block[g],
         NEW h \in node, NEW k \in Nat
  PROVE  Up(node2, block2, h, k) = Up(node, block, h, k)
<1> DEFINE Claim(i) == Up(node2, block2, h, i) = Up(node, block, h, i)
           Bad == {i \in Nat : ~Claim(i)}
<1>0. NoHash \notin node
  BY Zenon
<1>1. Claim(0)
  <2>1. Up(node, block, h, 0) = IF h \in node THEN h ELSE NoHash
    BY Zenon, <1>0, UpStep
  <2>2. Up(node2, block2, h, 0) = IF h \in node2 THEN h ELSE NoHash
    BY Zenon, UpStep
  <2> QED
    BY Zenon, <2>1, <2>2
<1>2. ASSUME NEW i \in Nat, Claim(i) PROVE Claim(i + 1)
  <2> DEFINE g == Up(node, block, h, i)
             e == Up(node2, block2, h, i)
  <2>1. Up(node, block, h, i + 1) =
          IF g \in node /\ block[g].parent \in node THEN block[g].parent ELSE NoHash
    BY Zenon, <1>0, UpNext
  <2>2. Up(node2, block2, h, i + 1) =
          IF e \in node2 /\ block2[e].parent \in node2 THEN block2[e].parent ELSE NoHash
    BY UpNext
  <2>3. g \in node \cup {NoHash} /\ e = g
    BY Zenon, <1>0, <1>2, UpType
  <2>4. g \in node => block[g].parent \in node \cup {NoHash}
    BY Zenon DEF IsTree
  <2> HIDE DEF g, e
  <2> QED
    BY <1>0, <2>1, <2>2, <2>3, <2>4
<1> HIDE DEF Claim
<1>3. Bad = {}
  <2> SUFFICES ASSUME Bad # {} PROVE FALSE
    BY Zenon
  <2>1. PICK i \in Bad : \A l \in Bad : i <= l
    BY Zenon, LeastNumberPrinciple
  <2>2. i # 0
    BY Zenon, <1>1
  <2>3. i - 1 \in Nat /\ (i - 1) + 1 = i /\ Claim(i - 1)
    BY <2>1, <2>2
  <2>4. Claim((i - 1) + 1)
    BY Zenon, <1>2, <2>3
  <2> QED
    BY Zenon, <2>1, <2>3, <2>4
<1>4. Claim(k)
  BY Zenon, <1>3
<1> QED
  BY Zenon, <1>4 DEF Claim

\* An uncle isUncleValid accepts is accepted however many blocks are added.
LEMMA UncleGrows ==
  ASSUME NEW node, NEW block, IsTree(node, block),
         NEW node2, NEW block2, NoHash \notin node2,
         node \subseteq node2, \A g \in node : block2[g] = block[g],
         NEW p, NEW u, IsUncleValid(node, block, p, u)
  PROVE  IsUncleValid(node2, block2, p, u)
<1> DEFINE dp == block[p].depth
           du == block[u].depth
           pUp == IF dp > du THEN dp - du ELSE 0
           uUp == IF du > dp THEN du - dp ELSE 0
           P == Up(node, block, p, pUp)
           U == Up(node, block, u, uUp)
<1>0. NoHash \notin node
  BY Zenon
<1>1. /\ p \in node /\ u \in node /\ P # NoHash /\ U # NoHash /\ P # U
      /\ \E k \in 1..MaxUncleDistance :
              /\ pUp + uUp + k <= MaxUncleDistance
              /\ Up(node, block, P, k) = Up(node, block, U, k)
              /\ Up(node, block, P, k) # NoHash
  BY Zenon DEF IsUncleValid
<1>2. pUp \in Nat /\ uUp \in Nat
  <2>1. dp \in Nat /\ du \in Nat
    BY Zenon, <1>1 DEF IsTree
  <2> QED
    BY <2>1
<1>3. block2[p] = block[p] /\ block2[u] = block[u] /\ p \in node2 /\ u \in node2
  BY Zenon, <1>1
<1> HIDE DEF pUp, uUp
<1>4. Up(node2, block2, p, pUp) = P /\ Up(node2, block2, u, uUp) = U
  BY <1>1, <1>2, UpGrows
<1>5. P \in node /\ U \in node
  BY Zenon, <1>0, <1>1, <1>2, UpType
<1> HIDE DEF P, U
<1>6. PICK k \in 1..MaxUncleDistance :
              /\ pUp + uUp + k <= MaxUncleDistance
              /\ Up(node, block, P, k) = Up(node, block, U, k)
              /\ Up(node, block, P, k) # NoHash
  BY Zenon, <1>1
<1>7. k \in Nat
  BY TreeAssumption
<1>8. Up(node2, block2, P, k) = Up(node, block, P, k) /\ Up(node2, block2, U, k) = Up(node, block, U, k)
  BY <1>5, <1>7, UpGrows
<1> QED
  BY <1>1, <1>3, <1>4, <1>6, <1>8 DEF IsUncleValid, pUp, uUp

\* An uncle that is valid in a tree is valid in any part of it that has the
\* parent and the uncle: nodes that know different blocks judge alike.
LEMMA UncleSame ==
  ASSUME NEW node, NEW block, IsTree(node, block),
         NEW node2, NEW block2, NoHash \notin node2,
         node \subseteq node2, \A g \in node : block2[g] = block[g],
         NEW p \in node, NEW u \in node, IsUncleValid(node2, block2, p, u)
  PROVE  IsUncleValid(node, block, p, u)
<1> DEFINE dp == block2[p].depth
           du == block2[u].depth
           pUp == IF dp > du THEN dp - du ELSE 0
           uUp == IF du > dp THEN du - dp ELSE 0
           P == Up(node2, block2, p, pUp)
           U == Up(node2, block2, u, uUp)
<1>0. NoHash \notin node /\ block2[p] = block[p] /\ block2[u] = block[u]
  BY Zenon
<1>1. /\ P # NoHash /\ U # NoHash /\ P # U
      /\ \E k \in 1..MaxUncleDistance :
              /\ pUp + uUp + k <= MaxUncleDistance
              /\ Up(node2, block2, P, k) = Up(node2, block2, U, k)
              /\ Up(node2, block2, P, k) # NoHash
  BY Zenon DEF IsUncleValid
<1>2. pUp \in Nat /\ uUp \in Nat
  <2>1. dp \in Nat /\ du \in Nat
    BY Zenon, <1>0 DEF IsTree
  <2> QED
    BY <2>1
<1> HIDE DEF pUp, uUp
<1>3. Up(node, block, p, pUp) = P /\ Up(node, block, u, uUp) = U
  BY <1>2, UpGrows
<1>4. P \in node /\ U \in node
  <2>1. P \in node \cup {NoHash} /\ U \in node \cup {NoHash}
    BY Zenon, <1>0, <1>2, <1>3, UpType
  <2> QED
    BY Zenon, <1>1, <2>1
<1> HIDE DEF P, U
<1>5. PICK k \in 1..MaxUncleDistance :
              /\ pUp + uUp + k <= MaxUncleDistance
              /\ Up(node2, block2, P, k) = Up(node2, block2, U, k)
              /\ Up(node2, block2, P, k) # NoHash
  BY Zenon, <1>1
<1>6. k \in Nat
  BY TreeAssumption
<1>7. Up(node2, block2, P, k) = Up(node, block, P, k) /\ Up(node2, block2, U, k) = Up(node, block, U, k)
  BY <1>4, <1>6, UpGrows
<1> QED
  BY Zenon, <1>0, <1>1, <1>3, <1>5, <1>7 DEF IsUncleValid, pUp, uUp

-----------------------------------------------------------------------------
(* Walks down *)

\* upTo has the lists one after the other, up to each of them.
IsJoin(upTo, lists, n) == upTo[0] = <<>> /\ \A i \in 1..n : upTo[i] = upTo[i - 1] \o lists[i]

\* The loop that puts lists one after the other is well defined.
LEMMA ConcatWalk ==
  ASSUME NEW S, NEW n \in Nat, NEW lists \in [1..n -> Seq(S)]
  PROVE  \E upTo : Concat(lists) = upTo[n] /\ IsJoin(upTo, lists, n)
<1> DEFINE Empty == <<>>
           Join(l, i) == l \o lists[i]
           IsUpTo(f, m) == f = [i \in 0..m |-> IF i = 0 THEN Empty ELSE Join(f[i - 1], i)]
           NoUpTo == {m \in Nat : ~ \E f : IsUpTo(f, m)}
<1>1. Concat(lists) = (CHOOSE f : IsUpTo(f, Len(lists)))[Len(lists)]
  BY Zenon DEF Concat
<1>2. Len(lists) = n
  OBVIOUS
<1> HIDE DEF Empty, Join
<1>3. IsUpTo([i \in 0..0 |-> Empty], 0)
  OBVIOUS
<1>4. ASSUME NEW m \in Nat, NEW f, IsUpTo(f, m) PROVE \E g : IsUpTo(g, m + 1)
  <2> DEFINE e == [i \in 0 .. m + 1 |-> IF i = m + 1 THEN Join(f[m], m + 1) ELSE f[i]]
  <2>1. e = [i \in 0 .. m + 1 |-> IF i = 0 THEN Empty ELSE Join(e[i - 1], i)]
    BY <1>4
  <2> QED
    BY Zenon, <2>1
<1>5. NoUpTo = {}
  <2> HIDE DEF IsUpTo
  <2> SUFFICES ASSUME NoUpTo # {} PROVE FALSE
    BY Zenon
  <2>1. PICK k \in NoUpTo : \A j \in NoUpTo : k <= j
    BY Zenon, LeastNumberPrinciple
  <2>2. k # 0
    BY Zenon, <1>3
  <2>3. k - 1 \in Nat /\ k - 1 \notin NoUpTo
    BY <2>1, <2>2
  <2> QED
    BY <1>4, <2>3
<1> DEFINE upTo == CHOOSE f : IsUpTo(f, n)
<1>6. IsUpTo(upTo, n)
  <2>1. \E f : IsUpTo(f, n)
    BY Zenon, <1>5
  <2> HIDE DEF IsUpTo
  <2> QED
    BY Zenon, <2>1
<1>7. upTo[0] = Empty /\ \A i \in 1..n : upTo[i] = Join(upTo[i - 1], i)
  <2>1. upTo = [i \in 0..n |-> IF i = 0 THEN Empty ELSE Join(upTo[i - 1], i)]
    BY Zenon, <1>6
  <2> HIDE DEF upTo
  <2> QED
    BY <2>1
<1> HIDE DEF upTo, IsUpTo
<1>8. IsJoin(upTo, lists, n)
  BY Zenon, <1>7 DEF IsJoin, Empty, Join
<1>9. Concat(lists) = upTo[n]
  BY Zenon, <1>1, <1>2 DEF upTo
<1> QED
  BY Zenon, <1>8, <1>9

\* Lists one after the other: nothing but members of the lists.
LEMMA ConcatType ==
  ASSUME NEW S, NEW n \in Nat, NEW lists \in [1..n -> Seq(S)]
  PROVE  Concat(lists) \in Seq(S)
<1>1. PICK upTo : Concat(lists) = upTo[n] /\ IsJoin(upTo, lists, n)
  BY Zenon, ConcatWalk
<1>2. upTo[0] \in Seq(S)
  BY <1>1 DEF IsJoin
<1>3. ASSUME NEW i \in 1..n, upTo[i - 1] \in Seq(S) PROVE upTo[i] \in Seq(S)
  <2>1. upTo[i] = upTo[i - 1] \o lists[i] /\ lists[i] \in Seq(S)
    BY Zenon, <1>1 DEF IsJoin
  <2> QED
    BY <1>3, <2>1
<1> DEFINE Bad == {i \in Nat : i <= n /\ upTo[i] \notin Seq(S)}
<1>4. Bad = {}
  <2> SUFFICES ASSUME Bad # {} PROVE FALSE
    BY Zenon
  <2>1. PICK i \in Bad : \A j \in Bad : i <= j
    BY Zenon, LeastNumberPrinciple
  <2>2. i # 0
    BY Zenon, <1>2
  <2>3. i - 1 \in Nat /\ i - 1 \notin Bad /\ i \in 1..n
    BY <2>1, <2>2
  <2>4. upTo[i - 1] \in Seq(S)
    BY <2>3
  <2> QED
    BY Zenon, <1>3, <2>1, <2>3, <2>4
<1> QED
  BY <1>1, <1>4

\* The children listed under a chain node are chain nodes whose parent it is.
Kids(node, block, children) ==
  \A p \in node :
    /\ children[p] \in Seq(node)
    /\ \A i \in DOMAIN children[p] : block[children[p][i]].parent = p

\* The chain nodes at most r generations below h and no deeper than m.
Below(node, block, h, r, m) ==
  {g \in node : block[g].depth <= m /\ \E j \in 1..r : Up(node, block, g, j) = h}

\* One generation of findNonDirectAncestors: a child of h and what was found
\* below that child is below h.
LEMMA BelowStep ==
  ASSUME NEW node, NEW block, NoHash \notin node, NEW h \in node, NEW g \in node,
         block[g].parent = h, NEW m, block[g].depth <= m,
         NEW r \in Nat, NEW list \in Seq(Below(node, block, g, r, m))
  PROVE  <<g>> \o list \in Seq(Below(node, block, h, r + 1, m))
<1> DEFINE B == Below(node, block, h, r + 1, m)
<1>1. g \in B
  <2>1. Up(node, block, g, 0) = g
    BY Zenon, UpStep
  <2>2. Up(node, block, g, 0 + 1) = h
    BY Zenon, <2>1, UpNext
  <2>3. 1 \in 1 .. r + 1 /\ Up(node, block, g, 1) = h
    BY <2>2
  <2> QED
    BY Zenon, <2>3 DEF Below
<1>2. Below(node, block, g, r, m) \subseteq B
  <2> SUFFICES ASSUME NEW u \in Below(node, block, g, r, m) PROVE u \in B
    BY Zenon
  <2>1. PICK j \in 1..r : Up(node, block, u, j) = g
    BY Zenon DEF Below
  <2>2. j \in Nat /\ j + 1 \in 1 .. r + 1
    OBVIOUS
  <2>3. Up(node, block, u, j + 1) = h
    BY Zenon, <2>1, <2>2, UpNext
  <2> QED
    BY Zenon, <2>2, <2>3 DEF Below
<1> HIDE DEF B
<1>3. list \in Seq(B) /\ <<g>> \in Seq(B)
  BY <1>1, <1>2
<1> QED
  BY <1>3 DEF B

\* What findNonDirectAncestors joins at a block with these children, when prev has
\* what is found below each of them.
Branches(block, list, prev, m) ==
  [i \in DOMAIN list |-> IF block[list[i]] # NoBlock /\ block[list[i]].depth <= m
                         THEN <<list[i]>> \o prev[list[i]] ELSE <<>>]

\* below has what is found up to rem generations below every node.
IsWalk(below, node, block, children, rem, m) ==
  /\ \A h \in node : below[0][h] = <<>>
  /\ \A r \in Nat : r + 1 <= rem =>
       \A h \in node : below[r + 1][h] = Concat(Branches(block, children[h], below[r], m))

\* The recursion of findNonDirectAncestors is well defined.
LEMMA NonDirectWalk ==
  ASSUME NEW node, NEW block, NEW children, node \subseteq Hash,
         NEW c, NEW rem \in Nat, NEW m
  PROVE  \E below :
           /\ FindNonDirectAncestors(node, block, children, c, rem, m) = below[rem][c]
           /\ IsWalk(below, node, block, children, rem, m)
<1> DEFINE Body(r, prev) ==
             [h \in Hash |->
                IF r = 0 \/ h \notin node THEN <<>>
                ELSE Concat([i \in DOMAIN children[h] |->
                       LET g == children[h][i]
                       IN  IF block[g] # NoBlock /\ block[g].depth <= m
                           THEN <<g>> \o prev[g] ELSE <<>>])]
           IsBelow(f, n) == f = [r \in 0..n |-> Body(r, f[r - 1])]
           None == {n \in Nat : ~ \E f : IsBelow(f, n)}
<1>1. FindNonDirectAncestors(node, block, children, c, rem, m) =
        (CHOOSE f : IsBelow(f, rem))[rem][c]
  BY Zenon DEF FindNonDirectAncestors
<1>2. \A p, q : Body(0, p) = Body(0, q)
  BY Zenon
<1>3. ASSUME NEW p, NEW h \in node PROVE Body(0, p)[h] = <<>>
  BY Zenon
<1>4. ASSUME NEW r \in Nat, r # 0, NEW prev, NEW h \in node
      PROVE  Body(r, prev)[h] = Concat(Branches(block, children[h], prev, m))
  <2>1. h \in Hash
    BY Zenon
  <2> QED
    BY Zenon, <1>4, <2>1 DEF Branches
<1> HIDE DEF Body
<1>5. IsBelow([r \in 0..0 |-> Body(0, 0)], 0)
  BY <1>2
<1>6. ASSUME NEW n \in Nat, NEW f, IsBelow(f, n) PROVE \E g : IsBelow(g, n + 1)
  <2> DEFINE e == [r \in 0 .. n + 1 |-> IF r = n + 1 THEN Body(n + 1, f[n]) ELSE f[r]]
  <2>1. e = [r \in 0 .. n + 1 |-> Body(r, e[r - 1])]
    <3>1. ASSUME NEW r \in 0 .. n + 1 PROVE e[r] = Body(r, e[r - 1])
      <4>1. CASE r = n + 1
        BY <4>1
      <4>2. CASE r = 0
        <5>1. f[0] = Body(0, f[0 - 1])
          BY <1>6
        <5> QED
          BY Zenon, <1>2, <4>2, <5>1
      <4>3. CASE r # 0 /\ r # n + 1
        <5>1. f[r] = Body(r, f[r - 1]) /\ r - 1 \in 0 .. n
          BY <1>6, <4>3
        <5> QED
          BY <4>3, <5>1
      <4> QED
        BY Zenon, <4>1, <4>2, <4>3
    <3> QED
      BY Zenon, <3>1
  <2> QED
    BY Zenon, <2>1
<1>7. None = {}
  <2> HIDE DEF IsBelow
  <2> SUFFICES ASSUME None # {} PROVE FALSE
    BY Zenon
  <2>1. PICK k \in None : \A j \in None : k <= j
    BY Zenon, LeastNumberPrinciple
  <2>2. k # 0
    BY Zenon, <1>5
  <2>3. k - 1 \in Nat /\ k - 1 \notin None
    BY <2>1, <2>2
  <2> QED
    BY <1>6, <2>3
<1> DEFINE below == CHOOSE f : IsBelow(f, rem)
<1>8. IsBelow(below, rem)
  <2> HIDE DEF IsBelow
  <2> QED
    BY Zenon, <1>7
<1>9. \A r \in 0..rem : below[r] = Body(r, below[r - 1])
  <2>1. below = [r \in 0..rem |-> Body(r, below[r - 1])]
    BY Zenon, <1>8
  <2> HIDE DEF below
  <2> QED
    BY Zenon, <2>1
<1>10. FindNonDirectAncestors(node, block, children, c, rem, m) = below[rem][c]
  BY Zenon, <1>1
<1> HIDE DEF below, IsBelow
<1>11. ASSUME NEW h \in node PROVE below[0][h] = <<>>
  <2>1. below[0] = Body(0, below[0 - 1])
    BY <1>9
  <2> QED
    BY Zenon, <1>3, <2>1
<1>12. ASSUME NEW r \in Nat, r + 1 <= rem, NEW h \in node
       PROVE  below[r + 1][h] = Concat(Branches(block, children[h], below[r], m))
  <2>1. r + 1 \in 0..rem /\ (r + 1) - 1 = r /\ r + 1 \in Nat /\ r + 1 # 0
    BY <1>12
  <2>2. below[r + 1] = Body(r + 1, below[r])
    BY Zenon, <1>9, <2>1
  <2>3. Body(r + 1, below[r])[h] = Concat(Branches(block, children[h], below[r], m))
    BY ZenonT(60), <1>4, <2>1
  <2> QED
    BY Zenon, <2>2, <2>3
<1> QED
  BY Zenon, <1>10, <1>11, <1>12 DEF IsWalk

\* findNonDirectAncestors finds nothing but blocks below the child it is
\* called for, within the generations and the depth it is given.
LEMMA NonDirectFact ==
  ASSUME NEW node, NEW block, NEW children,
         IsTree(node, block), Kids(node, block, children),
         NEW c \in node, NEW rem \in Nat, NEW m \in Nat
  PROVE  FindNonDirectAncestors(node, block, children, c, rem, m)
           \in Seq(Below(node, block, c, rem, m))
<1>0. NoHash \notin node /\ node \subseteq Hash
  BY Zenon, TreeAssumption DEF IsTree
<1>1. PICK below :
        /\ FindNonDirectAncestors(node, block, children, c, rem, m) = below[rem][c]
        /\ IsWalk(below, node, block, children, rem, m)
  BY Zenon, <1>0, NonDirectWalk
<1>4. ASSUME NEW r \in Nat, NEW prev,
             \A g \in node : prev[g] \in Seq(Below(node, block, g, r, m)), NEW h \in node
      PROVE  Concat(Branches(block, children[h], prev, m))
               \in Seq(Below(node, block, h, r + 1, m))
  <2> DEFINE B == Below(node, block, h, r + 1, m)
             lists == Branches(block, children[h], prev, m)
  <2>2. /\ children[h] \in Seq(node) /\ DOMAIN children[h] = 1..Len(children[h])
        /\ Len(children[h]) \in Nat
    BY DEF Kids
  <2>3. ASSUME NEW i \in DOMAIN children[h] PROVE lists[i] \in Seq(B)
    <3> DEFINE g == children[h][i]
    <3>1. g \in node /\ block[g].parent = h
      BY <2>2 DEF Kids
    <3>0. lists[i] = IF block[g] # NoBlock /\ block[g].depth <= m THEN <<g>> \o prev[g] ELSE <<>>
      BY Zenon DEF Branches
    <3> HIDE DEF lists
    <3>2. CASE block[g] # NoBlock /\ block[g].depth <= m
      <4>1. prev[g] \in Seq(Below(node, block, g, r, m))
        BY Zenon, <1>4, <3>1
      <4>2. lists[i] = <<g>> \o prev[g]
        BY Zenon, <3>0, <3>2
      <4> HIDE DEF g
      <4>3. <<g>> \o prev[g] \in Seq(B)
        BY Zenon, <1>0, <3>1, <3>2, <4>1, BelowStep
      <4> QED
        BY Zenon, <4>2, <4>3
    <3>3. CASE ~(block[g] # NoBlock /\ block[g].depth <= m)
      <4>1. lists[i] = <<>>
        BY Zenon, <3>0, <3>3
      <4> QED
        BY <4>1
    <3> QED
      BY Zenon, <3>2, <3>3
  <2> HIDE DEF B
  <2>4. lists \in [1..Len(children[h]) -> Seq(B)]
    <3>1. lists = [i \in DOMAIN children[h] |-> lists[i]]
      BY Zenon DEF Branches
    <3> HIDE DEF lists
    <3> QED
      BY Zenon, <2>2, <2>3, <3>1
  <2> HIDE DEF lists
  <2>5. Concat(lists) \in Seq(B)
    BY Zenon, <2>2, <2>4, ConcatType
  <2> QED
    BY Zenon, <2>5 DEF B, lists
<1> DEFINE Claim(r) == \A h \in node : below[r][h] \in Seq(Below(node, block, h, r, m))
           Bad == {r \in Nat : r <= rem /\ ~Claim(r)}
<1>10. Claim(0)
  <2> SUFFICES ASSUME NEW h \in node PROVE below[0][h] \in Seq(Below(node, block, h, 0, m))
    BY Zenon
  <2>2. below[0][h] = <<>>
    BY Zenon, <1>1 DEF IsWalk
  <2> QED
    BY <2>2
<1>11. ASSUME NEW r \in Nat, r + 1 <= rem, Claim(r) PROVE Claim(r + 1)
  BY Zenon, <1>1, <1>4, <1>11 DEF IsWalk
<1> HIDE DEF Claim
<1>12. Bad = {}
  <2> SUFFICES ASSUME Bad # {} PROVE FALSE
    BY Zenon
  <2>1. PICK r \in Bad : \A j \in Bad : r <= j
    BY Zenon, LeastNumberPrinciple
  <2>2. r # 0
    BY Zenon, <1>10
  <2>3. r - 1 \in Nat /\ (r - 1) + 1 = r /\ Claim(r - 1)
    BY <2>1, <2>2
  <2>4. Claim((r - 1) + 1)
    BY Zenon, <1>11, <2>1, <2>3
  <2> QED
    BY Zenon, <2>1, <2>3, <2>4
<1>13. Claim(rem)
  BY <1>12
<1> QED
  BY Zenon, <1>1, <1>13 DEF Claim

\* A block that hangs below a sibling of the parent's line, no deeper than the
\* parent and within the distance, is an uncle isUncleValid accepts.
LEMMA SiblingFact ==
  ASSUME NEW node, NEW block, IsTree(node, block), NEW parent \in node,
         NEW i \in Nat, NEW rem \in Nat, rem >= 1, i + rem = MaxUncleDistance,
         NEW a \in node, NEW own \in node, NEW c \in node,
         Up(node, block, parent, i) = own, Up(node, block, parent, i + 1) = a,
         block[c].parent = a, c # own,
         NEW u \in node,
         u = c \/ u \in Below(node, block, c, rem - 1, block[parent].depth)
  PROVE  IsUncleValid(node, block, parent, u)
<1> DEFINE dp == block[parent].depth
           du == block[u].depth
<1>0. NoHash \notin node
  BY Zenon, TreeAssumption DEF IsTree
<1>1. dp \in Nat /\ du \in Nat /\ block[c].depth \in Nat /\ block[a].depth \in Nat
  BY Zenon DEF IsTree
<1>2. i <= dp /\ block[own].depth = dp - i
  BY <1>0, <1>1, UpDepth
<1>3. i + 1 <= dp /\ block[a].depth = dp - (i + 1)
  BY <1>0, <1>1, UpDepth
<1>4. c # Genesis
  BY Zenon, <1>0 DEF IsTree
<1>5. block[c].depth = dp - i
  BY <1>1, <1>2, <1>3, <1>4 DEF IsTree
<1>6. PICK j \in Nat : j <= rem - 1 /\ Up(node, block, u, j) = c /\ du <= dp
  <2>1. CASE u = c
    <3>1. Up(node, block, u, 0) = c
      BY Zenon, <1>0, <2>1, UpStep
    <3>2. du <= dp
      BY <1>1, <1>2, <1>5, <2>1
    <3> QED
      BY <3>1, <3>2
  <2>2. CASE u \in Below(node, block, c, rem - 1, dp)
    <3>1. PICK j \in 1 .. (rem - 1) : Up(node, block, u, j) = c
      BY Zenon, <2>2 DEF Below
    <3>2. du <= dp /\ j \in Nat /\ j <= rem - 1
      BY <2>2, <3>1 DEF Below
    <3> QED
      BY Zenon, <3>1, <3>2
  <2> QED
    BY Zenon, <2>1, <2>2
<1>7. j <= du /\ block[c].depth = du - j
  BY <1>0, <1>1, <1>6, UpDepth
<1>8. /\ j <= i /\ dp >= du /\ dp - du = i - j
  BY <1>1, <1>2, <1>5, <1>6, <1>7
<1> DEFINE p == Up(node, block, parent, i - j)
<1>9. i - j \in Nat /\ j + 1 \in Nat /\ (i - j) + j = i /\ (i - j) + (j + 1) = i + 1
  BY <1>8
<1>10. p \in node
  BY <1>1, <1>2, <1>8, <1>9, UpDepth
<1>11. Up(node, block, p, j) = own
  BY <1>0, <1>9, UpCompose
<1>12. Up(node, block, p, j + 1) = a
  BY <1>0, <1>9, UpCompose
<1>13. Up(node, block, u, j + 1) = a
  BY <1>0, <1>6, UpNext
<1>14. Up(node, block, u, 0) = u
  BY Zenon, <1>0, UpStep
<1> HIDE DEF p
<1>15. p # u
  BY Zenon, <1>6, <1>11
<1>16. /\ j + 1 \in 1..MaxUncleDistance
       /\ (i - j) + 0 + (j + 1) <= MaxUncleDistance
  BY <1>6, <1>8, TreeAssumption
<1>17. /\ (IF dp > du THEN dp - du ELSE 0) = i - j
       /\ (IF du > dp THEN du - dp ELSE 0) = 0
  BY <1>1, <1>8
<1> HIDE DEF dp, du
<1>18. \E k \in 1..MaxUncleDistance :
         /\ (i - j) + 0 + k <= MaxUncleDistance
         /\ Up(node, block, p, k) = Up(node, block, u, k)
         /\ Up(node, block, p, k) # NoHash
  BY Zenon, <1>0, <1>12, <1>13, <1>16
<1> QED
  BY Zenon, <1>0, <1>10, <1>14, <1>15, <1>17, <1>18 DEF IsUncleValid, p, dp, du

\* What findUncles joins at the ancestor a, whose child on the parent's line is own.
Siblings(node, block, children, a, own, rem, m) ==
  [k \in DOMAIN children[a] |->
     LET c == children[a][k]
     IN  IF c # own /\ block[c] # NoBlock
         THEN <<c>> \o FindNonDirectAncestors(node, block, children, c, rem - 1, m)
         ELSE <<>>]

\* found has what is found with rem generations left.
IsSearch(found, node, block, children, parent) ==
  /\ found[0] = <<>>
  /\ \A rem \in 1..MaxUncleDistance :
       LET i == MaxUncleDistance - rem
           a == Up(node, block, parent, i + 1)
       IN  found[rem] = IF a = NoHash THEN <<>>
                        ELSE Concat(Siblings(node, block, children, a,
                                             Up(node, block, parent, i), rem,
                                             block[parent].depth)) \o found[rem - 1]

\* The loop of findUncles is well defined, and its ancestors are those of the parent.
LEMMA UnclesSearch ==
  ASSUME NEW node, NEW block, NEW children, NoHash \notin node, NEW parent \in node
  PROVE  \E found : /\ FindUncles(node, block, children, parent) = found[MaxUncleDistance]
                    /\ IsSearch(found, node, block, children, parent)
<1> DEFINE maxDepth == block[parent].depth
           Sibs(ancestor, own, rem) ==
             Concat([i \in DOMAIN children[ancestor] |->
               LET c == children[ancestor][i]
               IN  IF c # own /\ block[c] # NoBlock
                   THEN <<c>> \o FindNonDirectAncestors(node, block, children, c,
                                                        rem - 1, maxDepth)
                   ELSE <<>>])
           Above(i) == Up(node, block, block[parent].parent, i)
           Body(rem, prev) ==
             LET i == MaxUncleDistance - rem
                 own == IF i = 0 THEN parent ELSE Above(i - 1)
             IN  IF rem = 0 \/ Above(i) = NoHash THEN <<>>
                 ELSE Sibs(Above(i), own, rem) \o prev
           IsFound0(f, n) == f = [rem \in 0..n |-> Body(rem, f[rem - 1])]
           None == {n \in Nat : ~ \E f : IsFound0(f, n)}
<1>1. FindUncles(node, block, children, parent) =
        (CHOOSE f : IsFound0(f, MaxUncleDistance))[MaxUncleDistance]
  BY Zenon DEF FindUncles
<1>2. ASSUME NEW i \in Nat PROVE Above(i) = Up(node, block, parent, i + 1)
  <2> DEFINE q == block[parent].parent
             top == IF q \in node THEN q ELSE NoHash
  <2>1. Up(node, block, parent, 0) = parent
    BY Zenon, UpStep
  <2>2. Up(node, block, parent, 0 + 1) = top
    BY Zenon, <2>1, UpNext
  <2>3. Up(node, block, q, 0) = top
    BY Zenon, UpStep
  <2>4. Up(node, block, Up(node, block, parent, 1), i) = Up(node, block, parent, 1 + i)
    BY UpCompose
  <2>5. Up(node, block, Up(node, block, q, 0), i) = Up(node, block, q, 0 + i)
    BY UpCompose
  <2>6. 0 + 1 = 1 /\ 0 + i = i /\ 1 + i = i + 1
    OBVIOUS
  <2> HIDE DEF q, top
  <2> QED
    BY Zenon, <2>2, <2>3, <2>4, <2>5, <2>6 DEF q
<1>3. ASSUME NEW prev PROVE Body(0, prev) = <<>>
  BY Zenon
<1>4. ASSUME NEW rem \in 1..MaxUncleDistance, NEW prev, NEW i \in Nat, i = MaxUncleDistance - rem
      PROVE  LET a == Up(node, block, parent, i + 1)
             IN  Body(rem, prev) =
                   IF a = NoHash THEN <<>>
                   ELSE Concat(Siblings(node, block, children, a, Up(node, block, parent, i),
                                        rem, block[parent].depth)) \o prev
  <2> DEFINE own == IF i = 0 THEN parent ELSE Above(i - 1)
             a == Up(node, block, parent, i + 1)
  <2>1. rem # 0
    BY TreeAssumption
  <2>2. own = Up(node, block, parent, i)
    <3>1. CASE i = 0
      <4>1. Up(node, block, parent, 0) = parent
        BY Zenon, UpStep
      <4> QED
        BY Zenon, <3>1, <4>1
    <3>2. CASE i # 0
      <4>1. i - 1 \in Nat /\ (i - 1) + 1 = i
        BY <3>2
      <4>2. Above(i - 1) = Up(node, block, parent, (i - 1) + 1)
        BY Zenon, <1>2, <4>1
      <4> QED
        BY Zenon, <3>2, <4>1, <4>2
    <3> QED
      BY Zenon, <3>1, <3>2
  <2>3. Above(i) = a
    BY Zenon, <1>2
  <2>4. Body(rem, prev) = IF Above(i) = NoHash THEN <<>> ELSE Sibs(Above(i), own, rem) \o prev
    BY Zenon, <1>4, <2>1
  <2>5. Sibs(a, own, rem) = Concat(Siblings(node, block, children, a, own, rem, maxDepth))
    BY Zenon DEF Siblings
  <2> HIDE DEF Body, Above, own, Sibs
  <2> QED
    BY Zenon, <2>2, <2>3, <2>4, <2>5
<1> HIDE DEF Body, Above
<1>5. IsFound0([rem \in 0..0 |-> Body(0, 0)], 0)
  BY <1>3
<1>6. ASSUME NEW n \in Nat, NEW f, IsFound0(f, n) PROVE \E g : IsFound0(g, n + 1)
  <2> DEFINE e == [r \in 0 .. n + 1 |-> IF r = n + 1 THEN Body(n + 1, f[n]) ELSE f[r]]
  <2>1. e = [r \in 0 .. n + 1 |-> Body(r, e[r - 1])]
    <3>1. ASSUME NEW r \in 0 .. n + 1 PROVE e[r] = Body(r, e[r - 1])
      <4>1. CASE r = n + 1
        BY <4>1
      <4>2. CASE r = 0
        <5>1. f[0] = Body(0, f[0 - 1])
          BY <1>6
        <5> QED
          BY <1>3, <4>2, <5>1
      <4>3. CASE r # 0 /\ r # n + 1
        <5>1. f[r] = Body(r, f[r - 1]) /\ r - 1 \in 0 .. n
          BY <1>6, <4>3
        <5> QED
          BY <4>3, <5>1
      <4> QED
        BY Zenon, <4>1, <4>2, <4>3
    <3> QED
      BY Zenon, <3>1
  <2> QED
    BY Zenon, <2>1
<1>7. None = {}
  <2> HIDE DEF IsFound0
  <2> SUFFICES ASSUME None # {} PROVE FALSE
    BY Zenon
  <2>1. PICK k \in None : \A j \in None : k <= j
    BY Zenon, LeastNumberPrinciple
  <2>2. k # 0
    BY Zenon, <1>5
  <2>3. k - 1 \in Nat /\ k - 1 \notin None
    BY <2>1, <2>2
  <2> QED
    BY <1>6, <2>3
<1> DEFINE found == CHOOSE f : IsFound0(f, MaxUncleDistance)
<1>8. IsFound0(found, MaxUncleDistance)
  <2> HIDE DEF IsFound0
  <2> QED
    BY Zenon, <1>7, TreeAssumption
<1>9. \A r \in 0..MaxUncleDistance : found[r] = Body(r, found[r - 1])
  <2>1. found = [r \in 0..MaxUncleDistance |-> Body(r, found[r - 1])]
    BY Zenon, <1>8
  <2> HIDE DEF found
  <2> QED
    BY Zenon, <2>1
<1>10. FindUncles(node, block, children, parent) = found[MaxUncleDistance]
  BY Zenon, <1>1
<1> HIDE DEF found, IsFound0
<1>11. found[0] = <<>>
  BY <1>3, <1>9, TreeAssumption
<1>12. ASSUME NEW rem \in 1..MaxUncleDistance, NEW i, i = MaxUncleDistance - rem
       PROVE  LET a == Up(node, block, parent, i + 1)
              IN  found[rem] =
                    IF a = NoHash THEN <<>>
                    ELSE Concat(Siblings(node, block, children, a, Up(node, block, parent, i),
                                         rem, block[parent].depth)) \o found[rem - 1]
  <2>1. i \in Nat /\ rem \in 0..MaxUncleDistance
    BY <1>12, TreeAssumption
  <2>2. found[rem] = Body(rem, found[rem - 1])
    BY Zenon, <1>9, <2>1
  <2> HIDE DEF Sibs
  <2> QED
    BY Zenon, <1>4, <1>12, <2>1, <2>2
<1>13. IsSearch(found, node, block, children, parent)
  BY Zenon, <1>11, <1>12 DEF IsSearch
<1> QED
  BY Zenon, <1>10, <1>13

\* findUncles lists no block that isUncleValid refuses.
LEMMA FindUnclesFact ==
  ASSUME NEW node, NEW block, NEW children,
         IsTree(node, block), Kids(node, block, children), NEW parent \in node
  PROVE  FindUncles(node, block, children, parent)
           \in Seq({u \in node : IsUncleValid(node, block, parent, u)})
<1> DEFINE Uncle == {u \in node : IsUncleValid(node, block, parent, u)}
           maxDepth == block[parent].depth
<1>0. NoHash \notin node /\ node \subseteq Hash /\ maxDepth \in Nat
  BY Zenon, TreeAssumption DEF IsTree
<1>1. PICK found : /\ FindUncles(node, block, children, parent) = found[MaxUncleDistance]
                   /\ IsSearch(found, node, block, children, parent)
  BY Zenon, <1>0, UnclesSearch
<1>2. ASSUME NEW rem \in 1..MaxUncleDistance, NEW i \in Nat, i = MaxUncleDistance - rem,
             NEW own, own = Up(node, block, parent, i),
             NEW a \in node, a = Up(node, block, parent, i + 1)
      PROVE  Concat(Siblings(node, block, children, a, own, rem, maxDepth)) \in Seq(Uncle)
  <2> DEFINE lists == Siblings(node, block, children, a, own, rem, maxDepth)
  <2>1. children[a] \in Seq(node) /\ DOMAIN children[a] = 1..Len(children[a])
        /\ Len(children[a]) \in Nat
    BY DEF Kids
  <2>2. rem \in Nat /\ rem >= 1 /\ rem - 1 \in Nat /\ i + rem = MaxUncleDistance
    BY <1>2, TreeAssumption
  <2>3. own \in node
    <3>1. i + 1 <= maxDepth
      BY <1>0, <1>2, UpDepth
    <3> QED
      BY <1>0, <1>2, <3>1, UpDepth
  <2>4. ASSUME NEW k \in DOMAIN children[a] PROVE lists[k] \in Seq(Uncle)
    <3> DEFINE c == children[a][k]
               below == FindNonDirectAncestors(node, block, children, c, rem - 1, maxDepth)
    <3>0. lists[k] = IF c # own /\ block[c] # NoBlock THEN <<c>> \o below ELSE <<>>
      BY Zenon DEF Siblings
    <3>1. c \in node /\ block[c].parent = a
      BY <2>1 DEF Kids
    <3>2. CASE c # own /\ block[c] # NoBlock
      <4>1. lists[k] = <<c>> \o below
        BY Zenon, <3>0, <3>2
      <4>2. below \in Seq(Below(node, block, c, rem - 1, maxDepth))
        BY Zenon, <1>0, <2>2, <3>1, NonDirectFact
      <4> HIDE DEF c, below, lists
      <4>3. ASSUME NEW u \in node, u = c \/ u \in Below(node, block, c, rem - 1, maxDepth)
            PROVE  u \in Uncle
        <5>1. IsUncleValid(node, block, parent, u)
          BY Zenon, <1>2, <2>2, <2>3, <3>1, <3>2, <4>3, SiblingFact
        <5> QED
          BY Zenon, <5>1
      <4>4. Below(node, block, c, rem - 1, maxDepth) \subseteq Uncle /\ c \in Uncle
        BY Zenon, <3>1, <4>3 DEF Below
      <4> HIDE DEF Uncle
      <4> QED
        BY <4>1, <4>2, <4>4
    <3>3. CASE ~(c # own /\ block[c] # NoBlock)
      <4>1. lists[k] = <<>>
        BY Zenon, <3>0, <3>3
      <4> HIDE DEF lists, Uncle
      <4> QED
        BY <4>1
    <3> QED
      BY Zenon, <3>2, <3>3
  <2>5. lists = [k \in DOMAIN children[a] |-> lists[k]]
    BY Zenon DEF Siblings
  <2> HIDE DEF Uncle, lists
  <2>6. lists \in [1..Len(children[a]) -> Seq(Uncle)]
    BY Zenon, <2>1, <2>4, <2>5
  <2>7. Concat(lists) \in Seq(Uncle)
    BY Zenon, <2>1, <2>6, ConcatType
  <2> QED
    BY Zenon, <2>7 DEF lists
<1> HIDE DEF Uncle
<1> DEFINE Bad == {r \in Nat : r <= MaxUncleDistance /\ found[r] \notin Seq(Uncle)}
<1>3. found[0] \in Seq(Uncle)
  <2>1. found[0] = <<>>
    BY Zenon, <1>1 DEF IsSearch
  <2> QED
    BY <2>1
<1>4. ASSUME NEW rem \in 1..MaxUncleDistance, found[rem - 1] \in Seq(Uncle)
      PROVE  found[rem] \in Seq(Uncle)
  <2> DEFINE i == MaxUncleDistance - rem
             a == Up(node, block, parent, i + 1)
             own == Up(node, block, parent, i)
             sibs == Concat(Siblings(node, block, children, a, own, rem, maxDepth))
  <2>1. i \in Nat /\ i + 1 \in Nat
    BY TreeAssumption
  <2>2. found[rem] = IF a = NoHash THEN <<>> ELSE sibs \o found[rem - 1]
    BY Zenon, <1>1 DEF IsSearch
  <2>3. CASE a = NoHash
    <3> HIDE DEF a, sibs
    <3>1. found[rem] = <<>>
      BY Zenon, <2>2, <2>3
    <3> QED
      BY <3>1
  <2>4. CASE a # NoHash
    <3>1. a \in node
      BY Zenon, <1>0, <2>1, <2>4, UpType
    <3>2. sibs \in Seq(Uncle)
      BY Zenon, <1>2, <2>1, <3>1
    <3> HIDE DEF a, sibs
    <3>3. found[rem] = sibs \o found[rem - 1]
      BY Zenon, <2>2, <2>4
    <3> QED
      BY <1>4, <3>2, <3>3
  <2> QED
    BY Zenon, <2>3, <2>4
<1>5. Bad = {}
  <2> SUFFICES ASSUME Bad # {} PROVE FALSE
    BY Zenon
  <2>1. PICK r \in Bad : \A j \in Bad : r <= j
    BY Zenon, LeastNumberPrinciple
  <2>2. r # 0
    BY Zenon, <1>3, <2>1
  <2>3. r - 1 \in Nat /\ r - 1 \notin Bad /\ r \in 1..MaxUncleDistance
    BY <2>1, <2>2, TreeAssumption
  <2>4. found[r - 1] \in Seq(Uncle)
    BY <2>3, TreeAssumption
  <2> QED
    BY Zenon, <1>4, <2>1, <2>3, <2>4
<1>6. found[MaxUncleDistance] \in Seq(Uncle)
  BY <1>5, TreeAssumption
<1> QED
  BY Zenon, <1>1, <1>6 DEF Uncle

-----------------------------------------------------------------------------
(* Chains *)

\* Every block is valid where it is: what a chain's blocks are, and all the
\* blocks mined.
Grown(c) ==
  /\ c.block \in [Hash -> BlockSpec \cup {NoBlock}]
  /\ c.block[Genesis] = GenesisBlock
  /\ \A h \in Known(c) \ {Genesis} : Valid(c, c.block[h])

\* One chain has the blocks of the other.
Within(c, d) == \A g \in Known(c) : g \in Known(d) /\ d.block[g] = c.block[g]

\* What a node keeps: the lists of children, and a tip that no block beats.
IsChain(c) ==
  /\ Grown(c)
  /\ c.children \in [Hash -> Seq(Hash)]
  /\ Kids(Known(c), c.block, c.children)
  /\ \A p \in Hash \ Known(c) : c.children[p] = <<>>
  /\ c.tip \in Known(c)
  /\ \A g \in Known(c) : ~Better(c.block, g, c.tip)

\* The genesis block is a block, and the tables are read for known hashes.
LEMMA GenesisFact ==
  /\ GenesisBlock \in BlockSpec /\ GenesisBlock # NoBlock
  /\ \A c : Grown(c) => /\ Genesis \in Known(c) /\ NoHash \notin Known(c)
                        /\ \A h \in Known(c) : c.block[h] \in BlockSpec
<1>1. <<>> \in Seq(Hash) /\ {} \in SUBSET Tx
  OBVIOUS
<1>2. GenesisBlock \in BlockSpec
  BY Zenon, <1>1 DEF GenesisBlock, BlockSpec
<1>3. GenesisBlock # NoBlock
  BY Zenon, <1>2, NoBlockAssumption
<1>4. ASSUME NEW c, Grown(c)
      PROVE  /\ Genesis \in Known(c) /\ NoHash \notin Known(c)
             /\ \A h \in Known(c) : c.block[h] \in BlockSpec
  BY Zenon, <1>3, <1>4, TreeAssumption DEF Grown, Known
<1> QED
  BY Zenon, <1>2, <1>3, <1>4

\* Valid blocks form a tree.
LEMMA GrownTree ==
  ASSUME NEW c, Grown(c)
  PROVE  IsTree(Known(c), c.block)
<1>1. /\ Known(c) \subseteq Hash
      /\ \A h \in Known(c) : c.block[h].depth \in Nat
  BY Zenon, GenesisFact DEF Known, BlockSpec
<1>2. c.block[Genesis].parent = NoHash /\ c.block[Genesis].depth = 0
  BY DEF Grown, GenesisBlock
<1>3. ASSUME NEW h \in Known(c), h # Genesis
      PROVE  /\ c.block[h].parent \in Known(c)
             /\ c.block[h].depth = c.block[c.block[h].parent].depth + 1
  BY Zenon, <1>3 DEF Grown, Valid
<1> QED
  BY Zenon, <1>1, <1>2, <1>3 DEF IsTree

\* A valid block stays valid however the chain grows: a candidate may be mined
\* after other blocks came.
LEMMA ValidGrows ==
  ASSUME NEW c, NEW d, Grown(c), Within(c, d), NoHash \notin Known(d), NEW b, Valid(c, b)
  PROVE  Valid(d, b)
<1>1. /\ b.parent \in Known(c) /\ b.parent \in Known(d)
      /\ d.block[b.parent] = c.block[b.parent]
  BY Zenon DEF Valid, Within
<1>2. /\ Known(c) \subseteq Known(d)
      /\ \A g \in Known(c) : d.block[g] = c.block[g]
  BY Zenon DEF Within
<1>3. ASSUME NEW i \in DOMAIN b.uncles
      PROVE  IsUncleValid(Known(d), d.block, b.parent, b.uncles[i])
  <2>1. IsUncleValid(Known(c), c.block, b.parent, b.uncles[i])
    BY Zenon DEF Valid
  <2> QED
    BY Zenon, <1>2, <2>1, GrownTree, UncleGrows
<1> QED
  BY Zenon, <1>1, <1>3 DEF Valid

\* A block that is valid somewhere is valid for every node that has the blocks it
\* builds on.
LEMMA ValidWithin ==
  ASSUME NEW c, NEW d, Grown(c), Within(c, d), NoHash \notin Known(d), NEW b,
         Valid(d, b), Deps(b) \subseteq Known(c)
  PROVE  Valid(c, b)
<1>1. b.parent \in Known(c) /\ d.block[b.parent] = c.block[b.parent]
  BY Zenon DEF Within, Deps
<1>2. /\ Known(c) \subseteq Known(d)
      /\ \A g \in Known(c) : d.block[g] = c.block[g]
  BY Zenon DEF Within
<1>3. ASSUME NEW i \in DOMAIN b.uncles
      PROVE  IsUncleValid(Known(c), c.block, b.parent, b.uncles[i])
  <2>1. IsUncleValid(Known(d), d.block, b.parent, b.uncles[i])
    BY Zenon DEF Valid
  <2>2. b.uncles[i] \in Known(c)
    BY Zenon DEF Deps
  <2> QED
    BY Zenon, <1>1, <1>2, <2>1, <2>2, GrownTree, UncleSame
<1> QED
  BY Zenon, <1>1, <1>3 DEF Valid

\* A valid block builds on known blocks.
LEMMA DepsKnown ==
  ASSUME NEW c, NEW b, Valid(c, b)
  PROVE  Deps(b) \subseteq Known(c)
BY Zenon DEF Valid, Deps, IsUncleValid

\* The block table after a valid block is added.
LEMMA GrownAdd ==
  ASSUME NEW c, Grown(c), NEW h \in Hash \ Known(c), NEW b \in BlockSpec, Valid(c, b),
         NEW d, d.block \in [Hash -> BlockSpec \cup {NoBlock}], d.block[h] = b,
         \A g \in Hash \ {h} : d.block[g] = c.block[g]
  PROVE  /\ Grown(d) /\ Within(c, d)
         /\ Known(d) = Known(c) \cup {h} /\ d.block[h] = b
<1>1. Genesis \in Known(c) /\ h # Genesis /\ b # NoBlock
  BY Zenon, GenesisFact, NoBlockAssumption
<1>2. Known(d) = Known(c) \cup {h} /\ NoHash \notin Known(d)
  BY Zenon, <1>1, TreeAssumption DEF Known
<1>3. Within(c, d)
  BY Zenon, <1>2 DEF Within, Known
<1>4. ASSUME NEW g \in Known(d) \ {Genesis} PROVE Valid(d, d.block[g])
  <2>1. Valid(c, d.block[g])
    <3>1. CASE g = h
      BY Zenon, <3>1
    <3>2. CASE g # h
      BY Zenon, <1>2, <3>2 DEF Grown, Known
    <3> QED
      BY Zenon, <3>1, <3>2
  <2> QED
    BY Zenon, <1>2, <1>3, <2>1, ValidGrows
<1>5. d.block[Genesis] = GenesisBlock
  BY Zenon, <1>1, TreeAssumption DEF Grown
<1> QED
  BY Zenon, <1>2, <1>3, <1>4, <1>5 DEF Grown

\* addValidatedBlock keeps a chain a chain, with the best block at the tip.
LEMMA AddedChain ==
  ASSUME NEW c, IsChain(c), NEW h \in Hash, NEW b \in BlockSpec, Valid(c, b),
         NEW d, d = Added(c, h, b)
  PROVE  /\ IsChain(d) /\ Within(c, d) /\ Known(d) = Known(c) \cup {h}
         /\ h \notin Known(c) => d.block[h] = b
<1>1. CASE h \in Known(c)
  <2>1. d = c
    BY Zenon, <1>1 DEF Added
  <2> QED
    BY Zenon, <1>1, <2>1 DEF Within
<1>2. CASE h \notin Known(c)
  <2> DEFINE better == Better([c.block EXCEPT ![h] = b], h, c.tip)
  <2>1. /\ d.block = [c.block EXCEPT ![h] = b]
        /\ d.children = [c.children EXCEPT ![b.parent] = Append(@, h)]
        /\ d.tip = IF better THEN h ELSE c.tip
    BY Zenon, <1>2 DEF Added
  <2>2. Grown(c)
    BY Zenon DEF IsChain
  <2>3. /\ Grown(d) /\ Within(c, d)
        /\ Known(d) = Known(c) \cup {h} /\ d.block[h] = b
    <3>1. h \in Hash \ Known(c)
      BY Zenon, <1>2
    <3>2. /\ d.block \in [Hash -> BlockSpec \cup {NoBlock}] /\ d.block[h] = b
          /\ \A g \in Hash \ {h} : d.block[g] = c.block[g]
      BY Zenon, <2>1, <2>2 DEF Grown
    <3> QED
      BY <2>2, <3>1, <3>2, GrownAdd
  <2>4. Known(c) \subseteq Hash /\ Known(d) \subseteq Hash /\ b.parent \in Known(c) /\ b.parent # h
    BY Zenon, <1>2 DEF Known, Valid
  <2>5. /\ d.children \in [Hash -> Seq(Hash)]
        /\ d.children[b.parent] = Append(c.children[b.parent], h)
        /\ \A p \in Hash \ {b.parent} : d.children[p] = c.children[p]
    BY SMTT(30), <2>1, <2>4 DEF IsChain
  <2>6. Kids(Known(d), d.block, d.children)
    <3> SUFFICES ASSUME NEW p \in Known(d)
                 PROVE  /\ d.children[p] \in Seq(Known(d))
                        /\ \A i \in DOMAIN d.children[p] : d.block[d.children[p][i]].parent = p
      BY Zenon DEF Kids
    <3>1. ASSUME NEW q \in Known(c)
          PROVE  /\ c.children[q] \in Seq(Known(c))
                 /\ \A i \in DOMAIN c.children[q] :
                      /\ c.children[q][i] \in Known(c)
                      /\ d.block[c.children[q][i]].parent = q
      <4>1. c.children[q] \in Seq(Known(c))
        BY Zenon DEF IsChain, Kids
      <4>2. \A i \in DOMAIN c.children[q] :
              c.children[q][i] \in Known(c) /\ c.block[c.children[q][i]].parent = q
        BY <4>1 DEF IsChain, Kids
      <4> QED
        BY Zenon, <2>3, <4>1, <4>2 DEF Within
    <3>2. CASE p = b.parent
      <4> DEFINE kids == c.children[b.parent]
      <4>1. kids \in Seq(Known(c)) /\ d.children[p] = Append(kids, h)
        BY Zenon, <2>4, <2>5, <3>1, <3>2
      <4>2. \A i \in DOMAIN kids : d.block[kids[i]].parent = p
        BY Zenon, <2>4, <3>1, <3>2
      <4> HIDE DEF kids
      <4>3. d.children[p] \in Seq(Known(d))
        BY <2>3, <4>1
      <4>4. ASSUME NEW i \in DOMAIN d.children[p] PROVE d.block[d.children[p][i]].parent = p
        <5>1. CASE i \in DOMAIN kids
          BY <4>1, <4>2, <5>1
        <5>2. CASE i \notin DOMAIN kids
          BY <2>3, <3>2, <4>1, <5>2
        <5> QED
          BY Zenon, <5>1, <5>2
      <4> QED
        BY Zenon, <4>3, <4>4
    <3>3. CASE p \in Known(c) /\ p # b.parent
      <4>1. d.children[p] = c.children[p]
        BY Zenon, <2>4, <2>5, <3>3
      <4>2. c.children[p] \in Seq(Known(d))
        BY <2>3, <3>1, <3>3
      <4> QED
        BY <3>1, <3>3, <4>1, <4>2
    <3>4. CASE p = h
      <4>1. d.children[p] = <<>>
        BY Zenon, <1>2, <2>4, <2>5, <3>4 DEF IsChain
      <4> QED
        BY <4>1
    <3> QED
      BY Zenon, <2>3, <3>2, <3>3, <3>4
  <2>7. \A p \in Hash \ Known(d) : d.children[p] = <<>>
    BY Zenon, <2>3, <2>4, <2>5 DEF IsChain
  <2>8. d.tip \in Known(d)
    BY Zenon, <2>1, <2>3 DEF IsChain
  <2>9. ASSUME NEW g \in Known(d) PROVE ~Better(d.block, g, d.tip)
    <3> DEFINE w(x) == d.block[x].weight
    <3>1. \A x \in Known(d) : w(x) \in Nat /\ Numeric[x] \in Nat
      <4>1. \A x \in Known(d) : d.block[x] \in BlockSpec
        BY Zenon, <2>3, GenesisFact
      <4> QED
        BY Zenon, <2>4, <4>1, TreeAssumption DEF BlockSpec
    <3>2. /\ c.tip \in Known(d) /\ h \in Known(d)
          /\ d.tip = IF Better(d.block, h, c.tip) THEN h ELSE c.tip
      BY Zenon, <2>1, <2>3 DEF IsChain
    <3>3. g # h => ~Better(d.block, g, c.tip)
      <4>1. g # h => g \in Known(c) /\ ~Better(c.block, g, c.tip) /\ c.tip \in Known(c)
        BY Zenon, <2>3 DEF IsChain
      <4> QED
        BY Zenon, <2>3, <4>1 DEF Better, Within
    <3> QED
      BY <3>1, <3>2, <3>3 DEF Better
  <2> QED
    BY Zenon, <1>2, <2>3, <2>5, <2>6, <2>7, <2>8, <2>9 DEF IsChain
<1> QED
  BY Zenon, <1>1, <1>2

\* NewCandidateBlock: the block it makes of the tip and the uncles it finds.
LEMMA CandidateValid ==
  ASSUME NEW c, IsChain(c), NEW us, us = CandidateUncles(c),
         NEW b, b = [parent |-> c.tip, depth |-> c.block[c.tip].depth + 1,
                     weight |-> c.block[c.tip].weight + 1 + Len(us), uncles |-> us, txs |-> {}]
  PROVE  b \in BlockSpec /\ Valid(c, b)
<1>1. /\ Grown(c) /\ Kids(Known(c), c.block, c.children) /\ c.tip \in Known(c)
      /\ Known(c) \subseteq Hash
  BY Zenon DEF IsChain, Known
<1>2. us \in Seq({u \in Known(c) : IsUncleValid(Known(c), c.block, c.tip, u)})
  BY Zenon, <1>1, GrownTree, FindUnclesFact DEF CandidateUncles
<1>3. /\ us \in Seq(Hash) /\ Len(us) \in Nat
      /\ \A i \in DOMAIN us : IsUncleValid(Known(c), c.block, c.tip, us[i])
  BY <1>1, <1>2
<1>4. c.block[c.tip].depth \in Nat /\ c.block[c.tip].weight \in Nat
  BY Zenon, <1>1, GenesisFact DEF BlockSpec
<1>5. /\ b.parent = c.tip /\ b.depth = c.block[c.tip].depth + 1
      /\ b.weight = c.block[c.tip].weight + 1 + Len(us) /\ b.uncles = us
  BY Zenon
<1>6. b \in BlockSpec
  BY SMTT(30), <1>1, <1>3, <1>4 DEF BlockSpec
<1> QED
  BY Zenon, <1>1, <1>3, <1>5, <1>6 DEF Valid

-----------------------------------------------------------------------------
(* Chains built of a list of blocks *)

\* The blocks of a world, as one table.
Table(world) == [block |-> Premade(world)]

\* The blocks of a world and the genesis block are valid among themselves.
LEMMA WorldGrown ==
  ASSUME NEW world, IsWorld(world)
  PROVE  /\ Grown(Table(world))
         /\ Known(Table(world)) = {Genesis} \cup DOMAIN world
         /\ \A h \in DOMAIN world : Table(world).block[h] = world[h]
<1>1. Table(world).block = Premade(world)
  BY Zenon DEF Table
<1>2. /\ Premade(world) \in [Hash -> BlockSpec \cup {NoBlock}]
      /\ Premade(world)[Genesis] = GenesisBlock
      /\ \A h \in DOMAIN world : h \in Hash \ {Genesis} /\ Premade(world)[h] = world[h]
      /\ \A h \in Hash : h # Genesis /\ h \notin DOMAIN world => Premade(world)[h] = NoBlock
  BY Zenon, GenesisFact, TreeAssumption DEF Premade, IsWorld
<1>3. \A h \in DOMAIN world : world[h] \in BlockSpec /\ world[h] # NoBlock
  BY Zenon, NoBlockAssumption DEF IsWorld
<1>4. Known(Table(world)) = {Genesis} \cup DOMAIN world
  BY Zenon, <1>1, <1>2, <1>3, GenesisFact, TreeAssumption DEF Known
<1>5. ASSUME NEW h \in Known(Table(world)) \ {Genesis} PROVE Valid(Table(world), Table(world).block[h])
  <2>1. h \in DOMAIN world
    BY Zenon, <1>4
  <2> QED
    BY Zenon, <1>1, <1>2, <2>1 DEF IsWorld, Table
<1> QED
  BY Zenon, <1>1, <1>2, <1>4, <1>5 DEF Grown

\* The chain of a node that knows the genesis block alone.
LEMMA NewChainFact ==
  /\ IsChain(NewChain) /\ Known(NewChain) = {Genesis}
  /\ \A d : Grown(d) => Within(NewChain, d)
<1>1. /\ NewChain.block = [h \in Hash |-> IF h = Genesis THEN GenesisBlock ELSE NoBlock]
      /\ NewChain.children = [h \in Hash |-> <<>>] /\ NewChain.tip = Genesis
  BY Zenon DEF NewChain
<1>2. Known(NewChain) = {Genesis}
  BY Zenon, <1>1, GenesisFact, TreeAssumption DEF Known
<1>3. NewChain.block[Genesis] = GenesisBlock
  BY Zenon, <1>1, TreeAssumption
<1>4. Grown(NewChain)
  <2>1. NewChain.block \in [Hash -> BlockSpec \cup {NoBlock}]
    BY Zenon, <1>1, GenesisFact
  <2> QED
    BY Zenon, <1>2, <1>3, <2>1 DEF Grown
<1>5. <<>> \in Seq(Hash) /\ <<>> \in Seq({Genesis}) /\ DOMAIN <<>> = {}
  OBVIOUS
<1>6. /\ NewChain.children \in [Hash -> Seq(Hash)]
      /\ Kids(Known(NewChain), NewChain.block, NewChain.children)
      /\ \A p \in Hash : NewChain.children[p] = <<>>
  BY ZenonT(60), <1>1, <1>2, <1>5, TreeAssumption DEF Kids
<1>7. ~Better(NewChain.block, Genesis, Genesis)
  <2>1. NewChain.block[Genesis].weight = 0 /\ Numeric[Genesis] \in Nat
    BY <1>3, TreeAssumption DEF GenesisBlock
  <2> QED
    BY <2>1 DEF Better
<1>8. IsChain(NewChain)
  BY Zenon, <1>1, <1>2, <1>4, <1>6, <1>7 DEF IsChain
<1>9. ASSUME NEW d, Grown(d) PROVE Within(NewChain, d)
  BY Zenon, <1>2, <1>3, <1>9, GenesisFact DEF Within, Grown
<1> QED
  BY Zenon, <1>2, <1>8, <1>9

\* The loop that adds the blocks of a list is well defined.
LEMMA BuildWalk ==
  ASSUME NEW world, NEW hashes \in Seq(DOMAIN world)
  PROVE  \E upTo : /\ Build(world, hashes) = upTo[Len(hashes)] /\ upTo[0] = NewChain
                   /\ \A i \in 1 .. Len(hashes) :
                        upTo[i] = Added(upTo[i - 1], hashes[i], world[hashes[i]])
<1> DEFINE First == NewChain
           Add(c, i) == Added(c, hashes[i], world[hashes[i]])
           IsUpTo(f, m) == f = [i \in 0 .. m |-> IF i = 0 THEN First ELSE Add(f[i - 1], i)]
           NoUpTo == {m \in Nat : ~ \E f : IsUpTo(f, m)}
           n == Len(hashes)
<1>1. Build(world, hashes) = (CHOOSE f : IsUpTo(f, n))[n]
  BY Zenon DEF Build
<1>2. n \in Nat
  OBVIOUS
<1> HIDE DEF First, Add, n
<1>3. IsUpTo([i \in 0 .. 0 |-> First], 0)
  OBVIOUS
<1>4. ASSUME NEW m \in Nat, NEW f, IsUpTo(f, m) PROVE \E g : IsUpTo(g, m + 1)
  <2> DEFINE e == [i \in 0 .. m + 1 |-> IF i = m + 1 THEN Add(f[m], m + 1) ELSE f[i]]
  <2>1. e = [i \in 0 .. m + 1 |-> IF i = 0 THEN First ELSE Add(e[i - 1], i)]
    BY <1>4
  <2> QED
    BY Zenon, <2>1
<1>5. NoUpTo = {}
  <2> HIDE DEF IsUpTo
  <2> SUFFICES ASSUME NoUpTo # {} PROVE FALSE
    BY Zenon
  <2>1. PICK k \in NoUpTo : \A j \in NoUpTo : k <= j
    BY Zenon, LeastNumberPrinciple
  <2>2. k # 0
    BY Zenon, <1>3
  <2>3. k - 1 \in Nat /\ k - 1 \notin NoUpTo
    BY <2>1, <2>2
  <2> QED
    BY <1>4, <2>3
<1> DEFINE upTo == CHOOSE f : IsUpTo(f, n)
<1>6. IsUpTo(upTo, n)
  <2>1. \E f : IsUpTo(f, n)
    BY Zenon, <1>2, <1>5
  <2> HIDE DEF IsUpTo
  <2> QED
    BY Zenon, <2>1
<1>7. upTo[0] = First /\ \A i \in 1 .. n : upTo[i] = Add(upTo[i - 1], i)
  <2>1. upTo = [i \in 0 .. n |-> IF i = 0 THEN First ELSE Add(upTo[i - 1], i)]
    BY Zenon, <1>6
  <2> HIDE DEF upTo
  <2> QED
    BY <1>2, <2>1
<1> HIDE DEF upTo, IsUpTo
<1>8. Build(world, hashes) = upTo[n]
  BY Zenon, <1>1 DEF upTo
<1> QED
  BY Zenon, <1>7, <1>8 DEF First, Add, n

\* A node that got the blocks of a list, each after those it builds on, has a
\* chain of these blocks.
LEMMA BuildFact ==
  ASSUME NEW world, IsWorld(world), NEW hashes, IsHistory(world, hashes)
  PROVE  /\ IsChain(Build(world, hashes)) /\ Within(Build(world, hashes), Table(world))
         /\ Known(Build(world, hashes)) \subseteq {Genesis} \cup DOMAIN world
<1> DEFINE t == Table(world)
           Had(i) == {Genesis} \cup {hashes[j] : j \in 1 .. i}
           n == Len(hashes)
<1>1. hashes \in Seq(DOMAIN world) /\ n \in Nat /\ DOMAIN hashes = 1 .. n
  BY DEF IsHistory
<1>2. PICK upTo : /\ Build(world, hashes) = upTo[n] /\ upTo[0] = NewChain
                  /\ \A i \in 1 .. n : upTo[i] = Added(upTo[i - 1], hashes[i], world[hashes[i]])
  BY Zenon, <1>1, BuildWalk
<1>3. /\ Grown(t) /\ NoHash \notin Known(t)
      /\ Known(t) = {Genesis} \cup DOMAIN world
      /\ \A h \in DOMAIN world : t.block[h] = world[h]
  BY Zenon, WorldGrown, GenesisFact
<1> DEFINE Claim(i) == IsChain(upTo[i]) /\ Within(upTo[i], t) /\ Known(upTo[i]) = Had(i)
<1>4. Claim(0)
  <2>1. Had(0) = {Genesis}
    OBVIOUS
  <2> QED
    BY Zenon, <1>2, <1>3, <2>1, NewChainFact
<1> HIDE DEF t
<1>5. ASSUME NEW i \in 1 .. n, Claim(i - 1) PROVE Claim(i)
  <2> DEFINE c == upTo[i - 1]
             h == hashes[i]
             b == world[hashes[i]]
  <2>1. /\ h \in DOMAIN world /\ upTo[i] = Added(c, h, b)
        /\ IsChain(c) /\ Within(c, t) /\ Known(c) = Had(i - 1)
    <3>1. h \in DOMAIN world
      BY <1>1
    <3> QED
      BY Zenon, <1>2, <1>5, <3>1
  <2>2. /\ h \in Hash /\ b \in BlockSpec /\ Valid(t, b)
    BY Zenon, <2>1 DEF IsWorld, Table, t
  <2>3. Deps(b) \subseteq Known(c)
    BY Zenon, <1>1, <2>1 DEF IsHistory
  <2>4. Valid(c, b)
    BY Zenon, <1>3, <2>1, <2>2, <2>3, ValidWithin DEF IsChain
  <2>5. /\ IsChain(upTo[i]) /\ Within(c, upTo[i]) /\ Known(upTo[i]) = Known(c) \cup {h}
        /\ h \notin Known(c) => upTo[i].block[h] = b
    BY Zenon, <2>1, <2>2, <2>4, AddedChain
  <2>6. Within(upTo[i], t)
    BY Zenon, <1>3, <2>1, <2>5 DEF Within
  <2>7. Had(i) = Had(i - 1) \cup {hashes[i]}
    BY <1>1
  <2> QED
    BY Zenon, <2>1, <2>5, <2>6, <2>7
<1> HIDE DEF Claim
<1> DEFINE Bad == {i \in Nat : i <= n /\ ~Claim(i)}
<1>6. Bad = {}
  <2> SUFFICES ASSUME Bad # {} PROVE FALSE
    BY Zenon
  <2>1. PICK i \in Bad : \A j \in Bad : i <= j
    BY Zenon, LeastNumberPrinciple
  <2>2. i # 0
    BY Zenon, <1>4
  <2>3. i - 1 \in Nat /\ i - 1 \notin Bad /\ i \in 1 .. n /\ i - 1 <= n
    BY <1>1, <2>1, <2>2
  <2> QED
    BY Zenon, <1>5, <2>1, <2>3
<1>7. Claim(n)
  BY <1>1, <1>6
<1> QED
  BY Zenon, <1>2, <1>3, <1>7 DEF Claim, t, Within

-----------------------------------------------------------------------------
(* Descendents *)

\* A round of the loop of Descendents.
Round(node, block, main, children, parent, limit, w) ==
  IF \/ w.at = NoHash \/ Len(w.list) >= limit
     \/ Len(w.list) + Len(block[w.at].uncles) >= limit
  THEN w
  ELSE [at   |-> FindMainListChild(node, main, children, w.at, NoHash),
        list |-> w.list \o block[w.at].uncles
                 \o (IF w.at = parent THEN <<>> ELSE <<w.at>>)]

\* The rounds of the loop, one after the other.
IsDescent(walk, node, block, main, children, parent, limit) ==
  /\ walk[0] = [at |-> parent, list |-> <<>>]
  /\ \A i \in 1 .. limit + 1 :
       walk[i] = Round(node, block, main, children, parent, limit, walk[i - 1])

\* The number of blocks Descendents is asked for.
Limit(max) == IF max > MaxBlocks THEN MaxBlocks ELSE max

\* g is one of kids that is on the main list and not to be skipped, or there is
\* none.
IsMainChild(g, node, main, kids, skip) ==
  \/ g \in node \cap main /\ g # skip /\ \E i \in DOMAIN kids : kids[i] = g
  \/ g = NoHash /\ \A i \in DOMAIN kids : kids[i] \notin main \ {skip}

\* findMainListChild finds a chain node among the children, where there is one.
LEMMA MainListChildFact ==
  ASSUME NEW node, NEW main, NEW children, NEW p, children[p] \in Seq(node), NEW skip
  PROVE  IsMainChild(FindMainListChild(node, main, children, p, skip), node, main, children[p], skip)
<1> DEFINE hits == {i \in DOMAIN children[p] : /\ children[p][i] \in node \cap main
                                               /\ children[p][i] # skip}
           first == CHOOSE i \in hits : \A j \in hits : i <= j
           g == FindMainListChild(node, main, children, p, skip)
<1> SUFFICES IsMainChild(g, node, main, children[p], skip)
  BY Zenon
<1>1. g = IF hits = {} THEN NoHash ELSE children[p][first]
  BY Zenon DEF FindMainListChild
<1>2. CASE hits = {}
  <2>1. \A i \in DOMAIN children[p] : children[p][i] \in node
    OBVIOUS
  <2> HIDE DEF g
  <2> QED
    BY Zenon, <1>1, <1>2, <2>1 DEF IsMainChild
<1>3. CASE hits # {}
  <2>1. hits \in SUBSET Nat
    OBVIOUS
  <2>2. \E i \in hits : \A j \in hits : i <= j
    BY Zenon, <1>3, <2>1, LeastNumberPrinciple
  <2>3. first \in hits
    BY Zenon, <2>2
  <2> HIDE DEF first, g
  <2> QED
    BY Zenon, <1>1, <1>3, <2>3 DEF IsMainChild
<1> QED
  BY Zenon, <1>2, <1>3

\* What the loop of Descendents carries: where it is on the main list, and a list
\* of hashes of T.
Rounds(node, main, T) == [at : (node \cap main) \cup {NoHash}, list : Seq(T)]

\* Children of the main list have chain nodes, and its uncles are in T.
Offers(node, block, main, children, T) ==
  /\ T \subseteq Hash /\ node \cap main \subseteq T
  /\ \A g \in node \cap main : children[g] \in Seq(node) /\ block[g].uncles \in Seq(T)

\* A round of the loop goes on to a block of the main list, or to none.
LEMMA RoundType ==
  ASSUME NEW node, NEW block, NEW main, NEW children, NEW parent, NEW limit, NEW T,
         Offers(node, block, main, children, T), NEW w \in Rounds(node, main, T)
  PROVE  Round(node, block, main, children, parent, limit, w) \in Rounds(node, main, T)
<1> DEFINE on == node \cap main
           own == IF w.at = parent THEN <<>> ELSE <<w.at>>
           longer == w.list \o block[w.at].uncles \o own
           g == FindMainListChild(node, main, children, w.at, NoHash)
           v == Round(node, block, main, children, parent, limit, w)
<1>1. w.at \in on \cup {NoHash} /\ w.list \in Seq(T)
  BY Zenon DEF Rounds
<1>2. CASE v = w
  BY Zenon, <1>2
<1>3. CASE w.at # NoHash /\ v = [at |-> g, list |-> longer]
  <2>1. w.at \in on /\ w.at \in T
    BY Zenon, <1>1, <1>3 DEF Offers
  <2>2. children[w.at] \in Seq(node) /\ block[w.at].uncles \in Seq(T)
    BY Zenon, <2>1 DEF Offers
  <2>3. longer \in Seq(T)
    <3>1. own \in Seq(T)
      BY <2>1
    <3> HIDE DEF own
    <3> QED
      BY <1>1, <2>2, <3>1
  <2>4. IsMainChild(g, node, main, children[w.at], NoHash)
    BY Zenon, <2>2, MainListChildFact
  <2>5. g \in on \cup {NoHash}
    BY Zenon, <2>4 DEF IsMainChild
  <2> HIDE DEF g, longer, on, v
  <2>6. [at |-> g, list |-> longer] \in [at : on \cup {NoHash}, list : Seq(T)]
    BY Zenon, <2>3, <2>5
  <2> QED
    BY Zenon, <1>3, <2>6 DEF Rounds, on, v
<1> QED
  BY Zenon, <1>2, <1>3 DEF Round

\* The loop of Descendents is well defined, and stays on the main list.
LEMMA DescendentsWalk ==
  ASSUME NEW node, NEW block, NEW main, NEW children, NEW parent \in node \cap main,
         NEW max \in Nat, NEW T, Offers(node, block, main, children, T)
  PROVE  \E walk : /\ IsDescent(walk, node, block, main, children, parent, Limit(max))
                   /\ Descendents(node, block, main, children, parent, max) =
                        walk[Limit(max) + 1].list
                   /\ walk[Limit(max) + 1] \in Rounds(node, main, T)
<1> DEFINE n == Limit(max)
           First == [at |-> parent, list |-> <<>>]
           Turn(w) == Round(node, block, main, children, parent, n, w)
           States == [at : Hash \cup {NoHash}, list : Seq(Hash)]
           turn == [w \in States |-> Turn(w)]
           IsUpTo(f, m) == f = [i \in 0 .. m |-> IF i = 0 THEN First ELSE turn[f[i - 1]]]
           NoUpTo == {m \in Nat : ~ \E f : IsUpTo(f, m)}
<1>1. Descendents(node, block, main, children, parent, max) = (CHOOSE f : IsUpTo(f, n + 1))[n + 1].list
  BY Zenon DEF Descendents, Round, Limit
<1>2. n \in Nat /\ n + 1 \in Nat
  BY TreeAssumption DEF Limit
<1>typed. Rounds(node, main, T) \subseteq States /\ First \in Rounds(node, main, T)
  <2>1. node \cap main \subseteq Hash /\ Seq(T) \subseteq Seq(Hash) /\ <<>> \in Seq(T)
    BY DEF Offers
  <2> QED
    BY Zenon, <2>1 DEF Rounds
<1>turn. ASSUME NEW w \in Rounds(node, main, T)
         PROVE  turn[w] = Turn(w) /\ Turn(w) \in Rounds(node, main, T)
  BY Zenon, <1>typed, RoundType
<1> HIDE DEF First, Turn, turn, States, n
<1>3. IsUpTo([i \in 0 .. 0 |-> First], 0)
  OBVIOUS
<1>4. ASSUME NEW m \in Nat, NEW f, IsUpTo(f, m) PROVE \E g : IsUpTo(g, m + 1)
  <2> DEFINE e == [i \in 0 .. m + 1 |-> IF i = m + 1 THEN turn[f[m]] ELSE f[i]]
  <2>1. e = [i \in 0 .. m + 1 |-> IF i = 0 THEN First ELSE turn[e[i - 1]]]
    BY <1>4
  <2> QED
    BY Zenon, <2>1
<1>5. NoUpTo = {}
  <2> HIDE DEF IsUpTo
  <2> SUFFICES ASSUME NoUpTo # {} PROVE FALSE
    BY Zenon
  <2>1. PICK k \in NoUpTo : \A j \in NoUpTo : k <= j
    BY Zenon, LeastNumberPrinciple
  <2>2. k # 0
    BY Zenon, <1>3
  <2>3. k - 1 \in Nat /\ k - 1 \notin NoUpTo
    BY <2>1, <2>2
  <2> QED
    BY <1>4, <2>3
<1> DEFINE walk == CHOOSE f : IsUpTo(f, n + 1)
<1>6. IsUpTo(walk, n + 1)
  <2>1. \E f : IsUpTo(f, n + 1)
    BY Zenon, <1>2, <1>5
  <2> HIDE DEF IsUpTo
  <2> QED
    BY Zenon, <2>1
<1>7. walk[0] = First /\ \A i \in 1 .. n + 1 : walk[i] = turn[walk[i - 1]]
  <2>1. walk = [i \in 0 .. n + 1 |-> IF i = 0 THEN First ELSE turn[walk[i - 1]]]
    BY Zenon, <1>6
  <2> HIDE DEF walk
  <2> QED
    BY <1>2, <2>1
<1>8. Descendents(node, block, main, children, parent, max) = walk[n + 1].list
  BY Zenon, <1>1 DEF walk
<1> HIDE DEF walk, IsUpTo
<1> DEFINE Bad == {i \in Nat : i <= n + 1 /\ walk[i] \notin Rounds(node, main, T)}
<1>9. Bad = {}
  <2> SUFFICES ASSUME Bad # {} PROVE FALSE
    BY Zenon
  <2>1. PICK i \in Bad : \A j \in Bad : i <= j
    BY Zenon, LeastNumberPrinciple
  <2>2. i # 0
    BY Zenon, <1>typed, <1>7
  <2>3. i - 1 \in Nat /\ i - 1 \notin Bad /\ i \in 1 .. n + 1 /\ i - 1 <= n + 1
    BY <1>2, <2>1, <2>2
  <2>4. walk[i - 1] \in Rounds(node, main, T) /\ walk[i] = turn[walk[i - 1]]
    BY Zenon, <1>7, <2>3
  <2> QED
    BY Zenon, <1>turn, <2>1, <2>4
<1>10. \A i \in 0 .. n + 1 : walk[i] \in Rounds(node, main, T)
  BY <1>2, <1>9
<1>11. ASSUME NEW i \in 1 .. n + 1 PROVE walk[i] = Turn(walk[i - 1])
  <2>1. i - 1 \in 0 .. n + 1
    BY <1>2
  <2> QED
    BY Zenon, <1>7, <1>10, <1>turn, <2>1
<1>12. IsDescent(walk, node, block, main, children, parent, n)
  BY Zenon, <1>7, <1>11 DEF IsDescent, First, Turn
<1>13. walk[n + 1] \in Rounds(node, main, T)
  BY <1>2, <1>10
<1> QED
  BY Zenon, <1>8, <1>12, <1>13 DEF n

\* Descendents lists blocks of the chain: those a node offers to a peer in a sync
\* it has itself.
LEMMA DescendentsKnown ==
  ASSUME NEW c, IsChain(c), NEW h, NEW max \in Nat
  PROVE  DescendentsOf(c, h, max) \in Seq(Known(c))
<1> DEFINE node == Known(c)
           list == Descendents(node, c.block, c.main, c.children, h, max)
<1>1. ASSUME NEW g \in node PROVE c.block[g].uncles \in Seq(node)
  <2>1. CASE g = Genesis
    <3>1. c.block[g].uncles = <<>>
      BY <2>1 DEF IsChain, Grown, GenesisBlock
    <3> QED
      BY <3>1
  <2>2. CASE g # Genesis
    <3>1. Valid(c, c.block[g]) /\ c.block[g] \in BlockSpec
      BY Zenon, <2>2, GenesisFact DEF IsChain, Grown
    <3>2. /\ c.block[g].uncles \in Seq(Hash)
          /\ \A i \in DOMAIN c.block[g].uncles : c.block[g].uncles[i] \in node
      BY Zenon, <3>1 DEF Valid, IsUncleValid, BlockSpec
    <3> HIDE DEF node
    <3> QED
      BY <3>2
  <2> QED
    BY Zenon, <2>1, <2>2
<1>2. Offers(node, c.block, c.main, c.children, node)
  <2>1. \A g \in node : c.children[g] \in Seq(node)
    BY Zenon DEF IsChain, Kids
  <2>2. node \subseteq Hash
    BY Zenon DEF Known
  <2> HIDE DEF node
  <2> QED
    BY Zenon, <1>1, <2>1, <2>2 DEF Offers
<1>3. CASE h \in node \cap c.main
  <2> HIDE DEF node
  <2>1. \E walk : list = walk[Limit(max) + 1].list /\ walk[Limit(max) + 1] \in Rounds(node, c.main, node)
    BY <1>2, <1>3, DescendentsWalk
  <2>2. list \in Seq(node)
    BY Zenon, <2>1 DEF Rounds
  <2> QED
    BY Zenon, <2>2 DEF DescendentsOf, node
<1>4. CASE h \notin node \cap c.main
  <2>1. list = <<>>
    BY Zenon, <1>4 DEF Descendents
  <2> QED
    BY <2>1 DEF DescendentsOf
<1> QED
  BY Zenon, <1>3, <1>4

-----------------------------------------------------------------------------
(* Tips, and queues of messages *)

\* The order of tips is transitive where it says no.
LEMMA BetterTrans ==
  ASSUME NEW c, Grown(c), NEW f \in Known(c), NEW g \in Known(c), NEW h \in Known(c),
         ~Better(c.block, f, g), ~Better(c.block, g, h)
  PROVE  ~Better(c.block, f, h)
<1>1. \A x \in Known(c) : c.block[x].weight \in Nat /\ Numeric[x] \in Nat
  BY Zenon, GenesisFact, TreeAssumption DEF BlockSpec, Known
<1> QED
  BY <1>1 DEF Better

IsQueue(s) == \E S : s \in Seq(S)

Elems(s) == {s[i] : i \in DOMAIN s}

\* A message is sent: it goes behind those on their way.
LEMMA AppendFact ==
  ASSUME NEW s, IsQueue(s), NEW m
  PROVE  /\ IsQueue(Append(s, m)) /\ Append(s, m) # <<>>
         /\ Elems(Append(s, m)) = Elems(s) \cup {m}
         /\ s # <<>> => Head(Append(s, m)) = Head(s)
         /\ s = <<>> => Head(Append(s, m)) = m
<1>1. PICK S : s \in Seq(S)
  BY Zenon DEF IsQueue
<1> DEFINE T == S \cup {m}
<1>2. s \in Seq(T) /\ Append(s, m) \in Seq(T) /\ Append(s, m) # <<>>
  BY <1>1
<1>3. IsQueue(Append(s, m))
  BY Zenon, <1>2 DEF IsQueue
<1>4. ASSUME NEW x PROVE x \in Elems(Append(s, m)) <=> x \in Elems(s) \cup {m}
  BY <1>1 DEF Elems
<1>5. /\ s # <<>> => Head(Append(s, m)) = Head(s)
      /\ s = <<>> => Head(Append(s, m)) = m
  BY <1>1
<1> QED
  BY Zenon, <1>2, <1>3, <1>4, <1>5

\* A message is received: the first one is gone.
LEMMA TailFact ==
  ASSUME NEW s, IsQueue(s), s # <<>>
  PROVE  /\ IsQueue(Tail(s)) /\ Head(s) \in Elems(s)
         /\ Elems(Tail(s)) \subseteq Elems(s)
         /\ Elems(s) \subseteq Elems(Tail(s)) \cup {Head(s)}
<1>1. PICK S : s \in Seq(S)
  BY Zenon DEF IsQueue
<1>2. Tail(s) \in Seq(S)
  BY <1>1
<1>3. IsQueue(Tail(s))
  BY Zenon, <1>2 DEF IsQueue
<1>4. Head(s) \in Elems(s) /\ Elems(Tail(s)) \subseteq Elems(s)
  BY <1>1 DEF Elems
<1>5. ASSUME NEW i \in DOMAIN s PROVE s[i] = Head(s) \/ s[i] \in Elems(Tail(s))
  <2>1. CASE i = 1
    BY <1>1, <2>1
  <2>2. CASE i # 1
    <3>1. i - 1 \in DOMAIN Tail(s) /\ Tail(s)[i - 1] = s[i]
      BY <1>1, <2>2
    <3> QED
      BY Zenon, <3>1 DEF Elems
  <2> QED
    BY Zenon, <2>1, <2>2
<1> QED
  BY Zenon, <1>3, <1>4, <1>5 DEF Elems

\* Nothing is on its way, and then nothing is in the list.
LEMMA EmptyFact == IsQueue(<<>>) /\ Elems(<<>>) = {}
<1>1. <<>> \in Seq({}) /\ DOMAIN <<>> = {}
  OBVIOUS
<1> QED
  BY Zenon, <1>1 DEF IsQueue, Elems

\* A list of hashes is a queue of them.
LEMMA SeqFact ==
  ASSUME NEW S, NEW s \in Seq(S)
  PROVE  IsQueue(s) /\ Elems(s) \subseteq S
BY DEF IsQueue, Elems

=============================================================================
