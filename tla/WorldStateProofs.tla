-------------------------- MODULE WorldStateProofs --------------------------
(***************************************************************************)
(* Proofs about Trie and WorldState, for any blocks, keys, values and      *)
(* radix.  The first half is about one trie: what an update changes, path  *)
(* by path, and that a trie is determined by its paths and their values.   *)
(* The second half is about the blocks whose writes make the tries.        *)
(***************************************************************************)
EXTENDS WorldState, FiniteSetTheorems, WellFoundedInduction, TLAPS

-----------------------------------------------------------------------------
(* The least number principle *)

NatLess == {r \in Nat \X Nat : r[1] < r[2]}

\* Every non-empty set of natural numbers has a least element: "the first entry
\* of a list" is well defined, and induction is the search for a least
\* counterexample.
LEMMA LeastNumberPrinciple ==
  ASSUME NEW T \in SUBSET Nat, T # {}
  PROVE  \E x \in T : \A y \in T : x <= y
<1>1. IsWellFoundedOn(NatLess, Nat)
  BY Zenon, NatLessThanWellFounded DEF OpToRel, NatLess
<1>2. PICK x \in T : \A y \in T : <<y, x>> \notin NatLess
  BY Zenon, <1>1, WFMin
<1>3. \A y \in T : ~(y < x)
  BY Zenon, <1>2 DEF NatLess
<1> QED
  BY <1>3

-----------------------------------------------------------------------------
(* Walks *)

Nibble == 0 .. Radix - 1

\* What the tables hold under a hash that is not null: a node with an index entry
\* for every nibble.
IsNode(n) ==
  /\ n = [Idxs |-> n.Idxs, Value |-> n.Value]
  /\ n.Idxs = [x \in Nibble |-> n.Idxs[x]]

\* All that a walk from the root can meet are nodes.
IsTrie(root) ==
  /\ IsNode(root)
  /\ \A p \in Seq(Nibble) : \A i \in 0 .. Len(p) :
       Walk(root, p)[i] = Null \/ IsNode(Walk(root, p)[i])

\* Two keys have their first n nibbles in common.
Agree(p, q, n) == n <= Len(p) /\ n <= Len(q) /\ \A i \in 1 .. n : p[i] = q[i]

\* A walk starts at the root and follows one index entry per nibble: the
\* recursion of lookupDepthFirst is well defined.
LEMMA WalkStep ==
  ASSUME NEW root, NEW key \in Seq(Nibble)
  PROVE  /\ Walk(root, key)[0] = root
         /\ \A i \in 1 .. Len(key) :
              Walk(root, key)[i] = IF Walk(root, key)[i - 1] = Null THEN Null
                                   ELSE Walk(root, key)[i - 1].Idxs[key[i]]
<1> DEFINE Down(n, i) == IF n = Null THEN Null ELSE n.Idxs[key[i]]
           IsWalk(f, m) == f = [i \in 0 .. m |-> IF i = 0 THEN root ELSE Down(f[i - 1], i)]
           Bad == {m \in Nat : ~ \E f : IsWalk(f, m)}
<1>1. IsWalk([i \in 0 .. 0 |-> root], 0)
  OBVIOUS
<1>2. ASSUME NEW m \in Nat, NEW f, IsWalk(f, m)
      PROVE  \E g : IsWalk(g, m + 1)
  <2> DEFINE g == [i \in 0 .. m + 1 |-> IF i = m + 1 THEN Down(f[m], m + 1) ELSE f[i]]
  <2> HIDE DEF Down
  <2>1. g = [i \in 0 .. m + 1 |-> IF i = 0 THEN root ELSE Down(g[i - 1], i)]
    BY <1>2
  <2> QED
    BY Zenon, <2>1
<1>3. Walk(root, key) = CHOOSE f : IsWalk(f, Len(key))
  BY Zenon DEF Walk
<1>4. ASSUME NEW f, IsWalk(f, Len(key))
      PROVE  f[0] = root /\ \A i \in 1 .. Len(key) : f[i] = Down(f[i - 1], i)
  <2> HIDE DEF Down
  <2>1. Len(key) \in Nat /\ f = [i \in 0 .. Len(key) |-> IF i = 0 THEN root ELSE Down(f[i - 1], i)]
    BY <1>4
  <2> QED
    BY <2>1
<1> HIDE DEF IsWalk
<1>5. Bad = {}
  <2> SUFFICES ASSUME Bad # {} PROVE FALSE
    BY Zenon
  <2>1. PICK m \in Bad : \A k \in Bad : m <= k
    BY Zenon, LeastNumberPrinciple
  <2>2. m # 0
    BY Zenon, <1>1
  <2>3. m - 1 \in Nat /\ m - 1 \notin Bad
    BY <2>1, <2>2
  <2> QED
    BY <1>2, <2>3
<1>6. \E f : IsWalk(f, Len(key))
  <2>1. Len(key) \in Nat
    OBVIOUS
  <2> QED
    BY Zenon, <1>5, <2>1
<1>7. IsWalk(Walk(root, key), Len(key))
  BY Zenon, <1>3, <1>6
<1> QED
  BY Zenon, <1>4, <1>7

\* Where a walk is depends on the nibbles it has followed only.
LEMMA WalkPrefix ==
  ASSUME NEW root, NEW p \in Seq(Nibble), NEW q \in Seq(Nibble), NEW n \in Nat, Agree(p, q, n)
  PROVE  Walk(root, p)[n] = Walk(root, q)[n]
<1> DEFINE Bad == {m \in Nat : m <= n /\ Walk(root, p)[m] # Walk(root, q)[m]}
<1>1. SUFFICES ASSUME Bad # {} PROVE FALSE
  OBVIOUS
<1>2. Bad \in SUBSET Nat
  BY Zenon
<1>3. PICK m \in Bad : \A k \in Bad : m <= k
  BY Zenon, <1>1, <1>2, LeastNumberPrinciple
<1>4. m # 0
  BY <1>3, WalkStep
<1>5. /\ m \in 1 .. Len(p) /\ m \in 1 .. Len(q) /\ p[m] = q[m]
      /\ Walk(root, p)[m - 1] = Walk(root, q)[m - 1]
  BY <1>3, <1>4 DEF Agree
<1>6. Walk(root, p)[m] = Walk(root, q)[m]
  BY <1>5, WalkStep
<1> QED
  BY Zenon, <1>3, <1>6

\* A node is not null, and an empty node is a node.
LEMMA NodeFact ==
  /\ \A n : IsNode(n) => n # Null
  /\ IsNode(EmptyNode) /\ EmptyNode.Value = NoValue /\ \A x \in Nibble : EmptyNode.Idxs[x] = Null
<1>1. ASSUME NEW n, IsNode(n) PROVE n # Null
  <2>1. DOMAIN n = {"Idxs", "Value"} /\ DOMAIN Null = {}
    BY <1>1 DEF IsNode, Null
  <2> QED
    BY Zenon, <2>1
<1>2. IsNode(EmptyNode) /\ EmptyNode.Value = NoValue /\ \A x \in Nibble : EmptyNode.Idxs[x] = Null
  BY Zenon DEF IsNode, EmptyNode, Nibble
<1> QED
  BY Zenon, <1>1, <1>2

-----------------------------------------------------------------------------
(* Updates *)

\* The node an update copies at depth d of the key.
Old(root, key, d) == IF Walk(root, key)[d] = Null THEN EmptyNode ELSE Walk(root, key)[d]

\* N holds the nodes that an update puts, by depth.
IsUpdate(N, root, key, value) ==
  /\ N[Len(key)] = [Idxs |-> Old(root, key, Len(key)).Idxs, Value |-> value]
  /\ \A d \in 0 .. Len(key) - 1 :
       N[d] = [Idxs  |-> [Old(root, key, d).Idxs EXCEPT ![key[d + 1]] = N[d + 1]],
               Value |-> Old(root, key, d).Value]

\* What an update copies is a node.
LEMMA OldFact ==
  ASSUME NEW root, IsTrie(root), NEW key \in Seq(Nibble), NEW d \in 0 .. Len(key)
  PROVE  IsNode(Old(root, key, d))
BY Zenon, NodeFact DEF IsTrie, Old

\* updateDepthFirst returns the topmost of the nodes it puts.
LEMMA UpdateNodes ==
  ASSUME NEW root, IsTrie(root), NEW key \in Seq(Nibble), NEW value
  PROVE  \E N : IsUpdate(N, root, key, value) /\ UpdateDepthFirst(root, key, value) = N[0]
<1> DEFINE L == Len(key)
           Leaf(i) == [Old(root, key, L - i) EXCEPT !.Value = value]
           Copy(i, below) == [Old(root, key, L - i) EXCEPT !.Idxs[key[L - i + 1]] = below]
           IsNew(f, m) == f = [i \in 0 .. m |-> IF i = 0 THEN Leaf(i) ELSE Copy(i, f[i - 1])]
           Bad == {m \in Nat : ~ \E f : IsNew(f, m)}
<1>0. L \in Nat
  OBVIOUS
<1>1. UpdateDepthFirst(root, key, value) = (CHOOSE f : IsNew(f, L))[L]
  BY Zenon DEF UpdateDepthFirst, Old
<1>2. IsNew([i \in 0 .. 0 |-> Leaf(0)], 0)
  <2> HIDE DEF Leaf, Copy
  <2> QED
    OBVIOUS
<1>3. ASSUME NEW m \in Nat, NEW f, IsNew(f, m)
      PROVE  \E g : IsNew(g, m + 1)
  <2> DEFINE g == [i \in 0 .. m + 1 |-> IF i = m + 1 THEN Copy(m + 1, f[m]) ELSE f[i]]
  <2> HIDE DEF Leaf, Copy
  <2>1. g = [i \in 0 .. m + 1 |-> IF i = 0 THEN Leaf(i) ELSE Copy(i, g[i - 1])]
    BY <1>3
  <2> QED
    BY Zenon, <2>1
<1>4. ASSUME NEW f, IsNew(f, L)
      PROVE  f[0] = Leaf(0) /\ \A i \in 1 .. L : f[i] = Copy(i, f[i - 1])
  <2> HIDE DEF Leaf, Copy, L
  <2>1. f = [i \in 0 .. L |-> IF i = 0 THEN Leaf(i) ELSE Copy(i, f[i - 1])]
    BY Zenon, <1>4
  <2> QED
    BY <1>0, <2>1
<1> HIDE DEF IsNew, Leaf, Copy
<1>5. Bad = {}
  <2> SUFFICES ASSUME Bad # {} PROVE FALSE
    BY Zenon
  <2>1. PICK m \in Bad : \A k \in Bad : m <= k
    BY Zenon, LeastNumberPrinciple
  <2>2. m # 0
    BY Zenon, <1>2
  <2>3. m - 1 \in Nat /\ m - 1 \notin Bad
    BY <2>1, <2>2
  <2> QED
    BY <1>3, <2>3
<1>6. PICK f : f = (CHOOSE g : IsNew(g, L)) /\ IsNew(f, L)
  BY Zenon, <1>0, <1>5
<1> DEFINE N == [d \in 0 .. L |-> f[L - d]]
<1>7. UpdateDepthFirst(root, key, value) = N[0]
  BY <1>0, <1>1, <1>6
<1>8. N[L] = [Idxs |-> Old(root, key, L).Idxs, Value |-> value]
  <2>1. N[L] = Leaf(0) /\ L - 0 = L /\ L \in 0 .. L
    BY <1>0, <1>4, <1>6
  <2>2. IsNode(Old(root, key, L))
    BY Zenon, <2>1, OldFact
  <2> HIDE DEF N, L
  <2> QED
    BY <2>1, <2>2 DEF Leaf, IsNode
<1>9. ASSUME NEW d \in 0 .. L - 1
      PROVE  N[d] = [Idxs  |-> [Old(root, key, d).Idxs EXCEPT ![key[d + 1]] = N[d + 1]],
                     Value |-> Old(root, key, d).Value]
  <2>1. N[d] = Copy(L - d, N[d + 1])
    BY <1>0, <1>4, <1>6
  <2>2. L - (L - d) = d /\ d \in 0 .. L
    BY <1>0
  <2> HIDE DEF N
  <2>3. IsNode(Old(root, key, d))
    BY Zenon, <2>2, OldFact
  <2> QED
    BY <2>1, <2>2, <2>3 DEF Copy, IsNode
<1> HIDE DEF N
<1> QED
  BY Zenon, <1>7, <1>8, <1>9 DEF IsUpdate

\* All that an update puts are nodes.
LEMMA NewNodes ==
  ASSUME NEW root, IsTrie(root), NEW key \in Seq(Nibble), NEW value, NEW N,
         IsUpdate(N, root, key, value), NEW d \in 0 .. Len(key)
  PROVE  IsNode(N[d]) /\ N[d] # Null
<1>1. IsNode(Old(root, key, d)) /\ Len(key) \in Nat
  BY OldFact
<1>2. CASE d = Len(key)
  <2>1. N[d] = [Idxs |-> Old(root, key, d).Idxs, Value |-> value]
    BY Zenon, <1>2 DEF IsUpdate
  <2> QED
    BY <1>1, <2>1, NodeFact DEF IsNode
<1>3. CASE d # Len(key)
  <2>1. N[d] = [Idxs  |-> [Old(root, key, d).Idxs EXCEPT ![key[d + 1]] = N[d + 1]],
                Value |-> Old(root, key, d).Value]
    BY <1>1, <1>3 DEF IsUpdate
  <2>2. /\ N[d].Idxs = [Old(root, key, d).Idxs EXCEPT ![key[d + 1]] = N[d + 1]]
        /\ N[d] = [Idxs |-> N[d].Idxs, Value |-> N[d].Value]
    BY <2>1
  <2>3. DOMAIN Old(root, key, d).Idxs = Nibble
    BY Zenon, <1>1 DEF IsNode
  <2>4. N[d].Idxs = [x \in Nibble |-> N[d].Idxs[x]]
    BY Zenon, <2>2, <2>3
  <2>5. IsNode(N[d])
    BY Zenon, <2>2, <2>4 DEF IsNode
  <2> QED
    BY Zenon, <2>5, NodeFact
<1> QED
  BY Zenon, <1>2, <1>3

\* After an update a walk meets the new nodes as long as it follows the key, and
\* what it met before from there on.
LEMMA UpdateWalk ==
  ASSUME NEW root, IsTrie(root), NEW key \in Seq(Nibble), NEW value, NEW N,
         IsUpdate(N, root, key, value), NEW q \in Seq(Nibble), NEW n \in 0 .. Len(q)
  PROVE  Walk(N[0], q)[n] = IF Agree(q, key, n) THEN N[n] ELSE Walk(root, q)[n]
<1> DEFINE Claim(i) == Walk(N[0], q)[i] = IF Agree(q, key, i) THEN N[i] ELSE Walk(root, q)[i]
           Bad == {i \in Nat : i <= Len(q) /\ ~Claim(i)}
<1>0. Len(key) \in Nat /\ Len(q) \in Nat
  OBVIOUS
<1>1. Claim(0)
  BY <1>0, WalkStep DEF Agree
<1>2. ASSUME NEW i \in 1 .. Len(q), Claim(i - 1)
      PROVE  Claim(i)
  <2>1. /\ Walk(N[0], q)[i] = IF Walk(N[0], q)[i - 1] = Null THEN Null
                             ELSE Walk(N[0], q)[i - 1].Idxs[q[i]]
        /\ Walk(root, q)[i] = IF Walk(root, q)[i - 1] = Null THEN Null
                             ELSE Walk(root, q)[i - 1].Idxs[q[i]]
        /\ q[i] \in Nibble
    BY WalkStep
  <2>2. CASE ~Agree(q, key, i - 1)
    <3>1. ~Agree(q, key, i)
      BY <1>0, <2>2 DEF Agree
    <3> QED
      BY Zenon, <1>2, <2>1, <2>2, <3>1
  <2>3. CASE Agree(q, key, i - 1)
    <3>1. i - 1 \in 0 .. Len(key) /\ i - 1 \in Nat
      BY <1>0, <2>3 DEF Agree
    <3>2. Walk(root, q)[i - 1] = Walk(root, key)[i - 1]
      BY Zenon, <2>3, <3>1, WalkPrefix
    <3>3. N[i - 1] # Null /\ Walk(N[0], q)[i] = N[i - 1].Idxs[q[i]]
      BY Zenon, <1>2, <2>1, <2>3, <3>1, NewNodes
    <3>4. Old(root, key, i - 1).Idxs[q[i]] = Walk(root, q)[i]
      BY Zenon, <2>1, <3>2, NodeFact DEF Old
    <3>5. CASE i - 1 = Len(key)
      <4>1. N[i - 1].Idxs = Old(root, key, i - 1).Idxs
        BY <3>5 DEF IsUpdate
      <4>2. ~Agree(q, key, i)
        BY <1>0, <3>5 DEF Agree
      <4> QED
        BY Zenon, <3>3, <3>4, <4>1, <4>2
    <3>6. CASE i - 1 # Len(key)
      <4>1. i - 1 \in 0 .. Len(key) - 1 /\ (i - 1) + 1 = i /\ key[i] \in Nibble
        BY <1>0, <3>1, <3>6
      <4>2. N[i - 1].Idxs = [Old(root, key, i - 1).Idxs EXCEPT ![key[i]] = N[i]]
        <5>1. \A d \in 0 .. Len(key) - 1 :
                N[d].Idxs = [Old(root, key, d).Idxs EXCEPT ![key[d + 1]] = N[d + 1]]
          <6> TAKE d \in 0 .. Len(key) - 1
          <6>1. N[d] = [Idxs  |-> [Old(root, key, d).Idxs EXCEPT ![key[d + 1]] = N[d + 1]],
                        Value |-> Old(root, key, d).Value]
            BY Zenon DEF IsUpdate
          <6> QED
            BY <6>1
        <5>2. N[i - 1].Idxs = [Old(root, key, i - 1).Idxs EXCEPT ![key[(i - 1) + 1]] = N[(i - 1) + 1]]
          BY Zenon, <4>1, <5>1
        <5> QED
          BY Zenon, <4>1, <5>2
      <4>3. IsNode(Old(root, key, i - 1))
        BY Zenon, <3>1, OldFact
      <4>4. N[i - 1].Idxs[q[i]] = IF q[i] = key[i] THEN N[i] ELSE Old(root, key, i - 1).Idxs[q[i]]
        BY Zenon, <2>1, <4>1, <4>2, <4>3 DEF IsNode
      <4>5. Agree(q, key, i) <=> q[i] = key[i]
        BY <1>0, <2>3, <4>1 DEF Agree
      <4> QED
        BY Zenon, <3>3, <3>4, <4>4, <4>5
    <3> QED
      BY Zenon, <3>5, <3>6
  <2> QED
    BY Zenon, <2>2, <2>3
<1> HIDE DEF Claim
<1>3. Bad = {}
  <2> SUFFICES ASSUME Bad # {} PROVE FALSE
    BY Zenon
  <2>1. PICK i \in Bad : \A k \in Bad : i <= k
    BY Zenon, LeastNumberPrinciple
  <2>2. i # 0
    BY Zenon, <1>1
  <2>3. i \in 1 .. Len(q) /\ Claim(i - 1)
    BY <1>0, <2>1, <2>2
  <2> QED
    BY Zenon, <1>2, <2>1, <2>3
<1>4. Claim(n)
  BY <1>0, <1>3
<1> QED
  BY Zenon, <1>4 DEF Claim

\* A trie stays one.
LEMMA UpdateTrie ==
  ASSUME NEW root, IsTrie(root), NEW key \in Seq(Nibble), NEW value
  PROVE  IsTrie(UpdateDepthFirst(root, key, value))
<1>1. PICK N : IsUpdate(N, root, key, value) /\ UpdateDepthFirst(root, key, value) = N[0]
  BY Zenon, UpdateNodes
<1>2. ASSUME NEW p \in Seq(Nibble), NEW i \in 0 .. Len(p)
      PROVE  Walk(N[0], p)[i] = Null \/ IsNode(Walk(N[0], p)[i])
  <2>1. Walk(N[0], p)[i] = IF Agree(p, key, i) THEN N[i] ELSE Walk(root, p)[i]
    BY <1>1, UpdateWalk
  <2>2. Agree(p, key, i) => i \in 0 .. Len(key)
    BY DEF Agree
  <2>3. Agree(p, key, i) => IsNode(N[i])
    BY Zenon, <1>1, <2>2, NewNodes
  <2> QED
    BY Zenon, <2>1, <2>3 DEF IsTrie
<1>3. IsNode(N[0])
  BY <1>1, NewNodes
<1> QED
  BY Zenon, <1>1, <1>2, <1>3 DEF IsTrie

-----------------------------------------------------------------------------
(* What a trie holds *)

\* The node at a path.
At(root, p) == Walk(root, p)[Len(p)]

\* The path is on the way to the key.
Pre(p, key) == Agree(p, key, Len(p))

\* The node below a node is the one its index names.
LEMMA AtStep ==
  ASSUME NEW root, NEW p \in Seq(Nibble), NEW x \in Nibble
  PROVE  At(root, Append(p, x)) = IF At(root, p) = Null THEN Null ELSE At(root, p).Idxs[x]
<1> DEFINE q == Append(p, x)
<1>1. q \in Seq(Nibble) /\ Len(q) = Len(p) + 1 /\ Len(p) \in Nat
  OBVIOUS
<1>2. q[Len(q)] = x /\ Len(q) \in 1 .. Len(q) /\ Len(q) - 1 = Len(p)
  BY <1>1
<1>3. Agree(p, q, Len(p))
  BY <1>1 DEF Agree
<1> HIDE DEF q
<1>4. Walk(root, q)[Len(q)] = IF Walk(root, q)[Len(q) - 1] = Null THEN Null
                              ELSE Walk(root, q)[Len(q) - 1].Idxs[q[Len(q)]]
  BY <1>1, <1>2, WalkStep
<1>5. Walk(root, q)[Len(p)] = Walk(root, p)[Len(p)]
  BY Zenon, <1>1, <1>3, WalkPrefix
<1> QED
  BY Zenon, <1>2, <1>4, <1>5 DEF At, q

\* An update adds the way to its key, sets the value there, and changes nothing
\* off that way.
LEMMA UpdateAt ==
  ASSUME NEW root, IsTrie(root), NEW key \in Seq(Nibble), NEW value, NEW p \in Seq(Nibble)
  PROVE  LET new == UpdateDepthFirst(root, key, value)
         IN  /\ ~Pre(p, key) => At(new, p) = At(root, p)
             /\ Pre(p, key) => At(new, p) # Null
             /\ LookupDepthFirst(new, p) = IF p = key THEN value ELSE LookupDepthFirst(root, p)
<1>1. PICK N : IsUpdate(N, root, key, value) /\ UpdateDepthFirst(root, key, value) = N[0]
  BY UpdateNodes
<1> DEFINE new == UpdateDepthFirst(root, key, value)
<1>2. Len(p) \in Nat /\ Len(key) \in Nat
  OBVIOUS
<1>3. At(new, p) = IF Pre(p, key) THEN N[Len(p)] ELSE At(root, p)
  <2>1. Len(p) \in 0 .. Len(p)
    BY <1>2
  <2> QED
    BY <1>1, <2>1, UpdateWalk DEF At, Pre
<1> HIDE DEF new
<1>4. CASE ~Pre(p, key)
  <2>1. p # key
    BY <1>2, <1>4 DEF Pre, Agree
  <2> QED
    BY Zenon, <1>3, <1>4, <2>1 DEF LookupDepthFirst, At, new
<1>5. CASE Pre(p, key)
  <2>1. Len(p) \in 0 .. Len(key)
    BY <1>2, <1>5 DEF Pre, Agree
  <2>2. N[Len(p)] # Null
    BY Zenon, <1>1, <2>1, NewNodes
  <2>3. LookupDepthFirst(new, p) = N[Len(p)].Value
    BY Zenon, <1>3, <1>5, <2>2 DEF LookupDepthFirst, At
  <2>4. CASE Len(p) = Len(key)
    <3>1. p = key
      <4>1. \A i \in 1 .. Len(p) : p[i] = key[i]
        BY Zenon, <1>5 DEF Pre, Agree
      <4> QED
        BY <2>4, <4>1
    <3>2. N[Len(p)].Value = value
      BY <1>1, <2>4 DEF IsUpdate
    <3> QED
      BY Zenon, <1>3, <1>5, <2>2, <2>3, <3>1, <3>2 DEF new
  <2>5. CASE Len(p) # Len(key)
    <3>1. Len(p) \in 0 .. Len(key) - 1
      BY <1>2, <2>1, <2>5
    <3>2. N[Len(p)].Value = Old(root, key, Len(p)).Value
      <4>1. \A d \in 0 .. Len(key) - 1 :
              N[d] = [Idxs  |-> [Old(root, key, d).Idxs EXCEPT ![key[d + 1]] = N[d + 1]],
                      Value |-> Old(root, key, d).Value]
        BY Zenon, <1>1 DEF IsUpdate
      <4>2. N[Len(p)] = [Idxs  |-> [Old(root, key, Len(p)).Idxs EXCEPT ![key[Len(p) + 1]] = N[Len(p) + 1]],
                         Value |-> Old(root, key, Len(p)).Value]
        BY Zenon, <3>1, <4>1
      <4> QED
        BY <4>2
    <3>3. Walk(root, key)[Len(p)] = At(root, p)
      BY Zenon, <1>2, <1>5, WalkPrefix DEF At, Pre
    <3>4. Old(root, key, Len(p)).Value = LookupDepthFirst(root, p)
      BY Zenon, <3>3, NodeFact DEF Old, LookupDepthFirst, At
    <3>5. p # key
      BY Zenon, <2>5
    <3> QED
      BY Zenon, <1>3, <1>5, <2>2, <2>3, <3>2, <3>4, <3>5 DEF new
  <2> QED
    BY Zenon, <2>4, <2>5
<1> QED
  BY Zenon, <1>4, <1>5 DEF new

\* The whole way to a node exists.
LEMMA PathPresent ==
  ASSUME NEW root, NEW p \in Seq(Nibble), NEW key \in Seq(Nibble), Pre(p, key),
         At(root, key) # Null
  PROVE  At(root, p) # Null
<1> DEFINE n == Len(p)
           Alive == {m \in Nat : n <= m /\ m <= Len(key) /\ Walk(root, key)[m] # Null}
<1>1. n \in Nat /\ Len(key) \in Nat /\ n <= Len(key)
  BY DEF Pre, Agree
<1>2. Len(key) \in Alive
  BY <1>1 DEF At
<1>3. PICK m \in Alive : \A k \in Alive : m <= k
  BY Zenon, <1>2, LeastNumberPrinciple
<1>4. m = n
  <2> SUFFICES ASSUME m # n PROVE FALSE
    BY Zenon
  <2>1. m \in 1 .. Len(key) /\ m - 1 \in Nat /\ m - 1 \notin Alive
    BY <1>1, <1>3
  <2>2. Walk(root, key)[m - 1] = Null
    BY <1>1, <1>3, <2>1
  <2> QED
    BY Zenon, <1>3, <2>1, <2>2, WalkStep
<1>5. Walk(root, key)[n] = At(root, p)
  BY Zenon, <1>1, WalkPrefix DEF At, Pre
<1> QED
  BY Zenon, <1>3, <1>4, <1>5

\* The root hash is determined by the paths a trie has and the values it holds:
\* two tries that agree on them, and on all that lies below some depth, have one
\* root.
LEMMA Extensional ==
  ASSUME NEW a, NEW b, IsTrie(a), IsTrie(b), NEW M \in Nat,
         \A p \in Seq(Nibble) : Len(p) >= M => At(a, p) = At(b, p),
         \A p \in Seq(Nibble) : At(a, p) = Null <=> At(b, p) = Null,
         \A p \in Seq(Nibble) : LookupDepthFirst(a, p) = LookupDepthFirst(b, p)
  PROVE  a = b
<1> DEFINE Same(n) == \A p \in Seq(Nibble) : Len(p) >= n => At(a, p) = At(b, p)
           Good == {n \in Nat : Same(n)}
<1>1. ASSUME NEW n \in Nat, n # 0, Same(n) PROVE Same(n - 1)
  <2> SUFFICES ASSUME NEW p \in Seq(Nibble), Len(p) >= n - 1 PROVE At(a, p) = At(b, p)
    BY Zenon
  <2>1. Len(p) \in Nat /\ Len(p) \in 0 .. Len(p)
    OBVIOUS
  <2>2. CASE At(a, p) = Null
    BY Zenon, <2>2
  <2>3. CASE At(a, p) # Null
    <3>1. IsNode(At(a, p)) /\ IsNode(At(b, p)) /\ At(b, p) # Null
      BY Zenon, <2>1, <2>3 DEF IsTrie, At
    <3>2. At(a, p).Value = At(b, p).Value
      <4>1. LookupDepthFirst(a, p) = At(a, p).Value
        BY Zenon, <2>3 DEF LookupDepthFirst, At
      <4>2. LookupDepthFirst(b, p) = At(b, p).Value
        BY Zenon, <3>1 DEF LookupDepthFirst, At
      <4> QED
        BY Zenon, <4>1, <4>2
    <3>3. ASSUME NEW x \in Nibble PROVE At(a, p).Idxs[x] = At(b, p).Idxs[x]
      <4>1. Append(p, x) \in Seq(Nibble) /\ Len(Append(p, x)) >= n
        BY <1>1, <2>1
      <4>2. At(a, Append(p, x)) = At(b, Append(p, x))
        BY Zenon, <1>1, <4>1
      <4>3. At(a, Append(p, x)) = At(a, p).Idxs[x]
        BY Zenon, <2>3, AtStep
      <4>4. At(b, Append(p, x)) = At(b, p).Idxs[x]
        BY Zenon, <3>1, AtStep
      <4> QED
        BY Zenon, <4>2, <4>3, <4>4
    <3>4. At(a, p).Idxs = At(b, p).Idxs
      BY Zenon, <3>1, <3>3 DEF IsNode
    <3> QED
      BY Zenon, <3>1, <3>2, <3>4 DEF IsNode
  <2> QED
    BY Zenon, <2>2, <2>3
<1>2. Same(M)
  BY Zenon
<1> HIDE DEF Same
<1>3. PICK n \in Good : \A k \in Good : n <= k
  BY Zenon, <1>2, LeastNumberPrinciple
<1>4. n = 0
  BY <1>1, <1>3
<1>5. <<>> \in Seq(Nibble) /\ Len(<<>>) >= 0 /\ Len(<<>>) = 0
  OBVIOUS
<1>6. At(a, <<>>) = At(b, <<>>)
  BY Zenon, <1>3, <1>4, <1>5 DEF Same
<1>7. At(a, <<>>) = a /\ At(b, <<>>) = b
  BY Zenon, <1>5, WalkStep DEF At
<1> QED
  BY Zenon, <1>6, <1>7

-----------------------------------------------------------------------------
(* Keys *)

\* makeHex yields nibbles, two for a byte, and no two keys have one hex form.
LEMMA HexFact ==
  ASSUME NEW k \in Key
  PROVE  /\ MakeHex(k) \in Seq(Nibble) /\ Len(MakeHex(k)) = 2 * Len(k)
         /\ \A l \in Key : MakeHex(l) = MakeHex(k) => l = k
<1> DEFINE Byte == 0 .. Radix * Radix - 1
<1>1. \A b \in Byte : b \div Radix \in Nibble /\ b % Radix \in Nibble
  BY TrieAssumption DEF Nibble
<1>2. \A b \in Byte : b = Radix * (b \div Radix) + (b % Radix)
  BY TrieAssumption
<1>3. \A l \in Key : l \in Seq(Byte) /\ Len(l) \in Nat
  BY TrieAssumption
<1> HIDE DEF Byte
<1>4. ASSUME NEW l \in Key
      PROVE  /\ MakeHex(l) = [i \in 1 .. 2 * Len(l) |->
                               IF i % 2 = 1 THEN l[(i + 1) \div 2] \div Radix ELSE l[(i + 1) \div 2] % Radix]
             /\ MakeHex(l) \in [1 .. 2 * Len(l) -> Nibble]
  <2>1. MakeHex(l) = [i \in 1 .. 2 * Len(l) |->
                        IF i % 2 = 1 THEN l[(i + 1) \div 2] \div Radix ELSE l[(i + 1) \div 2] % Radix]
    BY Zenon DEF MakeHex
  <2>2. ASSUME NEW i \in 1 .. 2 * Len(l) PROVE l[(i + 1) \div 2] \in Byte
    <3>1. (i + 1) \div 2 \in 1 .. Len(l)
      BY <1>3
    <3> QED
      BY <1>3, <3>1
  <2>3. \A i \in 1 .. 2 * Len(l) : MakeHex(l)[i] \in Nibble
    BY Zenon, <1>1, <2>1, <2>2
  <2> QED
    BY Zenon, <2>1, <2>3
<1>5. \A l \in Key : MakeHex(l) \in Seq(Nibble) /\ Len(MakeHex(l)) = 2 * Len(l)
  <2> TAKE l \in Key
  <2>1. 2 * Len(l) \in Nat
    BY <1>3
  <2>2. MakeHex(l) \in [1 .. 2 * Len(l) -> Nibble]
    BY Zenon, <1>4
  <2>3. ASSUME NEW n \in Nat, NEW h \in [1 .. n -> Nibble] PROVE h \in Seq(Nibble) /\ Len(h) = n
    OBVIOUS
  <2> QED
    BY Zenon, <2>1, <2>2, <2>3
<1>6. ASSUME NEW l \in Key, NEW i \in 1 .. Len(l)
      PROVE  /\ MakeHex(l)[2 * i - 1] = l[i] \div Radix
             /\ MakeHex(l)[2 * i] = l[i] % Radix
             /\ l[i] \in Byte
  <2>1. /\ 2 * i - 1 \in 1 .. 2 * Len(l) /\ (2 * i - 1) % 2 = 1 /\ ((2 * i - 1) + 1) \div 2 = i
        /\ 2 * i \in 1 .. 2 * Len(l) /\ (2 * i) % 2 # 1 /\ (2 * i + 1) \div 2 = i
    BY <1>3
  <2>2. MakeHex(l)[2 * i - 1] = l[i] \div Radix
    BY <1>4, <2>1
  <2>3. MakeHex(l)[2 * i] = l[i] % Radix
    BY <1>4, <2>1
  <2>4. l[i] \in Byte
    BY <1>3
  <2> QED
    BY Zenon, <2>2, <2>3, <2>4
<1>7. ASSUME NEW l \in Key, MakeHex(l) = MakeHex(k) PROVE l = k
  <2>1. Len(l) = Len(k)
    BY <1>3, <1>5, <1>7
  <2>2. ASSUME NEW i \in 1 .. Len(l) PROVE l[i] = k[i]
    <3>1. i \in 1 .. Len(k)
      BY Zenon, <2>1
    <3>2. l[i] \div Radix = k[i] \div Radix
      BY Zenon, <1>6, <1>7, <3>1
    <3>3. l[i] % Radix = k[i] % Radix
      BY Zenon, <1>6, <1>7, <3>1
    <3>4. l[i] \in Byte /\ k[i] \in Byte
      BY Zenon, <1>6, <3>1
    <3> QED
      BY Zenon, <1>2, <3>2, <3>3, <3>4
  <2> QED
    BY <1>3, <2>1, <2>2
<1> QED
  BY Zenon, <1>5, <1>7

-----------------------------------------------------------------------------
(* What a block's writes make of its parent's trie *)

\* The trie that the writes w to the keys S make of a trie: it has the paths to
\* the keys it sets in addition, the written value under each key, and is the old
\* one otherwise.  A deleted variable leaves its path.
Holds(new, root, w, S) ==
  /\ IsTrie(new)
  /\ \E M \in Nat : \A p \in Seq(Nibble) : Len(p) >= M => At(new, p) = At(root, p)
  /\ \A p \in Seq(Nibble) :
       At(new, p) # Null <=> \/ At(root, p) # Null
                             \/ \E k \in S : w[k] # NoValue /\ Pre(p, MakeHex(k))
  /\ \A p \in Seq(Nibble) :
       (\A k \in S : p # MakeHex(k)) => LookupDepthFirst(new, p) = LookupDepthFirst(root, p)
  /\ \A k \in S : LookupDepthFirst(new, MakeHex(k)) = w[k]

\* One Update or Delete of a world state, path by path.
LEMMA WrittenFact ==
  ASSUME NEW root, IsTrie(root), NEW k \in Key, NEW value
  PROVE  LET new == Written(root, k, value)
         IN  /\ IsTrie(new)
             /\ \A p \in Seq(Nibble) :
                  /\ Len(p) > 2 * Len(k) => At(new, p) = At(root, p)
                  /\ At(new, p) # Null <=> \/ At(root, p) # Null
                                           \/ value # NoValue /\ Pre(p, MakeHex(k))
                  /\ LookupDepthFirst(new, p) =
                       IF p = MakeHex(k) THEN value ELSE LookupDepthFirst(root, p)
<1> DEFINE hex == MakeHex(k)
           new == Written(root, k, value)
<1>1. hex \in Seq(Nibble) /\ Len(hex) = 2 * Len(k) /\ Len(k) \in Nat
  BY HexFact, TrieAssumption
<1> HIDE DEF hex
<1>2. CASE value = NoValue /\ At(root, hex) = Null
  <2>1. new = root
    BY Zenon, <1>2 DEF Written, DeleteDepthFirst, At, hex
  <2>2. LookupDepthFirst(root, hex) = NoValue
    BY Zenon, <1>2 DEF LookupDepthFirst, At
  <2> QED
    BY Zenon, <1>2, <2>1, <2>2 DEF hex
<1>3. CASE ~(value = NoValue /\ At(root, hex) = Null)
  <2>1. new = UpdateDepthFirst(root, hex, value)
    BY Zenon, <1>3 DEF Written, DeleteDepthFirst, At, hex
  <2>2. IsTrie(new)
    BY Zenon, <1>1, <2>1, UpdateTrie
  <2>3. ASSUME NEW p \in Seq(Nibble)
        PROVE  /\ ~Pre(p, hex) => At(new, p) = At(root, p)
               /\ Pre(p, hex) => At(new, p) # Null
               /\ LookupDepthFirst(new, p) = IF p = hex THEN value ELSE LookupDepthFirst(root, p)
    BY <1>1, <2>1, UpdateAt
  <2>4. ASSUME NEW p \in Seq(Nibble), Len(p) > 2 * Len(k) PROVE ~Pre(p, hex)
    BY <1>1, <2>4 DEF Pre, Agree
  <2>5. ASSUME NEW p \in Seq(Nibble), Pre(p, hex), value = NoValue PROVE At(root, p) # Null
    BY Zenon, <1>1, <1>3, <2>5, PathPresent
  <2> HIDE DEF new
  <2>6. ASSUME NEW p \in Seq(Nibble)
        PROVE  At(new, p) # Null <=> At(root, p) # Null \/ (value # NoValue /\ Pre(p, hex))
    BY Zenon, <2>3, <2>5
  <2> QED
    BY Zenon, <2>2, <2>3, <2>4, <2>6 DEF new, hex
<1> QED
  BY Zenon, <1>2, <1>3

\* A block that has written nothing has its parent's trie.
LEMMA HoldsNothing ==
  ASSUME NEW root, IsTrie(root), NEW w
  PROVE  Holds(root, root, w, {})
<1>1. 0 \in Nat
  BY Zenon
<1> QED
  BY Zenon, <1>1 DEF Holds

\* One turn of the loop in persistState adds its variable, also when it was
\* written before.
LEMMA HoldsWrite ==
  ASSUME NEW r, NEW root, NEW w, NEW S \in SUBSET Key, Holds(r, root, w, S), NEW k \in Key
  PROVE  Holds(Written(r, k, w[k]), root, w, S \cup {k})
<1> DEFINE new == Written(r, k, w[k])
<1>1. IsTrie(r)
  BY Zenon DEF Holds
<1>2. /\ IsTrie(new)
      /\ \A p \in Seq(Nibble) :
           /\ Len(p) > 2 * Len(k) => At(new, p) = At(r, p)
           /\ At(new, p) # Null <=> \/ At(r, p) # Null
                                    \/ w[k] # NoValue /\ Pre(p, MakeHex(k))
           /\ LookupDepthFirst(new, p) =
                IF p = MakeHex(k) THEN w[k] ELSE LookupDepthFirst(r, p)
  BY <1>1, WrittenFact
<1> HIDE DEF new
<1>3. \E M \in Nat : \A p \in Seq(Nibble) : Len(p) >= M => At(new, p) = At(root, p)
  <2>1. PICK M \in Nat : \A p \in Seq(Nibble) : Len(p) >= M => At(r, p) = At(root, p)
    BY Zenon DEF Holds
  <2>2. Len(k) \in Nat
    BY TrieAssumption
  <2> DEFINE M1 == M + 2 * Len(k) + 1
  <2>3. M1 \in Nat
    BY <2>2
  <2>4. ASSUME NEW p \in Seq(Nibble), Len(p) >= M1 PROVE Len(p) >= M /\ Len(p) > 2 * Len(k)
    BY <2>2, <2>4
  <2> HIDE DEF M1
  <2> QED
    BY Zenon, <1>2, <2>1, <2>3, <2>4
<1>4. ASSUME NEW p \in Seq(Nibble)
      PROVE  At(new, p) # Null <=> \/ At(root, p) # Null
                                   \/ \E l \in S \cup {k} : w[l] # NoValue /\ Pre(p, MakeHex(l))
  BY Zenon, <1>2 DEF Holds
<1>5. ASSUME NEW p \in Seq(Nibble), \A l \in S \cup {k} : p # MakeHex(l)
      PROVE  LookupDepthFirst(new, p) = LookupDepthFirst(root, p)
  BY Zenon, <1>2, <1>5 DEF Holds
<1>6. ASSUME NEW l \in S \cup {k}
      PROVE  LookupDepthFirst(new, MakeHex(l)) = w[l]
  <2>1. l \in Key /\ MakeHex(l) \in Seq(Nibble)
    BY Zenon, HexFact
  <2>2. CASE l = k
    BY Zenon, <1>2, <2>1, <2>2
  <2>3. CASE l # k
    <3>1. MakeHex(l) # MakeHex(k)
      BY Zenon, <2>1, <2>3, HexFact
    <3>2. LookupDepthFirst(r, MakeHex(l)) = w[l]
      BY Zenon, <2>3 DEF Holds
    <3> QED
      BY Zenon, <1>2, <2>1, <3>1, <3>2
  <2> QED
    BY Zenon, <2>2, <2>3
<1> QED
  BY Zenon, <1>2, <1>3, <1>4, <1>5, <1>6 DEF Holds, new

\* The root is determined by the parent's and the writes.
LEMMA HoldsUnique ==
  ASSUME NEW a, NEW b, NEW root, NEW w, NEW S \in SUBSET Key,
         Holds(a, root, w, S), Holds(b, root, w, S)
  PROVE  a = b
<1>1. PICK M \in Nat : \A p \in Seq(Nibble) : Len(p) >= M => At(a, p) = At(root, p)
  BY Zenon DEF Holds
<1>2. PICK L \in Nat : \A p \in Seq(Nibble) : Len(p) >= L => At(b, p) = At(root, p)
  BY Zenon DEF Holds
<1>3. \A p \in Seq(Nibble) : Len(p) >= M + L => At(a, p) = At(b, p)
  <2> TAKE p \in Seq(Nibble)
  <2> HAVE Len(p) >= M + L
  <2>1. Len(p) >= M /\ Len(p) >= L
    OBVIOUS
  <2> QED
    BY Zenon, <1>1, <1>2, <2>1
<1>4. \A p \in Seq(Nibble) : At(a, p) = Null <=> At(b, p) = Null
  BY Zenon DEF Holds
<1>5. \A p \in Seq(Nibble) : LookupDepthFirst(a, p) = LookupDepthFirst(b, p)
  BY Zenon DEF Holds
<1>6. IsTrie(a) /\ IsTrie(b) /\ M + L \in Nat
  BY DEF Holds
<1> QED
  BY Zenon, <1>3, <1>4, <1>5, <1>6, Extensional

-----------------------------------------------------------------------------
(* The order of the writes *)

\* Whatever order the miner's map iteration takes.
LEMMA AppliedHolds ==
  ASSUME NEW root, IsTrie(root), NEW w, NEW S \in SUBSET Key, IsFiniteSet(S),
         NEW order \in Orders(S)
  PROVE  Holds(Applied(root, w, order), root, w, S)
<1> DEFINE L == Len(order)
           Do(r, i) == Written(r, order[i], w[order[i]])
           IsRun(f, m) == f = [i \in 0 .. m |-> IF i = 0 THEN root ELSE Do(f[i - 1], i)]
           NoRun == {m \in Nat : ~ \E f : IsRun(f, m)}
<1>1. /\ L = Cardinality(S) /\ L \in Nat /\ order \in [1 .. L -> S]
      /\ \A i, j \in 1 .. L : order[i] = order[j] => i = j
  <2>1. Cardinality(S) \in Nat /\ order \in [1 .. Cardinality(S) -> S]
    BY Zenon, FS_CardinalityType DEF Orders
  <2>2. L = Cardinality(S)
    BY <2>1
  <2>3. \A i, j \in 1 .. L : order[i] = order[j] => i = j
    BY Zenon, <2>1, <2>2 DEF Orders
  <2> QED
    BY Zenon, <2>1, <2>2, <2>3
<1>2. Applied(root, w, order) = (CHOOSE f : IsRun(f, L))[L]
  BY Zenon DEF Applied
<1>3. IsRun([i \in 0 .. 0 |-> root], 0)
  <2> HIDE DEF Do
  <2> QED
    OBVIOUS
<1>4. ASSUME NEW m \in Nat, NEW f, IsRun(f, m)
      PROVE  \E g : IsRun(g, m + 1)
  <2> DEFINE g == [i \in 0 .. m + 1 |-> IF i = m + 1 THEN Do(f[m], m + 1) ELSE f[i]]
  <2> HIDE DEF Do
  <2>1. g = [i \in 0 .. m + 1 |-> IF i = 0 THEN root ELSE Do(g[i - 1], i)]
    BY <1>4
  <2> QED
    BY Zenon, <2>1
<1>5. ASSUME NEW f, IsRun(f, L)
      PROVE  f[0] = root /\ \A i \in 1 .. L : f[i] = Do(f[i - 1], i)
  <2> HIDE DEF Do, L
  <2>1. f = [i \in 0 .. L |-> IF i = 0 THEN root ELSE Do(f[i - 1], i)]
    BY Zenon, <1>5
  <2> QED
    BY <1>1, <2>1
<1> HIDE DEF IsRun, Do, L
<1>6. NoRun = {}
  <2> SUFFICES ASSUME NoRun # {} PROVE FALSE
    BY Zenon
  <2>1. PICK m \in NoRun : \A k \in NoRun : m <= k
    BY Zenon, LeastNumberPrinciple
  <2>2. m # 0
    BY Zenon, <1>3
  <2>3. m - 1 \in Nat /\ m - 1 \notin NoRun
    BY <2>1, <2>2
  <2> QED
    BY <1>4, <2>3
<1>7. PICK f : f = (CHOOSE g : IsRun(g, L)) /\ IsRun(f, L)
  BY Zenon, <1>1, <1>6
<1> DEFINE Done(i) == {order[j] : j \in 1 .. i}
           Claim(i) == Holds(f[i], root, w, Done(i))
           Bad == {i \in Nat : i <= L /\ ~Claim(i)}
<1>8. Bad = {}
  <2> SUFFICES ASSUME Bad # {} PROVE FALSE
    BY Zenon
  <2>0. Claim(0)
    <3>1. Done(0) = {} /\ f[0] = root
      BY <1>5, <1>7
    <3> QED
      BY Zenon, <3>1, HoldsNothing
  <2> HIDE DEF Claim
  <2>1. PICK i \in Bad : \A k \in Bad : i <= k
    BY Zenon, LeastNumberPrinciple
  <2>2. i # 0
    BY Zenon, <2>0
  <2>3. i \in 1 .. L /\ i - 1 \in Nat /\ i - 1 \notin Bad
    BY <1>1, <2>1, <2>2
  <2>4. Holds(f[i - 1], root, w, Done(i - 1))
    BY <1>1, <2>3 DEF Claim
  <2>5. order[i] \in Key /\ Done(i - 1) \in SUBSET Key
    BY <1>1, <2>3
  <2>6. Done(i) = Done(i - 1) \cup {order[i]}
    <3>1. 1 .. i = (1 .. i - 1) \cup {i}
      BY <2>3
    <3> QED
      BY Zenon, <3>1
  <2>7. f[i] = Written(f[i - 1], order[i], w[order[i]])
    BY Zenon, <1>5, <1>7, <2>3 DEF Do
  <2> HIDE DEF Done
  <2>8. Holds(Written(f[i - 1], order[i], w[order[i]]), root, w, Done(i - 1) \cup {order[i]})
    BY Zenon, <2>4, <2>5, HoldsWrite
  <2>9. Claim(i)
    BY Zenon, <2>6, <2>7, <2>8 DEF Claim
  <2> QED
    BY Zenon, <2>1, <2>9
<1>9. Done(L) = S
  <2>1. order \in Injection(1 .. L, S)
    BY Zenon, <1>1 DEF Injection, IsInjective
  <2>2. Cardinality(1 .. L) = L
    BY <1>1, FS_Interval
  <2>3. order \in Surjection(1 .. L, S)
    BY Zenon, <1>1, <2>1, <2>2, FS_Injection
  <2> QED
    BY Zenon, <2>3 DEF Surjection
<1> HIDE DEF Claim
<1>10. Claim(L)
  BY <1>1, <1>8
<1> QED
  BY Zenon, <1>2, <1>7, <1>9, <1>10 DEF Claim

\* A finite map can be ranged over.
LEMMA OrdersExist ==
  ASSUME NEW S, IsFiniteSet(S)
  PROVE  Orders(S) # {}
<1>1. PICK f : f \in Bijection(1 .. Cardinality(S), S)
  BY Zenon, FS_CardinalityType DEF ExistsBijection
<1>2. f \in Orders(S)
  BY Zenon, <1>1 DEF Orders, Bijection, Injection, Surjection, IsInjective
<1> QED
  BY Zenon, <1>2

\* All orders of a block's writes lead to one root.
LEMMA ComputedFact ==
  ASSUME NEW root, IsTrie(root), NEW w, DOMAIN w \in SUBSET Key, IsFiniteSet(DOMAIN w),
         NEW r, Holds(r, root, w, DOMAIN w)
  PROVE  Computed(root, w) = {r}
<1>1. ASSUME NEW order \in Orders(DOMAIN w) PROVE Applied(root, w, order) = r
  <2>1. Holds(Applied(root, w, order), root, w, DOMAIN w)
    BY Zenon, AppliedHolds
  <2> QED
    BY Zenon, <2>1, HoldsUnique
<1> QED
  BY <1>1, OrdersExist DEF Computed

-----------------------------------------------------------------------------
(* The inductive invariant *)

\* A block's variables are a finite map.
IsBlock(x) ==
  /\ x = [parent |-> x.parent, depth |-> x.depth, writes |-> x.writes,
          State |-> x.State, view |-> x.view]
  /\ DOMAIN x.writes \subseteq Key /\ IsFiniteSet(DOMAIN x.writes)

IsWork(x) ==
  /\ x = [stage |-> x.stage, root |-> x.root, todo |-> x.todo, skipped |-> x.skipped,
          block |-> x.block]
  /\ x.stage \in Stages

\* The roots that have been put.
Known == txRoot \cup cleaned

\* No stored block has lost the entry of its root.
Clean == \A b \in Block : stored[b] # NoBlock => stored[b].State \notin cleaned

\* The engine's own fields: who holds the lock, and where the world state is.
EngineInv ==
  /\ bounds \in Bounds
  /\ stored = [b \in Block |-> stored[b]] /\ work = [b \in Block |-> work[b]]
  /\ tip \in Block /\ stored[tip] # NoBlock /\ IsTrie(state)
  /\ lock \in Block \cup {NoBlock}
  /\ lock # NoBlock => work[lock] # NoBlock /\ work[lock].stage \in {"mine", "rebase"}
  /\ \A b \in Block : work[b] # NoBlock /\ work[b].stage \in {"mine", "rebase"} => lock = b
  /\ lock # NoBlock /\ work[lock].stage = "rebase" => tip = lock
  /\ lock = NoBlock \/ work[lock].stage = "mine" =>
       state = stored[tip].State \/ stored[tip].State \in cleaned

\* A stored block has a trie of its own, which shows its view.
StoredAt(b) ==
  stored[b] # NoBlock =>
    /\ IsBlock(stored[b]) /\ IsTrie(stored[b].State) /\ stored[b].State \in Known
    /\ Clean => \A k \in Key : LookupDepthFirst(stored[b].State, MakeHex(k)) = stored[b].view[k]

\* A block in work is not stored but its parent is; its root is the parent's with
\* the writes made so far.  A candidate starts at the engine's root, which may be
\* another one once a root was cleaned up.
WorkAt(b) ==
  work[b] # NoBlock =>
    /\ IsWork(work[b])
    /\ work[b].stage # "rebase" =>
         LET block == work[b].block
         IN  /\ stored[b] = NoBlock
             /\ IsBlock(block) /\ block.parent \in Block /\ stored[block.parent] # NoBlock
             /\ block.view = View(block.parent, block.writes)
             /\ IsTrie(work[b].root) /\ work[b].root \in Known
             /\ work[b].todo \subseteq DOMAIN block.writes
             /\ work[b].stage = "accept" => work[b].todo = {}
             /\ Clean \/ work[b].stage \in {"pow", "accept"} =>
                  Holds(work[b].root, stored[block.parent].State, block.writes,
                        DOMAIN block.writes \ work[b].todo)

WorldInv == EngineInv /\ \A b \in Block : StoredAt(b) /\ WorkAt(b)

-----------------------------------------------------------------------------
(* Facts about one step *)

\* Entries are put or cleaned up, a stored block stays as it is.
Grows ==
  /\ Known \subseteq Known' /\ cleaned \subseteq cleaned'
  /\ \A b \in Block : stored[b] # NoBlock => stored'[b] = stored[b]

\* A stored block and a block in work are not nil.
LEMMA RecordFact ==
  /\ \A x : IsBlock(x) => x # NoBlock
  /\ \A x : IsWork(x) => x # NoBlock
<1>1. DOMAIN NoBlock = {}
  BY DEF NoBlock
<1>2. ASSUME NEW x, IsBlock(x) PROVE x # NoBlock
  <2>1. "parent" \in DOMAIN x
    BY <1>2 DEF IsBlock
  <2> QED
    BY Zenon, <1>1, <2>1
<1>3. ASSUME NEW x, IsWork(x) PROVE x # NoBlock
  <2>1. "stage" \in DOMAIN x
    BY <1>3 DEF IsWork
  <2> QED
    BY Zenon, <1>1, <2>1
<1> QED
  BY Zenon, <1>2, <1>3

\* A root that is lost stays lost.
LEMMA CleanBefore ==
  ASSUME Grows, Clean'
  PROVE  Clean
BY Zenon DEF Grows, Clean

\* A lookup finds what was written last.
LEMMA HoldsLookup ==
  ASSUME NEW new, NEW root, NEW w, NEW S \in SUBSET Key, Holds(new, root, w, S), NEW k \in Key
  PROVE  LookupDepthFirst(new, MakeHex(k)) =
           IF k \in S THEN w[k] ELSE LookupDepthFirst(root, MakeHex(k))
<1>1. CASE k \in S
  BY Zenon, <1>1 DEF Holds
<1>2. CASE k \notin S
  <2>1. MakeHex(k) \in Seq(Nibble) /\ \A l \in S : MakeHex(k) # MakeHex(l)
    BY Zenon, <1>2, HexFact
  <2> QED
    BY Zenon, <1>2, <2>1 DEF Holds
<1> QED
  BY Zenon, <1>1, <1>2

\* The empty world state is a trie.
LEMMA EmptyTrie ==
  /\ IsTrie(EmptyNode)
  /\ \A p \in Seq(Nibble) : LookupDepthFirst(EmptyNode, p) = NoValue
<1> DEFINE Claim(p, i) == Walk(EmptyNode, p)[i] = IF i = 0 THEN EmptyNode ELSE Null
<1>1. ASSUME NEW p \in Seq(Nibble), NEW i \in 0 .. Len(p) PROVE Claim(p, i)
  <2> DEFINE Bad == {j \in Nat : j <= Len(p) /\ ~Claim(p, j)}
  <2> SUFFICES ASSUME Bad # {} PROVE FALSE
    OBVIOUS
  <2>0. Claim(p, 0)
    BY Zenon, WalkStep
  <2> HIDE DEF Claim
  <2>1. PICK j \in Bad : \A k \in Bad : j <= k
    BY Zenon, LeastNumberPrinciple
  <2>2. j # 0
    BY Zenon, <2>0
  <2>3. j \in 1 .. Len(p) /\ j - 1 \in Nat /\ Claim(p, j - 1)
    BY <2>1, <2>2
  <2>4. /\ Walk(EmptyNode, p)[j] = IF Walk(EmptyNode, p)[j - 1] = Null THEN Null
                                   ELSE Walk(EmptyNode, p)[j - 1].Idxs[p[j]]
        /\ p[j] \in Nibble
    BY <2>3, WalkStep
  <2>5. Walk(EmptyNode, p)[j] = Null
    BY Zenon, <2>3, <2>4, NodeFact DEF Claim
  <2>6. Claim(p, j)
    BY Zenon, <2>2, <2>5 DEF Claim
  <2> QED
    BY Zenon, <2>1, <2>6
<1>2. ASSUME NEW p \in Seq(Nibble) PROVE LookupDepthFirst(EmptyNode, p) = NoValue
  <2>1. Len(p) \in 0 .. Len(p)
    OBVIOUS
  <2> QED
    BY Zenon, <1>1, <2>1, NodeFact DEF LookupDepthFirst
<1> QED
  BY Zenon, <1>1, <1>2, NodeFact DEF IsTrie

\* What a step leaves alone stays right.
LEMMA KeepStored ==
  ASSUME Grows, NEW b \in Block, stored[b] # NoBlock, StoredAt(b)
  PROVE  StoredAt(b)'
<1>1. stored'[b] = stored[b] /\ Known \subseteq Known' /\ (Clean' => Clean)
  BY Zenon, CleanBefore DEF Grows
<1> QED
  BY Zenon, <1>1 DEF StoredAt

\* A block in work stays right when its record and its parent stay as they are:
\* another goroutine's step does not disturb it.
LEMMA KeepWork ==
  ASSUME Grows, NEW b \in Block, WorkAt(b), work'[b] = work[b], stored'[b] = stored[b]
  PROVE  WorkAt(b)'
<1> SUFFICES ASSUME work[b] # NoBlock PROVE WorkAt(b)'
  BY Zenon DEF WorkAt
<1> DEFINE block == work[b].block
<1>1. IsWork(work[b]) /\ Known \subseteq Known' /\ (Clean' => Clean)
  BY Zenon, CleanBefore DEF WorkAt, Grows
<1>2. CASE work[b].stage = "rebase"
  BY Zenon, <1>1, <1>2 DEF WorkAt
<1>3. CASE work[b].stage # "rebase"
  <2>1. block.parent \in Block /\ stored[block.parent] # NoBlock
    BY Zenon, <1>3 DEF WorkAt
  <2>2. stored'[block.parent] = stored[block.parent]
    BY Zenon, <2>1 DEF Grows
  <2>3. View(block.parent, block.writes)' = [k \in Key |->
          IF k \in DOMAIN block.writes THEN block.writes[k] ELSE stored'[block.parent].view[k]]
    BY Zenon DEF View
  <2>4. View(block.parent, block.writes)' = View(block.parent, block.writes)
    BY Zenon, <2>2, <2>3 DEF View
  <2> QED
    BY Zenon, <1>1, <1>3, <2>1, <2>2, <2>4 DEF WorkAt
<1> QED
  BY Zenon, <1>2, <1>3

\* A step handles one block.
LEMMA OneBlock ==
  ASSUME WorldInv, Grows, EngineInv', NEW b \in Block, StoredAt(b)', WorkAt(b)',
         \A c \in Block \ {b} : work'[c] = work[c] /\ stored'[c] = stored[c]
  PROVE  WorldInv'
<1>1. ASSUME NEW c \in Block PROVE StoredAt(c)'
  <2>1. CASE c = b
    BY Zenon, <2>1
  <2>2. CASE c # b /\ stored[c] = NoBlock
    BY Zenon, <2>2 DEF StoredAt
  <2>3. CASE c # b /\ stored[c] # NoBlock
    BY Zenon, <2>3, KeepStored DEF WorldInv
  <2> QED
    BY Zenon, <2>1, <2>2, <2>3
<1>2. ASSUME NEW c \in Block PROVE WorkAt(c)'
  <2>1. CASE c = b
    BY Zenon, <2>1
  <2>2. CASE c # b
    BY Zenon, <2>2, KeepWork DEF WorldInv
  <2> QED
    BY Zenon, <2>1, <2>2
<1> QED
  BY Zenon, <1>1, <1>2 DEF WorldInv

-----------------------------------------------------------------------------
(* Each step keeps the invariant *)

\* NewBlockChainConsensus starts with the genesis block and the empty world state.
LEMMA WorldInvInit ==
  Init => WorldInv
<1> SUFFICES ASSUME Init PROVE WorldInv
  BY Zenon
<1> DEFINE genesis == [parent |-> NoBlock, depth |-> 0, writes |-> <<>>, State |-> EmptyNode,
                       view |-> [k \in Key |-> NoValue]]
<1>1. /\ stored = [b \in Block |-> IF b = Genesis THEN genesis ELSE NoBlock]
      /\ work = [b \in Block |-> NoBlock] /\ Genesis \in Block
  BY Zenon, BlockAssumption DEF Init
<1>2. IsBlock(genesis)
  <2>1. DOMAIN <<>> = {} /\ IsFiniteSet({})
    BY FS_EmptySet
  <2> QED
    BY Zenon, <2>1 DEF IsBlock
<1>3. genesis # NoBlock
  BY Zenon, <1>2, RecordFact
<1>4. EngineInv
  BY <1>1, <1>3, EmptyTrie DEF EngineInv, Init
<1>5. ASSUME NEW b \in Block PROVE StoredAt(b)
  <2>1. stored[b] # NoBlock => stored[b] = genesis
    BY Zenon, <1>1
  <2>2. \A k \in Key : LookupDepthFirst(EmptyNode, MakeHex(k)) = genesis.view[k]
    BY Zenon, HexFact, EmptyTrie
  <2>3. genesis.State = EmptyNode /\ EmptyNode \in Known
    BY Zenon DEF Known, Init
  <2> HIDE DEF genesis
  <2> QED
    BY Zenon, <1>2, <2>1, <2>2, <2>3, EmptyTrie DEF StoredAt
<1>6. ASSUME NEW b \in Block PROVE WorkAt(b)
  BY Zenon, <1>1 DEF WorkAt
<1> QED
  BY Zenon, <1>4, <1>5, <1>6 DEF WorldInv

\* A block enters work at a root that is known; it writes nothing yet.
LEMMA EnterStep ==
  ASSUME WorldInv, NEW b \in Block, NEW p \in Block, NEW w \in Writes, NEW root, NEW claimed,
         NEW stage \in {"pow", "fill"}, lock = NoBlock, stored[b] = NoBlock, stored[p] # NoBlock,
         IsTrie(root), root \in txRoot,
         Clean \/ stage = "pow" => root = stored[p].State,
         work' = [work EXCEPT ![b] =
           [stage |-> stage, root |-> root, todo |-> DOMAIN w, skipped |-> "no",
            block |-> NewBlock(p, w, claimed)]],
         txRoot' = NewAt(root), UNCHANGED <<stored, tip, state, lock, cleaned, bounds>>
  PROVE  WorldInv'
<1> DEFINE new == [stage |-> stage, root |-> root, todo |-> DOMAIN w, skipped |-> "no",
                   block |-> NewBlock(p, w, claimed)]
<1>1. Grows
  BY Zenon DEF Grows, Known, NewAt, Rebased
<1>2. DOMAIN w \subseteq Key /\ IsFiniteSet(DOMAIN w)
  <2>1. bounds \in Bounds
    BY Zenon DEF WorldInv, EngineInv
  <2>2. PICK S \in SUBSET bounds.keys : w \in [S -> Value \cup {NoValue}]
    BY Zenon DEF Writes
  <2>3. bounds.keys \subseteq Key /\ IsFiniteSet(bounds.keys)
    BY Zenon, <2>1, BlockAssumption
  <2> QED
    BY Zenon, <2>2, <2>3, FS_Subset
<1>3. IsWork(new) /\ IsBlock(new.block)
  BY Zenon, <1>2 DEF IsWork, IsBlock, NewBlock, Stages
<1>4. work'[b] = new /\ \A c \in Block \ {b} : work'[c] = work[c]
  BY Zenon DEF WorldInv, EngineInv
<1>5. new # NoBlock
  BY Zenon, <1>3, RecordFact
<1>6. EngineInv'
  <2>1. work' = [c \in Block |-> work'[c]]
    BY Zenon DEF WorldInv, EngineInv
  <2> HIDE DEF new
  <2>2. new.stage \notin {"mine", "rebase"}
    BY Zenon DEF new
  <2> QED
    BY Zenon, <1>4, <2>1, <2>2 DEF WorldInv, EngineInv
<1>7. StoredAt(b)'
  BY Zenon DEF StoredAt
<1>8. WorkAt(b)'
  <2>1. Holds(root, root, w, DOMAIN w \ DOMAIN w)
    BY Zenon, HoldsNothing
  <2>2. Clean' => Clean
    BY Zenon, <1>1, CleanBefore
  <2>3. root \in Known'
    BY Zenon DEF Known, NewAt, Rebased
  <2>4. /\ new.stage = stage /\ new.root = root /\ new.todo = DOMAIN w
        /\ new.block.parent = p /\ new.block.writes = w /\ new.block.view = View(p, w)
    BY Zenon DEF NewBlock
  <2>5. View(p, w)' = View(p, w)
    BY Zenon DEF View
  <2> HIDE DEF new
  <2> QED
    BY Zenon, <1>3, <1>4, <2>1, <2>2, <2>3, <2>4, <2>5 DEF WorkAt
<1> QED
  BY Zenon, <1>1, <1>4, <1>6, <1>7, <1>8, OneBlock

\* processNetworkBlock starts a peer's block at its parent's root.
LEMMA DecodeStep ==
  ASSUME WorldInv, NEW b \in Block \ {Genesis}, DecodeNetworkBlock(b)
  PROVE  WorldInv'
<1>1. PICK p \in Block, w \in Writes :
        /\ lock = NoBlock /\ stored[b] = NoBlock /\ work[b] = NoBlock
        /\ stored[p] # NoBlock /\ stored[p].State \in txRoot
        /\ \E claimed \in Computed(stored[p].State, w) \cup {EmptyNode} :
             work' = [work EXCEPT ![b] =
               [stage |-> "pow", root |-> stored[p].State, todo |-> DOMAIN w, skipped |-> "no",
                block |-> NewBlock(p, w, claimed)]]
        /\ txRoot' = NewAt(stored[p].State)
        /\ UNCHANGED <<stored, tip, state, lock, cleaned, bounds>>
  BY Zenon DEF DecodeNetworkBlock
<1>2. PICK claimed :
             work' = [work EXCEPT ![b] =
               [stage |-> "pow", root |-> stored[p].State, todo |-> DOMAIN w, skipped |-> "no",
                block |-> NewBlock(p, w, claimed)]]
  BY Zenon, <1>1
<1>3. IsTrie(stored[p].State)
  BY Zenon, <1>1 DEF WorldInv, StoredAt
<1> QED
  BY Zenon, <1>1, <1>2, <1>3, EnterStep

\* NewCandidateBlock starts a block at the engine's root, which is the tip's
\* unless that was cleaned up.
LEMMA CandidateStep ==
  ASSUME WorldInv, NEW b \in Block \ {Genesis}, NewCandidateBlock(b)
  PROVE  WorldInv'
<1>1. PICK w \in Writes :
        /\ lock = NoBlock /\ stored[b] = NoBlock /\ work[b] = NoBlock
        /\ state \in txRoot
        /\ work' = [work EXCEPT ![b] =
             [stage |-> "fill", root |-> state, todo |-> DOMAIN w, skipped |-> "no",
              block |-> NewBlock(tip, w, state)]]
        /\ txRoot' = NewAt(state)
        /\ UNCHANGED <<stored, tip, state, lock, cleaned, bounds>>
  BY Zenon DEF NewCandidateBlock
<1>2. tip \in Block /\ stored[tip] # NoBlock /\ IsTrie(state)
  BY Zenon DEF WorldInv, EngineInv
<1>3. Clean => state = stored[tip].State
  BY Zenon, <1>1, <1>2 DEF WorldInv, EngineInv, Clean
<1> QED
  BY Zenon, <1>1, <1>2, <1>3, EnterStep

\* mineCandidateBlock takes the lock and changes no root.
LEMMA MineStep ==
  ASSUME WorldInv, NEW b \in Block \ {Genesis}, MineCandidateBlock(b)
  PROVE  WorldInv'
<1>1. /\ lock = NoBlock /\ work[b] # NoBlock /\ work[b].stage = "fill"
      /\ work' = [work EXCEPT ![b].stage = "mine"] /\ lock' = b
      /\ UNCHANGED <<txRoot, stored, tip, state, cleaned, bounds>>
  BY Zenon DEF MineCandidateBlock
<1>2. Grows
  BY Zenon, <1>1 DEF Grows, Known
<1>3. /\ work'[b] = [work[b] EXCEPT !.stage = "mine"]
      /\ work' = [c \in Block |-> work'[c]]
      /\ \A c \in Block \ {b} : work'[c] = work[c]
  BY Zenon, <1>1 DEF WorldInv, EngineInv
<1>4. IsWork(work[b]) /\ WorkAt(b)
  BY Zenon, <1>1 DEF WorldInv, WorkAt
<1>5. /\ work'[b].stage = "mine" /\ work'[b].root = work[b].root
      /\ work'[b].todo = work[b].todo /\ work'[b].block = work[b].block
      /\ IsWork(work'[b])
  BY Zenon, <1>3, <1>4 DEF IsWork, Stages
<1>6. work'[b] # NoBlock
  BY Zenon, <1>5, RecordFact
<1>7. EngineInv'
  <2>1. EngineInv /\ b # NoBlock
    BY Zenon, BlockAssumption DEF WorldInv
  <2>2. state = stored[tip].State \/ stored[tip].State \in cleaned
    BY Zenon, <1>1, <2>1 DEF EngineInv
  <2>3. \A c \in Block : work'[c] # NoBlock /\ work'[c].stage \in {"mine", "rebase"} => c = b
    BY Zenon, <1>1, <1>3, <2>1, BlockAssumption DEF EngineInv
  <2> QED
    BY Zenon, <1>1, <1>3, <1>5, <1>6, <2>1, <2>2, <2>3 DEF EngineInv
<1>8. StoredAt(b)'
  BY Zenon, <1>1 DEF WorldInv, StoredAt, Clean, Known
<1>9. WorkAt(b)'
  <2>1. \A p, w : View(p, w)' = View(p, w)
    BY Zenon, <1>1 DEF View
  <2>2. Clean' => Clean
    BY Zenon, <1>2, CleanBefore
  <2> QED
    BY Zenon, <1>1, <1>4, <1>5, <2>1, <2>2 DEF WorkAt, Known
<1> QED
  BY Zenon, <1>1, <1>2, <1>3, <1>7, <1>8, <1>9, OneBlock

\* The root after a write has an entry: Update and Delete put it, or it is the
\* root before.
LEMMA PutFact ==
  ASSUME NEW table, NEW root, NEW k \in Key, NEW value
  PROVE  /\ table \subseteq Put(table, root, k, value)
         /\ root \in table => Written(root, k, value) \in Put(table, root, k, value)
         /\ Written(root, k, value) # root => Written(root, k, value) \in Put(table, root, k, value)
<1>1. CASE Touches(root, k, value)
  BY Zenon, <1>1 DEF Put
<1>2. CASE ~Touches(root, k, value)
  <2>1. value = NoValue /\ Walk(root, MakeHex(k))[Len(MakeHex(k))] = Null
    BY Zenon, <1>2, HexFact DEF Touches
  <2>2. Written(root, k, value) = root
    BY Zenon, <2>1 DEF Written, DeleteDepthFirst
  <2> QED
    BY Zenon, <1>2, <2>2 DEF Put
<1> QED
  BY Zenon, <1>1, <1>2

\* A turn of the loop in persistState makes one more of the block's writes, and
\* cleans up a root that is then in cleaned.
LEMMA PersistStep ==
  ASSUME WorldInv, NEW b \in Block \ {Genesis}, NEW k \in Key, PersistState(b, k)
  PROVE  WorldInv'
<1> DEFINE old == work[b].root
           value == work[b].block.writes[k]
           new == Written(old, k, value)
           gone == IF new # old /\ work[b].skipped = "yes" THEN {old} ELSE {}
           skipped == IF new = old THEN work[b].skipped ELSE "yes"
           block == work[b].block
<1>1. /\ work[b] # NoBlock /\ work[b].stage \in {"mine", "pow"} /\ k \in work[b].todo
      /\ txRoot' = Cleaned(Put(txRoot, old, k, value), gone)
      /\ cleaned' = cleaned \cup gone
      /\ UNCHANGED <<stored, tip, state, lock, bounds>>
  BY Zenon DEF PersistState
<1>2. IsWork(work[b]) /\ WorkAt(b)
  BY Zenon, <1>1 DEF WorldInv, WorkAt
<1>3. /\ work'[b] = [stage |-> work[b].stage, root |-> new, todo |-> work[b].todo \ {k},
                     skipped |-> skipped, block |-> block]
      /\ work' = [c \in Block |-> work'[c]]
      /\ \A c \in Block \ {b} : work'[c] = work[c]
  <2>1. work' = [work EXCEPT ![b].root = new, ![b].todo = @ \ {k},
                             ![b].skipped = IF new = old THEN @ ELSE "yes"]
    BY Zenon DEF PersistState
  <2> HIDE DEF new
  <2>2. work'[b] = [work[b] EXCEPT !.root = new, !.todo = work[b].todo \ {k}, !.skipped = skipped]
    BY Zenon, <2>1 DEF WorldInv, EngineInv
  <2>3. /\ work' = [c \in Block |-> work'[c]]
        /\ \A c \in Block \ {b} : work'[c] = work[c]
    BY ZenonT(60), <2>1 DEF WorldInv, EngineInv
  <2> HIDE DEF skipped
  <2> QED
    BY Zenon, <1>2, <2>2, <2>3 DEF IsWork
<1> HIDE DEF gone, new, skipped
<1>4. /\ work'[b].stage = work[b].stage /\ work'[b].root = new
      /\ work'[b].todo = work[b].todo \ {k} /\ work'[b].block = block
      /\ IsWork(work'[b])
  BY <1>2, <1>3 DEF IsWork
<1>5. work'[b] # NoBlock
  BY Zenon, <1>4, RecordFact
<1>6. /\ stored[b] = NoBlock /\ IsTrie(old) /\ old \in Known
      /\ IsBlock(block) /\ block.parent \in Block /\ stored[block.parent] # NoBlock
      /\ block.view = View(block.parent, block.writes)
      /\ work[b].todo \subseteq DOMAIN block.writes
      /\ Clean \/ work[b].stage = "pow" =>
           Holds(old, stored[block.parent].State, block.writes, DOMAIN block.writes \ work[b].todo)
  BY Zenon, <1>1, <1>2 DEF WorkAt
<1>7. Grows
  <2>1. txRoot \subseteq Put(txRoot, old, k, value)
    BY ZenonT(60), PutFact
  <2> QED
    BY Zenon, <1>1, <2>1 DEF Grows, Known, Cleaned
<1>8. EngineInv'
  <2>1. \A c \in Block : /\ work'[c] # NoBlock <=> work[c] # NoBlock
                         /\ work'[c].stage = work[c].stage
    BY Zenon, <1>1, <1>3, <1>4, <1>5
  <2>2. EngineInv /\ NoBlock \notin Block /\ cleaned \subseteq cleaned'
    BY Zenon, <1>1, BlockAssumption DEF WorldInv
  <2>3. lock = NoBlock \/ work'[lock].stage = "mine" =>
          state = stored[tip].State \/ stored[tip].State \in cleaned'
    BY Zenon, <2>1, <2>2 DEF EngineInv
  <2> QED
    BY Zenon, <1>1, <1>3, <2>1, <2>2, <2>3 DEF EngineInv
<1>9. StoredAt(b)'
  BY Zenon, <1>1, <1>6 DEF StoredAt
<1>10. WorkAt(b)'
  <2>1. \A p, w : View(p, w)' = View(p, w)
    BY Zenon, <1>1 DEF View
  <2>2. Clean' => Clean
    BY Zenon, <1>7, CleanBefore
  <2>3. new \in Known'
    <3>1. CASE new = old
      BY Zenon, <1>6, <1>7, <3>1 DEF Grows
    <3>2. CASE new # old
      <4>1. new \in Put(txRoot, old, k, value)
        BY Zenon, <3>2, PutFact DEF new
      <4> QED
        BY Zenon, <1>1, <4>1 DEF Known, Cleaned
    <3> QED
      BY Zenon, <3>1, <3>2
  <2>4. IsTrie(new)
    BY Zenon, <1>6, WrittenFact DEF new
  <2>5. Clean \/ work[b].stage = "pow" =>
          Holds(new, stored[block.parent].State, block.writes, DOMAIN block.writes \ (work[b].todo \ {k}))
    <3> DEFINE S == DOMAIN block.writes \ work[b].todo
    <3>1. DOMAIN block.writes \ (work[b].todo \ {k}) = S \cup {k} /\ S \in SUBSET Key
      BY Zenon, <1>1, <1>6 DEF IsBlock
    <3> HIDE DEF S
    <3>2. ASSUME Holds(old, stored[block.parent].State, block.writes, S)
          PROVE  Holds(new, stored[block.parent].State, block.writes, S \cup {k})
      BY Zenon, <3>1, <3>2, HoldsWrite DEF new
    <3> QED
      BY Zenon, <1>6, <3>1, <3>2 DEF S
  <2>6. work[b].todo \ {k} \subseteq DOMAIN block.writes
    BY Zenon, <1>6
  <2>7. work'[b].stage \in {"mine", "pow"}
    BY Zenon, <1>1, <1>4
  <2> HIDE DEF block
  <2> QED
    BY ZenonT(60), <1>1, <1>4, <1>6, <2>1, <2>2, <2>3, <2>4, <2>5, <2>6, <2>7 DEF WorkAt
<1> QED
  BY Zenon, <1>1, <1>3, <1>7, <1>8, <1>9, <1>10, OneBlock

\* CheckNetworkBlockPoW ends when every write is made.
LEMMA PoWStep ==
  ASSUME WorldInv, NEW b \in Block \ {Genesis}, CheckNetworkBlockPoW(b)
  PROVE  WorldInv'
<1>1. /\ work[b] # NoBlock /\ work[b].stage = "pow" /\ work[b].todo = {}
      /\ work' = [work EXCEPT ![b].stage = "accept"]
      /\ UNCHANGED <<txRoot, stored, tip, state, lock, cleaned, bounds>>
  BY Zenon DEF CheckNetworkBlockPoW
<1>2. Grows
  BY Zenon, <1>1 DEF Grows, Known
<1>3. /\ work'[b] = [work[b] EXCEPT !.stage = "accept"]
      /\ work' = [c \in Block |-> work'[c]]
      /\ \A c \in Block \ {b} : work'[c] = work[c]
  BY Zenon, <1>1 DEF WorldInv, EngineInv
<1>4. IsWork(work[b]) /\ WorkAt(b)
  BY Zenon, <1>1 DEF WorldInv, WorkAt
<1>5. /\ work'[b].stage = "accept" /\ work'[b].root = work[b].root
      /\ work'[b].todo = work[b].todo /\ work'[b].block = work[b].block
      /\ IsWork(work'[b])
  BY Zenon, <1>3, <1>4 DEF IsWork, Stages
<1>6. work'[b] # NoBlock
  BY Zenon, <1>5, RecordFact
<1>7. EngineInv'
  BY Zenon, <1>1, <1>3, <1>5, <1>6 DEF WorldInv, EngineInv
<1>8. StoredAt(b)'
  BY Zenon, <1>1 DEF WorldInv, StoredAt, Clean, Known
<1>9. WorkAt(b)'
  <2>1. \A p, w : View(p, w)' = View(p, w)
    BY Zenon, <1>1 DEF View
  <2> QED
    BY Zenon, <1>1, <1>4, <1>5, <2>1 DEF WorkAt, Known
<1> QED
  BY Zenon, <1>1, <1>2, <1>3, <1>7, <1>8, <1>9, OneBlock

\* A block whose writes are all made is stored with its root: its world state
\* shows its view.
LEMMA AddStep ==
  ASSUME WorldInv, NEW b \in Block, NEW block, AddValidatedBlock(b, block),
         work[b] # NoBlock, work[b].todo = {},
         \/ lock = NoBlock /\ work[b].stage = "accept"
         \/ lock = b /\ work[b].stage = "mine",
         IsBlock(block), block.State = work[b].root, block.view = work[b].block.view,
         txRoot \subseteq txRoot', UNCHANGED <<state, cleaned, bounds>>
  PROVE  WorldInv'
<1> DEFINE mine == work[b].block
<1>1. EngineInv /\ StoredAt(b) /\ WorkAt(b) /\ stored' = [stored EXCEPT ![b] = block]
  BY Zenon DEF WorldInv, AddValidatedBlock
<1>2. /\ IsWork(work[b]) /\ stored[b] = NoBlock
      /\ IsBlock(mine) /\ mine.parent \in Block /\ stored[mine.parent] # NoBlock
      /\ mine.view = View(mine.parent, mine.writes)
      /\ IsTrie(work[b].root) /\ work[b].root \in Known
      /\ Clean => Holds(work[b].root, stored[mine.parent].State, mine.writes, DOMAIN mine.writes)
  <2>1. DOMAIN mine.writes \ {} = DOMAIN mine.writes
    BY Zenon
  <2> QED
    BY Zenon, <1>1, <2>1 DEF WorkAt
<1> HIDE DEF mine
<1>3. /\ stored'[b] = block /\ block # NoBlock
      /\ \A c \in Block \ {b} : stored'[c] = stored[c]
      /\ stored' = [c \in Block |-> stored'[c]]
  BY Zenon, <1>1, RecordFact DEF EngineInv
<1>4. Grows
  BY Zenon, <1>2, <1>3 DEF Grows, Known
<1>5. StoredAt(b)'
  <2>1. ASSUME Clean', NEW k \in Key
        PROVE  LookupDepthFirst(work[b].root, MakeHex(k)) = block.view[k]
    <3>1. Clean
      BY Zenon, <1>4, <2>1, CleanBefore
    <3>2. LookupDepthFirst(work[b].root, MakeHex(k)) =
            IF k \in DOMAIN mine.writes THEN mine.writes[k]
            ELSE LookupDepthFirst(stored[mine.parent].State, MakeHex(k))
      BY SMTT(60), <1>2, <3>1, HoldsLookup DEF IsBlock
    <3>3. LookupDepthFirst(stored[mine.parent].State, MakeHex(k)) = stored[mine.parent].view[k]
      <4>1. StoredAt(mine.parent)
        BY Zenon, <1>2 DEF WorldInv
      <4> QED
        BY Zenon, <1>2, <3>1, <4>1 DEF StoredAt
    <3>4. block.view[k] = IF k \in DOMAIN mine.writes THEN mine.writes[k] ELSE stored[mine.parent].view[k]
      BY Zenon, <1>2 DEF View, mine
    <3> QED
      BY <3>2, <3>3, <3>4
  <2>2. work[b].root \in Known'
    BY Zenon, <1>2, <1>4 DEF Grows
  <2> QED
    BY Zenon, <1>2, <1>3, <2>1, <2>2 DEF StoredAt
<1>6. tip # b /\ b # NoBlock /\ \A c \in Block \ {b} :
        work[c] # NoBlock => work[c].stage \notin {"mine", "rebase"}
  BY Zenon, <1>1, <1>2, BlockAssumption DEF EngineInv
<1>7. CASE /\ tip' = b /\ lock' = b
           /\ work' = [work EXCEPT ![b].stage = "rebase"]
  <2>1. /\ work'[b] = [work[b] EXCEPT !.stage = "rebase"]
        /\ work' = [c \in Block |-> work'[c]]
        /\ \A c \in Block \ {b} : work'[c] = work[c]
    BY Zenon, <1>1, <1>7 DEF EngineInv
  <2>2. IsWork(work'[b]) /\ work'[b].stage = "rebase"
    BY Zenon, <1>2, <2>1 DEF IsWork, Stages
  <2>3. work'[b] # NoBlock
    BY Zenon, <2>2, RecordFact
  <2>4. EngineInv'
    BY Zenon, <1>1, <1>3, <1>6, <1>7, <2>1, <2>2, <2>3 DEF EngineInv
  <2>5. WorkAt(b)'
    BY Zenon, <2>2 DEF WorkAt
  <2> QED
    BY Zenon, <1>3, <1>4, <1>5, <2>1, <2>4, <2>5, OneBlock
<1>8. CASE lock' = NoBlock /\ work' = [work EXCEPT ![b] = NoBlock] /\ UNCHANGED tip
  <2>1. /\ work'[b] = NoBlock
        /\ work' = [c \in Block |-> work'[c]]
        /\ \A c \in Block \ {b} : work'[c] = work[c]
    BY Zenon, <1>1, <1>8 DEF EngineInv
  <2>2. EngineInv'
    BY Zenon, <1>1, <1>3, <1>6, <1>8, <2>1 DEF EngineInv
  <2>3. WorkAt(b)'
    BY Zenon, <2>1 DEF WorkAt
  <2> QED
    BY Zenon, <1>3, <1>4, <1>5, <2>1, <2>2, <2>3, OneBlock
<1> QED
  BY Zenon, <1>7, <1>8 DEF AddValidatedBlock

\* A mined block is stored with the root that computeHash left in it.
LEMMA MinedStep ==
  ASSUME WorldInv, NEW b \in Block \ {Genesis}, AddMinedBlock(b)
  PROVE  WorldInv'
<1> DEFINE block == [work[b].block EXCEPT !.State = work[b].root]
<1>1. /\ lock = b /\ work[b].stage = "mine" /\ work[b].todo = {}
      /\ AddValidatedBlock(b, block) /\ UNCHANGED <<txRoot, state, cleaned, bounds>>
  BY Zenon DEF AddMinedBlock
<1>2. work[b] # NoBlock
  BY Zenon, <1>1, BlockAssumption DEF WorldInv, EngineInv
<1>3. IsBlock(work[b].block)
  BY Zenon, <1>1, <1>2 DEF WorldInv, WorkAt
<1>4. IsBlock(block) /\ block.State = work[b].root /\ block.view = work[b].block.view
  BY <1>3 DEF IsBlock
<1> HIDE DEF block
<1> QED
  BY Zenon, <1>1, <1>2, <1>4, AddStep

\* AcceptNetworkBlock stores the block when the computed root is its STATE, and
\* drops it otherwise.
LEMMA AcceptStep ==
  ASSUME WorldInv, NEW b \in Block \ {Genesis}, AcceptNetworkBlock(b)
  PROVE  WorldInv'
<1>1. /\ lock = NoBlock /\ work[b] # NoBlock /\ work[b].stage = "accept"
      /\ txRoot \subseteq txRoot' /\ UNCHANGED <<state, cleaned, bounds>>
  BY Zenon DEF AcceptNetworkBlock
<1>2. WorkAt(b) /\ IsBlock(work[b].block) /\ work[b].todo = {}
  BY Zenon, <1>1 DEF WorldInv, WorkAt
<1>3. CASE work[b].root = work[b].block.State
  <2>1. AddValidatedBlock(b, work[b].block)
    BY Zenon, <1>3 DEF AcceptNetworkBlock
  <2> QED
    BY Zenon, <1>1, <1>2, <1>3, <2>1, AddStep
<1>4. CASE work[b].root # work[b].block.State
  <2>1. work' = [work EXCEPT ![b] = NoBlock] /\ UNCHANGED <<stored, tip, lock>>
    BY Zenon, <1>4 DEF AcceptNetworkBlock
  <2>2. /\ work'[b] = NoBlock
        /\ work' = [c \in Block |-> work'[c]]
        /\ \A c \in Block \ {b} : work'[c] = work[c]
    BY Zenon, <2>1 DEF WorldInv, EngineInv
  <2>3. Grows
    BY Zenon, <1>1, <2>1 DEF Grows, Known
  <2>4. EngineInv'
    BY Zenon, <1>1, <2>1, <2>2 DEF WorldInv, EngineInv
  <2>5. StoredAt(b)' /\ WorkAt(b)'
    BY Zenon, <1>1, <1>2, <2>1, <2>2 DEF WorkAt, StoredAt
  <2> QED
    BY Zenon, <2>1, <2>2, <2>3, <2>4, <2>5, OneBlock
<1> QED
  BY Zenon, <1>3, <1>4

\* The engine's world state follows the tip, or the tip's root is in cleaned.
LEMMA RebaseStep ==
  ASSUME WorldInv, NEW b \in Block \ {Genesis}, RebaseState(b)
  PROVE  WorldInv'
<1>1. /\ lock = b /\ work[b].stage = "rebase"
      /\ work' = [work EXCEPT ![b] = NoBlock] /\ lock' = NoBlock
      /\ UNCHANGED <<stored, tip, cleaned, bounds>>
      /\ txRoot \subseteq txRoot'
  BY Zenon DEF RebaseState, Rebased
<1>2. /\ work'[b] = NoBlock
      /\ work' = [c \in Block |-> work'[c]]
      /\ \A c \in Block \ {b} : work'[c] = work[c]
  BY Zenon, <1>1 DEF WorldInv, EngineInv
<1>3. b # NoBlock /\ tip = b /\ stored[b] # NoBlock
  BY Zenon, <1>1, BlockAssumption DEF WorldInv, EngineInv
<1>4. IsTrie(stored[b].State) /\ stored[b].State \in txRoot \cup cleaned
  BY Zenon, <1>3 DEF WorldInv, StoredAt, Known
<1>5. /\ IsTrie(state')
      /\ state' = stored[tip].State \/ stored[tip].State \in cleaned
  <2>1. IsTrie(state)
    BY Zenon DEF WorldInv, EngineInv
  <2>2. CASE stored[b].State \in txRoot /\ state' = stored[b].State
    BY Zenon, <1>3, <1>4, <2>2
  <2>3. CASE stored[b].State \notin txRoot /\ state' = state
    BY Zenon, <1>3, <1>4, <2>1, <2>3
  <2> QED
    BY Zenon, <2>2, <2>3 DEF RebaseState
<1>6. Grows
  BY Zenon, <1>1 DEF Grows, Known
<1>7. EngineInv'
  BY Zenon, <1>1, <1>2, <1>3, <1>5 DEF WorldInv, EngineInv
<1>8. StoredAt(b)'
  BY Zenon, <1>3, <1>6, KeepStored DEF WorldInv
<1>9. WorkAt(b)'
  BY Zenon, <1>2 DEF WorkAt
<1> QED
  BY Zenon, <1>1, <1>2, <1>6, <1>7, <1>8, <1>9, OneBlock

\* WorldInv is inductive.
LEMMA WorldInvNext ==
  WorldInv /\ [Next]_vars => WorldInv'
<1> SUFFICES ASSUME WorldInv, [Next]_vars PROVE WorldInv'
  BY Zenon
<1>1. ASSUME NEW b \in Block \ {Genesis},
             \/ DecodeNetworkBlock(b) \/ NewCandidateBlock(b) \/ MineCandidateBlock(b)
             \/ \E k \in Key : PersistState(b, k)
             \/ CheckNetworkBlockPoW(b) \/ AddMinedBlock(b) \/ AcceptNetworkBlock(b)
             \/ RebaseState(b)
      PROVE  WorldInv'
  BY Zenon, <1>1, DecodeStep, CandidateStep, MineStep, PersistStep, PoWStep, MinedStep, AcceptStep, RebaseStep
<1>2. CASE UNCHANGED vars
  <2>1. /\ txRoot' = txRoot /\ stored' = stored /\ work' = work /\ tip' = tip /\ state' = state
        /\ lock' = lock /\ cleaned' = cleaned /\ bounds' = bounds
    BY Zenon, <1>2 DEF vars
  <2>2. Grows
    BY Zenon, <2>1 DEF Grows, Known
  <2>3. EngineInv'
    BY Zenon, <2>1 DEF WorldInv, EngineInv
  <2>4. Genesis \in Block /\ StoredAt(Genesis)' /\ WorkAt(Genesis)'
    <3>1. Genesis \in Block
      BY Zenon, BlockAssumption
    <3>2. StoredAt(Genesis)'
      BY Zenon, <2>1, <2>2, <3>1, KeepStored DEF WorldInv, StoredAt
    <3>3. WorkAt(Genesis)'
      BY Zenon, <2>1, <2>2, <3>1, KeepWork DEF WorldInv
    <3> QED
      BY Zenon, <3>1, <3>2, <3>3
  <2> QED
    BY Zenon, <2>1, <2>2, <2>3, <2>4, OneBlock
<1> QED
  BY Zenon, <1>1, <1>2 DEF Next

-----------------------------------------------------------------------------
(* The roots that Cleanup removes *)

\* A write of the value a key has already leaves the root as it is.
LEMMA WrittenSame ==
  ASSUME NEW root, IsTrie(root), NEW k \in Key, NEW value,
         LookupDepthFirst(root, MakeHex(k)) = value
  PROVE  Written(root, k, value) = root
<1> DEFINE hex == MakeHex(k)
           new == Written(root, k, value)
<1>1. /\ IsTrie(new)
      /\ \A p \in Seq(Nibble) :
           /\ Len(p) > 2 * Len(k) => At(new, p) = At(root, p)
           /\ At(new, p) # Null <=> At(root, p) # Null \/ (value # NoValue /\ Pre(p, hex))
           /\ LookupDepthFirst(new, p) = IF p = hex THEN value ELSE LookupDepthFirst(root, p)
  BY WrittenFact
<1>2. hex \in Seq(Nibble)
  BY Zenon, HexFact
<1> HIDE DEF new
<1>3. \A p \in Seq(Nibble) : LookupDepthFirst(new, p) = LookupDepthFirst(root, p)
  BY Zenon, <1>1
<1>4. ASSUME NEW p \in Seq(Nibble), value # NoValue, Pre(p, hex) PROVE At(root, p) # Null
  <2>1. At(root, hex) # Null
    BY Zenon, <1>4 DEF LookupDepthFirst, At
  <2> QED
    BY Zenon, <1>2, <1>4, <2>1, PathPresent
<1>5. \A p \in Seq(Nibble) : At(new, p) = Null <=> At(root, p) = Null
  BY Zenon, <1>1, <1>4
<1> DEFINE M == 2 * Len(k) + 1
<1>6. M \in Nat /\ \A p \in Seq(Nibble) : Len(p) >= M => Len(p) > 2 * Len(k)
  BY TrieAssumption
<1>7. \A p \in Seq(Nibble) : Len(p) >= M => At(new, p) = At(root, p)
  BY Zenon, <1>1, <1>6
<1> HIDE DEF M
<1>8. new = root
  BY <1>1, <1>3, <1>5, <1>6, <1>7, Extensional
<1> QED
  BY Zenon, <1>8 DEF new

\* A root half way is one of those the writes pass through, unless it is the
\* first or the last of them.
LEMMA BetweenFact ==
  ASSUME NEW start, IsTrie(start), NEW w, DOMAIN w \in SUBSET Key, IsFiniteSet(DOMAIN w),
         NEW S \in SUBSET DOMAIN w, NEW r, Holds(r, start, w, S), r # start,
         NEW k \in DOMAIN w, LookupDepthFirst(r, MakeHex(k)) # w[k]
  PROVE  r \in Between(start, w)
<1> DEFINE v == [l \in S |-> w[l]]
<1>1. DOMAIN v = S /\ (\A l \in S : v[l] = w[l]) /\ S \in SUBSET Key /\ IsFiniteSet(S)
  BY Zenon, FS_Subset
<1> HIDE DEF v
<1>2. Holds(r, start, v, S)
  BY Zenon, <1>1 DEF Holds
<1>3. Computed(start, v) = {r}
  BY Zenon, <1>1, <1>2, ComputedFact
<1>4. r \notin Computed(start, w)
  <2>1. ASSUME NEW order \in Orders(DOMAIN w) PROVE Applied(start, w, order) # r
    <3>1. Holds(Applied(start, w, order), start, w, DOMAIN w)
      BY Zenon, AppliedHolds
    <3> QED
      BY Zenon, <3>1 DEF Holds
  <2> QED
    BY Zenon, <2>1 DEF Computed
<1> DEFINE passed == UNION {Computed(start, [l \in T |-> w[l]]) : T \in SUBSET DOMAIN w}
<1>5. r \in passed
  BY Zenon, <1>3 DEF v
<1>6. Between(start, w) = passed \ ({start} \cup Computed(start, w))
  BY Zenon DEF Between
<1> HIDE DEF passed
<1> QED
  BY Zenon, <1>4, <1>5, <1>6

\* A block that may still write has its start root with the writes made so far;
\* the first that changes the root is the one after which Cleanup is called.
From(roots, x, start) ==
  LET w == x.block.writes
      done == DOMAIN w \ x.todo
  IN  /\ IsTrie(start) /\ Between(start, w) \subseteq roots
      /\ Holds(x.root, start, w, done)
      /\ x.skipped \in {"no", "yes"}
      /\ x.skipped = "no" => x.root = start
      /\ x.skipped = "yes" => \E k \in done : LookupDepthFirst(start, MakeHex(k)) # w[k]

FromAt(b) ==
  work[b] # NoBlock /\ work[b].stage \in {"fill", "mine", "pow"} =>
    \E start : From(transient, work[b], start)

TransientInv == cleaned \subseteq transient /\ \A b \in Block : FromAt(b)

\* A step that begins no block leaves the others as they are.
LEMMA KeepFrom ==
  ASSUME transient \subseteq transient', NEW b \in Block, FromAt(b), work'[b] = work[b]
  PROVE  FromAt(b)'
<1> SUFFICES ASSUME work[b] # NoBlock, work[b].stage \in {"fill", "mine", "pow"}
             PROVE  \E start : From(transient', work[b], start)
  BY Zenon DEF FromAt
<1>1. PICK start : From(transient, work[b], start)
  BY Zenon DEF FromAt
<1>2. From(transient', work[b], start)
  BY Zenon, <1>1 DEF From
<1> QED
  BY Zenon, <1>2

\* A block begins with nothing written.
LEMMA FromStart ==
  ASSUME NEW root, IsTrie(root), NEW w, NEW x, x.root = root, x.todo = DOMAIN w,
         x.skipped = "no", x.block.writes = w, Between(root, w) \subseteq transient'
  PROVE  From(transient', x, root)
<1>1. Holds(root, root, w, DOMAIN w \ DOMAIN w)
  BY Zenon, HoldsNothing
<1> QED
  BY Zenon, <1>1 DEF From

\* A block begins: the roots its writes pass through are noted.
LEMMA TransientEnter ==
  ASSUME WorldInv, TransientInv, NEW b \in Block, NEW p, NEW w, NEW root, NEW claimed, NEW stage,
         IsTrie(root),
         work' = [work EXCEPT ![b] =
           [stage |-> stage, root |-> root, todo |-> DOMAIN w, skipped |-> "no",
            block |-> NewBlock(p, w, claimed)]],
         transient' = transient \cup Between(root, w), cleaned' = cleaned
  PROVE  TransientInv'
<1> DEFINE x == [stage |-> stage, root |-> root, todo |-> DOMAIN w, skipped |-> "no",
                 block |-> NewBlock(p, w, claimed)]
<1>2. work'[b] = x /\ \A c \in Block \ {b} : work'[c] = work[c]
  BY Zenon DEF WorldInv, EngineInv
<1>3. x.root = root /\ x.todo = DOMAIN w /\ x.skipped = "no" /\ x.block.writes = w
  BY Zenon DEF NewBlock
<1> HIDE DEF x
<1>4. From(transient', x, root)
  BY Zenon, <1>3, FromStart
<1>5. FromAt(b)'
  BY Zenon, <1>2, <1>4 DEF FromAt
<1>6. ASSUME NEW c \in Block \ {b} PROVE FromAt(c)'
  BY Zenon, <1>2, KeepFrom DEF TransientInv
<1> QED
  BY Zenon, <1>5, <1>6 DEF TransientInv

\* processNetworkBlock begins at the parent's root.
LEMMA TransientDecode ==
  ASSUME WorldInv, TransientInv, NEW b \in Block, DecodeNetworkBlock(b)
  PROVE  TransientInv'
<1>1. PICK p \in Block, w \in Writes :
        /\ stored[p] # NoBlock
        /\ \E claimed \in Computed(stored[p].State, w) \cup {EmptyNode} :
             work' = [work EXCEPT ![b] =
               [stage |-> "pow", root |-> stored[p].State, todo |-> DOMAIN w, skipped |-> "no",
                block |-> NewBlock(p, w, claimed)]]
        /\ transient' = transient \cup Between(stored[p].State, w)
        /\ cleaned' = cleaned
  BY Zenon DEF DecodeNetworkBlock
<1>2. PICK claimed :
             work' = [work EXCEPT ![b] =
               [stage |-> "pow", root |-> stored[p].State, todo |-> DOMAIN w, skipped |-> "no",
                block |-> NewBlock(p, w, claimed)]]
  BY Zenon, <1>1
<1>3. IsTrie(stored[p].State)
  BY Zenon, <1>1 DEF WorldInv, StoredAt
<1> QED
  BY Zenon, <1>1, <1>2, <1>3, TransientEnter

\* NewCandidateBlock begins at the engine's root.
LEMMA TransientCandidate ==
  ASSUME WorldInv, TransientInv, NEW b \in Block, NewCandidateBlock(b)
  PROVE  TransientInv'
<1>1. PICK w \in Writes :
        /\ work' = [work EXCEPT ![b] =
             [stage |-> "fill", root |-> state, todo |-> DOMAIN w, skipped |-> "no",
              block |-> NewBlock(tip, w, state)]]
        /\ transient' = transient \cup Between(state, w)
        /\ cleaned' = cleaned
  BY Zenon DEF NewCandidateBlock
<1>2. IsTrie(state)
  BY Zenon DEF WorldInv, EngineInv
<1> QED
  BY Zenon, <1>1, <1>2, TransientEnter

\* persistState cleans up a root after a write that changed it, and only if an
\* earlier write did: neither the root it started from nor the last one.
LEMMA TransientPersist ==
  ASSUME WorldInv, TransientInv, NEW b \in Block, NEW k \in Key, PersistState(b, k)
  PROVE  TransientInv'
<1> DEFINE old == work[b].root
           w == work[b].block.writes
           new == Written(old, k, w[k])
           gone == IF new # old /\ work[b].skipped = "yes" THEN {old} ELSE {}
           done == DOMAIN w \ work[b].todo
<1>1. /\ work[b] # NoBlock /\ work[b].stage \in {"mine", "pow"} /\ k \in work[b].todo
      /\ work' = [work EXCEPT ![b].root = new, ![b].todo = @ \ {k},
                              ![b].skipped = IF new = old THEN @ ELSE "yes"]
      /\ cleaned' = cleaned \cup gone /\ transient' = transient
  BY Zenon DEF PersistState
<1>2. /\ IsWork(work[b]) /\ DOMAIN w \subseteq Key /\ IsFiniteSet(DOMAIN w)
      /\ work[b].todo \subseteq DOMAIN w /\ IsTrie(old)
  BY Zenon, <1>1 DEF WorldInv, WorkAt, IsBlock
<1>3. PICK start : From(transient, work[b], start)
  BY Zenon, <1>1 DEF TransientInv, FromAt
<1>4. /\ IsTrie(start) /\ Between(start, w) \subseteq transient /\ Holds(old, start, w, done)
      /\ work[b].skipped \in {"no", "yes"}
      /\ work[b].skipped = "no" => old = start
      /\ work[b].skipped = "yes" => \E l \in done : LookupDepthFirst(start, MakeHex(l)) # w[l]
  BY Zenon, <1>3 DEF From
<1>5. new # old => LookupDepthFirst(old, MakeHex(k)) # w[k]
  BY Zenon, <1>2, WrittenSame
<1> HIDE DEF new
<1>6. gone \subseteq transient
  <2> SUFFICES ASSUME new # old, work[b].skipped = "yes" PROVE old \in transient
    BY Zenon
  <2>1. old # start
    BY Zenon, <1>4 DEF Holds
  <2>2. old \in Between(start, w)
    <3>1. done \in SUBSET DOMAIN w /\ k \in DOMAIN w /\ DOMAIN w \in SUBSET Key
      BY Zenon, <1>1, <1>2
    <3> HIDE DEF done, w, old
    <3> QED
      BY Zenon, <1>2, <1>4, <1>5, <2>1, <3>1, BetweenFact
  <2> QED
    BY Zenon, <1>4, <2>2
<1> DEFINE x == work'[b]
<1>7. /\ x.root = new /\ x.todo = work[b].todo \ {k} /\ x.block = work[b].block
      /\ x.skipped = IF new = old THEN work[b].skipped ELSE "yes"
      /\ \A c \in Block \ {b} : work'[c] = work[c]
  <2>1. /\ x = [work[b] EXCEPT !.root = new, !.todo = work[b].todo \ {k},
                               !.skipped = IF new = old THEN work[b].skipped ELSE "yes"]
        /\ \A c \in Block \ {b} : work'[c] = work[c]
    BY ZenonT(60), <1>1 DEF WorldInv, EngineInv
  <2> HIDE DEF x
  <2>2. /\ "root" \in DOMAIN work[b] /\ "todo" \in DOMAIN work[b]
        /\ "skipped" \in DOMAIN work[b]
    BY SMTT(30), <1>2 DEF IsWork
  <2> QED
    BY SMTT(30), <2>1, <2>2
<1> HIDE DEF x
<1>8. From(transient', x, start)
  <2>1. DOMAIN w \ (work[b].todo \ {k}) = done \cup {k} /\ done \in SUBSET Key
    BY Zenon, <1>1, <1>2
  <2>2. Holds(new, start, w, done \cup {k})
    BY Zenon, <1>4, <2>1, HoldsWrite DEF new
  <2>3. (IF new = old THEN work[b].skipped ELSE "yes") = "no" => new = start
    BY SMTT(30), <1>4
  <2>4. ASSUME (IF new = old THEN work[b].skipped ELSE "yes") = "yes"
        PROVE  \E l \in done \cup {k} : LookupDepthFirst(start, MakeHex(l)) # w[l]
    <3>1. CASE work[b].skipped = "yes"
      BY Zenon, <1>4, <3>1
    <3>2. CASE work[b].skipped # "yes"
      <4>1. new # old /\ old = start
        BY SMTT(30), <1>4, <2>4, <3>2
      <4> QED
        BY Zenon, <1>5, <4>1
    <3> QED
      BY Zenon, <3>1, <3>2
  <2>5. (IF new = old THEN work[b].skipped ELSE "yes") \in {"no", "yes"}
    BY SMTT(30), <1>4
  <2> HIDE DEF done
  <2> QED
    BY Zenon, <1>1, <1>4, <1>7, <2>1, <2>2, <2>3, <2>4, <2>5 DEF From
<1>9. FromAt(b)'
  BY Zenon, <1>8 DEF FromAt, x
<1>10. ASSUME NEW c \in Block \ {b} PROVE FromAt(c)'
  BY Zenon, <1>1, <1>7, KeepFrom DEF TransientInv
<1> QED
  BY Zenon, <1>1, <1>6, <1>9, <1>10 DEF TransientInv

\* The other steps write no variable of any block.
LEMMA TransientRest ==
  ASSUME WorldInv, TransientInv, NEW b \in Block,
         \/ MineCandidateBlock(b) \/ CheckNetworkBlockPoW(b) \/ AddMinedBlock(b)
         \/ AcceptNetworkBlock(b) \/ RebaseState(b)
  PROVE  TransientInv'
<1>1. cleaned' = cleaned /\ transient' = transient
  BY Zenon DEF MineCandidateBlock, CheckNetworkBlockPoW, AddMinedBlock, AcceptNetworkBlock, RebaseState
<1>2. ASSUME NEW c \in Block \ {b} PROVE FromAt(c)'
  <2>1. work'[c] = work[c]
    BY Zenon DEF MineCandidateBlock, CheckNetworkBlockPoW, AddMinedBlock, AcceptNetworkBlock,
                 RebaseState, AddValidatedBlock, WorldInv, EngineInv
  <2> QED
    BY Zenon, <1>1, <2>1, KeepFrom DEF TransientInv
<1>3. FromAt(b)'
  <2>1. CASE MineCandidateBlock(b)
    <3>1. /\ work[b] # NoBlock /\ work[b].stage = "fill"
          /\ work' = [work EXCEPT ![b].stage = "mine"]
      BY Zenon, <2>1 DEF MineCandidateBlock
    <3>2. PICK start : From(transient, work[b], start)
      BY Zenon, <3>1 DEF TransientInv, FromAt
    <3>3. work'[b] = [work[b] EXCEPT !.stage = "mine"] /\ IsWork(work[b])
      BY Zenon, <3>1 DEF WorldInv, EngineInv, WorkAt
    <3>4. /\ work'[b].root = work[b].root /\ work'[b].todo = work[b].todo
          /\ work'[b].block = work[b].block /\ work'[b].skipped = work[b].skipped
      BY Zenon, <3>3 DEF IsWork
    <3>5. From(transient', work'[b], start)
      BY Zenon, <1>1, <3>2, <3>4 DEF From
    <3> QED
      BY Zenon, <3>5 DEF FromAt
  <2>2. CASE ~MineCandidateBlock(b)
    <3>1. work'[b] = NoBlock \/ work'[b].stage \in {"accept", "rebase"}
      <4>1. work[b] # NoBlock => IsWork(work[b])
        BY Zenon DEF WorldInv, WorkAt
      <4>2. b # NoBlock
        BY Zenon, BlockAssumption
      <4>3. work[b] # NoBlock
        BY Zenon, <2>2, <4>2 DEF CheckNetworkBlockPoW, AddMinedBlock, AcceptNetworkBlock,
                                 RebaseState, WorldInv, EngineInv
      <4>4. \/ work' = [work EXCEPT ![b] = NoBlock]
            \/ work' = [work EXCEPT ![b].stage = "accept"]
            \/ work' = [work EXCEPT ![b].stage = "rebase"]
        BY Zenon, <2>2 DEF CheckNetworkBlockPoW, AddMinedBlock, AcceptNetworkBlock,
                           RebaseState, AddValidatedBlock
      <4>5. \/ work'[b] = NoBlock
            \/ work'[b] = [work[b] EXCEPT !.stage = "accept"]
            \/ work'[b] = [work[b] EXCEPT !.stage = "rebase"]
        BY Zenon, <4>4 DEF WorldInv, EngineInv
      <4> QED
        BY Zenon, <4>1, <4>3, <4>5 DEF IsWork
    <3> QED
      BY Zenon, <3>1 DEF FromAt
  <2> QED
    BY Zenon, <2>1, <2>2
<1> QED
  BY Zenon, <1>1, <1>2, <1>3 DEF TransientInv

-----------------------------------------------------------------------------
(* Theorems *)

\* In every reachable state each stored block has a trie that shows its view, and
\* each block in work has its parent's trie with the writes made so far.
THEOREM Invariance ==
  Spec => []WorldInv
BY WorldInvInit, WorldInvNext, PTL DEF Spec

\* The root persistState computes does not depend on the order in which it ranges
\* over the block's variables: AcceptNetworkBlock refuses no honest block with
\* ERR_STATE_INCORRECT, for any keys, values, radix and number of blocks.
THEOREM ComputedStateMatchesHolds ==
  Spec => []ComputedStateMatches
<1>1. WorldInv => ComputedStateMatches
  <2> SUFFICES ASSUME WorldInv, NEW b \in Block, work[b] # NoBlock, work[b].stage = "accept"
               PROVE  Computed(stored[work[b].block.parent].State, work[b].block.writes) = {work[b].root}
    BY Zenon DEF ComputedStateMatches
  <2> DEFINE block == work[b].block
  <2>1. /\ IsBlock(block) /\ block.parent \in Block /\ stored[block.parent] # NoBlock
        /\ Holds(work[b].root, stored[block.parent].State, block.writes, DOMAIN block.writes \ {})
    BY Zenon DEF WorldInv, WorkAt
  <2>2. IsTrie(stored[block.parent].State)
    BY Zenon, <2>1 DEF WorldInv, StoredAt
  <2>3. DOMAIN block.writes \ {} = DOMAIN block.writes
    BY Zenon
  <2> HIDE DEF block
  <2>4. Computed(stored[block.parent].State, block.writes) = {work[b].root}
    BY SMTT(30), <2>1, <2>2, <2>3, ComputedFact DEF IsBlock
  <2> QED
    BY Zenon, <2>4 DEF block
<1> QED
  BY <1>1, Invariance, PTL

\* A lookup in a stored block's world state finds what the block and its ancestors
\* wrote last, however the writes of blocks interleave in the shared tables.
THEOREM WorldViewsHold ==
  Spec => []WorldViews
<1>1. WorldInv => WorldViews
  BY Zenon DEF WorldInv, StoredAt, WorldViews, Clean
<1> QED
  BY <1>1, Invariance, PTL

\* With the lock free the engine's world state is the tip's, unless Cleanup of a
\* transient root took the tip's.
THEOREM StateFollowsTipHolds ==
  Spec => []StateFollowsTip
<1>1. WorldInv => StateFollowsTip
  BY Zenon DEF WorldInv, EngineInv, StateFollowsTip
<1> QED
  BY <1>1, Invariance, PTL

\* Cleanup removes transient roots only.
LEMMA TransientHolds ==
  Spec => []TransientInv
<1>1. Init => TransientInv
  BY Zenon DEF Init, TransientInv, FromAt
<1>2. WorldInv /\ TransientInv /\ [Next]_vars => TransientInv'
  <2> SUFFICES ASSUME WorldInv, TransientInv, [Next]_vars PROVE TransientInv'
    BY Zenon
  <2>1. CASE Next
    BY Zenon, <2>1, TransientDecode, TransientCandidate, TransientPersist, TransientRest DEF Next
  <2>2. CASE UNCHANGED vars
    <3>1. work' = work /\ cleaned' = cleaned /\ transient' = transient
      BY Zenon, <2>2 DEF vars
    <3> QED
      BY Zenon, <3>1, KeepFrom DEF TransientInv
  <2> QED
    BY Zenon, <2>1, <2>2
<1> QED
  BY <1>1, <1>2, Invariance, PTL DEF Spec

\* The root of a stored block is lost in no other way than by a block whose writes
\* pass through it: a child of it finds the world state to start from.
THEOREM StatesAvailableHolds ==
  Spec => []StatesAvailable
<1>1. WorldInv /\ TransientInv => StatesAvailable
  BY Zenon DEF WorldInv, StoredAt, StatesAvailable, Known, TransientInv
<1> QED
  BY <1>1, Invariance, TransientHolds, PTL
=============================================================================
