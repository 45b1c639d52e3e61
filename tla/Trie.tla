-------------------------------- MODULE Trie --------------------------------
(***************************************************************************)
(* The trie under a world state (core/trie/trieImpl.go), as functions of a *)
(* root node.                                                              *)
(*                                                                         *)
(* A node is found in the database by its hash, which covers its value and *)
(* its index but not its tombstone.  The hash of a node is the node itself *)
(* here: equal hashes mean equal nodes.                                    *)
(***************************************************************************)
EXTENDS Naturals, Sequences

CONSTANTS
  Radix,      \* 16 in the code: a node has one index entry per nibble
  Key,        \* keys: sequences of bytes, a byte is below Radix * Radix
  Value,      \* non-empty values
  NoValue     \* a nil or empty value

ASSUME TrieAssumption ==
  /\ Radix \in Nat \ {0}
  /\ Key \subseteq Seq(0 .. Radix * Radix - 1)
  /\ NoValue \notin Value

\* null: the hash of nothing, which no node has.
Null == <<>>

\* makeHex: a byte is two nibbles, the high one first.
MakeHex(data) ==
  [i \in 1 .. 2 * Len(data) |->
     LET b == data[(i + 1) \div 2] IN IF i % 2 = 1 THEN b \div Radix ELSE b % Radix]

EmptyNode == [Idxs |-> [n \in 0 .. Radix - 1 |-> Null], Value |-> NoValue]

\* The nodes on the way from root along a key, Null where there is none.
Walk(root, keyHex) ==
  LET at[i \in 0 .. Len(keyHex)] ==
        IF i = 0 THEN root
        ELSE LET n == at[i - 1] IN IF n = Null THEN Null ELSE n.Idxs[keyHex[i]]
  IN  at

LookupDepthFirst(root, keyHex) ==
  LET leaf == Walk(root, keyHex)[Len(keyHex)]
  IN  IF leaf = Null THEN NoValue ELSE leaf.Value

\* updateDepthFirst: the new root, each node on the way replaced by a copy that
\* points to the new node below it.
UpdateDepthFirst(root, keyHex, value) ==
  LET at == Walk(root, keyHex)
      \* the new node at i nibbles before the end of the key
      new[i \in 0 .. Len(keyHex)] ==
        LET d == Len(keyHex) - i
            old == IF at[d] = Null THEN EmptyNode ELSE at[d]
        IN  IF i = 0 THEN [old EXCEPT !.Value = value]
            ELSE LET below == new[i - 1] IN [old EXCEPT !.Idxs[keyHex[d + 1]] = below]
  IN  new[Len(keyHex)]

\* deleteDepthFirst: no change when the way to the key ends early.
DeleteDepthFirst(root, keyHex) ==
  IF Walk(root, keyHex)[Len(keyHex)] = Null THEN root
  ELSE UpdateDepthFirst(root, keyHex, NoValue)
=============================================================================
