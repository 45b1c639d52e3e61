---------------------------- MODULE MCWorldState ----------------------------
(* Small instances of WorldState: a node has two index entries, so a byte   *)
(* is 0..3 and two nibbles.                                                 *)
EXTENDS WorldState, TLC

\* The second key continues the first; the third shares its first nibble.
MCPrefix == {<<0>>, <<0, 1>>}
MCFork == {<<0>>, <<1>>}
MCKeys == MCPrefix \cup MCFork

\* Two blocks that write up to two keys, three that write one, and one block
\* that writes up to two of three.
MCTwo == [blocks |-> 2, keys |-> MCPrefix, writes |-> 2]
MCThree == {[blocks |-> 3, keys |-> ks, writes |-> 1] : ks \in {MCPrefix, MCFork}}
MCOne == [blocks |-> 1, keys |-> MCKeys, writes |-> 2]
MCBounds == MCThree \cup {MCTwo, MCOne}
MCTwoOnly == {MCTwo}

\* The names of blocks mean nothing: which of two blocks of one weight wins is
\* left open.
MCSymmetry == Permutations(Block \ {Genesis})
=============================================================================
