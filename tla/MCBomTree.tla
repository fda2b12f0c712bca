------------------------------ MODULE MCBomTree ------------------------------
(* A leaf with room for two entries, byte strings of up to two bytes that   *)
(* are prefixes of one another, equal or neither.                           *)
EXTENDS BomTree, KeyOrder

SomeKeys == { << >>, << 1 >>, << 1, 1 >>, << 2 >> }
SomeReserveCounts == {1, 3}

(* The order of the leaf is that of a dictionary, so that a reader that    *)
(* searches it by key finds what was added.                                *)
ASSUME DictionaryOrder ==
  \A a, b \in SomeKeys : CompareKeys(a, b) <= 0 <=> ~Precedes(b, a)
=============================================================================
