------------------------------- MODULE BomLeaf -------------------------------
(***************************************************************************)
(* One leaf of a BOM tree: the bytes it needs, and how an entry goes into  *)
(* it.                                                                     *)
(***************************************************************************)
EXTENDS Integers, Sequences

LeafHeaderSize == 12    \* struct bom_tree_entry
SlotSize       == 8     \* struct bom_tree_entry_indexes

(* mutant: the size of a slot is left out *)
ReservedBytes(bytes, count) == bytes + count

(* The length of the leaf's block after bom_tree_reserve. *)
Reserved(bytes, count) == bytes + SlotSize * count

(* Its length after the test for one more entry than n.  The test leaves   *)
(* out the header of the leaf.                                             *)
Grown(n, bytes) == IF (n + 1) * SlotSize > bytes THEN bytes + SlotSize ELSE bytes

(* mutant: the entries behind the place are not moved *)
WithOverwritten(s, i, e) == [Append(s, e) EXCEPT ![i + 1] = e]

(* The entries s with e put in behind the first i: those behind it move up  *)
(* by one.                                                                 *)
With(s, i, e) ==
  [k \in 1 .. Len(s) + 1 |-> IF k <= i THEN s[k] ELSE IF k = i + 1 THEN e ELSE s[k - 1]]
=============================================================================
