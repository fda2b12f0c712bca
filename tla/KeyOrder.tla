------------------------------- MODULE KeyOrder -------------------------------
(***************************************************************************)
(* The order of the keys in a BOM tree: bytes first, and of two keys that  *)
(* agree as far as the shorter one goes the shorter one first.             *)
(***************************************************************************)
EXTENDS Integers, Sequences, FiniteSetsExt

(* memcmp: the first difference decides. *)
Memcmp(a, b, n) ==
  LET differ == {k \in 1..n : a[k] # b[k]}
      first  == Min(differ)
  IN IF differ = {} THEN 0 ELSE IF a[first] < b[first] THEN -1 ELSE 1

(* What the search of bom_tree_add compares. *)
CompareKeys(key, other) ==
  LET result == Memcmp(key, other, Min({Len(key), Len(other)}))
  IN IF result # 0 THEN result
     ELSE IF Len(key) < Len(other) THEN -1
     ELSE IF Len(key) > Len(other) THEN 1
     ELSE 0

(* The dictionary order, as the reference definition. *)
Precedes(a, b) ==
  \E k \in 0..Len(a) :
    /\ k < Len(b)
    /\ SubSeq(a, 1, k) = SubSeq(b, 1, k)
    /\ k = Len(a) \/ (k < Len(a) /\ a[k + 1] < b[k + 1])
=============================================================================
