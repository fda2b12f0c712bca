----------------------- MODULE MCVariablePassthrough -----------------------
(* A file with an opaque variable, one that the writer manages, one whose   *)
(* block is missing, and two trees.  The first tree has up to three leaves, *)
(* under a root or without one, numbered in either order, in a line or in a *)
(* ring; leaves share keys and values, with each other and with the second  *)
(* tree.  Block 0 is vacant.                                                *)
EXTENDS VariablePassthrough

Data(value) == [kind |-> "data", value |-> value]
Tree(child) == [kind |-> "tree", child |-> child]
Node(is_leaf, slots, forward, backward) ==
  [kind |-> "node", is_leaf |-> is_leaf, slots |-> slots,
   forward |-> forward, backward |-> backward]
Slot(value, key, literal) == [value |-> value, key |-> key, literal |-> literal]

(* Blocks: 0 vacant, 1 header, 2 opaque, 3 first tree, 4 its root, then n   *)
(* leaves, three keys and values, and the second tree's leaf and header.    *)
File(n, root, ring, descending, literal) ==
  LET Leaf(j) == IF descending THEN 5 + n - j ELSE 4 + j
      first == IF n = 0 THEN 0 ELSE Leaf(1)
      ForwardOf(j)  == IF j < n THEN Leaf(j + 1) ELSE IF ring THEN Leaf(1) ELSE 0
      BackwardOf(j) == IF j > 1 THEN Leaf(j - 1) ELSE IF ring THEN Leaf(n) ELSE 0
      SlotsOf(j) == << Slot(n + 5 + (j % 2), n + 7, FALSE), Slot(n + 7, literal + j, TRUE) >>
      leaves == [b \in 1 .. n |->
                   LET j == IF descending THEN n + 1 - b ELSE b
                   IN Node(TRUE, SlotsOf(j), ForwardOf(j), BackwardOf(j))]
      rootSlots == [j \in 1 .. n |-> Slot(Leaf(j), n + 7, FALSE)]
  IN [blocks |->
        << Data("vacant"), Data("header"), Data("opaque"),
           Tree(IF root = 0 THEN first ELSE 4),
           Node(FALSE, SubSeq(rootSlots, 1, Min({n, root - 1})), 0, 0) >>
        \o leaves
        \o << Data("x"), Data("y"), Data("z"),
              Node(TRUE, << Slot(n + 5, n + 5, FALSE) >>, 0, 0), Tree(n + 8) >>,
      variables |->
        << [name |-> "B", index |-> 2], [name |-> "CARHEADER", index |-> 1],
           [name |-> "A", index |-> 3], [name |-> "C", index |-> 90],
           [name |-> "D", index |-> n + 9] >>]

(* root: 0 for none, 1 for one without slots, 2 and 3 for one and two, if *)
(* there are that many leaves                                               *)
SomeFiles ==
  {File(n, root, ring, descending, 1000) :
     n \in 0 .. 3, root \in 0 .. 3, ring \in BOOLEAN, descending \in BOOLEAN}

WrittenFile ==
  [blocks |-> << Data("vacant"), Data("new header"), Node(TRUE, << >>, 0, 0), Tree(2) >>,
   variables |-> << [name |-> "CARHEADER", index |-> 1], [name |-> "RENDITIONS", index |-> 3] >>]
=============================================================================
