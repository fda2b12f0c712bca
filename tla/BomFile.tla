------------------------------- MODULE BomFile -------------------------------
(***************************************************************************)
(* A BOM file with its contents: the layout of BomLayout, what is in each  *)
(* block, and the variables.  The operations of bom.c and bom_tree.c are   *)
(* functions from a file to a file, so that the code that calls them can   *)
(* be modelled as a sequence of calls.  Blocks are numbered from 0, as in  *)
(* the code.  That the bytes of a block survive the other operations is    *)
(* what BomBytes shows; that a search ends where the key fits is what      *)
(* BomTree shows.                                                          *)
(***************************************************************************)
EXTENDS BomLayout, BomLeaf, KeyOrder

CONSTANTS
  NodeSize,         \* bytes of an empty leaf: 4096 in the code
  NameLength(_)     \* the length of a variable's name

TreeSize == 21      \* struct bom_tree

EmptyFile == [layout |-> EmptyLayout, blocks |-> << >>, variables |-> << >>]

NoContent == [bytes |-> << >>]

(* The number that the next block gets. *)
Count(b) == Len(b.blocks)

Block(b, i)    == b.blocks[i + 1]
LengthOf(b, i) == b.layout.entries[i + 1].length

WithRoom(b, n) == [b EXCEPT !.layout = IndexReserve(b.layout, n)]

WithBlock(b, content, length) ==
  [b EXCEPT !.layout = IndexAdd(b.layout, length), !.blocks = Append(b.blocks, content)]

WithVacant(b, n) ==
  [b EXCEPT !.layout = FreeIndicesAdd(b.layout, n),
            !.blocks = b.blocks \o [k \in 1..n |-> NoContent]]

Lengthened(b, i, length) == [b EXCEPT !.layout = IndexAppend(b.layout, i + 1, length)]

WithVariable(b, name, i) ==
  [b EXCEPT !.layout = VariableAdd(b.layout, NameLength(name)),
            !.variables = Append(b.variables, [name |-> name, index |-> i])]

WithTrailerMoved(b) == [b EXCEPT !.layout = RelocateTrailer(b.layout)]

(* The index of the first variable of that name, or -1. *)
VariableGet(b, name) ==
  LET hits == {k \in DOMAIN b.variables : b.variables[k].name = name}
  IN IF hits = {} THEN -1 ELSE b.variables[Min(hits)].index

(* bom_index_get finds data for every number below the count, the vacant   *)
(* ones too, unless the entry reaches out of the file.                     *)
Resolves(b, i) ==
  i \in 0 .. Count(b) - 1 /\ BlockEnd(b.layout.entries[i + 1]) <= b.layout.size

-----------------------------------------------------------------------------
(* Trees.  A node holds its entries as pairs of block numbers. *)

Node(isLeaf, entries, forward, backward) ==
  [is_leaf |-> isLeaf, entries |-> entries, forward |-> forward, backward |-> backward]

EmptyLeaf == Node(TRUE, << >>, 0, 0)

(* mutant: the child is the tree's own block *)
ChildOfItself(b) == Count(b) + 1

(* The leaf is the block that is added first. *)
ChildOfEmpty(b) == Count(b)

(* An empty leaf, the tree that has it as its child, and the variable. *)
TreeAllocEmpty(b, name) ==
  LET leaf == WithBlock(b, EmptyLeaf, NodeSize)
      tree == WithBlock(leaf, [child |-> ChildOfEmpty(b), path_count |-> 0], TreeSize)
  IN WithVariable(tree, name, Count(leaf))

TreeIndex(b, name) == VariableGet(b, name)
ChildIndex(b, name) == Block(b, TreeIndex(b, name)).child

TreeReserve(b, name, count) ==
  LET child == ChildIndex(b, name)
  IN Lengthened(b, child, Reserved(LengthOf(b, child), count) - LengthOf(b, child))

KeyOf(b, e) == Block(b, e.key).bytes

(* mutant: always behind the last entry *)
AtTheEnd(b, name, key) == {Len(Block(b, ChildIndex(b, name)).entries)}

(* Where the search may end: between neighbours that the key fits.  Which  *)
(* of them, among entries with equal keys, depends on the search.          *)
Places(b, name, key) ==
  LET entries == Block(b, ChildIndex(b, name)).entries
  IN {p \in 0 .. Len(entries) :
        /\ \A k \in 1..p : CompareKeys(KeyOf(b, entries[k]), key) <= 0
        /\ \A k \in p + 1 .. Len(entries) : CompareKeys(key, KeyOf(b, entries[k])) <= 0}

(* bom_tree_add: the key and the value become blocks, the leaf gets longer *)
(* if the test says so, and the entry goes into place.                     *)
TreeAdd(b, name, key, value, valueLength, place) ==
  LET added == WithBlock(WithBlock(b, [bytes |-> key], Len(key)), value, valueLength)
      child == ChildIndex(b, name)
      root  == Block(b, TreeIndex(b, name))
      leaf  == Block(b, child)
      more  == Grown(Len(leaf.entries), LengthOf(b, child)) - LengthOf(b, child)
      grown == IF more > 0 THEN Lengthened(added, child, more) ELSE added
      entry == [value |-> Count(b) + 1, key |-> Count(b)]
  IN [grown EXCEPT !.blocks =
        [grown.blocks EXCEPT
           ![TreeIndex(b, name) + 1] = [root EXCEPT !.path_count = root.path_count + 1],
           ![child + 1] = [leaf EXCEPT !.entries = With(leaf.entries, place, entry)]]]

(* What bom_tree_iterate meets, in a tree that bom_tree_alloc_empty made:   *)
(* its child stays a leaf, and no other leaf follows it.                   *)
EntriesOfTree(b, name) == Block(b, ChildIndex(b, name)).entries
=============================================================================
