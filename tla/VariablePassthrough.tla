------------------------- MODULE VariablePassthrough -------------------------
(***************************************************************************)
(* passthroughUnmanagedVariables: every variable of a source file that the *)
(* writer does not manage is copied into the file that write() has made.   *)
(* A tree is cloned node by node, since the block numbers in it mean       *)
(* nothing in another file.  The recursion of cloneEntry is a stack here,  *)
(* one frame for each call that has not returned.                          *)
(*                                                                         *)
(* Both files are what BlockStore promises: blocks, numbered from 0 as in  *)
(* the code, and variables.  A block is opaque data, a tree header or a    *)
(* node; whether a key slot was meant as a reference or as a literal       *)
(* number is recorded in "literal", which the code cannot see.             *)
(***************************************************************************)
EXTENDS Integers, FiniteSets, SequencesExt

CONSTANTS
  Sources,    \* the source files: [blocks, variables]
  Managed,    \* the names of the variables that the writer manages
  Written     \* the destination as write() leaves it

Numbers(file)  == 0 .. Len(file.blocks) - 1
Block(file, i) == file.blocks[i + 1]

(* A node of a tree: its slots are references, or literals, and the numbers *)
(* of its neighbours, 0 for none.                                          *)
Slots == [value : Nat, key : Nat, literal : BOOLEAN]
Nodes == [kind : {"node"}, is_leaf : BOOLEAN, slots : Seq(Slots),
          forward : Nat, backward : Nat]
Trees == [kind : {"tree"}, child : Nat]

IsFile(file) ==
  file \in [blocks : Seq(ToSet(file.blocks)), variables : Seq(ToSet(file.variables))]

ASSUME FilesAssumption ==
  /\ IsFile(Written) /\ \A s \in Sources : IsFile(s)
  /\ \A s \in Sources :
       /\ \A k \in DOMAIN s.variables : s.variables[k].index \in Nat
       /\ \A b \in ToSet(s.blocks) :
            /\ b.kind = "tree" => b \in Trees
            /\ b.kind = "node" => b \in Nodes
  /\ \A k \in DOMAIN Written.variables : Written.variables[k].name \in Managed
  /\ \A k \in DOMAIN Written.variables : Written.variables[k].index \in Numbers(Written)

(* A variable is found by its name.                                        *)
ASSUME NamesAssumption ==
  \A file \in Sources \cup {Written} : \A i, j \in DOMAIN file.variables :
    i # j => file.variables[i].name # file.variables[j].name

NodesOf(file) == {i \in Numbers(file) : Block(file, i).kind = "node"}
DataOf(file)  == Numbers(file) \ NodesOf(file)

(* The children of the trees that are cloned.                              *)
Children(file) ==
  {Block(file, v.index).child :
     v \in {u \in ToSet(file.variables) :
             /\ u.name \notin Managed /\ u.index \in Numbers(file)
             /\ Block(file, u.index).kind = "tree"}}

(* A leaf is followed by the one that it links forward to, another node by *)
(* that of its first slot.                                                 *)
Following(file, n) ==
  LET node == Block(file, n)
  IN IF node.is_leaf THEN {node.forward} \ {0}
     ELSE {node.slots[k].value : k \in DOMAIN node.slots \cap {1}}

(* The nodes that are met from a child on: those of every set of nodes     *)
(* which has the child and what follows its nodes.                         *)
Reached(file, child) ==
  {n \in NodesOf(file) :
     \A S \in SUBSET NodesOf(file) :
       ({child} \cup UNION {Following(file, m) : m \in S}) \cap NodesOf(file) \subseteq S
         => n \in S}

(* The trees of a source are whole: nodes are followed by nodes, and in a  *)
(* leaf the backward link leads to a node of the tree, the slots refer to  *)
(* blocks that are no nodes, and a literal is no number of a block.        *)
ASSUME TreesAssumption ==
  \A s \in Sources : \A child \in Children(s) : \A n \in Reached(s, child) :
    LET node == Block(s, n)
    IN /\ Following(s, n) \subseteq NodesOf(s)
       /\ node.is_leaf =>
            /\ {node.backward} \ {0} \subseteq Reached(s, child)
            /\ \A slot \in ToSet(node.slots) :
                 /\ slot.value \in DataOf(s)
                 /\ IF slot.literal THEN slot.key \notin Numbers(s) ELSE slot.key \in DataOf(s)

(* And they can be iterated by bom_tree_iterate (bom_tree.c:183-209): block *)
(* 0 is vacant, which stands for no link, the child of a tree without      *)
(* nodes is vacant in both files, and what follows a node is a leaf.       *)
ASSUME IterationAssumption ==
  /\ \A file \in Sources \cup {Written} : 0 \in DataOf(file)
  /\ \A s \in Sources : \A child \in Children(s) :
       /\ child \in NodesOf(s) \cup DataOf(Written)
       /\ \A n \in Reached(s, child) : \A m \in Following(s, n) : Block(s, m).is_leaf

VARIABLES
  source,     \* sourceBom
  dest,       \* destBom
  next,       \* the variable that the iteration of the source is at
  pc,         \* "next", "enter", "run", "return" or "done"
  arg,        \* sourceEntryIndex of the call that is made
  result,     \* what the call that has returned returned
  stack,      \* the calls of cloneEntry that have not returned
  map,        \* _indexMap of the present cloner
  before      \* history: how many blocks dest had when that cloner was made

vars == << source, dest, next, pc, arg, result, stack, map, before >>

Init ==
  /\ source \in Sources /\ dest = Written
  /\ next = 1 /\ pc = "next" /\ arg = 0 /\ result = 0
  /\ stack = << >> /\ map = << >> /\ before = Len(Written.blocks)

-----------------------------------------------------------------------------
(* What the calls of libbom do to the destination. *)

(* mutant: the number that the block after it gets *)
NumberAfter(file) == Len(file.blocks) + 1

NewNumber(file) == Len(file.blocks)

WithBlock(file, block) == [file EXCEPT !.blocks = Append(@, block)]

WithVariable(file, name, i) ==
  [file EXCEPT !.variables = Append(@, [name |-> name, index |-> i])]

(* resolvesAsSourceIndex: bom_index_get finds data for the number. *)
Resolves(i) == i \in Numbers(source)

IsTree(i) == Block(source, i).kind = "tree"
IsNode(i) == Resolves(i) /\ Block(source, i).kind = "node"

-----------------------------------------------------------------------------
(* passthroughVariable, for one variable after the other. *)

Variable == source.variables[next]

(* mutant: those that the writer manages are not left out *)
SkippedUnresolved(v) == ~Resolves(v.index)

Skipped(v) == v.name \in Managed \/ ~Resolves(v.index)

SkipVariable ==
  /\ pc = "next" /\ next <= Len(source.variables)
  /\ Skipped(Variable)
  /\ next' = next + 1
  /\ UNCHANGED << source, dest, pc, arg, result, stack, map, before >>

CopyOpaque ==
  /\ pc = "next" /\ next <= Len(source.variables)
  /\ ~Skipped(Variable) /\ ~IsTree(Variable.index)
  /\ dest' = WithVariable(WithBlock(dest, Block(source, Variable.index)),
                          Variable.name, NewNumber(dest))
  /\ next' = next + 1
  /\ UNCHANGED << source, pc, arg, result, stack, map, before >>

(* cloneTreeVariable up to its call of cloneEntry, with a cloner of its own. *)
BeginTree ==
  /\ pc = "next" /\ next <= Len(source.variables)
  /\ ~Skipped(Variable) /\ IsTree(Variable.index)
  /\ map' = << >> /\ before' = Len(dest.blocks)
  /\ arg' = Block(source, Variable.index).child
  /\ pc' = "enter"
  /\ UNCHANGED << source, dest, next, result, stack >>

(* The rest of cloneTreeVariable. *)
RegisterTree ==
  LET tree == [Block(source, Variable.index) EXCEPT !.child = result]
  IN /\ pc = "return" /\ stack = << >>
     /\ dest' = WithVariable(WithBlock(dest, tree), Variable.name, NewNumber(dest))
     /\ next' = next + 1
     /\ pc' = "next"
     /\ UNCHANGED << source, arg, result, stack, map, before >>

AllVisited ==
  /\ pc = "next" /\ next > Len(source.variables)
  /\ pc' = "done"
  /\ UNCHANGED << source, dest, next, arg, result, stack, map, before >>

-----------------------------------------------------------------------------
(* cloneEntry. *)

Remembered(i, number) ==
  [k \in DOMAIN map \cup {i} |-> IF k = i THEN number ELSE map[k]]

(* The node has been met before: also when its own call has not returned.  *)
EnterKnown ==
  /\ pc = "enter" /\ arg \in DOMAIN map
  /\ result' = map[arg]
  /\ pc' = "return"
  /\ UNCHANGED << source, dest, next, arg, stack, map, before >>

(* No block of that number, or one that is too short for a node. *)
EnterForeign ==
  /\ pc = "enter" /\ arg \notin DOMAIN map /\ ~IsNode(arg)
  /\ result' = arg
  /\ pc' = "return"
  /\ UNCHANGED << source, dest, next, arg, stack, map, before >>

(* The node gets its number before anything that it refers to. *)
EnterNode ==
  /\ pc = "enter" /\ arg \notin DOMAIN map /\ IsNode(arg)
  /\ dest' = WithBlock(dest, Block(source, arg))
  /\ map' = Remembered(arg, NewNumber(dest))
  /\ stack' = Append(stack, [source   |-> arg,
                             reserved |-> NewNumber(dest),
                             node     |-> Block(source, arg),
                             at       |-> 1,
                             phase    |-> IF Block(source, arg).is_leaf
                                          THEN "slots" ELSE "redirect"])
  /\ pc' = "run"
  /\ UNCHANGED << source, next, arg, result, before >>

Top == Last(stack)

Running(phase) == pc = "run" /\ Top.phase = phase

(* The innermost call goes on with that buffer in that phase. *)
TopBecomes(node, phase) ==
  stack' = [stack EXCEPT ![Len(stack)].node = node, ![Len(stack)].phase = phase]

(* A call of cloneEntry, to be gone on from in that phase. *)
CallFrom(phase, number) ==
  /\ TopBecomes(Top.node, phase)
  /\ arg' = number
  /\ pc' = "enter"
  /\ UNCHANGED << source, dest, next, result, map, before >>

IsNew(i) == i \notin DOMAIN map

(* The references of one slot, in the order of the code: a number that does *)
(* not resolve is left as it is; a block is copied when it is first met.   *)
Fresh(slot) ==
  LET value == IF Resolves(slot.value) /\ IsNew(slot.value) THEN << slot.value >> ELSE << >>
      key   == IF Resolves(slot.key) /\ IsNew(slot.key) /\ slot.key # slot.value
               THEN << slot.key >> ELSE << >>
  IN value \o key

(* mutant: the loop stays where it is *)
SameSlot(at) == at

NextSlot(at) == at + 1

CloneSlot ==
  LET slot   == Top.node.slots[Top.at]
      copies == Fresh(slot)
      number(i) == IF \E k \in DOMAIN copies : copies[k] = i
                   THEN Len(dest.blocks) + (CHOOSE k \in DOMAIN copies : copies[k] = i) - 1
                   ELSE IF i \in DOMAIN map THEN map[i] ELSE i
      renumbered(i) == IF Resolves(i) THEN number(i) ELSE i
      cloned == [slot EXCEPT !.value = renumbered(slot.value), !.key = renumbered(slot.key)]
  IN /\ Running("slots") /\ Top.at <= Len(Top.node.slots)
     /\ dest' = [dest EXCEPT !.blocks = @ \o [k \in DOMAIN copies |-> Block(source, copies[k])]]
     /\ map' = [i \in DOMAIN map \cup ToSet(copies) |-> number(i)]
     /\ stack' = [stack EXCEPT
          ![Len(stack)].node.slots[Top.at] = cloned,
          ![Len(stack)].at = NextSlot(Top.at)]
     /\ UNCHANGED << source, next, pc, arg, result, before >>

SlotsDone == Running("slots") /\ Top.at > Len(Top.node.slots)

CloneForward ==
  /\ SlotsDone /\ Top.node.forward # 0
  /\ CallFrom("forward", Top.node.forward)

NoForward ==
  /\ SlotsDone /\ Top.node.forward = 0
  /\ TopBecomes(Top.node, "backward")
  /\ UNCHANGED << source, dest, next, pc, arg, result, map, before >>

(* mutant: the forward link keeps the source's number *)
NotLinked(node, number) == node

Linked(node, number) == [node EXCEPT !.forward = number]

ForwardReturned ==
  /\ pc = "return" /\ stack # << >> /\ Top.phase = "forward"
  /\ TopBecomes(Linked(Top.node, result), "backward")
  /\ pc' = "run"
  /\ UNCHANGED << source, dest, next, arg, result, map, before >>

(* mutant: the backward link is not looked up *)
Unmapped(i) == i

(* Not cloned for its own sake: a number that is not known stays. *)
Mapped(i) == IF i \in DOMAIN map THEN map[i] ELSE i

LinkBackward ==
  /\ Running("backward")
  /\ TopBecomes([Top.node EXCEPT !.backward = IF @ # 0 THEN Mapped(@) ELSE 0], "finish")
  /\ UNCHANGED << source, dest, next, pc, arg, result, map, before >>

(* A node that is not a leaf: only its first slot is followed. *)
Redirect ==
  /\ Running("redirect") /\ Top.node.slots # << >>
  /\ CallFrom("redirected", Top.node.slots[1].value)

RedirectNowhere ==
  /\ Running("redirect") /\ Top.node.slots = << >>
  /\ TopBecomes(Top.node, "finish")
  /\ UNCHANGED << source, dest, next, pc, arg, result, map, before >>

RedirectReturned ==
  /\ pc = "return" /\ stack # << >> /\ Top.phase = "redirected"
  /\ TopBecomes([Top.node EXCEPT !.slots[1].value = result], "finish")
  /\ pc' = "run"
  /\ UNCHANGED << source, dest, next, arg, result, map, before >>

(* mutant: the block that was added last *)
LatestNumber == Len(dest.blocks) - 1

ReservedNumber == Top.reserved

(* The reserved block gets the bytes of the finished buffer. *)
Finish ==
  /\ Running("finish")
  /\ dest' = [dest EXCEPT !.blocks[ReservedNumber + 1] = Top.node]
  /\ result' = Top.reserved
  /\ stack' = Front(stack)
  /\ pc' = "return"
  /\ UNCHANGED << source, next, arg, map, before >>

CloneEntry ==
  \/ EnterKnown \/ EnterForeign \/ EnterNode
  \/ CloneSlot \/ CloneForward \/ NoForward \/ ForwardReturned \/ LinkBackward
  \/ Redirect \/ RedirectNowhere \/ RedirectReturned
  \/ Finish

Next ==
  \/ SkipVariable \/ CopyOpaque \/ BeginTree \/ RegisterTree \/ AllVisited
  \/ CloneEntry

(* The function runs by itself until it returns. *)
Spec == Init /\ [][Next]_vars /\ WF_vars(Next)

-----------------------------------------------------------------------------
(* Properties. *)

Finished == {n \in DOMAIN map : \A k \in DOMAIN stack : stack[k].source # n}

(* Everything is of its type, and the numbers that a cloner has given and  *)
(* the references of variables are numbers of blocks of the destination    *)
(* (VariablePassthrough.cpp:138-139, 168-169).                             *)
TypeOK ==
  /\ source \in Sources
  /\ next \in 1 .. Len(source.variables) + 1
  /\ pc \in {"next", "enter", "run", "return", "done"}
  /\ arg \in Nat /\ result \in Nat /\ before \in 0 .. Len(dest.blocks)
  /\ \A n \in DOMAIN map : n \in Numbers(source) /\ map[n] \in Numbers(dest)
  /\ \A k \in DOMAIN stack : stack[k].reserved = map[stack[k].source]
  /\ \A k \in DOMAIN dest.variables : dest.variables[k].index \in Numbers(dest)

Renumbered(slot) ==
  [slot EXCEPT !.value = map[@], !.key = IF slot.literal THEN @ ELSE map[@]]

Image(block) ==
  IF block.kind # "node" THEN block
  ELSE [block EXCEPT
          !.slots = [k \in DOMAIN @ |-> Renumbered(block.slots[k])],
          !.forward  = IF @ = 0 THEN 0 ELSE map[@],
          !.backward = IF @ = 0 THEN 0 ELSE map[@]]

Rewritable(block) ==
  block.kind = "node" =>
    {block.forward, block.backward} \ {0} \subseteq DOMAIN map

(* The block of the destination for a data block or a leaf that is done is *)
(* the source's with every reference in it rewritten and every literal     *)
(* kept, the backward link included, though a leaf is reached before or    *)
(* after the one it links back to (VariablePassthrough.cpp:178-214).  And  *)
(* no block is copied twice, however many leaves share it: there is one    *)
(* more in the destination for each that the cloner has met (_indexMap).   *)
ClonedFaithfully ==
  /\ \A n \in Finished :
       LET block == Block(source, n)
       IN (block.kind = "node" => block.is_leaf) =>
            /\ Rewritable(block)
            /\ Block(dest, map[n]) = Image(block)
  /\ pc \in {"enter", "run", "return"} =>
       Len(dest.blocks) = before + Cardinality(DOMAIN map)

(* What bom_tree_iterate meets of the tree in block i: the leaf that the   *)
(* root leads to and those that follow it, as many as the source could     *)
(* have, each as the contents of its slots.                                *)
HasNode(file, i) == i \in Numbers(file) /\ Block(file, i).kind = "node"

FirstLeaf(file, i) ==
  LET root == Block(file, i).child
  IN IF HasNode(file, root) /\ ~Block(file, root).is_leaf
     THEN IF Block(file, root).slots = << >> THEN 0 ELSE Block(file, root).slots[1].value
     ELSE root

After(file, i) == IF HasNode(file, i) THEN Block(file, i).forward ELSE 0

Content(file, i) == IF i \in Numbers(file) THEN << Block(file, i) >> ELSE << >>

Contents(file, i) ==
  IF ~HasNode(file, i) THEN << >>
  ELSE [k \in DOMAIN Block(file, i).slots |->
          LET slot == Block(file, i).slots[k]
          IN [value |-> Content(file, slot.value),
              key   |-> IF slot.literal THEN << slot.key >> ELSE Content(file, slot.key)]]

Met(file, i) ==
  LET at[n \in 0 .. Len(source.blocks)] ==
        IF n = 0 THEN FirstLeaf(file, i) ELSE After(file, at[n - 1])
  IN [n \in 0 .. Len(source.blocks) |-> Contents(file, at[n])]

(* Whoever iterates a tree of the destination meets what the source's tree *)
(* has, in its order (VariablePassthrough.h:31-44; bom_tree.c:183-209).    *)
ReadsTheSame ==
  \A k \in DOMAIN source.variables, j \in DOMAIN dest.variables :
    LET s == source.variables[k] d == dest.variables[j]
    IN (s.name \notin Managed /\ s.name = d.name /\ IsTree(s.index)) =>
         Met(dest, d.index) = Met(source, s.index)

(* In the end the destination has the writer's variables and blocks as     *)
(* they were and each variable that the writer does not manage once; an    *)
(* opaque one with the source's data (VariablePassthrough.cpp:237-264).    *)
VariablesKept ==
  pc = "done" =>
    /\ IsPrefix(Written.blocks, dest.blocks)
    /\ \A name \in {v.name : v \in ToSet(dest.variables) \cup ToSet(Written.variables)} \cup
                   {v.name : v \in {u \in ToSet(source.variables) :
                                      u.name \notin Managed /\ Resolves(u.index)}} :
         \E k \in DOMAIN dest.variables :
           LET mine == dest.variables[k]
           IN /\ \A j \in DOMAIN dest.variables : dest.variables[j].name = name <=> j = k
              /\ name \in Managed => mine \in ToSet(Written.variables)
              /\ \A v \in ToSet(source.variables) :
                   (v.name = name /\ name \notin Managed /\ ~IsTree(v.index)) =>
                     Block(dest, mine.index) = Block(source, v.index)

(* A block of the destination changes only while the call that reserved it *)
(* has not returned: the writer's blocks, other trees and leaves that are  *)
(* done stay (VariablePassthrough.cpp:217-219).                            *)
FinishedBlocksStay ==
  [][\A i \in Numbers(dest) :
        \/ Block(dest, i)' = Block(dest, i)
        \/ \E k \in DOMAIN stack : stack[k].reserved = i]_vars

(* The clone ends for every file, a ring of leaves included.               *)
Ends == <>(pc = "done")

(* "every reference to it rewritten", "never carry a source-context index  *)
(* through unchanged" (VariablePassthrough.cpp:62-64), of the nodes that   *)
(* are not leaves.                                                         *)
ReferencesRewritten ==
  \A n \in Finished :
    LET block == Block(source, n)
    IN (block.kind = "node" /\ ~block.is_leaf) =>
         \A k \in DOMAIN block.slots :
           block.slots[k].value \in DOMAIN map =>
             Block(dest, map[n]).slots[k].value = map[block.slots[k].value]
=============================================================================
