--------------------- MODULE VariablePassthrough_proofs ---------------------
(***************************************************************************)
(* The cloner of trees, for every source file, every written file and any  *)
(* depth of recursion.  Three invariants build on one another: Inv is of   *)
(* types and of who may change a block; CloneInv, of what is in the map    *)
(* and in the buffers of the calls that have not returned, gives that      *)
(* every node is cloned faithfully; CopyInv, of the variables which have   *)
(* been copied and of the maps that their cloners had, gives that a copied *)
(* tree reads as the source's and that all else of the destination stays.  *)
(***************************************************************************)
EXTENDS VariablePassthrough, DataLemmas

Phases == {"slots", "forward", "backward", "redirect", "redirected", "finish"}

Frames == [source : Nat, reserved : Nat, node : Nodes, at : Nat \ {0}, phase : Phases]

Cloning == {"enter", "run", "return"}

(* A call that is open has its node in the map before anything it calls. *)
StackOK ==
  /\ stack \in Seq(Frames)
  /\ \A k \in DOMAIN stack : stack[k].source \in DOMAIN map

ControlOK ==
  /\ pc \notin Cloning => stack = << >>
  /\ pc = "run" => stack # << >>
  /\ pc \in Cloning => next <= Len(source.variables)

Inv == TypeOK /\ IsFile(dest) /\ StackOK /\ ControlOK

(* A file that has more than before, and what it had where it was. *)
Grows(f, g) ==
  /\ IsFile(g)
  /\ Len(f.blocks) <= Len(g.blocks) /\ Len(f.blocks) \in Nat /\ Len(g.blocks) \in Nat
  /\ \A i \in Numbers(f) : Block(g, i) = Block(f, i) /\ i \in Numbers(g)

(* The fields of a file. *)
LEMMA FileParts ==
  ASSUME NEW f, IsFile(f)
  PROVE  /\ IsSeq(f.blocks) /\ IsSeq(f.variables)
         /\ Len(f.blocks) \in Nat /\ Len(f.variables) \in Nat
         /\ DOMAIN f.variables = 1 .. Len(f.variables)
<1>1. IsSeq(f.blocks) /\ IsSeq(f.variables)
  BY DEF IsFile, IsSeq
<1> QED BY <1>1, SeqOfItsElements DEF IsSeq

(* Sequences make a file. *)
LEMMA FileOf ==
  ASSUME NEW f, IsFile(f), NEW s, IsSeq(s)
  PROVE  /\ IsFile([f EXCEPT !.blocks = s])
         /\ [f EXCEPT !.blocks = s].blocks = s
         /\ [f EXCEPT !.blocks = s].variables = f.variables
         /\ IsFile([f EXCEPT !.variables = s])
         /\ [f EXCEPT !.variables = s].variables = s
         /\ [f EXCEPT !.variables = s].blocks = f.blocks
<1>1. /\ f.blocks \in Seq(ToSet(f.blocks)) /\ f.variables \in Seq(ToSet(f.variables))
      /\ f \in [blocks : Seq(ToSet(f.blocks)), variables : Seq(ToSet(f.variables))]
      /\ s \in Seq(ToSet(s))
  BY DEF IsFile, IsSeq
<1> HIDE DEF IsFile
<1>2. /\ [f EXCEPT !.blocks = s].blocks = s
      /\ [f EXCEPT !.blocks = s].variables = f.variables
      /\ [f EXCEPT !.variables = s].variables = s
      /\ [f EXCEPT !.variables = s].blocks = f.blocks
  BY <1>1
<1>3. /\ [f EXCEPT !.blocks = s] \in
           [blocks : Seq(ToSet(s)), variables : Seq(ToSet(f.variables))]
      /\ [f EXCEPT !.variables = s] \in
           [blocks : Seq(ToSet(f.blocks)), variables : Seq(ToSet(s))]
  BY <1>1
<1> QED BY <1>2, <1>3 DEF IsFile

(* A file with one more block, as bom_index_add leaves it, is a file. *)
LEMMA BlockAdded ==
  ASSUME NEW f, IsFile(f), NEW b
  PROVE  /\ Grows(f, WithBlock(f, b))
         /\ Len(WithBlock(f, b).blocks) = Len(f.blocks) + 1
         /\ WithBlock(f, b).variables = f.variables
         /\ NewNumber(f) \in Numbers(WithBlock(f, b)) /\ NewNumber(f) \in Nat
         /\ Block(WithBlock(f, b), NewNumber(f)) = b
<1> DEFINE s == Append(f.blocks, b)
           g == WithBlock(f, b)
<1>1. IsSeq(f.blocks)
  BY FileParts
<1>2. /\ IsSeq(s) /\ Len(s) = Len(f.blocks) + 1 /\ Len(f.blocks) \in Nat
      /\ s[Len(f.blocks) + 1] = b
      /\ \A j \in 1 .. Len(f.blocks) : s[j] = f.blocks[j]
  BY <1>1, Appended
<1>3. g = [f EXCEPT !.blocks = s]
  BY DEF WithBlock
<1> HIDE DEF s, g
<1>4. IsFile(g) /\ g.blocks = s /\ g.variables = f.variables
  BY <1>2, <1>3, FileOf
<1> QED BY <1>2, <1>4 DEF Grows, Numbers, Block, NewNumber, g

(* A file with one more variable, as bom_variable_add leaves it, is a file. *)
LEMMA VariableAdded ==
  ASSUME NEW f, IsFile(f), NEW name, NEW i
  PROVE  LET g == WithVariable(f, name, i)
         IN /\ Grows(f, g) /\ g.blocks = f.blocks
            /\ DOMAIN g.variables = DOMAIN f.variables \cup {Len(f.variables) + 1}
            /\ g.variables[Len(f.variables) + 1].index = i
            /\ g.variables[Len(f.variables) + 1].name = name
            /\ \A k \in DOMAIN f.variables : g.variables[k] = f.variables[k]
<1> DEFINE v == [name |-> name, index |-> i]
           s == Append(f.variables, v)
           g == WithVariable(f, name, i)
<1>1. IsSeq(f.variables) /\ Len(f.blocks) \in Nat /\ DOMAIN f.variables = 1 .. Len(f.variables)
  BY FileParts
<1>2. /\ IsSeq(s) /\ Len(s) = Len(f.variables) + 1 /\ Len(f.variables) \in Nat
      /\ s[Len(f.variables) + 1] = v
      /\ \A j \in 1 .. Len(f.variables) : s[j] = f.variables[j]
  BY <1>1, Appended
<1>3. g = [f EXCEPT !.variables = s]
  BY DEF WithVariable
<1>4. v.index = i /\ v.name = name
  OBVIOUS
<1> HIDE DEF s, g, v
<1>5. IsFile(g) /\ g.variables = s /\ g.blocks = f.blocks
  BY <1>2, <1>3, FileOf
<1>6. DOMAIN s = 1 .. Len(f.variables) + 1
  BY <1>2, SeqOfItsElements DEF IsSeq
<1> QED BY <1>1, <1>2, <1>4, <1>5, <1>6 DEF Grows, Numbers, Block, g

(* What the actions may leave of the stack: a new frame in the place of the *)
(* innermost, for the same call.                                           *)
StackKept ==
  /\ stack' \in Seq(Frames) /\ DOMAIN stack' = DOMAIN stack
  /\ stack = << >> <=> stack' = << >>
  /\ \A k \in DOMAIN stack : /\ stack'[k].source = stack[k].source
                             /\ stack'[k].reserved = stack[k].reserved

(* The frame of the call that runs is a frame. *)
LEMMA TopIsFrame ==
  ASSUME Inv, stack # << >>
  PROVE  /\ Top = stack[Len(stack)] /\ Top \in Frames
         /\ Len(stack) \in Nat \ {0} /\ Len(stack) \in DOMAIN stack
         /\ DOMAIN stack = 1 .. Len(stack)
         /\ Top.node \in Nodes /\ Top.at \in Nat \ {0} /\ Top.phase \in Phases
         /\ Top.reserved \in Nat /\ Top.source \in Nat
<1>1. Len(stack) \in Nat \ {0} /\ DOMAIN stack = 1 .. Len(stack) /\ stack \in Seq(Frames)
  BY EmptySeq, LenProperties DEF Inv, StackOK
<1>2. stack[Len(stack)] \in Frames
  BY <1>1, ElementOfSeq
<1>3. Top = stack[Len(stack)]
  BY DEF Top, Last
<1> QED BY <1>1, <1>2, <1>3 DEF Frames

(* A stack stays one when the frame of the call that runs changes. *)
LEMMA FrameReplaced ==
  ASSUME Inv, stack # << >>, NEW frame \in Frames,
         frame.source = Top.source, frame.reserved = Top.reserved,
         stack' = [stack EXCEPT ![Len(stack)] = frame]
  PROVE  StackKept
<1>1. /\ Top = stack[Len(stack)] /\ Len(stack) \in 1 .. Len(stack) /\ Len(stack) \in Nat \ {0}
      /\ DOMAIN stack = 1 .. Len(stack) /\ stack \in Seq(Frames)
  BY TopIsFrame DEF Inv, StackOK
<1>2. /\ stack' \in Seq(Frames) /\ Len(stack') = Len(stack)
      /\ \A j \in 1 .. Len(stack) : stack'[j] = IF j = Len(stack) THEN frame ELSE stack[j]
  BY <1>1, ExceptSeq
<1>3. DOMAIN stack' = 1 .. Len(stack') /\ stack' # << >>
  BY <1>1, <1>2, LenProperties
<1> QED BY <1>1, <1>2, <1>3 DEF StackKept

(* The same for the steps that change the buffer and the place to go on from. *)
LEMMA TopReplaced ==
  ASSUME Inv, stack # << >>, NEW node \in Nodes, NEW phase \in Phases, TopBecomes(node, phase)
  PROVE  StackKept
<1> DEFINE frame == [Top EXCEPT !.node = node, !.phase = phase]
<1>1. /\ Top = stack[Len(stack)] /\ Top \in Frames /\ Len(stack) \in DOMAIN stack
  BY TopIsFrame
<1>2. frame \in Frames /\ frame.source = Top.source /\ frame.reserved = Top.reserved
  BY <1>1 DEF Frames
<1>3. stack' = [stack EXCEPT ![Len(stack)] = frame]
  BY <1>1 DEF TopBecomes
<1> HIDE DEF frame
<1> QED BY <1>2, <1>3, FrameReplaced

(* What the actions may do to the map: know more numbers. *)
MapKept ==
  /\ DOMAIN map \subseteq DOMAIN map'
  /\ \A n \in DOMAIN map : map'[n] = map[n]
  /\ \A n \in DOMAIN map' : n \in Numbers(source) /\ map'[n] \in Numbers(dest')

(* A step of an open call, or into one, that keeps all this. *)
LEMMA CallKeeps ==
  ASSUME Inv, StackKept, MapKept, Grows(dest, dest'), dest'.variables = dest.variables,
         UNCHANGED << source, next, before >>,
         pc \in Cloning, pc' \in Cloning, pc' = "run" => stack # << >>,
         arg' \in Nat, result' \in Nat
  PROVE  Inv'
<1>1. StackOK'
  BY DEF Inv, StackOK, StackKept, MapKept
<1>2. ControlOK'
  BY DEF Inv, ControlOK, StackKept, Cloning
<1>3. \A k \in DOMAIN stack' : stack'[k].reserved = map'[stack'[k].source]
  BY DEF Inv, TypeOK, StackOK, StackKept, MapKept
<1>4. \A n \in DOMAIN map' : n \in Numbers(source') /\ map'[n] \in Numbers(dest')
  BY DEF MapKept
<1>5. \A k \in DOMAIN dest'.variables : dest'.variables[k].index \in Numbers(dest')
  BY DEF Inv, TypeOK, Grows
<1>6. before' \in 0 .. Len(dest'.blocks)
  BY DEF Inv, TypeOK, Grows
<1>7. TypeOK'
  BY <1>3, <1>4, <1>5, <1>6 DEF Inv, TypeOK, Cloning
<1> QED BY <1>1, <1>2, <1>7 DEF Inv, Grows

(* Nothing of a file changes. *)
LEMMA SameGrows ==
  ASSUME NEW f, IsFile(f)
  PROVE  Grows(f, f)
BY FileParts DEF Grows

(* A step that leaves the map and the destination alone keeps the map. *)
LEMMA SameMap ==
  ASSUME Inv, UNCHANGED << map, dest >>
  PROVE  MapKept
BY DEF Inv, TypeOK, MapKept

(* A step that leaves the stack alone keeps it. *)
LEMMA SameStack ==
  ASSUME Inv, UNCHANGED stack
  PROVE  StackKept
BY DEF Inv, StackOK, StackKept

(* What is known of the blocks of a source. *)
LEMMA SourceBlocks ==
  ASSUME Inv
  PROVE  /\ IsFile(source) /\ Len(source.blocks) \in Nat /\ Len(source.variables) \in Nat
         /\ \A i \in Numbers(source) :
              /\ i \in Nat
              /\ IsTree(i) => Block(source, i) \in Trees /\ Block(source, i).child \in Nat
              /\ Block(source, i).kind = "node" => Block(source, i) \in Nodes
<1>1. source \in Sources
  BY DEF Inv, TypeOK
<1>2. /\ IsFile(source)
      /\ \A b \in ToSet(source.blocks) : /\ b.kind = "tree" => b \in Trees
                                         /\ b.kind = "node" => b \in Nodes
  BY <1>1, FilesAssumption
<1>3. IsSeq(source.blocks) /\ Len(source.blocks) \in Nat /\ Len(source.variables) \in Nat
  BY <1>2, FileParts
<1>4. \A i \in Numbers(source) : i \in Nat /\ Block(source, i) \in ToSet(source.blocks)
  BY <1>3, ElementIn DEF Numbers, Block
<1> QED BY <1>2, <1>3, <1>4 DEF IsTree, Trees

(* The numbers of the map are numbers. *)
LEMMA MapNumbers ==
  ASSUME Inv
  PROVE  \A n \in DOMAIN map : n \in Nat /\ map[n] \in Nat
<1>1. Len(source.blocks) \in Nat /\ Len(dest.blocks) \in Nat
  BY SourceBlocks, FileParts DEF Inv
<1> QED BY <1>1 DEF Inv, TypeOK, Numbers

(* An early return of cloneEntry keeps the invariant and the destination. *)
LEMMA EnterKeeps ==
  ASSUME Inv, EnterKnown \/ EnterForeign
  PROVE  Inv' /\ UNCHANGED dest
<1>1. result' \in Nat /\ arg' \in Nat
  BY MapNumbers DEF EnterKnown, EnterForeign, Inv, TypeOK
<1>2. Grows(dest, dest') /\ MapKept /\ StackKept
  BY SameGrows, SameMap, SameStack DEF EnterKnown, EnterForeign, Inv
<1> QED BY <1>1, <1>2, CallKeeps DEF EnterKnown, EnterForeign, Cloning

(* A node that is met for the first time: a block, a number, a frame. *)
LEMMA EnterNodeKeeps ==
  ASSUME Inv, EnterNode
  PROVE  Inv' /\ Grows(dest, dest')
<1> DEFINE new == NewNumber(dest)
           node == Block(source, arg)
           frame == [source |-> arg, reserved |-> new, node |-> node, at |-> 1,
                     phase |-> IF node.is_leaf THEN "slots" ELSE "redirect"]
<1>1. /\ arg \in Numbers(source) /\ arg \in Nat /\ node \in Nodes /\ arg \notin DOMAIN map
  BY SourceBlocks DEF EnterNode, IsNode, Resolves
<1>2. /\ Grows(dest, dest') /\ dest'.variables = dest.variables
      /\ new \in Numbers(dest') /\ new \in Nat /\ Numbers(dest) \subseteq Numbers(dest')
  BY BlockAdded DEF EnterNode, Inv, Grows
<1>3. map' = Remembered(arg, new) /\ stack' = Append(stack, frame)
  BY DEF EnterNode
<1>4. frame \in Frames /\ frame.source = arg /\ frame.reserved = new
  BY <1>1, <1>2 DEF Frames, Phases
<1> HIDE DEF new, node, frame
<1>5. /\ DOMAIN map' = DOMAIN map \cup {arg} /\ map'[arg] = new
      /\ \A n \in DOMAIN map : map'[n] = map[n]
  BY <1>1, <1>3 DEF Remembered
<1>6. /\ stack' \in Seq(Frames) /\ Len(stack) \in Nat
      /\ DOMAIN stack' = 1 .. Len(stack) + 1 /\ DOMAIN stack = 1 .. Len(stack)
      /\ stack'[Len(stack) + 1] = frame
      /\ \A k \in 1 .. Len(stack) : stack'[k] = stack[k]
  <2>1. stack \in Seq(Frames)
    BY DEF Inv, StackOK
  <2> QED BY <1>3, <1>4, <2>1, AppendProperties, LenProperties
<1>7. StackOK' /\ stack' # << >>
  <2>1. \A k \in DOMAIN stack' : stack'[k].source \in DOMAIN map'
    BY <1>4, <1>5, <1>6 DEF Inv, StackOK
  <2> QED BY <1>6, <2>1 DEF StackOK
<1>8. \A k \in DOMAIN stack' : stack'[k].reserved = map'[stack'[k].source]
  BY <1>4, <1>5, <1>6 DEF Inv, StackOK, TypeOK
<1>9. \A n \in DOMAIN map' : n \in Numbers(source') /\ map'[n] \in Numbers(dest')
  BY <1>1, <1>2, <1>5 DEF Inv, TypeOK, EnterNode
<1>10. \A k \in DOMAIN dest'.variables : dest'.variables[k].index \in Numbers(dest')
  BY <1>2 DEF Inv, TypeOK
<1>11. before' \in 0 .. Len(dest'.blocks)
  BY <1>2 DEF Inv, TypeOK, Grows, EnterNode
<1>12. TypeOK'
  BY <1>8, <1>9, <1>10, <1>11 DEF Inv, TypeOK, EnterNode
<1>13. ControlOK'
  BY <1>7 DEF Inv, ControlOK, EnterNode, Cloning
<1> QED BY <1>2, <1>7, <1>12, <1>13 DEF Inv, Grows

(* The calls, the returns and the links work on the innermost buffer only. *)
LEMMA LinksKeep ==
  ASSUME Inv,
         \/ CloneForward \/ NoForward \/ ForwardReturned \/ LinkBackward
         \/ Redirect \/ RedirectNowhere \/ RedirectReturned
  PROVE  Inv' /\ UNCHANGED dest
<1>1. UNCHANGED << dest, map, source, next, before >> /\ stack # << >> /\ pc \in Cloning
  BY DEF CloneForward, NoForward, ForwardReturned, LinkBackward, Redirect, RedirectNowhere,
         RedirectReturned, CallFrom, SlotsDone, Running, Inv, ControlOK, Cloning
<1>2. Grows(dest, dest') /\ MapKept
  BY <1>1, SameGrows, SameMap DEF Inv
<1>3. /\ Top.node \in Nodes /\ arg \in Nat /\ result \in Nat
      /\ Top.node.forward \in Nat /\ Top.node.backward \in Nat
      /\ Top.node.slots \in Seq(Slots)
  BY <1>1, TopIsFrame DEF Inv, TypeOK, Nodes
<1> SUFFICES /\ StackKept /\ pc' \in Cloning /\ arg' \in Nat /\ result' \in Nat
  BY <1>1, <1>2, CallKeeps
<1>4. CASE CloneForward
  BY <1>1, <1>3, <1>4, TopReplaced DEF CloneForward, CallFrom, Phases, Cloning
<1>5. CASE NoForward
  BY <1>1, <1>3, <1>5, TopReplaced DEF NoForward, SlotsDone, Running, Phases, Cloning
<1>6. CASE ForwardReturned
  <2>1. Linked(Top.node, result) \in Nodes
    BY <1>3 DEF Linked, Nodes
  <2> QED BY <1>1, <1>3, <1>6, <2>1, TopReplaced DEF ForwardReturned, Phases, Cloning
<1>7. CASE LinkBackward
  <2> DEFINE node == [Top.node EXCEPT !.backward = IF @ # 0 THEN Mapped(@) ELSE 0]
  <2>1. Mapped(Top.node.backward) \in Nat
    BY <1>3, MapNumbers DEF Mapped
  <2>2. node \in Nodes
    BY <1>3, <2>1 DEF Nodes
  <2>3. TopBecomes(node, "finish")
    BY <1>7 DEF LinkBackward
  <2> HIDE DEF node
  <2>4. StackKept
    BY <1>1, <2>2, <2>3, TopReplaced DEF Phases
  <2> QED BY <1>3, <1>7, <2>4 DEF LinkBackward, Running, Cloning
<1>8. CASE Redirect
  <2>1. Top.node.slots[1] \in Slots
    <3>1. Top.node.slots # << >>
      BY <1>8 DEF Redirect
    <3> QED BY <1>3, <3>1, EmptySeq, ElementOfSeq
  <2>2. Top.node.slots[1].value \in Nat
    BY <2>1 DEF Slots
  <2> QED BY <1>1, <1>3, <1>8, <2>2, TopReplaced DEF Redirect, CallFrom, Phases, Cloning
<1>9. CASE RedirectNowhere
  BY <1>1, <1>3, <1>9, TopReplaced DEF RedirectNowhere, Running, Phases, Cloning
<1>10. CASE RedirectReturned
  <2> DEFINE slots == [Top.node.slots EXCEPT ![1] = [@ EXCEPT !.value = result]]
             node == [Top.node EXCEPT !.slots = slots]
  <2>1. slots \in Seq(Slots)
    <3>1. CASE Top.node.slots = << >>
      <4>1. slots = Top.node.slots
        BY <3>1
      <4> QED BY <1>3, <4>1
    <3>2. CASE Top.node.slots # << >>
      <4>1. Len(Top.node.slots) \in Nat \ {0} /\ 1 \in 1 .. Len(Top.node.slots)
        BY <1>3, <3>2, EmptySeq
      <4>2. Top.node.slots[1] \in Slots
        BY <1>3, <4>1, ElementOfSeq
      <4>3. [Top.node.slots[1] EXCEPT !.value = result] \in Slots
        BY <1>3, <4>2 DEF Slots
      <4> QED BY <1>3, <4>1, <4>3, ExceptSeq
    <3> QED BY <3>1, <3>2
  <2> HIDE DEF slots
  <2>2. node \in Nodes
    BY <1>3, <2>1 DEF Nodes
  <2>3. TopBecomes(node, "finish")
    BY <1>10 DEF RedirectReturned, slots
  <2> HIDE DEF node
  <2>4. StackKept
    BY <1>1, <2>2, <2>3, TopReplaced DEF Phases
  <2> QED BY <1>3, <1>10, <2>4 DEF RedirectReturned, Cloning
<1> QED BY <1>4, <1>5, <1>6, <1>7, <1>8, <1>9, <1>10

(* A slot that is cloned: its copies get the numbers after the last block, *)
(* and what the map knew it still knows.                                   *)
LEMMA FreshBlocks ==
  ASSUME Inv, NEW slot \in Slots
  PROVE  /\ Fresh(slot) \in Seq(Nat) /\ Len(Fresh(slot)) \in Nat
         /\ DOMAIN Fresh(slot) = 1 .. Len(Fresh(slot))
         /\ \A k \in DOMAIN Fresh(slot) :
              Fresh(slot)[k] \in Numbers(source) /\ Fresh(slot)[k] \notin DOMAIN map
<1>1. \A i : Resolves(i) /\ IsNew(i) => i \in Numbers(source) /\ i \in Nat /\ i \notin DOMAIN map
  BY SourceBlocks DEF Resolves, IsNew
<1> DEFINE V == IF Resolves(slot.value) /\ IsNew(slot.value) THEN << slot.value >> ELSE << >>
           K == IF Resolves(slot.key) /\ IsNew(slot.key) /\ slot.key # slot.value
                THEN << slot.key >> ELSE << >>
           Good == {i \in Nat : i \in Numbers(source) /\ i \notin DOMAIN map}
<1>2. V \in Seq(Good)
  <2>1. CASE Resolves(slot.value) /\ IsNew(slot.value)
    <3>1. V = << slot.value >> /\ slot.value \in Good
      BY <1>1, <2>1
    <3> HIDE DEF V, Good
    <3> QED BY <3>1
  <2>2. CASE ~(Resolves(slot.value) /\ IsNew(slot.value))
    BY <2>2
  <2> QED BY <2>1, <2>2
<1>3. K \in Seq(Good)
  <2>1. CASE Resolves(slot.key) /\ IsNew(slot.key) /\ slot.key # slot.value
    <3>1. K = << slot.key >> /\ slot.key \in Good
      BY <1>1, <2>1
    <3> HIDE DEF K, Good
    <3> QED BY <3>1
  <2>2. CASE ~(Resolves(slot.key) /\ IsNew(slot.key) /\ slot.key # slot.value)
    BY <2>2
  <2> QED BY <2>1, <2>2
<1>4. Fresh(slot) = V \o K
  BY DEF Fresh
<1> HIDE DEF V, K
<1>5. Good \subseteq Nat /\ \A i \in Good : i \in Numbers(source) /\ i \notin DOMAIN map
  OBVIOUS
<1> HIDE DEF Good
<1>6. Fresh(slot) \in Seq(Good)
  BY <1>2, <1>3, <1>4, ConcatProperties
<1>7. /\ Len(Fresh(slot)) \in Nat /\ DOMAIN Fresh(slot) = 1 .. Len(Fresh(slot))
      /\ \A k \in DOMAIN Fresh(slot) : Fresh(slot)[k] \in Good
  BY <1>6, LenProperties, ElementOfSeq
<1>8. Fresh(slot) \in Seq(Nat)
  BY <1>5, <1>6, SeqMonotonic
<1> QED BY <1>5, <1>7, <1>8

(* The turn of the loop that copies one slot keeps the invariant. *)
LEMMA CloneSlotKeeps ==
  ASSUME Inv, CloneSlot
  PROVE  Inv' /\ Grows(dest, dest')
<1> DEFINE slot   == Top.node.slots[Top.at]
           copies == Fresh(slot)
           base   == Len(dest.blocks)
           number(i) == IF \E k \in DOMAIN copies : copies[k] = i
                        THEN base + (CHOOSE k \in DOMAIN copies : copies[k] = i) - 1
                        ELSE IF i \in DOMAIN map THEN map[i] ELSE i
           blocks == [k \in DOMAIN copies |-> Block(source, copies[k])]
           renumbered(i) == IF Resolves(i) THEN number(i) ELSE i
           cloned == [slot EXCEPT !.value = renumbered(slot.value),
                                  !.key = renumbered(slot.key)]
           slots  == [Top.node.slots EXCEPT ![Top.at] = cloned]
           node   == [Top.node EXCEPT !.slots = slots]
           frame  == [Top EXCEPT !.node = node, !.at = NextSlot(Top.at)]
<1>1. /\ stack # << >> /\ pc \in Cloning /\ Top \in Frames /\ Top.node \in Nodes
      /\ Top.at \in Nat \ {0} /\ Top.node.slots \in Seq(Slots) /\ Top.at <= Len(Top.node.slots)
      /\ base \in Nat /\ IsFile(dest)
  <2>1. stack # << >> /\ pc \in Cloning /\ IsFile(dest) /\ Top.at <= Len(Top.node.slots)
    BY DEF CloneSlot, Running, Inv, ControlOK, Cloning
  <2> QED BY <2>1, TopIsFrame, FileParts DEF Nodes
<1>2. slot \in Slots /\ Top.at \in 1 .. Len(Top.node.slots) /\ slot.value \in Nat /\ slot.key \in Nat
  <2>1. Len(Top.node.slots) \in Nat
    BY <1>1, LenProperties
  <2>2. Top.at \in 1 .. Len(Top.node.slots)
    BY <1>1, <2>1
  <2>3. slot \in Slots
    BY <1>1, <2>2, ElementOfSeq
  <2> QED BY <2>2, <2>3 DEF Slots
<1>3. /\ dest' = [dest EXCEPT !.blocks = dest.blocks \o blocks]
      /\ map' = [i \in DOMAIN map \cup ToSet(copies) |-> number(i)]
      /\ stack' = [stack EXCEPT ![Len(stack)] = frame]
  <2>1. Top = stack[Len(stack)]
    BY <1>1, TopIsFrame
  <2>2. dest' = [dest EXCEPT !.blocks = dest.blocks \o blocks]
    BY Zenon DEF CloneSlot
  <2>3. map' = [i \in DOMAIN map \cup ToSet(copies) |-> number(i)]
    BY Zenon DEF CloneSlot
  <2>4. stack' = [stack EXCEPT ![Len(stack)] = frame]
    <3>1. stack' = [stack EXCEPT ![Len(stack)].node.slots[Top.at] = cloned,
                                 ![Len(stack)].at = NextSlot(Top.at)]
      BY <2>1 DEF CloneSlot
    <3>2. Len(stack) \in DOMAIN stack
      BY <1>1, TopIsFrame
    <3> HIDE DEF cloned
    <3> QED BY <2>1, <3>1, <3>2
  <2> QED BY <2>2, <2>3, <2>4
<1> HIDE DEF slot
<1>4. /\ Len(copies) \in Nat /\ DOMAIN copies = 1 .. Len(copies)
      /\ \A k \in DOMAIN copies : copies[k] \in Numbers(source) /\ copies[k] \notin DOMAIN map
      /\ \A i \in ToSet(copies) : \E k \in DOMAIN copies : copies[k] = i
  BY <1>2, FreshBlocks DEF ToSet
<1> HIDE DEF copies
<1>5. /\ \A i \in ToSet(copies) : number(i) \in base .. base + Len(copies) - 1
      /\ \A i \in DOMAIN map : number(i) = map[i]
      /\ \A i \in Nat : number(i) \in Nat
  <2>1. ASSUME NEW i, \E k \in DOMAIN copies : copies[k] = i
        PROVE  number(i) \in base .. base + Len(copies) - 1 /\ number(i) \in Nat
    <3>1. (CHOOSE k \in DOMAIN copies : copies[k] = i) \in 1 .. Len(copies)
      BY <1>4, <2>1
    <3> QED BY <1>1, <1>4, <2>1, <3>1
  <2>2. \A i \in DOMAIN map : number(i) = map[i]
    BY <1>4
  <2>3. ASSUME NEW i \in Nat, ~ \E k \in DOMAIN copies : copies[k] = i
        PROVE  number(i) \in Nat
    BY <2>3, MapNumbers
  <2> QED BY <1>4, <2>1, <2>2, <2>3
<1> HIDE DEF number
<1>6. /\ Grows(dest, dest') /\ dest'.variables = dest.variables
      /\ Len(dest'.blocks) = base + Len(copies)
  <2>1. IsSeq(blocks) /\ Len(blocks) = Len(copies)
    <3>1. blocks \in [1 .. Len(copies) -> {Block(source, copies[k]) : k \in DOMAIN copies}]
      BY <1>4
    <3> HIDE DEF blocks
    <3>2. /\ blocks \in Seq({Block(source, copies[k]) : k \in DOMAIN copies})
          /\ DOMAIN blocks = 1 .. Len(copies)
      BY <1>4, <3>1, SeqDef
    <3>3. DOMAIN blocks = 1 .. Len(blocks) /\ IsSeq(blocks) /\ Len(blocks) \in Nat
      BY <3>2, SeqOfItsElements
    <3> QED BY <1>4, <3>2, <3>3
  <2> HIDE DEF blocks
  <2> DEFINE all == dest.blocks \o blocks
  <2>2. /\ IsSeq(all) /\ Len(all) = base + Len(blocks)
        /\ \A j \in 1 .. base : all[j] = dest.blocks[j]
    BY <1>1, <2>1, FileParts, Concatenated
  <2>3. dest' = [dest EXCEPT !.blocks = all]
    BY <1>3
  <2> HIDE DEF all, base
  <2>4. IsFile(dest') /\ dest'.blocks = all /\ dest'.variables = dest.variables
    BY <1>1, <2>2, <2>3, FileOf, ZenonT(40)
  <2> QED BY <1>1, <1>4, <2>1, <2>2, <2>4 DEF Grows, Numbers, Block, base
<1> HIDE DEF blocks
<1>7. MapKept
  <2>1. /\ DOMAIN map' = DOMAIN map \cup ToSet(copies)
        /\ \A i \in DOMAIN map' : map'[i] = number(i)
    BY <1>3
  <2>2. \A n \in DOMAIN map : n \in Numbers(source) /\ map[n] \in Numbers(dest')
    BY <1>6 DEF Inv, TypeOK, Grows
  <2>3. \A n \in ToSet(copies) : n \in Numbers(source) /\ number(n) \in Numbers(dest')
    <3>1. Numbers(dest') = 0 .. base + Len(copies) - 1 /\ base \in Nat
      BY <1>1, <1>6 DEF Numbers
    <3> HIDE DEF base
    <3> QED BY <1>4, <1>5, <3>1
  <2> QED BY <1>5, <2>1, <2>2, <2>3 DEF MapKept
<1>8. StackKept
  <2>1. cloned \in Slots
    BY <1>2, <1>5 DEF Slots
  <2> HIDE DEF cloned
  <2>2. slots \in Seq(Slots)
    BY <1>1, <1>2, <2>1, ExceptSeq
  <2> HIDE DEF slots
  <2>3. node \in Nodes
    BY <1>1, <2>2 DEF Nodes
  <2> HIDE DEF node
  <2>4. frame \in Frames /\ frame.source = Top.source /\ frame.reserved = Top.reserved
    <3>1. NextSlot(Top.at) \in Nat \ {0}
      BY <1>1 DEF NextSlot
    <3> QED BY <1>1, <2>3, <3>1 DEF Frames
  <2> HIDE DEF frame
  <2> QED BY <1>1, <1>3, <2>4, FrameReplaced
<1> HIDE DEF frame
<1>9. arg' \in Nat /\ result' \in Nat /\ pc' \in Cloning /\ UNCHANGED << source, next, before >>
  BY <1>1 DEF CloneSlot, Inv, TypeOK
<1> QED BY <1>1, <1>6, <1>7, <1>8, <1>9, CallKeeps

(* A call returns: its block gets the buffer, and only its block. *)
LEMMA FinishKeeps ==
  ASSUME Inv, Finish
  PROVE  /\ Inv'
         /\ \A i \in Numbers(dest) :
              Block(dest', i) = Block(dest, i) \/ \E k \in DOMAIN stack : stack[k].reserved = i
<1> DEFINE r == Top.reserved
           blocks == WithAt(dest.blocks, r + 1, Top.node)
<1>1. /\ stack # << >> /\ pc \in Cloning /\ stack \in Seq(Frames)
      /\ IsFile(dest) /\ IsSeq(dest.blocks) /\ Len(dest.blocks) \in Nat
  BY FileParts DEF Finish, Running, Inv, ControlOK, StackOK, Cloning
<1>2. /\ Len(stack) \in DOMAIN stack /\ Len(stack) \in Nat \ {0}
      /\ DOMAIN stack = 1 .. Len(stack) /\ r = stack[Len(stack)].reserved /\ r \in Nat
  BY <1>1, TopIsFrame
<1>3. r \in Numbers(dest) /\ r + 1 \in 1 .. Len(dest.blocks)
  <2>1. r \in Numbers(dest)
    BY <1>2 DEF Inv, TypeOK, StackOK
  <2> QED BY <1>1, <1>2, <2>1 DEF Numbers
<1>4. dest' = [dest EXCEPT !.blocks = blocks]
  BY DEF Finish, ReservedNumber, WithAt
<1> HIDE DEF r
<1>5. /\ IsSeq(blocks) /\ Len(blocks) = Len(dest.blocks)
      /\ \A j \in 1 .. Len(dest.blocks) : j # r + 1 => blocks[j] = dest.blocks[j]
  BY <1>1, <1>3, Replaced
<1> HIDE DEF blocks
<1>6. IsFile(dest') /\ dest'.blocks = blocks /\ dest'.variables = dest.variables
  BY <1>1, <1>4, <1>5, FileOf
<1>7. Numbers(dest') = Numbers(dest)
  BY <1>5, <1>6 DEF Numbers
<1>8. \A i \in Numbers(dest) : i # r => Block(dest', i) = Block(dest, i)
  BY <1>1, <1>2, <1>5, <1>6, SMTT(30) DEF Numbers, Block
<1>9. /\ stack' \in Seq(Frames) /\ DOMAIN stack' \subseteq DOMAIN stack
      /\ \A k \in DOMAIN stack' : stack'[k] = stack[k]
  <2>1. stack' = SubSeq(stack, 1, Len(stack) - 1)
    BY DEF Finish, Front
  <2>2. \A k \in 1 .. Len(stack) - 1 : stack[k] \in Frames
    BY <1>1, <1>2, ElementOfSeq
  <2>3. /\ stack' \in Seq(Frames) /\ Len(stack') = Len(stack) - 1
        /\ \A k \in 1 .. Len(stack) - 1 : stack'[k] = stack[k]
    BY <1>2, <2>1, <2>2, SubSeqProperties
  <2> QED BY <1>2, <2>3, LenProperties
<1>10. result' \in Nat
  BY <1>2 DEF Finish, r
<1>11. TypeOK'
  <2>1. \A k \in DOMAIN stack' : stack'[k].reserved = map'[stack'[k].source]
    BY <1>9 DEF Inv, TypeOK, Finish
  <2>2. \A k \in DOMAIN dest'.variables : dest'.variables[k].index \in Numbers(dest')
    BY <1>6, <1>7 DEF Inv, TypeOK
  <2>3. before' \in 0 .. Len(dest'.blocks)
    BY <1>5, <1>6 DEF Inv, TypeOK, Finish
  <2>4. \A n \in DOMAIN map' : n \in Numbers(source') /\ map'[n] \in Numbers(dest')
    BY <1>7 DEF Inv, TypeOK, Finish
  <2> QED BY <1>10, <2>1, <2>2, <2>3, <2>4 DEF Inv, TypeOK, Finish
<1>12. StackOK'
  BY <1>9 DEF Inv, StackOK, Finish
<1>13. ControlOK'
  BY <1>1 DEF Inv, ControlOK, Finish, Cloning
<1> QED BY <1>2, <1>6, <1>8, <1>11, <1>12, <1>13 DEF Inv

(* The loop over variables: what it adds refers to the block just added.   *)
LEMMA VariablesKeep ==
  ASSUME Inv, SkipVariable \/ CopyOpaque \/ BeginTree \/ RegisterTree \/ AllVisited
  PROVE  Inv' /\ Grows(dest, dest')
<1>1. Len(source.variables) \in Nat /\ Len(dest.blocks) \in Nat /\ next \in Nat /\ IsFile(dest)
  BY SourceBlocks, FileParts DEF Inv, TypeOK
<1>2. CASE SkipVariable
  <2>1. TypeOK' /\ StackOK' /\ ControlOK'
    BY <1>1, <1>2 DEF SkipVariable, Inv, TypeOK, StackOK, ControlOK, Cloning
  <2> QED BY <1>1, <1>2, <2>1, SameGrows DEF SkipVariable, Inv
<1>3. CASE AllVisited
  <2>1. TypeOK' /\ StackOK' /\ ControlOK'
    BY <1>3 DEF AllVisited, Inv, TypeOK, StackOK, ControlOK, Cloning
  <2> QED BY <1>1, <1>3, <2>1, SameGrows DEF AllVisited, Inv
<1>4. CASE BeginTree
  <2>1. stack = << >> /\ stack' = << >> /\ map' = << >> /\ next <= Len(source.variables)
    BY <1>4 DEF BeginTree, Inv, ControlOK, Cloning
  <2>2. DOMAIN stack' = {} /\ DOMAIN map' = {}
    BY <2>1
  <2>3. arg' \in Nat
    BY <1>4, SourceBlocks DEF BeginTree, Skipped, Resolves
  <2>4. TypeOK'
    BY <1>1, <1>4, <2>2, <2>3 DEF BeginTree, Inv, TypeOK
  <2>5. StackOK' /\ ControlOK'
    BY <1>4, <2>1, <2>2 DEF BeginTree, Inv, StackOK, ControlOK, Cloning
  <2> QED BY <1>1, <1>4, <2>4, <2>5, SameGrows DEF BeginTree, Inv
<1>5. ASSUME NEW b, stack = << >>, next <= Len(source.variables),
             dest' = WithVariable(WithBlock(dest, b), Variable.name, NewNumber(dest)),
             next' = next + 1, pc' = "next",
             UNCHANGED << source, arg, result, stack, map, before >>
      PROVE  Inv' /\ Grows(dest, dest')
  <2> DEFINE f == WithBlock(dest, b)
  <2>1. /\ Grows(dest, f) /\ f.variables = dest.variables /\ IsFile(f)
        /\ NewNumber(dest) \in Numbers(f)
    BY <1>1, BlockAdded DEF Grows
  <2> HIDE DEF f
  <2>2. dest' = WithVariable(f, Variable.name, NewNumber(dest))
    BY <1>5 DEF f
  <2>3. /\ Grows(f, dest') /\ dest'.blocks = f.blocks
        /\ DOMAIN dest'.variables = DOMAIN f.variables \cup {Len(f.variables) + 1}
        /\ dest'.variables[Len(f.variables) + 1].index = NewNumber(dest)
        /\ \A k \in DOMAIN f.variables : dest'.variables[k] = f.variables[k]
    BY <2>1, <2>2, VariableAdded
  <2>4. Grows(dest, dest') /\ Numbers(dest') = Numbers(f) /\ Numbers(dest) \subseteq Numbers(dest')
    BY <2>1, <2>3 DEF Grows, Numbers, Block
  <2>5. \A k \in DOMAIN dest'.variables : dest'.variables[k].index \in Numbers(dest')
    BY <2>1, <2>3, <2>4 DEF Inv, TypeOK
  <2>6. \A n \in DOMAIN map' : n \in Numbers(source') /\ map'[n] \in Numbers(dest')
    BY <1>5, <2>4 DEF Inv, TypeOK
  <2>7. before' \in 0 .. Len(dest'.blocks)
    BY <1>1, <1>5, <2>4 DEF Inv, TypeOK, Grows
  <2>8. TypeOK'
    BY <1>1, <1>5, <2>5, <2>6, <2>7 DEF Inv, TypeOK
  <2>9. StackOK' /\ ControlOK'
    BY <1>5 DEF Inv, StackOK, ControlOK, Cloning
  <2> QED BY <2>4, <2>8, <2>9 DEF Inv, Grows
<1>6. CASE CopyOpaque
  <2>1. stack = << >>
    BY <1>6 DEF CopyOpaque, Inv, ControlOK, Cloning
  <2> QED BY <1>5, <1>6, <2>1 DEF CopyOpaque
<1>7. CASE RegisterTree
  <2>1. next <= Len(source.variables)
    BY <1>7 DEF RegisterTree, Inv, ControlOK, Cloning
  <2> QED BY <1>5, <1>7, <2>1 DEF RegisterTree
<1> QED BY <1>2, <1>3, <1>4, <1>6, <1>7

(* A block that is there stays as it is, or an open call has reserved it. *)
BlocksStep ==
  \A i \in Numbers(dest) :
    Block(dest, i)' = Block(dest, i) \/ \E k \in DOMAIN stack : stack[k].reserved = i

(* Every step keeps the invariant and what is finished in the destination. *)
LEMMA StepKeeps ==
  ASSUME Inv, [Next]_vars
  PROVE  Inv' /\ BlocksStep
<1>1. ASSUME Grows(dest, dest') \/ UNCHANGED dest PROVE BlocksStep
  BY <1>1 DEF Grows, BlocksStep, Block
<1>2. CASE UNCHANGED vars
  <2>1. Inv'
    BY <1>2 DEF vars, Inv, TypeOK, StackOK, ControlOK
  <2> QED BY <1>1, <1>2, <2>1 DEF vars
<1>3. CASE SkipVariable \/ CopyOpaque \/ BeginTree \/ RegisterTree \/ AllVisited
  BY <1>1, <1>3, VariablesKeep
<1>4. CASE EnterKnown \/ EnterForeign
  BY <1>1, <1>4, EnterKeeps
<1>5. CASE EnterNode
  BY <1>1, <1>5, EnterNodeKeeps
<1>6. CASE CloneSlot
  BY <1>1, <1>6, CloneSlotKeeps
<1>7. CASE \/ CloneForward \/ NoForward \/ ForwardReturned \/ LinkBackward
           \/ Redirect \/ RedirectNowhere \/ RedirectReturned
  BY <1>1, <1>7, LinksKeep
<1>8. CASE Finish
  BY <1>8, FinishKeeps DEF BlocksStep, Block
<1> QED BY <1>2, <1>3, <1>4, <1>5, <1>6, <1>7, <1>8 DEF Next, CloneEntry

(* The invariant holds before the first call. *)
LEMMA InitHolds ==
  ASSUME Init
  PROVE  Inv
<1>1. source \in Sources /\ dest = Written /\ IsFile(dest) /\ IsFile(source)
  BY FilesAssumption DEF Init
<1>2. Len(source.variables) \in Nat /\ Len(dest.blocks) \in Nat
  BY <1>1, FileParts
<1>3. stack = << >> /\ map = << >> /\ stack \in Seq(Frames) /\ DOMAIN stack = {} /\ DOMAIN map = {}
  BY DEF Init
<1>4. \A k \in DOMAIN dest.variables : dest.variables[k].index \in Numbers(dest)
  BY <1>1, FilesAssumption
<1>5. TypeOK
  BY <1>1, <1>2, <1>3, <1>4 DEF Init, TypeOK
<1> QED BY <1>1, <1>3, <1>5 DEF Init, Inv, StackOK, ControlOK, Cloning

(* The numbers that a cloner gives, and those the variables get, are the   *)
(* numbers of blocks of the destination, for all files, of leaves in any   *)
(* order and to any depth; an open call is in the map with what it has     *)
(* reserved.                                                               *)
THEOREM TypeCorrect == Spec => []TypeOK
<1>1. Inv => TypeOK
  BY DEF Inv
<1> QED BY <1>1, InitHolds, StepKeeps, PTL DEF Spec

(* No block of the destination changes but under the call that reserved    *)
(* it: the writer's blocks and the finished trees stay, for all files.     *)
THEOREM FinishedBlocksAreKept == Spec => FinishedBlocksStay
<1>1. Inv /\ [Next]_vars =>
        [\A i \in Numbers(dest) :
           \/ Block(dest, i)' = Block(dest, i)
           \/ \E k \in DOMAIN stack : stack[k].reserved = i]_vars
  BY StepKeeps DEF BlocksStep
<1> QED BY <1>1, InitHolds, StepKeeps, PTL DEF Spec, FinishedBlocksStay

-----------------------------------------------------------------------------
(* What a clone is.  The operators have the map as a parameter, since that *)
(* of a tree which is done is forgotten.                                   *)

LinkImage(i, m) == IF i = 0 THEN 0 ELSE m[i]

SlotImage(slot, m) ==
  [value |-> m[slot.value], key |-> IF slot.literal THEN slot.key ELSE m[slot.key],
   literal |-> slot.literal]

SlotReferences(slot) == {slot.value} \cup (IF slot.literal THEN {} ELSE {slot.key})

LeafImage(node, m) ==
  [kind |-> "node", is_leaf |-> node.is_leaf,
   slots |-> [k \in DOMAIN node.slots |-> SlotImage(node.slots[k], m)],
   forward |-> LinkImage(node.forward, m), backward |-> LinkImage(node.backward, m)]

LeafReferences(node) ==
  ({node.forward, node.backward} \ {0})
    \cup UNION {SlotReferences(node.slots[k]) : k \in DOMAIN node.slots}

(* A node that is not a leaf has its first slot redirected, if there is one. *)
Redirected(node, m) ==
  IF node.slots = << >> THEN node ELSE [node EXCEPT !.slots[1].value = m[node.slots[1].value]]

(* Block n is in the map, and so is everything that its clone refers to. *)
Faithful(src, file, m, n) ==
  LET block == Block(src, n)
      clone == Block(file, m[n])
  IN /\ block.kind # "node" => clone = block
     /\ block.kind = "node" /\ block.is_leaf =>
          LeafReferences(block) \subseteq DOMAIN m /\ clone = LeafImage(block, m)
     /\ block.kind = "node" /\ ~block.is_leaf =>
          Following(src, n) \subseteq DOMAIN m /\ clone = Redirected(block, m)

-----------------------------------------------------------------------------
(* The nodes that a child leads to are closed under what follows a node. *)
LEMMA ReachedIsClosed ==
  ASSUME NEW s, NEW child
  PROVE  /\ Reached(s, child) \subseteq NodesOf(s)
         /\ child \in NodesOf(s) => child \in Reached(s, child)
         /\ \A n \in Reached(s, child) :
              Following(s, n) \cap NodesOf(s) \subseteq Reached(s, child)
<1> DEFINE Closed(S) ==
      ({child} \cup UNION {Following(s, m) : m \in S}) \cap NodesOf(s) \subseteq S
<1>1. Reached(s, child) = {n \in NodesOf(s) : \A S \in SUBSET NodesOf(s) : Closed(S) => n \in S}
  BY Zenon DEF Reached
<1>2. ASSUME NEW S \in SUBSET NodesOf(s), Closed(S) PROVE child \in NodesOf(s) => child \in S
  BY <1>2
<1>3. ASSUME NEW S \in SUBSET NodesOf(s), Closed(S), NEW n \in S,
             NEW k \in Following(s, n), k \in NodesOf(s)
      PROVE  k \in S
  BY <1>3
<1> HIDE DEF Closed
<1> QED BY <1>1, <1>2, <1>3

(* And in every set that is closed in this way, if that has the child. *)
LEMMA ReachedIsLeast ==
  ASSUME NEW s, NEW child, NEW S, S \subseteq NodesOf(s),
         child \in NodesOf(s) => child \in S,
         \A n \in S : Following(s, n) \cap NodesOf(s) \subseteq S
  PROVE  Reached(s, child) \subseteq S
<1>1. ({child} \cup UNION {Following(s, m) : m \in S}) \cap NodesOf(s) \subseteq S
  OBVIOUS
<1> QED BY <1>1 DEF Reached

-----------------------------------------------------------------------------
(* The inductive invariant of a clone.  In the loop over the slots those   *)
(* before the present one are rewritten; then the links are.               *)
LeafFrame(frame, node, m) ==
  /\ frame.phase \in {"slots", "forward", "backward", "finish"}
  /\ frame.at <= Len(node.slots) + 1 /\ DOMAIN frame.node.slots = DOMAIN node.slots
  /\ \A k \in DOMAIN node.slots :
       IF k < frame.at
       THEN /\ SlotReferences(node.slots[k]) \subseteq DOMAIN m
            /\ frame.node.slots[k] = SlotImage(node.slots[k], m)
       ELSE frame.node.slots[k] = node.slots[k]
  /\ frame.phase # "slots" => frame.at = Len(node.slots) + 1
  /\ frame.phase = "forward" => node.forward # 0
  /\ frame.phase \in {"slots", "forward"} => frame.node.forward = node.forward
  /\ frame.phase \in {"backward", "finish"} =>
       /\ {node.forward} \ {0} \subseteq DOMAIN m
       /\ frame.node.forward = LinkImage(node.forward, m)
  /\ frame.phase # "finish" => frame.node.backward = node.backward
  /\ frame.phase = "finish" =>
       /\ {node.backward} \ {0} \subseteq DOMAIN m
       /\ frame.node.backward = LinkImage(node.backward, m)

RootFrame(frame, node, following, m) ==
  /\ frame.phase \in {"redirect", "redirected", "finish"}
  /\ frame.phase # "finish" => frame.node = node
  /\ frame.phase = "redirected" => node.slots # << >>
  /\ frame.phase = "finish" => following \subseteq DOMAIN m /\ frame.node = Redirected(node, m)

FrameOK(src, frame, m) ==
  LET node == Block(src, frame.source)
  IN /\ frame.node.is_leaf = node.is_leaf
     /\ node.is_leaf => LeafFrame(frame, node, m)
     /\ ~node.is_leaf => RootFrame(frame, node, Following(src, frame.source), m)

Child == Block(source, Variable.index).child
TreeNodes == Reached(source, Child)

(* A call whose following node may not have been looked at yet. *)
Busy(n) ==
  /\ stack # << >> /\ n = Top.source
  /\ pc = "enter" \/ (pc = "run" /\ Top.phase \in {"slots", "redirect"})

(* A call waits for that of the node which follows its own. *)
FramesOK ==
  /\ stack # << >> => stack[1].source = Child
  /\ \A k \in DOMAIN stack : stack[k].source \in TreeNodes /\ FrameOK(source, stack[k], map)
  /\ \A k \in 1 .. Len(stack) - 1 :
       /\ stack[k].phase \in {"forward", "redirected"}
       /\ stack[k + 1].source \in Following(source, stack[k].source)

(* What is passed on from one call to the other. *)
CallsOK ==
  /\ pc = "run" => Top.phase \in {"slots", "backward", "redirect", "finish"}
  /\ pc \in {"enter", "return"} /\ stack # << >> =>
       Top.phase \in {"forward", "redirected"}
  /\ pc = "enter" =>
       IF stack = << >> THEN arg = Child /\ DOMAIN map = {}
       ELSE arg \in Following(source, Top.source)
  /\ pc = "return" =>
       IF stack = << >>
       THEN IF Child \in NodesOf(source)
            THEN Child \in DOMAIN map /\ result = map[Child]
            ELSE result = Child
       ELSE \A n \in Following(source, Top.source) : n \in DOMAIN map /\ result = map[n]

(* What has been met is of the tree, and what follows it has been met, too. *)
MetOK ==
  /\ ~Skipped(Variable) /\ IsTree(Variable.index)
  /\ DOMAIN map \cap NodesOf(source) \subseteq TreeNodes
  /\ DOMAIN map # {} => Child \in DOMAIN map
  /\ \A n \in DOMAIN map \cap NodesOf(source) :
       ~Busy(n) => Following(source, n) \subseteq DOMAIN map
  /\ \A n \in DOMAIN map : map[n] >= before
  /\ IsFiniteSet(DOMAIN map) /\ Len(dest.blocks) = before + Cardinality(DOMAIN map)

(* Every node that is done is a clone, and no two have the same block. *)
ClonesOK ==
  /\ \A n, k \in DOMAIN map : map[n] = map[k] => n = k
  /\ \A n \in Finished : Faithful(source, dest, map, n)

CloneInv == Inv /\ (pc \in Cloning => FramesOK /\ CallsOK /\ MetOK) /\ ClonesOK

(* What is assumed of the tree that is cloned now. *)
LEMMA TreeParts ==
  ASSUME Inv, MetOK, pc \in Cloning
  PROVE  /\ source \in Sources /\ Child \in Children(source) /\ Child \in Nat
         /\ TreeNodes \subseteq NodesOf(source)
         /\ Child \in NodesOf(source) => Child \in TreeNodes
         /\ \A n \in TreeNodes : Following(source, n) \subseteq TreeNodes
         /\ \A n \in NodesOf(source) :
              n \in Numbers(source) /\ n \in Nat \ {0} /\ IsNode(n)
              /\ Block(source, n) \in Nodes /\ Block(source, n).kind = "node"
<1>1. /\ source \in Sources /\ next \in 1 .. Len(source.variables) /\ IsFile(source)
  BY SourceBlocks DEF Inv, TypeOK, ControlOK
<1>2. IsSeq(source.variables) /\ Len(source.variables) \in Nat
  BY <1>1, FileParts
<1>3. Variable \in ToSet(source.variables)
  BY <1>1, <1>2, ElementIn DEF Variable
<1>4. /\ Variable.name \notin Managed /\ Variable.index \in Numbers(source)
      /\ Block(source, Variable.index).kind = "tree"
  BY DEF MetOK, Skipped, Resolves, IsTree
<1>5. Child \in Children(source)
  BY <1>3, <1>4 DEF Children, Child
<1>6. Child \in Nat
  BY <1>4, SourceBlocks DEF Child, IsTree
<1>7. \A n \in NodesOf(source) :
        n \in Numbers(source) /\ n \in Nat /\ Block(source, n) \in Nodes /\ Block(source, n).kind = "node"
  BY SourceBlocks DEF NodesOf
<1>8. 0 \notin NodesOf(source)
  BY <1>1, IterationAssumption DEF DataOf
<1>9. \A n \in NodesOf(source) : n \in Nat \ {0} /\ IsNode(n)
  BY <1>7, <1>8 DEF IsNode, Resolves
<1>10. /\ TreeNodes \subseteq NodesOf(source)
       /\ Child \in NodesOf(source) => Child \in TreeNodes
       /\ \A n \in TreeNodes : Following(source, n) \cap NodesOf(source) \subseteq TreeNodes
  BY ReachedIsClosed DEF TreeNodes
<1>11. \A n \in TreeNodes : Following(source, n) \subseteq NodesOf(source)
  BY <1>1, <1>5, TreesAssumption DEF TreeNodes
<1> QED BY <1>1, <1>5, <1>6, <1>7, <1>9, <1>10, <1>11

(* And of its leaves. *)
LEMMA LeafParts ==
  ASSUME Inv, MetOK, pc \in Cloning, NEW n \in TreeNodes, Block(source, n).is_leaf
  PROVE  LET node == Block(source, n)
         IN /\ {node.backward} \ {0} \subseteq TreeNodes
            /\ Following(source, n) = {node.forward} \ {0}
            /\ \A k \in DOMAIN node.slots :
                 /\ node.slots[k] \in Slots
                 /\ SlotReferences(node.slots[k]) \subseteq DataOf(source)
                 /\ node.slots[k].literal => node.slots[k].key \notin Numbers(source)
<1> DEFINE node == Block(source, n)
<1>1. source \in Sources /\ Child \in Children(source) /\ node \in Nodes /\ n \in NodesOf(source)
  BY TreeParts
<1>2. /\ {node.backward} \ {0} \subseteq TreeNodes
      /\ \A slot \in ToSet(node.slots) :
           /\ slot.value \in DataOf(source)
           /\ IF slot.literal THEN slot.key \notin Numbers(source) ELSE slot.key \in DataOf(source)
  BY <1>1, TreesAssumption DEF TreeNodes
<1>3. Following(source, n) = {node.forward} \ {0}
  BY DEF Following
<1>4. node.slots \in Seq(Slots)
  BY <1>1 DEF Nodes
<1>5. \A k \in DOMAIN node.slots : node.slots[k] \in Slots /\ node.slots[k] \in ToSet(node.slots)
  BY <1>4, LenProperties, ElementOfSeq DEF ToSet
<1> HIDE DEF node
<1>6. \A k \in DOMAIN node.slots :
        /\ SlotReferences(node.slots[k]) \subseteq DataOf(source)
        /\ node.slots[k].literal => node.slots[k].key \notin Numbers(source)
  BY <1>2, <1>5 DEF SlotReferences
<1> QED BY <1>2, <1>3, <1>5, <1>6 DEF node

(* A map that knows more. *)
Extended(m, m2) ==
  DOMAIN m \subseteq DOMAIN m2 /\ \A n \in DOMAIN m : m2[n] = m[n]

(* What is referred to has the same image under it. *)
LEMMA ImagesStay ==
  ASSUME NEW m, NEW m2, Extended(m, m2)
  PROVE  /\ \A slot : SlotReferences(slot) \subseteq DOMAIN m => SlotImage(slot, m2) = SlotImage(slot, m)
         /\ \A i : {i} \ {0} \subseteq DOMAIN m => LinkImage(i, m2) = LinkImage(i, m)
<1>1. ASSUME NEW slot, SlotReferences(slot) \subseteq DOMAIN m
      PROVE  SlotImage(slot, m2) = SlotImage(slot, m)
  <2>1. CASE slot.literal
    BY <1>1, <2>1 DEF SlotReferences, SlotImage, Extended
  <2>2. CASE ~slot.literal
    BY <1>1, <2>2 DEF SlotReferences, SlotImage, Extended
  <2> QED BY <2>1, <2>2
<1>2. ASSUME NEW i, {i} \ {0} \subseteq DOMAIN m PROVE LinkImage(i, m2) = LinkImage(i, m)
  BY <1>2 DEF LinkImage, Extended
<1> QED BY <1>1, <1>2

(* A frame that is right stays so. *)
LEMMA FrameStays ==
  ASSUME NEW m, NEW m2, Extended(m, m2), NEW src, NEW frame, FrameOK(src, frame, m),
         Block(src, frame.source) \in Nodes
  PROVE  FrameOK(src, frame, m2)
<1> DEFINE node == Block(src, frame.source)
           F == Following(src, frame.source)
<1>1. CASE node.is_leaf
  <2>1. LeafFrame(frame, node, m)
    BY <1>1 DEF FrameOK
  <2>2. ASSUME NEW k \in DOMAIN node.slots, k < frame.at
        PROVE  /\ SlotReferences(node.slots[k]) \subseteq DOMAIN m2
               /\ frame.node.slots[k] = SlotImage(node.slots[k], m2)
    <3>1. /\ SlotReferences(node.slots[k]) \subseteq DOMAIN m
          /\ frame.node.slots[k] = SlotImage(node.slots[k], m)
      BY <2>1, <2>2 DEF LeafFrame
    <3> HIDE DEF node
    <3> QED BY <3>1, ImagesStay DEF Extended
  <2> HIDE DEF node
  <2>3. ASSUME frame.phase \in {"backward", "finish"}
        PROVE  /\ {node.forward} \ {0} \subseteq DOMAIN m2
               /\ frame.node.forward = LinkImage(node.forward, m2)
    BY <2>1, <2>3, ImagesStay, ZenonT(40) DEF LeafFrame, Extended
  <2>4. ASSUME frame.phase = "finish"
        PROVE  /\ {node.backward} \ {0} \subseteq DOMAIN m2
               /\ frame.node.backward = LinkImage(node.backward, m2)
    BY <2>1, <2>4, ImagesStay DEF LeafFrame, Extended
  <2>5. LeafFrame(frame, node, m2)
    BY <2>1, <2>2, <2>3, <2>4 DEF LeafFrame
  <2> QED BY <1>1, <2>5 DEF FrameOK, node
<1>2. CASE ~node.is_leaf
  <2>1. RootFrame(frame, node, F, m)
    BY <1>2 DEF FrameOK
  <2>2. ASSUME F \subseteq DOMAIN m PROVE Redirected(node, m2) = Redirected(node, m)
    <3>1. node.slots \in Seq(Slots)
      BY DEF Nodes
    <3>2. CASE node.slots = << >>
      BY <3>2 DEF Redirected
    <3>3. CASE node.slots # << >>
      <4>1. 1 \in DOMAIN node.slots
        BY <3>1, <3>3, EmptySeq, LenProperties
      <4>2. node.slots[1].value \in F
        BY <1>2, <4>1 DEF Following
      <4> HIDE DEF node, F
      <4> QED BY <2>2, <4>2 DEF Redirected, Extended
    <3> QED BY <3>2, <3>3
  <2> HIDE DEF node, F
  <2>3. RootFrame(frame, node, F, m2)
    BY <2>1, <2>2 DEF RootFrame, Extended
  <2> QED BY <1>2, <2>3 DEF FrameOK, node, F
<1> QED BY <1>1, <1>2 DEF FrameOK

(* So does a clone, as long as its block does. *)
LEMMA FaithfulStays ==
  ASSUME NEW s, NEW f, NEW g, NEW m, NEW m2, Extended(m, m2), NEW n \in DOMAIN m,
         Block(s, n).kind = "node" => Block(s, n) \in Nodes,
         Faithful(s, f, m, n), Block(g, m[n]) = Block(f, m[n])
  PROVE  Faithful(s, g, m2, n)
<1> DEFINE block == Block(s, n)
           clone == Block(f, m[n])
           F == Following(s, n)
<1>1. Block(g, m2[n]) = clone
  BY DEF Extended
<1>2. CASE block.kind # "node"
  BY <1>1, <1>2 DEF Faithful
<1>3. CASE block.kind = "node" /\ block.is_leaf
  <2>1. LeafReferences(block) \subseteq DOMAIN m /\ clone = LeafImage(block, m)
    BY <1>3 DEF Faithful
  <2> HIDE DEF block
  <2>2. /\ {block.forward} \ {0} \subseteq DOMAIN m /\ {block.backward} \ {0} \subseteq DOMAIN m
        /\ \A k \in DOMAIN block.slots : SlotReferences(block.slots[k]) \subseteq DOMAIN m
    BY <2>1 DEF LeafReferences
  <2>3. LeafImage(block, m2) = LeafImage(block, m)
    BY <2>2, ImagesStay DEF LeafImage
  <2> QED BY <1>1, <1>3, <2>1, <2>3 DEF Faithful, Extended, block
<1>4. CASE block.kind = "node" /\ ~block.is_leaf
  <2>1. F \subseteq DOMAIN m /\ clone = Redirected(block, m)
    BY <1>4 DEF Faithful
  <2>2. Redirected(block, m2) = Redirected(block, m)
    <3>1. CASE block.slots = << >>
      BY <3>1 DEF Redirected
    <3>2. CASE block.slots # << >>
      <4>1. 1 \in DOMAIN block.slots
        <5>1. block.slots \in Seq(Slots)
          BY <1>4 DEF Nodes
        <5> QED BY <3>2, <5>1, EmptySeq, LenProperties
      <4>2. block.slots[1].value \in F
        BY <1>4, <4>1 DEF Following
      <4> HIDE DEF block, F
      <4> QED BY <2>1, <4>2 DEF Redirected, Extended
    <3> QED BY <3>1, <3>2
  <2> HIDE DEF F
  <2> QED BY <1>1, <1>4, <2>1, <2>2 DEF Faithful, Extended, F
<1> QED BY <1>2, <1>3, <1>4

-----------------------------------------------------------------------------
(* A step of the innermost call, and the links of a leaf.                  *)

(* The places of a stack but the last. *)
LEMMA Below ==
  ASSUME NEW m \in Nat, NEW k \in 1 .. m - 1
  PROVE  k \in 1 .. m /\ k # m /\ k + 1 \in 1 .. m
OBVIOUS

(* The stack after the innermost frame has been replaced. *)
LEMMA TopNow ==
  ASSUME Inv, stack # << >>, NEW frame, stack' = [stack EXCEPT ![Len(stack)] = frame]
  PROVE  /\ Len(stack') = Len(stack) /\ Len(stack) \in Nat \ {0} /\ stack' # << >>
         /\ DOMAIN stack = 1 .. Len(stack) /\ DOMAIN stack' = 1 .. Len(stack)
         /\ Top = stack[Len(stack)] /\ Top' = frame /\ stack'[Len(stack)] = frame
         /\ \A k \in 1 .. Len(stack) - 1 : stack'[k] = stack[k]
<1>1. /\ stack \in Seq(Frames) /\ Len(stack) \in Nat \ {0} /\ Len(stack) \in 1 .. Len(stack)
      /\ DOMAIN stack = 1 .. Len(stack) /\ Top = stack[Len(stack)]
  BY TopIsFrame DEF Inv, StackOK
<1>2. IsSeq(stack) /\ stack' = WithAt(stack, Len(stack), frame)
  BY <1>1, SeqOfItsElements DEF WithAt
<1>3. /\ IsSeq(stack') /\ Len(stack') = Len(stack) /\ stack'[Len(stack)] = frame
      /\ \A k \in 1 .. Len(stack) : k # Len(stack) => stack'[k] = stack[k]
  <2> DEFINE t == WithAt(stack, Len(stack), frame)
  <2>1. /\ IsSeq(t) /\ Len(t) = Len(stack) /\ t[Len(stack)] = frame
        /\ \A k \in 1 .. Len(stack) : k # Len(stack) => t[k] = stack[k]
    <3> DEFINE i == Len(stack)
    <3>1. IsSeq(stack) /\ i \in 1 .. Len(stack)
      BY <1>1, <1>2
    <3> HIDE DEF i
    <3>2. /\ IsSeq(WithAt(stack, i, frame)) /\ Len(WithAt(stack, i, frame)) = Len(stack)
          /\ WithAt(stack, i, frame)[i] = frame
          /\ \A k \in 1 .. Len(stack) : k # i => WithAt(stack, i, frame)[k] = stack[k]
      BY <3>1, Replaced
    <3> QED BY <3>2 DEF i
  <2> HIDE DEF t
  <2>2. stack' = t
    BY <1>2 DEF t
  <2> QED BY <2>1, <2>2, Zenon
<1>4. DOMAIN stack' = 1 .. Len(stack) /\ stack' # << >>
  BY <1>1, <1>3, SeqOfItsElements DEF IsSeq
<1>5. Top' = frame
  <2>1. Top' = stack'[Len(stack')]
    BY Zenon DEF Top, Last
  <2> QED BY <1>3, <2>1, Zenon
<1>6. \A k \in 1 .. Len(stack) - 1 : stack'[k] = stack[k]
  BY <1>1, <1>3, Below
<1> QED BY <1>1, <1>3, <1>4, <1>5, <1>6, Zenon

(* What is known of the call that runs. *)
LEMMA TopParts ==
  ASSUME CloneInv, pc \in Cloning, stack # << >>
  PROVE  /\ Inv /\ FramesOK /\ CallsOK /\ MetOK /\ ClonesOK
         /\ Top \in Frames /\ Top = stack[Len(stack)] /\ Len(stack) \in DOMAIN stack
         /\ Top.source \in TreeNodes /\ Block(source, Top.source) \in Nodes
         /\ Top.source \in DOMAIN map /\ Top.reserved = map[Top.source]
         /\ Block(source, Top.source).slots \in Seq(Slots)
         /\ FrameOK(source, Top, map) /\ Top.node \in Nodes /\ Top.node.slots \in Seq(Slots)
<1>1. Inv /\ FramesOK /\ CallsOK /\ MetOK /\ ClonesOK
  BY DEF CloneInv
<1>2. /\ Top \in Frames /\ Top = stack[Len(stack)] /\ Len(stack) \in DOMAIN stack
      /\ Top.node \in Nodes
  BY <1>1, TopIsFrame
<1>3. Top.source \in TreeNodes /\ FrameOK(source, Top, map)
  BY <1>1, <1>2 DEF FramesOK
<1>4. Block(source, Top.source) \in Nodes
  BY <1>1, <1>3, TreeParts
<1>5. Top.source \in DOMAIN map /\ Top.reserved = map[Top.source]
  BY <1>1, <1>2 DEF Inv, StackOK, TypeOK
<1> QED BY <1>1, <1>2, <1>3, <1>4, <1>5 DEF Nodes

(* A step of the call that runs in its own buffer. *)
LEMMA FrameStep ==
  ASSUME CloneInv, Inv', pc \in Cloning, pc' \in Cloning, stack # << >>,
         UNCHANGED << source, dest, next, map, before >>,
         NEW frame, frame.source = Top.source, FrameOK(source, frame, map),
         stack' = [stack EXCEPT ![Len(stack)] = frame], CallsOK',
         \/ Following(source, Top.source) \subseteq DOMAIN map
         \/ pc' = "enter" \/ (pc' = "run" /\ frame.phase \in {"slots", "redirect"})
  PROVE  CloneInv'
<1>1. /\ Inv /\ FramesOK /\ CallsOK /\ MetOK /\ ClonesOK /\ Top.source \in TreeNodes
  BY TopParts
<1>2. /\ Len(stack') = Len(stack) /\ Len(stack) \in Nat \ {0} /\ stack' # << >>
      /\ DOMAIN stack = 1 .. Len(stack) /\ DOMAIN stack' = 1 .. Len(stack)
      /\ Top = stack[Len(stack)] /\ Top' = frame /\ stack'[Len(stack)] = frame
      /\ \A k \in 1 .. Len(stack) - 1 : stack'[k] = stack[k]
  BY <1>1, TopNow
<1>3. \A k \in DOMAIN stack : stack'[k].source = stack[k].source
  BY <1>2
<1>4. TreeNodes' = TreeNodes /\ Child' = Child /\ Variable' = Variable
  BY DEF TreeNodes, Child, Variable
<1>5. FramesOK'
  <2>1. ASSUME NEW k \in DOMAIN stack'
        PROVE  stack'[k].source \in TreeNodes /\ FrameOK(source, stack'[k], map)
    <3>1. stack[k].source \in TreeNodes /\ FrameOK(source, stack[k], map)
      BY <1>1, <1>2, <2>1 DEF FramesOK
    <3>2. CASE k = Len(stack)
      BY <1>1, <1>2, <3>2
    <3>3. CASE k # Len(stack)
      BY <1>2, <2>1, <3>1, <3>3
    <3> QED BY <3>2, <3>3
  <2>2. ASSUME NEW k \in 1 .. Len(stack) - 1
        PROVE  /\ stack'[k].phase \in {"forward", "redirected"}
               /\ stack'[k + 1].source \in Following(source, stack'[k].source)
    <3>1. /\ stack[k].phase \in {"forward", "redirected"}
          /\ stack[k + 1].source \in Following(source, stack[k].source)
      BY <1>1, <2>2, Zenon DEF FramesOK
    <3>2. k + 1 \in DOMAIN stack
      BY <1>2, <2>2, Below
    <3> QED BY <1>2, <1>3, <2>2, <3>1, <3>2
  <2>3. 1 \in DOMAIN stack /\ stack'[1].source = Child
    <3>1. 1 \in DOMAIN stack
      <4>1. DOMAIN stack = 1 .. Len(stack) /\ Len(stack) \in Nat /\ Len(stack) # 0
        BY <1>2
      <4> QED BY <4>1
    <3>2. stack[1].source = Child
      BY <1>1 DEF FramesOK
    <3> QED BY <1>3, <3>1, <3>2
  <2> QED BY <1>2, <1>4, <2>1, <2>2, <2>3 DEF FramesOK
<1>6. MetOK'
  <2>1. ASSUME NEW n \in DOMAIN map \cap NodesOf(source), ~Busy(n)'
        PROVE  Following(source, n) \subseteq DOMAIN map
    <3>1. CASE n = Top.source
      <4>1. ~(pc' = "enter" \/ (pc' = "run" /\ frame.phase \in {"slots", "redirect"}))
        BY <1>2, <2>1, <3>1 DEF Busy
      <4> QED BY <3>1, <4>1
    <3>2. CASE n # Top.source
      <4>1. ~Busy(n)
        BY <3>2 DEF Busy
      <4> QED BY <1>1, <2>1, <4>1 DEF MetOK
    <3> QED BY <3>1, <3>2
  <2>2. /\ ~Skipped(Variable)' /\ IsTree(Variable.index)'
    BY <1>1, <1>4 DEF MetOK, Skipped, IsTree, Resolves
  <2> QED BY <1>1, <1>4, <2>1, <2>2 DEF MetOK
<1>7. ClonesOK'
  <2>1. Finished' = Finished
    <3>1. DOMAIN stack' = DOMAIN stack
      BY <1>2
    <3> QED BY <1>3, <3>1 DEF Finished
  <2> QED BY <1>1, <2>1 DEF ClonesOK
<1> QED BY <1>5, <1>6, <1>7 DEF CloneInv

(* The frame that a link action leaves. *)
With(frame, node, phase) == [frame EXCEPT !.node = node, !.phase = phase]

(* The call that runs has that frame after it. *)
LEMMA LinkFrame ==
  ASSUME CloneInv, pc \in Cloning, stack # << >>, NEW node \in Nodes, NEW phase \in Phases,
         TopBecomes(node, phase)
  PROVE  /\ stack' = [stack EXCEPT ![Len(stack)] = With(Top, node, phase)]
         /\ With(Top, node, phase).source = Top.source /\ With(Top, node, phase).at = Top.at
         /\ With(Top, node, phase).node = node /\ With(Top, node, phase).phase = phase
         /\ Top' = With(Top, node, phase) /\ stack' # << >>
<1>1. Inv /\ Top \in Frames /\ Top = stack[Len(stack)] /\ Len(stack) \in DOMAIN stack
  BY TopParts
<1> DEFINE frame == With(Top, node, phase)
<1>2. /\ frame.source = Top.source /\ frame.at = Top.at
      /\ frame.node = node /\ frame.phase = phase
  BY <1>1 DEF Frames, With
<1>3. stack' = [stack EXCEPT ![Len(stack)] = frame]
  BY <1>1 DEF TopBecomes, With
<1> HIDE DEF frame
<1>4. Top' = frame /\ stack' # << >>
  BY <1>1, <1>3, TopNow
<1> QED BY <1>2, <1>3, <1>4 DEF frame

(* The fields of a node after a link or a slot has been written. *)
LEMMA NodeFields ==
  ASSUME NEW node \in Nodes, NEW x
  PROVE  /\ LET new == [node EXCEPT !.forward = x]
            IN /\ new.forward = x /\ new.backward = node.backward /\ new.slots = node.slots
               /\ new.is_leaf = node.is_leaf /\ (x \in Nat => new \in Nodes)
         /\ LET new == [node EXCEPT !.backward = x]
            IN /\ new.backward = x /\ new.forward = node.forward /\ new.slots = node.slots
               /\ new.is_leaf = node.is_leaf /\ (x \in Nat => new \in Nodes)
         /\ LET new == [node EXCEPT !.slots = x]
            IN /\ new.slots = x /\ new.forward = node.forward /\ new.backward = node.backward
               /\ new.is_leaf = node.is_leaf /\ (x \in Seq(Slots) => new \in Nodes)
BY DEF Nodes

(* From a leaf whose slots are done to the leaf that follows. *)
LEMMA CloneForwardStep ==
  ASSUME CloneInv, Inv', CloneForward
  PROVE  CloneInv'
<1> DEFINE node == Block(source, Top.source)
           frame == With(Top, Top.node, "forward")
<1>1. /\ pc \in Cloning /\ pc' = "enter" /\ pc' \in Cloning /\ stack # << >> /\ Inv
      /\ TopBecomes(Top.node, "forward") /\ arg' = Top.node.forward
      /\ Top.phase = "slots" /\ Top.at > Len(Top.node.slots) /\ Top.node.forward # 0
      /\ UNCHANGED << source, dest, next, map, before >>
  BY DEF CloneForward, CallFrom, SlotsDone, Running, CloneInv, Inv, ControlOK, Cloning
<1>2. /\ Top \in Frames /\ Top.source \in TreeNodes /\ node \in Nodes /\ Top.node \in Nodes
      /\ FrameOK(source, Top, map) /\ MetOK
      /\ node.slots \in Seq(Slots) /\ Top.node.slots \in Seq(Slots) /\ Top.at \in Nat
  BY <1>1, TopParts DEF Frames
<1>3. /\ stack' = [stack EXCEPT ![Len(stack)] = frame]
      /\ frame.source = Top.source /\ frame.at = Top.at /\ frame.node = Top.node
      /\ frame.phase = "forward" /\ Top' = frame /\ stack' # << >>
  <2>1. "forward" \in Phases /\ "backward" \in Phases
    BY DEF Phases
  <2>2. TopBecomes(Top.node, "forward") /\ pc \in Cloning /\ stack # << >> /\ Top.node \in Nodes
    BY <1>1, <1>2
  <2> QED BY <2>1, <2>2, LinkFrame, Zenon
<1> HIDE DEF frame
<1>4. node.is_leaf /\ LeafFrame(Top, node, map) /\ Top.node.is_leaf = node.is_leaf
  BY <1>1, <1>2 DEF FrameOK, RootFrame
<1> HIDE DEF node
<1>5. Len(Top.node.slots) = Len(node.slots) /\ Len(node.slots) \in Nat
  BY <1>2, <1>4, LenProperties DEF LeafFrame
<1>6. Top.at = Len(node.slots) + 1
  BY <1>1, <1>2, <1>4, <1>5 DEF LeafFrame
<1>7. node.forward # 0 /\ arg' = node.forward
  BY <1>1, <1>4 DEF LeafFrame
<1>8. LeafFrame(frame, node, map)
  BY <1>1, <1>3, <1>4, <1>6, <1>7 DEF LeafFrame
<1>9. FrameOK(source, frame, map)
  BY <1>3, <1>4, <1>8 DEF FrameOK, node
<1>10. arg' \in Following(source, Top.source)
  BY <1>4, <1>7 DEF Following, node
<1>11. CallsOK'
  BY <1>1, <1>3, <1>10 DEF CallsOK
<1> QED BY <1>1, <1>3, <1>9, <1>11, FrameStep

(* No leaf follows. *)
LEMMA NoForwardStep ==
  ASSUME CloneInv, Inv', NoForward
  PROVE  CloneInv'
<1> DEFINE node == Block(source, Top.source)
           frame == With(Top, Top.node, "backward")
<1>1. /\ pc \in Cloning /\ pc' = "run" /\ pc' \in Cloning /\ stack # << >> /\ Inv
      /\ TopBecomes(Top.node, "backward")
      /\ Top.phase = "slots" /\ Top.at > Len(Top.node.slots) /\ Top.node.forward = 0
      /\ UNCHANGED << source, dest, next, map, before >>
  BY DEF NoForward, SlotsDone, Running, CloneInv, Inv, ControlOK, Cloning
<1>2. /\ Top \in Frames /\ Top.source \in TreeNodes /\ node \in Nodes /\ Top.node \in Nodes
      /\ FrameOK(source, Top, map) /\ MetOK
      /\ node.slots \in Seq(Slots) /\ Top.node.slots \in Seq(Slots) /\ Top.at \in Nat
  BY <1>1, TopParts DEF Frames
<1>3. /\ stack' = [stack EXCEPT ![Len(stack)] = frame]
      /\ frame.source = Top.source /\ frame.at = Top.at /\ frame.node = Top.node
      /\ frame.phase = "backward" /\ Top' = frame /\ stack' # << >>
  <2>1. "forward" \in Phases /\ "backward" \in Phases
    BY DEF Phases
  <2>2. TopBecomes(Top.node, "backward") /\ pc \in Cloning /\ stack # << >> /\ Top.node \in Nodes
    BY <1>1, <1>2
  <2> QED BY <2>1, <2>2, LinkFrame, Zenon
<1> HIDE DEF frame
<1>4. node.is_leaf /\ LeafFrame(Top, node, map) /\ Top.node.is_leaf = node.is_leaf
  BY <1>1, <1>2 DEF FrameOK, RootFrame
<1> HIDE DEF node
<1>5. Len(Top.node.slots) = Len(node.slots) /\ Len(node.slots) \in Nat
  BY <1>2, <1>4, LenProperties DEF LeafFrame
<1>6. Top.at = Len(node.slots) + 1
  BY <1>1, <1>2, <1>4, <1>5 DEF LeafFrame
<1>7. node.forward = 0
  BY <1>1, <1>4 DEF LeafFrame
<1>8. LeafFrame(frame, node, map)
  BY <1>1, <1>3, <1>4, <1>6, <1>7 DEF LeafFrame, LinkImage
<1>9. FrameOK(source, frame, map)
  BY <1>3, <1>4, <1>8 DEF FrameOK, node
<1>10. Following(source, Top.source) = {}
  BY <1>4, <1>7 DEF Following, node
<1>11. CallsOK'
  BY <1>1, <1>3 DEF CallsOK
<1> QED BY <1>1, <1>3, <1>9, <1>10, <1>11, FrameStep

(* The call for the leaf that follows has returned: its number is linked. *)
LEMMA ForwardReturnedStep ==
  ASSUME CloneInv, Inv', ForwardReturned
  PROVE  CloneInv'
<1> DEFINE node == Block(source, Top.source)
           new == Linked(Top.node, result)
           frame == With(Top, new, "backward")
<1>1. /\ pc \in Cloning /\ pc = "return" /\ pc' = "run" /\ pc' \in Cloning /\ stack # << >> /\ Inv
      /\ TopBecomes(new, "backward") /\ Top.phase = "forward" /\ result \in Nat
      /\ UNCHANGED << source, dest, next, map, before >>
  BY DEF ForwardReturned, CloneInv, Inv, TypeOK, Cloning
<1>2. /\ Top \in Frames /\ Top.source \in TreeNodes /\ node \in Nodes /\ Top.node \in Nodes
      /\ FrameOK(source, Top, map) /\ MetOK /\ CallsOK
  BY <1>1, TopParts
<1>3. /\ new.forward = result /\ new.backward = Top.node.backward /\ new.slots = Top.node.slots
      /\ new.is_leaf = Top.node.is_leaf /\ new \in Nodes
  BY <1>1, <1>2, NodeFields DEF Linked
<1> HIDE DEF new
<1>4. /\ stack' = [stack EXCEPT ![Len(stack)] = frame]
      /\ frame.source = Top.source /\ frame.at = Top.at /\ frame.node = new
      /\ frame.phase = "backward" /\ Top' = frame /\ stack' # << >>
  BY <1>1, <1>3, LinkFrame DEF Phases
<1> HIDE DEF frame
<1>5. node.is_leaf /\ LeafFrame(Top, node, map) /\ Top.node.is_leaf = node.is_leaf
  BY <1>1, <1>2 DEF FrameOK, RootFrame
<1>6. /\ \A n \in Following(source, Top.source) : n \in DOMAIN map /\ result = map[n]
      /\ Following(source, Top.source) = {node.forward} \ {0}
  BY <1>1, <1>2, <1>5, Zenon DEF CallsOK, Following
<1> HIDE DEF node
<1>7. node.forward # 0
  BY <1>1, <1>5 DEF LeafFrame
<1>8. node.forward \in DOMAIN map /\ result = LinkImage(node.forward, map)
  BY <1>6, <1>7 DEF LinkImage
<1>9. LeafFrame(frame, node, map)
  BY <1>1, <1>3, <1>4, <1>5, <1>8 DEF LeafFrame
<1>10. FrameOK(source, frame, map)
  BY <1>3, <1>4, <1>5, <1>9 DEF FrameOK, node
<1>11. Following(source, Top.source) \subseteq DOMAIN map
  BY <1>6
<1>12. CallsOK'
  BY <1>1, <1>4 DEF CallsOK
<1> QED BY <1>1, <1>4, <1>10, <1>11, <1>12, FrameStep

(* When the link backward is looked up the whole tree has been met. *)
LEMMA AllMet ==
  ASSUME CloneInv, pc = "run", stack # << >>, Top.phase \in {"backward", "finish"}
  PROVE  TreeNodes \subseteq DOMAIN map
<1> DEFINE S == DOMAIN map \cap NodesOf(source)
<1>1. pc \in Cloning /\ MetOK /\ Inv /\ Top.source \in DOMAIN map
  BY TopParts DEF Cloning
<1>2. \A n \in S : ~Busy(n)
  BY DEF Busy
<1>3. \A n \in S : Following(source, n) \subseteq DOMAIN map
  BY <1>1, <1>2 DEF MetOK
<1>4. Child \in DOMAIN map
  BY <1>1 DEF MetOK
<1>5. /\ S \subseteq NodesOf(source) /\ S \subseteq DOMAIN map
      /\ Child \in NodesOf(source) => Child \in S
      /\ \A n \in S : Following(source, n) \cap NodesOf(source) \subseteq S
  BY <1>3, <1>4
<1> HIDE DEF S
<1>6. TreeNodes \subseteq S
  BY <1>5, ReachedIsLeast DEF TreeNodes
<1> QED BY <1>5, <1>6

(* The link backward is looked up: the leaf is in the map, if there is one. *)
LEMMA LinkBackwardStep ==
  ASSUME CloneInv, Inv', LinkBackward
  PROVE  CloneInv'
<1> DEFINE node == Block(source, Top.source)
           link == IF Top.node.backward # 0 THEN Mapped(Top.node.backward) ELSE 0
           new == [Top.node EXCEPT !.backward = link]
           frame == With(Top, new, "finish")
<1>1. /\ pc \in Cloning /\ pc = "run" /\ pc' = "run" /\ pc' \in Cloning /\ stack # << >> /\ Inv
      /\ TopBecomes(new, "finish") /\ Top.phase = "backward"
      /\ UNCHANGED << source, dest, next, map, before >>
  BY DEF LinkBackward, Running, CloneInv, Inv, ControlOK, Cloning
<1>2. /\ Top \in Frames /\ Top.source \in TreeNodes /\ node \in Nodes /\ Top.node \in Nodes
      /\ FrameOK(source, Top, map) /\ MetOK /\ CallsOK /\ Top.node.backward \in Nat
  BY <1>1, TopParts DEF Nodes
<1>3. node.is_leaf /\ LeafFrame(Top, node, map) /\ Top.node.is_leaf = node.is_leaf
  BY <1>1, <1>2 DEF FrameOK, RootFrame
<1>4. {node.backward} \ {0} \subseteq DOMAIN map
  BY <1>1, <1>2, <1>3, LeafParts, AllMet
<1>5. /\ Following(source, Top.source) = {node.forward} \ {0}
  BY <1>3 DEF Following
<1>6. Top.node.backward = node.backward /\ {node.forward} \ {0} \subseteq DOMAIN map
  BY <1>1, <1>3 DEF LeafFrame
<1>7. link = LinkImage(node.backward, map) /\ link \in Nat
  BY <1>1, <1>2, <1>4, <1>6, MapNumbers DEF Mapped, LinkImage
<1> HIDE DEF link
<1>8. /\ new.forward = Top.node.forward /\ new.backward = link /\ new.slots = Top.node.slots
      /\ new.is_leaf = Top.node.is_leaf /\ new \in Nodes
  BY <1>2, <1>7 DEF Nodes
<1> HIDE DEF new
<1>9. /\ stack' = [stack EXCEPT ![Len(stack)] = frame]
      /\ frame.source = Top.source /\ frame.at = Top.at /\ frame.node = new
      /\ frame.phase = "finish" /\ Top' = frame /\ stack' # << >>
  BY <1>1, <1>8, LinkFrame DEF Phases
<1> HIDE DEF frame
<1> HIDE DEF node
<1>10. LeafFrame(frame, node, map)
  BY <1>1, <1>3, <1>4, <1>7, <1>8, <1>9 DEF LeafFrame
<1>11. FrameOK(source, frame, map)
  BY <1>3, <1>8, <1>9, <1>10 DEF FrameOK, node
<1>12. CallsOK'
  BY <1>1, <1>9 DEF CallsOK
<1> QED BY <1>1, <1>5, <1>6, <1>9, <1>11, <1>12, FrameStep

-----------------------------------------------------------------------------
(* Nodes that are not leaves, and the calls that return at once.           *)

(* From a node that is not a leaf to that of its first slot. *)
LEMMA RedirectStep ==
  ASSUME CloneInv, Inv', Redirect
  PROVE  CloneInv'
<1> DEFINE node == Block(source, Top.source)
           frame == With(Top, Top.node, "redirected")
<1>1. /\ pc \in Cloning /\ pc' = "enter" /\ pc' \in Cloning /\ stack # << >> /\ Inv
      /\ TopBecomes(Top.node, "redirected") /\ arg' = Top.node.slots[1].value
      /\ Top.phase = "redirect" /\ Top.node.slots # << >>
      /\ UNCHANGED << source, dest, next, map, before >>
  BY DEF Redirect, CallFrom, Running, CloneInv, Inv, ControlOK, Cloning
<1>2. /\ Top \in Frames /\ Top.source \in TreeNodes /\ node \in Nodes /\ Top.node \in Nodes
      /\ FrameOK(source, Top, map) /\ MetOK
      /\ node.slots \in Seq(Slots)
  BY <1>1, TopParts
<1>3. /\ stack' = [stack EXCEPT ![Len(stack)] = frame]
      /\ frame.source = Top.source /\ frame.at = Top.at /\ frame.node = Top.node
      /\ frame.phase = "redirected" /\ Top' = frame /\ stack' # << >>
  <2>1. "redirected" \in Phases
    BY DEF Phases
  <2>2. TopBecomes(Top.node, "redirected") /\ pc \in Cloning /\ stack # << >> /\ Top.node \in Nodes
    BY <1>1, <1>2
  <2> QED BY <2>1, <2>2, LinkFrame, Zenon
<1> HIDE DEF frame
<1>4. /\ ~node.is_leaf /\ Top.node.is_leaf = node.is_leaf
      /\ RootFrame(Top, node, Following(source, Top.source), map)
  BY <1>1, <1>2 DEF FrameOK, LeafFrame
<1>5. Top.node = node
  BY <1>1, <1>4 DEF RootFrame
<1>6. 1 \in DOMAIN node.slots
  BY <1>1, <1>2, <1>5, EmptySeq, LenProperties
<1>7. arg' \in Following(source, Top.source)
  BY <1>1, <1>4, <1>5, <1>6 DEF Following
<1>8. RootFrame(frame, node, Following(source, Top.source), map)
  BY <1>1, <1>3, <1>5 DEF RootFrame
<1>9. FrameOK(source, frame, map)
  BY <1>3, <1>4, <1>8 DEF FrameOK
<1>10. CallsOK'
  BY <1>1, <1>3, <1>7 DEF CallsOK
<1> QED BY <1>1, <1>3, <1>9, <1>10, FrameStep

(* It has no slot. *)
LEMMA RedirectNowhereStep ==
  ASSUME CloneInv, Inv', RedirectNowhere
  PROVE  CloneInv'
<1> DEFINE node == Block(source, Top.source)
           frame == With(Top, Top.node, "finish")
<1>1. /\ pc \in Cloning /\ pc' = "run" /\ pc' \in Cloning /\ stack # << >> /\ Inv
      /\ TopBecomes(Top.node, "finish")
      /\ Top.phase = "redirect" /\ Top.node.slots = << >>
      /\ UNCHANGED << source, dest, next, map, before >>
  BY DEF RedirectNowhere, Running, CloneInv, Inv, ControlOK, Cloning
<1>2. /\ Top \in Frames /\ Top.source \in TreeNodes /\ node \in Nodes /\ Top.node \in Nodes
      /\ FrameOK(source, Top, map) /\ MetOK
  BY <1>1, TopParts
<1>3. /\ stack' = [stack EXCEPT ![Len(stack)] = frame]
      /\ frame.source = Top.source /\ frame.at = Top.at /\ frame.node = Top.node
      /\ frame.phase = "finish" /\ Top' = frame /\ stack' # << >>
  <2>1. "finish" \in Phases
    BY DEF Phases
  <2>2. TopBecomes(Top.node, "finish") /\ pc \in Cloning /\ stack # << >> /\ Top.node \in Nodes
    BY <1>1, <1>2
  <2> QED BY <2>1, <2>2, LinkFrame, Zenon
<1> HIDE DEF frame
<1>4. /\ ~node.is_leaf /\ Top.node.is_leaf = node.is_leaf
      /\ RootFrame(Top, node, Following(source, Top.source), map)
  BY <1>1, <1>2 DEF FrameOK, LeafFrame
<1>5. Top.node = node
  BY <1>1, <1>4 DEF RootFrame
<1>6. Following(source, Top.source) = {}
  BY <1>1, <1>4, <1>5 DEF Following
<1>7. RootFrame(frame, node, Following(source, Top.source), map)
  BY <1>1, <1>3, <1>5, <1>6 DEF RootFrame, Redirected
<1>8. FrameOK(source, frame, map)
  BY <1>3, <1>4, <1>7 DEF FrameOK
<1>9. CallsOK'
  BY <1>1, <1>3 DEF CallsOK
<1> QED BY <1>1, <1>3, <1>6, <1>8, <1>9, FrameStep

(* The call for it has returned: the slot gets its number. *)
LEMMA RedirectReturnedStep ==
  ASSUME CloneInv, Inv', RedirectReturned
  PROVE  CloneInv'
<1> DEFINE node == Block(source, Top.source)
           new == [Top.node EXCEPT !.slots[1].value = result]
           frame == With(Top, new, "finish")
<1>1. /\ pc \in Cloning /\ pc = "return" /\ pc' = "run" /\ pc' \in Cloning /\ stack # << >> /\ Inv
      /\ TopBecomes(new, "finish") /\ Top.phase = "redirected" /\ result \in Nat
      /\ UNCHANGED << source, dest, next, map, before >>
  BY DEF RedirectReturned, CloneInv, Inv, TypeOK, Cloning
<1>2. /\ Top \in Frames /\ Top.source \in TreeNodes /\ node \in Nodes /\ Top.node \in Nodes
      /\ FrameOK(source, Top, map) /\ MetOK /\ CallsOK
      /\ node.slots \in Seq(Slots)
  BY <1>1, TopParts
<1>3. /\ ~node.is_leaf /\ Top.node.is_leaf = node.is_leaf
      /\ RootFrame(Top, node, Following(source, Top.source), map)
  BY <1>1, <1>2 DEF FrameOK, LeafFrame
<1>4. Top.node = node /\ node.slots # << >>
  BY <1>1, <1>3 DEF RootFrame
<1>5. 1 \in DOMAIN node.slots /\ 1 \in 1 .. Len(node.slots) /\ node.slots[1] \in Slots
  <2>1. 1 \in DOMAIN node.slots /\ 1 \in 1 .. Len(node.slots)
    BY <1>2, <1>4, EmptySeq, LenProperties
  <2> QED BY <1>2, <2>1, ElementOfSeq
<1>6. node.slots[1].value \in Following(source, Top.source)
  BY <1>3, <1>5 DEF Following
<1>7. /\ Following(source, Top.source) \subseteq DOMAIN map
      /\ result = map[node.slots[1].value]
  BY <1>1, <1>2, <1>6 DEF CallsOK
<1>8. new = Redirected(node, map)
  BY <1>4, <1>7 DEF Redirected
<1>9. new \in Nodes /\ new.is_leaf = node.is_leaf
  <2> DEFINE slot == [node.slots[1] EXCEPT !.value = result]
             slots == [node.slots EXCEPT ![1] = slot]
  <2>1. slot \in Slots
    BY <1>1, <1>5 DEF Slots
  <2> HIDE DEF slot
  <2>2. slots \in Seq(Slots)
    BY <1>2, <1>5, <2>1, ExceptSeq
  <2>3. new = [node EXCEPT !.slots = slots]
    BY <1>4 DEF slot
  <2> HIDE DEF slots, node, new
  <2> QED BY <1>2, <2>2, <2>3 DEF Nodes
<1> HIDE DEF new
<1>10. /\ stack' = [stack EXCEPT ![Len(stack)] = frame]
      /\ frame.source = Top.source /\ frame.at = Top.at /\ frame.node = new
      /\ frame.phase = "finish" /\ Top' = frame /\ stack' # << >>
  <2>1. "finish" \in Phases
    BY DEF Phases
  <2>2. TopBecomes(new, "finish") /\ pc \in Cloning /\ stack # << >> /\ new \in Nodes
    BY <1>1, <1>9
  <2> QED BY <2>1, <2>2, LinkFrame
<1> HIDE DEF frame
<1>11. RootFrame(frame, node, Following(source, Top.source), map)
  BY <1>7, <1>8, <1>10 DEF RootFrame
<1>12. FrameOK(source, frame, map)
  BY <1>3, <1>9, <1>10, <1>11 DEF FrameOK
<1>13. CallsOK'
  BY <1>1, <1>10 DEF CallsOK
<1> QED BY <1>1, <1>7, <1>10, <1>12, <1>13, FrameStep

(* A call that returns at once. *)
LEMMA EnterStep ==
  ASSUME CloneInv, Inv', EnterKnown \/ EnterForeign
  PROVE  CloneInv'
<1>1. /\ pc = "enter" /\ pc \in Cloning /\ pc' = "return" /\ pc' \in Cloning
      /\ UNCHANGED << source, dest, next, arg, stack, map, before >>
  BY DEF EnterKnown, EnterForeign, Cloning
<1>2. Inv /\ FramesOK /\ CallsOK /\ MetOK /\ ClonesOK
  BY <1>1 DEF CloneInv
<1>3. /\ TreeNodes' = TreeNodes /\ Child' = Child /\ Variable' = Variable /\ Top' = Top
      /\ Finished' = Finished
  BY <1>1 DEF TreeNodes, Child, Variable, Top, Finished
<1>4. FramesOK' /\ ClonesOK'
  BY <1>1, <1>2, <1>3 DEF FramesOK, ClonesOK
<1>5. /\ stack # << >> => Top.phase \in {"forward", "redirected"} /\ arg \in Following(source, Top.source)
      /\ stack = << >> => arg = Child /\ DOMAIN map = {}
  BY <1>1, <1>2 DEF CallsOK
<1>6. CASE stack = << >>
  <2>1. arg = Child /\ DOMAIN map = {}
    BY <1>5, <1>6
  <2>2. EnterForeign /\ ~IsNode(Child) /\ result' = Child
    BY <2>1 DEF EnterKnown, EnterForeign
  <2>3. Child \notin NodesOf(source)
    BY <2>2 DEF IsNode, NodesOf, Resolves
  <2>4. CallsOK'
    BY <1>1, <1>3, <1>6, <2>2, <2>3 DEF CallsOK
  <2>5. MetOK'
    BY <1>1, <1>2, <1>3, <2>1 DEF MetOK, Skipped, IsTree, Resolves
  <2> QED BY <1>4, <2>4, <2>5 DEF CloneInv
<1>7. CASE stack # << >>
  <2>1. /\ Top.source \in TreeNodes /\ Block(source, Top.source) \in Nodes
    BY <1>1, <1>7, TopParts
  <2>2. arg \in NodesOf(source) /\ IsNode(arg)
    BY <1>1, <1>2, <1>5, <1>7, <2>1, TreeParts
  <2>3. EnterKnown /\ arg \in DOMAIN map /\ result' = map[arg]
    BY <2>2 DEF EnterKnown, EnterForeign
  <2>4. Following(source, Top.source) = {arg}
    BY <1>5, <1>7 DEF Following
  <2>5. CallsOK'
    BY <1>1, <1>3, <1>5, <1>7, <2>3, <2>4 DEF CallsOK
  <2>6. ASSUME NEW n \in DOMAIN map \cap NodesOf(source)
        PROVE  Following(source, n) \subseteq DOMAIN map
    <3>1. CASE n = Top.source
      BY <2>3, <2>4, <3>1
    <3>2. CASE n # Top.source
      BY <1>2, <2>6, <3>2 DEF MetOK, Busy
    <3> QED BY <3>1, <3>2
  <2>7. MetOK'
    BY <1>1, <1>2, <1>3, <2>6 DEF MetOK, Skipped, IsTree, Resolves
  <2> QED BY <1>4, <2>5, <2>7 DEF CloneInv
<1> QED BY <1>6, <1>7

-----------------------------------------------------------------------------
(* The end of a call.                                                      *)

(* A block of a file is replaced. *)
Overwritten(f, i, b) == [f EXCEPT !.blocks[i + 1] = b]

(* The other blocks and the variables stay. *)
LEMMA BlockReplaced ==
  ASSUME NEW f, IsFile(f), NEW g, NEW i \in Numbers(f), NEW b, g = Overwritten(f, i, b)
  PROVE  /\ IsFile(g) /\ g.variables = f.variables
         /\ Len(g.blocks) = Len(f.blocks) /\ Len(f.blocks) \in Nat /\ Numbers(g) = Numbers(f)
         /\ Block(g, i) = b /\ \A k \in Numbers(f) : k # i => Block(g, k) = Block(f, k)
<1> DEFINE blocks == WithAt(f.blocks, i + 1, b)
<1>1. IsSeq(f.blocks) /\ Len(f.blocks) \in Nat
  BY FileParts
<1>2. i \in Nat /\ i + 1 \in 1 .. Len(f.blocks) /\ \A k \in Numbers(f) : k \in Nat /\ k + 1 \in 1 .. Len(f.blocks)
  BY <1>1 DEF Numbers
<1>3. g = [f EXCEPT !.blocks = blocks]
  BY DEF WithAt, Overwritten
<1>4. /\ IsSeq(blocks) /\ Len(blocks) = Len(f.blocks) /\ blocks[i + 1] = b
      /\ \A j \in 1 .. Len(f.blocks) : j # i + 1 => blocks[j] = f.blocks[j]
  <2> DEFINE at == i + 1
             s == f.blocks
  <2>1. at \in 1 .. Len(s) /\ IsSeq(s)
    BY <1>1, <1>2
  <2> HIDE DEF at, s
  <2>2. /\ IsSeq(WithAt(s, at, b)) /\ Len(WithAt(s, at, b)) = Len(s) /\ WithAt(s, at, b)[at] = b
        /\ \A j \in 1 .. Len(s) : j # at => WithAt(s, at, b)[j] = s[j]
    BY <2>1, Replaced
  <2> QED BY <2>2 DEF at, s
<1> HIDE DEF blocks
<1>5. IsFile(g) /\ g.blocks = blocks /\ g.variables = f.variables
  <2>1. IsSeq(blocks)
    BY <1>4
  <2>2. /\ IsFile([f EXCEPT !.blocks = blocks])
        /\ [f EXCEPT !.blocks = blocks].blocks = blocks
        /\ [f EXCEPT !.blocks = blocks].variables = f.variables
    BY <2>1, FileOf, ZenonT(40)
  <2> QED BY <1>3, <2>2, Zenon
<1>6. \A k \in Numbers(f) : k # i => k + 1 # i + 1
  BY <1>2
<1>7. \A k \in Numbers(f) : k # i => Block(g, k) = Block(f, k)
  BY <1>2, <1>4, <1>5, <1>6 DEF Block
<1> QED BY <1>1, <1>4, <1>5, <1>7 DEF Numbers, Block

(* The finished buffer of a call is the clone of its node. *)
LEMMA TopIsClone ==
  ASSUME CloneInv, pc \in Cloning, stack # << >>, Top.phase = "finish"
  PROVE  LET node == Block(source, Top.source)
         IN /\ node.kind = "node"
            /\ node.is_leaf => LeafReferences(node) \subseteq DOMAIN map
                               /\ Top.node = LeafImage(node, map)
            /\ ~node.is_leaf => Following(source, Top.source) \subseteq DOMAIN map
                                /\ Top.node = Redirected(node, map)
<1> DEFINE node == Block(source, Top.source)
<1>1. /\ Top.source \in TreeNodes /\ node \in Nodes /\ FrameOK(source, Top, map) /\ Inv /\ MetOK
      /\ Top.node \in Nodes /\ node.slots \in Seq(Slots) /\ Top.node.slots \in Seq(Slots)
  BY TopParts
<1>2. node.kind = "node"
  BY <1>1 DEF Nodes
<1>3. CASE node.is_leaf
  <2>1. LeafFrame(Top, node, map) /\ Top.node.is_leaf = node.is_leaf
    BY <1>1, <1>3 DEF FrameOK
  <2> HIDE DEF node
  <2>2. DOMAIN node.slots = 1 .. Len(node.slots) /\ Len(node.slots) \in Nat
    BY <1>1, LenProperties
  <2>3. /\ Top.at = Len(node.slots) + 1 /\ DOMAIN Top.node.slots = DOMAIN node.slots
        /\ {node.forward} \ {0} \subseteq DOMAIN map /\ {node.backward} \ {0} \subseteq DOMAIN map
        /\ Top.node.forward = LinkImage(node.forward, map)
        /\ Top.node.backward = LinkImage(node.backward, map)
    BY <2>1 DEF LeafFrame
  <2>4. ASSUME NEW k \in DOMAIN node.slots
        PROVE  /\ SlotReferences(node.slots[k]) \subseteq DOMAIN map
               /\ Top.node.slots[k] = SlotImage(node.slots[k], map)
    <3>1. k < Top.at
      BY <2>2, <2>3
    <3> QED BY <2>1, <3>1 DEF LeafFrame
  <2>5. LeafReferences(node) \subseteq DOMAIN map
    BY <2>3, <2>4 DEF LeafReferences
  <2>6. Top.node.slots = [k \in DOMAIN node.slots |-> SlotImage(node.slots[k], map)]
    <3>1. Top.node.slots = [k \in DOMAIN Top.node.slots |-> Top.node.slots[k]]
      BY <1>1, SeqDef
    <3> QED BY <2>3, <2>4, <3>1
  <2>7. Top.node = LeafImage(node, map)
    <3> DEFINE t == Top.node
    <3>1. t = [kind |-> "node", is_leaf |-> t.is_leaf, slots |-> t.slots,
               forward |-> t.forward, backward |-> t.backward]
      BY <1>1 DEF Nodes
    <3>2. /\ t.is_leaf = node.is_leaf /\ t.forward = LinkImage(node.forward, map)
          /\ t.backward = LinkImage(node.backward, map)
          /\ t.slots = [k \in DOMAIN node.slots |-> SlotImage(node.slots[k], map)]
      BY <2>1, <2>3, <2>6
    <3> HIDE DEF t
    <3>3. t = LeafImage(node, map)
      BY <3>1, <3>2, Zenon DEF LeafImage
    <3> QED BY <3>3 DEF t
  <2> QED BY <1>2, <1>3, <2>5, <2>7 DEF node
<1>4. CASE ~node.is_leaf
  <2>1. RootFrame(Top, node, Following(source, Top.source), map)
    BY <1>1, <1>4 DEF FrameOK
  <2> QED BY <1>2, <1>4, <2>1 DEF RootFrame
<1> QED BY <1>3, <1>4

(* A call returns: the reserved block is the clone now. *)
LEMMA FinishStep ==
  ASSUME CloneInv, Inv', Finish
  PROVE  CloneInv'
<1> DEFINE r == Top.reserved
           n0 == Top.source
<1>1. /\ pc = "run" /\ pc \in Cloning /\ pc' = "return" /\ pc' \in Cloning /\ stack # << >>
      /\ Top.phase = "finish" /\ result' = r /\ stack' = Front(stack)
      /\ dest' = [dest EXCEPT !.blocks[r + 1] = Top.node]
      /\ UNCHANGED << source, next, arg, map, before >>
  BY DEF Finish, Running, ReservedNumber, CloneInv, Inv, ControlOK, Cloning
<1>2. /\ Inv /\ FramesOK /\ CallsOK /\ MetOK /\ ClonesOK /\ IsFile(dest)
      /\ n0 \in TreeNodes /\ n0 \in DOMAIN map /\ r = map[n0] /\ Top = stack[Len(stack)]
  BY <1>1, TopParts DEF Inv
<1>3. \A n \in DOMAIN map : n \in Numbers(source) /\ map[n] \in Numbers(dest)
  BY <1>2 DEF Inv, TypeOK
<1>4. r \in Numbers(dest)
  BY <1>2, <1>3
<1>5. /\ Len(dest'.blocks) = Len(dest.blocks) /\ Block(dest', r) = Top.node
      /\ \A k \in Numbers(dest) : k # r => Block(dest', k) = Block(dest, k)
  <2>1. dest' = [dest EXCEPT !.blocks[r + 1] = Top.node] /\ IsFile(dest) /\ r \in Numbers(dest)
    BY <1>1, <1>2, <1>4
  <2> HIDE DEF r
  <2>2. dest' = Overwritten(dest, r, Top.node)
    BY <2>1 DEF Overwritten
  <2>3. IsFile(dest) /\ r \in Numbers(dest)
    BY <2>1
  <2> DEFINE t == Top.node
             d == dest'
  <2>4. d = Overwritten(dest, r, t)
    BY <2>2
  <2> HIDE DEF t, d
  <2>5. /\ Len(d.blocks) = Len(dest.blocks) /\ Block(d, r) = t
        /\ \A k \in Numbers(dest) : k # r => Block(d, k) = Block(dest, k)
    BY <2>3, <2>4, BlockReplaced
  <2> QED BY <2>5 DEF t, d
<1>6. Faithful(source, dest', map, n0)
  BY <1>1, <1>2, <1>5, TopIsClone DEF Faithful
<1>7. /\ stack \in Seq(Frames) /\ Len(stack) \in Nat \ {0} /\ DOMAIN stack = 1 .. Len(stack)
  BY <1>1, <1>2, TopIsFrame DEF Inv, StackOK
<1>8. /\ Len(stack') = Len(stack) - 1 /\ DOMAIN stack' = 1 .. Len(stack) - 1
      /\ \A k \in 1 .. Len(stack) - 1 : stack'[k] = stack[k]
  <2>1. stack' = SubSeq(stack, 1, Len(stack) - 1)
    BY <1>1 DEF Front
  <2>2. \A k \in 1 .. Len(stack) - 1 : stack[k] \in Frames
    BY <1>7, ElementOfSeq
  <2>3. /\ stack' \in Seq(Frames) /\ Len(stack') = Len(stack) - 1
        /\ \A k \in 1 .. Len(stack) - 1 : stack'[k] = stack[k]
    BY <1>7, <2>1, <2>2, SubSeqProperties
  <2> QED BY <2>3, LenProperties
<1>9. TreeNodes' = TreeNodes /\ Child' = Child /\ Variable' = Variable
  BY <1>1 DEF TreeNodes, Child, Variable
<1>10. \A k \in 1 .. Len(stack) - 1 : k \in DOMAIN stack
  BY <1>7
<1>11. FramesOK'
  <2>1. ASSUME NEW k \in DOMAIN stack'
        PROVE  stack'[k].source \in TreeNodes /\ FrameOK(source, stack'[k], map)
    BY <1>2, <1>8, <1>10, <2>1 DEF FramesOK
  <2>2. ASSUME NEW k \in 1 .. Len(stack') - 1
        PROVE  /\ stack'[k].phase \in {"forward", "redirected"}
               /\ stack'[k + 1].source \in Following(source, stack'[k].source)
    <3>1. k \in 1 .. Len(stack) - 1 /\ k + 1 \in 1 .. Len(stack) - 1
      BY <1>7, <1>8, <2>2
    <3>2. /\ stack[k].phase \in {"forward", "redirected"}
          /\ stack[k + 1].source \in Following(source, stack[k].source)
      BY <1>2, <3>1, Zenon DEF FramesOK
    <3> QED BY <1>8, <3>1, <3>2
  <2>3. stack' # << >> => stack'[1].source = Child
    <3>1. ASSUME stack' # << >> PROVE 1 \in 1 .. Len(stack) - 1
      <4>1. stack' \in Seq(Frames) /\ Len(stack') # 0
        BY <1>7, <1>8, <3>1, EmptySeq DEF Inv, StackOK
      <4> QED BY <1>7, <1>8, <4>1
    <3> QED BY <1>1, <1>2, <1>8, <3>1 DEF FramesOK
  <2> QED BY <1>1, <1>8, <1>9, <2>1, <2>2, <2>3 DEF FramesOK
<1>12. CallsOK'
  <2>1. CASE Len(stack) = 1
    <3>1. n0 = Child /\ Child \in NodesOf(source)
      BY <1>1, <1>2, <2>1, TreeParts DEF FramesOK
    <3>2. stack' = << >>
      <4>1. stack' \in Seq(Frames)
        BY DEF Inv, StackOK
      <4> QED BY <1>8, <2>1, <4>1, EmptySeq
    <3> QED BY <1>1, <1>2, <1>9, <3>1, <3>2 DEF CallsOK
  <2>2. CASE Len(stack) # 1
    <3> DEFINE j == Len(stack) - 1
    <3>1. j \in 1 .. Len(stack) - 1 /\ Len(stack') = j /\ j + 1 = Len(stack) /\ stack' # << >>
      <4>1. j \in 1 .. Len(stack) - 1 /\ Len(stack') = j /\ j + 1 = Len(stack) /\ j # 0
        BY <1>7, <1>8, <2>2
      <4> QED BY <4>1, EmptySeq
    <3> HIDE DEF j
    <3>2. Top' = stack[j]
      <4>1. Top' = stack'[Len(stack')]
        BY Zenon DEF Top, Last
      <4> QED BY <1>8, <3>1, <4>1
    <3>3. /\ stack[j].phase \in {"forward", "redirected"}
          /\ stack[j + 1].source \in Following(source, stack[j].source)
      BY <1>2, <3>1, Zenon DEF FramesOK
    <3>4. n0 \in Following(source, stack[j].source)
      BY <1>2, <3>1, <3>3
    <3>5. \A n \in Following(source, stack[j].source) : n = n0
      BY <3>4 DEF Following
    <3> QED BY <1>1, <1>2, <3>1, <3>2, <3>3, <3>5 DEF CallsOK
  <2> QED BY <2>1, <2>2
<1>13. MetOK'
  <2>1. \A n : ~Busy(n)
    BY <1>1 DEF Busy
  <2>2. \A n \in DOMAIN map \cap NodesOf(source) : Following(source, n) \subseteq DOMAIN map
    BY <1>2, <2>1 DEF MetOK
  <2>3. /\ ~Skipped(Variable)' /\ IsTree(Variable.index)'
    BY <1>1, <1>2, <1>9 DEF MetOK, Skipped, IsTree, Resolves
  <2> QED BY <1>1, <1>2, <1>5, <1>9, <2>2, <2>3 DEF MetOK
<1>14. ClonesOK'
  <2>1. ASSUME NEW n \in Finished', n # n0
        PROVE  Faithful(source, dest', map, n)
    <3>1. n \in DOMAIN map /\ \A k \in DOMAIN stack' : stack'[k].source # n
      BY <1>1, <2>1 DEF Finished
    <3>2. \A k \in DOMAIN stack : k = Len(stack) \/ k \in DOMAIN stack'
      BY <1>7, <1>8
    <3>3. \A k \in DOMAIN stack : stack[k].source # n
      BY <1>2, <1>8, <2>1, <3>1, <3>2
    <3>4. n \in Finished
      BY <3>1, <3>3 DEF Finished
    <3>5. map[n] # r /\ map[n] \in Numbers(dest)
      BY <1>2, <1>3, <2>1, <3>1 DEF ClonesOK
    <3>6. Block(dest', map[n]) = Block(dest, map[n]) /\ Faithful(source, dest, map, n)
      BY <1>2, <1>5, <3>4, <3>5 DEF ClonesOK
    <3> QED BY <3>6 DEF Faithful
  <2>2. \A n \in Finished' : Faithful(source, dest', map, n)
    BY <1>6, <2>1
  <2> QED BY <1>1, <1>2, <2>2 DEF ClonesOK
<1> QED BY <1>11, <1>12, <1>13, <1>14 DEF CloneInv

-----------------------------------------------------------------------------
(* A new call.                                                             *)

(* A frame is pushed. *)
LEMMA Pushed ==
  ASSUME NEW S, NEW s \in Seq(S), NEW x \in S, NEW t, t = Append(s, x)
  PROVE  /\ Len(s) \in Nat /\ Len(t) = Len(s) + 1 /\ t # << >>
         /\ DOMAIN s = 1 .. Len(s) /\ DOMAIN t = 1 .. Len(s) + 1
         /\ t[Len(s) + 1] = x /\ t[Len(t)] = x
         /\ \A k \in 1 .. Len(s) : t[k] = s[k] /\ k \in DOMAIN t
         /\ \A k \in DOMAIN t : k \in DOMAIN s \/ k = Len(s) + 1
<1>1. Len(s) \in Nat /\ DOMAIN s = 1 .. Len(s) /\ t \in Seq(S) /\ Len(t) = Len(s) + 1
  BY AppendProperties, LenProperties
<1>2. t[Len(s) + 1] = x /\ \A k \in 1 .. Len(s) : t[k] = s[k]
  BY AppendProperties
<1>3. DOMAIN t = 1 .. Len(s) + 1
  BY <1>1, LenProperties
<1>4. t # << >>
  BY <1>1
<1> QED BY <1>1, <1>2, <1>3, <1>4

(* The frame of a call that has just been made. *)
LEMMA NewFrame ==
  ASSUME NEW src, NEW n, NEW m, NEW r, Block(src, n) \in Nodes
  PROVE  LET node == Block(src, n)
         IN FrameOK(src, [source |-> n, reserved |-> r, node |-> node, at |-> 1,
                          phase |-> IF node.is_leaf THEN "slots" ELSE "redirect"], m)
<1> DEFINE node == Block(src, n)
           frame == [source |-> n, reserved |-> r, node |-> node, at |-> 1,
                     phase |-> IF node.is_leaf THEN "slots" ELSE "redirect"]
<1>1. node.slots \in Seq(Slots)
  BY DEF Nodes
<1>2. Len(node.slots) \in Nat /\ DOMAIN node.slots = 1 .. Len(node.slots)
  BY <1>1, LenProperties
<1>3. frame.source = n /\ frame.node = node /\ frame.at = 1
  OBVIOUS
<1>4. frame.phase = IF node.is_leaf THEN "slots" ELSE "redirect"
  OBVIOUS
<1>5. Block(src, frame.source) = node
  BY <1>3
<1> HIDE DEF frame, node
<1>6. ASSUME node.is_leaf PROVE LeafFrame(frame, node, m)
  <2>1. 1 <= Len(node.slots) + 1 /\ \A k \in DOMAIN node.slots : ~(k < 1)
    BY <1>2
  <2> QED BY <1>3, <1>4, <1>6, <2>1 DEF LeafFrame
<1>7. ASSUME ~node.is_leaf PROVE RootFrame(frame, node, Following(src, n), m)
  BY <1>3, <1>4, <1>7 DEF RootFrame
<1>8. FrameOK(src, frame, m)
  BY <1>3, <1>5, <1>6, <1>7 DEF FrameOK
<1> QED BY <1>8 DEF frame, node

(* A node that is met for the first time has a call of its own. *)
LEMMA EnterNodeStep ==
  ASSUME CloneInv, Inv', EnterNode
  PROVE  CloneInv'
<1> DEFINE new == NewNumber(dest)
           node == Block(source, arg)
           frame == [source |-> arg, reserved |-> new, node |-> node, at |-> 1,
                     phase |-> IF node.is_leaf THEN "slots" ELSE "redirect"]
<1>1. /\ pc = "enter" /\ pc' = "run" /\ pc \in Cloning /\ pc' \in Cloning
      /\ arg \notin DOMAIN map /\ IsNode(arg)
      /\ dest' = WithBlock(dest, node) /\ map' = Remembered(arg, new)
      /\ stack' = Append(stack, frame)
      /\ UNCHANGED << source, next, arg, result, before >>
  BY DEF EnterNode, Cloning
<1>2. Inv /\ FramesOK /\ CallsOK /\ MetOK /\ ClonesOK /\ IsFile(dest)
  BY <1>1 DEF CloneInv, Inv
<1>3. /\ Grows(dest, dest') /\ Len(dest'.blocks) = Len(dest.blocks) + 1
      /\ new = Len(dest.blocks) /\ new \in Nat /\ Len(dest.blocks) \in Nat
  BY <1>1, <1>2, BlockAdded DEF NewNumber, Grows
<1>4. arg \in NodesOf(source)
  BY <1>1 DEF IsNode, Resolves, NodesOf
<1>5. arg \in Nat /\ node \in Nodes
  BY <1>1, <1>2, <1>4, TreeParts
<1>6. frame \in Frames
  BY <1>3, <1>5 DEF Frames, Phases
<1>7. /\ frame.source = arg
      /\ frame.phase = "slots" \/ frame.phase = "redirect"
  OBVIOUS
<1>8. \A m : FrameOK(source, frame, m)
  BY <1>5, NewFrame
<1> HIDE DEF frame
<1>9. /\ Len(stack) \in Nat /\ Len(stack') = Len(stack) + 1 /\ stack' # << >>
      /\ DOMAIN stack = 1 .. Len(stack) /\ DOMAIN stack' = 1 .. Len(stack) + 1
      /\ stack'[Len(stack) + 1] = frame /\ stack'[Len(stack')] = frame
      /\ \A k \in 1 .. Len(stack) : stack'[k] = stack[k] /\ k \in DOMAIN stack'
      /\ \A k \in DOMAIN stack' : k \in DOMAIN stack \/ k = Len(stack) + 1
  <2>1. stack \in Seq(Frames)
    BY <1>2 DEF Inv, StackOK
  <2> DEFINE t == stack'
  <2>2. t = Append(stack, frame)
    BY <1>1
  <2> HIDE DEF t
  <2>3. /\ Len(stack) \in Nat /\ Len(t) = Len(stack) + 1 /\ t # << >>
        /\ DOMAIN stack = 1 .. Len(stack) /\ DOMAIN t = 1 .. Len(stack) + 1
        /\ t[Len(stack) + 1] = frame /\ t[Len(t)] = frame
        /\ \A k \in 1 .. Len(stack) : t[k] = stack[k] /\ k \in DOMAIN t
        /\ \A k \in DOMAIN t : k \in DOMAIN stack \/ k = Len(stack) + 1
    BY <1>6, <2>1, <2>2, Pushed
  <2> QED BY <2>3 DEF t
<1>10. Top' = frame
  <2>1. Top' = stack'[Len(stack')]
    BY Zenon DEF Top, Last
  <2> QED BY <1>9, <2>1, Zenon
<1>11. /\ DOMAIN map' = DOMAIN map \cup {arg} /\ map'[arg] = new
       /\ \A n \in DOMAIN map : map'[n] = map[n]
  BY <1>1 DEF Remembered
<1>12. Extended(map, map')
  BY <1>11 DEF Extended
<1>13. TreeNodes' = TreeNodes /\ Child' = Child /\ Variable' = Variable
  BY <1>1 DEF TreeNodes, Child, Variable
<1>14. stack # << >> => /\ arg \in Following(source, Top.source) /\ Top.source \in TreeNodes
                        /\ Top.phase \in {"forward", "redirected"} /\ Top = stack[Len(stack)]
                        /\ Top.source \in DOMAIN map /\ Len(stack) # 0
  <2>1. ASSUME stack # << >> PROVE Top.source \in TreeNodes /\ Top.source \in DOMAIN map /\ Top = stack[Len(stack)]
    BY <1>1, <2>1, TopParts
  <2>2. stack # << >> => Len(stack) # 0
    BY <1>2, EmptySeq DEF Inv, StackOK
  <2> QED BY <1>1, <1>2, <2>1, <2>2 DEF CallsOK
<1>15. stack = << >> => arg = Child /\ DOMAIN map = {} /\ Len(stack) = 0
  BY <1>1, <1>2 DEF CallsOK
<1>16. arg \in TreeNodes
  <2>1. CASE stack = << >>
    BY <1>1, <1>2, <1>4, <1>15, <2>1, TreeParts
  <2>2. CASE stack # << >>
    BY <1>1, <1>2, <1>14, <2>2, TreeParts
  <2> QED BY <2>1, <2>2
<1>17. FramesOK'
  <2>1. ASSUME NEW k \in DOMAIN stack'
        PROVE  stack'[k].source \in TreeNodes /\ FrameOK(source, stack'[k], map')
    <3>1. CASE k = Len(stack) + 1
      BY <1>7, <1>8, <1>9, <1>16, <3>1
    <3>2. CASE k \in DOMAIN stack
      <4> DEFINE f == stack[k]
      <4>1. f.source \in TreeNodes /\ FrameOK(source, f, map) /\ stack'[k] = f
        BY <1>2, <1>9, <3>2 DEF FramesOK
      <4>2. Block(source, f.source) \in Nodes
        BY <1>1, <1>2, <4>1, TreeParts
      <4> HIDE DEF f
      <4> DEFINE m2 == map'
      <4>3. Extended(map, m2)
        BY <1>12
      <4> HIDE DEF m2
      <4>4. FrameOK(source, f, m2)
        BY <4>1, <4>2, <4>3, FrameStays
      <4> QED BY <4>1, <4>4 DEF m2
    <3> QED BY <1>9, <3>1, <3>2
  <2>2. ASSUME NEW k \in 1 .. Len(stack') - 1
        PROVE  /\ stack'[k].phase \in {"forward", "redirected"}
               /\ stack'[k + 1].source \in Following(source, stack'[k].source)
    <3>1. k \in 1 .. Len(stack)
      BY <1>9, <2>2
    <3>2. CASE k = Len(stack)
      <4>1. stack # << >>
        BY <1>9, <1>15, <3>1
      <4>2. stack'[k] = Top /\ stack'[k + 1] = frame
        BY <1>9, <1>14, <3>1, <3>2, <4>1
      <4>3. arg \in Following(source, Top.source) /\ Top.phase \in {"forward", "redirected"}
        BY <1>14, <4>1
      <4>4. frame.source = arg
        BY <1>7
      <4> QED BY <4>2, <4>3, <4>4
    <3>3. CASE k # Len(stack)
      <4>1. k \in 1 .. Len(stack) - 1 /\ k + 1 \in 1 .. Len(stack)
        <5>1. Len(stack) \in Nat
          BY <1>9
        <5> QED BY <3>1, <3>3, <5>1
      <4>2. /\ stack[k].phase \in {"forward", "redirected"}
            /\ stack[k + 1].source \in Following(source, stack[k].source)
        BY <1>2, <4>1, Zenon DEF FramesOK
      <4>3. stack'[k] = stack[k] /\ stack'[k + 1] = stack[k + 1]
        BY <1>9, <3>1, <4>1
      <4> QED BY <4>2, <4>3
    <3> QED BY <3>2, <3>3
  <2>3. stack'[1].source = Child
    <3>1. CASE stack = << >>
      BY <1>7, <1>9, <1>15, <3>1
    <3>2. CASE stack # << >>
      <4>1. 1 \in 1 .. Len(stack)
        BY <1>9, <1>14, <3>2
      <4> QED BY <1>2, <1>9, <3>2, <4>1 DEF FramesOK
    <3> QED BY <3>1, <3>2
  <2> QED BY <1>1, <1>13, <2>1, <2>2, <2>3 DEF FramesOK
<1>18. CallsOK'
  BY <1>1, <1>7, <1>10 DEF CallsOK
<1>19. MetOK'
  <2>1. ASSUME NEW n \in DOMAIN map' \cap NodesOf(source), ~Busy(n)'
        PROVE  Following(source, n) \subseteq DOMAIN map'
    <3>1. n # arg
      BY <1>1, <1>7, <1>9, <1>10, <2>1 DEF Busy
    <3>2. n \in DOMAIN map \cap NodesOf(source)
      BY <1>11, <2>1, <3>1
    <3>3. CASE ~Busy(n)
      BY <1>2, <1>11, <3>2, <3>3 DEF MetOK
    <3>4. CASE Busy(n)
      <4>1. stack # << >> /\ n = Top.source
        BY <3>4 DEF Busy
      <4>2. arg \in Following(source, n)
        BY <1>14, <4>1
      <4>3. \A k \in Following(source, n) : k = arg
        BY <4>2 DEF Following
      <4> QED BY <1>11, <4>3
    <3> QED BY <3>3, <3>4
  <2>2. ~Skipped(Variable)' /\ IsTree(Variable.index)'
    BY <1>1, <1>2, <1>13 DEF MetOK, Skipped, IsTree, Resolves
  <2>3. DOMAIN map' \cap NodesOf(source) \subseteq TreeNodes
    BY <1>2, <1>11, <1>16 DEF MetOK
  <2>4. Child \in DOMAIN map'
    BY <1>2, <1>11, <1>14, <1>15 DEF MetOK
  <2>5. \A n \in DOMAIN map' : map'[n] >= before
    <3>1. before <= new
      BY <1>2, <1>3 DEF Inv, TypeOK
    <3>2. \A n \in DOMAIN map : map'[n] >= before
      BY <1>2, <1>11 DEF MetOK
    <3>3. map'[arg] >= before
      <4>1. before \in Nat
        BY <1>2, <1>3 DEF Inv, TypeOK
      <4> QED BY <1>3, <1>11, <3>1, <4>1
    <3> QED BY <1>11, <3>2, <3>3
  <2>6. /\ IsFiniteSet(DOMAIN map')
        /\ Len(dest'.blocks) = before + Cardinality(DOMAIN map')
    <3>1. IsFiniteSet(DOMAIN map) /\ Len(dest.blocks) = before + Cardinality(DOMAIN map)
      BY <1>2 DEF MetOK
    <3> DEFINE D == DOMAIN map
    <3>2. /\ IsFiniteSet(D \cup {arg}) /\ Cardinality(D \cup {arg}) = Cardinality(D) + 1
          /\ Cardinality(D) \in Nat
      <4> HIDE DEF D
      <4>1. IsFiniteSet(D) /\ arg \notin D
        BY <1>1, <3>1 DEF D
      <4> QED BY <4>1, FS_AddElement, FS_CardinalityType
    <3>3. DOMAIN map' = D \cup {arg}
      BY <1>11
    <3>4. before \in Nat
      BY <1>2, <1>3 DEF Inv, TypeOK
    <3> QED BY <1>3, <3>1, <3>2, <3>3, <3>4
  <2> QED BY <1>1, <1>13, <2>1, <2>2, <2>3, <2>4, <2>5, <2>6 DEF MetOK
<1>20. ClonesOK'
  <2>1. \A n \in DOMAIN map : n \in Numbers(source) /\ map[n] \in Numbers(dest)
    BY <1>2 DEF Inv, TypeOK
  <2>2. \A n \in DOMAIN map : map[n] # new
    BY <1>3, <2>1 DEF Numbers
  <2>3. \A n, k \in DOMAIN map' : map'[n] = map'[k] => n = k
    BY <1>2, <1>11, <2>2 DEF ClonesOK
  <2>4. ASSUME NEW n \in Finished' PROVE Faithful(source, dest', map', n)
    <3>1. n \in DOMAIN map' /\ \A k \in DOMAIN stack' : stack'[k].source # n
      BY <2>4 DEF Finished
    <3>2. n # arg
      <4>1. Len(stack) + 1 \in DOMAIN stack'
        BY <1>9
      <4> QED BY <1>7, <1>9, <3>1, <4>1
    <3>3. n \in DOMAIN map /\ \A k \in DOMAIN stack : stack[k].source # n
      BY <1>9, <1>11, <3>1, <3>2
    <3>4. n \in Finished
      BY <3>3 DEF Finished
    <3>5. /\ Faithful(source, dest, map, n)
          /\ Block(source, n).kind = "node" => Block(source, n) \in Nodes
      BY <1>2, <2>1, <3>3, <3>4, SourceBlocks DEF ClonesOK
    <3> DEFINE m2 == map'
               g == dest'
    <3>6. Extended(map, m2) /\ Block(g, map[n]) = Block(dest, map[n])
      BY <1>3, <1>12, <2>1, <3>3 DEF Grows
    <3> HIDE DEF m2, g
    <3>7. Faithful(source, g, m2, n)
      BY <3>3, <3>5, <3>6, FaithfulStays
    <3> QED BY <3>7 DEF m2, g
  <2> QED BY <1>1, <2>3, <2>4 DEF ClonesOK
<1> QED BY <1>17, <1>18, <1>19, <1>20 DEF CloneInv

-----------------------------------------------------------------------------
(* The slots of a leaf.                                                    *)

(* A sequence without repetitions is as long as the set of its elements. *)
LEMMA Distinct ==
  ASSUME NEW s, IsSeq(s), \A j, k \in DOMAIN s : s[j] = s[k] => j = k
  PROVE  IsFiniteSet(ToSet(s)) /\ Cardinality(ToSet(s)) = Len(s)
<1>1. Len(s) \in Nat /\ DOMAIN s = 1 .. Len(s) /\ s \in [1 .. Len(s) -> ToSet(s)]
  BY SeqOfItsElements, LenProperties DEF IsSeq
<1>2. \A x \in ToSet(s) : \E k \in 1 .. Len(s) : s[k] = x
  BY <1>1 DEF ToSet
<1>3. s \in Bijection(1 .. Len(s), ToSet(s))
  BY <1>1, <1>2 DEF Bijection, Injection, Surjection, IsInjective
<1>4. ExistsBijection(1 .. Len(s), ToSet(s))
  BY <1>3 DEF ExistsBijection
<1>5. IsFiniteSet(1 .. Len(s))
  BY <1>1, SizeOfRange
<1> QED BY <1>1, <1>4, <1>5, FS_Bijection, FS_CountingElements

(* The references of a slot that have not been met, each once. *)
LEMMA FreshSlot ==
  ASSUME Inv, NEW slot \in Slots, slot.value \in Numbers(source),
         slot.literal => slot.key \notin Numbers(source),
         ~slot.literal => slot.key \in Numbers(source)
  PROVE  /\ IsSeq(Fresh(slot)) /\ Len(Fresh(slot)) \in Nat
         /\ DOMAIN Fresh(slot) = 1 .. Len(Fresh(slot))
         /\ \A j, k \in DOMAIN Fresh(slot) : Fresh(slot)[j] = Fresh(slot)[k] => j = k
         /\ ToSet(Fresh(slot)) = SlotReferences(slot) \ DOMAIN map
         /\ IsFiniteSet(ToSet(Fresh(slot))) /\ Cardinality(ToSet(Fresh(slot))) = Len(Fresh(slot))
<1> DEFINE v == slot.value
           k0 == slot.key
           s == Fresh(slot)
           New == SlotReferences(slot) \ DOMAIN map
<1>1. v \in Nat /\ k0 \in Nat
  BY DEF Slots
<1> DEFINE Goal == /\ IsSeq(s) /\ Len(s) \in Nat /\ DOMAIN s = 1 .. Len(s)
                   /\ \A j, k \in DOMAIN s : s[j] = s[k] => j = k
                   /\ ToSet(s) = New
<1>2. ASSUME v \in DOMAIN map /\ (slot.literal \/ k0 \in DOMAIN map \/ k0 = v) PROVE Goal
  <2>1. s = << >>
    BY <1>2 DEF Fresh, Resolves, IsNew
  <2>2. New = {}
    BY <1>2 DEF SlotReferences
  <2> HIDE DEF s, New
  <2>3. s \in Seq(Nat) /\ Len(s) = 0
    BY <2>1
  <2>4. IsSeq(s) /\ DOMAIN s = {} /\ DOMAIN s = 1 .. Len(s)
    <3>1. 1 .. 0 = {}
      OBVIOUS
    <3> QED BY <2>3, <3>1, SeqOfItsElements
  <2>5. ToSet(s) = {}
    BY <2>4 DEF ToSet
  <2> QED BY <2>2, <2>3, <2>4, <2>5
<1>3. ASSUME NEW x \in Nat, s = << x >>, New = {x} PROVE Goal
  <2> HIDE DEF s, New
  <2>1. s \in Seq(Nat) /\ Len(s) = 1 /\ s[1] = x
    BY <1>3
  <2>2. IsSeq(s) /\ DOMAIN s = {1} /\ DOMAIN s = 1 .. Len(s)
    BY <2>1, SeqOfItsElements
  <2>3. ToSet(s) = {x}
    BY <2>1, <2>2 DEF ToSet
  <2> QED BY <1>3, <2>1, <2>2, <2>3
<1>4. ASSUME v \in DOMAIN map /\ ~slot.literal /\ k0 \notin DOMAIN map PROVE Goal
  <2>1. s = << k0 >>
    <3>1. k0 # v
      BY <1>4
    <3>2. s = << >> \o << k0 >>
      BY <1>4, <3>1 DEF Fresh, Resolves, IsNew
    <3> QED BY <1>1, <3>2
  <2>2. New = {k0}
    BY <1>4 DEF SlotReferences
  <2> QED BY <1>1, <1>3, <2>1, <2>2
<1>5. ASSUME v \notin DOMAIN map /\ (slot.literal \/ k0 \in DOMAIN map \/ k0 = v) PROVE Goal
  <2>1. s = << v >>
    <3>1. s = << v >> \o << >>
      BY <1>5 DEF Fresh, Resolves, IsNew
    <3> QED BY <1>1, <3>1
  <2>2. New = {v}
    BY <1>5 DEF SlotReferences
  <2> QED BY <1>1, <1>3, <2>1, <2>2
<1>6. ASSUME v \notin DOMAIN map /\ ~slot.literal /\ k0 \notin DOMAIN map /\ k0 # v PROVE Goal
  <2>1. s = << v >> \o << k0 >>
    BY <1>6 DEF Fresh, Resolves, IsNew
  <2>2. New = {v, k0}
    BY <1>6 DEF SlotReferences
  <2>3. s \in Seq(Nat) /\ Len(s) = 2 /\ s[1] = v /\ s[2] = k0
    BY <1>1, <2>1
  <2> HIDE DEF s, New
  <2>4. IsSeq(s) /\ DOMAIN s = {1, 2} /\ DOMAIN s = 1 .. Len(s)
    BY <2>3, SeqOfItsElements
  <2> HIDE DEF v, k0
  <2>5. ToSet(s) = {v, k0}
    BY <2>3, <2>4 DEF ToSet
  <2>6. \A j, k \in DOMAIN s : s[j] = s[k] => j = k
    BY <1>6, <2>3, <2>4
  <2> QED BY <2>2, <2>3, <2>4, <2>5, <2>6
<1>7. Goal
  BY <1>2, <1>4, <1>5, <1>6
<1> HIDE DEF s, New
<1>8. IsFiniteSet(ToSet(s)) /\ Cardinality(ToSet(s)) = Len(s)
  BY <1>7, Distinct
<1> QED BY <1>7, <1>8 DEF s, New

(* The fields of a slot whose references have been rewritten. *)
LEMMA SlotFields ==
  ASSUME NEW slot \in Slots, NEW x, NEW y
  PROVE  [slot EXCEPT !.value = x, !.key = y] = [value |-> x, key |-> y, literal |-> slot.literal]
<1> DEFINE t == [slot EXCEPT !.value = x, !.key = y]
<1>1. slot \in [value : Nat \cup {x}, key : Nat \cup {y}, literal : {slot.literal}]
  BY DEF Slots
<1>2. /\ t \in [value : Nat \cup {x}, key : Nat \cup {y}, literal : {slot.literal}]
      /\ t.value = x /\ t.key = y /\ t.literal = slot.literal
  BY <1>1
<1> HIDE DEF t
<1>3. t = [value |-> t.value, key |-> t.key, literal |-> t.literal]
  BY <1>2
<1>4. t = [value |-> x, key |-> y, literal |-> slot.literal]
  BY <1>2, <1>3
<1> QED BY <1>4 DEF t

(* The frame after a slot has been cloned. *)
SlotFrame(frame, new) ==
  [frame EXCEPT !.node.slots[frame.at] = new, !.at = frame.at + 1]

(* The loop's turn for one slot. *)
LEMMA SlotCopied ==
  ASSUME Inv, CloneSlot, NEW slot \in Slots, slot = Top.node.slots[Top.at],
         slot.value \in Numbers(source),
         slot.literal => slot.key \notin Numbers(source),
         ~slot.literal => slot.key \in Numbers(source)
  PROVE  LET New == SlotReferences(slot) \ DOMAIN map
         IN /\ Extended(map, map') /\ DOMAIN map' = DOMAIN map \cup New
            /\ \A i \in New : /\ map'[i] \in Nat /\ map'[i] >= Len(dest.blocks)
                              /\ Block(dest', map'[i]) = Block(source, i)
            /\ \A i, j \in New : map'[i] = map'[j] => i = j
            /\ Grows(dest, dest')
            /\ IsFiniteSet(New) /\ Len(dest'.blocks) = Len(dest.blocks) + Cardinality(New)
            /\ stack' = [stack EXCEPT ![Len(stack)] = SlotFrame(Top, SlotImage(slot, map'))]
<1> DEFINE copies == Fresh(slot)
           base   == Len(dest.blocks)
           number(i) == IF \E k \in DOMAIN copies : copies[k] = i
                        THEN base + (CHOOSE k \in DOMAIN copies : copies[k] = i) - 1
                        ELSE IF i \in DOMAIN map THEN map[i] ELSE i
           blocks == [k \in DOMAIN copies |-> Block(source, copies[k])]
           renumbered(i) == IF Resolves(i) THEN number(i) ELSE i
           cloned == [slot EXCEPT !.value = renumbered(slot.value),
                                  !.key = renumbered(slot.key)]
           New == SlotReferences(slot) \ DOMAIN map
<1>1. /\ dest' = [dest EXCEPT !.blocks = dest.blocks \o blocks]
      /\ map' = [i \in DOMAIN map \cup ToSet(copies) |-> number(i)]
      /\ stack' = [stack EXCEPT ![Len(stack)].node.slots[Top.at] = cloned,
                                ![Len(stack)].at = NextSlot(Top.at)]
      /\ stack # << >> /\ base \in Nat /\ IsFile(dest) /\ Grows(dest, dest')
  <2>1. dest' = [dest EXCEPT !.blocks = dest.blocks \o blocks]
    BY Zenon DEF CloneSlot
  <2>2. map' = [i \in DOMAIN map \cup ToSet(copies) |-> number(i)]
    BY Zenon DEF CloneSlot
  <2>3. stack' = [stack EXCEPT ![Len(stack)].node.slots[Top.at] = cloned,
                               ![Len(stack)].at = NextSlot(Top.at)]
    BY DEF CloneSlot
  <2>4. stack # << >> /\ IsFile(dest) /\ Grows(dest, dest')
    BY CloneSlotKeeps DEF CloneSlot, Running, Inv, ControlOK
  <2> QED BY <2>1, <2>2, <2>3, <2>4, FileParts
<1>2. /\ IsSeq(copies) /\ Len(copies) \in Nat /\ DOMAIN copies = 1 .. Len(copies)
      /\ \A j, k \in DOMAIN copies : copies[j] = copies[k] => j = k
      /\ ToSet(copies) = New
      /\ IsFiniteSet(New) /\ Cardinality(New) = Len(copies)
  BY FreshSlot
<1>3. \A i \in New : \E k \in DOMAIN copies : copies[k] = i
  <2>1. ToSet(copies) = {copies[k] : k \in DOMAIN copies}
    BY DEF ToSet
  <2> QED BY <1>2, <2>1
<1>4. \A k \in DOMAIN copies : copies[k] \in New
  <2>1. ToSet(copies) = {copies[k] : k \in DOMAIN copies}
    BY DEF ToSet
  <2> QED BY <1>2, <2>1
<1> HIDE DEF copies
<1>5. \A k \in DOMAIN copies : number(copies[k]) = base + k - 1
  <2> SUFFICES ASSUME NEW k \in DOMAIN copies PROVE number(copies[k]) = base + k - 1
    OBVIOUS
  <2>1. (CHOOSE j \in DOMAIN copies : copies[j] = copies[k]) = k
    BY <1>2
  <2> QED BY <2>1
<1>6. \A i \in DOMAIN map : number(i) = map[i]
  BY <1>4
<1> HIDE DEF number
<1>7. /\ DOMAIN map' = DOMAIN map \cup New
      /\ \A i \in DOMAIN map' : map'[i] = number(i)
  BY <1>1, <1>2
<1>8. Extended(map, map')
  BY <1>6, <1>7 DEF Extended
<1>9. /\ Len(dest'.blocks) = base + Len(copies)
      /\ \A k \in DOMAIN copies : dest'.blocks[base + k] = Block(source, copies[k])
  <2>1. IsSeq(blocks) /\ Len(blocks) = Len(copies)
    <3>1. blocks \in [1 .. Len(copies) -> {Block(source, copies[k]) : k \in DOMAIN copies}]
      BY <1>2
    <3> HIDE DEF blocks
    <3>2. /\ blocks \in Seq({Block(source, copies[k]) : k \in DOMAIN copies})
          /\ DOMAIN blocks = 1 .. Len(copies)
      BY <1>2, <3>1, SeqDef, SMTT(30)
    <3>3. DOMAIN blocks = 1 .. Len(blocks) /\ IsSeq(blocks) /\ Len(blocks) \in Nat
      BY <3>2, SeqOfItsElements
    <3> QED BY <1>2, <3>2, <3>3
  <2>2. \A k \in DOMAIN copies : blocks[k] = Block(source, copies[k])
    OBVIOUS
  <2> HIDE DEF blocks
  <2> DEFINE all == dest.blocks \o blocks
  <2>3. IsSeq(dest.blocks)
    BY <1>1, FileParts
  <2>4. /\ IsSeq(all) /\ Len(all) = Len(dest.blocks) + Len(blocks)
        /\ \A j \in 1 .. Len(blocks) : all[Len(dest.blocks) + j] = blocks[j]
    <3> DEFINE old == dest.blocks
    <3>1. IsSeq(old) /\ IsSeq(blocks)
      BY <2>1, <2>3
    <3> HIDE DEF old
    <3>2. /\ IsSeq(old \o blocks) /\ Len(old \o blocks) = Len(old) + Len(blocks)
          /\ \A j \in 1 .. Len(blocks) : (old \o blocks)[Len(old) + j] = blocks[j]
      BY <3>1, Concatenated
    <3> QED BY <3>2 DEF old
  <2>5. dest'.blocks = all
    <3> DEFINE d == dest'
    <3>1. d = [dest EXCEPT !.blocks = all]
      BY <1>1
    <3> HIDE DEF all, d
    <3>2. [dest EXCEPT !.blocks = all].blocks = all
      BY <1>1, <2>4, FileOf
    <3>3. d.blocks = all
      BY <3>1, <3>2
    <3> QED BY <3>3 DEF d
  <2> HIDE DEF all
  <2>6. Len(dest'.blocks) = base + Len(copies)
    BY <2>1, <2>4, <2>5
  <2>7. ASSUME NEW k \in DOMAIN copies
        PROVE  dest'.blocks[base + k] = Block(source, copies[k])
    <3>1. k \in 1 .. Len(blocks)
      BY <1>2, <2>1
    <3> QED BY <2>2, <2>4, <2>5, <3>1
  <2> QED BY <2>6, <2>7
<1>10. \A k \in DOMAIN copies : /\ base + k - 1 \in Nat /\ base + k - 1 >= base
                                /\ (base + k - 1) + 1 = base + k /\ k \in Nat
  <2> DEFINE N == Len(copies)
  <2>1. base \in Nat /\ N \in Nat /\ DOMAIN copies = 1 .. N
    BY <1>1, <1>2, Zenon
  <2> HIDE DEF base, N
  <2>2. \A k \in 1 .. N : /\ base + k - 1 \in Nat /\ base + k - 1 >= base
                           /\ (base + k - 1) + 1 = base + k /\ k \in Nat
    BY <2>1
  <2> QED BY <2>1, <2>2, Zenon
<1> HIDE DEF New
<1>11. ASSUME NEW i \in New
       PROVE  /\ map'[i] \in Nat /\ map'[i] >= base
              /\ Block(dest', map'[i]) = Block(source, i)
  <2>1. PICK k \in DOMAIN copies : copies[k] = i
    BY <1>3
  <2>2. map'[i] = base + k - 1
    BY <1>5, <1>7, <2>1
  <2>3. Block(dest', map'[i]) = dest'.blocks[base + k]
    BY <1>10, <2>2 DEF Block
  <2> QED BY <1>9, <1>10, <2>1, <2>2, <2>3
<1>12. ASSUME NEW i \in New, NEW j \in New, map'[i] = map'[j] PROVE i = j
  <2>1. PICK k \in DOMAIN copies : copies[k] = i
    BY <1>3
  <2>2. PICK l \in DOMAIN copies : copies[l] = j
    BY <1>3
  <2>3. map'[i] = base + k - 1 /\ map'[j] = base + l - 1
    BY <1>5, <1>7, <2>1, <2>2
  <2>4. k = l
    BY <1>1, <1>10, <1>12, <2>3, SMTT(30)
  <2> QED BY <2>1, <2>2, <2>4
<1>13. cloned = SlotImage(slot, map')
  <2>1. renumbered(slot.value) = map'[slot.value]
    <3>1. slot.value \in DOMAIN map'
      BY <1>7 DEF SlotReferences, New
    <3> QED BY <1>7, <3>1 DEF Resolves
  <2>2. renumbered(slot.key) = IF slot.literal THEN slot.key ELSE map'[slot.key]
    <3>1. CASE slot.literal
      BY <3>1 DEF Resolves
    <3>2. CASE ~slot.literal
      <4>1. slot.key \in DOMAIN map'
        BY <1>7, <3>2 DEF SlotReferences, New
      <4> QED BY <1>7, <3>2, <4>1 DEF Resolves
    <3> QED BY <3>1, <3>2
  <2> HIDE DEF renumbered
  <2>4. cloned = [value |-> renumbered(slot.value), key |-> renumbered(slot.key),
                  literal |-> slot.literal]
    <3> DEFINE x == renumbered(slot.value)
               y == renumbered(slot.key)
    <3>1. cloned = [slot EXCEPT !.value = x, !.key = y]
      OBVIOUS
    <3> HIDE DEF x, y, cloned
    <3>2. cloned = [value |-> x, key |-> y, literal |-> slot.literal]
      BY <3>1, SlotFields
    <3> QED BY <3>2 DEF x, y
  <2> DEFINE m2 == map'
             value == renumbered(slot.value)
             key == renumbered(slot.key)
  <2>5. cloned = [value |-> value, key |-> key, literal |-> slot.literal]
    BY <2>4
  <2>6. value = m2[slot.value] /\ key = IF slot.literal THEN slot.key ELSE m2[slot.key]
    BY <2>1, <2>2
  <2> HIDE DEF cloned, m2, value, key
  <2>7. cloned = SlotImage(slot, m2)
    BY <2>5, <2>6 DEF SlotImage
  <2> QED BY <2>7 DEF m2
<1> HIDE DEF cloned, renumbered
<1>14. stack' = [stack EXCEPT ![Len(stack)] = SlotFrame(Top, SlotImage(slot, map'))]
  <2>1. Top = stack[Len(stack)] /\ Len(stack) \in DOMAIN stack
    BY <1>1, TopIsFrame
  <2>2. stack' = [stack EXCEPT ![Len(stack)] = SlotFrame(Top, cloned)]
    BY <1>1, <2>1 DEF SlotFrame, NextSlot
  <2> QED BY <1>13, <2>2
<1> HIDE DEF base
<1>15. Len(dest'.blocks) = Len(dest.blocks) + Cardinality(New) /\ IsFiniteSet(New)
  BY <1>2, <1>9 DEF base, New
<1> QED BY <1>1, <1>7, <1>8, <1>11, <1>12, <1>14, <1>15 DEF base, New

(* The fields of the frame after a slot has been cloned. *)
LEMMA SlotFrameFields ==
  ASSUME NEW frame \in Frames, NEW new
  PROVE  LET g == SlotFrame(frame, new)
         IN /\ g.source = frame.source /\ g.phase = frame.phase /\ g.at = frame.at + 1
            /\ g.node.slots = [frame.node.slots EXCEPT ![frame.at] = new]
            /\ g.node.is_leaf = frame.node.is_leaf
            /\ g.node.forward = frame.node.forward /\ g.node.backward = frame.node.backward
<1> DEFINE slots == [frame.node.slots EXCEPT ![frame.at] = new]
           node == [frame.node EXCEPT !.slots = slots]
           g == SlotFrame(frame, new)
<1>1. frame.node \in Nodes
  BY DEF Frames
<1>2. g = [frame EXCEPT !.node = node, !.at = frame.at + 1]
  BY DEF SlotFrame
<1>3. /\ node.slots = slots /\ node.is_leaf = frame.node.is_leaf
      /\ node.forward = frame.node.forward /\ node.backward = frame.node.backward
  <2> HIDE DEF slots
  <2> QED BY <1>1 DEF Nodes
<1> HIDE DEF node
<1>4. g.source = frame.source /\ g.phase = frame.phase /\ g.at = frame.at + 1 /\ g.node = node
  BY <1>2 DEF Frames
<1> HIDE DEF g
<1> QED BY <1>3, <1>4 DEF g

(* One more slot is rewritten. *)
LEMMA SlotFrameOK ==
  ASSUME NEW src, NEW frame \in Frames, NEW m, NEW m2, Extended(m, m2),
         FrameOK(src, frame, m), frame.phase = "slots", Block(src, frame.source) \in Nodes,
         frame.at \in DOMAIN Block(src, frame.source).slots,
         SlotReferences(Block(src, frame.source).slots[frame.at]) \subseteq DOMAIN m2
  PROVE  FrameOK(src, SlotFrame(frame, SlotImage(Block(src, frame.source).slots[frame.at], m2)), m2)
<1> DEFINE node == Block(src, frame.source)
           at == frame.at
           new == SlotImage(node.slots[at], m2)
           g == SlotFrame(frame, new)
<1>1. /\ g.source = frame.source /\ g.phase = "slots" /\ g.at = at + 1
      /\ g.node.slots = [frame.node.slots EXCEPT ![at] = new]
      /\ g.node.is_leaf = frame.node.is_leaf
      /\ g.node.forward = frame.node.forward /\ g.node.backward = frame.node.backward
  <2> HIDE DEF new
  <2> QED BY SlotFrameFields
<1>2. FrameOK(src, frame, m2)
  BY FrameStays
<1>3. /\ node.is_leaf /\ LeafFrame(frame, node, m2) /\ frame.node.is_leaf = node.is_leaf
  BY <1>2 DEF FrameOK, RootFrame
<1>4. node.slots \in Seq(Slots)
  BY DEF Nodes
<1>5. /\ Len(node.slots) \in Nat /\ DOMAIN node.slots = 1 .. Len(node.slots)
      /\ at \in 1 .. Len(node.slots)
  BY <1>4, LenProperties
<1> HIDE DEF g, node
<1>6. /\ DOMAIN frame.node.slots = DOMAIN node.slots
      /\ \A k \in DOMAIN node.slots :
           IF k < at
           THEN /\ SlotReferences(node.slots[k]) \subseteq DOMAIN m2
                /\ frame.node.slots[k] = SlotImage(node.slots[k], m2)
           ELSE frame.node.slots[k] = node.slots[k]
      /\ frame.node.forward = node.forward /\ frame.node.backward = node.backward
  BY <1>3 DEF LeafFrame
<1>7. /\ DOMAIN g.node.slots = DOMAIN node.slots
      /\ g.node.slots[at] = new
      /\ \A k \in DOMAIN node.slots : k # at => g.node.slots[k] = frame.node.slots[k]
  <2> HIDE DEF new, at
  <2> QED BY <1>1, <1>5, <1>6
<1>8. ASSUME NEW k \in DOMAIN node.slots
      PROVE  IF k < g.at
             THEN /\ SlotReferences(node.slots[k]) \subseteq DOMAIN m2
                  /\ g.node.slots[k] = SlotImage(node.slots[k], m2)
             ELSE g.node.slots[k] = node.slots[k]
  <2>1. k \in Nat /\ at \in Nat
    BY <1>5
  <2>2. CASE k = at
    <3>1. k < g.at
      BY <1>1, <2>1, <2>2
    <3>2. SlotReferences(node.slots[k]) \subseteq DOMAIN m2
      BY <2>2 DEF node
    <3> QED BY <1>7, <2>2, <3>1, <3>2
  <2>3. CASE k < at
    <3>1. k < g.at /\ k # at
      BY <1>1, <2>1, <2>3
    <3> QED BY <1>6, <1>7, <2>3, <3>1
  <2>4. CASE k > at
    <3>1. ~(k < g.at) /\ k # at /\ ~(k < at)
      BY <1>1, <2>1, <2>4
    <3> QED BY <1>6, <1>7, <3>1
  <2> QED BY <2>1, <2>2, <2>3, <2>4
<1>9. g.at <= Len(node.slots) + 1
  BY <1>1, <1>5
<1>10. LeafFrame(g, node, m2)
  BY <1>1, <1>6, <1>7, <1>8, <1>9 DEF LeafFrame
<1>11. Block(src, g.source) = node
  BY <1>1 DEF node
<1>12. FrameOK(src, g, m2)
  BY <1>1, <1>3, <1>10, <1>11 DEF FrameOK
<1> QED BY <1>12 DEF g, node

(* The loop's turn for one slot of the leaf that is being cloned. *)
LEMMA CloneSlotStep ==
  ASSUME CloneInv, Inv', CloneSlot
  PROVE  CloneInv'
<1> DEFINE node == Block(source, Top.source)
           slot == Top.node.slots[Top.at]
           New == SlotReferences(slot) \ DOMAIN map
           frame == SlotFrame(Top, SlotImage(slot, map'))
<1>1. /\ pc = "run" /\ pc' = "run" /\ pc \in Cloning /\ stack # << >>
      /\ Top.phase = "slots" /\ Top.at <= Len(Top.node.slots)
      /\ UNCHANGED << source, next, arg, result, before >>
  BY DEF CloneSlot, Running, CloneInv, Inv, ControlOK, Cloning
<1>2. /\ Inv /\ FramesOK /\ CallsOK /\ MetOK /\ ClonesOK
      /\ Top \in Frames /\ Top = stack[Len(stack)] /\ Len(stack) \in DOMAIN stack
      /\ Top.source \in TreeNodes /\ node \in Nodes /\ Top.source \in DOMAIN map
      /\ node.slots \in Seq(Slots) /\ FrameOK(source, Top, map)
      /\ Top.node.slots \in Seq(Slots) /\ Top.at \in Nat \ {0}
  BY <1>1, TopParts DEF Frames
<1>3. node.is_leaf /\ LeafFrame(Top, node, map) /\ Top.node.is_leaf = node.is_leaf
  BY <1>1, <1>2 DEF FrameOK, RootFrame
<1>4. Top.at \in DOMAIN node.slots /\ slot = node.slots[Top.at]
  <2> DEFINE s == Top.node.slots t == node.slots at == Top.at
  <2>1. s \in Seq(Slots) /\ at \in Nat \ {0} /\ at <= Len(s) /\ DOMAIN s = DOMAIN t
    BY <1>1, <1>2, <1>3 DEF LeafFrame
  <2> HIDE DEF s, t, at
  <2>2. at \in DOMAIN s /\ ~(at < at)
    BY <2>1, LenProperties
  <2>3. at \in DOMAIN t
    BY <2>1, <2>2
  <2> USE DEF s, t, at
  <2> HIDE DEF node
  <2> QED BY <1>3, <2>2, <2>3 DEF LeafFrame
<1>5. /\ slot \in Slots /\ SlotReferences(slot) \subseteq DataOf(source)
      /\ slot.literal => slot.key \notin Numbers(source)
  BY <1>1, <1>2, <1>3, <1>4, LeafParts
<1>7. slot.value \in Numbers(source)
  BY <1>5 DEF SlotReferences, DataOf
<1>8. ~slot.literal => slot.key \in Numbers(source)
  BY <1>5 DEF SlotReferences, DataOf
<1>9. /\ Extended(map, map') /\ DOMAIN map' = DOMAIN map \cup New
      /\ \A i \in New : /\ map'[i] \in Nat /\ map'[i] >= Len(dest.blocks)
                        /\ Block(dest', map'[i]) = Block(source, i)
      /\ \A i, j \in New : map'[i] = map'[j] => i = j
      /\ Grows(dest, dest')
      /\ IsFiniteSet(New) /\ Len(dest'.blocks) = Len(dest.blocks) + Cardinality(New)
      /\ stack' = [stack EXCEPT ![Len(stack)] = frame]
  <2> DEFINE s0 == slot
  <2>1. s0 \in Slots /\ s0 = Top.node.slots[Top.at] /\ s0.value \in Numbers(source)
    BY <1>5, <1>7
  <2>2. s0.literal => s0.key \notin Numbers(source)
    BY <1>5
  <2>3. ~s0.literal => s0.key \in Numbers(source)
    BY <1>8
  <2> HIDE DEF s0
  <2> QED BY <1>2, <2>1, <2>2, <2>3, SlotCopied
<1>10. New \subseteq DataOf(source) /\ New \cap DOMAIN map = {} /\ SlotReferences(slot) \subseteq DOMAIN map'
  BY <1>5, <1>9
<1>11. /\ frame.source = Top.source /\ frame.phase = "slots"
  <2> DEFINE new == SlotImage(slot, map')
  <2> HIDE DEF new
  <2> QED BY <1>1, <1>2, SlotFrameFields
<1>12. FrameOK(source, frame, map')
  <2> DEFINE m2 == map'
             image == SlotImage(node.slots[Top.at], m2)
  <2>1. Extended(map, m2) /\ SlotReferences(node.slots[Top.at]) \subseteq DOMAIN m2
    BY <1>4, <1>9, <1>10
  <2> HIDE DEF m2
  <2>2. FrameOK(source, SlotFrame(Top, image), m2)
    BY <1>1, <1>2, <1>4, <2>1, SlotFrameOK
  <2> QED BY <1>4, <2>2 DEF m2
<1> HIDE DEF frame, slot, New
<1>13. /\ Len(stack') = Len(stack) /\ Len(stack) \in Nat \ {0} /\ stack' # << >>
       /\ DOMAIN stack = 1 .. Len(stack) /\ DOMAIN stack' = 1 .. Len(stack)
       /\ Top' = frame /\ stack'[Len(stack)] = frame
       /\ \A k \in 1 .. Len(stack) - 1 : stack'[k] = stack[k]
  BY <1>1, <1>2, <1>9, TopNow
<1>14. \A k \in DOMAIN stack : stack'[k].source = stack[k].source
  BY <1>2, <1>11, <1>13
<1>15. TreeNodes' = TreeNodes /\ Child' = Child /\ Variable' = Variable
  BY <1>1 DEF TreeNodes, Child, Variable
<1>16. FramesOK'
  <2>1. ASSUME NEW k \in DOMAIN stack'
        PROVE  stack'[k].source \in TreeNodes /\ FrameOK(source, stack'[k], map')
    <3>1. stack[k].source \in TreeNodes /\ FrameOK(source, stack[k], map)
      BY <1>2, <1>13, <2>1 DEF FramesOK
    <3>2. CASE k = Len(stack)
      BY <1>2, <1>11, <1>12, <1>13, <3>2
    <3>3. CASE k # Len(stack)
      <4> DEFINE f == stack[k] m2 == map'
      <4>1. stack'[k] = f
        BY <1>13, <2>1, <3>3
      <4>2. Extended(map, m2) /\ FrameOK(source, f, map) /\ Block(source, f.source) \in Nodes
        BY <1>1, <1>2, <1>9, <3>1, TreeParts
      <4> HIDE DEF f, m2
      <4>3. FrameOK(source, f, m2)
        BY <4>2, FrameStays
      <4> QED BY <3>1, <4>1, <4>3 DEF f, m2
    <3> QED BY <3>2, <3>3
  <2>2. ASSUME NEW k \in 1 .. Len(stack) - 1
        PROVE  /\ stack'[k].phase \in {"forward", "redirected"}
               /\ stack'[k + 1].source \in Following(source, stack'[k].source)
    <3>1. /\ stack[k].phase \in {"forward", "redirected"}
          /\ stack[k + 1].source \in Following(source, stack[k].source)
      BY <1>2, <2>2, Zenon DEF FramesOK
    <3>2. k + 1 \in DOMAIN stack
      BY <1>13, <2>2, Below
    <3> QED BY <1>13, <1>14, <2>2, <3>1, <3>2
  <2>3. stack'[1].source = Child
    <3>1. 1 \in DOMAIN stack
      <4>1. DOMAIN stack = 1 .. Len(stack) /\ Len(stack) \in Nat /\ Len(stack) # 0
        BY <1>13
      <4> QED BY <4>1
    <3>2. stack[1].source = Child
      BY <1>1, <1>2 DEF FramesOK
    <3> QED BY <1>14, <3>1, <3>2
  <2> QED BY <1>1, <1>13, <1>15, <2>1, <2>2, <2>3 DEF FramesOK
<1>17. CallsOK'
  BY <1>1, <1>11, <1>13 DEF CallsOK
<1>18. MetOK'
  <2>1. ASSUME NEW n \in DOMAIN map' \cap NodesOf(source), ~Busy(n)'
        PROVE  Following(source, n) \subseteq DOMAIN map'
    <3>1. n \in DOMAIN map
      BY <1>9, <1>10, <2>1 DEF DataOf
    <3>2. ~Busy(n)
      BY <1>1, <1>11, <1>13, <2>1 DEF Busy
    <3> QED BY <1>2, <1>9, <2>1, <3>1, <3>2 DEF MetOK
  <2>2. ~Skipped(Variable)' /\ IsTree(Variable.index)'
    BY <1>1, <1>2, <1>15 DEF MetOK, Skipped, IsTree, Resolves
  <2>3. DOMAIN map' \cap NodesOf(source) \subseteq TreeNodes
    BY <1>2, <1>9, <1>10 DEF MetOK, DataOf
  <2>4. Child \in DOMAIN map'
    BY <1>2, <1>9 DEF MetOK
  <2>5. \A n \in DOMAIN map' : map'[n] >= before
    <3>1. before \in Nat /\ Len(dest.blocks) \in Nat /\ before <= Len(dest.blocks)
      BY <1>2, <1>9 DEF Inv, TypeOK, Grows
    <3>2. \A n \in DOMAIN map : map'[n] >= before
      BY <1>2, <1>9 DEF MetOK, Extended
    <3>3. \A n \in New : map'[n] >= before
      BY <1>9, <3>1
    <3> QED BY <1>9, <3>2, <3>3
  <2>6. /\ IsFiniteSet(DOMAIN map')
        /\ Len(dest'.blocks) = before + Cardinality(DOMAIN map')
    <3> DEFINE D == DOMAIN map
    <3>1. IsFiniteSet(D) /\ Len(dest.blocks) = before + Cardinality(D) /\ IsFiniteSet(New) /\ D \cap New = {}
      BY <1>2, <1>9, <1>10 DEF MetOK
    <3> HIDE DEF D
    <3>2. /\ IsFiniteSet(D \cup New)
          /\ Cardinality(D \cup New) = Cardinality(D) + Cardinality(New) - Cardinality(D \cap New)
          /\ Cardinality(D \cap New) = 0 /\ Cardinality(D) \in Nat /\ Cardinality(New) \in Nat
      BY <3>1, FS_Union, FS_EmptySet, FS_CardinalityType
    <3>3. DOMAIN map' = D \cup New
      BY <1>9 DEF D
    <3>4. before \in Nat
      BY <1>2, <1>9 DEF Inv, TypeOK, Grows
    <3> QED BY <1>9, <3>1, <3>2, <3>3, <3>4
  <2> QED BY <1>1, <1>15, <2>1, <2>2, <2>3, <2>4, <2>5, <2>6 DEF MetOK
<1>19. ClonesOK'
  <2>1. \A n \in DOMAIN map : n \in Numbers(source) /\ map[n] \in Numbers(dest)
    BY <1>2 DEF Inv, TypeOK
  <2>2. \A n \in DOMAIN map, i \in New : map[n] # map'[i]
    <3>1. Len(dest.blocks) \in Nat
      BY <1>9 DEF Grows
    <3> QED BY <1>9, <2>1, <3>1 DEF Numbers
  <2>3. \A n, k \in DOMAIN map' : map'[n] = map'[k] => n = k
    BY <1>2, <1>9, <2>2 DEF ClonesOK, Extended
  <2>4. ASSUME NEW n \in Finished' PROVE Faithful(source, dest', map', n)
    <3>1. n \in DOMAIN map' /\ \A k \in DOMAIN stack' : stack'[k].source # n
      BY <2>4 DEF Finished
    <3>2. CASE n \in New
      <4>1. Block(source, n).kind # "node"
        BY <1>10, <3>2 DEF DataOf, NodesOf
      <4> QED BY <1>9, <3>2, <4>1 DEF Faithful
    <3>3. CASE n \in DOMAIN map
      <4>1. \A k \in DOMAIN stack : stack[k].source # n
        BY <1>13, <1>14, <3>1
      <4>2. n \in Finished
        BY <3>3, <4>1 DEF Finished
      <4>3. /\ Faithful(source, dest, map, n)
            /\ Block(source, n).kind = "node" => Block(source, n) \in Nodes
        BY <1>2, <2>1, <3>3, <4>2, SourceBlocks DEF ClonesOK
      <4> DEFINE m2 == map'
                 g == dest'
      <4>4. Extended(map, m2) /\ Block(g, map[n]) = Block(dest, map[n])
        BY <1>9, <2>1, <3>3 DEF Grows
      <4> HIDE DEF m2, g
      <4>5. Faithful(source, g, m2, n)
        BY <3>3, <4>3, <4>4, FaithfulStays
      <4> QED BY <4>5 DEF m2, g
    <3> QED BY <1>9, <3>1, <3>2, <3>3
  <2> QED BY <1>1, <2>3, <2>4 DEF ClonesOK
<1> QED BY <1>1, <1>16, <1>17, <1>18, <1>19 DEF CloneInv

-----------------------------------------------------------------------------
(* The clone as a whole.                                                   *)

(* Clones stay when the destination grows outside of a call. *)
LEMMA ClonesKept ==
  ASSUME Inv, ClonesOK, UNCHANGED << source, stack, map >>, Grows(dest, dest')
  PROVE  ClonesOK'
<1>1. Finished' = Finished
  BY DEF Finished
<1>2. ASSUME NEW n \in Finished PROVE Faithful(source, dest', map, n)
  <2> DEFINE g == dest'
  <2>1. n \in DOMAIN map /\ n \in Numbers(source) /\ map[n] \in Numbers(dest)
    BY <1>2 DEF Finished, Inv, TypeOK
  <2>2. Block(source, n).kind = "node" => Block(source, n) \in Nodes
    BY <2>1, SourceBlocks
  <2>3. Faithful(source, dest, map, n) /\ Extended(map, map) /\ Block(g, map[n]) = Block(dest, map[n])
    BY <1>2, <2>1 DEF ClonesOK, Extended, Grows
  <2> HIDE DEF g
  <2>4. Faithful(source, g, map, n)
    BY <2>1, <2>2, <2>3, FaithfulStays
  <2> QED BY <2>4 DEF g
<1> QED BY <1>1, <1>2 DEF ClonesOK

(* The steps from variable to variable. *)
LEMMA VariablesStep ==
  ASSUME CloneInv, Inv', SkipVariable \/ CopyOpaque \/ BeginTree \/ RegisterTree \/ AllVisited
  PROVE  CloneInv'
<1>1. Inv /\ ClonesOK /\ Grows(dest, dest')
  BY VariablesKeep DEF CloneInv
<1>2. CASE SkipVariable \/ CopyOpaque \/ RegisterTree \/ AllVisited
  <2>1. UNCHANGED << source, stack, map >> /\ pc' \notin Cloning
    BY <1>2 DEF SkipVariable, CopyOpaque, RegisterTree, AllVisited, Cloning
  <2> QED BY <1>1, <2>1, ClonesKept DEF CloneInv
<1>3. CASE BeginTree
  <2>1. /\ pc' = "enter" /\ pc = "next" /\ arg' = Child /\ map' = << >> /\ before' = Len(dest.blocks)
        /\ stack = << >> /\ stack' = << >> /\ ~Skipped(Variable) /\ IsTree(Variable.index)
        /\ UNCHANGED << source, dest, next >>
    BY <1>1, <1>3 DEF BeginTree, Child, Inv, ControlOK, Cloning
  <2>2. DOMAIN map' = {} /\ DOMAIN stack' = {} /\ Len(stack') = 0
    BY <2>1
  <2>3. Child' = Child /\ Variable' = Variable
    BY <2>1 DEF Child, Variable
  <2>4. FramesOK'
    <3>1. 1 .. Len(stack') - 1 = {}
      BY <2>2
    <3> QED BY <2>1, <2>2, <3>1 DEF FramesOK
  <2>5. CallsOK'
    BY <2>1, <2>2, <2>3 DEF CallsOK
  <2>6. MetOK'
    <3>1. ~Skipped(Variable)' /\ IsTree(Variable.index)'
      BY <2>1, <2>3 DEF Skipped, IsTree, Resolves
    <3>2. Len(dest.blocks) = Len(dest.blocks) + 0
      BY <1>1 DEF Grows
    <3>3. IsFiniteSet({}) /\ Cardinality({}) = 0
      BY FS_EmptySet
    <3>4. IsFiniteSet(DOMAIN map') /\ Len(dest'.blocks) = before' + Cardinality(DOMAIN map')
      BY <2>1, <2>2, <3>2, <3>3
    <3> QED BY <2>1, <2>2, <3>1, <3>4 DEF MetOK
  <2>7. ClonesOK'
    BY <2>2 DEF ClonesOK, Finished
  <2> QED BY <2>1, <2>4, <2>5, <2>6, <2>7 DEF CloneInv
<1> QED BY <1>2, <1>3

(* Every step keeps the invariant of the clone. *)
LEMMA CloneStep ==
  ASSUME CloneInv, [Next]_vars
  PROVE  CloneInv'
<1>1. Inv'
  BY StepKeeps DEF CloneInv
<1>2. CASE UNCHANGED vars
  <2>1. /\ UNCHANGED << source, dest, next, pc, arg, result, stack, map, before >>
        /\ TreeNodes' = TreeNodes /\ Child' = Child /\ Variable' = Variable /\ Top' = Top
        /\ Finished' = Finished
    BY <1>2 DEF vars, TreeNodes, Child, Variable, Top, Finished
  <2>2. FramesOK' <=> FramesOK
    BY <2>1 DEF FramesOK
  <2>3. CallsOK' <=> CallsOK
    BY <2>1 DEF CallsOK
  <2>4. MetOK' <=> MetOK
    BY <2>1 DEF MetOK, Busy, Skipped, IsTree, Resolves
  <2>5. ClonesOK' <=> ClonesOK
    BY <2>1 DEF ClonesOK
  <2> QED BY <1>1, <2>1, <2>2, <2>3, <2>4, <2>5 DEF CloneInv
<1>3. CASE SkipVariable \/ CopyOpaque \/ BeginTree \/ RegisterTree \/ AllVisited
  BY <1>1, <1>3, VariablesStep
<1>4. CASE EnterKnown \/ EnterForeign
  BY <1>1, <1>4, EnterStep
<1>5. CASE EnterNode
  BY <1>1, <1>5, EnterNodeStep
<1>6. CASE CloneSlot
  BY <1>1, <1>6, CloneSlotStep
<1>7. CASE CloneForward
  BY <1>1, <1>7, CloneForwardStep
<1>8. CASE NoForward
  BY <1>1, <1>8, NoForwardStep
<1>9. CASE ForwardReturned
  BY <1>1, <1>9, ForwardReturnedStep
<1>10. CASE LinkBackward
  BY <1>1, <1>10, LinkBackwardStep
<1>11. CASE Redirect
  BY <1>1, <1>11, RedirectStep
<1>12. CASE RedirectNowhere
  BY <1>1, <1>12, RedirectNowhereStep
<1>13. CASE RedirectReturned
  BY <1>1, <1>13, RedirectReturnedStep
<1>14. CASE Finish
  BY <1>1, <1>14, FinishStep
<1> QED BY <1>2, <1>3, <1>4, <1>5, <1>6, <1>7, <1>8, <1>9, <1>10, <1>11, <1>12, <1>13, <1>14
        DEF Next, CloneEntry

(* Nothing has been cloned in the beginning. *)
LEMMA CloneInit ==
  ASSUME Init
  PROVE  CloneInv
<1>1. Inv /\ pc = "next" /\ DOMAIN map = {}
  BY InitHolds DEF Init
<1> QED BY <1>1 DEF CloneInv, ClonesOK, Finished, Cloning

(* The image of a leaf, as the property states it. *)
LEMMA LeafImageIsImage ==
  ASSUME NEW block \in Nodes
  PROVE  Image(block) = LeafImage(block, map)
<1> DEFINE slots == [k \in DOMAIN block.slots |-> Renumbered(block.slots[k])]
           f == LinkImage(block.forward, map)
           b == LinkImage(block.backward, map)
           images == [k \in DOMAIN block.slots |-> SlotImage(block.slots[k], map)]
<1>1. block.kind = "node" /\ block.slots \in Seq(Slots)
  BY DEF Nodes
<1>2. slots = images
  <2>1. ASSUME NEW k \in DOMAIN block.slots PROVE slots[k] = images[k]
    <3> DEFINE slot == block.slots[k]
               x == map[slot.value]
               y == IF slot.literal THEN slot.key ELSE map[slot.key]
    <3>1. slot \in Slots
      BY <1>1, LenProperties, ElementOfSeq
    <3>2. slots[k] = [slot EXCEPT !.value = x, !.key = y]
      BY DEF Renumbered
    <3>3. images[k] = [value |-> x, key |-> y, literal |-> slot.literal]
      BY DEF SlotImage
    <3> HIDE DEF slot, x, y, slots, images
    <3> QED BY <3>1, <3>2, <3>3, SlotFields, ZenonT(40)
  <2> QED BY <2>1
<1>3. Image(block) = [block EXCEPT !.slots = slots, !.forward = f, !.backward = b]
  BY <1>1 DEF Image, LinkImage
<1>4. LeafImage(block, map) = [kind |-> "node", is_leaf |-> block.is_leaf, slots |-> images,
                               forward |-> f, backward |-> b]
  BY DEF LeafImage
<1> HIDE DEF slots, f, b, images
<1> DEFINE t == [block EXCEPT !.slots = slots, !.forward = f, !.backward = b]
<1>5. block \in [kind : {"node"}, is_leaf : {block.is_leaf}, slots : Seq(Slots) \cup {slots},
                 forward : Nat \cup {f}, backward : Nat \cup {b}]
  BY DEF Nodes
<1>6. /\ t \in [kind : {"node"}, is_leaf : {block.is_leaf}, slots : Seq(Slots) \cup {slots},
                forward : Nat \cup {f}, backward : Nat \cup {b}]
      /\ t.kind = "node" /\ t.is_leaf = block.is_leaf /\ t.slots = slots
      /\ t.forward = f /\ t.backward = b
  BY <1>5
<1> HIDE DEF t
<1>7. t = [kind |-> t.kind, is_leaf |-> t.is_leaf, slots |-> t.slots,
           forward |-> t.forward, backward |-> t.backward]
  BY <1>6
<1>8. t = [kind |-> "node", is_leaf |-> block.is_leaf, slots |-> slots,
           forward |-> f, backward |-> b]
  BY <1>6, <1>7
<1> QED BY <1>2, <1>3, <1>4, <1>8 DEF t

(* The clone invariant is what the property says. *)
LEMMA CloneInvIsFaithful == CloneInv => ClonedFaithfully
<1> SUFFICES ASSUME CloneInv PROVE ClonedFaithfully
  OBVIOUS
<1>1. ASSUME NEW n \in Finished, Block(source, n).kind = "node" => Block(source, n).is_leaf
      PROVE  Rewritable(Block(source, n)) /\ Block(dest, map[n]) = Image(Block(source, n))
  <2> DEFINE block == Block(source, n)
  <2>1. Faithful(source, dest, map, n) /\ Inv /\ n \in Numbers(source)
    BY <1>1 DEF CloneInv, ClonesOK, Inv, TypeOK, Finished
  <2>2. CASE block.kind # "node"
    BY <2>1, <2>2 DEF Faithful, Rewritable, Image
  <2>3. CASE block.kind = "node"
    <3>1. LeafReferences(block) \subseteq DOMAIN map /\ Block(dest, map[n]) = LeafImage(block, map)
      BY <1>1, <2>1, <2>3 DEF Faithful
    <3>2. block \in Nodes
      BY <2>1, <2>3, SourceBlocks
    <3> HIDE DEF block
    <3>3. Image(block) = LeafImage(block, map)
      BY <3>2, LeafImageIsImage
    <3>4. Rewritable(block)
      BY <3>1 DEF Rewritable, LeafReferences
    <3> QED BY <3>1, <3>3, <3>4 DEF block
  <2> QED BY <2>2, <2>3
<1>2. pc \in {"enter", "run", "return"} => Len(dest.blocks) = before + Cardinality(DOMAIN map)
  BY DEF CloneInv, MetOK, Cloning
<1> QED BY <1>1, <1>2 DEF ClonedFaithfully

(* Of every tree that is whole, data blocks and leaves are cloned with each *)
(* reference in them rewritten, the link to a leaf before included, and    *)
(* none is copied twice: for any number of leaves, in any order, in a line *)
(* or in a ring.                                                           *)
THEOREM ClonesAreFaithful == Spec => []ClonedFaithfully
BY CloneInit, CloneStep, CloneInvIsFaithful, PTL DEF Spec

-----------------------------------------------------------------------------
(* What a copy of a variable is.  The blocks below this number stay as they *)
(* are: those that were there before the clone that is being made.         *)
Fixed == IF pc \in Cloning THEN before ELSE Len(dest.blocks)

(* The tree of a source and its copy, by the map that the cloner had. *)
TreeCopied(src, file, fixed, v, d, m) ==
  LET tree == Block(src, v.index)
      child == IF tree.child \in NodesOf(src) THEN m[tree.child] ELSE tree.child
  IN /\ tree.child \in NodesOf(src) => tree.child \in DOMAIN m
     /\ Block(file, d.index) = [tree EXCEPT !.child = child]
     /\ \A n \in DOMAIN m : /\ n \in Numbers(src) /\ m[n] \in 0 .. fixed - 1
                            /\ Faithful(src, file, m, n)

Carried(src, v) == v.name \notin Managed /\ v.index \in Numbers(src)

Copied(src, file, fixed, v, d) ==
  /\ Carried(src, v) /\ d.name = v.name /\ d.index \in 0 .. fixed - 1
  /\ Block(src, v.index).kind # "tree" => Block(file, d.index) = Block(src, v.index)
  /\ Block(src, v.index).kind = "tree" => \E m : TreeCopied(src, file, fixed, v, d, m)

(* The writer's variables come first and stay; after them are the copies of *)
(* those that the iteration has visited and not skipped.                   *)
VariablesOK ==
  /\ Len(Written.blocks) <= Fixed
  /\ \A i \in Numbers(Written) : Block(dest, i) = Block(Written, i)
  /\ \A k \in DOMAIN Written.variables :
       k \in DOMAIN dest.variables /\ dest.variables[k] = Written.variables[k]
  /\ \A j \in DOMAIN dest.variables \ DOMAIN Written.variables :
       \E k \in DOMAIN source.variables :
         k < next /\ Copied(source, dest, Fixed, source.variables[k], dest.variables[j])
  /\ \A k \in DOMAIN source.variables :
       (k < next /\ Carried(source, source.variables[k])) =>
         \E j \in DOMAIN dest.variables \ DOMAIN Written.variables :
           Copied(source, dest, Fixed, source.variables[k], dest.variables[j])
  /\ \A i, j \in DOMAIN dest.variables : dest.variables[i].name = dest.variables[j].name => i = j
  /\ pc = "done" => next > Len(source.variables)

CopyInv == CloneInv /\ VariablesOK

(* What does not change of the blocks of the destination. *)
BlocksFixed ==
  /\ Fixed \in Nat /\ Fixed' \in Nat /\ Fixed <= Fixed'
  /\ \A i \in 0 .. Fixed - 1 : Block(dest', i) = Block(dest, i)

(* No step changes a block below what is fixed, and that never shrinks. *)
LEMMA FixedStay ==
  ASSUME CloneInv, CloneInv', [Next]_vars
  PROVE  BlocksFixed
<1>1. /\ Inv /\ Inv' /\ Len(dest.blocks) \in Nat /\ Len(dest'.blocks) \in Nat
      /\ before \in 0 .. Len(dest.blocks) /\ before' \in 0 .. Len(dest'.blocks)
  BY FileParts DEF CloneInv, Inv, TypeOK
<1>2. Fixed \in Nat /\ Fixed' \in Nat /\ Fixed <= Len(dest.blocks)
  BY <1>1 DEF Fixed
<1>3. 0 .. Fixed - 1 \subseteq Numbers(dest)
  BY <1>1, <1>2 DEF Numbers
<1>4. CASE UNCHANGED vars
  BY <1>2, <1>4 DEF vars, Fixed, BlocksFixed, Block
<1>5. CASE SkipVariable \/ CopyOpaque \/ BeginTree \/ RegisterTree \/ AllVisited
  <2>1. Grows(dest, dest')
    BY <1>1, <1>5, VariablesKeep
  <2>2. \/ pc' = "enter" /\ pc = "next" /\ before' = Len(dest.blocks)
        \/ pc' \in {"next", "done"}
    BY <1>1, <1>5 DEF SkipVariable, CopyOpaque, BeginTree, RegisterTree, AllVisited
  <2>3. Fixed <= Fixed'
    BY <1>1, <1>2, <2>1, <2>2 DEF Fixed, Cloning, Grows
  <2> QED BY <1>2, <1>3, <2>1, <2>3 DEF BlocksFixed, Grows
<1>6. CASE CloneEntry
  <2>1. pc \in Cloning /\ pc' \in Cloning /\ before' = before
    BY <1>1, <1>6 DEF CloneEntry, EnterKnown, EnterForeign, EnterNode, CloneSlot, CloneForward,
       NoForward, ForwardReturned, LinkBackward, Redirect, RedirectNowhere, RedirectReturned,
       Finish, CallFrom, SlotsDone, Running, Inv, ControlOK, Cloning
  <2>2. Fixed' = Fixed /\ Fixed = before
    BY <2>1 DEF Fixed
  <2>3. BlocksStep
    BY <1>1, <1>6, StepKeeps DEF Next
  <2>4. ASSUME NEW i \in 0 .. Fixed - 1 PROVE Block(dest', i) = Block(dest, i)
    <3>1. ASSUME NEW k \in DOMAIN stack PROVE stack[k].reserved # i
      <4>1. stack[k].reserved = map[stack[k].source] /\ stack[k].source \in DOMAIN map
        BY <1>1 DEF Inv, TypeOK, StackOK
      <4>2. map[stack[k].source] >= before /\ map[stack[k].source] \in Nat
        BY <1>1, <2>1, <4>1, MapNumbers DEF CloneInv, MetOK
      <4> QED BY <1>1, <2>2, <2>4, <4>1, <4>2
    <3> QED BY <1>3, <2>3, <3>1 DEF BlocksStep, Block
  <2> QED BY <1>2, <2>2, <2>4 DEF BlocksFixed
<1> QED BY <1>4, <1>5, <1>6 DEF Next

(* A copy that is there stays one. *)
LEMMA CopyStays ==
  ASSUME NEW src, NEW f, NEW g, NEW a \in Nat, NEW b \in Nat, a <= b,
         \A i \in 0 .. a - 1 : Block(g, i) = Block(f, i),
         \A n \in Numbers(src) : Block(src, n).kind = "node" => Block(src, n) \in Nodes,
         NEW v, NEW d, Copied(src, f, a, v, d)
  PROVE  Copied(src, g, b, v, d)
<1>1. 0 .. a - 1 \subseteq 0 .. b - 1
  OBVIOUS
<1>2. d.index \in 0 .. a - 1 /\ Block(g, d.index) = Block(f, d.index)
  BY DEF Copied
<1>3. ASSUME NEW m, TreeCopied(src, f, a, v, d, m) PROVE TreeCopied(src, g, b, v, d, m)
  <2>1. ASSUME NEW n \in DOMAIN m
        PROVE  n \in Numbers(src) /\ m[n] \in 0 .. b - 1 /\ Faithful(src, g, m, n)
    <3>1. n \in Numbers(src) /\ m[n] \in 0 .. a - 1 /\ Faithful(src, f, m, n)
      BY <1>3 DEF TreeCopied
    <3>2. Extended(m, m) /\ Block(g, m[n]) = Block(f, m[n])
      BY <3>1 DEF Extended
    <3>3. Block(src, n).kind = "node" => Block(src, n) \in Nodes
      BY <3>1
    <3>4. Faithful(src, g, m, n)
      BY <3>1, <3>2, <3>3, FaithfulStays
    <3> QED BY <1>1, <3>1, <3>4
  <2> QED BY <1>2, <1>3, <2>1 DEF TreeCopied
<1> QED BY <1>1, <1>2, <1>3 DEF Copied

(* The calls of cloneEntry leave the variables alone. *)
LEMMA CallsKeepVariables ==
  ASSUME Inv, CloneEntry
  PROVE  /\ dest'.variables = dest.variables /\ pc \in Cloning /\ pc' \in Cloning
         /\ UNCHANGED << source, next >>
<1>1. UNCHANGED << source, next >> /\ pc \in Cloning /\ pc' \in Cloning
  BY DEF CloneEntry, EnterKnown, EnterForeign, EnterNode, CloneSlot, CloneForward,
     NoForward, ForwardReturned, LinkBackward, Redirect, RedirectNowhere, RedirectReturned,
     Finish, CallFrom, SlotsDone, Running, Inv, ControlOK, Cloning
<1>2. IsFile(dest)
  BY DEF Inv
<1>3. \A s : [dest EXCEPT !.blocks = s].variables = dest.variables
  BY <1>2 DEF IsFile
<1>4. ASSUME EnterNode PROVE dest'.variables = dest.variables
  BY <1>2, <1>4, BlockAdded DEF EnterNode
<1>5. ASSUME CloneSlot PROVE dest'.variables = dest.variables
  BY <1>3, <1>5 DEF CloneSlot
<1>6. ASSUME Finish PROVE dest'.variables = dest.variables
  <2> DEFINE blocks == [dest.blocks EXCEPT ![ReservedNumber + 1] = Top.node]
  <2>1. dest' = [dest EXCEPT !.blocks = blocks]
    BY <1>6 DEF Finish
  <2> HIDE DEF blocks
  <2> QED BY <1>3, <2>1
<1>7. ASSUME ~EnterNode, ~CloneSlot, ~Finish PROVE dest'.variables = dest.variables
  BY <1>7 DEF CloneEntry, EnterKnown, EnterForeign, CloneForward,
     NoForward, ForwardReturned, LinkBackward, Redirect, RedirectNowhere, RedirectReturned,
     CallFrom
<1> QED BY <1>1, <1>4, <1>5, <1>6, <1>7

(* What the copies that are there need to stay. *)
LEMMA CopiesStay ==
  ASSUME CopyInv, CloneInv', [Next]_vars, UNCHANGED source
  PROVE  /\ \A v, d : Copied(source, dest, Fixed, v, d) => Copied(source, dest', Fixed', v, d)
         /\ Len(Written.blocks) <= Fixed'
         /\ \A i \in Numbers(Written) : Block(dest', i) = Block(Written, i)
<1>1. CloneInv /\ VariablesOK /\ Inv /\ BlocksFixed
  BY FixedStay DEF CopyInv, CloneInv
<1>2. Fixed \in Nat /\ Fixed' \in Nat /\ Fixed <= Fixed'
  BY <1>1 DEF BlocksFixed
<1>3. ASSUME NEW v, NEW d, Copied(source, dest, Fixed, v, d)
      PROVE  Copied(source, dest', Fixed', v, d)
  <2> DEFINE g == dest' a == Fixed b == Fixed'
  <2>1. a \in Nat /\ b \in Nat /\ a <= b /\ Copied(source, dest, a, v, d)
    BY <1>2, <1>3
  <2>2. \A i \in 0 .. a - 1 : Block(g, i) = Block(dest, i)
    BY <1>1 DEF BlocksFixed
  <2>3. \A n \in Numbers(source) :
          Block(source, n).kind = "node" => Block(source, n) \in Nodes
    BY <1>1, SourceBlocks
  <2> HIDE DEF g, a, b
  <2>4. Copied(source, g, b, v, d)
    BY <2>1, <2>2, <2>3, CopyStays
  <2> QED BY <2>4 DEF g, b
<1>4. Len(Written.blocks) \in Nat
  BY FilesAssumption, FileParts
<1>5. Len(Written.blocks) <= Fixed
  BY <1>1 DEF VariablesOK
<1>6. Numbers(Written) \subseteq 0 .. Fixed - 1 /\ Len(Written.blocks) <= Fixed'
  BY <1>2, <1>4, <1>5 DEF Numbers
<1>7. \A i \in Numbers(Written) : Block(dest', i) = Block(Written, i)
  BY <1>1, <1>6 DEF VariablesOK, BlocksFixed
<1> QED BY <1>3, <1>6, <1>7

(* A step without a new variable. *)
LEMMA NoVariableStep ==
  ASSUME CopyInv, CloneInv', [Next]_vars, UNCHANGED source, dest'.variables = dest.variables,
         \/ next' = next
         \/ next' = next + 1 /\ next <= Len(source.variables) /\ Skipped(Variable),
         pc' = "done" => next' > Len(source.variables)
  PROVE  VariablesOK'
<1>1. VariablesOK /\ Inv
  BY DEF CopyInv, CloneInv
<1>2. /\ \A v, d : Copied(source, dest, Fixed, v, d) => Copied(source, dest', Fixed', v, d)
      /\ Len(Written.blocks) <= Fixed'
      /\ \A i \in Numbers(Written) : Block(dest', i) = Block(Written, i)
  BY CopiesStay
<1>3. next \in Nat /\ Len(source.variables) \in Nat /\ DOMAIN source.variables = 1 .. Len(source.variables)
  BY <1>1, SourceBlocks, FileParts DEF Inv, TypeOK
<1>4. ASSUME NEW k \in DOMAIN source.variables, k < next', Carried(source, source.variables[k])
      PROVE  k < next
  <2>1. ASSUME Skipped(Variable) PROVE k # next
    BY <1>4, <2>1 DEF Variable, Skipped, Carried, Resolves
  <2> QED BY <1>3, <1>4, <2>1
<1>5. \A k \in DOMAIN source.variables : k < next => k < next'
  BY <1>3
<1>7. \A k \in DOMAIN Written.variables :
        k \in DOMAIN dest'.variables /\ dest'.variables[k] = Written.variables[k]
  BY <1>1 DEF VariablesOK
<1>8. ASSUME NEW j \in DOMAIN dest'.variables \ DOMAIN Written.variables
      PROVE  \E k \in DOMAIN source.variables :
               k < next' /\ Copied(source, dest', Fixed', source.variables[k], dest'.variables[j])
  <2>1. PICK k \in DOMAIN source.variables :
               k < next /\ Copied(source, dest, Fixed, source.variables[k], dest.variables[j])
    BY <1>1, <1>8 DEF VariablesOK
  <2> QED BY <1>2, <1>5, <2>1
<1>9. ASSUME NEW k \in DOMAIN source.variables, k < next', Carried(source, source.variables[k])
      PROVE  \E j \in DOMAIN dest'.variables \ DOMAIN Written.variables :
               Copied(source, dest', Fixed', source.variables[k], dest'.variables[j])
  <2>1. PICK j \in DOMAIN dest.variables \ DOMAIN Written.variables :
               Copied(source, dest, Fixed, source.variables[k], dest.variables[j])
    BY <1>1, <1>4, <1>9 DEF VariablesOK
  <2> QED BY <1>2, <2>1
<1>10. \A i, j \in DOMAIN dest'.variables :
         dest'.variables[i].name = dest'.variables[j].name => i = j
  BY <1>1 DEF VariablesOK
<1> QED BY <1>2, <1>7, <1>8, <1>9, <1>10 DEF VariablesOK

-----------------------------------------------------------------------------
(* A new variable.                                                         *)

(* What a block and a variable for it add to a file. *)
LEMMA BothAdded ==
  ASSUME NEW f, IsFile(f), NEW b, NEW name,
         NEW g, g = WithVariable(WithBlock(f, b), name, NewNumber(f))
  PROVE  /\ Len(g.blocks) = Len(f.blocks) + 1 /\ Len(f.blocks) \in Nat
         /\ \A i \in Numbers(f) : Block(g, i) = Block(f, i)
         /\ Block(g, Len(f.blocks)) = b
         /\ DOMAIN g.variables = DOMAIN f.variables \cup {Len(f.variables) + 1}
         /\ Len(f.variables) + 1 \notin DOMAIN f.variables
         /\ \A k \in DOMAIN f.variables : g.variables[k] = f.variables[k]
         /\ g.variables[Len(f.variables) + 1].index = Len(f.blocks)
         /\ g.variables[Len(f.variables) + 1].name = name
<1> DEFINE h == WithBlock(f, b)
<1>1. /\ Grows(f, h) /\ IsFile(h) /\ Len(h.blocks) = Len(f.blocks) + 1
      /\ h.variables = f.variables /\ Block(h, NewNumber(f)) = b
  BY BlockAdded DEF Grows
<1>2. NewNumber(f) = Len(f.blocks) /\ Len(f.blocks) \in Nat /\ Len(f.variables) \in Nat
      /\ DOMAIN f.variables = 1 .. Len(f.variables)
  BY FileParts DEF NewNumber
<1> HIDE DEF h
<1>3. /\ g.blocks = h.blocks
      /\ DOMAIN g.variables = DOMAIN h.variables \cup {Len(h.variables) + 1}
      /\ g.variables[Len(h.variables) + 1].index = NewNumber(f)
      /\ g.variables[Len(h.variables) + 1].name = name
      /\ \A k \in DOMAIN h.variables : g.variables[k] = h.variables[k]
  <2>1. g = WithVariable(h, name, NewNumber(f))
    BY DEF h
  <2> QED BY <1>1, <2>1, VariableAdded
<1>4. \A i : Block(g, i) = Block(h, i)
  BY <1>3 DEF Block
<1>5. \A i \in Numbers(f) : Block(g, i) = Block(f, i)
  BY <1>1, <1>4 DEF Grows
<1> QED BY <1>1, <1>2, <1>3, <1>4, <1>5

(* A step that adds a copy of the variable that the iteration is at. *)
LEMMA NewVariableStep ==
  ASSUME CopyInv, CloneInv', [Next]_vars, UNCHANGED source,
         next' = next + 1, next <= Len(source.variables), pc' = "next",
         Carried(source, Variable), NEW d, d = Len(dest.variables) + 1,
         DOMAIN dest'.variables = DOMAIN dest.variables \cup {d},
         d \notin DOMAIN dest.variables,
         \A k \in DOMAIN dest.variables : dest'.variables[k] = dest.variables[k],
         Copied(source, dest', Fixed', Variable, dest'.variables[d])
  PROVE  VariablesOK'
<1>1. VariablesOK /\ Inv
  BY DEF CopyInv, CloneInv
<1>2. /\ \A v, c : Copied(source, dest, Fixed, v, c) => Copied(source, dest', Fixed', v, c)
      /\ Len(Written.blocks) <= Fixed'
      /\ \A i \in Numbers(Written) : Block(dest', i) = Block(Written, i)
  BY CopiesStay
<1>3. /\ next \in 1 .. Len(source.variables) /\ Len(source.variables) \in Nat
      /\ DOMAIN source.variables = 1 .. Len(source.variables)
      /\ source \in Sources
  BY <1>1, SourceBlocks, FileParts DEF Inv, TypeOK
<1>4. next \in DOMAIN source.variables /\ next < next' /\ Variable = source.variables[next]
  BY <1>3 DEF Variable
<1>5. \A k \in DOMAIN source.variables : k < next' => k < next \/ k = next
  BY <1>3
<1>6. \A k \in DOMAIN source.variables : k < next => k < next' /\ k # next
  BY <1>3
<1>7. \A k \in DOMAIN Written.variables :
        k \in DOMAIN dest'.variables /\ dest'.variables[k] = Written.variables[k]
  BY <1>1 DEF VariablesOK
<1>8. d \notin DOMAIN Written.variables
  BY <1>1 DEF VariablesOK
<1>9. ASSUME NEW j \in DOMAIN dest'.variables \ DOMAIN Written.variables
      PROVE  \E k \in DOMAIN source.variables :
               k < next' /\ Copied(source, dest', Fixed', source.variables[k], dest'.variables[j])
  <2>1. CASE j = d
    BY <1>4, <2>1
  <2>2. CASE j \in DOMAIN dest.variables
    <3>1. PICK k \in DOMAIN source.variables :
                 k < next /\ Copied(source, dest, Fixed, source.variables[k], dest.variables[j])
      BY <1>1, <1>9, <2>2 DEF VariablesOK
    <3> QED BY <1>2, <1>6, <2>2, <3>1
  <2> QED BY <1>9, <2>1, <2>2
<1>10. ASSUME NEW k \in DOMAIN source.variables, k < next', Carried(source, source.variables[k])
       PROVE  \E j \in DOMAIN dest'.variables \ DOMAIN Written.variables :
                Copied(source, dest', Fixed', source.variables[k], dest'.variables[j])
  <2>1. CASE k = next
    BY <1>4, <1>8, <2>1
  <2>2. CASE k < next
    <3>1. PICK j \in DOMAIN dest.variables \ DOMAIN Written.variables :
                 Copied(source, dest, Fixed, source.variables[k], dest.variables[j])
      BY <1>1, <1>10, <2>2 DEF VariablesOK
    <3> QED BY <1>2, <3>1
  <2> QED BY <1>5, <1>10, <2>1, <2>2
<1>11. ASSUME NEW j \in DOMAIN dest.variables
       PROVE  dest.variables[j].name # dest'.variables[d].name
  <2>0. dest'.variables[d].name = Variable.name /\ Variable.name \notin Managed
    BY DEF Copied, Carried
  <2>1. CASE j \in DOMAIN Written.variables
    <3>1. dest.variables[j].name \in Managed
      BY <1>1, <2>1, FilesAssumption DEF VariablesOK
    <3> QED BY <2>0, <3>1
  <2>2. CASE j \notin DOMAIN Written.variables
    <3>1. PICK k \in DOMAIN source.variables :
                 k < next /\ Copied(source, dest, Fixed, source.variables[k], dest.variables[j])
      BY <1>1, <1>11, <2>2 DEF VariablesOK
    <3>2. dest.variables[j].name = source.variables[k].name
      BY <3>1 DEF Copied
    <3>3. source.variables[k].name # source.variables[next].name
      BY <1>3, <1>4, <1>6, <3>1, NamesAssumption
    <3> QED BY <1>4, <2>0, <3>2, <3>3
  <2> QED BY <2>1, <2>2
<1>12. \A i, j \in DOMAIN dest'.variables :
         dest'.variables[i].name = dest'.variables[j].name => i = j
  BY <1>1, <1>11 DEF VariablesOK
<1> QED BY <1>2, <1>7, <1>9, <1>10, <1>12 DEF VariablesOK

(* A block that is no tree. *)
LEMMA OpaqueCopied ==
  ASSUME CopyInv, CloneInv', CopyOpaque
  PROVE  VariablesOK'
<1> DEFINE b == Block(source, Variable.index)
           d == Len(dest.variables) + 1
           g == dest'
<1>1. Inv /\ IsFile(dest)
  BY DEF CopyInv, CloneInv, Inv
<1>2. g = WithVariable(WithBlock(dest, b), Variable.name, NewNumber(dest))
  BY DEF CopyOpaque
<1>3. /\ UNCHANGED source /\ next' = next + 1 /\ next <= Len(source.variables)
      /\ pc' = "next" /\ Carried(source, Variable) /\ ~IsTree(Variable.index)
  BY DEF CopyOpaque, Skipped, Carried, Resolves
<1> HIDE DEF b, g
<1>4. /\ Len(g.blocks) = Len(dest.blocks) + 1 /\ Len(dest.blocks) \in Nat
      /\ Block(g, Len(dest.blocks)) = b
      /\ DOMAIN g.variables = DOMAIN dest.variables \cup {d} /\ d \notin DOMAIN dest.variables
      /\ \A k \in DOMAIN dest.variables : g.variables[k] = dest.variables[k]
      /\ g.variables[d].index = Len(dest.blocks) /\ g.variables[d].name = Variable.name
  BY <1>1, <1>2, BothAdded
<1>5. Fixed' = Len(g.blocks)
  BY <1>3 DEF Fixed, Cloning, g
<1>6. Len(dest.blocks) \in 0 .. Len(g.blocks) - 1
  BY <1>4
<1>7. Copied(source, g, Len(g.blocks), Variable, g.variables[d])
  BY <1>3, <1>4, <1>6 DEF Copied, IsTree, b
<1>8. [Next]_vars
  BY DEF Next
<1> HIDE DEF d
<1>9. d = Len(dest.variables) + 1
  BY DEF d
<1>10. /\ DOMAIN dest'.variables = DOMAIN dest.variables \cup {d}
       /\ \A k \in DOMAIN dest.variables : dest'.variables[k] = dest.variables[k]
       /\ Copied(source, dest', Fixed', Variable, dest'.variables[d])
  BY <1>4, <1>5, <1>7 DEF g
<1> QED BY <1>3, <1>4, <1>8, <1>9, <1>10, NewVariableStep

(* The tree that the cloner has returned the child of. *)
LEMMA TreeRegistered ==
  ASSUME CopyInv, CloneInv', RegisterTree
  PROVE  VariablesOK'
<1> DEFINE tree == Block(source, Variable.index)
           b == [tree EXCEPT !.child = result]
           d == Len(dest.variables) + 1
           g == dest'
           n0 == Len(g.blocks)
           m == map
<1>1. /\ Inv /\ IsFile(dest) /\ CallsOK /\ MetOK /\ ClonesOK
      /\ pc = "return" /\ stack = << >> /\ pc \in Cloning
  BY DEF CopyInv, CloneInv, Inv, RegisterTree, Cloning
<1>2. g = WithVariable(WithBlock(dest, b), Variable.name, NewNumber(dest))
  BY DEF RegisterTree
<1>3. UNCHANGED source /\ next' = next + 1 /\ pc' = "next"
  BY DEF RegisterTree
<1>4. /\ next <= Len(source.variables) /\ Carried(source, Variable) /\ tree.kind = "tree"
      /\ Child = tree.child
  BY <1>1 DEF Inv, ControlOK, MetOK, Skipped, Carried, Resolves, IsTree, Child
<1>5. IF Child \in NodesOf(source) THEN Child \in DOMAIN m /\ result = m[Child] ELSE result = Child
  BY <1>1 DEF CallsOK
<1>6. \A n \in DOMAIN m : /\ n \in Numbers(source) /\ m[n] \in Numbers(dest)
                          /\ Faithful(source, dest, m, n)
  <2>1. DOMAIN stack = {}
    BY <1>1, TopIsFrame, EmptySeq, LenProperties
  <2>2. Finished = DOMAIN m
    BY <2>1 DEF Finished
  <2> QED BY <1>1, <2>2 DEF ClonesOK, Inv, TypeOK
<1>7. \A n \in Numbers(source) : Block(source, n).kind = "node" => Block(source, n) \in Nodes
  BY <1>1, SourceBlocks
<1> HIDE DEF b, g, m
<1>8. /\ Len(g.blocks) = Len(dest.blocks) + 1 /\ Len(dest.blocks) \in Nat
      /\ \A i \in Numbers(dest) : Block(g, i) = Block(dest, i)
      /\ Block(g, Len(dest.blocks)) = b
      /\ DOMAIN g.variables = DOMAIN dest.variables \cup {d} /\ d \notin DOMAIN dest.variables
      /\ \A k \in DOMAIN dest.variables : g.variables[k] = dest.variables[k]
      /\ g.variables[d].index = Len(dest.blocks) /\ g.variables[d].name = Variable.name
  BY <1>1, <1>2, BothAdded
<1>9. Fixed' = n0
  BY <1>3 DEF Fixed, Cloning, g
<1>10. Len(dest.blocks) \in 0 .. n0 - 1 /\ Numbers(dest) \subseteq 0 .. n0 - 1
  BY <1>8 DEF Numbers
<1> HIDE DEF n0, d
<1>11. ASSUME NEW n \in DOMAIN m
       PROVE  n \in Numbers(source) /\ m[n] \in 0 .. n0 - 1 /\ Faithful(source, g, m, n)
  <2>1. /\ n \in Numbers(source) /\ m[n] \in Numbers(dest) /\ Faithful(source, dest, m, n)
        /\ Block(g, m[n]) = Block(dest, m[n])
        /\ Block(source, n).kind = "node" => Block(source, n) \in Nodes
    BY <1>6, <1>7, <1>8
  <2>2. Extended(m, m)
    BY DEF Extended
  <2>3. Faithful(source, g, m, n)
    BY <2>1, <2>2, FaithfulStays
  <2> QED BY <1>10, <2>1, <2>3
<1>12. b = [tree EXCEPT !.child = IF tree.child \in NodesOf(source) THEN m[tree.child] ELSE tree.child]
  BY <1>4, <1>5 DEF b
<1>13. TreeCopied(source, g, n0, Variable, g.variables[d], m)
  BY <1>4, <1>5, <1>8, <1>11, <1>12 DEF TreeCopied
<1>14. Copied(source, g, n0, Variable, g.variables[d])
  BY <1>4, <1>8, <1>10, <1>13 DEF Copied
<1>15. [Next]_vars /\ d = Len(dest.variables) + 1
  BY DEF Next, d
<1>16. /\ DOMAIN dest'.variables = DOMAIN dest.variables \cup {d}
       /\ \A k \in DOMAIN dest.variables : dest'.variables[k] = dest.variables[k]
       /\ Copied(source, dest', Fixed', Variable, dest'.variables[d])
  BY <1>8, <1>9, <1>14 DEF g
<1> QED BY <1>3, <1>4, <1>8, <1>15, <1>16, NewVariableStep

(* Every step keeps the copies. *)
LEMMA CopyStep ==
  ASSUME CopyInv, [Next]_vars
  PROVE  CopyInv'
<1>1. CloneInv' /\ Inv /\ VariablesOK
  BY CloneStep DEF CopyInv, CloneInv
<1>2. next \in Nat /\ Len(source.variables) \in Nat
  BY <1>1, SourceBlocks DEF Inv, TypeOK
<1>3. CASE UNCHANGED vars
  <2>1. pc' = "done" => next' > Len(source.variables)
    BY <1>1, <1>3 DEF VariablesOK, vars
  <2> QED BY <1>1, <1>3, <2>1, NoVariableStep DEF CopyInv, vars
<1>4. CASE SkipVariable
  BY <1>1, <1>4, NoVariableStep DEF CopyInv, SkipVariable
<1>5. CASE BeginTree
  BY <1>1, <1>5, NoVariableStep DEF CopyInv, BeginTree
<1>6. CASE AllVisited
  BY <1>1, <1>6, NoVariableStep DEF CopyInv, AllVisited
<1>7. CASE CloneEntry
  <2>1. dest'.variables = dest.variables /\ UNCHANGED << source, next >> /\ pc' # "done"
    BY <1>1, <1>7, CallsKeepVariables DEF Cloning
  <2> QED BY <1>1, <2>1, NoVariableStep DEF CopyInv
<1>8. CASE CopyOpaque
  BY <1>1, <1>8, OpaqueCopied DEF CopyInv
<1>9. CASE RegisterTree
  BY <1>1, <1>9, TreeRegistered DEF CopyInv
<1> QED BY <1>3, <1>4, <1>5, <1>6, <1>7, <1>8, <1>9 DEF Next

(* In the beginning there is what the writer has written, and no copy. *)
LEMMA CopyInit ==
  ASSUME Init
  PROVE  CopyInv
<1>1. CloneInv /\ Inv
  BY CloneInit, InitHolds
<1>2. IsFile(Written) /\ IsFile(dest) /\ dest = Written /\ source \in Sources /\ pc = "next" /\ next = 1
  BY FilesAssumption DEF Init
<1>3. Len(source.variables) \in Nat /\ DOMAIN source.variables = 1 .. Len(source.variables)
  BY <1>1, SourceBlocks, FileParts
<1>4. Fixed = Len(Written.blocks) /\ Len(Written.blocks) \in Nat
  BY <1>2, FileParts DEF Fixed, Cloning
<1>5. \A i, j \in DOMAIN dest.variables : dest.variables[i].name = dest.variables[j].name => i = j
  BY <1>2, NamesAssumption
<1>6. \A k \in DOMAIN source.variables : ~(k < next)
  BY <1>2, <1>3
<1>7. Len(Written.blocks) <= Fixed
  BY <1>4
<1> QED BY <1>1, <1>2, <1>5, <1>6, <1>7 DEF CopyInv, VariablesOK

-----------------------------------------------------------------------------
(* Variables in the end.                                                   *)

(* What the property says of one variable of the destination. *)
Mine(k, name) ==
  LET mine == dest.variables[k]
  IN /\ \A j \in DOMAIN dest.variables : dest.variables[j].name = name <=> j = k
     /\ name \in Managed => mine \in ToSet(Written.variables)
     /\ \A v \in ToSet(source.variables) :
          (v.name = name /\ name \notin Managed /\ ~IsTree(v.index)) =>
            Block(dest, mine.index) = Block(source, v.index)

(* It holds of every variable that is there. *)
LEMMA MineHolds ==
  ASSUME CopyInv, NEW k \in DOMAIN dest.variables
  PROVE  Mine(k, dest.variables[k].name)
<1> DEFINE mine == dest.variables[k]
<1>1. VariablesOK /\ Inv /\ IsFile(source) /\ source \in Sources /\ IsFile(Written)
  BY SourceBlocks, FilesAssumption DEF CopyInv, CloneInv, Inv, TypeOK
<1>2. \A j \in DOMAIN dest.variables : dest.variables[j].name = mine.name <=> j = k
  BY <1>1 DEF VariablesOK
<1>3. CASE k \in DOMAIN Written.variables
  <2>1. mine = Written.variables[k] /\ mine.name \in Managed
    BY <1>1, <1>3, FilesAssumption DEF VariablesOK
  <2>2. mine \in ToSet(Written.variables)
    BY <1>1, <1>3, <2>1, FileParts, ElementIn
  <2> QED BY <1>2, <2>1, <2>2 DEF Mine
<1>4. CASE k \notin DOMAIN Written.variables
  <2>1. PICK i \in DOMAIN source.variables :
               i < next /\ Copied(source, dest, Fixed, source.variables[i], mine)
    BY <1>1, <1>4 DEF VariablesOK
  <2>2. mine.name \notin Managed /\ mine.name = source.variables[i].name
    BY <2>1 DEF Copied, Carried
  <2>3. ASSUME NEW v \in ToSet(source.variables), v.name = mine.name, ~IsTree(v.index)
        PROVE  Block(dest, mine.index) = Block(source, v.index)
    <3>1. PICK c \in DOMAIN source.variables : v = source.variables[c]
      BY <2>3, Zenon DEF ToSet
    <3>2. c = i
      BY <1>1, <2>2, <2>3, <3>1, NamesAssumption
    <3> QED BY <2>1, <2>3, <3>1, <3>2 DEF Copied, IsTree
  <2> QED BY <1>2, <2>2, <2>3 DEF Mine
<1> QED BY <1>3, <1>4

(* The invariant is what the property says in the end. *)
LEMMA CopyInvKeeps == CopyInv => VariablesKept
<1> SUFFICES ASSUME CopyInv, pc = "done" PROVE VariablesKept
  BY DEF VariablesKept
<1>1. VariablesOK /\ Inv /\ IsFile(source) /\ IsFile(Written) /\ IsFile(dest)
  BY SourceBlocks, FilesAssumption DEF CopyInv, CloneInv, Inv
<1>2. /\ Len(Written.blocks) \in Nat /\ Len(dest.blocks) \in Nat
      /\ Len(Written.blocks) <= Len(dest.blocks)
      /\ IsSeq(Written.blocks) /\ IsSeq(dest.blocks)
  BY <1>1, FileParts DEF VariablesOK, Fixed, Cloning
<1>3. IsPrefix(Written.blocks, dest.blocks)
  <2>1. ASSUME NEW i \in 1 .. Len(Written.blocks) PROVE dest.blocks[i] = Written.blocks[i]
    <3>1. i - 1 \in Numbers(Written) /\ i - 1 + 1 = i
      BY <1>2, <2>1 DEF Numbers
    <3> QED BY <1>1, <3>1 DEF VariablesOK, Block
  <2>2. SubSeq(Written.blocks, 1, Len(Written.blocks)) = SubSeq(dest.blocks, 1, Len(Written.blocks))
    BY <1>2, <2>1 DEF IsSeq
  <2> QED BY <1>2, <2>2 DEF IsPrefix
<1>4. next > Len(source.variables) /\ Len(source.variables) \in Nat /\ next \in Nat
      /\ DOMAIN source.variables = 1 .. Len(source.variables)
  BY <1>1, SourceBlocks, FileParts DEF VariablesOK, Inv, TypeOK
<1>5. \A k \in DOMAIN source.variables : k < next
  BY <1>4
<1>6. ASSUME NEW name \in {v.name : v \in ToSet(dest.variables) \cup ToSet(Written.variables)} \cup
                          {v.name : v \in {u \in ToSet(source.variables) :
                                             u.name \notin Managed /\ Resolves(u.index)}}
      PROVE  \E k \in DOMAIN dest.variables : dest.variables[k].name = name
  <2>1. ASSUME NEW v \in ToSet(dest.variables), name = v.name
        PROVE  \E k \in DOMAIN dest.variables : dest.variables[k].name = name
    BY <2>1 DEF ToSet
  <2>2. ASSUME NEW v \in ToSet(Written.variables), name = v.name
        PROVE  \E k \in DOMAIN dest.variables : dest.variables[k].name = name
    <3>1. PICK i \in DOMAIN Written.variables : v = Written.variables[i]
      BY <2>2, Zenon DEF ToSet
    <3> QED BY <1>1, <2>2, <3>1 DEF VariablesOK
  <2>3. ASSUME NEW v \in ToSet(source.variables), v.name \notin Managed, Resolves(v.index),
               name = v.name
        PROVE  \E k \in DOMAIN dest.variables : dest.variables[k].name = name
    <3>1. PICK i \in DOMAIN source.variables : v = source.variables[i]
      BY <2>3, Zenon DEF ToSet
    <3>2. Carried(source, source.variables[i])
      BY <2>3, <3>1 DEF Carried, Resolves
    <3>3. PICK j \in DOMAIN dest.variables \ DOMAIN Written.variables :
                 Copied(source, dest, Fixed, source.variables[i], dest.variables[j])
      BY <1>1, <1>5, <3>2 DEF VariablesOK
    <3> QED BY <2>3, <3>1, <3>3 DEF Copied
  <2> QED BY <1>6, <2>1, <2>2, <2>3
<1>7. \A k \in DOMAIN dest.variables : Mine(k, dest.variables[k].name)
  BY MineHolds
<1> DEFINE names == {v.name : v \in ToSet(dest.variables) \cup ToSet(Written.variables)} \cup
                    {v.name : v \in {u \in ToSet(source.variables) :
                                       u.name \notin Managed /\ Resolves(u.index)}}
<1>8. \A name \in names : \E k \in DOMAIN dest.variables : Mine(k, name)
  BY <1>6, <1>7
<1> HIDE DEF names
<1>9. \A name \in names : \E k \in DOMAIN dest.variables :
        LET mine == dest.variables[k]
        IN /\ \A j \in DOMAIN dest.variables : dest.variables[j].name = name <=> j = k
           /\ name \in Managed => mine \in ToSet(Written.variables)
           /\ \A v \in ToSet(source.variables) :
                (v.name = name /\ name \notin Managed /\ ~IsTree(v.index)) =>
                  Block(dest, mine.index) = Block(source, v.index)
  BY <1>8, Zenon DEF Mine
<1> QED BY <1>3, <1>9, Zenon DEF VariablesKept, names

(* In the end the destination has the blocks and variables of the writer as *)
(* they were, and each variable that the writer does not manage once, with *)
(* the data of the source: for any files whose variables have names of     *)
(* their own.                                                              *)
THEOREM VariablesAreKept == Spec => []VariablesKept
BY CopyInit, CopyStep, CopyInvKeeps, PTL DEF Spec

-----------------------------------------------------------------------------
(* What an iteration meets, without the recursive function. *)
IsWalk(f, file, i, N) ==
  f = [n \in 0 .. N |-> IF n = 0 THEN FirstLeaf(file, i) ELSE After(file, f[n - 1])]

(* There is a walk of every length. *)
LEMMA WalkExists ==
  ASSUME NEW file, NEW i, NEW N \in Nat
  PROVE  \E f : IsWalk(f, file, i, N)
<1> DEFINE S == {n \in Nat : \E f : IsWalk(f, file, i, n)}
<1>1. 0 \in S
  <2> DEFINE f == [n \in 0 .. 0 |-> FirstLeaf(file, i)]
  <2>1. IsWalk(f, file, i, 0)
    BY DEF IsWalk
  <2> QED BY <2>1
<1>2. ASSUME NEW n \in Nat, n \in S PROVE n + 1 \in S
  <2>1. PICK f : IsWalk(f, file, i, n)
    BY <1>2
  <2> DEFINE g == [k \in 0 .. n + 1 |-> IF k \in 0 .. n THEN f[k] ELSE After(file, f[n])]
  <2>2. ASSUME NEW k \in 0 .. n + 1
        PROVE  g[k] = IF k = 0 THEN FirstLeaf(file, i) ELSE After(file, g[k - 1])
    <3>1. CASE k = 0
      BY <2>1, <3>1 DEF IsWalk
    <3>2. CASE k \in 1 .. n
      <4>1. k \in 0 .. n /\ k - 1 \in 0 .. n /\ k # 0 /\ k - 1 \in 0 .. n + 1
        BY <3>2
      <4>2. f[k] = After(file, f[k - 1])
        BY <2>1, <4>1 DEF IsWalk
      <4> QED BY <4>1, <4>2
    <3>3. CASE k = n + 1
      <4>1. k \notin 0 .. n /\ k - 1 \in 0 .. n /\ k # 0 /\ k - 1 \in 0 .. n + 1 /\ k - 1 = n
        BY <3>3
      <4> QED BY <4>1
    <3> QED BY <3>1, <3>2, <3>3
  <2>3. IsWalk(g, file, i, n + 1)
    <3> DEFINE h == [k \in 0 .. n + 1 |-> IF k = 0 THEN FirstLeaf(file, i) ELSE After(file, g[k - 1])]
    <3>1. DOMAIN g = 0 .. n + 1 /\ DOMAIN h = 0 .. n + 1 /\ \A k \in 0 .. n + 1 : g[k] = h[k]
      BY <2>2
    <3>2. g = [k \in 0 .. n + 1 |-> g[k]] /\ h = [k \in 0 .. n + 1 |-> h[k]]
      OBVIOUS
    <3>3. g = h
      BY <3>1, <3>2
    <3> QED BY <3>3 DEF IsWalk
  <2> HIDE DEF g
  <2> QED BY <2>3
<1> HIDE DEF S
<1>3. \A n \in Nat : n \in S
  BY <1>1, <1>2, Induction
<1> QED BY <1>3 DEF S

(* What is met is read along such a walk. *)
LEMMA MetIsWalk ==
  ASSUME NEW file, NEW i, Len(source.blocks) \in Nat
  PROVE  \E f : /\ IsWalk(f, file, i, Len(source.blocks))
                /\ Met(file, i) = [n \in 0 .. Len(source.blocks) |-> Contents(file, f[n])]
<1> DEFINE at == CHOOSE f : IsWalk(f, file, i, Len(source.blocks))
<1>1. IsWalk(at, file, i, Len(source.blocks))
  BY WalkExists
<1>2. Met(file, i) = [n \in 0 .. Len(source.blocks) |-> Contents(file, at[n])]
  BY DEF Met, IsWalk
<1> QED BY <1>1, <1>2

(* The block of the source that an iteration is at, and that of its copy:  *)
(* a leaf of the tree and its clone, or no node in either file.            *)
Corresponding(src, file, child, m, x, y) ==
  \/ /\ x \in Reached(src, child) \cap DOMAIN m
     /\ Block(src, x).is_leaf /\ y = m[x]
  \/ ~HasNode(src, x) /\ ~HasNode(file, y)

(* The source's tree and the map of the clone that is registered. *)
IsCopy(src, file, child, m) ==
  /\ src \in Sources /\ child \in Children(src)
  /\ child \in NodesOf(src) => child \in DOMAIN m
  /\ \A n \in DOMAIN m : /\ n \in Numbers(src) /\ m[n] \in Numbers(file)
                         /\ Faithful(src, file, m, n)
  /\ \A i \in Numbers(Written) : i \in Numbers(file) /\ Block(file, i) = Block(Written, i)

(* What is known of a node that has been copied. *)
LEMMA CopiedNode ==
  ASSUME NEW src, NEW file, NEW child, NEW m, IsCopy(src, file, child, m),
         NEW x \in Reached(src, child) \cap DOMAIN m
  PROVE  /\ HasNode(src, x) /\ Block(src, x) \in Nodes /\ x \in NodesOf(src)
         /\ m[x] \in Numbers(file)
         /\ Following(src, x) \subseteq Reached(src, child) \cap DOMAIN m
         /\ \A y \in Following(src, x) : Block(src, y).is_leaf
         /\ IF Block(src, x).is_leaf
            THEN Block(file, m[x]) = LeafImage(Block(src, x), m)
            ELSE Block(file, m[x]) = Redirected(Block(src, x), m)
<1>1. src \in Sources /\ child \in Children(src) /\ IsFile(src)
  BY FilesAssumption DEF IsCopy
<1>2. x \in NodesOf(src) /\ x \in Numbers(src) /\ Block(src, x).kind = "node" /\ HasNode(src, x)
  BY ReachedIsClosed DEF NodesOf, HasNode
<1>3. Block(src, x) \in ToSet(src.blocks)
  <2>1. IsSeq(src.blocks) /\ Len(src.blocks) \in Nat
    BY <1>1, FileParts
  <2>2. x + 1 \in 1 .. Len(src.blocks)
    BY <1>2, <2>1 DEF Numbers
  <2> QED BY <2>1, <2>2, ElementIn DEF Block
<1>4. Block(src, x) \in Nodes
  BY <1>1, <1>2, <1>3, FilesAssumption
<1>5. Following(src, x) \subseteq NodesOf(src) /\ \A y \in Following(src, x) : Block(src, y).is_leaf
  BY <1>1, TreesAssumption, IterationAssumption
<1>6. Following(src, x) \subseteq Reached(src, child)
  BY <1>5, ReachedIsClosed
<1>7. m[x] \in Numbers(file) /\ Faithful(src, file, m, x)
  BY DEF IsCopy
<1>8. CASE Block(src, x).is_leaf
  <2>1. Following(src, x) \subseteq DOMAIN m
    BY <1>2, <1>7, <1>8 DEF Faithful, LeafReferences, Following
  <2> QED BY <1>2, <1>4, <1>5, <1>6, <1>7, <1>8, <2>1 DEF Faithful
<1>9. CASE ~Block(src, x).is_leaf
  BY <1>2, <1>4, <1>5, <1>6, <1>7, <1>9 DEF Faithful
<1> QED BY <1>8, <1>9

(* Block 0 is no node of either file. *)
LEMMA NoNode ==
  ASSUME NEW src, NEW file, NEW child, NEW m, IsCopy(src, file, child, m)
  PROVE  /\ Corresponding(src, file, child, m, 0, 0)
         /\ child \notin NodesOf(src) => Corresponding(src, file, child, m, child, child)
<1>1. src \in Sources /\ child \in Children(src)
  BY DEF IsCopy
<1>2. ASSUME NEW i \in DataOf(Written) PROVE ~HasNode(file, i)
  BY <1>2 DEF DataOf, NodesOf, IsCopy, HasNode
<1>3. 0 \in DataOf(Written) /\ 0 \in DataOf(src)
  BY <1>1, IterationAssumption
<1>4. child \in NodesOf(src) \cup DataOf(Written)
  BY <1>1, IterationAssumption
<1> QED BY <1>2, <1>3, <1>4 DEF Corresponding, DataOf, NodesOf, HasNode

(* From a leaf on, both iterations go on alike. *)
LEMMA AfterCorresponds ==
  ASSUME NEW src, NEW file, NEW child, NEW m, IsCopy(src, file, child, m),
         NEW x, NEW y, Corresponding(src, file, child, m, x, y)
  PROVE  Corresponding(src, file, child, m, After(src, x), After(file, y))
<1>1. CASE ~HasNode(src, x) /\ ~HasNode(file, y)
  BY <1>1, NoNode DEF After
<1>2. CASE x \in Reached(src, child) \cap DOMAIN m /\ Block(src, x).is_leaf /\ y = m[x]
  <2> DEFINE f == Block(src, x).forward
  <2>1. /\ HasNode(src, x) /\ m[x] \in Numbers(file)
        /\ Following(src, x) \subseteq Reached(src, child) \cap DOMAIN m
        /\ \A n \in Following(src, x) : Block(src, n).is_leaf
        /\ Block(file, m[x]) = LeafImage(Block(src, x), m)
    BY <1>2, CopiedNode
  <2>2. HasNode(file, y) /\ Block(file, y).forward = LinkImage(f, m)
    BY <1>2, <2>1 DEF HasNode, LeafImage
  <2>3. After(src, x) = f /\ After(file, y) = LinkImage(f, m)
    BY <2>1, <2>2 DEF After
  <2>4. CASE f = 0
    BY <2>3, <2>4, NoNode DEF LinkImage
  <2>5. CASE f # 0
    <3>1. f \in Following(src, x)
      BY <1>2, <2>5 DEF Following
    <3> QED BY <2>1, <2>3, <2>5, <3>1 DEF LinkImage, Corresponding
  <2> QED BY <2>4, <2>5
<1> QED BY <1>1, <1>2 DEF Corresponding

(* The content of a data block is copied with it. *)
LEMMA DataContent ==
  ASSUME NEW src, NEW file, NEW child, NEW m, IsCopy(src, file, child, m),
         NEW i \in DOMAIN m, i \in DataOf(src)
  PROVE  Content(file, m[i]) = Content(src, i)
<1>1. i \in Numbers(src) /\ Block(src, i).kind # "node"
  BY DEF DataOf, NodesOf
<1>2. m[i] \in Numbers(file) /\ Block(file, m[i]) = Block(src, i)
  BY <1>1 DEF IsCopy, Faithful
<1> QED BY <1>1, <1>2 DEF Content

(* What the iteration reads of a leaf is what it reads of the clone. *)
LEMMA SameContents ==
  ASSUME NEW src, NEW file, NEW child, NEW m, IsCopy(src, file, child, m),
         NEW x, NEW y, Corresponding(src, file, child, m, x, y)
  PROVE  Contents(src, x) = Contents(file, y)
<1>1. CASE ~HasNode(src, x) /\ ~HasNode(file, y)
  BY <1>1 DEF Contents
<1>2. CASE x \in Reached(src, child) \cap DOMAIN m /\ Block(src, x).is_leaf /\ y = m[x]
  <2> DEFINE node == Block(src, x)
             clone == Block(file, y)
  <2>1. /\ HasNode(src, x) /\ m[x] \in Numbers(file) /\ node \in Nodes
        /\ clone = LeafImage(node, m)
    BY <1>2, CopiedNode
  <2>2. HasNode(file, y)
    BY <1>2, <2>1 DEF HasNode, LeafImage
  <2>3. \A slot \in ToSet(node.slots) :
          /\ slot.value \in DataOf(src)
          /\ ~slot.literal => slot.key \in DataOf(src)
    BY <1>2, TreesAssumption DEF IsCopy
  <2>4. LeafReferences(node) \subseteq DOMAIN m
    <3>1. node.kind = "node"
      BY <2>1 DEF Nodes
    <3> QED BY <1>2, <3>1 DEF IsCopy, Faithful
  <2>5. \A k \in DOMAIN node.slots : node.slots[k] \in ToSet(node.slots)
    <3>1. node.slots \in Seq(Slots)
      BY <2>1 DEF Nodes
    <3> QED BY <3>1, LenProperties DEF ToSet
  <2> HIDE DEF node, clone
  <2>6. DOMAIN clone.slots = DOMAIN node.slots
        /\ \A k \in DOMAIN node.slots : clone.slots[k] = SlotImage(node.slots[k], m)
    BY <2>1 DEF LeafImage
  <2>7. ASSUME NEW k \in DOMAIN node.slots
        PROVE  [value |-> Content(src, node.slots[k].value),
                key |-> IF node.slots[k].literal THEN << node.slots[k].key >>
                        ELSE Content(src, node.slots[k].key)]
             = [value |-> Content(file, clone.slots[k].value),
                key |-> IF clone.slots[k].literal THEN << clone.slots[k].key >>
                        ELSE Content(file, clone.slots[k].key)]
    <3> DEFINE slot == node.slots[k]
    <3>1. slot.value \in DataOf(src) /\ (~slot.literal => slot.key \in DataOf(src))
      BY <2>3, <2>5
    <3>2. slot.value \in DOMAIN m /\ (~slot.literal => slot.key \in DOMAIN m)
      BY <2>4 DEF LeafReferences, SlotReferences
    <3> HIDE DEF slot
    <3>3. Content(file, m[slot.value]) = Content(src, slot.value)
      BY <3>1, <3>2, DataContent
    <3>4. ~slot.literal => Content(file, m[slot.key]) = Content(src, slot.key)
      BY <3>1, <3>2, DataContent
    <3>5. clone.slots[k] = SlotImage(slot, m)
      BY <2>6 DEF slot
    <3>6. /\ SlotImage(slot, m).value = m[slot.value]
          /\ SlotImage(slot, m).key = IF slot.literal THEN slot.key ELSE m[slot.key]
          /\ SlotImage(slot, m).literal = slot.literal
      BY DEF SlotImage
    <3>7. CASE slot.literal
      BY <3>3, <3>5, <3>6, <3>7 DEF slot
    <3>8. CASE ~slot.literal
      BY <3>3, <3>4, <3>5, <3>6, <3>8 DEF slot
    <3> QED BY <3>7, <3>8
  <2>8. Contents(src, x) =
          [k \in DOMAIN node.slots |->
             [value |-> Content(src, node.slots[k].value),
              key |-> IF node.slots[k].literal THEN << node.slots[k].key >>
                      ELSE Content(src, node.slots[k].key)]]
    BY <2>1, Zenon DEF Contents, node
  <2>9. Contents(file, y) =
          [k \in DOMAIN clone.slots |->
             [value |-> Content(file, clone.slots[k].value),
              key |-> IF clone.slots[k].literal THEN << clone.slots[k].key >>
                      ELSE Content(file, clone.slots[k].key)]]
    BY <2>2, Zenon DEF Contents, clone
  <2> QED BY <2>6, <2>7, <2>8, <2>9
<1> QED BY <1>1, <1>2 DEF Corresponding

(* Both iterations begin alike. *)
LEMMA FirstCorresponds ==
  ASSUME NEW src, NEW file, NEW child, NEW m, IsCopy(src, file, child, m),
         NEW i, Block(src, i).child = child,
         NEW j, Block(file, j).child = IF child \in NodesOf(src) THEN m[child] ELSE child
  PROVE  Corresponding(src, file, child, m, FirstLeaf(src, i), FirstLeaf(file, j))
<1>1. CASE child \notin NodesOf(src)
  <2>1. ~HasNode(src, child) /\ ~HasNode(file, child)
    <3>1. Corresponding(src, file, child, m, child, child)
      BY <1>1, NoNode
    <3> QED BY <1>1, <3>1, ReachedIsClosed DEF Corresponding, HasNode, NodesOf
  <2>2. FirstLeaf(src, i) = child /\ FirstLeaf(file, j) = child
    BY <1>1, <2>1 DEF FirstLeaf
  <2> QED BY <2>1, <2>2 DEF Corresponding
<1>2. CASE child \in NodesOf(src)
  <2> DEFINE node == Block(src, child)
             root == m[child]
             clone == Block(file, root)
  <2>1. child \in Reached(src, child) \cap DOMAIN m
    BY <1>2, ReachedIsClosed DEF IsCopy
  <2>2. /\ HasNode(src, child) /\ node \in Nodes /\ root \in Numbers(file)
        /\ Following(src, child) \subseteq Reached(src, child) \cap DOMAIN m
        /\ \A y \in Following(src, child) : Block(src, y).is_leaf
        /\ IF node.is_leaf THEN clone = LeafImage(node, m) ELSE clone = Redirected(node, m)
    BY <2>1, CopiedNode
  <2>3. Block(file, j).child = root
    BY <1>2
  <2> HIDE DEF root
  <2>4. CASE node.is_leaf
    <3>1. clone.kind = "node" /\ clone.is_leaf
      BY <2>2, <2>4 DEF LeafImage
    <3>2. FirstLeaf(src, i) = child /\ FirstLeaf(file, j) = root
      BY <2>3, <2>4, <3>1 DEF FirstLeaf
    <3> QED BY <2>1, <2>4, <3>2 DEF Corresponding, root
  <2>5. CASE ~node.is_leaf /\ node.slots = << >>
    <3>1. clone = node /\ HasNode(file, root)
      BY <2>2, <2>5 DEF Redirected, HasNode
    <3>2. FirstLeaf(src, i) = 0 /\ FirstLeaf(file, j) = 0
      BY <2>2, <2>3, <2>5, <3>1 DEF FirstLeaf
    <3> QED BY <3>2, NoNode
  <2>6. CASE ~node.is_leaf /\ node.slots # << >>
    <3> DEFINE n == node.slots[1].value
               k == m[n]
    <3>1. node.slots \in Seq(Slots) /\ 1 \in DOMAIN node.slots
      <4>1. node.slots \in Seq(Slots)
        BY <2>2 DEF Nodes
      <4> QED BY <2>6, <4>1, EmptySeq, LenProperties
    <3>2. n \in Following(src, child)
      BY <2>6, <3>1 DEF Following
    <3>3. clone = [node EXCEPT !.slots[1].value = k]
      BY <2>2, <2>6 DEF Redirected
    <3> HIDE DEF n, k
    <3>4. /\ clone.kind = "node" /\ clone.is_leaf = node.is_leaf
          /\ 1 \in DOMAIN clone.slots /\ clone.slots[1].value = k
      <4>1. /\ clone.kind = node.kind /\ clone.is_leaf = node.is_leaf
            /\ clone.slots = [node.slots EXCEPT ![1].value = k]
        BY <2>2, <3>3 DEF Nodes
      <4>2. node.slots[1] \in Slots
        BY <3>1, ElementOfSeq, LenProperties
      <4> QED BY <2>2, <3>1, <4>1, <4>2 DEF Nodes, Slots
    <3>5. HasNode(file, root) /\ clone.slots # << >>
      BY <2>2, <3>4 DEF HasNode
    <3>6. FirstLeaf(src, i) = n /\ FirstLeaf(file, j) = k
      BY <2>2, <2>3, <2>6, <3>4, <3>5 DEF FirstLeaf, n
    <3> QED BY <2>2, <3>2, <3>6 DEF Corresponding, k
  <2> QED BY <2>4, <2>5, <2>6
<1> QED BY <1>1, <1>2

(* The iteration of a copied tree meets what that of the source's tree does. *)
LEMMA CopyReadsTheSame ==
  ASSUME Len(source.blocks) \in Nat,
         NEW file, NEW child, NEW m, IsCopy(source, file, child, m),
         NEW i, Block(source, i).child = child,
         NEW j, Block(file, j).child = IF child \in NodesOf(source) THEN m[child] ELSE child
  PROVE  Met(file, j) = Met(source, i)
<1> DEFINE N == Len(source.blocks)
           Both(f, g, n) == Corresponding(source, file, child, m, f[n], g[n])
<1>1. PICK f : /\ IsWalk(f, source, i, N)
               /\ Met(source, i) = [n \in 0 .. N |-> Contents(source, f[n])]
  BY MetIsWalk
<1>2. PICK g : /\ IsWalk(g, file, j, N)
               /\ Met(file, j) = [n \in 0 .. N |-> Contents(file, g[n])]
  BY MetIsWalk
<1> HIDE DEF N
<1>3. N \in Nat
  BY DEF N
<1> DEFINE S == {n \in Nat : n <= N => Both(f, g, n)}
<1>4. 0 \in S
  <2>1. f[0] = FirstLeaf(source, i) /\ g[0] = FirstLeaf(file, j)
    BY <1>1, <1>2, <1>3 DEF IsWalk
  <2> QED BY <2>1, FirstCorresponds
<1>5. ASSUME NEW n \in Nat, n \in S PROVE n + 1 \in S
  <2>1. ASSUME n + 1 <= N PROVE Both(f, g, n + 1)
    <3>1. n <= N /\ n + 1 \in 0 .. N /\ n + 1 # 0 /\ n + 1 - 1 = n
      BY <1>3, <2>1
    <3>2. Both(f, g, n)
      BY <1>5, <3>1
    <3>3. f[n + 1] = After(source, f[n]) /\ g[n + 1] = After(file, g[n])
      BY <1>1, <1>2, <3>1 DEF IsWalk
    <3> QED BY <3>2, <3>3, AfterCorresponds
  <2> HIDE DEF Both
  <2> QED BY <2>1
<1> HIDE DEF Both, S
<1>6. \A n \in Nat : n \in S
  BY <1>4, <1>5, Induction
<1>7. \A n \in 0 .. N : Both(f, g, n)
  BY <1>3, <1>6 DEF S
<1>8. \A n \in 0 .. N : Contents(source, f[n]) = Contents(file, g[n])
  BY <1>7, SameContents DEF Both
<1> QED BY <1>1, <1>2, <1>8

(* The invariant is what the property says of every copied tree. *)
LEMMA CopyInvReads == CopyInv => ReadsTheSame
<1> SUFFICES ASSUME CopyInv PROVE ReadsTheSame
  OBVIOUS
<1>1. /\ VariablesOK /\ Inv /\ IsFile(source) /\ source \in Sources /\ IsFile(dest)
      /\ before \in 0 .. Len(dest.blocks) /\ Len(source.blocks) \in Nat
  BY SourceBlocks DEF CopyInv, CloneInv, Inv, TypeOK
<1>2. Len(dest.blocks) \in Nat /\ Len(Written.blocks) \in Nat
  BY <1>1, FilesAssumption, FileParts
<1>3. Fixed \in Nat /\ 0 .. Fixed - 1 \subseteq Numbers(dest) /\ Numbers(Written) \subseteq 0 .. Fixed - 1
  <2>1. Fixed \in Nat /\ Fixed <= Len(dest.blocks) /\ Len(Written.blocks) <= Fixed
    BY <1>1, <1>2 DEF Fixed, VariablesOK
  <2> QED BY <1>2, <2>1 DEF Numbers
<1>4. ASSUME NEW k \in DOMAIN source.variables, NEW j \in DOMAIN dest.variables,
             source.variables[k].name \notin Managed,
             source.variables[k].name = dest.variables[j].name,
             IsTree(source.variables[k].index)
      PROVE  Met(dest, dest.variables[j].index) = Met(source, source.variables[k].index)
  <2> DEFINE s == source.variables[k]
             d == dest.variables[j]
             tree == Block(source, s.index)
             child == tree.child
  <2>1. j \notin DOMAIN Written.variables
    BY <1>1, <1>4, FilesAssumption DEF VariablesOK
  <2>2. PICK i \in DOMAIN source.variables :
               i < next /\ Copied(source, dest, Fixed, source.variables[i], d)
    BY <1>1, <2>1 DEF VariablesOK
  <2>3. i = k
    BY <1>1, <1>4, <2>2, NamesAssumption DEF Copied
  <2>4. /\ Carried(source, s) /\ d.index \in 0 .. Fixed - 1 /\ tree.kind = "tree"
        /\ \E m : TreeCopied(source, dest, Fixed, s, d, m)
    BY <1>4, <2>2, <2>3 DEF Copied, IsTree
  <2>5. PICK m : TreeCopied(source, dest, Fixed, s, d, m)
    BY <2>4
  <2>6. child \in Children(source)
    <3>1. s \in ToSet(source.variables)
      BY <1>1, FileParts, ElementIn
    <3> QED BY <2>4, <3>1 DEF Children, Carried
  <2>7. tree \in Trees
    BY <1>1, <1>4, <2>4, SourceBlocks DEF Carried
  <2>8. Block(dest, d.index).child = IF child \in NodesOf(source) THEN m[child] ELSE child
    <3> DEFINE c == IF child \in NodesOf(source) THEN m[child] ELSE child
    <3>1. Block(dest, d.index) = [tree EXCEPT !.child = c]
      BY <2>5 DEF TreeCopied
    <3> HIDE DEF c
    <3>2. Block(dest, d.index).child = c
      BY <2>7, <3>1 DEF Trees
    <3> QED BY <3>2 DEF c
  <2>9. IsCopy(source, dest, child, m)
    <3>1. /\ child \in NodesOf(source) => child \in DOMAIN m
          /\ \A n \in DOMAIN m : /\ n \in Numbers(source) /\ m[n] \in Numbers(dest)
                                 /\ Faithful(source, dest, m, n)
      BY <1>3, <2>5 DEF TreeCopied
    <3>2. \A i2 \in Numbers(Written) :
            i2 \in Numbers(dest) /\ Block(dest, i2) = Block(Written, i2)
      BY <1>1, <1>3 DEF VariablesOK
    <3> QED BY <1>1, <2>6, <3>1, <3>2 DEF IsCopy
  <2> QED BY <1>1, <2>8, <2>9, CopyReadsTheSame
<1> QED BY <1>4 DEF ReadsTheSame

(* Whoever iterates a copied tree meets the contents that the source's tree *)
(* has, in its order: for every tree whose iteration the code supports.    *)
THEOREM CopiesReadTheSame == Spec => []ReadsTheSame
BY CopyInit, CopyStep, CopyInvReads, PTL DEF Spec
=============================================================================
