------------------------------ MODULE BlockStore ------------------------------
(***************************************************************************)
(* What a BOM container promises its callers, without a byte of geometry:  *)
(* a list of blocks addressed by position and a list of named references   *)
(* to them.  An operation on one block leaves the contents of every other  *)
(* block, and every variable, as they were.                                *)
(***************************************************************************)
EXTENDS Integers, Sequences

CONSTANTS
  Contents,     \* the byte strings that become blocks
  Names,        \* the names of variables
  FreeCounts,   \* how many unused positions are added at a time
  Lengths       \* by how much a block is lengthened

VARIABLES
  blocks,       \* sequence of [used : BOOLEAN, data : byte string]
  variables     \* sequence of [name, index]

vars == << blocks, variables >>

Hole == [used |-> FALSE, data |-> << >>]

Init == blocks = << >> /\ variables = << >>

AddBlock(data) ==
  /\ blocks' = Append(blocks, [used |-> TRUE, data |-> data])
  /\ UNCHANGED variables

AddHoles(n) ==
  /\ blocks' = blocks \o [i \in 1..n |-> Hole]
  /\ UNCHANGED variables

(* The old contents are kept; what the new bytes are is not promised. *)
Lengthen(i, n) ==
  /\ blocks[i].used
  /\ DOMAIN blocks' = DOMAIN blocks
  /\ Len(blocks'[i].data) = Len(blocks[i].data) + n
  /\ SubSeq(blocks'[i].data, 1, Len(blocks[i].data)) = blocks[i].data
  /\ blocks' = [blocks EXCEPT ![i].data = blocks'[i].data]
  /\ UNCHANGED variables

(* A caller stores a byte through the pointer that it got for a block. *)
Overwrite(i, k) ==
  /\ DOMAIN blocks' = DOMAIN blocks
  /\ DOMAIN blocks'[i].data = DOMAIN blocks[i].data
  /\ blocks' = [blocks EXCEPT ![i].data[k] = blocks'[i].data[k]]
  /\ UNCHANGED variables

AddVariable(name, index) ==
  /\ variables' = Append(variables, [name |-> name, index |-> index])
  /\ UNCHANGED blocks

Next ==
  \/ \E data \in Contents : AddBlock(data)
  \/ \E n \in FreeCounts : AddHoles(n)
  \/ \E i \in DOMAIN blocks, n \in Lengths : Lengthen(i, n)
  \/ \E i \in DOMAIN blocks : \E k \in DOMAIN blocks[i].data : Overwrite(i, k)
  \/ \E name \in Names, index \in 0 .. Len(blocks) - 1 : AddVariable(name, index)

Spec == Init /\ [][Next]_vars
=============================================================================
