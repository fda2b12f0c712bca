------------------------------- MODULE BomStore -------------------------------
(***************************************************************************)
(* The BOM container of libbom as its callers drive it: bom_alloc_empty,   *)
(* then any sequence of the mutating operations of bom.h.                  *)
(***************************************************************************)
EXTENDS BomLayout, FiniteSets

CONSTANTS
  DataLengths,    \* the lengths of the blocks that are added or appended
  NameLengths,    \* the lengths of variable names
  ReserveCounts,  \* the counts given to bom_index_reserve
  FreeCounts,     \* the counts given to bom_free_indices_add
  MaxSize         \* bound on the size of the file; 2^32 - 1 in the format

ASSUME InputsAssumption ==
  /\ DataLengths \subseteq Nat
  /\ NameLengths \subseteq Nat
  /\ ReserveCounts \subseteq Nat
  /\ FreeCounts \subseteq Nat \ {0}     \* assert(count)
  /\ MaxSize \in Nat

VARIABLE store

Init == store = EmptyLayout

-----------------------------------------------------------------------------
(* The operations.  Offsets are 32 bits wide in the file, so an operation  *)
(* that would take the file past MaxSize is not taken.                     *)

Fits(s) == s.size <= MaxSize

Reserve(count) ==
  /\ store' = IndexReserve(store, count)
  /\ Fits(store')

AddBlock(len) ==
  /\ store' = IndexAdd(store, len)
  /\ Fits(store')

AddFreeIndices(n) ==
  /\ store' = FreeIndicesAdd(store, n)
  /\ Fits(store')

AppendToBlock(i, len) ==
  /\ i \in DOMAIN store.entries
  /\ IsBlock(store.entries[i])
  /\ store' = IndexAppend(store, i, len)
  /\ Fits(store')

AddVariable(nameLength) ==
  /\ store' = VariableAdd(store, nameLength)
  /\ Fits(store')

Relocate ==
  /\ store' = RelocateTrailer(store)
  /\ Fits(store')

Next ==
  \/ \E count \in ReserveCounts : Reserve(count)
  \/ \E len \in DataLengths : AddBlock(len)
  \/ \E n \in FreeCounts : AddFreeIndices(n)
  \/ \E len \in DataLengths : \E i \in DOMAIN store.entries : AppendToBlock(i, len)
  \/ \E nameLength \in NameLengths : AddVariable(nameLength)
  \/ Relocate

Spec == Init /\ [][Next]_store

-----------------------------------------------------------------------------
(* What a caller has to respect for the layout to stay sound: several      *)
(* vacant entries at a time only into room that is already there, and      *)
(* nothing appended to an empty block.  bom_tree.c respects the second;    *)
(* Writer::write breaks the first.                                         *)

CarefulNext ==
  \/ \E count \in ReserveCounts : Reserve(count)
  \/ \E len \in DataLengths : AddBlock(len)
  \/ \E n \in FreeCounts : (n = 1 \/ ~IndexFull(store, n)) /\ AddFreeIndices(n)
  \/ \E len \in DataLengths : \E i \in DOMAIN store.entries :
       store.entries[i].length > 0 /\ AppendToBlock(i, len)
  \/ \E nameLength \in NameLengths : AddVariable(nameLength)
  \/ Relocate

CarefulSpec == Init /\ [][CarefulNext]_store

-----------------------------------------------------------------------------
(* The fields are non-negative and the entries are entries: no address of  *)
(* a section or a block is ever taken below zero by a relocation.          *)
TypeOK == store \in Layouts

(* The header, the index with its free list, and the variables lie one     *)
(* beside the other inside the file, whatever was reserved, grown, padded  *)
(* or relocated, and the variables never outgrow their section.            *)
SectionsApart == SectionsDisjoint(store)

(* Every registered block lies inside the file and shares no byte with the *)
(* header, the index, the variables or another block.                      *)
BlocksApart == BlocksDisjoint(store)

(* The two empty free list entries that every BOM file has (bom.c:74) stay *)
(* behind the used index entries and at the end of the index section, so   *)
(* that no entry is written over them (the corruption bom.c:340 tells of). *)
FreelistIntact == FreelistClear(store) /\ FreelistLast(store)

(* The strengthening of the four above that every operation preserves.     *)
Sound == SoundLayout(store)

(* bom.c:164: until a relocation the variables follow the index directly.  *)
Contiguous ==
  store.index_offset = HeaderSize => store.variables_offset = IndexEnd(store)

(* A relocation that moves anything puts the file into the form that bom.h *)
(* says real readers expect.  It never shrinks the file (bom.c:182), and   *)
(* the first one adds only the padding.                                    *)
RelocatedForm == [][Relocate /\ store' # store => Relocated(store, store')]_store

(* No operation moves one block past another: two blocks with bytes keep   *)
(* their order in the file.  And no operation changes the length of any    *)
(* block that is there, but for the append to that very block, which makes *)
(* it longer by the bytes appended.                                        *)
OrderKept ==
  [][/\ \A i, j \in DOMAIN store.entries :
          LET b == store.entries[i]  c == store.entries[j]
          IN b.length > 0 /\ c.length > 0 /\ b.address < c.address =>
               store'.entries[i].address < store'.entries[j].address
     /\ \A i \in DOMAIN store.entries :
          \/ store'.entries[i].length = store.entries[i].length
          \/ \E len \in DataLengths :
               /\ AppendToBlock(i, len)
               /\ store'.entries[i].length = store.entries[i].length + len]_store
=============================================================================
