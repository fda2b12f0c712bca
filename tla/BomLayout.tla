------------------------------ MODULE BomLayout ------------------------------
(***************************************************************************)
(* The geometry of a BOM file, and what every operation of bom.c does to   *)
(* it.  A layout is a record of byte offsets and lengths: the fields of    *)
(* struct bom_header, the size of the backing memory and the <address,     *)
(* length> entries of the main index.  Every operation is a function from  *)
(* a layout to a layout, so that BomStore, the tree and the writer can     *)
(* share them.  What the bytes are is left to BomBytes.                    *)
(*                                                                         *)
(* The entries are numbered from 1 here and from 0 in the code.            *)
(*                                                                         *)
(* Two fields are not stored in the file: variable_bytes is the length of  *)
(* the walk over the stored variables, which bom_variable_add recomputes,  *)
(* and freelist_offset is where the free list that bom_alloc_empty wrote   *)
(* has been carried, which no code keeps track of.                         *)
(***************************************************************************)
EXTENDS Integers, Sequences

(* The sizes of the packed structures of bom_format.h, in bytes. *)
HeaderSize         == 32   \* struct bom_header
CountSize          == 4    \* struct bom_index_header and struct bom_variables
EntrySize          == 8    \* struct bom_index
FreelistSize       == 20   \* a bom_index_header and two bom_index
VariableHeaderSize == 5    \* struct bom_variable without its name
Alignment          == 16   \* of the relocated index

Entries == [address : Nat, length : Nat]

Layouts ==
  [size : Nat, index_offset : Nat, index_length : Nat, variables_offset : Nat,
   trailer_len : Nat, variable_bytes : Nat, freelist_offset : Nat,
   entries : Seq(Entries), block_count : Nat]

(* An index slot that holds no block: address and length are both zero. *)
Vacant      == [address |-> 0, length |-> 0]
IsBlock(e)  == e # Vacant
BlockEnd(e) == e.address + e.length

IndexEnd(s)     == s.index_offset + s.index_length
VariablesEnd(s) == s.variables_offset + s.trailer_len

(* Just past the used entries of the main index: where the next entry goes. *)
IndexPoint(s) == s.index_offset + CountSize + EntrySize * Len(s.entries)

EmptyLayout ==
  [size             |-> HeaderSize + CountSize + FreelistSize + CountSize,
   index_offset     |-> HeaderSize,
   index_length     |-> CountSize + FreelistSize,
   variables_offset |-> HeaderSize + CountSize + FreelistSize,
   trailer_len      |-> CountSize,
   variable_bytes   |-> 0,
   freelist_offset  |-> HeaderSize + CountSize,
   entries          |-> << >>,
   block_count      |-> 0]

-----------------------------------------------------------------------------
(* The definitions marked "mutant" are not part of the model: each changes  *)
(* the operator after it as a plausible slip in the code would, and shows  *)
(* that some property of BomStore notices.                                 *)

(* An address at or past the point of insertion moves with the bytes. *)
Shift(a, p, d) == IF a >= p THEN a + d ELSE a

(* Open a gap of d bytes at p: every entry, both section offsets and the   *)
(* free list follow the bytes that memmove carries.                        *)
Resize(s, p, d) ==
  [s EXCEPT !.size             = s.size + d,
            !.index_offset     = Shift(s.index_offset, p, d),
            !.variables_offset = Shift(s.variables_offset, p, d),
            !.freelist_offset  = Shift(s.freelist_offset, p, d),
            !.entries = [i \in DOMAIN s.entries |->
                           [address |-> Shift(s.entries[i].address, p, d),
                            length  |-> s.entries[i].length]]]

(* mutant: the two free list entries are forgotten *)
IndexFullToTheEnd(s, n) ==
  CountSize + EntrySize * (Len(s.entries) + n) > s.index_length

(* The test before n more entries: does the index have to grow for them?   *)
(* The code compares with the length less two entries; the four bytes of   *)
(* the free list's own count are not in the test.                          *)
IndexFull(s, n) ==
  CountSize + EntrySize * (Len(s.entries) + n) > s.index_length - 2 * EntrySize

(* Room for count entries, right after the used ones. *)
ReservePoint(s) == IndexPoint(s)

IndexReserve(s, count) ==
  [Resize(s, ReservePoint(s), EntrySize * count)
     EXCEPT !.index_length = s.index_length + EntrySize * count]

(* Growth by the one entry that bom_index_add inserts. *)
GrowForAdd(s) ==
  IF IndexFull(s, 1)
  THEN [Resize(s, IndexPoint(s), EntrySize)
          EXCEPT !.index_length = s.index_length + EntrySize]
  ELSE s

(* A new block of len bytes at the very end of the file.  Its address was  *)
(* read before the resize that makes its room.                             *)
IndexAdd(s, len) ==
  LET g == GrowForAdd(s)
      r == Resize(g, g.size, len)
  IN [r EXCEPT !.entries     = Append(r.entries, [address |-> g.size, length |-> len]),
               !.block_count = Len(s.entries) + 1]

(* n vacant entries.  When the index has to grow, one entry's bytes are    *)
(* inserted whatever n is, and index_length grows by n entries.            *)
GrowForFree(s, n) ==
  IF IndexFull(s, n)
  THEN [Resize(s, IndexPoint(s), EntrySize)
          EXCEPT !.index_length = s.index_length + EntrySize * n]
  ELSE s

FreeIndicesAdd(s, n) ==
  LET g == GrowForFree(s, n)
  IN [g EXCEPT !.entries = g.entries \o [i \in 1..n |-> Vacant]]

(* len more bytes at the end of block i. *)
IndexAppend(s, i, len) ==
  LET r == Resize(s, BlockEnd(s.entries[i]), len)
  IN [r EXCEPT !.entries = [r.entries EXCEPT ![i] =
                 [address |-> r.entries[i].address,
                  length  |-> r.entries[i].length + len]]]

(* The bytes inserted for a variable: always from one to four more than it *)
(* needs, which stay at the end of the section.  The length of the name is *)
(* stored in one byte, so that a later walk sees it modulo 2^8.            *)
VariableSize(nameLength) == VariableHeaderSize + nameLength
StoredSize(nameLength)   == VariableHeaderSize + (nameLength % 256)
Padded(n) == n + (4 - (n % 4))

VariableAdd(s, nameLength) ==
  LET point == s.variables_offset + CountSize + s.variable_bytes
      delta == Padded(VariableSize(nameLength))
  IN [Resize(s, point, delta)
        EXCEPT !.variable_bytes = s.variable_bytes + StoredSize(nameLength),
               !.trailer_len    = s.trailer_len + delta]

(* mutant: rounded down *)
RoundDown(n) == Alignment * (n \div Alignment)

RoundUp(n) == Alignment * ((n + Alignment - 1) \div Alignment)

(* mutant: every entry is shifted, the vacant ones too *)
MovesAlways(s, e) == TRUE
(* mutant: the block right behind the trailer is left where it is *)
MovesPastTrailer(s, e) == IsBlock(e) /\ e.address > VariablesEnd(s)

(* The blocks behind the trailer move with the data; vacant slots do not.  *)
MovesWithData(s, e) == IsBlock(e) /\ e.address >= VariablesEnd(s)

(* The index and the variables move behind the data, which closes up.  On  *)
(* a file that is already relocated the shift is negative (modulo 2^32).   *)
RelocateTrailer(s) ==
  LET shift     == VariablesEnd(s) - s.index_offset
      variables == s.size - shift
      index     == RoundUp(variables + s.trailer_len)
  IN IF VariablesEnd(s) >= s.size
     THEN s
     ELSE [s EXCEPT !.size             = index + s.index_length,
                    !.index_offset     = index,
                    !.variables_offset = variables,
                    !.freelist_offset  = index + (s.freelist_offset - s.index_offset),
                    !.entries = [i \in DOMAIN s.entries |->
                       IF MovesWithData(s, s.entries[i])
                       THEN [address |-> s.entries[i].address - shift,
                             length  |-> s.entries[i].length]
                       ELSE s.entries[i]]]

-----------------------------------------------------------------------------
(* What makes a layout sound. *)

(* Two runs of bytes have no byte in common. *)
Apart(a, aEnd, b, bEnd) == aEnd <= b \/ bEnd <= a

(* The header, the index with its free list, and the variables lie one     *)
(* beside the other inside the file, and the variables fit their section.  *)
SectionsDisjoint(s) ==
  /\ HeaderSize <= s.index_offset
  /\ IndexEnd(s) <= s.size
  /\ HeaderSize <= s.variables_offset
  /\ VariablesEnd(s) <= s.size
  /\ Apart(s.index_offset, IndexEnd(s), s.variables_offset, VariablesEnd(s))
  /\ CountSize + s.variable_bytes <= s.trailer_len

(* Block b lies in the file and outside the three sections. *)
BlockPlaced(s, b) ==
  /\ HeaderSize <= b.address
  /\ BlockEnd(b) <= s.size
  /\ Apart(b.address, BlockEnd(b), s.index_offset, IndexEnd(s))
  /\ Apart(b.address, BlockEnd(b), s.variables_offset, VariablesEnd(s))

BlocksDisjoint(s) ==
  \A i \in DOMAIN s.entries : IsBlock(s.entries[i]) =>
    /\ BlockPlaced(s, s.entries[i])
    /\ \A j \in DOMAIN s.entries :
         i # j /\ IsBlock(s.entries[j]) =>
           Apart(s.entries[i].address, BlockEnd(s.entries[i]),
                 s.entries[j].address, BlockEnd(s.entries[j]))

(* The free list is still where the index section ends, and the used       *)
(* entries stop before it.                                                 *)
FreelistClear(s) == IndexPoint(s) <= s.freelist_offset
FreelistLast(s)  == s.freelist_offset + FreelistSize = IndexEnd(s)

(* The two forms of a file: as bom_alloc_empty lays it out, and with the   *)
(* index and the variables moved behind the blocks of that moment.         *)
Fresh(s) ==
  /\ s.index_offset = HeaderSize
  /\ s.variables_offset = IndexEnd(s)
  /\ \A i \in DOMAIN s.entries :
       IsBlock(s.entries[i]) => VariablesEnd(s) <= s.entries[i].address

Moved(s) ==
  /\ VariablesEnd(s) <= s.index_offset
  /\ \A i \in DOMAIN s.entries : IsBlock(s.entries[i]) =>
       \/ BlockEnd(s.entries[i]) <= s.variables_offset
       \/ IndexEnd(s) <= s.entries[i].address

(* The index grows by whole entries: the growth test leaves out the four   *)
(* bytes of the free list's count, and is right only because of this.      *)
IndexInWholeEntries(s) == s.index_length % EntrySize = 0

SoundLayout(s) ==
  /\ s \in Layouts
  /\ SectionsDisjoint(s)
  /\ BlocksDisjoint(s)
  /\ FreelistClear(s)
  /\ FreelistLast(s)
  /\ IndexInWholeEntries(s)
  /\ Fresh(s) \/ Moved(s)

(* What a relocation leaves: blocks first, then the variables, then the    *)
(* index, on a 16-byte boundary and ending with the file.                  *)
Relocated(old, new) ==
  /\ \A i \in DOMAIN new.entries :
       IsBlock(new.entries[i]) => BlockEnd(new.entries[i]) <= new.variables_offset
  /\ VariablesEnd(new) <= new.index_offset
  /\ new.index_offset < VariablesEnd(new) + Alignment
  /\ new.index_offset % Alignment = 0
  /\ IndexEnd(new) = new.size
  /\ old.size <= new.size
  /\ old.index_offset = HeaderSize => new.size < old.size + Alignment
=============================================================================
