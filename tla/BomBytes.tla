------------------------------- MODULE BomBytes -------------------------------
(***************************************************************************)
(* The BOM container as the bytes that bom.c keeps in context->memory.     *)
(* Every operation is the sequence of loads, stores and memory moves of    *)
(* its C function.  It implements both BlockStore (the contents) and       *)
(* BomStore (the geometry).                                                *)
(*                                                                         *)
(* mem is a sequence: the byte at address a is mem[a + 1].                 *)
(***************************************************************************)
EXTENDS Integers, Sequences

CONSTANTS
  Contents,       \* byte strings added as blocks
  Names,          \* byte strings that name variables
  ReserveCounts,  \* counts given to bom_index_reserve
  FreeCounts,     \* counts given to bom_free_indices_add
  Lengths,        \* lengths given to bom_index_append
  Junk,           \* what realloc may leave in the bytes that it adds
  MaxSize         \* bound on the size of the file

ASSUME BytesAssumption ==
  /\ Contents \subseteq Seq(0..255) /\ Names \subseteq Seq(1..255)
  /\ Junk \subseteq 0..255 /\ FreeCounts \subseteq Nat \ {0}
  /\ ReserveCounts \subseteq Nat /\ Lengths \subseteq Nat
  /\ MaxSize \in Nat /\ MaxSize \div 65536 < 65536    \* offsets have 32 bits

VARIABLES
  mem,            \* context->memory
  freelist        \* history: where the free list of bom_alloc_empty is now

vars == << mem, freelist >>

Layout == INSTANCE BomLayout

-----------------------------------------------------------------------------
(* Loads and stores.  Multi-byte fields are in network byte order. *)

Word(v) == << (v \div 16777216) % 256, (v \div 65536) % 256, (v \div 256) % 256, v % 256 >>
Get(m, a) == m[a + 4] + 256 * (m[a + 3] + 256 * (m[a + 2] + 256 * m[a + 1]))
Bytes(m, a, n) == SubSeq(m, a + 1, a + n)
Zeros(n) == [k \in 1..n |-> 0]

Put(m, a, bytes) ==
  SubSeq(SubSeq(m, 1, a) \o bytes \o SubSeq(m, a + Len(bytes) + 1, Len(m)), 1, Len(m))

(* context->memory.resize: a new tail is not initialised. *)
MemoryResize(m, n, junk) ==
  IF n <= Len(m) THEN SubSeq(m, 1, n) ELSE m \o [k \in 1 .. n - Len(m) |-> junk]

(* The fields of struct bom_header. *)
Magic           == << 66, 79, 77, 83, 116, 111, 114, 101 >>    \* "BOMStore"
VersionAt       == 8
BlockCountAt    == 12
IndexOffsetAt   == 16
IndexLengthAt   == 20
VariablesAt     == 24
TrailerLengthAt == 28

IndexOffset(m)     == Get(m, IndexOffsetAt)
IndexLength(m)     == Get(m, IndexLengthAt)
VariablesOffset(m) == Get(m, VariablesAt)
TrailerLength(m)   == Get(m, TrailerLengthAt)

Count(m) == Get(m, IndexOffset(m))

(* Entry i of the main index, from 0. *)
EntryAt(m, i)     == IndexOffset(m) + Layout!CountSize + Layout!EntrySize * i
EntryAddress(m, i) == Get(m, EntryAt(m, i))
EntryLength(m, i)  == Get(m, EntryAt(m, i) + 4)

(* The walk over the stored variables: where variable i starts, behind the *)
(* count.  i = count is the end of the walk.                               *)
VariableCount(m) == Get(m, VariablesOffset(m))
VariableStart(m) ==
  LET at == VariablesOffset(m) + Layout!CountSize
      start[i \in 0..VariableCount(m)] ==
        IF i = 0 THEN at ELSE start[i - 1] + Layout!VariableHeaderSize + m[start[i - 1] + 5]
  IN start

-----------------------------------------------------------------------------
(* What a reader of the file sees. *)

(* bom_index_get of every position. *)
BlocksOf(m) ==
  [i \in 1..Count(m) |->
     [used |-> EntryAddress(m, i - 1) # 0 \/ EntryLength(m, i - 1) # 0,
      data |-> IF EntryAddress(m, i - 1) + EntryLength(m, i - 1) > Len(m)
               THEN << >>    \* "extends outside buffer": NULL
               ELSE Bytes(m, EntryAddress(m, i - 1), EntryLength(m, i - 1))]]

(* bom_variable_iterate. *)
VariablesOf(m) ==
  LET start == VariableStart(m)
  IN [i \in 1..VariableCount(m) |->
        [name  |-> Bytes(m, start[i - 1] + Layout!VariableHeaderSize, m[start[i - 1] + 5]),
         index |-> Get(m, start[i - 1])]]

LayoutOf(m, freelist_offset) ==
  [size             |-> Len(m),
   index_offset     |-> IndexOffset(m),
   index_length     |-> IndexLength(m),
   variables_offset |-> VariablesOffset(m),
   trailer_len      |-> TrailerLength(m),
   variable_bytes   |-> VariableStart(m)[VariableCount(m)]
                          - VariablesOffset(m) - Layout!CountSize,
   freelist_offset  |-> freelist_offset,
   entries          |-> [i \in 1..Count(m) |->
                           [address |-> EntryAddress(m, i - 1),
                            length  |-> EntryLength(m, i - 1)]],
   block_count      |-> Get(m, BlockCountAt)]

(* The checks of bom_alloc_load. *)
Loads(m) ==
  /\ Len(m) >= Layout!HeaderSize
  /\ Bytes(m, 0, 8) = Magic
  /\ Get(m, VersionAt) = 1
  /\ IndexOffset(m) + Layout!CountSize <= Len(m)
  /\ IndexOffset(m) + IndexLength(m) <= Len(m)
  /\ VariablesOffset(m) + Layout!CountSize <= Len(m)
  /\ VariablesOffset(m) + Layout!CountSize
       + VariableCount(m) * Layout!VariableHeaderSize <= Len(m)

-----------------------------------------------------------------------------
(* The functions of bom.c, from memory to memory. *)

AllocEmpty ==
  Magic \o Word(1) \o Word(0) \o Word(32) \o Word(24) \o Word(56) \o Word(4)
    \o Word(0)                  \* the index
    \o Word(0) \o Zeros(16)     \* the free list and its two entries
    \o Word(0)                  \* the variables

(* The word at a follows the bytes that it points to. *)
Shifted(m, a, point, delta) == Put(m, a, Word(Layout!Shift(Get(m, a), point, delta)))

(* The loop of _bom_address_update_all over the main index: the memory     *)
(* after the addresses of the first i entries.                             *)
EntriesShifted(m, point, delta) ==
  LET after[i \in 0..Count(m)] ==
        IF i = 0 THEN m ELSE Shifted(after[i - 1], EntryAt(m, i - 1), point, delta)
  IN after

(* mutant: the offset of the variables is not among the words to shift *)
UpdateAllIndex(m, point, delta) ==
  Shifted(EntriesShifted(m, point, delta)[Count(m)], IndexOffsetAt, point, delta)

AddressUpdateAll(m, point, delta) ==
  Shifted(Shifted(EntriesShifted(m, point, delta)[Count(m)], IndexOffsetAt, point, delta),
          VariablesAt, point, delta)

(* The gap keeps the bytes that were there. *)
AddressResize(m, point, delta, junk) ==
  LET u == AddressUpdateAll(m, point, delta)
      r == MemoryResize(u, Len(u) + delta, junk)
  IN Put(r, point + delta, Bytes(u, point, Len(u) - point))

(* mutant: the inserted slots keep the bytes that were there *)
IndexReserveDirty(m, count, junk) ==
  LET delta == Layout!EntrySize * count
      r     == AddressResize(m, EntryAt(m, Count(m)), delta, junk)
  IN Put(r, IndexLengthAt, Word(IndexLength(m) + delta))

IndexReserve(m, count, junk) ==
  LET point == EntryAt(m, Count(m))
      delta == Layout!EntrySize * count
      r     == AddressResize(m, point, delta, junk)
  IN Put(Put(r, IndexLengthAt, Word(IndexLength(m) + delta)), point, Zeros(delta))

(* Do n more entries leave less than two entries of the index section? *)
IndexFull(m, n) ==
  Layout!CountSize + Layout!EntrySize * (Count(m) + n)
    > IndexLength(m) - 2 * Layout!EntrySize

(* One more slot in front of the free list, whose first entry is cleared.  *)
GrowForAdd(m, junk) ==
  LET n == Count(m)
      r == AddressResize(m, EntryAt(m, n), Layout!EntrySize, junk)
      l == Put(r, IndexLengthAt, Word(IndexLength(r) + Layout!EntrySize))
  IN IF IndexFull(m, 1) THEN Put(l, EntryAt(l, n + 1), Zeros(Layout!EntrySize)) ELSE m

IndexAdd(m, data, junk) ==
  LET n     == Count(m)
      g     == GrowForAdd(m, junk)
      point == Len(g)
      r     == AddressResize(g, point, Len(data), junk)
      e     == Put(r, EntryAt(r, n), Word(point) \o Word(Len(data)))
      d     == Put(e, point, data)
      c     == Put(d, IndexOffset(d), Word(n + 1))
  IN Put(c, BlockCountAt, Word(n + 1))

FreeIndicesAdd(m, n, junk) ==
  LET count == Count(m)
      r == AddressResize(m, EntryAt(m, count), Layout!EntrySize, junk)
      g == IF IndexFull(m, n)
           THEN Put(r, IndexLengthAt, Word(IndexLength(r) + n * Layout!EntrySize))
           ELSE m
      e == Put(g, EntryAt(g, count), Zeros(Layout!EntrySize * n))
  IN Put(e, IndexOffset(e), Word(count + n))

(* mutant: the room is made in front of the block *)
AppendPointInFront(m, i) == EntryAddress(m, i)

AppendPoint(m, i) == EntryAddress(m, i) + EntryLength(m, i)

(* i counts from 0.  The new bytes of the block are not written. *)
IndexAppend(m, i, n, junk) ==
  LET r == AddressResize(m, AppendPoint(m, i), n, junk)
  IN Put(r, EntryAt(r, i) + 4, Word(EntryLength(r, i) + n))

VariableAdd(m, name, index, junk) ==
  LET n     == VariableCount(m)
      point == VariableStart(m)[n]
      delta == Layout!Padded(Layout!VariableSize(Len(name)))
      r     == AddressResize(m, point, delta, junk)
      size  == Len(name) % 256
      v     == Put(r, point, Word(index) \o << size >> \o SubSeq(name, 1, size))
      c     == Put(v, VariablesOffset(v), Word(n + 1))
  IN Put(c, TrailerLengthAt, Word(TrailerLength(c) + delta))

(* The relocated file may need more memory, and never less. *)
Grown(m, size, junk) == IF size > Len(m) THEN MemoryResize(m, size, junk) ELSE m

(* A block of the data that moved, from end on, is found shift bytes lower. *)
Followed(m, i, end, shift) ==
  IF EntryAddress(m, i) >= end /\ (EntryAddress(m, i) # 0 \/ EntryLength(m, i) # 0)
  THEN Put(m, EntryAt(m, i), Word(EntryAddress(m, i) - shift))
  ELSE m

(* The loop of bom_relocate_trailer over the relocated index. *)
EntriesFollowed(m, end, shift) ==
  LET after[i \in 0..Count(m)] ==
        IF i = 0 THEN m ELSE Followed(after[i - 1], i - 1, end, shift)
  IN after

(* Variables and index are saved before the data moves over them. *)
RelocateTrailer(m, junk) ==
  LET start     == IndexOffset(m)
      end       == VariablesOffset(m) + TrailerLength(m)
      shift     == end - start
      variables == start + (Len(m) - end)
      unaligned == variables + TrailerLength(m)
      index     == Layout!RoundUp(unaligned)
      size      == index + IndexLength(m)
      r  == Grown(m, size, junk)
      d  == Put(r, start, Bytes(r, end, Len(m) - end))
      v  == Put(d, variables, Bytes(m, VariablesOffset(m), TrailerLength(m)))
      p  == Put(v, unaligned, Zeros(index - unaligned))
      ix == Put(p, index, Bytes(m, start, IndexLength(m)))
      s  == IF size < Len(m) THEN MemoryResize(ix, size, junk) ELSE ix
      h  == Put(Put(s, VariablesAt, Word(variables)), IndexOffsetAt, Word(index))
  IN IF end >= Len(m) THEN m ELSE EntriesFollowed(h, end, shift)[Count(h)]

-----------------------------------------------------------------------------
(* The callers of bom.h, within what BomStore calls careful.  s is where    *)
(* the geometry says that everything goes: it bounds the file, so that an  *)
(* offset has 32 bits, and the history variable follows it; WellFormed     *)
(* checks that the bytes of the free list went there too.                  *)

Now == LayoutOf(mem, freelist)

Init ==
  /\ mem = AllocEmpty
  /\ freelist = Layout!EmptyLayout.freelist_offset

Fits(s) == s.size <= MaxSize

Reserve(count) ==
  LET s == Layout!IndexReserve(Now, count)
  IN /\ Fits(s) /\ freelist' = s.freelist_offset
     /\ \E junk \in Junk : mem' = IndexReserve(mem, count, junk)

AddBlock(data) ==
  LET s == Layout!IndexAdd(Now, Len(data))
  IN /\ Fits(s) /\ freelist' = s.freelist_offset
     /\ \E junk \in Junk : mem' = IndexAdd(mem, data, junk)

AddFreeIndices(n) ==
  LET s == Layout!FreeIndicesAdd(Now, n)
  IN /\ n = 1 \/ ~IndexFull(mem, n)
     /\ Fits(s) /\ freelist' = s.freelist_offset
     /\ \E junk \in Junk : mem' = FreeIndicesAdd(mem, n, junk)

AppendToBlock(i, n) ==
  LET s == Layout!IndexAppend(Now, i + 1, n)
  IN /\ EntryLength(mem, i) > 0
     /\ Fits(s) /\ freelist' = s.freelist_offset
     /\ \E junk \in Junk : mem' = IndexAppend(mem, i, n, junk)

(* A store through the pointer of bom_index_get, as bom_tree_add does. *)
StoreInBlock(i, k, byte) ==
  /\ k \in 0 .. EntryLength(mem, i) - 1
  /\ mem' = Put(mem, EntryAddress(mem, i) + k, << byte >>)
  /\ UNCHANGED freelist

AddVariable(name, index) ==
  LET s == Layout!VariableAdd(Now, Len(name))
  IN /\ Fits(s) /\ freelist' = s.freelist_offset
     /\ \E junk \in Junk : mem' = VariableAdd(mem, name, index, junk)

Relocate ==
  LET s == Layout!RelocateTrailer(Now)
  IN /\ Fits(s) /\ freelist' = s.freelist_offset
     /\ \E junk \in Junk : mem' = RelocateTrailer(mem, junk)

Positions == 0 .. Count(mem) - 1

(* The bytes of a block that have neighbours outside it. *)
Edges(i) == {0, EntryLength(mem, i) - 1}

Next ==
  \/ \E count \in ReserveCounts : Reserve(count)
  \/ \E data \in Contents : AddBlock(data)
  \/ \E n \in FreeCounts : AddFreeIndices(n)
  \/ \E i \in Positions, n \in Lengths : AppendToBlock(i, n)
  \/ \E i \in Positions : \E k \in Edges(i) : StoreInBlock(i, k, 0)
  \/ \E name \in Names, i \in Positions : AddVariable(name, i)
  \/ Relocate

Spec == Init /\ [][Next]_vars

-----------------------------------------------------------------------------
(* What the library has written it can load again: the header is right, no *)
(* block "extends outside buffer" (bom.c:321), and the free list and the   *)
(* slots reserved in front of it are still empty wherever they have been   *)
(* carried to (bom.c:74, 340-355).                                         *)
WellFormed ==
  /\ mem \in Seq(0..255) /\ Loads(mem)
  /\ \A i \in Positions : EntryAddress(mem, i) + EntryLength(mem, i) <= Len(mem)
  /\ freelist + Layout!FreelistSize <= Len(mem)
  /\ \A a \in EntryAt(mem, Count(mem)) .. freelist + Layout!FreelistSize - 1 : mem[a + 1] = 0

(* The contents: every operation touches one block or variable, and what   *)
(* the others hold survives every memmove.                                 *)
Store == INSTANCE BlockStore
           WITH blocks <- BlocksOf(mem), variables <- VariablesOf(mem)
BytesImplementBlocks == Store!Spec

(* The geometry: the offsets and lengths in the bytes are those of BomStore. *)
Geometry == INSTANCE BomStore
              WITH store <- LayoutOf(mem, freelist),
                   DataLengths <- {Len(data) : data \in Contents} \cup Lengths,
                   NameLengths <- {Len(name) : name \in Names}
BytesImplementGeometry == Geometry!CarefulSpec
=============================================================================
