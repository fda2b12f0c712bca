-------------------------- MODULE CarWriter_proofs --------------------------
(***************************************************************************)
(* Every catalog that Writer::write makes, for all facets, renditions,     *)
(* names, key formats and payload sizes, in five parts.                    *)
(*                                                                         *)
(*   1. The layout is sound up to the last call, and what that call and    *)
(*      the passed-through blocks do to it leaves the used index, the      *)
(*      variables and the blocks apart; what is reserved lasts until that  *)
(*      call: WriterInv, RoomInv, LayoutOfCatalogs.                        *)
(*   2. The trees hold what has been put into them so far, one entry for   *)
(*      one facet or rendition, and have room for the rest: TreesInv.      *)
(*   3. So the types and the references hold and the leaves may be         *)
(*      searched: CatalogsAreTyped, ReferencesOfCatalogs and               *)
(*      LeavesOfCatalogs.                                                  *)
(*   4. The key format of which the keys are made is the one in the file:  *)
(*      FormatInv.                                                         *)
(*   5. What the reader makes of the file is what was added:               *)
(*      CatalogsReadBack.                                                  *)
(***************************************************************************)
EXTENDS CarWriter, BomLayout_proofs, DataLemmas, FiniteSetTheorems

(* What stays of a sound layout after Finish: the index section may be     *)
(* said to reach one entry into the variables, but its used entries do not *)
(* reach them.  Nothing is relocated yet.                                  *)
Fits(s) ==
  /\ s \in Layouts
  /\ s.index_offset = HeaderSize /\ HeaderSize <= s.freelist_offset
  /\ IndexPoint(s) <= IndexEnd(s)
  /\ IndexPoint(s) <= s.variables_offset
  /\ IndexEnd(s) <= s.variables_offset + EntrySize
  /\ CountSize + s.variable_bytes <= s.trailer_len
  /\ VariablesEnd(s) <= s.size
  /\ \A i \in DOMAIN s.entries : IsBlock(s.entries[i]) =>
       VariablesEnd(s) <= s.entries[i].address /\ BlockEnd(s.entries[i]) <= s.size

(* What IndexReadable says of the layout of the file. *)
Readable(s) ==
  /\ IndexPoint(s) <= s.size
  /\ Apart(s.index_offset, IndexPoint(s), s.variables_offset, VariablesEnd(s))
  /\ \A k \in DOMAIN s.entries : IsBlock(s.entries[k]) =>
       /\ Apart(s.index_offset, IndexPoint(s), s.entries[k].address, BlockEnd(s.entries[k]))
       /\ Apart(s.variables_offset, VariablesEnd(s), s.entries[k].address, BlockEnd(s.entries[k]))
       /\ BlockEnd(s.entries[k]) <= s.size

(* The empty file fits. *)
LEMMA EmptyFits == Fits(EmptyLayout)
<1>1. EmptyLayout \in Layouts
  BY EmptyIsSound DEF SoundLayout
<1> QED BY <1>1 DEF Fits, EmptyLayout, IndexPoint, IndexEnd, VariablesEnd, HeaderSize, CountSize,
                    EntrySize, FreelistSize

(* Blocks under an insertion behind the header. *)
LEMMA BlocksUnderResize ==
  ASSUME NEW s, Fits(s), NEW p \in Nat, NEW d \in Nat, HeaderSize <= p,
         NEW i \in DOMAIN s.entries, IsBlock(Resize(s, p, d).entries[i])
  PROVE  LET e == Resize(s, p, d).entries[i]
         IN /\ e.address \in Nat /\ e.length \in Nat /\ e.length = s.entries[i].length
            /\ IsBlock(s.entries[i])
            /\ VariablesEnd(s) <= e.address
            /\ p <= VariablesEnd(s) => VariablesEnd(s) + d <= e.address
            /\ e.address + e.length <= s.size + d
<1> DEFINE e == Resize(s, p, d).entries[i]
<1>1. s \in Layouts
  BY DEF Fits
<1>2. /\ e.address = Shift(s.entries[i].address, p, d) /\ e.length = s.entries[i].length
      /\ e \in Entries
  <2> DEFINE t == Resize(s, p, d)
  <2>1. t \in Layouts /\ DOMAIN t.entries = DOMAIN s.entries
    BY <1>1, ResizeFields
  <2>2. t.entries[i].address = Shift(s.entries[i].address, p, d)
        /\ t.entries[i].length = s.entries[i].length
    BY <1>1, ResizeFields
  <2> HIDE DEF t
  <2>3. t.entries[i] \in Entries
    BY <2>1, LayoutFields
  <2> QED BY <2>2, <2>3 DEF t
<1>3. s.entries[i] \in Entries /\ s.entries[i].address \in Nat /\ s.entries[i].length \in Nat
      /\ s.size \in Nat /\ s.variables_offset \in Nat /\ s.trailer_len \in Nat
  BY <1>1, LayoutFields
<1>4. IsBlock(s.entries[i])
  <2>1. SUFFICES ASSUME s.entries[i] = Vacant PROVE e = Vacant
    BY DEF IsBlock
  <2>2. e.address = 0 /\ e.length = 0
    BY <1>2, <2>1 DEF Vacant, Shift, HeaderSize
  <2> QED BY <1>2, <2>2 DEF Entries, Vacant
<1>5. VariablesEnd(s) <= s.entries[i].address /\ s.entries[i].address + s.entries[i].length <= s.size
  BY <1>4 DEF Fits, BlockEnd
<1>6. VariablesEnd(s) \in Nat
  BY <1>3 DEF VariablesEnd
<1> HIDE DEF e
<1>7. /\ e.address \in Nat
      /\ VariablesEnd(s) <= e.address
      /\ p <= VariablesEnd(s) => VariablesEnd(s) + d <= e.address
      /\ e.address + e.length <= s.size + d
  BY <1>2, <1>3, <1>5, <1>6 DEF Shift
<1> QED BY <1>2, <1>3, <1>4, <1>7 DEF e

(* The numbers of a layout that fits. *)
LEMMA FitsNumbers ==
  ASSUME NEW s, Fits(s)
  PROVE  /\ s \in Layouts
         /\ s.size \in Nat /\ s.index_length \in Nat
         /\ s.variables_offset \in Nat /\ s.trailer_len \in Nat /\ s.variable_bytes \in Nat
         /\ Len(s.entries) \in Nat /\ DOMAIN s.entries = 1 .. Len(s.entries)
         /\ IndexPoint(s) \in Nat /\ VariablesEnd(s) \in Nat
         /\ s.index_offset = 32 /\ 36 <= IndexPoint(s)
         /\ VariablesEnd(s) = s.variables_offset + s.trailer_len
         /\ IndexPoint(s) <= 32 + s.index_length /\ IndexPoint(s) <= s.variables_offset
         /\ 32 + s.index_length <= s.variables_offset + 8
         /\ 4 + s.variable_bytes <= s.trailer_len /\ VariablesEnd(s) <= s.size
         /\ s.freelist_offset \in Nat /\ 32 <= s.freelist_offset
<1>1. /\ s \in Layouts
      /\ s.size \in Nat /\ s.index_length \in Nat
      /\ s.variables_offset \in Nat /\ s.trailer_len \in Nat /\ s.variable_bytes \in Nat
      /\ Len(s.entries) \in Nat /\ DOMAIN s.entries = 1 .. Len(s.entries)
      /\ s.freelist_offset \in Nat
  BY LayoutFields DEF Fits
<1>2. s.index_offset = 32 /\ 32 <= s.freelist_offset
  BY DEF Fits, HeaderSize
<1>3. IndexPoint(s) \in Nat /\ 36 <= IndexPoint(s)
  <2>1. \A n \in Nat : 32 + 4 + 8 * n \in Nat /\ 36 <= 32 + 4 + 8 * n
    OBVIOUS
  <2> QED BY <1>1, <1>2, <2>1 DEF IndexPoint, CountSize, EntrySize
<1>4. VariablesEnd(s) = s.variables_offset + s.trailer_len /\ VariablesEnd(s) \in Nat
  BY <1>1 DEF VariablesEnd
<1>5. IndexPoint(s) <= 32 + s.index_length /\ 32 + s.index_length <= s.variables_offset + 8
  BY <1>2 DEF Fits, IndexEnd, EntrySize
<1> QED BY <1>1, <1>2, <1>3, <1>4, <1>5 DEF Fits, CountSize

(* What fits can be read. *)
LEMMA FitsIsReadable ==
  ASSUME NEW s, Fits(s)
  PROVE  Readable(s)
<1>1. /\ s \in Layouts /\ IndexPoint(s) \in Nat /\ VariablesEnd(s) \in Nat /\ s.size \in Nat
      /\ IndexPoint(s) <= s.variables_offset /\ s.variables_offset <= VariablesEnd(s)
      /\ VariablesEnd(s) <= s.size /\ s.variables_offset \in Nat
  BY FitsNumbers
<1>2. ASSUME NEW k \in DOMAIN s.entries, IsBlock(s.entries[k])
      PROVE  /\ Apart(s.index_offset, IndexPoint(s), s.entries[k].address, BlockEnd(s.entries[k]))
             /\ Apart(s.variables_offset, VariablesEnd(s), s.entries[k].address,
                      BlockEnd(s.entries[k]))
             /\ BlockEnd(s.entries[k]) <= s.size
  <2>1. VariablesEnd(s) <= s.entries[k].address /\ BlockEnd(s.entries[k]) <= s.size
    BY <1>2 DEF Fits
  <2>2. s.entries[k].address \in Nat
    BY <1>1, LayoutFields
  <2>3. IndexPoint(s) <= s.entries[k].address
    BY <1>1, <2>1, <2>2
  <2> QED BY <2>1, <2>3 DEF Apart
<1>3. IndexPoint(s) <= s.size
  BY <1>1
<1> QED BY <1>1, <1>2, <1>3 DEF Readable, Apart

(* To fit is to have these numbers. *)
LEMMA FitsByNumbers ==
  ASSUME NEW t \in Layouts, t.index_offset = 32, 32 <= t.freelist_offset,
         IndexPoint(t) <= 32 + t.index_length, IndexPoint(t) <= t.variables_offset,
         32 + t.index_length <= t.variables_offset + 8,
         4 + t.variable_bytes <= t.trailer_len, t.variables_offset + t.trailer_len <= t.size,
         \A i \in DOMAIN t.entries : IsBlock(t.entries[i]) =>
           /\ t.variables_offset + t.trailer_len <= t.entries[i].address
           /\ t.entries[i].address + t.entries[i].length <= t.size
  PROVE  Fits(t)
BY DEF Fits, HeaderSize, IndexEnd, VariablesEnd, BlockEnd, CountSize, EntrySize

(* The same blocks, longer by none: what the index section gets more of. *)
WithIndexGrown(s, d) == [Resize(s, IndexPoint(s), d) EXCEPT !.index_length = s.index_length + d]

(* An insertion after the used entries of the index, which gets longer. *)
LEMMA GrownFits ==
  ASSUME NEW s, Fits(s), NEW d \in Nat
  PROVE  /\ Fits(WithIndexGrown(s, d))
         /\ DOMAIN WithIndexGrown(s, d).entries = DOMAIN s.entries
         /\ Len(WithIndexGrown(s, d).entries) = Len(s.entries)
         /\ \A i \in DOMAIN s.entries : WithIndexGrown(s, d).entries[i].length = s.entries[i].length
         /\ IndexPoint(WithIndexGrown(s, d)) = IndexPoint(s)
         /\ WithIndexGrown(s, d).index_length = s.index_length + d
         /\ WithIndexGrown(s, d).variables_offset = s.variables_offset + d
<1> DEFINE p == IndexPoint(s)
           r == Resize(s, p, d)
           t == WithIndexGrown(s, d)
<1>1. /\ s \in Layouts
      /\ s.size \in Nat /\ s.index_length \in Nat
      /\ s.variables_offset \in Nat /\ s.trailer_len \in Nat /\ s.variable_bytes \in Nat
      /\ p \in Nat /\ VariablesEnd(s) \in Nat
      /\ s.index_offset = 32 /\ 36 <= p /\ VariablesEnd(s) = s.variables_offset + s.trailer_len
      /\ p <= 32 + s.index_length /\ p <= s.variables_offset
      /\ 32 + s.index_length <= s.variables_offset + 8
      /\ 4 + s.variable_bytes <= s.trailer_len /\ VariablesEnd(s) <= s.size
      /\ s.freelist_offset \in Nat /\ 32 <= s.freelist_offset
  BY FitsNumbers
<1>2. t = [r EXCEPT !.index_length = s.index_length + d]
  BY DEF WithIndexGrown
<1> HIDE DEF p, t
<1> HIDE DEF r
<1>3. /\ r \in Layouts /\ r.size = s.size + d
      /\ r.index_offset = Shift(s.index_offset, p, d)
      /\ r.variables_offset = Shift(s.variables_offset, p, d)
      /\ r.freelist_offset = Shift(s.freelist_offset, p, d)
      /\ r.trailer_len = s.trailer_len /\ r.variable_bytes = s.variable_bytes
      /\ Len(r.entries) = Len(s.entries) /\ DOMAIN r.entries = DOMAIN s.entries
      /\ \A i \in DOMAIN s.entries : r.entries[i].length = s.entries[i].length
  <2>1. s \in Layouts /\ p \in Nat /\ d \in Nat
    BY <1>1
  <2> QED BY <2>1, ResizeFields DEF r
<1>4. \A i \in DOMAIN s.entries : IsBlock(r.entries[i]) =>
        /\ VariablesEnd(s) + d <= r.entries[i].address
        /\ r.entries[i].address + r.entries[i].length <= s.size + d
        /\ r.entries[i].address \in Nat
  <2>1. p <= VariablesEnd(s) /\ HeaderSize <= p
    BY <1>1 DEF HeaderSize
  <2>2. p \in Nat /\ d \in Nat
    BY <1>1
  <2> QED BY <2>1, <2>2, BlocksUnderResize DEF r
<1>5. /\ r.index_offset = 32 /\ r.variables_offset = s.variables_offset + d
      /\ 32 <= r.freelist_offset
  BY <1>1, <1>3 DEF Shift
<1>6. s.index_length + d \in Nat
  BY <1>1
<1>7. /\ t \in Layouts /\ t.size = s.size + d /\ t.index_offset = 32
      /\ t.index_length = s.index_length + d
      /\ t.variables_offset = s.variables_offset + d /\ 32 <= t.freelist_offset
      /\ t.trailer_len = s.trailer_len /\ t.variable_bytes = s.variable_bytes
      /\ t.entries = r.entries
  BY <1>2, <1>3, <1>5, <1>6 DEF Layouts
<1>8. IndexPoint(t) = p
  BY <1>1, <1>3, <1>7 DEF IndexPoint, p
<1>9. t.variables_offset + t.trailer_len = VariablesEnd(s) + d
  BY <1>1, <1>7
<1>10. /\ IndexPoint(t) <= 32 + t.index_length /\ IndexPoint(t) <= t.variables_offset
       /\ 32 + t.index_length <= t.variables_offset + 8
       /\ 4 + t.variable_bytes <= t.trailer_len /\ VariablesEnd(s) + d <= t.size
  BY <1>1, <1>7, <1>8
<1>11. Fits(t)
  BY <1>3, <1>4, <1>7, <1>9, <1>10, FitsByNumbers
<1> QED BY <1>3, <1>7, <1>8, <1>11 DEF t, p

(* bom_index_reserve. *)
LEMMA ReserveFits ==
  ASSUME NEW s, Fits(s), NEW n \in Nat
  PROVE  /\ Fits(IndexReserve(s, n))
         /\ Len(IndexReserve(s, n).entries) = Len(s.entries)
         /\ \A i \in DOMAIN s.entries : IndexReserve(s, n).entries[i].length = s.entries[i].length
<1>1. EntrySize * n \in Nat
  BY DEF EntrySize
<1>2. IndexReserve(s, n) = WithIndexGrown(s, EntrySize * n)
  BY DEF IndexReserve, ReservePoint, WithIndexGrown
<1> QED BY <1>1, <1>2, GrownFits

(* The blocks of s are in t, none of them shorter. *)
Keeps(s, t) ==
  /\ Len(s.entries) <= Len(t.entries)
  /\ \A i \in DOMAIN s.entries : t.entries[i].length >= s.entries[i].length

(* A sound layout whose index follows the header fits: it is a fresh one. *)
LEMMA SoundFits ==
  ASSUME NEW s, SoundLayout(s), s.index_offset = HeaderSize
  PROVE  Fits(s)
<1>1. /\ s \in Layouts /\ s.variables_offset \in Nat /\ s.trailer_len \in Nat
      /\ s.variable_bytes \in Nat /\ s.index_length \in Nat /\ s.freelist_offset \in Nat
      /\ Len(s.entries) \in Nat
  BY LayoutFields DEF SoundLayout
<1>2. IndexPoint(s) \in Nat
  BY <1>1, PointsAreNumbers
<1>3. /\ VariablesEnd(s) = s.variables_offset + s.trailer_len
      /\ 4 + s.variable_bytes <= s.trailer_len /\ VariablesEnd(s) <= s.size
      /\ 32 <= s.variables_offset
  BY DEF SoundLayout, SectionsDisjoint, VariablesEnd, CountSize, HeaderSize
<1>4. ~Moved(s)
  BY <1>1, <1>3 DEF Moved, HeaderSize
<1>5. Fresh(s)
  BY <1>4 DEF SoundLayout
<1>6. s.variables_offset = IndexEnd(s) /\ IndexEnd(s) = 32 + s.index_length
  BY <1>5 DEF Fresh, IndexEnd, HeaderSize
<1>7. IndexPoint(s) <= s.freelist_offset /\ s.freelist_offset + 20 = IndexEnd(s)
  BY DEF SoundLayout, FreelistClear, FreelistLast, FreelistSize
<1>7a. HeaderSize <= s.freelist_offset
  <2>1. HeaderSize + 4 + 8 * Len(s.entries) <= s.freelist_offset
    BY <1>7 DEF IndexPoint, CountSize, EntrySize
  <2>2. 8 * Len(s.entries) \in Nat
    BY <1>1
  <2> QED BY <1>1, <2>1, <2>2 DEF HeaderSize
<1>8. \A i \in DOMAIN s.entries : IsBlock(s.entries[i]) =>
        VariablesEnd(s) <= s.entries[i].address /\ BlockEnd(s.entries[i]) <= s.size
  BY <1>5 DEF Fresh, SoundLayout, BlocksDisjoint, BlockPlaced
<1>9. IndexPoint(s) <= IndexEnd(s) /\ IndexPoint(s) <= s.variables_offset
      /\ IndexEnd(s) <= s.variables_offset + 8
  BY <1>1, <1>2, <1>6, <1>7
<1> QED BY <1>1, <1>3, <1>7a, <1>8, <1>9 DEF Fits, CountSize, EntrySize

(* bom_index_reserve, again with the numbers of blocks. *)
LEMMA ReserveKeeps ==
  ASSUME NEW s, SoundLayout(s), Fits(s), NEW n \in Nat
  PROVE  /\ SoundLayout(IndexReserve(s, n)) /\ Fits(IndexReserve(s, n))
         /\ Len(IndexReserve(s, n).entries) = Len(s.entries)
         /\ Keeps(s, IndexReserve(s, n))
<1>1. \A i \in DOMAIN s.entries : s.entries[i].length \in Nat
  BY FitsNumbers, LayoutFields
<1>2. Len(s.entries) \in Nat
  BY FitsNumbers
<1>3. SoundLayout(IndexReserve(s, n))
  BY ReserveSound
<1>4. /\ Fits(IndexReserve(s, n))
      /\ Len(IndexReserve(s, n).entries) = Len(s.entries)
      /\ \A i \in DOMAIN s.entries : IndexReserve(s, n).entries[i].length = s.entries[i].length
  BY ReserveFits
<1> DEFINE t == IndexReserve(s, n)
<1> HIDE DEF t
<1>5. Len(s.entries) <= Len(t.entries)
      /\ \A i \in DOMAIN s.entries : t.entries[i].length >= s.entries[i].length
  BY <1>1, <1>2, <1>4 DEF t
<1> QED BY <1>3, <1>4, <1>5 DEF Keeps, t

(* The growth of the index before an entry is added: then there is room. *)
LEMMA GrowForAddFits ==
  ASSUME NEW s, Fits(s)
  PROVE  /\ Fits(GrowForAdd(s))
         /\ Len(GrowForAdd(s).entries) = Len(s.entries)
         /\ \A i \in DOMAIN s.entries : GrowForAdd(s).entries[i].length = s.entries[i].length
         /\ IndexPoint(GrowForAdd(s)) + 8 <= 32 + GrowForAdd(s).index_length
         /\ IndexPoint(GrowForAdd(s)) + 8 <= GrowForAdd(s).variables_offset
<1>1. /\ s.index_length \in Nat /\ s.variables_offset \in Nat /\ IndexPoint(s) \in Nat
      /\ IndexPoint(s) <= 32 + s.index_length /\ IndexPoint(s) <= s.variables_offset
      /\ 32 + s.index_length <= s.variables_offset + 8
      /\ s.index_offset = 32 /\ Len(s.entries) \in Nat
  BY FitsNumbers
<1>2. CASE IndexFull(s, 1)
  <2>1. GrowForAdd(s) = WithIndexGrown(s, 8)
    BY <1>2 DEF GrowForAdd, WithIndexGrown, EntrySize
  <2>2. 8 \in Nat
    OBVIOUS
  <2>3. /\ IndexPoint(WithIndexGrown(s, 8)) = IndexPoint(s)
        /\ WithIndexGrown(s, 8).index_length = s.index_length + 8
        /\ WithIndexGrown(s, 8).variables_offset = s.variables_offset + 8
        /\ Fits(WithIndexGrown(s, 8))
        /\ Len(WithIndexGrown(s, 8).entries) = Len(s.entries)
        /\ \A i \in DOMAIN s.entries :
             WithIndexGrown(s, 8).entries[i].length = s.entries[i].length
    BY <2>2, GrownFits
  <2>4. /\ IndexPoint(s) + 8 <= 32 + (s.index_length + 8)
        /\ IndexPoint(s) + 8 <= s.variables_offset + 8
    BY <1>1
  <2> QED BY <2>1, <2>3, <2>4
<1>3. CASE ~IndexFull(s, 1)
  <2>1. GrowForAdd(s) = s
    BY <1>3 DEF GrowForAdd
  <2>2. IndexPoint(s) = 36 + 8 * Len(s.entries)
    BY <1>1 DEF IndexPoint, CountSize, EntrySize
  <2>3. 4 + 8 * (Len(s.entries) + 1) <= s.index_length - 16
    BY <1>1, <1>3 DEF IndexFull, CountSize, EntrySize
  <2>4. IndexPoint(s) + 8 <= 32 + s.index_length - 16
    BY <1>1, <2>2, <2>3
  <2>5. IndexPoint(s) + 8 <= 32 + s.index_length /\ IndexPoint(s) + 8 <= s.variables_offset
    BY <1>1, <2>4
  <2> QED BY <2>1, <2>5
<1> QED BY <1>2, <1>3

(* The entries of a layout are pairs of numbers. *)
LEMMA EntriesAreNumbers ==
  ASSUME NEW s \in Layouts
  PROVE  \A i \in DOMAIN s.entries : s.entries[i].address \in Nat /\ s.entries[i].length \in Nat
BY LayoutFields

(* A block behind g, and the entry for it: what bom_index_add does once the *)
(* index has its room.                                                     *)
WithLast(g, len, count) ==
  [Resize(g, g.size, len) EXCEPT
     !.entries     = Append(Resize(g, g.size, len).entries,
                            [address |-> g.size, length |-> len]),
     !.block_count = count]

(* It leaves these fields. *)
LEMMA AddFields ==
  ASSUME NEW g \in Layouts, NEW len \in Nat, NEW count \in Nat
  PROVE  LET t == WithLast(g, len, count)
         IN /\ t \in Layouts /\ t.size = g.size + len /\ t.index_length = g.index_length
            /\ t.index_offset = Shift(g.index_offset, g.size, len)
            /\ t.variables_offset = Shift(g.variables_offset, g.size, len)
            /\ t.freelist_offset = Shift(g.freelist_offset, g.size, len)
            /\ t.trailer_len = g.trailer_len /\ t.variable_bytes = g.variable_bytes
            /\ Len(t.entries) = Len(g.entries) + 1
            /\ DOMAIN t.entries = 1 .. Len(g.entries) + 1
            /\ \A i \in DOMAIN g.entries : t.entries[i] = Resize(g, g.size, len).entries[i]
            /\ t.entries[Len(g.entries) + 1] = [address |-> g.size, length |-> len]
<1> DEFINE r == Resize(g, g.size, len)
           e == [address |-> g.size, length |-> len]
           t == WithLast(g, len, count)
<1>1. g.size \in Nat
  BY LayoutFields
<1>2. /\ r \in Layouts /\ r.size = g.size + len /\ r.index_length = g.index_length
      /\ r.index_offset = Shift(g.index_offset, g.size, len)
      /\ r.variables_offset = Shift(g.variables_offset, g.size, len)
      /\ r.freelist_offset = Shift(g.freelist_offset, g.size, len)
      /\ r.trailer_len = g.trailer_len /\ r.variable_bytes = g.variable_bytes
      /\ Len(r.entries) = Len(g.entries) /\ DOMAIN r.entries = DOMAIN g.entries
  BY <1>1, ResizeFields
<1>3. e \in Entries
  BY <1>1 DEF Entries
<1>t. t = [r EXCEPT !.entries = Append(r.entries, e), !.block_count = count]
  BY DEF WithLast
<1> HIDE DEF r, e, t
<1>4. /\ r.entries \in Seq(Entries) /\ DOMAIN r.entries = 1 .. Len(r.entries)
      /\ Len(r.entries) \in Nat
  BY <1>2, LayoutFields
<1>5. /\ Append(r.entries, e) \in Seq(Entries)
      /\ Len(Append(r.entries, e)) = Len(r.entries) + 1
      /\ Append(r.entries, e)[Len(r.entries) + 1] = e
      /\ \A i \in 1 .. Len(r.entries) : Append(r.entries, e)[i] = r.entries[i]
      /\ DOMAIN Append(r.entries, e) = 1 .. Len(r.entries) + 1
  BY <1>3, <1>4, AppendProperties
<1>6. /\ t \in Layouts /\ t.size = r.size /\ t.index_length = r.index_length
      /\ t.index_offset = r.index_offset /\ t.variables_offset = r.variables_offset
      /\ t.trailer_len = r.trailer_len /\ t.variable_bytes = r.variable_bytes
      /\ t.freelist_offset = r.freelist_offset
      /\ t.entries = Append(r.entries, e)
  BY <1>2, <1>5, <1>t DEF Layouts
<1>7. /\ t \in Layouts /\ t.size = g.size + len /\ t.index_length = g.index_length
      /\ t.index_offset = Shift(g.index_offset, g.size, len)
      /\ t.variables_offset = Shift(g.variables_offset, g.size, len)
      /\ t.freelist_offset = Shift(g.freelist_offset, g.size, len)
      /\ t.trailer_len = g.trailer_len /\ t.variable_bytes = g.variable_bytes
  BY <1>2, <1>6
<1>8. /\ Len(t.entries) = Len(g.entries) + 1
      /\ DOMAIN t.entries = 1 .. Len(g.entries) + 1
      /\ t.entries[Len(g.entries) + 1] = e
      /\ \A i \in DOMAIN g.entries : t.entries[i] = r.entries[i]
  BY <1>2, <1>4, <1>5, <1>6
<1> QED BY <1>7, <1>8 DEF r, e, t

(* bom_index_add: the new block comes last and is as long as it is asked. *)
LEMMA AddFits ==
  ASSUME NEW s, Fits(s), NEW len \in Nat
  PROVE  /\ Fits(IndexAdd(s, len)) /\ Keeps(s, IndexAdd(s, len))
         /\ Len(IndexAdd(s, len).entries) = Len(s.entries) + 1
         /\ IndexAdd(s, len).entries[Len(s.entries) + 1].length = len
<1> DEFINE g == GrowForAdd(s)
           r == Resize(g, g.size, len)
           e == [address |-> g.size, length |-> len]
           t == IndexAdd(s, len)
<1>1. /\ Fits(g) /\ Len(g.entries) = Len(s.entries)
      /\ \A i \in DOMAIN s.entries : g.entries[i].length = s.entries[i].length
      /\ IndexPoint(g) + 8 <= 32 + g.index_length /\ IndexPoint(g) + 8 <= g.variables_offset
  BY GrowForAddFits
<1>2. t = WithLast(g, len, Len(s.entries) + 1)
  BY DEF IndexAdd, WithLast
<1> HIDE DEF g, t
<1>2a. g \in Layouts /\ Len(g.entries) \in Nat /\ DOMAIN g.entries = 1 .. Len(g.entries)
  BY <1>1, FitsNumbers
<1>2b. g \in Layouts
  BY <1>2a
<1>3. /\ g.size \in Nat /\ g.index_length \in Nat
      /\ g.variables_offset \in Nat /\ g.trailer_len \in Nat /\ g.variable_bytes \in Nat
      /\ IndexPoint(g) \in Nat /\ VariablesEnd(g) \in Nat
      /\ g.index_offset = 32 /\ 36 <= IndexPoint(g)
      /\ VariablesEnd(g) = g.variables_offset + g.trailer_len
      /\ 32 + g.index_length <= g.variables_offset + 8
      /\ 4 + g.variable_bytes <= g.trailer_len /\ VariablesEnd(g) <= g.size
      /\ IndexPoint(g) + 8 <= 32 + g.index_length /\ IndexPoint(g) + 8 <= g.variables_offset
      /\ g.freelist_offset \in Nat /\ 32 <= g.freelist_offset
  BY <1>1, FitsNumbers
<1>4. Len(s.entries) + 1 \in Nat /\ DOMAIN s.entries = DOMAIN g.entries
  BY <1>1, <1>2a, FitsNumbers
<1>5a.
      /\ t \in Layouts /\ t.size = g.size + len /\ t.index_length = g.index_length
      /\ t.index_offset = Shift(g.index_offset, g.size, len)
      /\ t.variables_offset = Shift(g.variables_offset, g.size, len)
      /\ t.freelist_offset = Shift(g.freelist_offset, g.size, len)
      /\ t.trailer_len = g.trailer_len /\ t.variable_bytes = g.variable_bytes
      /\ Len(t.entries) = Len(g.entries) + 1
      /\ DOMAIN t.entries = 1 .. Len(g.entries) + 1
      /\ \A i \in DOMAIN g.entries : t.entries[i] = r.entries[i]
      /\ t.entries[Len(g.entries) + 1] = e
  BY <1>2, <1>2b, <1>4, AddFields
<1>5. /\ t.size = g.size + len /\ t.index_length = g.index_length
      /\ t.index_offset = Shift(g.index_offset, g.size, len)
      /\ t.variables_offset = Shift(g.variables_offset, g.size, len)
      /\ t.freelist_offset = Shift(g.freelist_offset, g.size, len)
      /\ t.trailer_len = g.trailer_len /\ t.variable_bytes = g.variable_bytes
  BY <1>5a
<1> HIDE DEF e
<1>5b. t.entries[Len(g.entries) + 1] = e
  BY <1>5a
<1>6. /\ 36 <= g.size
      /\ \A i \in DOMAIN g.entries :
           /\ r.entries[i].length = g.entries[i].length /\ g.entries[i].length \in Nat
           /\ IsBlock(r.entries[i]) =>
                /\ VariablesEnd(g) <= r.entries[i].address
                /\ r.entries[i].address + r.entries[i].length <= g.size + len
  <2>1. 36 <= g.size
    BY <1>3
  <2>2. HeaderSize <= g.size
    BY <1>3, <2>1 DEF HeaderSize
  <2>3. \A i \in DOMAIN g.entries :
          r.entries[i].length = g.entries[i].length /\ g.entries[i].length \in Nat
    <3>1. \A i \in DOMAIN g.entries : g.entries[i].length \in Nat
      BY <1>2b, EntriesAreNumbers
    <3>2. \A i \in DOMAIN g.entries : r.entries[i].length = g.entries[i].length
      <4> HIDE DEF r
      <4>1. g.size \in Nat
        BY <1>3
      <4> QED BY <1>2b, <4>1, ResizeFields DEF r
    <3> QED BY <3>1, <3>2
  <2>4. \A i \in DOMAIN g.entries : IsBlock(r.entries[i]) =>
          /\ VariablesEnd(g) <= r.entries[i].address
          /\ r.entries[i].address + r.entries[i].length <= g.size + len
    BY <1>1, <1>3, <2>2, BlocksUnderResize
  <2> QED BY <2>1, <2>3, <2>4
<1> HIDE DEF r
<1>7. t.index_offset = 32 /\ 32 <= t.freelist_offset
  BY <1>3, <1>5, <1>6 DEF Shift
<1>8. /\ t.variables_offset \in Nat /\ g.variables_offset <= t.variables_offset
      /\ t.variables_offset = g.variables_offset \/ g.size <= g.variables_offset
      /\ t.variables_offset + t.trailer_len <= t.size
      /\ t.variables_offset + t.trailer_len <= VariablesEnd(g) + len
  BY <1>3, <1>5 DEF Shift
<1>9. g.trailer_len > 0 /\ t.variables_offset = g.variables_offset
  BY <1>3, <1>8
<1>10. t.variables_offset + t.trailer_len = VariablesEnd(g)
  BY <1>3, <1>5, <1>9
<1>11. ASSUME NEW i \in DOMAIN t.entries, IsBlock(t.entries[i])
       PROVE  /\ t.variables_offset + t.trailer_len <= t.entries[i].address
              /\ t.entries[i].address + t.entries[i].length <= t.size
  <2>1. CASE i = Len(g.entries) + 1
    <3>1. t.entries[i].address = g.size /\ t.entries[i].length = len
      BY <1>5b, <2>1 DEF e
    <3> QED BY <1>3, <1>5, <1>10, <3>1
  <2>2. CASE i # Len(g.entries) + 1
    <3>1. i \in DOMAIN g.entries
      BY <1>2a, <1>5a, <2>2
    <3>2. t.entries[i] = r.entries[i]
      BY <1>5a, <3>1
    <3> QED BY <1>5, <1>6, <1>10, <1>11, <3>1, <3>2
  <2> QED BY <2>1, <2>2
<1>12. IndexPoint(t) = IndexPoint(g) + 8
  <2>1. IndexPoint(g) = 36 + 8 * Len(g.entries)
    BY <1>2a, <1>3 DEF IndexPoint, CountSize, EntrySize
  <2>2. IndexPoint(t) = 36 + 8 * (Len(g.entries) + 1)
    BY <1>2a, <1>5a, <1>7 DEF IndexPoint, CountSize, EntrySize
  <2>3. 8 * (Len(g.entries) + 1) = 8 * Len(g.entries) + 8
    BY <1>2a
  <2>4. 8 * Len(g.entries) \in Nat
    BY <1>2a
  <2> QED BY <2>4, <2>1, <2>2, <2>3
<1>13. /\ IndexPoint(t) <= 32 + t.index_length /\ IndexPoint(t) <= t.variables_offset
       /\ 32 + t.index_length <= t.variables_offset + 8
       /\ 4 + t.variable_bytes <= t.trailer_len /\ t.variables_offset + t.trailer_len <= t.size
  BY <1>3, <1>5, <1>9, <1>10, <1>12
<1>14. Fits(t)
  BY <1>5a, <1>7, <1>11, <1>13, FitsByNumbers
<1>15. \A i \in DOMAIN s.entries : t.entries[i].length >= s.entries[i].length
  <2>1. ASSUME NEW i \in DOMAIN s.entries PROVE t.entries[i].length >= s.entries[i].length
    <3>1. i \in DOMAIN g.entries
      BY <1>4
    <3>2. t.entries[i].length = s.entries[i].length /\ t.entries[i].length \in Nat
      BY <1>1, <1>5a, <1>6, <3>1
    <3> QED BY <3>2
  <2> QED BY <2>1
<1>16. Len(s.entries) <= Len(t.entries)
  <2>1. Len(s.entries) \in Nat /\ Len(t.entries) = Len(s.entries) + 1
    BY <1>1, <1>2a, <1>5a
  <2> QED BY <2>1
<1>17. t.entries[Len(s.entries) + 1].length = len
  <2>1. Len(s.entries) = Len(g.entries)
    BY <1>1
  <2> QED BY <1>5b, <2>1 DEF e
<1> QED BY <1>1, <1>5a, <1>14, <1>15, <1>16, <1>17 DEF Keeps, t

(* The same of a sound layout. *)
LEMMA AddKeeps ==
  ASSUME NEW s, SoundLayout(s), Fits(s), NEW len \in Nat
  PROVE  /\ SoundLayout(IndexAdd(s, len)) /\ Fits(IndexAdd(s, len)) /\ Keeps(s, IndexAdd(s, len))
         /\ Len(IndexAdd(s, len).entries) = Len(s.entries) + 1
         /\ IndexAdd(s, len).entries[Len(s.entries) + 1].length = len
BY AddSound, AddFits

(* bom_variable_add: the section gets longer than what is put into it. *)
LEMMA VariableFits ==
  ASSUME NEW s, Fits(s), NEW n \in Nat
  PROVE  /\ Fits(VariableAdd(s, n)) /\ Keeps(s, VariableAdd(s, n))
         /\ Len(VariableAdd(s, n).entries) = Len(s.entries)
<1> DEFINE p == s.variables_offset + CountSize + s.variable_bytes
           d == Padded(VariableSize(n))
           z == StoredSize(n)
           r == Resize(s, p, d)
           t == VariableAdd(s, n)
<1>1a. s \in Layouts /\ Len(s.entries) \in Nat
  BY FitsNumbers
<1>1. /\ s.size \in Nat /\ s.index_length \in Nat
      /\ s.variables_offset \in Nat /\ s.trailer_len \in Nat /\ s.variable_bytes \in Nat
      /\ IndexPoint(s) \in Nat /\ VariablesEnd(s) \in Nat
      /\ s.index_offset = 32 /\ 36 <= IndexPoint(s)
      /\ VariablesEnd(s) = s.variables_offset + s.trailer_len
      /\ IndexPoint(s) <= 32 + s.index_length /\ IndexPoint(s) <= s.variables_offset
      /\ 32 + s.index_length <= s.variables_offset + 8
      /\ 4 + s.variable_bytes <= s.trailer_len /\ VariablesEnd(s) <= s.size
      /\ s.freelist_offset \in Nat /\ 32 <= s.freelist_offset
  BY FitsNumbers
<1>2. d \in Nat /\ z \in Nat /\ z <= d
  <2>1. n % 256 \in Nat /\ n % 256 <= n
    OBVIOUS
  <2>2. VariableSize(n) \in Nat /\ z \in Nat /\ z <= VariableSize(n)
    BY <2>1 DEF StoredSize, VariableSize, VariableHeaderSize
  <2>3. Padded(VariableSize(n)) \in Nat /\ VariableSize(n) <= Padded(VariableSize(n))
    BY <2>2, PaddedFits
  <2> HIDE DEF z, d
  <2>4. d \in Nat /\ VariableSize(n) <= d
    BY <2>3 DEF d
  <2> QED BY <2>2, <2>4
<1>3. p = s.variables_offset + 4 + s.variable_bytes
  BY DEF CountSize
<1>4. t = [r EXCEPT !.variable_bytes = s.variable_bytes + z, !.trailer_len = s.trailer_len + d]
  BY DEF VariableAdd
<1> HIDE DEF p, d, z
<1>5. p \in Nat /\ p <= VariablesEnd(s) /\ s.variables_offset < p /\ 36 <= p
  BY <1>1, <1>3
<1>6. /\ r \in Layouts /\ r.size = s.size + d /\ r.index_length = s.index_length
      /\ r.index_offset = Shift(s.index_offset, p, d)
      /\ r.variables_offset = Shift(s.variables_offset, p, d)
      /\ r.freelist_offset = Shift(s.freelist_offset, p, d)
      /\ Len(r.entries) = Len(s.entries) /\ DOMAIN r.entries = DOMAIN s.entries
      /\ \A i \in DOMAIN s.entries : r.entries[i].length = s.entries[i].length
  <2> HIDE DEF r
  <2>1. s \in Layouts /\ p \in Nat /\ d \in Nat
    BY <1>1a, <1>2, <1>5
  <2> QED BY <2>1, ResizeFields DEF r
<1>7. \A i \in DOMAIN s.entries : IsBlock(r.entries[i]) =>
        /\ VariablesEnd(s) + d <= r.entries[i].address
        /\ r.entries[i].address + r.entries[i].length <= s.size + d
  <2>1. HeaderSize <= p /\ p \in Nat /\ d \in Nat
    BY <1>2, <1>5 DEF HeaderSize
  <2> QED BY <1>5, <2>1, BlocksUnderResize
<1> HIDE DEF r
<1>8. r.index_offset = 32 /\ r.variables_offset = s.variables_offset
  BY <1>1, <1>5, <1>6 DEF Shift
<1>8a. 32 <= r.freelist_offset
  <2>1. r.freelist_offset = Shift(s.freelist_offset, p, d)
    BY <1>6
  <2> QED BY <1>1, <1>2, <2>1 DEF Shift
<1>9. s.variable_bytes + z \in Nat /\ s.trailer_len + d \in Nat
  BY <1>1, <1>2
<1>10a.
       /\ t \in Layouts /\ t.size = s.size + d /\ t.index_length = s.index_length
       /\ t.index_offset = 32 /\ t.variables_offset = s.variables_offset
       /\ t.trailer_len = s.trailer_len + d /\ t.variable_bytes = s.variable_bytes + z
       /\ 32 <= t.freelist_offset /\ t.entries = r.entries
  BY <1>4, <1>6, <1>8, <1>8a, <1>9 DEF Layouts
<1>10. /\ t.size = s.size + d /\ t.index_length = s.index_length
       /\ t.index_offset = 32 /\ t.variables_offset = s.variables_offset
       /\ t.trailer_len = s.trailer_len + d /\ t.variable_bytes = s.variable_bytes + z
  BY <1>10a
<1> HIDE DEF t
<1>11. IndexPoint(t) = IndexPoint(s)
  BY <1>1, <1>1a, <1>6, <1>10a DEF IndexPoint
<1>12. t.variables_offset + t.trailer_len = VariablesEnd(s) + d
  BY <1>1, <1>2, <1>10
<1>13. /\ IndexPoint(t) <= 32 + t.index_length /\ IndexPoint(t) <= t.variables_offset
       /\ 32 + t.index_length <= t.variables_offset + 8
       /\ 4 + t.variable_bytes <= t.trailer_len /\ t.variables_offset + t.trailer_len <= t.size
  BY <1>1, <1>2, <1>10, <1>11, <1>12
<1>14. Fits(t)
  BY <1>6, <1>7, <1>10a, <1>12, <1>13, FitsByNumbers
<1>15. \A i \in DOMAIN s.entries : s.entries[i].length \in Nat
  BY <1>1a, LayoutFields
<1>16. Len(t.entries) = Len(s.entries)
  BY <1>6, <1>10a
<1>17. \A i \in DOMAIN s.entries : t.entries[i].length >= s.entries[i].length
  BY <1>6, <1>10a, <1>15
<1>18. Keeps(s, t)
  BY <1>1a, <1>16, <1>17 DEF Keeps
<1> QED BY <1>14, <1>16, <1>18 DEF t

(* The same of a sound layout. *)
LEMMA VariableKeeps ==
  ASSUME NEW s, SoundLayout(s), Fits(s), NEW n \in Nat
  PROVE  /\ SoundLayout(VariableAdd(s, n)) /\ Fits(VariableAdd(s, n))
         /\ Keeps(s, VariableAdd(s, n))
         /\ Len(VariableAdd(s, n).entries) = Len(s.entries)
BY VariableSound, VariableFits

(* bom_index_append to a block that has bytes. *)
LEMMA AppendKeeps ==
  ASSUME NEW s, SoundLayout(s), Fits(s), NEW i \in DOMAIN s.entries, s.entries[i].length > 0,
         NEW len \in Nat
  PROVE  /\ SoundLayout(IndexAppend(s, i, len)) /\ Fits(IndexAppend(s, i, len))
         /\ Keeps(s, IndexAppend(s, i, len))
         /\ Len(IndexAppend(s, i, len).entries) = Len(s.entries)
         /\ IndexAppend(s, i, len).entries[i].length = s.entries[i].length + len
<1> DEFINE p == BlockEnd(s.entries[i])
           r == Resize(s, p, len)
           e == [address |-> r.entries[i].address, length |-> r.entries[i].length + len]
           t == IndexAppend(s, i, len)
<1>1. /\ s \in Layouts /\ s.index_offset = 32
      /\ s.entries[i].address \in Nat /\ s.entries[i].length \in Nat
  BY FitsNumbers, LayoutFields
<1>2. IsBlock(s.entries[i])
  BY DEF IsBlock, Vacant
<1>3. p \in Nat /\ 32 < p
  <2>1. 32 <= s.entries[i].address
    BY <1>2 DEF SoundLayout, BlocksDisjoint, BlockPlaced, HeaderSize
  <2> QED BY <1>1, <2>1 DEF BlockEnd
<1>4. SoundLayout(t)
  BY <1>2, AppendSound
<1>5. t = [r EXCEPT !.entries = [r.entries EXCEPT ![i] = e]]
  BY DEF IndexAppend
<1> HIDE DEF t, e, p
<1>6. /\ r \in Layouts /\ r.index_offset = Shift(s.index_offset, p, len)
      /\ Len(r.entries) = Len(s.entries) /\ DOMAIN r.entries = DOMAIN s.entries
      /\ \A j \in DOMAIN s.entries : r.entries[j].length = s.entries[j].length
  <2> HIDE DEF r
  <2> QED BY <1>1, <1>3, ResizeFields DEF r
<1> HIDE DEF r
<1>7. t.index_offset = r.index_offset /\ t.entries = [r.entries EXCEPT ![i] = e]
  BY <1>5, <1>6 DEF Layouts
<1>8. t.index_offset = 32
  BY <1>1, <1>3, <1>6, <1>7 DEF Shift
<1>9. Fits(t)
  BY <1>4, <1>8, SoundFits DEF HeaderSize
<1>10. t \in Layouts
  BY <1>4 DEF SoundLayout
<1>11. /\ \A j \in DOMAIN s.entries : s.entries[j].length \in Nat
       /\ DOMAIN s.entries = 1 .. Len(s.entries) /\ Len(s.entries) \in Nat
       /\ DOMAIN t.entries = 1 .. Len(t.entries) /\ Len(t.entries) \in Nat
  BY <1>1, <1>10, LayoutFields
<1>12. DOMAIN t.entries = DOMAIN s.entries
  BY <1>6, <1>7
<1>13. Len(t.entries) = Len(s.entries)
  BY <1>11, <1>12
<1>14. ASSUME NEW j \in DOMAIN s.entries
       PROVE  t.entries[j].length >= s.entries[j].length
  <2>1. CASE j = i
    <3>1. t.entries[j] = e
      BY <1>6, <1>7, <2>1
    <3>2. e.length = s.entries[j].length + len
      BY <1>6, <2>1 DEF e
    <3> QED BY <1>11, <3>1, <3>2
  <2>2. CASE j # i
    <3>1. t.entries[j] = r.entries[j]
      BY <1>6, <1>7, <2>2
    <3> QED BY <1>6, <1>11, <3>1
  <2> QED BY <2>1, <2>2
<1>15. Keeps(s, t)
  BY <1>11, <1>13, <1>14 DEF Keeps
<1>16. t.entries[i].length = s.entries[i].length + len
  BY <1>6, <1>7 DEF e
<1> QED BY <1>4, <1>9, <1>13, <1>15, <1>16 DEF t

(* bom_free_indices_add makes room for its one or two vacant entries, where *)
(* the index section may be said to reach into the variables afterwards.   *)
LEMMA GrowForFreeFits ==
  ASSUME NEW s, SoundLayout(s), Fits(s), NEW n \in {1, 2}
  PROVE  /\ Fits(GrowForFree(s, n))
         /\ Len(GrowForFree(s, n).entries) = Len(s.entries)
         /\ \A i \in DOMAIN s.entries : GrowForFree(s, n).entries[i].length = s.entries[i].length
         /\ IndexPoint(GrowForFree(s, n)) + 8 * n <= 32 + GrowForFree(s, n).index_length
         /\ IndexPoint(GrowForFree(s, n)) + 8 * n <= GrowForFree(s, n).variables_offset
<1>1. /\ s.index_length \in Nat /\ s.variables_offset \in Nat /\ IndexPoint(s) \in Nat
      /\ 32 + s.index_length <= s.variables_offset + 8 /\ s.index_offset = 32
      /\ s.variables_offset \in Nat /\ s.trailer_len \in Nat /\ s.variable_bytes \in Nat
      /\ 4 + s.variable_bytes <= s.trailer_len
  BY FitsNumbers
<1>2. /\ IndexPoint(s) <= s.freelist_offset /\ s.freelist_offset + 20 = 32 + s.index_length
      /\ s.freelist_offset \in Nat
  BY <1>1, LayoutFields
     DEF SoundLayout, FreelistClear, FreelistLast, FreelistSize, IndexEnd
<1>3. 32 + s.index_length = s.variables_offset
  <2>1. ~Moved(s)
    <3>1. 32 <= s.variables_offset
      BY DEF SoundLayout, SectionsDisjoint, HeaderSize
    <3> QED BY <1>1, <3>1 DEF Moved, VariablesEnd
  <2> QED BY <1>1, <2>1 DEF SoundLayout, Fresh, IndexEnd
<1>4. CASE IndexFull(s, n)
  <2> DEFINE w == WithIndexGrown(s, 8)
             g == GrowForFree(s, n)
  <2>1. g = [w EXCEPT !.index_length = s.index_length + 8 * n]
    <3>1. g = [Resize(s, IndexPoint(s), 8) EXCEPT !.index_length = s.index_length + 8 * n]
      BY <1>4 DEF GrowForFree, EntrySize
    <3>2. Resize(s, IndexPoint(s), 8) \in Layouts
      BY <1>1, FitsNumbers, ResizeFields
    <3> QED BY <3>1, <3>2 DEF WithIndexGrown, Layouts
  <2>2. /\ Fits(w) /\ IndexPoint(w) = IndexPoint(s)
        /\ w.variables_offset = s.variables_offset + 8
        /\ Len(w.entries) = Len(s.entries) /\ DOMAIN w.entries = DOMAIN s.entries
        /\ \A i \in DOMAIN s.entries : w.entries[i].length = s.entries[i].length
    <3>1. 8 \in Nat
      OBVIOUS
    <3> QED BY <3>1, GrownFits
  <2> HIDE DEF w, g
  <2>3. w \in Layouts
    BY <2>2 DEF Fits
  <2>4. s.index_length + 8 * n \in Nat
    BY <1>1
  <2>5. /\ g \in Layouts /\ g.index_length = s.index_length + 8 * n
        /\ g.index_offset = w.index_offset /\ g.variables_offset = w.variables_offset
        /\ g.trailer_len = w.trailer_len /\ g.variable_bytes = w.variable_bytes
        /\ g.size = w.size /\ g.entries = w.entries /\ g.freelist_offset = w.freelist_offset
    BY <2>1, <2>3, <2>4 DEF Layouts
  <2>6. IndexPoint(g) = IndexPoint(s)
    BY <2>2, <2>5 DEF IndexPoint
  <2>7. /\ IndexPoint(g) + 8 * n <= 32 + g.index_length
        /\ IndexPoint(g) + 8 * n <= g.variables_offset
        /\ IndexPoint(g) <= 32 + g.index_length /\ IndexPoint(g) <= g.variables_offset
        /\ 32 + g.index_length <= g.variables_offset + 8
    <3>1. /\ g.index_length = s.index_length + 8 * n
          /\ g.variables_offset = s.variables_offset + 8 /\ IndexPoint(g) = IndexPoint(s)
      BY <2>2, <2>5, <2>6
    <3>2. CASE n = 1
      BY <1>1, <1>2, <1>3, <3>1, <3>2
    <3>3. CASE n = 2
      BY <1>1, <1>2, <1>3, <3>1, <3>3
    <3> QED BY <3>2, <3>3
  <2>8. Fits(g)
    <3>1. /\ w.index_offset = 32 /\ 4 + w.variable_bytes <= w.trailer_len
          /\ 32 <= w.freelist_offset
          /\ VariablesEnd(w) <= w.size /\ VariablesEnd(w) = w.variables_offset + w.trailer_len
      BY <2>2, FitsNumbers
    <3>2. \A i \in DOMAIN g.entries : IsBlock(g.entries[i]) =>
            /\ g.variables_offset + g.trailer_len <= g.entries[i].address
            /\ g.entries[i].address + g.entries[i].length <= g.size
      BY <2>2, <2>5, <3>1 DEF Fits, BlockEnd
    <3> QED BY <2>5, <2>7, <3>1, <3>2, FitsByNumbers
  <2> QED BY <2>2, <2>5, <2>7, <2>8 DEF g
<1>5. CASE ~IndexFull(s, n)
  <2>1. GrowForFree(s, n) = s
    BY <1>5 DEF GrowForFree
  <2>2. IndexPoint(s) + 8 * n <= 32 + s.index_length /\ IndexPoint(s) + 8 * n <= s.variables_offset
    <3>1. CASE n = 1
      BY <1>1, <1>2, <1>3, <3>1
    <3>2. CASE n = 2
      BY <1>1, <1>2, <1>3, <3>2
    <3> QED BY <3>1, <3>2
  <2> QED BY <2>1, <2>2
<1> QED BY <1>4, <1>5

(* bom_free_indices_add: vacant entries behind the others. *)
LEMMA FreeFits ==
  ASSUME NEW s, SoundLayout(s), Fits(s), NEW n \in {1, 2}
  PROVE  /\ Fits(FreeIndicesAdd(s, n)) /\ Keeps(s, FreeIndicesAdd(s, n))
         /\ Len(FreeIndicesAdd(s, n).entries) = Len(s.entries) + n
<1> DEFINE g == GrowForFree(s, n)
           v == [i \in 1..n |-> Vacant]
           t == FreeIndicesAdd(s, n)
<1>1. /\ Fits(g) /\ Len(g.entries) = Len(s.entries)
      /\ \A i \in DOMAIN s.entries : g.entries[i].length = s.entries[i].length
      /\ IndexPoint(g) + 8 * n <= 32 + g.index_length
      /\ IndexPoint(g) + 8 * n <= g.variables_offset
  BY GrowForFreeFits
<1>2. t = [g EXCEPT !.entries = g.entries \o v]
  BY DEF FreeIndicesAdd
<1>3. v \in Seq(Entries) /\ Len(v) = n /\ \A k \in 1..n : v[k] = Vacant
  <2>1. Vacant \in Entries
    BY DEF Vacant, Entries
  <2> QED BY <2>1
<1> HIDE DEF g, v, t
<1>4. /\ g.index_length \in Nat /\ g.variables_offset \in Nat
      /\ IndexPoint(g) \in Nat /\ g.index_offset = 32
      /\ VariablesEnd(g) = g.variables_offset + g.trailer_len
      /\ 32 + g.index_length <= g.variables_offset + 8
      /\ 4 + g.variable_bytes <= g.trailer_len /\ VariablesEnd(g) <= g.size
      /\ 32 <= g.freelist_offset
  BY <1>1, FitsNumbers
<1>5. /\ g \in Layouts /\ g.entries \in Seq(Entries)
      /\ Len(g.entries) \in Nat /\ DOMAIN g.entries = 1 .. Len(g.entries)
  <2>1. g \in Layouts
    BY <1>1, FitsNumbers
  <2> QED BY <2>1, LayoutFields
<1>6. /\ g.entries \o v \in Seq(Entries) /\ Len(g.entries \o v) = Len(g.entries) + n
      /\ \A k \in 1 .. Len(g.entries) : (g.entries \o v)[k] = g.entries[k]
      /\ \A k \in Len(g.entries) + 1 .. Len(g.entries) + n : (g.entries \o v)[k] = Vacant
  BY <1>3, <1>5
<1>7. /\ t \in Layouts /\ t.entries = g.entries \o v
      /\ t.size = g.size /\ t.index_offset = g.index_offset
      /\ t.index_length = g.index_length /\ t.variables_offset = g.variables_offset
      /\ t.trailer_len = g.trailer_len /\ t.variable_bytes = g.variable_bytes
      /\ t.freelist_offset = g.freelist_offset
  BY <1>2, <1>5, <1>6 DEF Layouts
<1>8. /\ Len(t.entries) = Len(g.entries) + n
      /\ \A k \in DOMAIN g.entries : t.entries[k] = g.entries[k]
  BY <1>5, <1>6, <1>7
<1>9. \A k \in DOMAIN t.entries : IsBlock(t.entries[k]) =>
        k \in DOMAIN g.entries /\ t.entries[k] = g.entries[k]
  <2>1. DOMAIN t.entries = 1 .. Len(g.entries) + n
    BY <1>6, <1>7
  <2>2. \A k \in 1 .. Len(g.entries) + n :
          k \in 1 .. Len(g.entries) \/ k \in Len(g.entries) + 1 .. Len(g.entries) + n
    BY <1>5
  <2> QED BY <1>5, <1>6, <1>7, <2>1, <2>2 DEF IsBlock
<1>10. IndexPoint(t) = IndexPoint(g) + 8 * n
  <2>1. \A b, c \in Nat : 32 + 4 + 8 * (b + c) = 32 + 4 + 8 * b + 8 * c
    OBVIOUS
  <2>2. Len(g.entries) \in Nat /\ n \in Nat
    BY <1>5
  <2>3. t.index_offset = 32 /\ g.index_offset = 32
    BY <1>4, <1>7
  <2>4. IndexPoint(t) = 32 + 4 + 8 * (Len(g.entries) + n)
    BY <1>8, <2>3 DEF IndexPoint, CountSize, EntrySize
  <2>5. IndexPoint(g) = 32 + 4 + 8 * Len(g.entries)
    BY <2>3 DEF IndexPoint, CountSize, EntrySize
  <2> QED BY <2>1, <2>2, <2>4, <2>5
<1>11. Fits(t)
  <2>1. \A i \in DOMAIN t.entries : IsBlock(t.entries[i]) =>
          /\ t.variables_offset + t.trailer_len <= t.entries[i].address
          /\ t.entries[i].address + t.entries[i].length <= t.size
    BY <1>1, <1>4, <1>7, <1>9 DEF Fits, BlockEnd
  <2> QED BY <1>1, <1>4, <1>7, <1>10, <2>1, FitsByNumbers
<1>12. Len(t.entries) = Len(s.entries) + n /\ Len(s.entries) <= Len(t.entries)
  <2>1. Len(s.entries) \in Nat /\ n \in Nat
    BY <1>1, <1>5
  <2> QED BY <1>1, <1>8, <2>1
<1>13. \A i \in DOMAIN s.entries : t.entries[i].length >= s.entries[i].length
  <2>1. s \in Layouts /\ DOMAIN s.entries = DOMAIN g.entries
    BY <1>1, <1>5, FitsNumbers
  <2>2. \A i \in DOMAIN s.entries : s.entries[i].length \in Nat
    BY <2>1, EntriesAreNumbers
  <2> QED BY <1>1, <1>8, <2>1, <2>2
<1> QED BY <1>11, <1>12, <1>13 DEF Keeps, t

(* The one entry that write() leaves vacant at first. *)
LEMMA FreeKeeps ==
  ASSUME NEW s, SoundLayout(s), Fits(s)
  PROVE  /\ SoundLayout(FreeIndicesAdd(s, 1)) /\ Fits(FreeIndicesAdd(s, 1))
         /\ Keeps(s, FreeIndicesAdd(s, 1))
         /\ Len(FreeIndicesAdd(s, 1).entries) = Len(s.entries) + 1
BY FreeSound, FreeFits

(* bom_index_relocate: what fits can still be read with its trailer behind *)
(* the blocks.                                                             *)
LEMMA RelocatedIsReadable ==
  ASSUME NEW s, Fits(s)
  PROVE  /\ Readable(RelocateTrailer(s)) /\ RelocateTrailer(s) \in Layouts
         /\ Len(RelocateTrailer(s).entries) = Len(s.entries)
         /\ \A i \in DOMAIN s.entries :
              RelocateTrailer(s).entries[i].length = s.entries[i].length
<1> DEFINE u == VariablesEnd(s) - s.index_offset
           vo == s.size - u
           io == RoundUp(vo + s.trailer_len)
           e == [i \in DOMAIN s.entries |->
                   IF MovesWithData(s, s.entries[i])
                   THEN [address |-> s.entries[i].address - u, length |-> s.entries[i].length]
                   ELSE s.entries[i]]
           fo == io + (s.freelist_offset - s.index_offset)
           t == RelocateTrailer(s)
<1>1. CASE VariablesEnd(s) >= s.size
  <2>1. t = s
    BY <1>1 DEF RelocateTrailer
  <2> QED BY <2>1, FitsIsReadable DEF Fits
<1>2. CASE ~(VariablesEnd(s) >= s.size)
  <2>1. t = [s EXCEPT !.size = io + s.index_length, !.index_offset = io,
                      !.variables_offset = vo, !.freelist_offset = fo, !.entries = e]
    BY <1>2 DEF RelocateTrailer
  <2>2. /\ s.size \in Nat /\ s.index_length \in Nat /\ s.trailer_len \in Nat
        /\ s.variables_offset \in Nat /\ VariablesEnd(s) \in Nat /\ s.index_offset = 32
        /\ VariablesEnd(s) = s.variables_offset + s.trailer_len /\ VariablesEnd(s) <= s.size
        /\ 36 <= s.variables_offset
        /\ IndexPoint(s) \in Nat /\ IndexPoint(s) <= 32 + s.index_length
    BY FitsNumbers
  <2>3. u \in Nat /\ u = VariablesEnd(s) - 32
    BY <2>2
  <2> HIDE DEF u
  <2>4. vo \in Nat
    BY <2>2, <2>3
  <2>5. io \in Nat /\ vo + s.trailer_len <= io
    <3>1. vo + s.trailer_len \in Nat
      BY <2>2, <2>4
    <3> QED BY <3>1, RoundUpBounds
  <2> HIDE DEF io, vo, fo, t
  <2>6. s \in Layouts /\ DOMAIN s.entries = 1 .. Len(s.entries) /\ Len(s.entries) \in Nat
    BY FitsNumbers
  <2>7. ASSUME NEW i \in DOMAIN s.entries
        PROVE  /\ e[i] \in Entries
               /\ IsBlock(e[i]) => e[i].address + e[i].length <= vo /\ 32 <= e[i].address
               /\ e[i].length = s.entries[i].length
    <3>1. s.entries[i].address \in Nat /\ s.entries[i].length \in Nat /\ s.entries[i] \in Entries
      BY <2>6, LayoutFields
    <3>2. CASE IsBlock(s.entries[i])
      <4>1. /\ VariablesEnd(s) <= s.entries[i].address
            /\ s.entries[i].address + s.entries[i].length <= s.size
        BY <3>2 DEF Fits, BlockEnd
      <4>2. e[i] = [address |-> s.entries[i].address - u, length |-> s.entries[i].length]
        BY <2>2, <3>1, <3>2, <4>1 DEF MovesWithData
      <4>3. /\ s.entries[i].address - u \in Nat /\ 32 <= s.entries[i].address - u
            /\ s.entries[i].address - u + s.entries[i].length <= vo
        BY <2>2, <2>3, <3>1, <4>1 DEF vo
      <4> HIDE DEF e
      <4>4. e[i].address = s.entries[i].address - u /\ e[i].length = s.entries[i].length
        BY <4>2
      <4>5. e[i] \in Entries
        BY <3>1, <4>2, <4>3 DEF Entries
      <4> QED BY <4>3, <4>4, <4>5
    <3>3. CASE ~IsBlock(s.entries[i])
      BY <3>1, <3>3 DEF MovesWithData
    <3> QED BY <3>2, <3>3
  <2>8. e \in Seq(Entries) /\ Len(e) = Len(s.entries) /\ DOMAIN e = DOMAIN s.entries
    <3>1. DOMAIN e = 1 .. Len(s.entries)
      BY <2>6
    <3>2. \A i \in 1 .. Len(s.entries) : e[i] \in Entries
      BY <2>6, <2>7
    <3>3. e = [i \in DOMAIN e |-> e[i]]
      OBVIOUS
    <3> HIDE DEF e
    <3>4. e \in [1 .. Len(s.entries) -> Entries]
      BY <3>1, <3>2, <3>3
    <3>5. e \in Seq(Entries)
      BY <2>6, <3>4, SeqDef
    <3>6. Len(e) = Len(s.entries)
      BY <2>6, <3>1, <3>5, LenProperties
    <3> QED BY <2>6, <3>1, <3>5, <3>6
  <2> HIDE DEF e
  <2>9. /\ t.size = io + s.index_length /\ t.index_offset = io /\ t.variables_offset = vo
        /\ t.entries = e /\ t.trailer_len = s.trailer_len
    BY <2>1, <2>6 DEF Layouts
  <2>9a. t \in Layouts
    <3>1. s.freelist_offset \in Nat /\ 32 <= s.freelist_offset /\ s.index_offset = 32
      BY FitsNumbers
    <3>2. fo \in Nat /\ io + s.index_length \in Nat
      BY <2>2, <2>5, <3>1 DEF fo
    <3> QED BY <2>1, <2>4, <2>5, <2>6, <2>8, <3>2 DEF Layouts
  <2>10. VariablesEnd(t) <= t.index_offset /\ VariablesEnd(t) = vo + s.trailer_len
    BY <2>2, <2>4, <2>5, <2>9 DEF VariablesEnd
  <2>11. IndexPoint(t) <= t.size
    <3>1. 4 + 8 * Len(s.entries) <= s.index_length
      BY <2>2, <2>6 DEF IndexPoint, CountSize, EntrySize
    <3>2. IndexPoint(t) = io + 4 + 8 * Len(s.entries)
      BY <2>8, <2>9 DEF IndexPoint, CountSize, EntrySize
    <3>3. \A a, b, c \in Nat : 4 + 8 * b <= c => a + 4 + 8 * b <= a + c
      OBVIOUS
    <3> QED BY <2>2, <2>5, <2>6, <2>9, <3>1, <3>2, <3>3
  <2>12. ASSUME NEW k \in DOMAIN t.entries, IsBlock(t.entries[k])
         PROVE  /\ BlockEnd(t.entries[k]) <= vo /\ BlockEnd(t.entries[k]) <= t.index_offset
                /\ BlockEnd(t.entries[k]) <= t.size /\ BlockEnd(t.entries[k]) \in Nat
    <3>1. BlockEnd(e[k]) <= vo /\ BlockEnd(e[k]) \in Nat
      BY <2>7, <2>8, <2>9, <2>12 DEF BlockEnd, Entries
    <3>2. vo <= io /\ io <= t.size /\ io = t.index_offset /\ io \in Nat /\ t.size \in Nat
      BY <2>2, <2>4, <2>5, <2>9
    <3>3. BlockEnd(t.entries[k]) = BlockEnd(e[k])
      BY <2>9
    <3> QED BY <2>4, <3>1, <3>2, <3>3
  <2>13. vo = t.variables_offset
    BY <2>9
  <2>14. \A k \in DOMAIN t.entries : IsBlock(t.entries[k]) =>
           /\ Apart(t.index_offset, IndexPoint(t), t.entries[k].address, BlockEnd(t.entries[k]))
           /\ Apart(t.variables_offset, VariablesEnd(t), t.entries[k].address,
                    BlockEnd(t.entries[k]))
           /\ BlockEnd(t.entries[k]) <= t.size
    BY <2>12, <2>13 DEF Apart
  <2>15. Apart(t.index_offset, IndexPoint(t), t.variables_offset, VariablesEnd(t))
    BY <2>10 DEF Apart
  <2>16. Readable(t)
    BY <2>11, <2>14, <2>15 DEF Readable
  <2>17. Len(t.entries) = Len(s.entries)
         /\ \A i \in DOMAIN s.entries : t.entries[i].length = s.entries[i].length
    BY <2>7, <2>8, <2>9
  <2> QED BY <2>9a, <2>16, <2>17 DEF t
<1> QED BY <1>1, <1>2

-----------------------------------------------------------------------------
(* A file: an entry for every block, whatever is in them. *)
IsFile(b) ==
  /\ b = [layout |-> b.layout, blocks |-> b.blocks, variables |-> b.variables]
  /\ IsSeq(b.blocks) /\ IsSeq(b.variables)
  /\ Len(b.layout.entries) = Len(b.blocks)

(* A file that bom.c may go on with. *)
Open(b) == IsFile(b) /\ Fits(b.layout)

(* The blocks of b are in c, with their contents and none of them shorter. *)
Extends(b, c) ==
  /\ Count(b) <= Count(c)
  /\ \A i \in 0 .. Count(b) - 1 :
       Block(c, i) = Block(b, i) /\ LengthOf(c, i) >= LengthOf(b, i)

FileFrom(l, s, v) == [layout |-> l, blocks |-> s, variables |-> v]

(* What is a file, and what its fields are. *)
LEMMA FileFields ==
  ASSUME NEW l, NEW s, NEW v, IsSeq(s), IsSeq(v), Len(l.entries) = Len(s)
  PROVE  /\ IsFile(FileFrom(l, s, v)) /\ FileFrom(l, s, v).layout = l
         /\ FileFrom(l, s, v).blocks = s /\ FileFrom(l, s, v).variables = v
BY DEF IsFile, FileFrom

(* What a file with another layout or other blocks is. *)
LEMMA FieldChanged ==
  ASSUME NEW b, IsFile(b), NEW l, NEW s
  PROVE  /\ [b EXCEPT !.layout = l] = FileFrom(l, b.blocks, b.variables)
         /\ [b EXCEPT !.blocks = s] = FileFrom(b.layout, s, b.variables)
<1> DEFINE x == b.layout  y == b.blocks  z == b.variables
<1>1. b = [layout |-> x, blocks |-> y, variables |-> z]
  BY DEF IsFile
<1> HIDE DEF x, y, z
<1>2. [b EXCEPT !.layout = l] = [layout |-> l, blocks |-> y, variables |-> z]
  BY <1>1
<1>3. [b EXCEPT !.blocks = s] = [layout |-> x, blocks |-> s, variables |-> z]
  BY <1>1
<1> QED BY <1>2, <1>3 DEF x, y, z, FileFrom

(* What one with both is. *)
LEMMA BlocksChanged ==
  ASSUME NEW b, IsFile(b), NEW l, NEW s
  PROVE  [b EXCEPT !.layout = l, !.blocks = s] = FileFrom(l, s, b.variables)
<1>1. [b EXCEPT !.layout = l, !.blocks = s] = [[b EXCEPT !.layout = l] EXCEPT !.blocks = s]
  BY Zenon
<1> DEFINE c == FileFrom(l, b.blocks, b.variables)
<1>2. [c EXCEPT !.blocks = s] = FileFrom(l, s, b.variables)
  BY DEF FileFrom
<1> HIDE DEF c
<1>3. [b EXCEPT !.layout = l] = c
  BY FieldChanged DEF c
<1> QED BY <1>1, <1>2, <1>3, Zenon

(* What one with another layout and other variables is. *)
LEMMA VariablesChanged ==
  ASSUME NEW b, IsFile(b), NEW l, NEW v
  PROVE  [b EXCEPT !.layout = l, !.variables = v] = FileFrom(l, b.blocks, v)
<1>1. [b EXCEPT !.layout = l, !.variables = v] = [[b EXCEPT !.layout = l] EXCEPT !.variables = v]
  BY Zenon
<1> DEFINE c == FileFrom(l, b.blocks, b.variables)
<1>2. [c EXCEPT !.variables = v] = FileFrom(l, b.blocks, v)
  BY DEF FileFrom
<1> HIDE DEF c
<1>3. [b EXCEPT !.layout = l] = c
  BY FieldChanged DEF c
<1> QED BY <1>1, <1>2, <1>3, Zenon

(* The numbers of its blocks. *)
LEMMA FileNumbers ==
  ASSUME NEW b, Open(b)
  PROVE  /\ Count(b) \in Nat /\ Count(b) = Len(b.blocks) /\ Len(b.layout.entries) = Count(b)
         /\ DOMAIN b.layout.entries = 1 .. Count(b) /\ b.layout \in Layouts
         /\ \A i \in 0 .. Count(b) - 1 :
              i + 1 \in DOMAIN b.layout.entries /\ LengthOf(b, i) \in Nat
<1>1. /\ Count(b) = Len(b.blocks) /\ Len(b.layout.entries) = Count(b)
      /\ Len(b.layout.entries) \in Nat /\ b.layout \in Layouts
      /\ DOMAIN b.layout.entries = 1 .. Len(b.layout.entries)
  BY FitsNumbers DEF Open, IsFile, Count
<1>2. \A i \in 0 .. Count(b) - 1 : i + 1 \in DOMAIN b.layout.entries
  BY <1>1
<1>3. \A i \in 0 .. Count(b) - 1 : LengthOf(b, i) \in Nat
  BY <1>1, <1>2, EntriesAreNumbers DEF LengthOf
<1> QED BY <1>1, <1>2, <1>3

(* One more block. *)
LEMMA BlockAdded ==
  ASSUME NEW b, Open(b), NEW content, NEW length \in Nat
  PROVE  LET c == WithBlock(b, content, length)
         IN /\ Open(c) /\ Extends(b, c)
            /\ SoundLayout(b.layout) => SoundLayout(c.layout)
            /\ c.variables = b.variables /\ Count(c) = Count(b) + 1
            /\ Block(c, Count(b)) = content /\ LengthOf(c, Count(b)) = length
<1> DEFINE l == IndexAdd(b.layout, length)
           s == Append(b.blocks, content)
           c == WithBlock(b, content, length)
<1>1. c = [b EXCEPT !.layout = l, !.blocks = s]
  BY DEF WithBlock
<1>2. /\ Fits(l) /\ Keeps(b.layout, l) /\ Len(l.entries) = Len(b.layout.entries) + 1
      /\ l.entries[Len(b.layout.entries) + 1].length = length
  BY AddFits DEF Open
<1>3. SoundLayout(b.layout) => SoundLayout(l)
  BY AddSound
<1>4. /\ IsSeq(s) /\ Len(s) = Len(b.blocks) + 1 /\ s[Len(b.blocks) + 1] = content
      /\ \A j \in 1 .. Len(b.blocks) : s[j] = b.blocks[j]
  BY Appended DEF Open, IsFile
<1> HIDE DEF l, s, c
<1>5. /\ Count(b) \in Nat /\ Count(b) = Len(b.blocks) /\ Len(b.layout.entries) = Count(b)
      /\ DOMAIN b.layout.entries = 1 .. Count(b)
  BY FileNumbers
<1>6. IsFile(c) /\ c.layout = l /\ c.blocks = s /\ c.variables = b.variables
  <2>1. Len(l.entries) = Len(s)
    BY <1>2, <1>4, <1>5
  <2>2. IsFile(b) /\ IsSeq(b.variables)
    BY DEF Open, IsFile
  <2>3. c = FileFrom(l, s, b.variables)
    BY <1>1, <2>2, BlocksChanged
  <2> QED BY <1>4, <2>1, <2>2, <2>3, FileFields
<1>7. Count(c) = Count(b) + 1
  BY <1>4, <1>5, <1>6 DEF Count
<1>8. Extends(b, c)
  <2>1. Count(b) <= Count(c)
    BY <1>5, <1>7
  <2>2. ASSUME NEW i \in 0 .. Count(b) - 1
        PROVE  Block(c, i) = Block(b, i) /\ LengthOf(c, i) >= LengthOf(b, i)
    <3>1. i + 1 \in 1 .. Len(b.blocks) /\ i + 1 \in DOMAIN b.layout.entries
      BY <1>5
    <3> QED BY <1>2, <1>4, <1>6, <3>1 DEF Block, LengthOf, Keeps
  <2> QED BY <2>1, <2>2 DEF Extends
<1>9. Block(c, Count(b)) = content /\ LengthOf(c, Count(b)) = length
  BY <1>2, <1>4, <1>5, <1>6 DEF Block, LengthOf
<1> QED BY <1>2, <1>3, <1>6, <1>7, <1>8, <1>9 DEF Open, c

(* A layout that keeps the blocks, with the same contents. *)
LEMMA SameContents ==
  ASSUME NEW b, Open(b), NEW l, Fits(l), Keeps(b.layout, l),
         Len(l.entries) = Len(b.layout.entries), NEW v, IsSeq(v),
         NEW c, c = FileFrom(l, b.blocks, v)
  PROVE  /\ Open(c) /\ Extends(b, c) /\ Count(c) = Count(b)
         /\ c.layout = l /\ c.blocks = b.blocks /\ c.variables = v
<1>1. /\ Count(b) \in Nat /\ Count(b) = Len(b.blocks) /\ Len(b.layout.entries) = Count(b)
      /\ \A i \in 0 .. Count(b) - 1 : i + 1 \in DOMAIN b.layout.entries
  BY FileNumbers
<1>2. IsFile(c) /\ c.layout = l /\ c.blocks = b.blocks /\ c.variables = v
  BY <1>1, FileFields DEF Open, IsFile
<1>3. Count(c) = Count(b) /\ Count(b) <= Count(c)
  BY <1>1, <1>2 DEF Count
<1>4. \A i \in 0 .. Count(b) - 1 :
        Block(c, i) = Block(b, i) /\ LengthOf(c, i) >= LengthOf(b, i)
  BY <1>1, <1>2 DEF Block, LengthOf, Keeps
<1> QED BY <1>2, <1>3, <1>4 DEF Open, Extends

(* Room in the index. *)
LEMMA RoomMade ==
  ASSUME NEW b, Open(b), SoundLayout(b.layout), NEW n \in Nat
  PROVE  LET c == WithRoom(b, n)
         IN /\ Open(c) /\ SoundLayout(c.layout) /\ Extends(b, c) /\ Count(c) = Count(b)
            /\ c.variables = b.variables
<1> DEFINE l == IndexReserve(b.layout, n)
           c == WithRoom(b, n)
<1>1. /\ SoundLayout(l) /\ Fits(l) /\ Len(l.entries) = Len(b.layout.entries)
      /\ Keeps(b.layout, l)
  BY ReserveKeeps DEF Open
<1>2. c = [b EXCEPT !.layout = l]
  BY DEF WithRoom
<1> HIDE DEF l, c
<1>3. c = FileFrom(l, b.blocks, b.variables) /\ IsSeq(b.variables)
  BY <1>2, FieldChanged DEF Open, IsFile
<1>4. /\ Open(c) /\ Extends(b, c) /\ Count(c) = Count(b)
      /\ c.layout = l /\ c.variables = b.variables
  BY <1>1, <1>3, SameContents
<1> QED BY <1>1, <1>4 DEF c

(* One more variable. *)
LEMMA VariableAdded ==
  ASSUME NEW b, Open(b), NEW name, NameLength(name) \in Nat, NEW i
  PROVE  LET c == WithVariable(b, name, i)
         IN /\ Open(c) /\ Extends(b, c) /\ Count(c) = Count(b)
            /\ SoundLayout(b.layout) => SoundLayout(c.layout)
            /\ c.variables = Append(b.variables, [name |-> name, index |-> i])
            /\ c.blocks = b.blocks
<1> DEFINE l == VariableAdd(b.layout, NameLength(name))
           v == Append(b.variables, [name |-> name, index |-> i])
           c == WithVariable(b, name, i)
<1>1. Fits(l) /\ Keeps(b.layout, l) /\ Len(l.entries) = Len(b.layout.entries)
  BY VariableFits DEF Open
<1>2. SoundLayout(b.layout) => SoundLayout(l)
  BY VariableSound
<1>3. c = [b EXCEPT !.layout = l, !.variables = v]
  BY DEF WithVariable
<1>4. IsSeq(v)
  BY Appended DEF Open, IsFile
<1> HIDE DEF l, v, c
<1>5. c = FileFrom(l, b.blocks, v)
  <2>1. IsFile(b)
    BY DEF Open
  <2>2. [b EXCEPT !.layout = l, !.variables = v] = FileFrom(l, b.blocks, v)
    BY <2>1, VariablesChanged
  <2> QED BY <1>3, <2>2
<1>6. /\ Open(c) /\ Extends(b, c) /\ Count(c) = Count(b)
      /\ c.layout = l /\ c.blocks = b.blocks /\ c.variables = v
  BY <1>1, <1>4, <1>5, SameContents
<1> QED BY <1>2, <1>6 DEF c, v

(* More bytes for a block that has some. *)
LEMMA BlockLengthened ==
  ASSUME NEW b, Open(b), SoundLayout(b.layout), NEW i \in 0 .. Count(b) - 1,
         LengthOf(b, i) > 0, NEW length \in Nat
  PROVE  LET c == Lengthened(b, i, length)
         IN /\ Open(c) /\ SoundLayout(c.layout) /\ Extends(b, c) /\ Count(c) = Count(b)
            /\ c.variables = b.variables /\ c.blocks = b.blocks
            /\ LengthOf(c, i) = LengthOf(b, i) + length
<1> DEFINE l == IndexAppend(b.layout, i + 1, length)
           c == Lengthened(b, i, length)
<1>1. i + 1 \in DOMAIN b.layout.entries /\ b.layout.entries[i + 1].length > 0
  BY FileNumbers DEF LengthOf
<1>2. /\ SoundLayout(l) /\ Fits(l) /\ Keeps(b.layout, l)
      /\ Len(l.entries) = Len(b.layout.entries)
      /\ l.entries[i + 1].length = b.layout.entries[i + 1].length + length
  BY <1>1, AppendKeeps DEF Open
<1>3. c = [b EXCEPT !.layout = l]
  BY DEF Lengthened
<1> HIDE DEF l, c
<1>4. c = FileFrom(l, b.blocks, b.variables) /\ IsSeq(b.variables)
  BY <1>3, FieldChanged DEF Open, IsFile
<1>5. /\ Open(c) /\ Extends(b, c) /\ Count(c) = Count(b)
      /\ c.layout = l /\ c.variables = b.variables /\ c.blocks = b.blocks
  BY <1>2, <1>4, SameContents
<1> QED BY <1>2, <1>5 DEF c, LengthOf

(* Vacant entries, of which one leaves the layout sound. *)
LEMMA VacantAdded ==
  ASSUME NEW b, Open(b), SoundLayout(b.layout), NEW n \in {1, 2}
  PROVE  LET c == WithVacant(b, n)
         IN /\ Open(c) /\ c.variables = b.variables
            /\ n = 1 => SoundLayout(c.layout)
            /\ Extends(b, c) /\ Count(c) = Count(b) + n
            /\ \A i \in Count(b) .. Count(c) - 1 : Block(c, i) = NoContent
<1> DEFINE l == FreeIndicesAdd(b.layout, n)
           w == [k \in 1..n |-> NoContent]
           s == b.blocks \o w
           c == WithVacant(b, n)
<1>1. Fits(l) /\ Len(l.entries) = Len(b.layout.entries) + n /\ Keeps(b.layout, l)
  BY FreeFits DEF Open
<1>2. n = 1 => SoundLayout(l)
  BY FreeSound
<1>3. c = [b EXCEPT !.layout = l, !.blocks = s]
  BY DEF WithVacant
<1>4. IsSeq(w) /\ Len(w) = n /\ \A k \in 1..n : w[k] = NoContent
  <2>1. n \in Nat
    OBVIOUS
  <2>2. w \in [1..n -> {NoContent}] /\ \A k \in 1..n : w[k] = NoContent
    OBVIOUS
  <2> HIDE DEF w
  <2>3. w \in Seq({NoContent}) /\ Len(w) = n
    BY <2>1, <2>2, SeqDef, LenProperties
  <2> QED BY <2>2, <2>3, SeqOfItsElements
<1> HIDE DEF l, w, c
<1>5. /\ IsSeq(s) /\ Len(s) = Len(b.blocks) + n
      /\ \A j \in 1 .. Len(b.blocks) : s[j] = b.blocks[j]
      /\ \A j \in 1 .. n : s[Len(b.blocks) + j] = NoContent
  <2>1. IsSeq(b.blocks)
    BY DEF Open, IsFile
  <2>2. /\ IsSeq(s) /\ Len(s) = Len(b.blocks) + Len(w)
        /\ \A j \in 1 .. Len(b.blocks) : s[j] = b.blocks[j]
        /\ \A j \in 1 .. Len(w) : s[Len(b.blocks) + j] = w[j]
    <3> DEFINE x == b.blocks
    <3>1. IsSeq(w) /\ IsSeq(x)
      BY <1>4, <2>1
    <3> HIDE DEF x
    <3>2. /\ IsSeq(x \o w) /\ Len(x \o w) = Len(x) + Len(w)
          /\ \A j \in 1 .. Len(x) : (x \o w)[j] = x[j]
          /\ \A j \in 1 .. Len(w) : (x \o w)[Len(x) + j] = w[j]
      BY <3>1, Concatenated
    <3> QED BY <3>2 DEF x
  <2> QED BY <1>4, <2>2
<1> HIDE DEF s
<1>6. c = FileFrom(l, s, b.variables) /\ IsSeq(b.variables) /\ Len(l.entries) = Len(s)
  BY <1>1, <1>3, <1>5, BlocksChanged DEF Open, IsFile
<1>7. IsFile(c) /\ c.layout = l /\ c.blocks = s /\ c.variables = b.variables
  BY <1>5, <1>6, FileFields
<1>8. /\ Count(b) \in Nat /\ Count(b) = Len(b.blocks) /\ Count(c) = Count(b) + n
      /\ DOMAIN b.layout.entries = 1 .. Count(b)
  BY <1>5, <1>7, FileNumbers DEF Count
<1>9. Extends(b, c)
  <2>1. Count(b) <= Count(c)
    BY <1>8
  <2>2. ASSUME NEW i \in 0 .. Count(b) - 1
        PROVE  Block(c, i) = Block(b, i) /\ LengthOf(c, i) >= LengthOf(b, i)
    <3>1. i + 1 \in 1 .. Len(b.blocks) /\ i + 1 \in DOMAIN b.layout.entries
      BY <1>8
    <3> QED BY <1>1, <1>5, <1>7, <3>1 DEF Block, LengthOf, Keeps
  <2> QED BY <2>1, <2>2 DEF Extends
<1>10. ASSUME NEW i \in Count(b) .. Count(c) - 1 PROVE Block(c, i) = NoContent
  <2>1. i - Count(b) + 1 \in 1 .. n /\ Len(b.blocks) + (i - Count(b) + 1) = i + 1
    BY <1>8
  <2> QED BY <1>5, <1>7, <2>1 DEF Block
<1> QED BY <1>1, <1>2, <1>7, <1>8, <1>9, <1>10 DEF Open, c

(* The trailer moved to the end. *)
LEMMA TrailerMoved ==
  ASSUME NEW b, Open(b)
  PROVE  LET c == WithTrailerMoved(b)
         IN /\ Readable(c.layout) /\ IsFile(c) /\ c.layout \in Layouts
            /\ Extends(b, c) /\ Count(c) = Count(b) /\ c.variables = b.variables
<1> DEFINE l == RelocateTrailer(b.layout)
           c == WithTrailerMoved(b)
<1>1. /\ Readable(l) /\ l \in Layouts /\ Len(l.entries) = Len(b.layout.entries)
      /\ \A i \in DOMAIN b.layout.entries : l.entries[i].length = b.layout.entries[i].length
  BY RelocatedIsReadable DEF Open
<1>2. c = [b EXCEPT !.layout = l]
  BY DEF WithTrailerMoved
<1> HIDE DEF l, c
<1>3. c = FileFrom(l, b.blocks, b.variables)
  BY <1>2, FieldChanged DEF Open
<1>4. IsFile(c) /\ c.layout = l /\ c.blocks = b.blocks /\ c.variables = b.variables
  BY <1>1, <1>3, FileFields DEF Open, IsFile
<1>5. Count(c) = Count(b) /\ Count(b) \in Nat
  BY <1>4, FileNumbers DEF Count
<1>6. ASSUME NEW i \in 0 .. Count(b) - 1
      PROVE  Block(c, i) = Block(b, i) /\ LengthOf(c, i) >= LengthOf(b, i)
  <2>1. i + 1 \in DOMAIN b.layout.entries /\ LengthOf(b, i) \in Nat
    BY FileNumbers
  <2>2. Block(c, i) = Block(b, i) /\ LengthOf(c, i) = LengthOf(b, i)
    BY <1>1, <1>4, <2>1 DEF Block, LengthOf
  <2> QED BY <2>1, <2>2
<1>7. Extends(b, c)
  BY <1>5, <1>6 DEF Extends
<1> QED BY <1>1, <1>4, <1>5, <1>7 DEF c

-----------------------------------------------------------------------------
(* The variables of that name. *)
Named(b, name) == {k \in DOMAIN b.variables : b.variables[k].name = name}

Absent(b, name) == Named(b, name) = {}

(* A variable that is new is found, and no other comes with it. *)
LEMMA VariableFound ==
  ASSUME NEW b, IsSeq(b.variables), NEW name, NEW i, NEW c,
         c.variables = Append(b.variables, [name |-> name, index |-> i])
  PROVE  /\ Absent(b, name) => VariableGet(c, name) = i
         /\ \A other : other # name /\ Absent(b, other) => Absent(c, other)
         /\ \A other : other # name => VariableGet(c, other) = VariableGet(b, other)
<1> DEFINE v == [name |-> name, index |-> i]
           n == Len(b.variables)
<1>1. /\ IsSeq(c.variables) /\ Len(c.variables) = n + 1 /\ n \in Nat
      /\ c.variables[n + 1] = v /\ \A j \in 1..n : c.variables[j] = b.variables[j]
  BY Appended
<1>2. DOMAIN b.variables = 1..n /\ DOMAIN c.variables = 1 .. n + 1
  BY <1>1, SeqOfItsElements DEF IsSeq
<1>3. v.name = name /\ v.index = i
  OBVIOUS
<1> HIDE DEF v, n
<1>4. \A k \in DOMAIN c.variables : k = n + 1 \/ k \in DOMAIN b.variables
  BY <1>1, <1>2
<1>5. ASSUME Absent(b, name) PROVE VariableGet(c, name) = i
  <2>1. Named(c, name) = {n + 1}
    BY <1>1, <1>2, <1>3, <1>4, <1>5 DEF Named, Absent
  <2>2. Min({n + 1}) = n + 1
    BY <1>1 DEF Min
  <2>3. Named(c, name) # {}
    BY <2>1
  <2> QED BY <1>1, <1>3, <2>1, <2>2, <2>3 DEF VariableGet, Named
<1>6. ASSUME NEW other, other # name, Absent(b, other) PROVE Absent(c, other)
  BY <1>1, <1>2, <1>3, <1>4, <1>6 DEF Named, Absent
<1>7. ASSUME NEW other, other # name PROVE VariableGet(c, other) = VariableGet(b, other)
  <2> DEFINE hits == Named(b, other)
  <2>1. Named(c, other) = hits
    BY <1>1, <1>2, <1>3, <1>4, <1>7 DEF Named
  <2>2. hits \subseteq 1..n
    BY <1>2 DEF Named
  <2>3. /\ VariableGet(b, other) = IF hits = {} THEN -1 ELSE b.variables[Min(hits)].index
        /\ VariableGet(c, other) = IF hits = {} THEN -1 ELSE c.variables[Min(hits)].index
    BY <2>1 DEF VariableGet, Named
  <2> HIDE DEF hits
  <2>4. CASE hits # {}
    <3>1. hits \subseteq Nat
      BY <1>1, <2>2
    <3>2. Min(hits) \in 1..n
      BY <2>2, <2>4, <3>1, MinOfNaturals
    <3> QED BY <1>1, <2>3, <3>2
  <2> QED BY <2>3, <2>4
<1> QED BY <1>5, <1>6, <1>7

(* The tree of that name is there, and its leaf has bytes. *)
TreeReady(b, name) ==
  /\ VariableGet(b, name) \in 0 .. Count(b) - 1
  /\ "child" \in DOMAIN Block(b, VariableGet(b, name))
  /\ ChildIndex(b, name) \in 0 .. Count(b) - 1
  /\ ChildIndex(b, name) # VariableGet(b, name)
  /\ LengthOf(b, ChildIndex(b, name)) > 0

(* It stays ready in a file that has more, and the same variables. *)
LEMMA ReadyStays ==
  ASSUME NEW b, Open(b), NEW c, Open(c), Extends(b, c), c.variables = b.variables, NEW name,
         TreeReady(b, name)
  PROVE  /\ TreeReady(c, name) /\ VariableGet(c, name) = VariableGet(b, name)
         /\ ChildIndex(c, name) = ChildIndex(b, name)
<1>1. VariableGet(c, name) = VariableGet(b, name)
  BY DEF VariableGet
<1>2. Count(b) \in Nat /\ Count(c) \in Nat /\ Count(b) <= Count(c)
  BY FileNumbers DEF Extends
<1> DEFINE t == VariableGet(b, name)  k == ChildIndex(b, name)
<1>3. t \in 0 .. Count(b) - 1 /\ k \in 0 .. Count(b) - 1 /\ k # t
      /\ "child" \in DOMAIN Block(b, t) /\ LengthOf(b, k) > 0
  BY DEF TreeReady
<1>4. Block(c, t) = Block(b, t) /\ LengthOf(c, k) >= LengthOf(b, k)
  BY <1>3 DEF Extends
<1>5. ChildIndex(c, name) = k
  BY <1>1, <1>4 DEF ChildIndex, TreeIndex
<1> HIDE DEF t, k
<1>6. t \in 0 .. Count(c) - 1 /\ k \in 0 .. Count(c) - 1
  BY <1>2, <1>3
<1>7. LengthOf(c, k) > 0
  <2>1. LengthOf(b, k) \in Nat /\ LengthOf(c, k) \in Nat
    BY <1>3, <1>6, FileNumbers
  <2> QED BY <1>3, <1>4, <2>1
<1> QED BY <1>1, <1>3, <1>4, <1>5, <1>6, <1>7 DEF TreeReady, t, k

(* One file after another. *)
LEMMA ExtendsTwice ==
  ASSUME NEW a, Open(a), NEW b, Open(b), NEW c, Open(c), Extends(a, b), Extends(b, c)
  PROVE  Extends(a, c)
<1>1. Count(a) \in Nat /\ Count(b) \in Nat /\ Count(c) \in Nat
      /\ Count(a) <= Count(b) /\ Count(b) <= Count(c)
  BY FileNumbers DEF Extends
<1>2. ASSUME NEW i \in 0 .. Count(a) - 1
      PROVE  Block(c, i) = Block(a, i) /\ LengthOf(c, i) >= LengthOf(a, i)
  <2>1. i \in 0 .. Count(b) - 1 /\ i \in 0 .. Count(c) - 1
    BY <1>1
  <2>2. LengthOf(a, i) \in Nat /\ LengthOf(b, i) \in Nat /\ LengthOf(c, i) \in Nat
    BY <2>1, FileNumbers
  <2>3. /\ Block(b, i) = Block(a, i) /\ LengthOf(b, i) >= LengthOf(a, i)
        /\ Block(c, i) = Block(b, i) /\ LengthOf(c, i) >= LengthOf(b, i)
    BY <2>1 DEF Extends
  <2> QED BY <2>2, <2>3
<1> QED BY <1>1, <1>2 DEF Extends

(* bom_tree_alloc_empty. *)
LEMMA TreeMade ==
  ASSUME NEW b, Open(b), SoundLayout(b.layout), NEW name, NameLength(name) \in Nat,
         Absent(b, name)
  PROVE  LET c == TreeAllocEmpty(b, name)
         IN /\ Open(c) /\ SoundLayout(c.layout) /\ TreeReady(c, name)
            /\ \A other : other # name /\ Absent(b, other) => Absent(c, other)
            /\ Extends(b, c) /\ Count(c) = Count(b) + 2
            /\ c.variables = Append(b.variables, [name |-> name, index |-> Count(b) + 1])
            /\ \A other : other # name => VariableGet(c, other) = VariableGet(b, other)
            /\ VariableGet(c, name) = Count(b) + 1 /\ ChildIndex(c, name) = Count(b)
            /\ Block(c, Count(b)) = EmptyLeaf /\ LengthOf(c, Count(b)) >= NodeSize
            /\ Block(c, Count(b) + 1) = [child |-> Count(b), path_count |-> 0]
<1> DEFINE content == [child |-> ChildOfEmpty(b), path_count |-> 0]
           leaf == WithBlock(b, EmptyLeaf, NodeSize)
           tree == WithBlock(leaf, content, TreeSize)
           c == TreeAllocEmpty(b, name)
<1>1. NodeSize \in Nat /\ NodeSize > 0 /\ TreeSize \in Nat
  BY SizesAssumption DEF LeafHeaderSize, TreeSize
<1>2. c = WithVariable(tree, name, Count(leaf))
  BY DEF TreeAllocEmpty
<1>3. content.child = Count(b) /\ "child" \in DOMAIN content
      /\ content = [child |-> Count(b), path_count |-> 0]
  BY DEF ChildOfEmpty
<1> HIDE DEF content
<1>4. /\ Open(leaf) /\ SoundLayout(leaf.layout) /\ leaf.variables = b.variables
      /\ Count(leaf) = Count(b) + 1 /\ LengthOf(leaf, Count(b)) = NodeSize
      /\ Extends(b, leaf) /\ Block(leaf, Count(b)) = EmptyLeaf
  BY <1>1, BlockAdded
<1> HIDE DEF leaf
<1>5. /\ Open(tree) /\ SoundLayout(tree.layout) /\ tree.variables = b.variables
      /\ Count(tree) = Count(leaf) + 1 /\ Extends(leaf, tree)
      /\ Block(tree, Count(leaf)) = content
  BY <1>1, <1>4, BlockAdded
<1> HIDE DEF tree, c
<1>6. /\ Open(c) /\ SoundLayout(c.layout) /\ Extends(tree, c) /\ Count(c) = Count(tree)
      /\ c.variables = Append(b.variables, [name |-> name, index |-> Count(leaf)])
  <2> DEFINE i == Count(leaf)
             d == WithVariable(tree, name, i)
  <2>1. Open(tree) /\ SoundLayout(tree.layout)
    BY <1>5
  <2> HIDE DEF i
  <2>2. /\ Open(d) /\ SoundLayout(d.layout) /\ Extends(tree, d) /\ Count(d) = Count(tree)
        /\ d.variables = Append(tree.variables, [name |-> name, index |-> i])
    BY <2>1, VariableAdded
  <2>3. c = d
    BY <1>2 DEF i
  <2> HIDE DEF d
  <2> QED BY <1>5, <2>2, <2>3 DEF i
<1>7. /\ VariableGet(c, name) = Count(leaf)
      /\ \A other : other # name /\ Absent(b, other) => Absent(c, other)
      /\ \A other : other # name => VariableGet(c, other) = VariableGet(b, other)
  <2>1. IsSeq(b.variables)
    BY DEF Open, IsFile
  <2> QED BY <1>6, <2>1, VariableFound
<1>8. /\ Count(b) \in Nat /\ Count(leaf) = Count(b) + 1 /\ Count(c) = Count(b) + 2
      /\ Count(tree) = Count(b) + 2
  BY <1>4, <1>5, <1>6, FileNumbers
<1>9. Block(c, Count(leaf)) = content
  <2>1. Count(leaf) \in 0 .. Count(tree) - 1
    BY <1>8
  <2> QED BY <1>5, <1>6, <2>1 DEF Extends
<1>10. ChildIndex(c, name) = Count(b)
  BY <1>3, <1>7, <1>9 DEF ChildIndex, TreeIndex
<1>11. LengthOf(c, Count(b)) >= NodeSize /\ LengthOf(c, Count(b)) > 0
       /\ Block(c, Count(b)) = EmptyLeaf
  <2>1. /\ Count(b) \in 0 .. Count(leaf) - 1 /\ Count(b) \in 0 .. Count(tree) - 1
        /\ Count(b) \in 0 .. Count(c) - 1
    BY <1>8
  <2>2. /\ LengthOf(tree, Count(b)) >= LengthOf(leaf, Count(b))
        /\ LengthOf(c, Count(b)) >= LengthOf(tree, Count(b))
        /\ Block(tree, Count(b)) = Block(leaf, Count(b))
        /\ Block(c, Count(b)) = Block(tree, Count(b))
    BY <1>5, <1>6, <2>1 DEF Extends
  <2>3. LengthOf(tree, Count(b)) \in Nat /\ LengthOf(c, Count(b)) \in Nat
    BY <1>5, <1>6, <2>1, FileNumbers
  <2> QED BY <1>1, <1>4, <2>2, <2>3
<1>12. TreeReady(c, name)
  <2>1. Count(leaf) \in 0 .. Count(c) - 1 /\ Count(b) \in 0 .. Count(c) - 1
        /\ Count(b) # Count(leaf)
    BY <1>8
  <2> QED BY <1>3, <1>7, <1>9, <1>10, <1>11, <2>1 DEF TreeReady
<1>13. Extends(b, c)
  <2>1. Extends(b, tree)
    BY <1>4, <1>5, ExtendsTwice
  <2> QED BY <1>5, <1>6, <2>1, ExtendsTwice
<1>14. Block(c, Count(b) + 1) = [child |-> Count(b), path_count |-> 0]
  BY <1>3, <1>8, <1>9
<1>15. /\ VariableGet(c, name) = Count(b) + 1
       /\ c.variables = Append(b.variables, [name |-> name, index |-> Count(b) + 1])
  BY <1>6, <1>7, <1>8
<1> HIDE DEF TreeReady, Absent
<1> QED BY <1>6, <1>7, <1>8, <1>10, <1>11, <1>12, <1>13, <1>14, <1>15 DEF c

(* bom_tree_reserve. *)
LEMMA TreeReserved ==
  ASSUME NEW b, Open(b), SoundLayout(b.layout), NEW name, TreeReady(b, name), NEW n \in Nat
  PROVE  LET c == TreeReserve(b, name, n)
         IN /\ Open(c) /\ SoundLayout(c.layout) /\ TreeReady(c, name)
            /\ c.variables = b.variables
            /\ Extends(b, c) /\ Count(c) = Count(b)
            /\ VariableGet(c, name) = VariableGet(b, name)
            /\ ChildIndex(c, name) = ChildIndex(b, name)
            /\ LengthOf(c, ChildIndex(b, name)) = LengthOf(b, ChildIndex(b, name)) + SlotSize * n
<1> DEFINE k == ChildIndex(b, name)
           more == Reserved(LengthOf(b, k), n) - LengthOf(b, k)
           c == TreeReserve(b, name, n)
<1>1. k \in 0 .. Count(b) - 1 /\ LengthOf(b, k) > 0
  BY DEF TreeReady
<1>2. more \in Nat /\ more = SlotSize * n
  <2>1. LengthOf(b, k) \in Nat
    BY <1>1, FileNumbers
  <2>2. \A x, y \in Nat : x + 8 * y - x \in Nat /\ x + 8 * y - x = 8 * y
    OBVIOUS
  <2> QED BY <2>1, <2>2 DEF Reserved, SlotSize
<1>3. c = Lengthened(b, k, more)
  BY DEF TreeReserve
<1> HIDE DEF k, more, c
<1>4. /\ Open(c) /\ SoundLayout(c.layout) /\ Extends(b, c) /\ c.variables = b.variables
      /\ Count(c) = Count(b) /\ LengthOf(c, k) = LengthOf(b, k) + SlotSize * n
  BY <1>1, <1>2, <1>3, BlockLengthened
<1>5. /\ TreeReady(c, name) /\ VariableGet(c, name) = VariableGet(b, name)
      /\ ChildIndex(c, name) = ChildIndex(b, name)
  BY <1>4, ReadyStays
<1> HIDE DEF TreeReady
<1> QED BY <1>4, <1>5 DEF c, k

WithNodes(b, name, root, leaf) ==
  [b EXCEPT !.blocks = [b.blocks EXCEPT ![VariableGet(b, name) + 1] = root,
                                        ![ChildIndex(b, name) + 1] = leaf]]

(* The root and the leaf of a tree with other contents, of which the root  *)
(* keeps its child.                                                        *)
LEMMA NodesChanged ==
  ASSUME NEW b, Open(b), SoundLayout(b.layout), NEW name, TreeReady(b, name),
         NEW root, "child" \in DOMAIN root, root.child = ChildIndex(b, name), NEW leaf
  PROVE  LET c == WithNodes(b, name, root, leaf)
         IN /\ Open(c) /\ SoundLayout(c.layout) /\ TreeReady(c, name)
            /\ c.variables = b.variables /\ Count(c) = Count(b)
            /\ VariableGet(c, name) = VariableGet(b, name)
            /\ ChildIndex(c, name) = ChildIndex(b, name)
            /\ Block(c, VariableGet(b, name)) = root /\ Block(c, ChildIndex(b, name)) = leaf
            /\ \A i \in 0 .. Count(b) - 1 :
                 /\ LengthOf(c, i) = LengthOf(b, i)
                 /\ i \notin {VariableGet(b, name), ChildIndex(b, name)} => Block(c, i) = Block(b, i)
<1> DEFINE t == VariableGet(b, name)
           k == ChildIndex(b, name)
           s == WithAt(WithAt(b.blocks, t + 1, root), k + 1, leaf)
           c == WithNodes(b, name, root, leaf)
<1>1. /\ t \in 0 .. Count(b) - 1 /\ k \in 0 .. Count(b) - 1 /\ k # t /\ LengthOf(b, k) > 0
  BY DEF TreeReady
<1>2. root.child = k
  OBVIOUS
<1>3. c = [b EXCEPT !.blocks = s]
  BY Zenon DEF WithNodes, WithAt
<1> HIDE DEF t, k, c
<1>4. /\ Count(b) = Len(b.blocks) /\ Count(b) \in Nat
  BY FileNumbers
<1>5. t + 1 \in 1 .. Len(b.blocks) /\ k + 1 \in 1 .. Len(b.blocks) /\ t + 1 # k + 1
  BY <1>1, <1>4
<1>6. IsSeq(b.blocks) /\ IsSeq(b.variables) /\ IsFile(b)
      /\ Len(b.layout.entries) = Len(b.blocks)
  BY DEF Open, IsFile
<1>7. /\ IsSeq(s) /\ Len(s) = Len(b.blocks) /\ s[t + 1] = root /\ s[k + 1] = leaf
      /\ \A j \in 1 .. Len(b.blocks) : j # t + 1 /\ j # k + 1 => s[j] = b.blocks[j]
  <2> DEFINE r == WithAt(b.blocks, t + 1, root)
  <2>1. /\ IsSeq(r) /\ Len(r) = Len(b.blocks) /\ r[t + 1] = root
        /\ \A j \in 1 .. Len(b.blocks) : j # t + 1 => r[j] = b.blocks[j]
    BY <1>5, <1>6, Replaced
  <2> HIDE DEF r
  <2>2. /\ IsSeq(WithAt(r, k + 1, leaf)) /\ Len(WithAt(r, k + 1, leaf)) = Len(r)
        /\ WithAt(r, k + 1, leaf)[k + 1] = leaf
        /\ \A j \in 1 .. Len(r) : j # k + 1 => WithAt(r, k + 1, leaf)[j] = r[j]
    BY <1>5, <2>1, Replaced
  <2> QED BY <1>5, <2>1, <2>2 DEF r
<1> HIDE DEF s
<1>8. c = FileFrom(b.layout, s, b.variables)
  BY <1>3, <1>6, FieldChanged
<1>9. /\ IsFile(c) /\ c.layout = b.layout /\ c.blocks = s /\ c.variables = b.variables
  BY <1>6, <1>7, <1>8, FileFields
<1>10. /\ Count(c) = Count(b) /\ VariableGet(c, name) = t /\ Block(c, t) = root
       /\ LengthOf(c, k) = LengthOf(b, k) /\ Block(c, k) = leaf
  BY <1>4, <1>7, <1>9 DEF Count, VariableGet, Block, LengthOf, t
<1>11. ChildIndex(c, name) = k
  BY <1>2, <1>10 DEF ChildIndex, TreeIndex
<1>12. TreeReady(c, name)
  BY <1>1, <1>10, <1>11 DEF TreeReady
<1>13. ASSUME NEW i \in 0 .. Count(b) - 1
       PROVE  LengthOf(c, i) = LengthOf(b, i) /\ (i \notin {t, k} => Block(c, i) = Block(b, i))
  <2>1. LengthOf(c, i) = LengthOf(b, i)
    BY <1>9 DEF LengthOf
  <2>2. ASSUME i \notin {t, k} PROVE Block(c, i) = Block(b, i)
    <3>1. i + 1 \in 1 .. Len(b.blocks) /\ i + 1 # t + 1 /\ i + 1 # k + 1
      BY <1>1, <1>4, <2>2
    <3> QED BY <1>7, <1>9, <3>1 DEF Block
  <2> QED BY <2>1, <2>2
<1> HIDE DEF TreeReady
<1> QED BY <1>9, <1>10, <1>11, <1>12, <1>13 DEF Open, c, t, k

(* What bom_tree_add makes of the two nodes. *)
RootCounted(root) == [root EXCEPT !.path_count = root.path_count + 1]

LeafWith(leaf, place, entry) == [leaf EXCEPT !.entries = With(leaf.entries, place, entry)]

(* The blocks of c are those of b, but for the nodes of the tree, and two  *)
(* more.                                                                   *)
HasEntry(b, c, name, key, value, place) ==
  LET t == VariableGet(b, name)
      k == ChildIndex(b, name)
  IN /\ Count(c) = Count(b) + 2 /\ ChildIndex(c, name) = k
     /\ Block(c, t) = RootCounted(Block(b, t))
     /\ Block(c, k) = LeafWith(Block(b, k), place, [value |-> Count(b) + 1, key |-> Count(b)])
     /\ Block(c, Count(b)) = [bytes |-> key] /\ Block(c, Count(b) + 1) = value
     /\ \A i \in 0 .. Count(b) - 1 :
          /\ LengthOf(c, i) >= LengthOf(b, i)
          /\ i \notin {t, k} => Block(c, i) = Block(b, i)

(* bom_tree_add. *)
LEMMA EntryAdded ==
  ASSUME NEW b, Open(b), SoundLayout(b.layout), NEW name, TreeReady(b, name),
         NEW key, Len(key) \in Nat, NEW value, NEW length \in Nat, NEW place
  PROVE  LET c == TreeAdd(b, name, key, value, length, place)
         IN /\ Open(c) /\ SoundLayout(c.layout) /\ TreeReady(c, name)
            /\ c.variables = b.variables /\ HasEntry(b, c, name, key, value, place)
<1> DEFINE half == WithBlock(b, [bytes |-> key], Len(key))
           added == WithBlock(half, value, length)
           k == ChildIndex(b, name)
           t == VariableGet(b, name)
           old == Block(b, t)
           leaf == Block(b, k)
           more == Grown(Len(leaf.entries), LengthOf(b, k)) - LengthOf(b, k)
           grown == IF more > 0 THEN Lengthened(added, k, more) ELSE added
           root == RootCounted(old)
           entry == [value |-> Count(b) + 1, key |-> Count(b)]
           new == LeafWith(leaf, place, entry)
           c == TreeAdd(b, name, key, value, length, place)
<1>1. c = [grown EXCEPT !.blocks = [grown.blocks EXCEPT ![t + 1] = root, ![k + 1] = new]]
  BY DEF TreeAdd, TreeIndex, RootCounted, LeafWith
<1>2. "child" \in DOMAIN root /\ root.child = k
  <2>1. "child" \in DOMAIN old /\ old.child = k
    BY DEF TreeReady, ChildIndex, TreeIndex
  <2> HIDE DEF old, k
  <2> QED BY <2>1 DEF RootCounted
<1>3. more \in {0, 8}
  <2>1. LengthOf(b, k) \in Nat
    BY FileNumbers DEF TreeReady
  <2> QED BY <2>1 DEF Grown, SlotSize
<1>4. /\ Open(half) /\ SoundLayout(half.layout) /\ Extends(b, half)
      /\ half.variables = b.variables
      /\ Count(half) = Count(b) + 1 /\ Block(half, Count(b)) = [bytes |-> key]
  BY BlockAdded
<1> HIDE DEF half
<1>5. /\ Open(added) /\ SoundLayout(added.layout) /\ Extends(half, added)
      /\ added.variables = half.variables
      /\ Count(added) = Count(half) + 1 /\ Block(added, Count(half)) = value
  BY <1>4, BlockAdded
<1> HIDE DEF added, root, new, more, c
<1>6. Extends(b, added) /\ added.variables = b.variables
  BY <1>4, <1>5, ExtendsTwice
<1>7. /\ TreeReady(added, name) /\ ChildIndex(added, name) = k /\ VariableGet(added, name) = t
  BY <1>5, <1>6, ReadyStays
<1>8. /\ Count(b) \in Nat /\ Count(half) = Count(b) + 1 /\ Count(added) = Count(b) + 2
      /\ t \in 0 .. Count(b) - 1 /\ k \in 0 .. Count(b) - 1
  BY <1>4, <1>5, FileNumbers DEF TreeReady
<1>9. Block(added, Count(b)) = [bytes |-> key] /\ Block(added, Count(b) + 1) = value
  <2>1. Count(b) \in 0 .. Count(half) - 1
    BY <1>8
  <2> QED BY <1>4, <1>5, <1>8, <2>1 DEF Extends
<1> HIDE DEF k, t
<1>10. /\ Open(grown) /\ SoundLayout(grown.layout) /\ TreeReady(grown, name)
       /\ ChildIndex(grown, name) = k /\ VariableGet(grown, name) = t
       /\ grown.variables = b.variables
       /\ Extends(b, grown) /\ Count(grown) = Count(b) + 2
       /\ Block(grown, Count(b)) = [bytes |-> key] /\ Block(grown, Count(b) + 1) = value
  <2>1. CASE more > 0
    <3> DEFINE g == Lengthened(added, k, more)
    <3>1. k \in 0 .. Count(added) - 1 /\ LengthOf(added, k) > 0 /\ more \in Nat
      BY <1>3, <1>7 DEF TreeReady
    <3>2. /\ Open(g) /\ SoundLayout(g.layout) /\ Extends(added, g)
          /\ g.variables = added.variables /\ Count(g) = Count(added)
      BY <1>5, <3>1, BlockLengthened
    <3> HIDE DEF g
    <3>3. /\ TreeReady(g, name) /\ ChildIndex(g, name) = k /\ VariableGet(g, name) = t
      BY <1>5, <1>7, <3>2, ReadyStays
    <3>4. grown = g
      BY <2>1 DEF g
    <3>5. Extends(b, g)
      BY <1>5, <1>6, <3>2, ExtendsTwice
    <3>6. Block(g, Count(b)) = [bytes |-> key] /\ Block(g, Count(b) + 1) = value
      <4>1. Count(b) \in 0 .. Count(added) - 1 /\ Count(b) + 1 \in 0 .. Count(added) - 1
        BY <1>8
      <4> QED BY <1>9, <3>2, <4>1 DEF Extends
    <3> HIDE DEF TreeReady
    <3> QED BY <1>6, <1>8, <3>2, <3>3, <3>4, <3>5, <3>6
  <2>2. CASE ~(more > 0)
    <3>1. grown = added
      BY <2>2
    <3> HIDE DEF grown, TreeReady
    <3> QED BY <1>5, <1>6, <1>7, <1>8, <1>9, <3>1
  <2> QED BY <2>1, <2>2
<1> HIDE DEF grown
<1>11. /\ Open(c) /\ SoundLayout(c.layout) /\ TreeReady(c, name)
       /\ c.variables = grown.variables /\ Count(c) = Count(grown)
       /\ ChildIndex(c, name) = ChildIndex(grown, name)
       /\ Block(c, VariableGet(grown, name)) = root /\ Block(c, ChildIndex(grown, name)) = new
       /\ \A i \in 0 .. Count(grown) - 1 :
            /\ LengthOf(c, i) = LengthOf(grown, i)
            /\ i \notin {VariableGet(grown, name), ChildIndex(grown, name)} =>
                 Block(c, i) = Block(grown, i)
  <2>1. c = WithNodes(grown, name, root, new)
    BY <1>1, <1>10, Zenon DEF WithNodes
  <2>2. root.child = ChildIndex(grown, name)
    BY <1>2, <1>10
  <2> QED BY <1>2, <1>10, <2>1, <2>2, NodesChanged
<1>12. ASSUME NEW i \in 0 .. Count(b) - 1
       PROVE  LengthOf(c, i) >= LengthOf(b, i) /\ (i \notin {t, k} => Block(c, i) = Block(b, i))
  <2>1. i \in 0 .. Count(grown) - 1
    BY <1>8, <1>10
  <2>2. LengthOf(grown, i) >= LengthOf(b, i) /\ Block(grown, i) = Block(b, i)
    BY <1>10 DEF Extends
  <2> QED BY <1>10, <1>11, <2>1, <2>2
<1>13. Block(c, Count(b)) = [bytes |-> key] /\ Block(c, Count(b) + 1) = value
  <2>1. /\ Count(b) \in 0 .. Count(grown) - 1 /\ Count(b) + 1 \in 0 .. Count(grown) - 1
        /\ Count(b) \notin {t, k} /\ Count(b) + 1 \notin {t, k}
    BY <1>8, <1>10
  <2> QED BY <1>10, <1>11, <2>1
<1>14. /\ Block(c, t) = root /\ Block(c, k) = new /\ ChildIndex(c, name) = k
       /\ Count(c) = Count(b) + 2 /\ c.variables = b.variables
  BY <1>10, <1>11
<1> HIDE DEF TreeReady
<1>15. HasEntry(b, c, name, key, value, place)
  BY <1>12, <1>13, <1>14 DEF HasEntry, t, k, root, new
<1> QED BY <1>11, <1>14, <1>15 DEF c

-----------------------------------------------------------------------------
(* A function on 1..n has the length n. *)
LEMMA LengthOfFunction ==
  ASSUME NEW n \in Nat, NEW f, DOMAIN f = 1..n, f = [i \in DOMAIN f |-> f[i]]
  PROVE  Len(f) = n
<1> DEFINE S == {f[i] : i \in 1..n}
<1>1. f \in [1..n -> S]
  OBVIOUS
<1> HIDE DEF S
<1>2. f \in Seq(S)
  BY <1>1, SeqDef
<1>3. DOMAIN f = 1 .. Len(f) /\ Len(f) \in Nat
  BY <1>2, LenProperties
<1> QED BY <1>3

(* Of an ordered set there are as many elements in order as it has. *)
LEMMA AscendingLength ==
  ASSUME NEW S, IsFiniteSet(S)
  PROVE  /\ Len(Ascending(S)) \in Nat /\ DOMAIN Ascending(S) = 1 .. Len(Ascending(S))
<1>1. Cardinality(S) \in Nat
  BY FS_CardinalityType
<1>2. /\ DOMAIN Ascending(S) = 1 .. Cardinality(S)
      /\ Ascending(S) = [i \in DOMAIN Ascending(S) |-> Ascending(S)[i]]
  <2> DEFINE nth(i) == CHOOSE id \in S : Cardinality({k \in S : k < id}) = i - 1
  <2>1. Ascending(S) = [i \in 1 .. Cardinality(S) |-> nth(i)]
    BY DEF Ascending
  <2> HIDE DEF nth
  <2> QED BY <2>1
<1> DEFINE f == Ascending(S)
<1> HIDE DEF f
<1>3. Len(f) = Cardinality(S)
  BY <1>1, <1>2, LengthOfFunction DEF f
<1> QED BY <1>1, <1>2, <1>3 DEF f

(* The keys of renditions, for a sequence of values. *)
LEMMA KeyLength ==
  ASSUME NEW values, Len(values) \in Nat
  PROVE  Len(KeyBytes(values)) \in Nat
<1> DEFINE n == 2 * Len(values)
           f == KeyBytes(values)
<1>1. n \in Nat
  OBVIOUS
<1>2. DOMAIN f = 1..n /\ f = [i \in DOMAIN f |-> f[i]]
  BY DEF KeyBytes
<1> HIDE DEF n, f
<1>3. Len(f) = n
  BY <1>1, <1>2, LengthOfFunction
<1> QED BY <1>1, <1>3 DEF f

(* The values for a key format. *)
LEMMA ValuesLength ==
  ASSUME NEW format, Len(format) \in Nat, DOMAIN format = 1 .. Len(format), NEW attributes
  PROVE  Len(ValuesOf(attributes, format)) \in Nat
<1> DEFINE f == ValuesOf(attributes, format)
<1>1. DOMAIN f = 1 .. Len(format) /\ f = [i \in DOMAIN f |-> f[i]]
  BY DEF ValuesOf
<1> HIDE DEF f
<1>2. Len(f) = Len(format)
  BY <1>1, LengthOfFunction
<1> QED BY <1>2 DEF f

(* The pairs of a facet. *)
LEMMA PairsLength ==
  ASSUME NEW attributes \in AttributeLists
  PROVE  Len(PairsOf(attributes)) \in Nat
<1> DEFINE ids == Ascending(DOMAIN attributes)
           f == PairsOf(attributes)
<1>1. IsFiniteSet(DOMAIN attributes)
  <2>1. DOMAIN attributes \subseteq UNION {DOMAIN a : a \in AttributeLists}
    OBVIOUS
  <2> QED BY <2>1, CatalogAssumption, FS_Subset
<1>2. Len(ids) \in Nat /\ DOMAIN ids = 1 .. Len(ids)
  BY <1>1, AscendingLength
<1>3. DOMAIN f = DOMAIN ids /\ f = [i \in DOMAIN f |-> f[i]]
  BY DEF PairsOf
<1> HIDE DEF ids, f
<1>4. Len(f) = Len(ids)
  BY <1>2, <1>3, LengthOfFunction
<1> QED BY <1>2, <1>4 DEF f

(* What was added, as far as the sizes in the file depend on it. *)
Input ==
  /\ IsFiniteSet(DOMAIN facets) /\ DOMAIN facets \subseteq Names
  /\ \A n \in DOMAIN facets : facets[n] \in AttributeLists
  /\ IsSeq(renditions) /\ \A k \in DOMAIN renditions : renditions[k].attributes \in AttributeLists
  /\ IsSeq(rawRenditions) /\ \A k \in DOMAIN rawRenditions : Len(rawRenditions[k].key) \in Nat
  /\ keyfmt \in KeyFormats \cup {NoFormat}

(* The counts of what was added, and the length of the key format.         *)
LEMMA InputSizes ==
  ASSUME Input
  PROVE  /\ FacetCount \in Nat /\ RenditionCount \in Nat /\ IndexCount \in Nat
         /\ Len(FormatToWrite) \in Nat /\ DOMAIN FormatToWrite = 1 .. Len(FormatToWrite)
<1>1. FacetCount \in Nat
  BY FS_CardinalityType DEF FacetCount, Input
<1>2. Len(renditions) \in Nat /\ Len(rawRenditions) \in Nat
  BY SeqOfItsElements DEF Input, IsSeq
<1>3. RenditionCount \in Nat
  BY <1>2 DEF RenditionCount
<1>4. IndexCount \in Nat
  BY <1>1, <1>3 DEF IndexCount
<1>5. CASE keyfmt # NoFormat
  <2>1. FormatToWrite = keyfmt /\ keyfmt \in Seq(Nat)
    BY <1>5, CatalogAssumption DEF FormatToWrite, Input
  <2> QED BY <1>1, <1>3, <1>4, <2>1, LenProperties
<1>6. CASE keyfmt = NoFormat
  <2> DEFINE lists == {facets[n] : n \in DOMAIN facets}
                        \cup {renditions[k].attributes : k \in DOMAIN renditions}
             ids == UNION {DOMAIN a : a \in lists}
  <2>1. lists \subseteq AttributeLists
    BY DEF Input
  <2> HIDE DEF lists
  <2>2. ids \subseteq UNION {DOMAIN a : a \in AttributeLists}
    BY <2>1
  <2>3. IsFiniteSet(ids)
    BY <2>2, CatalogAssumption, FS_Subset
  <2>4. FormatToWrite = Ascending(ids)
    BY <1>6 DEF FormatToWrite, DetermineKeyFormat, lists
  <2> HIDE DEF ids
  <2> QED BY <1>1, <1>3, <1>4, <2>3, <2>4, AscendingLength
<1> QED BY <1>5, <1>6

-----------------------------------------------------------------------------
(* The states of a writer whose trees are not made yet, and of one that    *)
(* has not come to its last call.                                          *)
Before == {"collect", "header", "keyfmt", "facet tree"}
Writing == Before \cup {"facets", "renditions", "raw"}

(* The inductive invariant: the file is open, and sound while write() goes *)
(* on; the variables of the trees are new when they are made, and the tree *)
(* that entries go to is there.                                            *)
WriterInv ==
  /\ Input
  /\ pc \in Writing \cup {"written", "failed", "relocated"}
  /\ pc # "relocated" => Open(bom)
  /\ pc = "relocated" => Readable(bom.layout)
  /\ pc \in Writing => SoundLayout(bom.layout)
  /\ pc \in Before => Absent(bom, "FACETKEYS") /\ Absent(bom, "RENDITIONS")
  /\ pc = "facets" =>
       TreeReady(bom, "FACETKEYS") /\ Absent(bom, "RENDITIONS") /\ todo \subseteq DOMAIN facets
  /\ pc \in {"renditions", "raw"} => TreeReady(bom, "RENDITIONS")
  /\ pc = "raw" => todo \subseteq DOMAIN rawRenditions

(* The same variables have the same names. *)
LEMMA AbsentStays ==
  ASSUME NEW b, NEW c, c.variables = b.variables, NEW name, Absent(b, name)
  PROVE  Absent(c, name)
BY DEF Absent, Named

(* The names of variables have lengths. *)
LEMMA NameLengths ==
  \A name \in {"CARHEADER", "KEYFORMAT", "FACETKEYS", "RENDITIONS", "OTHER"} :
    NameLength(name) \in Nat
BY CatalogAssumption

(* It holds of a writer that is new. *)
LEMMA InitWriterInv == Init => WriterInv
<1> SUFFICES ASSUME Init PROVE WriterInv
  OBVIOUS
<1>1. /\ bom = FileFrom(EmptyLayout, << >>, << >>) /\ facets = << >> /\ renditions = << >>
      /\ rawRenditions = << >> /\ keyfmt \in KeyFormats \cup {NoFormat} /\ pc = "collect"
  BY DEF Init, EmptyFile, FileFrom
<1>2. IsSeq(<< >>)
  <2>1. << >> \in Seq(Nat)
    OBVIOUS
  <2> QED BY <2>1, SeqOfItsElements
<1>3. Input
  <2>1. DOMAIN facets = {} /\ DOMAIN renditions = {} /\ DOMAIN rawRenditions = {}
    BY <1>1
  <2>2. IsFiniteSet(DOMAIN facets)
    BY <2>1, FS_EmptySet
  <2> QED BY <1>1, <1>2, <2>1, <2>2 DEF Input
<1>4. SoundLayout(EmptyLayout) /\ Fits(EmptyLayout)
  BY EmptyIsSound, EmptyFits
<1>5. Len(EmptyLayout.entries) = Len(<< >>)
  BY DEF EmptyLayout
<1>6. IsFile(bom) /\ bom.layout = EmptyLayout /\ bom.variables = << >>
  BY <1>1, <1>2, <1>5, FileFields
<1>7. Absent(bom, "FACETKEYS") /\ Absent(bom, "RENDITIONS")
  BY <1>6 DEF Absent, Named
<1> QED BY <1>1, <1>3, <1>4, <1>6, <1>7 DEF WriterInv, Open, Writing, Before

(* Adding facets and renditions. *)
LEMMA CollectWriterInv == WriterInv /\ Collect => WriterInv'
<1> SUFFICES ASSUME WriterInv, Collect PROVE WriterInv'
  OBVIOUS
<1>1. Input
  BY DEF WriterInv
<1>2. bom' = bom /\ pc' = pc /\ todo' = todo /\ pc = "collect"
  BY DEF Collect, AddFacet, AddRendition, AddRawRendition
<1>3. Input'
  <2>1. ASSUME NEW name \in Names, NEW a \in AttributeLists, AddFacet(name, a) PROVE Input'
    <3>1. /\ DOMAIN facets' = DOMAIN facets \cup {name}
          /\ \A n \in DOMAIN facets' : facets'[n] \in AttributeLists
      BY <1>1, <2>1 DEF AddFacet, Input
    <3>2. IsFiniteSet(DOMAIN facets')
      BY <1>1, <3>1, FS_AddElement DEF Input
    <3>3. UNCHANGED << renditions, rawRenditions, keyfmt >>
      BY <2>1 DEF AddFacet
    <3> QED BY <1>1, <3>1, <3>2, <3>3 DEF Input
  <2>2. ASSUME NEW a \in AttributeLists, NEW p \in Payloads, AddRendition(a, p) PROVE Input'
    <3>1. UNCHANGED << facets, rawRenditions, keyfmt >>
      BY <2>2 DEF AddRendition
    <3>2. CASE renditions' = renditions
      BY <1>1, <3>1, <3>2 DEF Input
    <3>3. CASE renditions' = Append(renditions, [attributes |-> a, payload |-> p])
      <4> DEFINE r == [attributes |-> a, payload |-> p]
      <4>1. r.attributes = a
        OBVIOUS
      <4> HIDE DEF r
      <4>2. IsSeq(renditions)
        BY <1>1 DEF Input
      <4>3. /\ IsSeq(renditions') /\ Len(renditions') = Len(renditions) + 1
            /\ Len(renditions) \in Nat /\ renditions'[Len(renditions) + 1] = r
            /\ \A j \in 1 .. Len(renditions) : renditions'[j] = renditions[j]
        BY <3>3, <4>2, Appended DEF r
      <4>4. DOMAIN renditions = 1 .. Len(renditions) /\ DOMAIN renditions' = 1 .. Len(renditions')
        BY <4>2, <4>3, SeqOfItsElements DEF IsSeq
      <4>5. ASSUME NEW k \in DOMAIN renditions' PROVE renditions'[k].attributes \in AttributeLists
        <5>1. k = Len(renditions) + 1 \/ k \in 1 .. Len(renditions)
          BY <4>3, <4>4
        <5> QED BY <1>1, <4>1, <4>3, <4>4, <5>1 DEF Input
      <4> QED BY <1>1, <3>1, <4>3, <4>5 DEF Input
    <3> QED BY <2>2, <3>2, <3>3 DEF AddRendition
  <2>3. ASSUME NEW p \in Payloads, NEW values \in [DOMAIN keyfmt -> RawValues],
               AddRawRendition(values, p)
        PROVE  Input'
    <3>1. /\ UNCHANGED << facets, renditions, keyfmt >> /\ keyfmt # NoFormat
          /\ rawRenditions' = Append(rawRenditions, [key |-> KeyBytes(values), payload |-> p])
      BY <2>3 DEF AddRawRendition
    <3>2. keyfmt \in Seq(Nat)
      BY <1>1, <3>1, CatalogAssumption DEF Input
    <3>3. Len(values) \in Nat
      <4>1. DOMAIN keyfmt = 1 .. Len(keyfmt) /\ Len(keyfmt) \in Nat
        BY <3>2, LenProperties
      <4>2. DOMAIN values = DOMAIN keyfmt /\ values = [i \in DOMAIN values |-> values[i]]
        OBVIOUS
      <4>3. Len(values) = Len(keyfmt)
        BY <4>1, <4>2, LengthOfFunction
      <4> QED BY <4>1, <4>3
    <3>4. Len(KeyBytes(values)) \in Nat
      BY <3>3, KeyLength
    <3> DEFINE r == [key |-> KeyBytes(values), payload |-> p]
    <3>5. Len(r.key) \in Nat
      BY <3>4
    <3>6. rawRenditions' = Append(rawRenditions, r) /\ IsSeq(rawRenditions)
      BY <1>1, <3>1 DEF Input
    <3> HIDE DEF r
    <3>7. /\ IsSeq(rawRenditions') /\ Len(rawRenditions') = Len(rawRenditions) + 1
          /\ Len(rawRenditions) \in Nat /\ rawRenditions'[Len(rawRenditions) + 1] = r
          /\ \A j \in 1 .. Len(rawRenditions) : rawRenditions'[j] = rawRenditions[j]
      BY <3>6, Appended
    <3>8. /\ DOMAIN rawRenditions = 1 .. Len(rawRenditions)
          /\ DOMAIN rawRenditions' = 1 .. Len(rawRenditions')
      BY <3>6, <3>7, SeqOfItsElements DEF IsSeq
    <3>9. ASSUME NEW k \in DOMAIN rawRenditions' PROVE Len(rawRenditions'[k].key) \in Nat
      <4>1. k = Len(rawRenditions) + 1 \/ k \in 1 .. Len(rawRenditions)
        BY <3>7, <3>8
      <4> QED BY <1>1, <3>5, <3>7, <3>8, <4>1 DEF Input
    <3> QED BY <1>1, <3>1, <3>7, <3>9 DEF Input
  <2> QED BY <2>1, <2>2, <2>3 DEF Collect
<1> QED BY <1>2, <1>3 DEF WriterInv, Absent, Named

(* The calls that come before the trees. *)
LEMMA HeadWriterInv ==
  WriterInv /\ (PreAllocate \/ GiveUp \/ WriteHeader \/ WriteKeyFormat) => WriterInv'
<1> SUFFICES ASSUME WriterInv, PreAllocate \/ GiveUp \/ WriteHeader \/ WriteKeyFormat
             PROVE  WriterInv'
  OBVIOUS
<1>1. Input /\ Input'
  BY DEF WriterInv, Input, PreAllocate, GiveUp, WriteHeader, WriteKeyFormat, input
<1>2. /\ IndexCount \in Nat /\ Len(FormatToWrite) \in Nat
  BY <1>1, InputSizes
<1>3. /\ Open(bom) /\ SoundLayout(bom.layout)
      /\ Absent(bom, "FACETKEYS") /\ Absent(bom, "RENDITIONS")
  BY DEF WriterInv, Before, Writing, PreAllocate, GiveUp, WriteHeader, WriteKeyFormat
<1>4. SUFFICES \/ pc' = "failed" /\ Open(bom')
               \/ /\ pc' \in Before /\ Open(bom') /\ SoundLayout(bom'.layout)
                  /\ Absent(bom', "FACETKEYS") /\ Absent(bom', "RENDITIONS")
  BY <1>1 DEF WriterInv, Before, Writing, Absent, Named
<1>5. CASE PreAllocate
  <2> DEFINE c == WithRoom(bom, IndexCount)
  <2>1. Open(c) /\ SoundLayout(c.layout) /\ c.variables = bom.variables
    BY <1>2, <1>3, RoomMade
  <2>2. bom' = WithVacant(c, 1) /\ pc' = "header"
    BY <1>5 DEF PreAllocate
  <2> HIDE DEF c
  <2>3. Open(bom') /\ SoundLayout(bom'.layout) /\ bom'.variables = c.variables
    BY <2>1, <2>2, VacantAdded
  <2> QED BY <1>3, <2>1, <2>2, <2>3 DEF Before, Absent, Named
<1>6. CASE GiveUp
  BY <1>3, <1>6 DEF GiveUp
<1>7. CASE WriteHeader
  <2> DEFINE c == WithBlock(bom, HeaderToWrite, 436)
             v == [name |-> "CARHEADER", index |-> Count(bom)]
  <2>1. Open(c) /\ SoundLayout(c.layout) /\ c.variables = bom.variables
    BY <1>3, BlockAdded
  <2>2. bom' = WithVariable(c, "CARHEADER", Count(bom)) /\ pc' = "keyfmt"
    BY <1>7 DEF WriteHeader
  <2> HIDE DEF c
  <2>3. /\ Open(bom') /\ SoundLayout(bom'.layout)
        /\ bom'.variables = Append(c.variables, v)
    BY <2>1, <2>2, NameLengths, VariableAdded
  <2>4. \A other : other # "CARHEADER" /\ Absent(c, other) => Absent(bom', other)
    BY <2>1, <2>3, VariableFound DEF Open, IsFile
  <2> QED BY <1>3, <2>1, <2>2, <2>3, <2>4, AbsentStays DEF Before
<1>8. CASE WriteKeyFormat
  <2> DEFINE content == [identifiers |-> FormatToWrite]
             c == WithBlock(bom, content, 12 + 4 * Len(FormatToWrite))
             v == [name |-> "KEYFORMAT", index |-> Count(bom)]
  <2>1. bom' = WithVariable(c, "KEYFORMAT", Count(bom)) /\ pc' = "facet tree"
    BY <1>8 DEF WriteKeyFormat
  <2>2. 12 + 4 * Len(FormatToWrite) \in Nat
    BY <1>2
  <2> HIDE DEF content
  <2>3. Open(c) /\ SoundLayout(c.layout) /\ c.variables = bom.variables
    BY <1>3, <2>2, BlockAdded
  <2> HIDE DEF c
  <2>4. /\ Open(bom') /\ SoundLayout(bom'.layout)
        /\ bom'.variables = Append(c.variables, v)
    BY <2>1, <2>3, NameLengths, VariableAdded
  <2>5. \A other : other # "KEYFORMAT" /\ Absent(c, other) => Absent(bom', other)
    BY <2>3, <2>4, VariableFound DEF Open, IsFile
  <2> QED BY <1>3, <2>1, <2>3, <2>4, <2>5, AbsentStays DEF Before
<1> QED BY <1>5, <1>6, <1>7, <1>8

(* The calls that make the trees, and those between the entries. *)
LEMMA TreesWriterInv ==
  WriterInv /\ (BeginFacets \/ BeginRenditions \/ BeginRawRenditions) => WriterInv'
<1> SUFFICES ASSUME WriterInv, BeginFacets \/ BeginRenditions \/ BeginRawRenditions
             PROVE  WriterInv'
  OBVIOUS
<1>1. Input /\ Input'
  BY DEF WriterInv, Input, BeginFacets, BeginRenditions, BeginRawRenditions, input
<1>2. FacetCount \in Nat /\ RenditionCount \in Nat
  BY <1>1, InputSizes
<1>3. Open(bom) /\ SoundLayout(bom.layout)
  BY DEF WriterInv, Before, Writing, BeginFacets, BeginRenditions, BeginRawRenditions
<1>4. CASE BeginFacets
  <2> DEFINE c == TreeAllocEmpty(bom, "FACETKEYS")
  <2>1. Absent(bom, "FACETKEYS") /\ Absent(bom, "RENDITIONS")
    BY <1>4 DEF WriterInv, Before, BeginFacets
  <2>2. /\ Open(c) /\ SoundLayout(c.layout) /\ TreeReady(c, "FACETKEYS")
        /\ Absent(c, "RENDITIONS")
    BY <1>3, <2>1, NameLengths, TreeMade
  <2>3. bom' = TreeReserve(c, "FACETKEYS", FacetCount) /\ pc' = "facets"
        /\ todo' = DOMAIN facets /\ facets' = facets
    BY <1>4 DEF BeginFacets, input
  <2> HIDE DEF c
  <2>4. /\ Open(bom') /\ SoundLayout(bom'.layout) /\ TreeReady(bom', "FACETKEYS")
        /\ bom'.variables = c.variables
    BY <1>2, <2>2, <2>3, TreeReserved
  <2>5. Absent(bom', "RENDITIONS")
    BY <2>2, <2>4, AbsentStays
  <2> HIDE DEF Absent, TreeReady
  <2>6. todo' \subseteq DOMAIN facets'
    BY <2>3
  <2> QED BY <1>1, <2>3, <2>4, <2>5, <2>6 DEF WriterInv, Writing, Before, Absent, TreeReady, Named
<1>5. CASE BeginRenditions
  <2> DEFINE c == TreeAllocEmpty(bom, "RENDITIONS")
  <2>1. Absent(bom, "RENDITIONS")
    BY <1>5 DEF WriterInv, BeginRenditions
  <2>2. Open(c) /\ SoundLayout(c.layout) /\ TreeReady(c, "RENDITIONS")
    BY <1>3, <2>1, NameLengths, TreeMade
  <2>3. bom' = TreeReserve(c, "RENDITIONS", RenditionCount) /\ pc' = "renditions"
    BY <1>5 DEF BeginRenditions
  <2> HIDE DEF c
  <2>4. Open(bom') /\ SoundLayout(bom'.layout) /\ TreeReady(bom', "RENDITIONS")
    BY <1>2, <2>2, <2>3, TreeReserved
  <2> QED BY <1>1, <2>3, <2>4 DEF WriterInv, Writing, Before
<1>6. CASE BeginRawRenditions
  <2>1. TreeReady(bom, "RENDITIONS")
    BY <1>6 DEF WriterInv, BeginRawRenditions
  <2>2. /\ bom' = bom /\ pc' = "raw" /\ todo' = DOMAIN rawRenditions
        /\ rawRenditions' = rawRenditions
    BY <1>6 DEF BeginRawRenditions, input
  <2> QED BY <1>1, <1>3, <2>1, <2>2 DEF WriterInv, Writing, Before
<1> QED BY <1>4, <1>5, <1>6

(* The entries of the facets. *)
LEMMA FacetWriterInv ==
  ASSUME WriterInv, NEW name \in todo, WriteFacet(name)
  PROVE  WriterInv'
<1> DEFINE pairs == PairsOf(facets[name])
           n == 6 + 4 * Len(pairs)
<1>1. /\ Input /\ Input' /\ pc = "facets" /\ pc' = "facets" /\ facets' = facets
      /\ todo' = todo \ {name}
  BY DEF WriterInv, Input, WriteFacet, input
<1>2. /\ Open(bom) /\ SoundLayout(bom.layout) /\ TreeReady(bom, "FACETKEYS")
      /\ Absent(bom, "RENDITIONS") /\ todo \subseteq DOMAIN facets
  BY <1>1 DEF WriterInv, Writing, Before
<1>3. n \in Nat
  <2>1. facets[name] \in AttributeLists
    BY <1>1, <1>2 DEF Input
  <2>2. Len(pairs) \in Nat
    BY <2>1, PairsLength
  <2> QED BY <2>2
<1>4. Len(name) \in Nat
  <2>1. name \in Seq(0..255)
    BY <1>1, <1>2, CatalogAssumption DEF Input
  <2> QED BY <2>1, LenProperties
<1> DEFINE value == [pairs |-> pairs]
<1>5. PICK place : bom' = TreeAdd(bom, "FACETKEYS", name, value, n, place)
  BY DEF WriteFacet
<1> HIDE DEF n, value
<1> DEFINE c == TreeAdd(bom, "FACETKEYS", name, value, n, place)
<1>6. /\ Open(bom') /\ SoundLayout(bom'.layout) /\ TreeReady(bom', "FACETKEYS")
      /\ bom'.variables = bom.variables
  <2>1. /\ Open(c) /\ SoundLayout(c.layout) /\ TreeReady(c, "FACETKEYS")
        /\ c.variables = bom.variables
    BY <1>2, <1>3, <1>4, EntryAdded
  <2> HIDE DEF c, TreeReady
  <2>2. bom' = c
    BY <1>5 DEF c
  <2> QED BY <2>1, <2>2
<1>7. Absent(bom', "RENDITIONS")
  BY <1>2, <1>6, AbsentStays
<1>8. todo' \subseteq DOMAIN facets'
  BY <1>1, <1>2
<1> QED BY <1>1, <1>6, <1>7, <1>8 DEF WriterInv, Writing, Before, Absent, TreeReady, Named

(* The entries of the renditions. *)
LEMMA RenditionWriterInv ==
  ASSUME WriterInv, NEW k \in todo, WriteRendition(k)
  PROVE  WriterInv'
<1> DEFINE key == KeyBytes(ValuesOf(renditions[k].attributes, FormatToWrite))
<1>1. Input /\ Input' /\ pc = "renditions" /\ pc' = "renditions"
  BY DEF WriterInv, Input, WriteRendition, input
<1>2. Open(bom) /\ SoundLayout(bom.layout) /\ TreeReady(bom, "RENDITIONS")
  BY <1>1 DEF WriterInv, Writing, Before
<1>3. Len(key) \in Nat
  BY <1>1, InputSizes, ValuesLength, KeyLength
<1> DEFINE value == [payload |-> renditions[k].payload]
<1>4. PICK place : bom' = TreeAdd(bom, "RENDITIONS", key, value, PayloadLength, place)
  BY DEF WriteRendition
<1> HIDE DEF key, value
<1>5. Open(bom') /\ SoundLayout(bom'.layout) /\ TreeReady(bom', "RENDITIONS")
  BY <1>2, <1>3, <1>4, SizesAssumption, EntryAdded
<1> QED BY <1>1, <1>5 DEF WriterInv, Writing, Before, TreeReady

(* The entries of the raw renditions. *)
LEMMA RawWriterInv ==
  ASSUME WriterInv, NEW k \in todo, WriteRawRendition(k)
  PROVE  WriterInv'
<1> DEFINE key == rawRenditions[k].key
           value == [payload |-> rawRenditions[k].payload]
<1>1. /\ Input /\ Input' /\ pc = "raw" /\ pc' = "raw" /\ rawRenditions' = rawRenditions
      /\ todo' = todo \ {k}
  BY DEF WriterInv, Input, WriteRawRendition, input
<1>2. /\ Open(bom) /\ SoundLayout(bom.layout) /\ TreeReady(bom, "RENDITIONS")
      /\ todo \subseteq DOMAIN rawRenditions
  BY <1>1 DEF WriterInv, Writing, Before
<1>3. Len(key) \in Nat
  BY <1>1, <1>2 DEF Input
<1>4. PICK place : bom' = TreeAdd(bom, "RENDITIONS", key, value, PayloadLength, place)
  BY DEF WriteRawRendition
<1> HIDE DEF key, value
<1>5. Open(bom') /\ SoundLayout(bom'.layout) /\ TreeReady(bom', "RENDITIONS")
  BY <1>2, <1>3, <1>4, SizesAssumption, EntryAdded
<1>6. todo' \subseteq DOMAIN rawRenditions'
  BY <1>1, <1>2
<1> QED BY <1>1, <1>5, <1>6 DEF WriterInv, Writing, Before, TreeReady

(* The last call, and what comes behind it. *)
LEMMA TailWriterInv ==
  WriterInv /\ (Finish \/ PassThrough \/ Relocate) => WriterInv'
<1> SUFFICES ASSUME WriterInv, Finish \/ PassThrough \/ Relocate PROVE WriterInv'
  OBVIOUS
<1>1. Input /\ Input' /\ Open(bom)
  BY DEF WriterInv, Input, Finish, PassThrough, Relocate, Returned, input
<1>2. CASE Finish
  <2>1. SoundLayout(bom.layout) /\ bom' = WithVacant(bom, 2) /\ pc' = "written"
    BY <1>2 DEF WriterInv, Writing, Finish
  <2>2. Open(bom')
    BY <1>1, <2>1, VacantAdded
  <2> QED BY <1>1, <2>1, <2>2 DEF WriterInv, Writing, Before
<1>3. CASE PassThrough
  <2> DEFINE c == WithBlock(bom, NoContent, 1)
  <2>1. bom' = WithVariable(c, "OTHER", Count(bom)) /\ pc' = pc /\ pc \in {"written", "failed"}
    BY <1>3 DEF PassThrough, Returned
  <2>2. Open(c)
    BY <1>1, BlockAdded
  <2> HIDE DEF c
  <2>3. Open(bom')
    BY <2>1, <2>2, NameLengths, VariableAdded
  <2> QED BY <1>1, <2>1, <2>3 DEF WriterInv, Writing, Before
<1>4. CASE Relocate
  <2>1. bom' = WithTrailerMoved(bom) /\ pc' = "relocated"
    BY <1>4 DEF Relocate
  <2>2. Readable(bom'.layout)
    BY <1>1, <2>1, TrailerMoved
  <2> QED BY <1>1, <2>1, <2>2 DEF WriterInv, Writing, Before
<1> QED BY <1>2, <1>3, <1>4

(* A step that changes nothing. *)
LEMMA StutterWriterInv == WriterInv /\ UNCHANGED vars => WriterInv'
BY DEF WriterInv, vars, Input, Absent, TreeReady, Named, VariableGet, ChildIndex, TreeIndex,
       Block, LengthOf, Count

-----------------------------------------------------------------------------
(* The index has the room of n entries beside its free list. *)
HasIndexes(b, n) == b.layout.index_length = 24 + EntrySize * n

(* An insertion leaves the length of the index. *)
LEMMA ResizeIndexLength ==
  ASSUME NEW s \in Layouts, NEW p \in Nat, NEW d \in Nat
  PROVE  /\ Resize(s, p, d) \in Layouts
         /\ Resize(s, p, d).index_length = s.index_length
<1>1. Resize(s, p, d) \in Layouts
  BY ResizeFields
<1>2. Resize(s, p, d).index_length = s.index_length
  BY DEF Resize, Layouts
<1> QED BY <1>1, <1>2

(* While fewer than that are used there is no need to grow. *)
LEMMA IndexNotFull ==
  ASSUME NEW b, Open(b), NEW n \in Nat, HasIndexes(b, n), Count(b) < n
  PROVE  ~IndexFull(b.layout, 1)
<1>1. Count(b) \in Nat /\ Len(b.layout.entries) = Count(b)
  BY FileNumbers
<1>2. \A c \in Nat : c < n => ~(4 + 8 * (c + 1) > 24 + 8 * n - 2 * 8)
  OBVIOUS
<1> QED BY <1>1, <1>2 DEF IndexFull, HasIndexes, CountSize, EntrySize

(* The reservation. *)
LEMMA IndexesReserved ==
  ASSUME NEW b, Open(b), b.layout.index_length = 24, NEW n \in Nat
  PROVE  HasIndexes(WithRoom(b, n), n)
<1>1. b.layout \in Layouts /\ IsFile(b)
  BY DEF Open, Fits
<1> DEFINE l == IndexReserve(b.layout, n)
<1>2. l.index_length = 24 + EntrySize * n
  <2> DEFINE t == Resize(b.layout, ReservePoint(b.layout), EntrySize * n)
  <2>1. "index_length" \in DOMAIN t
    BY <1>1 DEF Resize, Layouts
  <2> HIDE DEF t
  <2>2. l = [t EXCEPT !.index_length = b.layout.index_length + EntrySize * n]
    BY DEF IndexReserve, t
  <2> QED BY <2>1, <2>2
<1> HIDE DEF l
<1>3. WithRoom(b, n).layout = l
  <2>1. WithRoom(b, n) = FileFrom(l, b.blocks, b.variables)
    BY <1>1, FieldChanged DEF WithRoom, l
  <2> QED BY <2>1 DEF FileFrom
<1> QED BY <1>2, <1>3 DEF HasIndexes

(* A block takes one of them. *)
LEMMA BlockTakesIndex ==
  ASSUME NEW b, Open(b), NEW n \in Nat, HasIndexes(b, n), Count(b) < n, NEW content,
         NEW length \in Nat
  PROVE  HasIndexes(WithBlock(b, content, length), n)
<1>1. b.layout \in Layouts /\ IsFile(b)
  BY DEF Open, Fits
<1> DEFINE l == IndexAdd(b.layout, length)
<1>2. l.index_length = b.layout.index_length
  <2> DEFINE s == b.layout
             r == Resize(s, s.size, length)
             e == [address |-> s.size, length |-> length]
  <2>1. r \in Layouts /\ r.index_length = s.index_length
    BY <1>1, PointsAreNumbers, ResizeIndexLength
  <2>2. GrowForAdd(s) = s
    BY IndexNotFull DEF GrowForAdd
  <2> HIDE DEF s, r, e
  <2>3. IndexAdd(s, length) = [r EXCEPT !.entries     = Append(r.entries, e),
                                        !.block_count = Len(s.entries) + 1]
    BY <2>2 DEF IndexAdd, r, e
  <2>4. IndexAdd(s, length).index_length = r.index_length
    BY <2>1, <2>3 DEF Layouts
  <2> QED BY <2>1, <2>4 DEF s
<1> HIDE DEF l
<1>3. WithBlock(b, content, length).layout = l
  <2>1. WithBlock(b, content, length) = FileFrom(l, Append(b.blocks, content), b.variables)
    BY <1>1, BlocksChanged DEF WithBlock, l
  <2> QED BY <2>1 DEF FileFrom
<1> QED BY <1>2, <1>3 DEF HasIndexes

(* So does a vacant entry. *)
LEMMA VacantTakesIndex ==
  ASSUME NEW b, Open(b), NEW n \in Nat, HasIndexes(b, n), Count(b) < n
  PROVE  HasIndexes(WithVacant(b, 1), n)
<1>1. b.layout \in Layouts /\ IsFile(b)
  BY DEF Open, Fits
<1> DEFINE l == FreeIndicesAdd(b.layout, 1)
           w == b.blocks \o [k \in 1..1 |-> NoContent]
<1>2. l.index_length = b.layout.index_length
  <2> DEFINE s == b.layout
             x == s.entries \o [i \in 1..1 |-> Vacant]
  <2>1. GrowForFree(s, 1) = s
    BY IndexNotFull DEF GrowForFree
  <2>2. l = [s EXCEPT !.entries = x]
    BY <2>1 DEF FreeIndicesAdd
  <2> HIDE DEF s, x, l
  <2>3. s \in Layouts
    BY <1>1 DEF s
  <2> QED BY <2>2, <2>3 DEF s, Layouts
<1> HIDE DEF l, w
<1>3. WithVacant(b, 1).layout = l
  <2>1. WithVacant(b, 1) = [b EXCEPT !.layout = l, !.blocks = w]
    BY DEF WithVacant, l, w
  <2>2. WithVacant(b, 1) = FileFrom(l, w, b.variables)
    BY <1>1, <2>1, BlocksChanged
  <2> QED BY <2>2 DEF FileFrom
<1> QED BY <1>2, <1>3 DEF HasIndexes

(* A variable takes none. *)
LEMMA VariableTakesNoIndex ==
  ASSUME NEW b, Open(b), NEW n, HasIndexes(b, n), NEW name,
         NameLength(name) \in Nat, NEW i
  PROVE  HasIndexes(WithVariable(b, name, i), n)
<1>1. b.layout \in Layouts /\ IsFile(b)
  BY DEF Open, Fits
<1> DEFINE l == VariableAdd(b.layout, NameLength(name))
           v == Append(b.variables, [name |-> name, index |-> i])
<1>2. l.index_length = b.layout.index_length
  <2> DEFINE s == b.layout
             m == NameLength(name)
             p == s.variables_offset + CountSize + s.variable_bytes
             d == Padded(VariableSize(m))
             r == Resize(s, p, d)
             x == s.variable_bytes + StoredSize(m)
             y == s.trailer_len + d
  <2>1. p \in Nat /\ d \in Nat
    BY <1>1, PointsAreNumbers DEF Padded, VariableSize, VariableHeaderSize
  <2>2. l = [r EXCEPT !.variable_bytes = x, !.trailer_len = y]
    BY DEF VariableAdd
  <2> HIDE DEF p, d, x, y, l
  <2>3. r \in Layouts /\ r.index_length = s.index_length
    BY <1>1, <2>1, ResizeIndexLength
  <2> HIDE DEF r
  <2> QED BY <2>2, <2>3 DEF Layouts
<1> HIDE DEF l, v
<1>3. WithVariable(b, name, i).layout = l
  <2>1. WithVariable(b, name, i) = [b EXCEPT !.layout = l, !.variables = v]
    BY DEF WithVariable, l, v
  <2>2. WithVariable(b, name, i) = FileFrom(l, b.blocks, v)
    BY <1>1, <2>1, VariablesChanged
  <2> QED BY <2>2 DEF FileFrom
<1> QED BY <1>2, <1>3 DEF HasIndexes

(* Nor do more bytes for a block. *)
LEMMA LengthTakesNoIndex ==
  ASSUME NEW b, Open(b), NEW n, HasIndexes(b, n), NEW i \in 0 .. Count(b) - 1,
         NEW length \in Nat
  PROVE  HasIndexes(Lengthened(b, i, length), n)
<1>1. b.layout \in Layouts /\ IsFile(b)
  BY DEF Open, Fits
<1> DEFINE l == IndexAppend(b.layout, i + 1, length)
<1>2. l.index_length = b.layout.index_length
  <2> DEFINE s == b.layout
             p == BlockEnd(s.entries[i + 1])
             r == Resize(s, p, length)
             x == [r.entries EXCEPT ![i + 1] =
                    [address |-> r.entries[i + 1].address,
                     length  |-> r.entries[i + 1].length + length]]
  <2>1. p \in Nat
    BY <1>1, FileNumbers, PointsAreNumbers
  <2>2. l = [r EXCEPT !.entries = x]
    BY DEF IndexAppend
  <2> HIDE DEF p, x, l
  <2>3. r \in Layouts /\ r.index_length = s.index_length
    BY <1>1, <2>1, ResizeIndexLength
  <2> HIDE DEF r
  <2> QED BY <2>2, <2>3 DEF Layouts
<1> HIDE DEF l
<1>3. Lengthened(b, i, length).layout = l
  <2>1. Lengthened(b, i, length) = FileFrom(l, b.blocks, b.variables)
    BY <1>1, FieldChanged DEF Lengthened, l
  <2> QED BY <2>1 DEF FileFrom
<1> QED BY <1>2, <1>3 DEF HasIndexes

(* A tree takes two, its leaf and itself. *)
LEMMA TreeTakesIndexes ==
  ASSUME NEW b, Open(b), NEW n \in Nat, HasIndexes(b, n), Count(b) + 1 < n, NEW name,
         NameLength(name) \in Nat
  PROVE  HasIndexes(TreeAllocEmpty(b, name), n)
<1> DEFINE leaf == WithBlock(b, EmptyLeaf, NodeSize)
           content == [child |-> ChildOfEmpty(b), path_count |-> 0]
           tree == WithBlock(leaf, content, TreeSize)
<1>1. NodeSize \in Nat /\ TreeSize \in Nat /\ Count(b) \in Nat
  BY SizesAssumption, FileNumbers DEF TreeSize
<1>2. Count(b) < n
  BY <1>1
<1>3. Open(leaf) /\ Count(leaf) = Count(b) + 1 /\ HasIndexes(leaf, n)
  BY <1>1, <1>2, BlockAdded, BlockTakesIndex
<1>4. TreeAllocEmpty(b, name) = WithVariable(tree, name, Count(leaf))
  BY DEF TreeAllocEmpty
<1> HIDE DEF leaf, content
<1>5. Open(tree) /\ HasIndexes(tree, n)
  BY <1>1, <1>3, BlockAdded, BlockTakesIndex
<1> HIDE DEF tree
<1> QED BY <1>4, <1>5, VariableTakesNoIndex

(* Room in a leaf takes none. *)
LEMMA ReserveTakesNoIndex ==
  ASSUME NEW b, Open(b), NEW n, HasIndexes(b, n), NEW name, TreeReady(b, name), NEW m \in Nat
  PROVE  HasIndexes(TreeReserve(b, name, m), n)
<1> DEFINE k == ChildIndex(b, name)
           more == Reserved(LengthOf(b, k), m) - LengthOf(b, k)
<1>1. k \in 0 .. Count(b) - 1 /\ LengthOf(b, k) \in Nat
  BY FileNumbers DEF TreeReady
<1>2. \A x, y \in Nat : x + 8 * y - x \in Nat
  OBVIOUS
<1>3. more \in Nat
  BY <1>1, <1>2 DEF Reserved, SlotSize
<1>4. TreeReserve(b, name, m) = Lengthened(b, k, more)
  BY DEF TreeReserve
<1> HIDE DEF k, more
<1> QED BY <1>1, <1>3, <1>4, LengthTakesNoIndex

(* An entry takes two, its key and its value. *)
LEMMA EntryTakesIndexes ==
  ASSUME NEW b, Open(b), SoundLayout(b.layout), NEW n \in Nat, HasIndexes(b, n),
         Count(b) + 1 < n, NEW name, TreeReady(b, name), NEW key, Len(key) \in Nat, NEW value, NEW length \in Nat, NEW place
  PROVE  HasIndexes(TreeAdd(b, name, key, value, length, place), n)
<1> DEFINE content == [bytes |-> key]
           half == WithBlock(b, content, Len(key))
           added == WithBlock(half, value, length)
           k == ChildIndex(b, name)
           t == TreeIndex(b, name)
           more == Grown(Len(Block(b, k).entries), LengthOf(b, k)) - LengthOf(b, k)
           grown == IF more > 0 THEN Lengthened(added, k, more) ELSE added
           root == RootCounted(Block(b, t))
           leaf == LeafWith(Block(b, k), place, [value |-> Count(b) + 1, key |-> Count(b)])
           c == TreeAdd(b, name, key, value, length, place)
<1>1. c = [grown EXCEPT !.blocks = [grown.blocks EXCEPT ![t + 1] = root, ![k + 1] = leaf]]
  BY DEF TreeAdd, RootCounted, LeafWith
<1>2. /\ Count(b) \in Nat /\ Count(b) < n /\ k \in 0 .. Count(b) - 1
      /\ LengthOf(b, k) \in Nat /\ LengthOf(b, k) > 0
  BY FileNumbers DEF TreeReady
<1>3. more \in {0, 8}
  BY <1>2 DEF Grown, SlotSize
<1> HIDE DEF content, root, leaf, c, k, t, more
<1>4. /\ Open(half) /\ Count(half) = Count(b) + 1 /\ HasIndexes(half, n)
      /\ SoundLayout(half.layout) /\ Extends(b, half)
  BY <1>2, BlockAdded, BlockTakesIndex
<1> HIDE DEF half
<1>5. /\ Open(added) /\ Count(added) = Count(b) + 2 /\ HasIndexes(added, n)
      /\ SoundLayout(added.layout) /\ Extends(half, added)
  <2>1. Count(half) < n
    BY <1>2, <1>4
  <2>2. Count(added) = Count(half) + 1
    BY <1>4, BlockAdded
  <2>3. Count(added) = Count(b) + 2
    BY <1>2, <1>4, <2>2
  <2> QED BY <1>4, <2>1, <2>3, BlockAdded, BlockTakesIndex
<1> HIDE DEF added
<1>6. HasIndexes(grown, n) /\ IsFile(grown)
  <2>1. CASE more > 0
    <3>1. k \in 0 .. Count(added) - 1 /\ more \in Nat
      BY <1>2, <1>3, <1>5
    <3>2. LengthOf(added, k) > 0
      <4>1. Extends(b, added)
        BY <1>4, <1>5, ExtendsTwice
      <4>2. LengthOf(added, k) >= LengthOf(b, k) /\ LengthOf(added, k) \in Nat
        BY <1>2, <1>5, <3>1, <4>1, FileNumbers DEF Extends
      <4> QED BY <1>2, <4>2
    <3>3. HasIndexes(Lengthened(added, k, more), n) /\ Open(Lengthened(added, k, more))
      BY <1>5, <3>1, <3>2, LengthTakesNoIndex, BlockLengthened
    <3> QED BY <2>1, <3>3 DEF Open
  <2>2. CASE ~(more > 0)
    BY <1>5, <2>2 DEF Open
  <2> QED BY <2>1, <2>2
<1> DEFINE s == [grown.blocks EXCEPT ![t + 1] = root, ![k + 1] = leaf]
<1> HIDE DEF grown
<1>7. c = FileFrom(grown.layout, s, grown.variables)
  <2>1. c = [grown EXCEPT !.blocks = s]
    BY <1>1
  <2> HIDE DEF s
  <2> QED BY <1>6, <2>1, FieldChanged
<1> HIDE DEF s
<1>8. c.layout = grown.layout
  BY <1>7 DEF FileFrom
<1> QED BY <1>6, <1>8 DEF HasIndexes, c

(* The indexes that the calls before Finish have yet to take. *)
Left ==
  CASE pc = "header"     -> 6 + 2 * FacetCount + 2 * RenditionCount
    [] pc = "keyfmt"     -> 5 + 2 * FacetCount + 2 * RenditionCount
    [] pc = "facet tree" -> 4 + 2 * FacetCount + 2 * RenditionCount
    [] pc = "facets"     -> 2 * Cardinality(todo) + 2 + 2 * RenditionCount
    [] pc = "renditions" -> 2 * Cardinality(todo) + 2 * Len(rawRenditions)
    [] OTHER             -> 2 * Cardinality(todo)

InCalls == pc \in {"header", "keyfmt", "facet tree", "facets", "renditions", "raw"}

(* What write() has reserved and not used is what it has left, and one.    *)
RoomInv ==
  /\ pc = "collect" => bom = EmptyFile
  /\ InCalls =>
       /\ HasIndexes(bom, IndexCount)
       /\ Count(bom) + Left + 1 = IndexCount
       /\ pc \in {"facets", "renditions", "raw"} => IsFiniteSet(todo)

(* The counts are those of sequences, and so are the sets of their places. *)
LEMMA InputCounts ==
  ASSUME Input
  PROVE  /\ Len(renditions) \in Nat /\ Len(rawRenditions) \in Nat
         /\ IsFiniteSet(DOMAIN renditions) /\ Cardinality(DOMAIN renditions) = Len(renditions)
         /\ IsFiniteSet(DOMAIN rawRenditions)
         /\ Cardinality(DOMAIN rawRenditions) = Len(rawRenditions)
         /\ IsFiniteSet(DOMAIN facets) /\ Cardinality(DOMAIN facets) = FacetCount
<1>1. \A s : IsSeq(s) => Len(s) \in Nat /\ DOMAIN s = 1 .. Len(s)
  BY SeqOfItsElements, LenProperties DEF IsSeq
<1>2. \A n \in Nat : IsFiniteSet(1..n) /\ Cardinality(1..n) = n
  <2> TAKE n \in Nat
  <2>1. IsFiniteSet(1..n) /\ Cardinality(1..n) = IF 1 > n THEN 0 ELSE n - 1 + 1
    BY FS_Interval
  <2>2. (IF 1 > n THEN 0 ELSE n - 1 + 1) = n
    OBVIOUS
  <2> QED BY <2>1, <2>2
<1> QED BY <1>1, <1>2 DEF Input, FacetCount

(* One element less to write. *)
LEMMA OneWritten ==
  ASSUME IsFiniteSet(todo), NEW x \in todo
  PROVE  /\ IsFiniteSet(todo \ {x}) /\ Cardinality(todo) \in Nat
         /\ Cardinality(todo \ {x}) = Cardinality(todo) - 1 /\ Cardinality(todo) > 0
<1>1. Cardinality(todo) \in Nat /\ IsFiniteSet(todo \ {x})
      /\ Cardinality(todo \ {x}) = Cardinality(todo) - 1 /\ Cardinality(todo \ {x}) \in Nat
  BY FS_CardinalityType, FS_RemoveElement
<1> QED BY <1>1

(* The calls before the entries. *)
LEMMA HeadRoomInv ==
  ASSUME WriterInv, RoomInv,
         PreAllocate \/ WriteHeader \/ WriteKeyFormat \/ BeginFacets
  PROVE  RoomInv'
<1> DEFINE f == FacetCount
           r == RenditionCount
           n == IndexCount
<1>1. Input /\ UNCHANGED input
  BY DEF WriterInv, PreAllocate, WriteHeader, WriteKeyFormat, BeginFacets
<1>2. f' = f /\ r' = r /\ n' = n
  BY <1>1 DEF input, FacetCount, RenditionCount, IndexCount
<1>3. f \in Nat /\ r \in Nat /\ n = 8 + 2 * f + 2 * r /\ n \in Nat
  BY <1>1, InputSizes DEF IndexCount
<1>4. Open(bom) /\ SoundLayout(bom.layout) /\ Count(bom) \in Nat
  BY FileNumbers DEF WriterInv, Before, Writing, PreAllocate, WriteHeader, WriteKeyFormat,
     BeginFacets
<1>5. CASE PreAllocate
  <2> DEFINE c == WithRoom(bom, n)
  <2>1. pc = "collect" /\ pc' = "header" /\ bom' = WithVacant(c, 1)
    BY <1>5 DEF PreAllocate
  <2>2. bom.layout.index_length = 24 /\ Count(bom) = 0
    <3>1. bom = FileFrom(EmptyLayout, << >>, << >>)
      BY <2>1 DEF RoomInv, EmptyFile, FileFrom
    <3>2. bom.layout = EmptyLayout /\ bom.blocks = << >>
      BY <3>1 DEF FileFrom
    <3> QED BY <3>2 DEF EmptyLayout, CountSize, FreelistSize, Count
  <2>3. Open(c) /\ SoundLayout(c.layout) /\ Count(c) = 0 /\ HasIndexes(c, n)
    BY <1>3, <1>4, <2>2, RoomMade, IndexesReserved
  <2>4. 0 < n
    BY <1>3
  <2> HIDE DEF c
  <2>5. HasIndexes(bom', n) /\ Count(bom') = 1
    BY <1>3, <2>1, <2>3, <2>4, VacantTakesIndex, VacantAdded
  <2>6. Left' = 6 + 2 * f + 2 * r
    BY <1>2, <2>1 DEF Left
  <2>7. Count(bom') + Left' + 1 = n
    BY <1>3, <2>5, <2>6
  <2> HIDE DEF f, r, n
  <2> QED BY <1>2, <2>1, <2>5, <2>7 DEF RoomInv, InCalls, HasIndexes, Count, n
<1>6. CASE WriteHeader
  <2> DEFINE c == WithBlock(bom, HeaderToWrite, 436)
  <2>1. pc = "header" /\ pc' = "keyfmt" /\ bom' = WithVariable(c, "CARHEADER", Count(bom))
    BY <1>6 DEF WriteHeader
  <2>2. HasIndexes(bom, n) /\ Count(bom) + (6 + 2 * f + 2 * r) + 1 = n
    BY <2>1 DEF RoomInv, InCalls, Left
  <2>3. Count(bom) < n
    BY <1>3, <1>4, <2>2
  <2>4. Open(c) /\ Count(c) = Count(bom) + 1 /\ HasIndexes(c, n)
    BY <1>3, <1>4, <2>2, <2>3, BlockAdded, BlockTakesIndex
  <2> HIDE DEF c
  <2>5. HasIndexes(bom', n) /\ Count(bom') = Count(bom) + 1
    BY <2>1, <2>4, NameLengths, VariableTakesNoIndex, VariableAdded
  <2>6. Left' = 5 + 2 * f + 2 * r
    BY <1>2, <2>1 DEF Left
  <2>7. Count(bom') + Left' + 1 = n
    BY <1>3, <1>4, <2>2, <2>5, <2>6
  <2> HIDE DEF f, r, n
  <2> QED BY <1>2, <2>1, <2>5, <2>7 DEF RoomInv, InCalls, HasIndexes, Count, n
<1>7. CASE WriteKeyFormat
  <2> DEFINE content == [identifiers |-> FormatToWrite]
             m == 12 + 4 * Len(FormatToWrite)
             c == WithBlock(bom, content, m)
  <2>1. pc = "keyfmt" /\ pc' = "facet tree" /\ bom' = WithVariable(c, "KEYFORMAT", Count(bom))
    BY <1>7 DEF WriteKeyFormat
  <2>2. HasIndexes(bom, n) /\ Count(bom) + (5 + 2 * f + 2 * r) + 1 = n
    BY <2>1 DEF RoomInv, InCalls, Left
  <2>3. Count(bom) < n
    BY <1>3, <1>4, <2>2
  <2>4. m \in Nat
    BY <1>1, InputSizes
  <2> HIDE DEF content, m
  <2>5. Open(c) /\ Count(c) = Count(bom) + 1 /\ HasIndexes(c, n)
    BY <1>3, <1>4, <2>2, <2>3, <2>4, BlockAdded, BlockTakesIndex
  <2> HIDE DEF c
  <2>6. HasIndexes(bom', n) /\ Count(bom') = Count(bom) + 1
    BY <2>1, <2>5, NameLengths, VariableTakesNoIndex, VariableAdded
  <2>7. Left' = 4 + 2 * f + 2 * r
    BY <1>2, <2>1 DEF Left
  <2>8. Count(bom') + Left' + 1 = n
    BY <1>3, <1>4, <2>2, <2>6, <2>7
  <2> HIDE DEF f, r, n
  <2> QED BY <1>2, <2>1, <2>6, <2>8 DEF RoomInv, InCalls, HasIndexes, Count, n
<1>8. CASE BeginFacets
  <2> DEFINE c == TreeAllocEmpty(bom, "FACETKEYS")
  <2>1. /\ pc = "facet tree" /\ pc' = "facets" /\ bom' = TreeReserve(c, "FACETKEYS", f)
        /\ todo' = DOMAIN facets
    BY <1>8 DEF BeginFacets
  <2>2. HasIndexes(bom, n) /\ Count(bom) + (4 + 2 * f + 2 * r) + 1 = n
    BY <2>1 DEF RoomInv, InCalls, Left
  <2>3. Count(bom) + 1 < n
    BY <1>3, <1>4, <2>2
  <2>4. /\ Open(c) /\ SoundLayout(c.layout) /\ Count(c) = Count(bom) + 2 /\ HasIndexes(c, n)
        /\ TreeReady(c, "FACETKEYS")
    <3>1. Absent(bom, "FACETKEYS")
      BY <2>1 DEF WriterInv, Before
    <3> QED BY <1>3, <1>4, <2>2, <2>3, <3>1, NameLengths, TreeMade, TreeTakesIndexes
  <2> HIDE DEF c
  <2>5. HasIndexes(bom', n) /\ Count(bom') = Count(bom) + 2
    BY <1>3, <2>1, <2>4, ReserveTakesNoIndex, TreeReserved
  <2>6. Left' = 2 * f + 2 + 2 * r /\ IsFiniteSet(todo')
    BY <1>1, <1>2, <2>1, InputCounts DEF Left
  <2>7. Count(bom') + Left' + 1 = n
    BY <1>3, <1>4, <2>2, <2>5, <2>6
  <2> HIDE DEF f, r, n
  <2> QED BY <1>2, <2>1, <2>5, <2>6, <2>7 DEF RoomInv, InCalls, HasIndexes, Count, n
<1> QED BY <1>5, <1>6, <1>7, <1>8

(* The calls between the entries. *)
LEMMA TreesRoomInv ==
  ASSUME WriterInv, RoomInv, BeginRenditions \/ BeginRawRenditions
  PROVE  RoomInv'
<1> DEFINE f == FacetCount
           r == RenditionCount
           w == Len(rawRenditions)
           n == IndexCount
<1>1. Input /\ UNCHANGED input
  BY DEF WriterInv, BeginRenditions, BeginRawRenditions
<1>2. f' = f /\ r' = r /\ n' = n /\ w' = w
  BY <1>1 DEF input, FacetCount, RenditionCount, IndexCount
<1>3. /\ f \in Nat /\ r \in Nat /\ n = 8 + 2 * f + 2 * r /\ n \in Nat /\ w \in Nat
      /\ Len(renditions) \in Nat /\ r = Len(renditions) + w
  BY <1>1, InputSizes, InputCounts DEF IndexCount, RenditionCount
<1>4. Open(bom) /\ SoundLayout(bom.layout) /\ Count(bom) \in Nat
  BY FileNumbers DEF WriterInv, Writing, BeginRenditions, BeginRawRenditions
<1>5. todo = {} /\ Cardinality(todo) = 0
  BY FS_EmptySet DEF BeginRenditions, BeginRawRenditions
<1>6. CASE BeginRenditions
  <2> DEFINE c == TreeAllocEmpty(bom, "RENDITIONS")
  <2>1. /\ pc = "facets" /\ pc' = "renditions" /\ bom' = TreeReserve(c, "RENDITIONS", r)
        /\ todo' = DOMAIN renditions
    BY <1>6 DEF BeginRenditions
  <2>2. HasIndexes(bom, n) /\ Count(bom) + (2 * 0 + 2 + 2 * r) + 1 = n
    BY <1>5, <2>1 DEF RoomInv, InCalls, Left
  <2>3. Count(bom) + 1 < n
    BY <1>3, <1>4, <2>2
  <2>4. /\ Open(c) /\ SoundLayout(c.layout) /\ Count(c) = Count(bom) + 2 /\ HasIndexes(c, n)
        /\ TreeReady(c, "RENDITIONS")
    <3>1. Absent(bom, "RENDITIONS")
      BY <2>1 DEF WriterInv
    <3> QED BY <1>3, <1>4, <2>2, <2>3, <3>1, NameLengths, TreeMade, TreeTakesIndexes
  <2> HIDE DEF c
  <2>5. HasIndexes(bom', n) /\ Count(bom') = Count(bom) + 2
    BY <1>3, <2>1, <2>4, ReserveTakesNoIndex, TreeReserved
  <2>6. Left' = 2 * Len(renditions) + 2 * w /\ IsFiniteSet(todo')
    BY <1>1, <1>2, <2>1, InputCounts DEF Left
  <2>7. Count(bom') + Left' + 1 = n
    BY <1>3, <1>4, <2>2, <2>5, <2>6
  <2> HIDE DEF f, r, n, w
  <2> QED BY <1>2, <2>1, <2>5, <2>6, <2>7 DEF RoomInv, InCalls, HasIndexes, Count, n
<1>7. CASE BeginRawRenditions
  <2>1. /\ pc = "renditions" /\ pc' = "raw" /\ bom' = bom /\ todo' = DOMAIN rawRenditions
    BY <1>7 DEF BeginRawRenditions
  <2>2. HasIndexes(bom, n) /\ Count(bom) + (2 * 0 + 2 * w) + 1 = n
    BY <1>5, <2>1 DEF RoomInv, InCalls, Left
  <2>3. Left' = 2 * w /\ IsFiniteSet(todo')
    BY <1>1, <2>1, InputCounts DEF Left
  <2>4. Count(bom') + Left' + 1 = n
    BY <1>3, <1>4, <2>1, <2>2, <2>3
  <2> HIDE DEF f, r, n, w
  <2> QED BY <1>2, <2>1, <2>2, <2>3, <2>4 DEF RoomInv, InCalls, HasIndexes, Count, n
<1> QED BY <1>6, <1>7

(* The entries. *)
LEMMA EntriesRoomInv ==
  ASSUME WriterInv, RoomInv, NEW x \in todo,
         WriteFacet(x) \/ WriteRendition(x) \/ WriteRawRendition(x)
  PROVE  RoomInv'
<1> DEFINE f == FacetCount
           r == RenditionCount
           w == Len(rawRenditions)
           n == IndexCount
           l == Cardinality(todo)
<1>1. Input /\ UNCHANGED << input, pc >> /\ todo' = todo \ {x}
      /\ pc \in {"facets", "renditions", "raw"}
  BY DEF WriterInv, WriteFacet, WriteRendition, WriteRawRendition
<1>2. f' = f /\ r' = r /\ n' = n /\ w' = w /\ pc' = pc
  BY <1>1 DEF input, FacetCount, RenditionCount, IndexCount
<1>3. f \in Nat /\ r \in Nat /\ n \in Nat /\ w \in Nat
  BY <1>1, InputSizes, InputCounts
<1>4. Open(bom) /\ SoundLayout(bom.layout) /\ Count(bom) \in Nat
  BY <1>1, FileNumbers DEF WriterInv, Writing
<1>5. IsFiniteSet(todo') /\ l \in Nat /\ l > 0 /\ Cardinality(todo') = l - 1
  <2>1. IsFiniteSet(todo)
    BY <1>1 DEF RoomInv, InCalls
  <2> QED BY <1>1, <2>1, OneWritten
<1> DEFINE rest == CASE pc = "facets" -> 2 + 2 * r [] pc = "renditions" -> 2 * w [] OTHER -> 0
<1>6. rest \in Nat /\ Left = 2 * l + rest /\ Left' = 2 * (l - 1) + rest
  <2> DEFINE more == Cardinality(todo')
  <2> HIDE DEF r, w, l, more
  <2>1. CASE pc = "facets"
    <3>1. Left = 2 * l + 2 + 2 * r /\ Left' = 2 * more + 2 + 2 * r /\ rest = 2 + 2 * r
      BY <1>2, <2>1 DEF Left, l, r, more
    <3> QED BY <1>3, <1>5, <3>1 DEF more
  <2>2. CASE pc = "renditions"
    <3>1. Left = 2 * l + 2 * w /\ Left' = 2 * more + 2 * w /\ rest = 2 * w
      BY <1>2, <2>2 DEF Left, l, w, more
    <3> QED BY <1>3, <1>5, <3>1 DEF more
  <2>3. CASE pc = "raw"
    <3>1. Left = 2 * l /\ Left' = 2 * more /\ rest = 0
      BY <1>2, <2>3 DEF Left, l, more
    <3> QED BY <1>5, <3>1 DEF more
  <2> HIDE DEF rest
  <2> QED BY <1>1, <2>1, <2>2, <2>3
<1>7. HasIndexes(bom, n) /\ Count(bom) + Left + 1 = n
  BY <1>1 DEF RoomInv, InCalls
<1> HIDE DEF rest, l
<1>8. Count(bom) + 1 < n
  BY <1>3, <1>4, <1>5, <1>6, <1>7
<1> DEFINE Adds(name, key, value, length) ==
             \E place : bom' = TreeAdd(bom, name, key, value, length, place)
<1>9. \E name, key, value, length :
        /\ TreeReady(bom, name) /\ Len(key) \in Nat /\ length \in Nat
        /\ Adds(name, key, value, length)
  <2>1. CASE WriteFacet(x)
    <3> DEFINE pairs == PairsOf(facets[x])
               m == 6 + 4 * Len(pairs)
    <3>1. TreeReady(bom, "FACETKEYS") /\ todo \subseteq DOMAIN facets
      BY <2>1 DEF WriteFacet, WriterInv
    <3>2. m \in Nat /\ Len(x) \in Nat
      <4>1. facets[x] \in AttributeLists /\ x \in Seq(0..255)
        BY <1>1, <3>1, CatalogAssumption DEF Input
      <4>2. Len(pairs) \in Nat
        BY <4>1, PairsLength
      <4> QED BY <4>1, <4>2, LenProperties
    <3>3. Adds("FACETKEYS", x, [pairs |-> pairs], m)
      BY <2>1 DEF WriteFacet
    <3> HIDE DEF Adds, m
    <3> QED BY <3>1, <3>2, <3>3
  <2>2. CASE WriteRendition(x)
    <3> DEFINE key == KeyBytes(ValuesOf(renditions[x].attributes, FormatToWrite))
    <3>1. TreeReady(bom, "RENDITIONS")
      BY <2>2 DEF WriteRendition, WriterInv
    <3>2. Len(key) \in Nat
      BY <1>1, InputSizes, ValuesLength, KeyLength
    <3>3. Adds("RENDITIONS", key, [payload |-> renditions[x].payload], PayloadLength)
      BY <2>2 DEF WriteRendition
    <3> HIDE DEF Adds, key
    <3> QED BY <3>1, <3>2, <3>3, SizesAssumption
  <2>3. CASE WriteRawRendition(x)
    <3> DEFINE key == rawRenditions[x].key
    <3>1. TreeReady(bom, "RENDITIONS") /\ x \in DOMAIN rawRenditions
      BY <2>3 DEF WriteRawRendition, WriterInv
    <3>2. Len(key) \in Nat
      BY <1>1, <3>1 DEF Input
    <3>3. Adds("RENDITIONS", key, [payload |-> rawRenditions[x].payload], PayloadLength)
      BY <2>3 DEF WriteRawRendition
    <3> HIDE DEF Adds, key
    <3> QED BY <3>1, <3>2, <3>3, SizesAssumption
  <2> HIDE DEF Adds
  <2> QED BY <2>1, <2>2, <2>3
<1>10. PICK name, key, value, length :
         /\ TreeReady(bom, name) /\ Len(key) \in Nat /\ length \in Nat
         /\ Adds(name, key, value, length)
  <2> HIDE DEF Adds
  <2> QED BY <1>9
<1>11. HasIndexes(bom', n) /\ Count(bom') = Count(bom) + 2
  <2>1. PICK place : bom' = TreeAdd(bom, name, key, value, length, place)
    BY <1>10
  <2> DEFINE c == TreeAdd(bom, name, key, value, length, place)
  <2> HIDE DEF Adds
  <2>2. HasIndexes(c, n)
    BY <1>3, <1>4, <1>7, <1>8, <1>10, EntryTakesIndexes
  <2>3. HasEntry(bom, c, name, key, value, place)
    BY <1>4, <1>10, EntryAdded
  <2> HIDE DEF c
  <2>4. Count(c) = Count(bom) + 2
    BY <2>3 DEF HasEntry
  <2>5. bom' = c
    BY <2>1 DEF c
  <2> QED BY <2>2, <2>4, <2>5
<1>12. Count(bom') + Left' + 1 = n
  BY <1>3, <1>4, <1>5, <1>6, <1>7, <1>11
<1> HIDE DEF f, r, n, w
<1> QED BY <1>1, <1>2, <1>5, <1>11, <1>12 DEF RoomInv, InCalls, HasIndexes, Count, n

(* All steps. *)
LEMMA RoomInvStep == WriterInv /\ RoomInv /\ [Next]_vars => RoomInv'
<1> SUFFICES ASSUME WriterInv, RoomInv, [Next]_vars PROVE RoomInv'
  OBVIOUS
<1>1. CASE Collect
  BY <1>1 DEF Collect, AddFacet, AddRendition, AddRawRendition, RoomInv, InCalls
<1>2. CASE PreAllocate \/ WriteHeader \/ WriteKeyFormat \/ BeginFacets
  BY <1>2, HeadRoomInv
<1>3. CASE BeginRenditions \/ BeginRawRenditions
  BY <1>3, TreesRoomInv
<1>4. ASSUME NEW x \in todo, WriteFacet(x) \/ WriteRendition(x) \/ WriteRawRendition(x)
      PROVE  RoomInv'
  BY <1>4, EntriesRoomInv
<1>5. CASE GiveUp \/ Finish \/ PassThrough \/ Relocate
  BY <1>5 DEF GiveUp, Finish, PassThrough, Relocate, Returned, RoomInv, InCalls
<1>6. CASE UNCHANGED vars
  BY <1>6 DEF vars, RoomInv, InCalls, HasIndexes, Count, Left, IndexCount, FacetCount,
     RenditionCount
<1> QED BY <1>1, <1>2, <1>3, <1>4, <1>5, <1>6 DEF Next, Write

(* What LayoutHolds says follows. *)
LEMMA WriterInvHolds == WriterInv /\ RoomInv => LayoutHolds
<1> SUFFICES ASSUME WriterInv, RoomInv PROVE LayoutHolds
  OBVIOUS
<1>1. Readable(bom.layout)
  <2>1. CASE pc = "relocated"
    BY <2>1 DEF WriterInv
  <2>2. CASE pc # "relocated"
    BY <2>2, FitsIsReadable DEF WriterInv, Open
  <2> QED BY <2>1, <2>2
<1>2. IndexReadable
  BY <1>1 DEF IndexReadable, Readable
<1>3. SoundUntilFinish
  BY DEF SoundUntilFinish, Returned, WriterInv
<1>4. ReservationLasts
  <2>1. InCalls => bom.layout.index_length = EmptyLayout.index_length + EntrySize * IndexCount
    BY DEF RoomInv, HasIndexes, EmptyLayout, CountSize, FreelistSize
  <2>2. ASSUME pc = "raw", todo = {} PROVE Count(bom) = IndexCount - 1
    <3>1. Left = 2 * 0
      BY <2>2, FS_EmptySet DEF Left
    <3>2. Count(bom) + Left + 1 = IndexCount
      BY <2>2 DEF RoomInv, InCalls
    <3>3. Count(bom) \in Nat
      BY <2>2, FileNumbers DEF WriterInv
    <3> QED BY <3>1, <3>2, <3>3
  <2> QED BY <2>1, <2>2 DEF ReservationLasts, InCalls
<1> QED BY <1>2, <1>3, <1>4 DEF LayoutHolds

(* The layout of every catalog holds at every moment of write(), after it, *)
(* with passed-through blocks behind it and with the trailer moved: what   *)
(* write() reserves lasts until its last call whatever was added, and that *)
(* call, for which it is one short, leaves an index section that reaches   *)
(* into the variables and used entries that do not (Writer.cpp:82-255,     *)
(* bom.c:421-456).                                                         *)
THEOREM LayoutOfCatalogs == Spec => []LayoutHolds
<1>1. WriterInv /\ [Next]_vars => WriterInv'
  <2> SUFFICES ASSUME WriterInv, [Next]_vars PROVE WriterInv'
    OBVIOUS
  <2>1. CASE Collect
    BY <2>1, CollectWriterInv
  <2>2. CASE Write
    BY <2>2, HeadWriterInv, TreesWriterInv, FacetWriterInv, RenditionWriterInv, RawWriterInv,
       TailWriterInv
       DEF Write
  <2>3. CASE PassThrough \/ Relocate
    BY <2>3, TailWriterInv
  <2>4. CASE UNCHANGED vars
    BY <2>4, StutterWriterInv
  <2> QED BY <2>1, <2>2, <2>3, <2>4 DEF Next
<1>2. Init => RoomInv
  BY DEF Init, RoomInv, InCalls
<1> QED BY <1>1, <1>2, InitWriterInv, RoomInvStep, WriterInvHolds, PTL DEF Spec

-----------------------------------------------------------------------------
(* Where an entry was before another one came behind the first p. *)
Was(p, k) == IF k <= p THEN k ELSE k - 1

(* An entry that goes into its place: the others stay in their order.      *)
LEMMA EntryPutIn ==
  ASSUME NEW S, NEW s \in Seq(S), NEW e \in S, NEW p \in 0 .. Len(s)
  PROVE  LET w == With(s, p, e)
             old == (1 .. Len(s) + 1) \ {p + 1}
         IN /\ w \in Seq(S) /\ Len(w) = Len(s) + 1 /\ DOMAIN w = 1 .. Len(s) + 1
            /\ w[p + 1] = e
            /\ \A k \in old : Was(p, k) \in 1 .. Len(s) /\ w[k] = s[Was(p, k)]
            /\ \A i, j \in old : i < j => Was(p, i) < Was(p, j)
            /\ \A k \in 1 .. Len(s) : \E i \in old : Was(p, i) = k
            /\ \A k \in old : (k < p + 1 <=> Was(p, k) \in 1 .. p)
<1> DEFINE n == Len(s)
           w == With(s, p, e)
           old == (1 .. n + 1) \ {p + 1}
<1>1. n \in Nat /\ p \in Nat /\ p <= n /\ DOMAIN s = 1..n /\ \A k \in 1..n : s[k] \in S
  BY LenProperties, ElementOfSeq
<1>2. w = [k \in 1 .. n + 1 |-> IF k <= p THEN s[k] ELSE IF k = p + 1 THEN e ELSE s[k - 1]]
  BY DEF With
<1> HIDE DEF n, w
<1>3. \A k \in old : Was(p, k) \in 1..n /\ (k < p + 1 <=> Was(p, k) \in 1..p)
  BY <1>1 DEF Was
<1>4. \A k \in old : w[k] = s[Was(p, k)]
  BY <1>1, <1>2 DEF Was
<1>5. w[p + 1] = e
  BY <1>1, <1>2
<1>6. \A k \in 1 .. n + 1 : w[k] \in S
  <2> SUFFICES ASSUME NEW k \in 1 .. n + 1 PROVE w[k] \in S
    OBVIOUS
  <2>1. CASE k = p + 1
    BY <1>5, <2>1
  <2>2. CASE k # p + 1
    BY <1>1, <1>3, <1>4, <2>2
  <2> QED BY <2>1, <2>2
<1>7. w \in Seq(S) /\ Len(w) = n + 1 /\ DOMAIN w = 1 .. n + 1
  <2>1. w \in [1 .. n + 1 -> S] /\ n + 1 \in Nat
    BY <1>1, <1>2, <1>6
  <2> QED BY <2>1, SeqDef, LenProperties
<1>8. \A i, j \in old : i < j => Was(p, i) < Was(p, j)
  BY <1>1 DEF Was
<1>9. \A k \in 1..n : \E i \in old : Was(p, i) = k
  <2> SUFFICES ASSUME NEW k \in 1..n PROVE \E i \in old : Was(p, i) = k
    OBVIOUS
  <2>1. CASE k <= p
    <3>1. k \in old /\ Was(p, k) = k
      BY <1>1, <2>1 DEF Was
    <3> QED BY <3>1
  <2>2. CASE ~(k <= p)
    <3>1. k + 1 \in old /\ Was(p, k + 1) = k
      BY <1>1, <2>2 DEF Was
    <3> QED BY <3>1
  <2> QED BY <2>1, <2>2
<1> QED BY <1>3, <1>4, <1>5, <1>7, <1>8, <1>9 DEF n, w

(* What the search takes for not greater does not come behind. *)
LEMMA ComparedInOrder ==
  ASSUME NEW a \in Seq(0..255), NEW b \in Seq(0..255), CompareKeys(a, b) <= 0
  PROVE  ~Precedes(b, a)
<1> SUFFICES ASSUME Precedes(b, a) PROVE CompareKeys(a, b) = 1
  OBVIOUS
<1> DEFINE m == Len(a)
           n == Len(b)
<1>1. /\ m \in Nat /\ n \in Nat /\ DOMAIN a = 1..m /\ DOMAIN b = 1..n
      /\ \A k \in 1..m : a[k] \in 0..255
      /\ \A k \in 1..n : b[k] \in 0..255
  BY LenProperties, ElementOfSeq
<1>2. PICK k \in 0..n : /\ k < m /\ SubSeq(b, 1, k) = SubSeq(a, 1, k)
                        /\ k = n \/ (k < n /\ b[k + 1] < a[k + 1])
  BY DEF Precedes
<1>3. \A i \in 1..k : b[i] = a[i]
  <2> SUFFICES ASSUME NEW i \in 1..k PROVE b[i] = a[i]
    OBVIOUS
  <2>1. k \in Int /\ i \in 1 .. k - 1 + 1 /\ 1 + i - 1 = i
    BY <1>1
  <2>2. \A j \in 1..k : a[j] \in 0..255 /\ b[j] \in 0..255
    <3> SUFFICES ASSUME NEW j \in 1..k PROVE a[j] \in 0..255 /\ b[j] \in 0..255
      OBVIOUS
    <3> HIDE DEF m, n
    <3>1. k \in Nat /\ k <= n /\ k <= m
      BY <1>1, <1>2
    <3>4. j \in 1..m /\ j \in 1..n
      BY <1>1, <3>1
    <3>2. a[j] \in 0..255
      BY <1>1, <3>4
    <3>3. b[j] \in 0..255
      BY <1>1, <3>4
    <3> QED BY <3>2, <3>3
  <2>3. SubSeq(b, 1, k)[i] = b[i]
    BY <2>1, <2>2, SubSeqProperties
  <2>4. SubSeq(a, 1, k)[i] = a[i]
    BY <2>1, <2>2, SubSeqProperties
  <2> QED BY <1>2, <2>3, <2>4
<1> DEFINE both == Min({m, n})
           differ == {i \in 1..both : a[i] # b[i]}
           result == Memcmp(a, b, both)
<1>4. both \in {m, n} /\ both <= m /\ both <= n
  <2>1. {m, n} \subseteq Nat /\ {m, n} # {}
    BY <1>1
  <2> HIDE DEF m, n
  <2> QED BY <2>1, MinOfNaturals
<1>5. CompareKeys(a, b) = IF result # 0 THEN result
                          ELSE IF m < n THEN -1 ELSE IF m > n THEN 1 ELSE 0
  BY DEF CompareKeys
<1>6. result = IF differ = {} THEN 0 ELSE IF a[Min(differ)] < b[Min(differ)] THEN -1 ELSE 1
  BY DEF Memcmp
<1> HIDE DEF m, n, both, result
<1>7. CASE k = n
  <2>1. both = n /\ n < m
    BY <1>1, <1>2, <1>4, <1>7
  <2>2. differ = {}
    BY <1>3, <1>7, <2>1
  <2> QED BY <1>1, <1>5, <1>6, <2>1, <2>2
<1>8. CASE k < n /\ b[k + 1] < a[k + 1]
  <2>1. k + 1 \in 1..both /\ both \in Nat /\ k \in Nat
    BY <1>1, <1>2, <1>4, <1>8
  <2>2. k + 1 \in 1..m /\ k + 1 \in 1..n
    BY <1>1, <1>2, <1>8
  <2>3. a[k + 1] \in Int /\ b[k + 1] \in Int
    <3> DEFINE i == k + 1
    <3>1. i \in 1..m /\ i \in 1..n
      BY <2>2
    <3> HIDE DEF i
    <3>2. a[i] \in 0..255
      BY <1>1, <3>1
    <3>3. b[i] \in 0..255
      BY <1>1, <3>1
    <3>4. \A x \in 0..255 : x \in Int
      OBVIOUS
    <3>5. a[i] \in Int /\ b[i] \in Int
      BY <3>2, <3>3, <3>4, Zenon
    <3> QED BY <3>5 DEF i
  <2>4. k + 1 \in differ
    BY <1>8, <2>1, <2>3
  <2>5. \A i \in differ : k + 1 <= i
    BY <1>3, <2>1
  <2>6. Min(differ) \in differ /\ Min(differ) <= k + 1
    <3>1. differ \subseteq Nat /\ differ # {}
      BY <2>1, <2>4
    <3> HIDE DEF differ
    <3> QED BY <2>4, <3>1, MinOfNaturals
  <2>7. Min(differ) = k + 1
    <3>1. Min(differ) \in Int
      BY <2>1, <2>6
    <3> HIDE DEF differ
    <3> QED BY <2>1, <2>5, <2>6, <3>1
  <2> HIDE DEF differ
  <2> QED BY <1>5, <1>6, <1>8, <2>3, <2>4, <2>7
<1> QED BY <1>2, <1>7, <1>8

-----------------------------------------------------------------------------
(* What a facet or a rendition becomes: a key and a value.  Of renditions  *)
(* there are two kinds.                                                    *)
FacetItem(name) == [key |-> name, value |-> [pairs |-> PairsOf(facets[name])]]

RenditionItem(r) ==
  IF r[1] = "structured"
  THEN [key   |-> KeyBytes(ValuesOf(renditions[r[2]].attributes, FormatToWrite)),
        value |-> [payload |-> renditions[r[2]].payload]]
  ELSE [key   |-> rawRenditions[r[2]].key,
        value |-> [payload |-> rawRenditions[r[2]].payload]]

FacetItems(names) == [name \in names |-> FacetItem(name)]

RenditionItems(structured, raw) ==
  [r \in ({"structured"} \X structured) \cup ({"raw"} \X raw) |-> RenditionItem(r)]

Slots(S) == [value : S, key : S]

(* The entry refers to two blocks with the key and the value of the item. *)
Stands(b, entry, item) ==
  /\ entry.key # entry.value
  /\ Block(b, entry.key) = [bytes |-> item.key] /\ Block(b, entry.value) = item.value

(* Among the blocks from lo to below hi, and in no other, a tree is stored *)
(* with the entries es, of which each stands for one of the items, and its *)
(* leaf has room for so many more: entries in order, of which no two share *)
(* a block, and none has that of a node.                                   *)
Held(b, name, lo, hi, items, room, es, of) ==
  LET root  == VariableGet(b, name)
      child == ChildIndex(b, name)
  IN /\ root \in lo .. hi - 1 /\ child \in lo .. hi - 1 /\ child # root
     /\ Block(b, root) = [child |-> child, path_count |-> Block(b, root).path_count]
     /\ Block(b, root).path_count \in Nat
     /\ Block(b, child) = Node(TRUE, es, 0, 0)
     /\ es \in Seq(Slots((lo .. hi - 1) \ {root, child}))
     /\ \A i, j \in DOMAIN es : i # j =>
          {es[i].key, es[i].value} \cap {es[j].key, es[j].value} = {}
     /\ of \in Bijection(DOMAIN es, DOMAIN items)
     /\ \A i \in DOMAIN es : Stands(b, es[i], items[of[i]])
     /\ \A i, j \in DOMAIN es : i < j => ~Precedes(KeyOf(b, es[j]), KeyOf(b, es[i]))
     /\ LeafHeaderSize + SlotSize * (Len(es) + room) <= LengthOf(b, child)

(* There is such a tree: its entries are those of its leaf. *)
TreeHolds(b, name, lo, hi, items, room) ==
  LET es == EntriesOfTree(b, name)
  IN \E of \in Bijection(DOMAIN es, DOMAIN items) : Held(b, name, lo, hi, items, room, es, of)

NoTrees(b) == Absent(b, "FACETKEYS") /\ Absent(b, "RENDITIONS")

(* First the tree of the facets, and behind it that of the renditions. *)
BothTrees(b, first, second, room) ==
  \E m \in 1 .. Count(b) :
    /\ TreeHolds(b, "FACETKEYS", 1, m, first, 0)
    /\ TreeHolds(b, "RENDITIONS", m, Count(b), second, room)

(* What has been put into the trees so far, and what shall be in the end. *)
WrittenFacets     == FacetItems(DOMAIN facets \ todo)
WrittenRenditions == RenditionItems(DOMAIN renditions \ todo, {})
WrittenRaw        == RenditionItems(DOMAIN renditions, DOMAIN rawRenditions \ todo)

AllFacets     == FacetItems(DOMAIN facets)
AllRenditions == RenditionItems(DOMAIN renditions, DOMAIN rawRenditions)

(* What was added is of its types. *)
TypedInput ==
  /\ \A k \in DOMAIN renditions : renditions[k].payload \in Payloads
  /\ \A k \in DOMAIN rawRenditions :
       rawRenditions[k].key \in Seq(0..255) /\ rawRenditions[k].payload \in Payloads
  /\ header \in Headers \cup {NoHeader}

(* A file with a layout, blocks of the known kinds, and variables that do  *)
(* not refer to the vacant block.                                          *)
TypedFile(b) ==
  /\ IsFile(b) /\ b.layout \in Layouts
  /\ \A i \in 0 .. Count(b) - 1 : Block(b, i) \in Contents
  /\ \A k \in DOMAIN b.variables : b.variables[k].index \in 1 .. Count(b) - 1

(* The inductive invariant of what is in the file: the trees have what has *)
(* been put into them, and there is room for all that is still to come.    *)
TreesInv ==
  /\ TypedInput /\ TypedFile(bom)
  /\ pc # "collect" => Count(bom) > 0
  /\ pc \in Before \cup {"failed"} => NoTrees(bom)
  /\ pc = "facets" =>
       TreeHolds(bom, "FACETKEYS", 1, Count(bom), WrittenFacets, Cardinality(todo))
  /\ pc = "renditions" =>
       /\ todo \subseteq DOMAIN renditions
       /\ BothTrees(bom, AllFacets, WrittenRenditions, Cardinality(todo) + Len(rawRenditions))
  /\ pc = "raw" => BothTrees(bom, AllFacets, WrittenRaw, Cardinality(todo))
  /\ pc = "written" => BothTrees(bom, AllFacets, AllRenditions, 0)
  /\ pc = "relocated" => NoTrees(bom) \/ BothTrees(bom, AllFacets, AllRenditions, 0)

-----------------------------------------------------------------------------
(* The entries that are held are those of the leaf. *)
LEMMA HeldTree ==
  ASSUME NEW b, NEW name, NEW lo, NEW hi, NEW items, NEW room, NEW es, NEW of,
         Held(b, name, lo, hi, items, room, es, of)
  PROVE  /\ TreeHolds(b, name, lo, hi, items, room) /\ EntriesOfTree(b, name) = es
         /\ DOMAIN es = 1 .. Len(es) /\ Len(es) \in Nat
<1>1. Block(b, ChildIndex(b, name)) = Node(TRUE, es, 0, 0)
  BY Zenon DEF Held
<1>2. EntriesOfTree(b, name) = es
  BY <1>1 DEF EntriesOfTree, Node
<1>3. of \in Bijection(DOMAIN es, DOMAIN items)
  BY Zenon DEF Held
<1>4. es \in Seq(Slots((lo .. hi - 1) \ {VariableGet(b, name), ChildIndex(b, name)}))
  BY Zenon DEF Held
<1>5. DOMAIN es = 1 .. Len(es) /\ Len(es) \in Nat
  BY <1>4, LenProperties
<1> QED BY <1>2, <1>3, <1>5, Zenon DEF TreeHolds

(* The tree in a file in which its blocks are the same, if no shorter. *)
LEMMA TreeStays ==
  ASSUME NEW b, NEW c, NEW name, NEW lo \in Int, NEW hi \in Int, NEW items, NEW room \in Nat,
         TreeHolds(b, name, lo, hi, items, room), VariableGet(c, name) = VariableGet(b, name),
         \A i \in lo .. hi - 1 : /\ Block(c, i) = Block(b, i) /\ LengthOf(b, i) \in Nat
                                 /\ LengthOf(c, i) \in Nat /\ LengthOf(c, i) >= LengthOf(b, i),
         NEW low \in Int, low <= lo, NEW high \in Int, hi <= high,
         NEW less \in Nat, less <= room
  PROVE  TreeHolds(c, name, low, high, items, less)
<1> DEFINE t == VariableGet(b, name)
           k == ChildIndex(b, name)
           es == EntriesOfTree(b, name)
           S == Slots((lo .. hi - 1) \ {t, k})
           T == Slots((low .. high - 1) \ {t, k})
<1>1. PICK of : Held(b, name, lo, hi, items, room, es, of)
  BY DEF TreeHolds
<1>2. /\ t \in lo .. hi - 1 /\ k \in lo .. hi - 1 /\ k # t
      /\ Block(b, t) = [child |-> k, path_count |-> Block(b, t).path_count]
      /\ Block(b, t).path_count \in Nat
      /\ Block(b, k) = Node(TRUE, es, 0, 0)
      /\ es \in Seq(S)
      /\ \A i, j \in DOMAIN es : i # j =>
           {es[i].key, es[i].value} \cap {es[j].key, es[j].value} = {}
      /\ of \in Bijection(DOMAIN es, DOMAIN items)
      /\ \A i \in DOMAIN es : Stands(b, es[i], items[of[i]])
      /\ \A i, j \in DOMAIN es : i < j => ~Precedes(KeyOf(b, es[j]), KeyOf(b, es[i]))
      /\ LeafHeaderSize + SlotSize * (Len(es) + room) <= LengthOf(b, k)
  BY <1>1, Zenon DEF Held
<1>3. VariableGet(c, name) = t /\ Block(c, t) = Block(b, t)
  BY <1>2
<1>4. ChildIndex(c, name) = k
  BY <1>3 DEF ChildIndex, TreeIndex
<1> HIDE DEF t, k, es
<1>5. /\ t \in low .. high - 1 /\ k \in low .. high - 1
      /\ (lo .. hi - 1) \ {t, k} \subseteq (low .. high - 1) \ {t, k}
  <2>1. \A i \in lo .. hi - 1 : i \in low .. high - 1
    OBVIOUS
  <2>2. t \in lo .. hi - 1 /\ k \in lo .. hi - 1
    BY <1>2
  <2> QED BY <2>1, <2>2
<1>6. S \subseteq T
  BY <1>5 DEF Slots
<1>7. DOMAIN es = 1 .. Len(es) /\ Len(es) \in Nat /\ \A i \in DOMAIN es : es[i] \in S
  <2> HIDE DEF S
  <2> QED BY <1>2, LenProperties, ElementOfSeq
<1>8. es \in Seq(T)
  <2> HIDE DEF S, T
  <2>1. es \in [1 .. Len(es) -> T]
    BY <1>2, <1>6, <1>7, LenProperties
  <2> QED BY <1>7, <2>1, SeqDef
<1>9. ASSUME NEW i \in DOMAIN es
      PROVE  Block(c, es[i].key) = Block(b, es[i].key) /\ Block(c, es[i].value) = Block(b, es[i].value)
  <2>1. es[i].key \in lo .. hi - 1 /\ es[i].value \in lo .. hi - 1
    BY <1>7 DEF Slots
  <2> QED BY <2>1
<1>10. \A i \in DOMAIN es : Stands(c, es[i], items[of[i]])
  BY <1>2, <1>9 DEF Stands
<1>11. \A i, j \in DOMAIN es : i < j => ~Precedes(KeyOf(c, es[j]), KeyOf(c, es[i]))
  BY <1>2, <1>9 DEF KeyOf
<1>12. LeafHeaderSize + SlotSize * (Len(es) + less) <= LengthOf(c, k)
  <2>1. LengthOf(b, k) \in Nat /\ LengthOf(c, k) \in Nat /\ LengthOf(c, k) >= LengthOf(b, k)
    BY <1>2
  <2>2. 12 + 8 * (Len(es) + room) <= LengthOf(b, k)
    BY <1>2 DEF LeafHeaderSize, SlotSize
  <2> DEFINE x == LengthOf(b, k)  y == LengthOf(c, k)  n == Len(es)
  <2>3. x \in Nat /\ y \in Nat /\ y >= x /\ n \in Nat /\ 12 + 8 * (n + room) <= x
    BY <1>7, <2>1, <2>2
  <2> HIDE DEF x, y, n
  <2>4. 12 + 8 * (n + less) <= y
    BY <2>3
  <2> QED BY <2>4 DEF x, y, n, LeafHeaderSize, SlotSize
<1>13. Block(c, k) = Node(TRUE, es, 0, 0)
  BY <1>2
<1>14. Held(c, name, low, high, items, less, es, of)
  BY <1>2, <1>3, <1>4, <1>5, <1>8, <1>10, <1>11, <1>12, <1>13, Zenon DEF Held
<1> QED BY <1>14, HeldTree

(* A tree that is new, with the room that was reserved. *)
LEMMA TreeBegun ==
  ASSUME NEW b, Open(b), SoundLayout(b.layout), NEW name, NameLength(name) \in Nat,
         Absent(b, name), NEW n \in Nat, NEW items, DOMAIN items = {}
  PROVE  LET c == TreeReserve(TreeAllocEmpty(b, name), name, n)
         IN /\ Open(c) /\ Extends(b, c) /\ Count(c) = Count(b) + 2
            /\ TreeHolds(c, name, Count(b), Count(c), items, n)
            /\ c.variables = Append(b.variables, [name |-> name, index |-> Count(b) + 1])
            /\ \A other : other # name => VariableGet(c, other) = VariableGet(b, other)
            /\ Block(c, Count(b)) = EmptyLeaf
            /\ Block(c, Count(b) + 1) = [child |-> Count(b), path_count |-> 0]
<1> DEFINE a == TreeAllocEmpty(b, name)
           c == TreeReserve(TreeAllocEmpty(b, name), name, n)
           N == Count(b)
<1>1. /\ Open(a) /\ SoundLayout(a.layout) /\ TreeReady(a, name)
      /\ Extends(b, a) /\ Count(a) = N + 2
      /\ a.variables = Append(b.variables, [name |-> name, index |-> N + 1])
      /\ \A other : other # name => VariableGet(a, other) = VariableGet(b, other)
      /\ VariableGet(a, name) = N + 1 /\ ChildIndex(a, name) = N
      /\ Block(a, N) = EmptyLeaf /\ LengthOf(a, N) >= NodeSize
      /\ Block(a, N + 1) = [child |-> N, path_count |-> 0]
  BY TreeMade
<1>2. c = TreeReserve(a, name, n) /\ N \in Nat
  BY FileNumbers
<1> HIDE DEF a, c, N
<1>3. /\ Open(c) /\ c.variables = a.variables /\ Extends(a, c) /\ Count(c) = Count(a)
      /\ VariableGet(c, name) = VariableGet(a, name)
      /\ ChildIndex(c, name) = ChildIndex(a, name)
      /\ LengthOf(c, ChildIndex(a, name)) = LengthOf(a, ChildIndex(a, name)) + SlotSize * n
  BY <1>1, <1>2, TreeReserved
<1>4. Extends(b, c)
  BY <1>1, <1>3, ExtendsTwice
<1>5. N \in 0 .. Count(a) - 1 /\ N + 1 \in 0 .. Count(a) - 1 /\ N # N + 1
      /\ N \in N .. Count(c) - 1 /\ N + 1 \in N .. Count(c) - 1
  BY <1>1, <1>2, <1>3
<1>6. Block(c, N) = EmptyLeaf /\ Block(c, N + 1) = [child |-> N, path_count |-> 0]
  BY <1>1, <1>3, <1>5 DEF Extends
<1>7. LeafHeaderSize + SlotSize * (Len(<< >>) + n) <= LengthOf(c, N)
  <2>1. LengthOf(a, N) \in Nat
    BY <1>1, <1>5, FileNumbers
  <2>2. LengthOf(c, N) = LengthOf(a, N) + 8 * n /\ LengthOf(a, N) >= NodeSize
        /\ NodeSize >= 12 /\ NodeSize \in Nat
    BY <1>1, <1>3, SizesAssumption DEF SlotSize, LeafHeaderSize
  <2> DEFINE x == LengthOf(a, N)  y == LengthOf(c, N)
  <2>3. x \in Nat /\ y = x + 8 * n /\ x >= NodeSize
    BY <2>1, <2>2
  <2> HIDE DEF x, y
  <2>4. 12 + 8 * (0 + n) <= y
    BY <2>2, <2>3
  <2> QED BY <2>4 DEF x, y, SlotSize, LeafHeaderSize
<1>8. Held(c, name, N, Count(c), items, n, << >>, << >>)
  <2>1. << >> \in Seq(Slots((N .. Count(c) - 1) \ {VariableGet(c, name), ChildIndex(c, name)}))
    OBVIOUS
  <2>2. DOMAIN << >> = {}
    OBVIOUS
  <2>3. << >> \in Bijection(DOMAIN << >>, DOMAIN items)
    BY <2>2 DEF Bijection, Injection, Surjection, IsInjective
  <2>4. Block(c, VariableGet(c, name))
          = [child |-> ChildIndex(c, name), path_count |-> Block(c, VariableGet(c, name)).path_count]
        /\ Block(c, VariableGet(c, name)).path_count \in Nat
    BY <1>1, <1>3, <1>6
  <2>5. Block(c, ChildIndex(c, name)) = Node(TRUE, << >>, 0, 0)
    BY <1>1, <1>3, <1>6 DEF EmptyLeaf
  <2>6. VariableGet(c, name) = N + 1 /\ ChildIndex(c, name) = N
    BY <1>1, <1>3
  <2>7. /\ VariableGet(c, name) \in N .. Count(c) - 1 /\ ChildIndex(c, name) \in N .. Count(c) - 1
        /\ ChildIndex(c, name) # VariableGet(c, name)
        /\ LeafHeaderSize + SlotSize * (Len(<< >>) + n) <= LengthOf(c, ChildIndex(c, name))
    BY <1>5, <1>7, <2>6
  <2> QED BY <2>1, <2>2, <2>3, <2>4, <2>5, <2>7, Zenon DEF Held
<1>9. TreeHolds(c, name, N, Count(c), items, n)
  BY <1>8, HeldTree
<1>10. \A other : other # name => VariableGet(c, other) = VariableGet(b, other)
  <2> SUFFICES ASSUME NEW other, other # name
               PROVE  VariableGet(c, other) = VariableGet(b, other)
    OBVIOUS
  <2>1. c.variables = a.variables
    BY <1>3
  <2>2. VariableGet(c, other) = VariableGet(a, other)
    BY <2>1, Zenon DEF VariableGet
  <2>3. VariableGet(a, other) = VariableGet(b, other)
    BY <1>1
  <2> QED BY <2>2, <2>3
<1>11. c.variables = Append(b.variables, [name |-> name, index |-> N + 1]) /\ Count(c) = N + 2
  BY <1>1, <1>3
<1> QED BY <1>3, <1>4, <1>6, <1>9, <1>10, <1>11 DEF c, N

(* The items of one more entry. *)
OneMore(items, x, key, value, more) ==
  /\ x \notin DOMAIN items /\ DOMAIN more = DOMAIN items \cup {x}
  /\ \A y \in DOMAIN items : more[y] = items[y]
  /\ more[x].key = key /\ more[x].value = value

(* Which items the entries stand for, with one more behind the first p. *)
LEMMA OneMoreStandsFor ==
  ASSUME NEW n \in Nat, NEW p \in 0..n, NEW T, NEW x, x \notin T, NEW of \in Bijection(1..n, T),
         \A k \in (1 .. n + 1) \ {p + 1} : Was(p, k) \in 1..n,
         \A i, j \in (1 .. n + 1) \ {p + 1} : i < j => Was(p, i) < Was(p, j),
         \A k \in 1..n : \E i \in (1 .. n + 1) \ {p + 1} : Was(p, i) = k
  PROVE  [k \in 1 .. n + 1 |-> IF k = p + 1 THEN x ELSE of[Was(p, k)]]
           \in Bijection(1 .. n + 1, T \cup {x})
<1> DEFINE f == [k \in 1 .. n + 1 |-> IF k = p + 1 THEN x ELSE of[Was(p, k)]]
           old == (1 .. n + 1) \ {p + 1}
<1>1. /\ of \in [1..n -> T] /\ \A i, j \in 1..n : of[i] = of[j] => i = j
      /\ \A y \in T : \E i \in 1..n : of[i] = y
  BY DEF Bijection, Injection, Surjection, IsInjective
<1>2. p + 1 \in 1 .. n + 1
  OBVIOUS
<1>3. f[p + 1] = x /\ \A k \in old : f[k] = of[Was(p, k)] /\ f[k] \in T
  BY <1>1, <1>2
<1>4. DOMAIN f = 1 .. n + 1 /\ \A k \in 1 .. n + 1 : k \in old \/ k = p + 1
  OBVIOUS
<1>5. \A i, j \in old : Was(p, i) = Was(p, j) => i = j
  <2> SUFFICES ASSUME NEW i \in old, NEW j \in old, Was(p, i) = Was(p, j), i # j PROVE FALSE
    OBVIOUS
  <2>1. Was(p, i) \in Int /\ Was(p, j) \in Int /\ (i < j \/ j < i)
    OBVIOUS
  <2> QED BY <2>1
<1> HIDE DEF f, old
<1>6. f \in [1 .. n + 1 -> T \cup {x}]
  <2>1. f = [k \in 1 .. n + 1 |-> f[k]]
    BY DEF f
  <2> QED BY <1>3, <1>4, <2>1
<1>7. \A i, j \in 1 .. n + 1 : f[i] = f[j] => i = j
  <2> SUFFICES ASSUME NEW i \in 1 .. n + 1, NEW j \in 1 .. n + 1, f[i] = f[j] PROVE i = j
    OBVIOUS
  <2>1. CASE i \in old /\ j \in old
    <3>1. Was(p, i) \in 1..n /\ Was(p, j) \in 1..n
      BY <2>1 DEF old
    <3> QED BY <1>1, <1>3, <1>5, <2>1, <3>1
  <2> QED BY <1>3, <1>4, <2>1
<1>8. \A y \in T \cup {x} : \E k \in 1 .. n + 1 : f[k] = y
  <2> SUFFICES ASSUME NEW y \in T PROVE \E k \in 1 .. n + 1 : f[k] = y
    BY <1>2, <1>3
  <2>1. PICK i \in 1..n : of[i] = y
    BY <1>1
  <2>2. PICK k \in old : Was(p, k) = i
    BY DEF old
  <2>3. k \in 1 .. n + 1
    BY DEF old
  <2> QED BY <1>3, <2>1, <2>2, <2>3
<1>9. f \in Bijection(1 .. n + 1, T \cup {x})
  BY <1>6, <1>7, <1>8 DEF Bijection, Injection, Surjection, IsInjective
<1> QED BY <1>9 DEF f

(* A leaf with one more entry is a leaf. *)
LEMMA NodeWith ==
  ASSUME NEW es, NEW p, NEW e
  PROVE  LeafWith(Node(TRUE, es, 0, 0), p, e) = Node(TRUE, With(es, p, e), 0, 0)
<1> DEFINE w == With(es, p, e)
           yes == TRUE
           node == Node(TRUE, es, 0, 0)
<1>1. node.entries = es
  BY DEF Node
<1>2. LeafWith(node, p, e) = [node EXCEPT !.entries = w]
  BY <1>1, Zenon DEF LeafWith
<1>3. node = [is_leaf |-> yes, entries |-> es, forward |-> 0, backward |-> 0]
  BY DEF Node
<1> HIDE DEF w, yes, node
<1>4. [node EXCEPT !.entries = w] = [is_leaf |-> yes, entries |-> w, forward |-> 0, backward |-> 0]
  BY <1>3
<1> QED BY <1>2, <1>4 DEF Node, w, yes, node

(* bom_tree_add takes one of the places out of the room. *)
LEMMA TreeGrows ==
  ASSUME NEW b, Open(b), NEW c, Open(c), NEW name, NEW lo \in Nat, NEW items, NEW room \in Nat,
         NEW key \in Seq(0..255), NEW value, NEW p \in Places(b, name, key),
         TreeHolds(b, name, lo, Count(b), items, room + 1),
         \A y \in DOMAIN items : items[y].key \in Seq(0..255),
         NEW x, NEW more, OneMore(items, x, key, value, more),
         HasEntry(b, c, name, key, value, p), c.variables = b.variables
  PROVE  TreeHolds(c, name, lo, Count(c), more, room)
<1> DEFINE t == VariableGet(b, name)
           k == ChildIndex(b, name)
           N == Count(b)
           es == EntriesOfTree(b, name)
           n == Len(es)
           e == [value |-> N + 1, key |-> N]
           w == With(es, p, e)
           S == Slots((lo .. N - 1) \ {t, k})
           T == Slots((lo .. N + 1) \ {t, k})
           old == (1 .. n + 1) \ {p + 1}
<1>1. PICK of : Held(b, name, lo, N, items, room + 1, es, of)
  BY DEF TreeHolds
<1>2. /\ t \in lo .. N - 1 /\ k \in lo .. N - 1 /\ k # t
      /\ Block(b, t) = [child |-> k, path_count |-> Block(b, t).path_count]
      /\ Block(b, t).path_count \in Nat
      /\ Block(b, k) = Node(TRUE, es, 0, 0)
      /\ es \in Seq(S)
      /\ \A i, j \in DOMAIN es : i # j =>
           {es[i].key, es[i].value} \cap {es[j].key, es[j].value} = {}
      /\ of \in Bijection(DOMAIN es, DOMAIN items)
      /\ \A i \in DOMAIN es : Stands(b, es[i], items[of[i]])
      /\ \A i, j \in DOMAIN es : i < j => ~Precedes(KeyOf(b, es[j]), KeyOf(b, es[i]))
      /\ LeafHeaderSize + SlotSize * (n + (room + 1)) <= LengthOf(b, k)
  BY <1>1, Zenon DEF Held
<1>3. /\ Count(c) = N + 2 /\ ChildIndex(c, name) = k
      /\ Block(c, t) = RootCounted(Block(b, t)) /\ Block(c, k) = LeafWith(Block(b, k), p, e)
      /\ Block(c, N) = [bytes |-> key] /\ Block(c, N + 1) = value
      /\ \A i \in 0 .. N - 1 : /\ LengthOf(c, i) >= LengthOf(b, i)
                               /\ i \notin {t, k} => Block(c, i) = Block(b, i)
  BY Zenon DEF HasEntry
<1>4. VariableGet(c, name) = t /\ N \in Nat
  BY FileNumbers DEF VariableGet
<1>5. /\ p \in 0 .. n
      /\ \A i \in 1..p : CompareKeys(KeyOf(b, es[i]), key) <= 0
      /\ \A i \in p + 1 .. n : CompareKeys(key, KeyOf(b, es[i])) <= 0
  BY DEF Places, EntriesOfTree
<1>6. Block(c, t) = [child |-> k, path_count |-> Block(b, t).path_count + 1]
  <2> DEFINE q == Block(b, t).path_count
  <2>1. Block(b, t) = [child |-> k, path_count |-> q]
    BY <1>2
  <2> HIDE DEF q, k
  <2>2. RootCounted([child |-> k, path_count |-> q]) = [child |-> k, path_count |-> q + 1]
    BY DEF RootCounted
  <2> QED BY <1>3, <2>1, <2>2 DEF q
<1>7. Block(c, k) = Node(TRUE, w, 0, 0)
  <2> HIDE DEF es, e
  <2>1. LeafWith(Node(TRUE, es, 0, 0), p, e) = Node(TRUE, w, 0, 0)
    BY NodeWith, Zenon
  <2> QED BY <1>2, <1>3, <2>1
<1> HIDE DEF t, k, N, es, n
<1>8. DOMAIN es = 1..n /\ n \in Nat /\ \A i \in 1..n : es[i] \in S
  <2> HIDE DEF S
  <2> QED BY <1>2, LenProperties, ElementOfSeq DEF n
<1>9. S \subseteq T /\ e \in T
  <2>1. (lo .. N - 1) \ {t, k} \subseteq (lo .. N + 1) \ {t, k}
    BY <1>4
  <2>2. N \in (lo .. N + 1) \ {t, k} /\ N + 1 \in (lo .. N + 1) \ {t, k}
    BY <1>2, <1>4
  <2> QED BY <2>1, <2>2 DEF Slots
<1>10. es \in Seq(T)
  <2> HIDE DEF S, T
  <2>1. es \in [1..n -> T]
    BY <1>2, <1>8, <1>9, LenProperties DEF n
  <2> QED BY <1>8, <2>1, SeqDef
<1>11. \A i \in 1..n : /\ es[i].key \in lo .. N - 1 /\ es[i].key \notin {t, k}
                       /\ es[i].value \in lo .. N - 1 /\ es[i].value \notin {t, k}
  BY <1>8 DEF Slots
<1> HIDE DEF S, T, e, w
<1>12. /\ w \in Seq(T) /\ Len(w) = n + 1 /\ DOMAIN w = 1 .. n + 1 /\ w[p + 1] = e
       /\ \A i \in old : Was(p, i) \in 1..n /\ w[i] = es[Was(p, i)]
       /\ \A i, j \in old : i < j => Was(p, i) < Was(p, j)
       /\ \A i \in 1..n : \E j \in old : Was(p, j) = i
       /\ \A i \in old : (i < p + 1 <=> Was(p, i) \in 1..p)
  <2>1. p \in 0 .. Len(es) /\ n = Len(es)
    BY <1>5 DEF n
  <2> DEFINE v == With(es, p, e)
  <2>2. /\ v \in Seq(T) /\ Len(v) = Len(es) + 1 /\ DOMAIN v = 1 .. Len(es) + 1
        /\ v[p + 1] = e
        /\ \A i \in (1 .. Len(es) + 1) \ {p + 1} :
             Was(p, i) \in 1 .. Len(es) /\ v[i] = es[Was(p, i)]
        /\ \A i, j \in (1 .. Len(es) + 1) \ {p + 1} : i < j => Was(p, i) < Was(p, j)
        /\ \A i \in 1 .. Len(es) : \E j \in (1 .. Len(es) + 1) \ {p + 1} : Was(p, j) = i
        /\ \A i \in (1 .. Len(es) + 1) \ {p + 1} : (i < p + 1 <=> Was(p, i) \in 1..p)
    BY <1>9, <1>10, <2>1, EntryPutIn
  <2>3. v = w
    BY DEF w
  <2> HIDE DEF v
  <2> QED BY <2>1, <2>2, <2>3, Zenon
<1>13. e.key = N /\ e.value = N + 1
  BY DEF e
<1>14. \A i \in 1 .. n + 1 : i \in old \/ i = p + 1
  OBVIOUS
<1> HIDE DEF old
<1>15. \A i, j \in DOMAIN w : i # j => {w[i].key, w[i].value} \cap {w[j].key, w[j].value} = {}
  <2> SUFFICES ASSUME NEW i \in 1 .. n + 1, NEW j \in 1 .. n + 1, i # j
               PROVE  {w[i].key, w[i].value} \cap {w[j].key, w[j].value} = {}
    BY <1>12
  <2>1. ASSUME NEW l \in old
        PROVE  {w[l].key, w[l].value} \cap {N, N + 1} = {}
    <3>1. w[l].key \in lo .. N - 1 /\ w[l].value \in lo .. N - 1
      BY <1>11, <1>12
    <3> QED BY <1>4, <3>1
  <2>2. CASE i \in old /\ j \in old
    <3>1. Was(p, i) \in 1..n /\ Was(p, j) \in 1..n
      BY <1>12, <2>2
    <3>2. Was(p, i) # Was(p, j)
      <4>1. i < j \/ j < i
        BY <1>8
      <4>2. Was(p, i) < Was(p, j) \/ Was(p, j) < Was(p, i)
        BY <1>12, <2>2, <4>1
      <4> QED BY <1>8, <3>1, <4>2
    <3> QED BY <1>2, <1>8, <1>12, <2>2, <3>1, <3>2
  <2>3. CASE i = p + 1 /\ j \in old
    BY <1>12, <1>13, <2>1, <2>3
  <2>4. CASE j = p + 1 /\ i \in old
    BY <1>12, <1>13, <2>1, <2>4
  <2> QED BY <1>14, <2>2, <2>3, <2>4
<1> DEFINE for == [i \in 1 .. n + 1 |-> IF i = p + 1 THEN x ELSE of[Was(p, i)]]
<1>16. for \in Bijection(DOMAIN w, DOMAIN more)
  <2>1. of \in Bijection(1..n, DOMAIN items) /\ x \notin DOMAIN items
        /\ DOMAIN more = DOMAIN items \cup {x}
    BY <1>2, <1>8 DEF OneMore
  <2>2. p \in 0..n /\ n \in Nat
    BY <1>5, <1>8
  <2>3. /\ \A i \in (1 .. n + 1) \ {p + 1} : Was(p, i) \in 1..n
        /\ \A i, j \in (1 .. n + 1) \ {p + 1} : i < j => Was(p, i) < Was(p, j)
        /\ \A i \in 1..n : \E j \in (1 .. n + 1) \ {p + 1} : Was(p, j) = i
    BY <1>12 DEF old
  <2> DEFINE items2 == DOMAIN items
  <2>4. of \in Bijection(1..n, items2) /\ x \notin items2
    BY <2>1
  <2> HIDE DEF items2
  <2>5. [i \in 1 .. n + 1 |-> IF i = p + 1 THEN x ELSE of[Was(p, i)]]
          \in Bijection(1 .. n + 1, items2 \cup {x})
    BY <2>2, <2>3, <2>4, OneMoreStandsFor
  <2> QED BY <1>12, <2>1, <2>5 DEF items2
<1>17. \A i \in 1..n : of[i] \in DOMAIN items
  BY <1>2, <1>8 DEF Bijection, Injection
<1>18. ASSUME NEW i \in 1..n
       PROVE  /\ Block(c, es[i].key) = Block(b, es[i].key)
              /\ Block(c, es[i].value) = Block(b, es[i].value)
  <2>1. es[i].key \in 0 .. N - 1 /\ es[i].value \in 0 .. N - 1
    BY <1>4, <1>11
  <2> QED BY <1>3, <1>11, <2>1
<1>19. ASSUME NEW i \in DOMAIN w PROVE Stands(c, w[i], more[for[i]])
  <2>1. CASE i \in old
    <3>1. Was(p, i) \in 1..n /\ w[i] = es[Was(p, i)]
      BY <1>12, <2>1
    <3>2. for[i] = of[Was(p, i)]
      <4>1. i # p + 1 /\ i \in 1 .. n + 1
        BY <2>1 DEF old
      <4> QED BY <4>1
    <3>3. more[for[i]] = items[of[Was(p, i)]]
      BY <1>17, <3>1, <3>2 DEF OneMore
    <3> QED BY <1>2, <1>8, <1>18, <3>1, <3>3 DEF Stands
  <2>2. CASE i = p + 1
    <3>1. for[i] = x
      BY <1>12, <2>2
    <3>2. w[i].key = N /\ w[i].value = N + 1
      BY <1>12, <1>13, <2>2
    <3>3. N # N + 1
      BY <1>4
    <3> QED BY <1>3, <3>1, <3>2, <3>3 DEF Stands, OneMore
  <2> QED BY <1>12, <1>14, <2>1, <2>2
<1>20. ASSUME NEW i \in 1..n
       PROVE  KeyOf(b, es[i]) \in Seq(0..255) /\ KeyOf(c, es[i]) = KeyOf(b, es[i])
  <2>1. Block(b, es[i].key) = [bytes |-> items[of[i]].key]
    BY <1>2, <1>8 DEF Stands
  <2>2. Block(b, es[i].key).bytes = items[of[i]].key
    BY <2>1
  <2> QED BY <1>17, <1>18, <2>2 DEF KeyOf
<1>21. KeyOf(c, e) = key
  BY <1>3, <1>13 DEF KeyOf
<1>22. \A i, j \in DOMAIN w : i < j => ~Precedes(KeyOf(c, w[j]), KeyOf(c, w[i]))
  <2> SUFFICES ASSUME NEW i \in 1 .. n + 1, NEW j \in 1 .. n + 1, i < j
               PROVE  ~Precedes(KeyOf(c, w[j]), KeyOf(c, w[i]))
    BY <1>12
  <2>1. CASE i \in old /\ j \in old
    <3>1. /\ Was(p, i) \in 1..n /\ Was(p, j) \in 1..n /\ Was(p, i) < Was(p, j)
          /\ w[i] = es[Was(p, i)] /\ w[j] = es[Was(p, j)]
      BY <1>12, <2>1
    <3> QED BY <1>2, <1>8, <1>20, <3>1
  <2>2. CASE i = p + 1 /\ j \in old
    <3>1. /\ Was(p, j) \in 1..n /\ w[j] = es[Was(p, j)] /\ ~(Was(p, j) \in 1..p)
          /\ w[i] = e
      <4>1. ~(j < p + 1)
        BY <1>5, <1>8, <2>2
      <4> QED BY <1>12, <2>2, <4>1
    <3>2. Was(p, j) \in p + 1 .. n
      BY <1>5, <1>8, <3>1
    <3>3. CompareKeys(key, KeyOf(b, es[Was(p, j)])) <= 0
      BY <1>5, <3>2
    <3> QED BY <1>20, <1>21, <3>1, <3>3, ComparedInOrder
  <2>3. CASE j = p + 1 /\ i \in old
    <3>1. /\ Was(p, i) \in 1..n /\ w[i] = es[Was(p, i)] /\ Was(p, i) \in 1..p /\ w[j] = e
      <4>1. i < p + 1
        BY <2>3
      <4> QED BY <1>12, <2>3, <4>1
    <3>2. CompareKeys(KeyOf(b, es[Was(p, i)]), key) <= 0
      BY <1>5, <3>1
    <3> QED BY <1>20, <1>21, <3>1, <3>2, ComparedInOrder
  <2> QED BY <1>8, <1>14, <2>1, <2>2, <2>3
<1>23. LeafHeaderSize + SlotSize * (Len(w) + room) <= LengthOf(c, k)
  <2>1. k \in 0 .. N - 1 /\ k \in 0 .. Count(c) - 1
    BY <1>2, <1>3, <1>4
  <2>2. LengthOf(b, k) \in Nat /\ LengthOf(c, k) \in Nat /\ LengthOf(c, k) >= LengthOf(b, k)
    BY <1>3, <2>1, FileNumbers DEF N
  <2>3. 12 + 8 * (n + (room + 1)) <= LengthOf(b, k)
    BY <1>2 DEF LeafHeaderSize, SlotSize
  <2> DEFINE y == LengthOf(b, k)  z == LengthOf(c, k)
  <2>4. y \in Nat /\ z \in Nat /\ z >= y /\ 12 + 8 * (n + (room + 1)) <= y
    BY <2>2, <2>3
  <2> HIDE DEF y, z
  <2>5. 12 + 8 * (n + 1 + room) <= z
    BY <1>8, <2>4
  <2> QED BY <1>12, <2>5 DEF z, LeafHeaderSize, SlotSize
<1>24. /\ t \in lo .. Count(c) - 1 /\ k \in lo .. Count(c) - 1
       /\ Count(c) - 1 = N + 1
  BY <1>2, <1>3, <1>4
<1>25. Block(c, t) = [child |-> k, path_count |-> Block(c, t).path_count]
       /\ Block(c, t).path_count \in Nat
  BY <1>2, <1>6
<1>26. w \in Seq(Slots((lo .. Count(c) - 1) \ {t, k}))
  BY <1>12, <1>24 DEF T
<1> HIDE DEF for
<1>27. Held(c, name, lo, Count(c), more, room, w, for)
  BY <1>2, <1>3, <1>4, <1>7, <1>15, <1>16, <1>19, <1>22, <1>23, <1>24, <1>25, <1>26, Zenon DEF Held
<1> QED BY <1>27, HeldTree

-----------------------------------------------------------------------------
(* The values that two bytes hold. *)
TwoBytes == 0 .. 256 * 256 - 1

(* A value of 16 bits is a number. *)
LEMMA TwoBytesAreNumbers ==
  /\ 0 \in TwoBytes /\ TwoBytes \subseteq Nat
  /\ \A v \in TwoBytes : v \in Nat /\ v < 256 * 256
<1>1. ASSUME NEW n \in Nat, n > 0
      PROVE  /\ 0 \in 0 .. n - 1 /\ 0 .. n - 1 \subseteq Nat
             /\ \A v \in 0 .. n - 1 : v \in Nat /\ v < n
  BY <1>1
<1>2. 256 * 256 \in Nat /\ 256 * 256 > 0
  OBVIOUS
<1> QED BY <1>1, <1>2, Zenon DEF TwoBytes

(* The values of attributes and of raw keys have 16 bits. *)
LEMMA AttributesTyped ==
  /\ \A a \in AttributeLists : DOMAIN a \subseteq Nat /\ \A id \in DOMAIN a : a[id] \in TwoBytes
  /\ RawValues \subseteq TwoBytes /\ 0 \in TwoBytes /\ TwoBytes \subseteq Nat
<1>1. /\ \A a \in AttributeLists : DOMAIN a \subseteq Nat /\ a \in [DOMAIN a -> TwoBytes]
      /\ RawValues \subseteq TwoBytes
  BY ValuesAssumption, Zenon DEF TwoBytes
<1>2. \A a \in AttributeLists : \A id \in DOMAIN a : a[id] \in TwoBytes
  BY <1>1
<1> QED BY <1>1, <1>2, TwoBytesAreNumbers

(* The values of a key are 16-bit ones, in the order of the format. *)
LEMMA ValuesTyped ==
  ASSUME NEW attributes \in AttributeLists, NEW format, Len(format) \in Nat,
         DOMAIN format = 1 .. Len(format)
  PROVE  LET values == ValuesOf(attributes, format)
         IN /\ Len(values) = Len(format) /\ DOMAIN values = 1 .. Len(format)
            /\ \A i \in 1 .. Len(format) : values[i] \in TwoBytes
<1> DEFINE f == ValuesOf(attributes, format)
<1>1. /\ DOMAIN f = 1 .. Len(format) /\ f = [i \in DOMAIN f |-> f[i]]
      /\ \A i \in 1 .. Len(format) :
           f[i] = IF format[i] \in DOMAIN attributes THEN attributes[format[i]] ELSE 0
  BY DEF ValuesOf
<1> HIDE DEF f
<1>3. Len(f) = Len(format)
  BY <1>1, LengthOfFunction
<1>4. \A i \in 1 .. Len(format) : f[i] \in TwoBytes
  BY <1>1, AttributesTyped
<1> QED BY <1>1, <1>3, <1>4 DEF f

(* The two bytes of a value. *)
LEMMA BytesOfValue ==
  ASSUME NEW v \in TwoBytes
  PROVE  v % 256 \in 0..255 /\ v \div 256 \in 0..255
<1>1. v \in Nat /\ v < 256 * 256
  BY TwoBytesAreNumbers
<1>2. v % 256 \in Int
  BY <1>1
<1>3. v % 256 < 256
  BY <1>1
<1>4. v % 256 >= 0
  BY <1>1
<1>5. v \div 256 \in Nat
  BY <1>1
<1>6. v \div 256 < 256
  BY <1>1
<1> DEFINE x == v % 256  y == v \div 256
<1>7. x \in Int /\ x < 256 /\ x >= 0 /\ y \in Nat /\ y < 256
  BY <1>2, <1>3, <1>4, <1>5, <1>6
<1> HIDE DEF x, y
<1>8. x \in 0..255 /\ y \in 0..255
  BY <1>7
<1> QED BY <1>8 DEF x, y

(* The value to which a byte of a key belongs. *)
LEMMA HalfOf ==
  ASSUME NEW m \in Nat, NEW k \in 1 .. 2 * m
  PROVE  (k + 1) \div 2 \in 1 .. m
<1>1. k \in Int /\ k >= 1 /\ k <= 2 * m
  OBVIOUS
<1> DEFINE h == (k + 1) \div 2
<1>2. h \in Int
  BY <1>1
<1>3. h >= 1
  BY <1>1
<1>4. h <= m
  BY <1>1
<1> HIDE DEF h
<1>5. h \in 1 .. m
  BY <1>2, <1>3, <1>4
<1> QED BY <1>5 DEF h

(* A key is made of bytes. *)
LEMMA KeyTyped ==
  ASSUME NEW values, Len(values) \in Nat, DOMAIN values = 1 .. Len(values),
         \A i \in 1 .. Len(values) : values[i] \in TwoBytes
  PROVE  KeyBytes(values) \in Seq(0..255)
<1> DEFINE m == Len(values)
           n == 2 * m
           Bytes == 0..255
           f == KeyBytes(values)
<1>1. m \in Nat /\ \A i \in 1..m : values[i] \in TwoBytes
  OBVIOUS
<1>2. f = [k \in 1..n |-> LET v == values[(k + 1) \div 2]
                          IN IF k % 2 = 1 THEN v % 256 ELSE v \div 256]
  BY DEF KeyBytes
<1> HIDE DEF m, f
<1>3. n \in Nat
  BY <1>1
<1>4. \A k \in 1..n : (k + 1) \div 2 \in 1..m
  BY <1>1, HalfOf, Zenon
<1> HIDE DEF n, Bytes
<1>5. \A k \in 1..n : f[k] \in Bytes
  <2> SUFFICES ASSUME NEW k \in 1..n PROVE f[k] \in Bytes
    OBVIOUS
  <2> DEFINE v == values[(k + 1) \div 2]
  <2>1. v \in TwoBytes
    BY <1>1, <1>4, Zenon
  <2>2. f[k] = IF k % 2 = 1 THEN v % 256 ELSE v \div 256
    BY <1>2, Zenon
  <2> HIDE DEF v
  <2>3. v % 256 \in Bytes /\ v \div 256 \in Bytes
    BY <2>1, BytesOfValue, Zenon DEF Bytes
  <2>4. f[k] = v % 256 \/ f[k] = v \div 256
    BY <2>2, Zenon
  <2> QED BY <2>3, <2>4, Zenon
<1>6. f \in [1..n -> Bytes]
  BY <1>2, <1>5, Zenon
<1>7. f \in Seq(Bytes)
  BY <1>3, <1>6, SeqDef
<1> QED BY <1>7 DEF f, Bytes

(* The pairs of a facet have numbers. *)
LEMMA PairsTyped ==
  ASSUME NEW attributes \in AttributeLists
  PROVE  PairsOf(attributes) \in Seq([identifier : Nat, value : Nat])
<1> DEFINE ids == DOMAIN attributes
           r == Ranked(ids)
           f == PairsOf(attributes)
<1>1. ids \subseteq Nat /\ \A id \in ids : attributes[id] \in Nat
  BY AttributesTyped
<1>2. IsFiniteSet(ids)
  <2>1. ids \subseteq UNION {DOMAIN a : a \in AttributeLists}
    OBVIOUS
  <2> QED BY <2>1, CatalogAssumption, FS_Subset
<1>3. f = [i \in DOMAIN r |-> [identifier |-> r[i], value |-> attributes[r[i]]]]
  BY DEF PairsOf, Ascending, Ranked, Rank
<1> HIDE DEF ids, r, f
<1>4. /\ Cardinality(ids) \in Nat /\ r \in Seq(ids) /\ DOMAIN r = 1 .. Cardinality(ids)
  <2>1. ids \subseteq Int
    BY <1>1
  <2> QED BY <1>2, <2>1, RankedSet DEF r
<1>5. \A i \in DOMAIN r : r[i] \in ids
  BY <1>4, LenProperties, ElementOfSeq
<1>6. f \in [1 .. Cardinality(ids) -> [identifier : Nat, value : Nat]]
  <2>1. \A i \in DOMAIN r : [identifier |-> r[i], value |-> attributes[r[i]]]
                              \in [identifier : Nat, value : Nat]
    BY <1>1, <1>5
  <2> QED BY <1>3, <1>4, <2>1
<1> DEFINE P == [identifier : Nat, value : Nat]
<1>7. f \in [1 .. Cardinality(ids) -> P]
  BY <1>6
<1> HIDE DEF P
<1>8. f \in Seq(P)
  BY <1>4, <1>7, SeqDef
<1> QED BY <1>8 DEF f, P

(* The key format has identifiers, which are numbers. *)
LEMMA FormatTyped ==
  ASSUME Input
  PROVE  FormatToWrite \in Seq(Nat)
<1>1. CASE keyfmt # NoFormat
  BY <1>1, CatalogAssumption DEF FormatToWrite, Input
<1>2. CASE keyfmt = NoFormat
  <2> DEFINE lists == {facets[n] : n \in DOMAIN facets}
                        \cup {renditions[k].attributes : k \in DOMAIN renditions}
             ids == UNION {DOMAIN a : a \in lists}
  <2>1. lists \subseteq AttributeLists
    BY DEF Input
  <2> HIDE DEF lists
  <2>2. ids \subseteq UNION {DOMAIN a : a \in AttributeLists}
    BY <2>1
  <2>3. IsFiniteSet(ids) /\ ids \subseteq Nat
    BY <2>1, <2>2, CatalogAssumption, AttributesTyped, FS_Subset
  <2>4. FormatToWrite = Ranked(ids)
    BY <1>2 DEF FormatToWrite, DetermineKeyFormat, Ascending, Ranked, Rank, lists
  <2> HIDE DEF ids
  <2>5. ids \subseteq Int
    BY <2>3
  <2>6. Ranked(ids) \in Seq(ids)
    BY <2>3, <2>5, RankedSet
  <2>7. Ranked(ids) \in Seq(Nat)
    <3> DEFINE r == Ranked(ids)
    <3>1. r \in Seq(ids)
      BY <2>6
    <3> HIDE DEF r
    <3>2. r \in [1 .. Len(r) -> ids] /\ Len(r) \in Nat
      BY <3>1, LenProperties
    <3>3. r \in [1 .. Len(r) -> Nat]
      BY <2>3, <3>2
    <3> QED BY <3>2, <3>3, SeqDef DEF r
  <2> QED BY <2>4, <2>7
<1> QED BY <1>1, <1>2

(* What may be in a block. *)
LEMMA BytesAreContents ==
  ASSUME NEW bytes \in Seq(0..255)
  PROVE  [bytes |-> bytes] \in Contents
BY Zenon DEF Contents

(* A vacant block has bytes, none of them. *)
LEMMA NoContentIsContents == NoContent \in Contents
<1>1. << >> \in Seq(0..255)
  OBVIOUS
<1> QED BY <1>1, BytesAreContents DEF NoContent

(* So may a payload, *)
LEMMA PayloadsAreContents ==
  ASSUME NEW payload \in Payloads
  PROVE  [payload |-> payload] \in Contents
BY Zenon DEF Contents

(* the pairs of a facet, *)
LEMMA PairsAreContents ==
  ASSUME NEW pairs \in Seq([identifier : Nat, value : Nat])
  PROVE  [pairs |-> pairs] \in Contents
BY Zenon DEF Contents

(* a key format, *)
LEMMA FormatsAreContents ==
  ASSUME NEW format \in Seq(Nat)
  PROVE  [identifiers |-> format] \in Contents
BY Zenon DEF Contents

(* the root of a tree, *)
LEMMA TreesAreContents ==
  ASSUME NEW child \in Nat, NEW count \in Nat
  PROVE  [child |-> child, path_count |-> count] \in Contents
BY Zenon DEF Contents

(* a leaf, *)
LEMMA LeavesAreContents ==
  ASSUME NEW S, S \subseteq Nat, NEW es \in Seq(Slots(S))
  PROVE  Node(TRUE, es, 0, 0) \in Contents
<1>1. Slots(S) \subseteq [value : Nat, key : Nat]
  BY DEF Slots
<1>2. es \in Seq([value : Nat, key : Nat])
  <2> DEFINE T == Slots(S)  U == [value : Nat, key : Nat]
  <2>1. T \subseteq U /\ es \in Seq(T)
    BY <1>1
  <2> HIDE DEF T, U
  <2>2. es \in [1 .. Len(es) -> U] /\ Len(es) \in Nat
    BY <2>1, LenProperties
  <2>3. es \in Seq(U)
    BY <2>2, SeqDef
  <2> QED BY <2>3 DEF U
<1>3. 0 \in Nat /\ TRUE \in BOOLEAN
  OBVIOUS
<1> QED BY <1>2, <1>3, Zenon DEF Contents, Node

(* and the header. *)
LEMMA HeadersAreContents ==
  ASSUME TypedInput, Input
  PROVE  HeaderToWrite \in Contents
<1> DEFINE H == [storage_version : Nat, rendition_count : Nat]
<1>1. HeaderToWrite \in H
  <2>1. CASE header # NoHeader
    BY <2>1, HeadersAssumption DEF HeaderToWrite, TypedInput
  <2>2. CASE header = NoHeader
    <3>1. RenditionCount \in Nat
      BY InputSizes
    <3> QED BY <2>2, <3>1 DEF HeaderToWrite
  <2> QED BY <2>1, <2>2
<1> QED BY <1>1, Zenon DEF Contents

-----------------------------------------------------------------------------
(* The blocks of a file, wherever its trailer is. *)
LEMMA FileLengths ==
  ASSUME NEW b, IsFile(b), b.layout \in Layouts
  PROVE  /\ Count(b) \in Nat
         /\ \A i \in 0 .. Count(b) - 1 : LengthOf(b, i) \in Nat
<1>1. /\ Len(b.layout.entries) = Count(b) /\ Len(b.layout.entries) \in Nat
      /\ DOMAIN b.layout.entries = 1 .. Len(b.layout.entries)
  BY LayoutFields DEF IsFile, Count
<1>2. \A i \in 0 .. Count(b) - 1 : i + 1 \in DOMAIN b.layout.entries
  BY <1>1
<1>3. \A i \in 0 .. Count(b) - 1 : LengthOf(b, i) \in Nat
  BY <1>2, EntriesAreNumbers DEF LengthOf
<1> QED BY <1>1, <1>3

(* An open file is one. *)
LEMMA OpenLengths ==
  ASSUME NEW b, Open(b)
  PROVE  IsFile(b) /\ b.layout \in Layouts
BY FileNumbers DEF Open

(* A file that has more, of the known kinds. *)
LEMMA TypedStays ==
  ASSUME NEW b, TypedFile(b), NEW c, IsFile(c), c.layout \in Layouts, Count(b) <= Count(c),
         \A i \in 0 .. Count(b) - 1 : Block(c, i) = Block(b, i) \/ Block(c, i) \in Contents,
         \A i \in Count(b) .. Count(c) - 1 : Block(c, i) \in Contents,
         \/ c.variables = b.variables
         \/ \E name : \E index \in 1 .. Count(c) - 1 :
              c.variables = Append(b.variables, [name |-> name, index |-> index])
  PROVE  TypedFile(c)
<1>1. Count(b) \in Nat /\ Count(c) \in Nat
  BY FileLengths DEF TypedFile
<1>2. \A i \in 0 .. Count(c) - 1 : Block(c, i) \in Contents
  <2> SUFFICES ASSUME NEW i \in 0 .. Count(c) - 1 PROVE Block(c, i) \in Contents
    OBVIOUS
  <2>1. i \in 0 .. Count(b) - 1 \/ i \in Count(b) .. Count(c) - 1
    BY <1>1
  <2>2. CASE i \in 0 .. Count(b) - 1
    BY <2>2, Zenon DEF TypedFile
  <2> QED BY <2>1, <2>2
<1>3. \A k \in DOMAIN b.variables : b.variables[k].index \in 1 .. Count(c) - 1
  <2>1. \A i \in 1 .. Count(b) - 1 : i \in 1 .. Count(c) - 1
    BY <1>1
  <2> QED BY <2>1, Zenon DEF TypedFile
<1>4. \A k \in DOMAIN c.variables : c.variables[k].index \in 1 .. Count(c) - 1
  <2>1. CASE c.variables = b.variables
    BY <1>3, <2>1
  <2>2. ASSUME NEW name, NEW index \in 1 .. Count(c) - 1,
               c.variables = Append(b.variables, [name |-> name, index |-> index])
        PROVE  \A k \in DOMAIN c.variables : c.variables[k].index \in 1 .. Count(c) - 1
    <3> DEFINE v == [name |-> name, index |-> index]
    <3>1. v.index = index
      OBVIOUS
    <3>2. IsSeq(b.variables) /\ IsSeq(c.variables)
      BY DEF TypedFile, IsFile
    <3> HIDE DEF v
    <3>3. /\ Len(c.variables) = Len(b.variables) + 1 /\ Len(b.variables) \in Nat
          /\ c.variables[Len(b.variables) + 1] = v
          /\ \A j \in 1 .. Len(b.variables) : c.variables[j] = b.variables[j]
      BY <2>2, <3>2, Appended DEF v
    <3>4. /\ DOMAIN c.variables = 1 .. Len(c.variables)
          /\ DOMAIN b.variables = 1 .. Len(b.variables)
      BY <3>2, SeqOfItsElements DEF IsSeq
    <3> SUFFICES ASSUME NEW k \in DOMAIN c.variables
                 PROVE  c.variables[k].index \in 1 .. Count(c) - 1
      OBVIOUS
    <3>5. k = Len(b.variables) + 1 \/ k \in 1 .. Len(b.variables)
      BY <3>3, <3>4
    <3>6. CASE k \in 1 .. Len(b.variables)
      BY <1>3, <3>3, <3>4, <3>6
    <3>7. CASE k = Len(b.variables) + 1
      BY <3>1, <3>3, <3>7
    <3> QED BY <3>5, <3>6, <3>7
  <2> QED BY <2>1, <2>2
<1> QED BY <1>2, <1>4 DEF TypedFile

(* A block with a variable of its own. *)
LEMMA VariableWithBlock ==
  ASSUME NEW b, Open(b), TypedFile(b), Count(b) > 0, NEW content \in Contents,
         NEW length \in Nat, NEW name, NameLength(name) \in Nat,
         NEW c, c = WithVariable(WithBlock(b, content, length), name, Count(b))
  PROVE  /\ Open(c) /\ TypedFile(c) /\ Extends(b, c) /\ Count(c) = Count(b) + 1
         /\ \A other : other # name => VariableGet(c, other) = VariableGet(b, other)
         /\ \A other : other # name /\ Absent(b, other) => Absent(c, other)
         /\ Block(c, Count(b)) = content
         /\ Absent(b, name) => VariableGet(c, name) = Count(b)
<1> DEFINE d == WithBlock(b, content, length)
           v == [name |-> name, index |-> Count(b)]
<1>1. /\ Open(d) /\ Extends(b, d) /\ d.variables = b.variables /\ Count(d) = Count(b) + 1
      /\ Block(d, Count(b)) = content
  BY BlockAdded
<1>2. c = WithVariable(d, name, Count(b))
  OBVIOUS
<1> HIDE DEF d
<1>3. /\ Open(c) /\ Extends(d, c) /\ Count(c) = Count(d)
      /\ c.variables = Append(d.variables, v) /\ c.blocks = d.blocks
  BY <1>1, <1>2, VariableAdded
<1>4. Extends(b, c)
  BY <1>1, <1>3, ExtendsTwice
<1>5. Count(b) \in Nat /\ Count(c) = Count(b) + 1 /\ Block(c, Count(b)) = content
  BY <1>1, <1>3, FileNumbers DEF Block
<1>6. TypedFile(c)
  <2>1. IsFile(c) /\ c.layout \in Layouts /\ Count(b) <= Count(c)
    BY <1>3, <1>5, OpenLengths
  <2>2. \A i \in 0 .. Count(b) - 1 : Block(c, i) = Block(b, i)
    BY <1>4 DEF Extends
  <2>3. \A i \in Count(b) .. Count(c) - 1 : Block(c, i) \in Contents
    <3>1. \A i \in Count(b) .. Count(c) - 1 : i = Count(b)
      BY <1>5
    <3> QED BY <1>5, <3>1
  <2>4. Count(b) \in 1 .. Count(c) - 1
    BY <1>5
  <2>5. c.variables = Append(b.variables, [name |-> name, index |-> Count(b)])
    BY <1>1, <1>3
  <2> QED BY <2>1, <2>2, <2>3, <2>4, <2>5, TypedStays
<1>7. /\ \A other : other # name /\ Absent(d, other) => Absent(c, other)
      /\ \A other : other # name => VariableGet(c, other) = VariableGet(d, other)
  <2>1. IsSeq(d.variables)
    BY <1>1 DEF Open, IsFile
  <2>2. c.variables = Append(d.variables, [name |-> name, index |-> Count(b)])
    BY <1>3
  <2>3. \A other : other # name /\ Absent(d, other) => Absent(c, other)
    BY <2>1, <2>2, VariableFound
  <2>4. \A other : other # name => VariableGet(c, other) = VariableGet(d, other)
    BY <2>1, <2>2, VariableFound
  <2> QED BY <2>3, <2>4
<1>8. Absent(b, name) => VariableGet(c, name) = Count(b)
  <2> SUFFICES ASSUME Absent(b, name) PROVE VariableGet(c, name) = Count(b)
    OBVIOUS
  <2>1. IsSeq(d.variables) /\ Absent(d, name)
    BY <1>1 DEF Open, IsFile, Absent, Named
  <2>2. c.variables = Append(d.variables, [name |-> name, index |-> Count(b)])
    BY <1>3
  <2> QED BY <2>1, <2>2, VariableFound
<1>9. \A other : VariableGet(d, other) = VariableGet(b, other) /\ (Absent(b, other) => Absent(d, other))
  BY <1>1 DEF VariableGet, Absent, Named
<1> QED BY <1>3, <1>4, <1>5, <1>6, <1>7, <1>8, <1>9

(* Both trees stay in a file that has more. *)
LEMMA BothTreesStay ==
  ASSUME NEW b, IsFile(b), b.layout \in Layouts, NEW c, IsFile(c), c.layout \in Layouts,
         Extends(b, c),
         \A name \in {"FACETKEYS", "RENDITIONS"} : VariableGet(c, name) = VariableGet(b, name),
         NEW first, NEW second, NEW room \in Nat, NEW less \in Nat, less <= room,
         BothTrees(b, first, second, room)
  PROVE  BothTrees(c, first, second, less)
<1>1. PICK m \in 1 .. Count(b) : /\ TreeHolds(b, "FACETKEYS", 1, m, first, 0)
                                 /\ TreeHolds(b, "RENDITIONS", m, Count(b), second, room)
  BY Zenon DEF BothTrees
<1>2. /\ Count(b) \in Nat /\ \A i \in 0 .. Count(b) - 1 : LengthOf(b, i) \in Nat
      /\ Count(c) \in Nat /\ \A i \in 0 .. Count(c) - 1 : LengthOf(c, i) \in Nat
      /\ Count(b) <= Count(c)
  BY FileLengths DEF Extends
<1>3. \A i \in 0 .. Count(b) - 1 : /\ Block(c, i) = Block(b, i) /\ LengthOf(b, i) \in Nat
                                   /\ LengthOf(c, i) \in Nat /\ LengthOf(c, i) >= LengthOf(b, i)
  BY <1>2 DEF Extends
<1>4. TreeHolds(c, "FACETKEYS", 1, m, first, 0)
  <2>1. \A i \in 1 .. m - 1 : i \in 0 .. Count(b) - 1
    BY <1>2
  <2>2. \A i \in 1 .. m - 1 : /\ Block(c, i) = Block(b, i) /\ LengthOf(b, i) \in Nat
                              /\ LengthOf(c, i) \in Nat /\ LengthOf(c, i) >= LengthOf(b, i)
    BY <1>3, <2>1, Zenon
  <2>3. 1 \in Int /\ m \in Int /\ 0 \in Nat /\ 1 <= 1 /\ m <= m /\ 0 <= 0
    BY <1>2
  <2> QED BY <1>1, <2>2, <2>3, TreeStays
<1>5. TreeHolds(c, "RENDITIONS", m, Count(c), second, less)
  <2>1. \A i \in m .. Count(b) - 1 : i \in 0 .. Count(b) - 1
    BY <1>2
  <2>2. \A i \in m .. Count(b) - 1 : /\ Block(c, i) = Block(b, i) /\ LengthOf(b, i) \in Nat
                                     /\ LengthOf(c, i) \in Nat /\ LengthOf(c, i) >= LengthOf(b, i)
    BY <1>3, <2>1, Zenon
  <2>3. m \in Int /\ m <= m /\ Count(b) \in Int /\ Count(c) \in Int /\ Count(b) <= Count(c)
    BY <1>2
  <2> QED BY <1>1, <2>2, <2>3, TreeStays
<1>6. m \in 1 .. Count(c)
  BY <1>2
<1> QED BY <1>4, <1>5, <1>6, Zenon DEF BothTrees

(* The nodes of a tree that has one more entry. *)
LEMMA TypedAfterEntry ==
  ASSUME NEW b, TypedFile(b), NEW c, Open(c), c.variables = b.variables,
         NEW name, NEW key \in Seq(0..255), NEW value \in Contents, NEW place,
         HasEntry(b, c, name, key, value, place),
         NEW lo \in Nat, NEW items, NEW room, TreeHolds(c, name, lo, Count(c), items, room)
  PROVE  TypedFile(c)
<1> DEFINE t == VariableGet(c, name)
           k == ChildIndex(c, name)
           es == EntriesOfTree(c, name)
           S == (lo .. Count(c) - 1) \ {t, k}
<1>1. PICK of : Held(c, name, lo, Count(c), items, room, es, of)
  BY Zenon DEF TreeHolds
<1>2. /\ Block(c, t) = [child |-> k, path_count |-> Block(c, t).path_count]
      /\ Block(c, t).path_count \in Nat /\ Block(c, k) = Node(TRUE, es, 0, 0)
      /\ es \in Seq(Slots(S)) /\ k \in lo .. Count(c) - 1
  BY <1>1, Zenon DEF Held
<1>3. Count(c) \in Nat /\ Count(b) \in Nat
  BY FileNumbers, FileLengths DEF TypedFile
<1>4. k \in Nat /\ S \subseteq Nat
  BY <1>2, <1>3
<1>5. VariableGet(b, name) = t
  BY DEF VariableGet
<1> HIDE DEF t, k, es, S
<1>6. Block(c, t) \in Contents
  <2> DEFINE n == Block(c, t).path_count
  <2>1. [child |-> k, path_count |-> n] \in Contents
    BY <1>2, <1>4, TreesAreContents
  <2> QED BY <1>2, <2>1
<1>7. Block(c, k) \in Contents
  BY <1>2, <1>4, LeavesAreContents
<1>8. /\ Count(c) = Count(b) + 2 /\ ChildIndex(b, name) = k
      /\ Block(c, Count(b)) = [bytes |-> key] /\ Block(c, Count(b) + 1) = value
      /\ \A i \in 0 .. Count(b) - 1 :
           i \notin {VariableGet(b, name), ChildIndex(b, name)} => Block(c, i) = Block(b, i)
  BY Zenon DEF HasEntry, k
<1>9. [bytes |-> key] \in Contents
  BY BytesAreContents
<1>10. \A i \in Count(b) .. Count(c) - 1 : Block(c, i) \in Contents
  <2>1. \A i \in Count(b) .. Count(c) - 1 : i = Count(b) \/ i = Count(b) + 1
    BY <1>3, <1>8
  <2> QED BY <1>8, <1>9, <2>1
<1>11. \A i \in 0 .. Count(b) - 1 : Block(c, i) = Block(b, i) \/ Block(c, i) \in Contents
  BY <1>5, <1>6, <1>7, <1>8, Zenon
<1>12. IsFile(c) /\ c.layout \in Layouts /\ Count(b) <= Count(c)
  BY <1>3, <1>8, OpenLengths
<1> QED BY <1>10, <1>11, <1>12, TypedStays

(* One more entry in the tree of the renditions. *)
LEMMA BothTreesGrow ==
  ASSUME NEW b, Open(b), TypedFile(b), NEW c, Open(c), c.variables = b.variables,
         NEW first, NEW second, NEW room \in Nat, BothTrees(b, first, second, room + 1),
         NEW key \in Seq(0..255), NEW value \in Contents, NEW p \in Places(b, "RENDITIONS", key),
         \A y \in DOMAIN second : second[y].key \in Seq(0..255),
         NEW x, NEW more, OneMore(second, x, key, value, more),
         HasEntry(b, c, "RENDITIONS", key, value, p)
  PROVE  BothTrees(c, first, more, room) /\ TypedFile(c)
<1>1. PICK m \in 1 .. Count(b) : /\ TreeHolds(b, "FACETKEYS", 1, m, first, 0)
                                 /\ TreeHolds(b, "RENDITIONS", m, Count(b), second, room + 1)
  BY Zenon DEF BothTrees
<1>2. /\ Count(b) \in Nat /\ \A i \in 0 .. Count(b) - 1 : LengthOf(b, i) \in Nat
      /\ Count(c) \in Nat /\ \A i \in 0 .. Count(c) - 1 : LengthOf(c, i) \in Nat
  BY FileNumbers
<1>3. TreeHolds(c, "RENDITIONS", m, Count(c), more, room)
  <2>1. m \in Nat
    BY <1>2
  <2> QED BY <1>1, <2>1, TreeGrows
<1>4. TypedFile(c)
  <2>1. m \in Nat
    BY <1>2
  <2> QED BY <1>3, <2>1, TypedAfterEntry
<1> DEFINE t == VariableGet(b, "RENDITIONS")
           k == ChildIndex(b, "RENDITIONS")
<1>5. t \in m .. Count(b) - 1 /\ k \in m .. Count(b) - 1
  <2>1. PICK of : Held(b, "RENDITIONS", m, Count(b), second, room + 1,
                       EntriesOfTree(b, "RENDITIONS"), of)
    BY <1>1, Zenon DEF TreeHolds
  <2> QED BY <2>1, Zenon DEF Held
<1>6. /\ Count(c) = Count(b) + 2
      /\ \A i \in 0 .. Count(b) - 1 : /\ LengthOf(c, i) >= LengthOf(b, i)
                                      /\ i \notin {t, k} => Block(c, i) = Block(b, i)
  BY Zenon DEF HasEntry
<1> HIDE DEF t, k
<1>7. \A i \in 1 .. m - 1 : /\ Block(c, i) = Block(b, i) /\ LengthOf(b, i) \in Nat
                            /\ LengthOf(c, i) \in Nat /\ LengthOf(c, i) >= LengthOf(b, i)
  <2> SUFFICES ASSUME NEW i \in 1 .. m - 1
               PROVE  /\ Block(c, i) = Block(b, i) /\ LengthOf(b, i) \in Nat
                      /\ LengthOf(c, i) \in Nat /\ LengthOf(c, i) >= LengthOf(b, i)
    OBVIOUS
  <2>1. i \in 0 .. Count(b) - 1 /\ i \in 0 .. Count(c) - 1 /\ i \notin {t, k}
    BY <1>2, <1>5, <1>6
  <2> QED BY <1>2, <1>6, <2>1, Zenon
<1>8. VariableGet(c, "FACETKEYS") = VariableGet(b, "FACETKEYS")
  BY DEF VariableGet
<1>9. TreeHolds(c, "FACETKEYS", 1, m, first, 0)
  <2>1. 1 \in Int /\ m \in Int /\ 0 \in Nat /\ 1 <= 1 /\ m <= m /\ 0 <= 0
    BY <1>2
  <2> QED BY <1>1, <1>7, <1>8, <2>1, TreeStays
<1>10. m \in 1 .. Count(c)
  BY <1>2, <1>6
<1> QED BY <1>3, <1>4, <1>9, <1>10, Zenon DEF BothTrees

-----------------------------------------------------------------------------
(* The items of facets and renditions are of their types. *)
LEMMA FacetsTyped ==
  ASSUME Input, NEW name \in DOMAIN facets
  PROVE  /\ FacetItem(name).key = name /\ name \in Seq(0..255)
         /\ FacetItem(name).value = [pairs |-> PairsOf(facets[name])]
         /\ FacetItem(name).value \in Contents
<1>1. name \in Seq(0..255) /\ facets[name] \in AttributeLists
  BY CatalogAssumption DEF Input
<1>2. [pairs |-> PairsOf(facets[name])] \in Contents
  BY <1>1, PairsTyped, PairsAreContents
<1> QED BY <1>1, <1>2 DEF FacetItem

(* A rendition becomes a key of bytes and a payload, *)
LEMMA StructuredTyped ==
  ASSUME Input, TypedInput, NEW k \in DOMAIN renditions
  PROVE  LET r    == << "structured", k >>
             list == renditions[k].attributes
         IN /\ RenditionItem(r).key = KeyBytes(ValuesOf(list, FormatToWrite))
            /\ RenditionItem(r).value = [payload |-> renditions[k].payload]
            /\ KeyBytes(ValuesOf(list, FormatToWrite)) \in Seq(0..255)
            /\ [payload |-> renditions[k].payload] \in Contents
<1> DEFINE r == << "structured", k >>
           v == ValuesOf(renditions[k].attributes, FormatToWrite)
           e == [payload |-> renditions[k].payload]
<1>1. RenditionItem(r) = [key |-> KeyBytes(v), value |-> e]
  <2>1. r[1] = "structured" /\ r[2] = k
    OBVIOUS
  <2> QED BY <2>1, Zenon DEF RenditionItem
<1>2. e \in Contents
  <2>1. renditions[k].payload \in Payloads
    BY DEF TypedInput
  <2> QED BY <2>1, PayloadsAreContents
<1>3. KeyBytes(v) \in Seq(0..255)
  <2>1. renditions[k].attributes \in AttributeLists
    BY DEF Input
  <2>2. Len(FormatToWrite) \in Nat /\ DOMAIN FormatToWrite = 1 .. Len(FormatToWrite)
    BY InputSizes
  <2>3. /\ Len(v) = Len(FormatToWrite) /\ DOMAIN v = 1 .. Len(FormatToWrite)
        /\ \A i \in 1 .. Len(FormatToWrite) : v[i] \in TwoBytes
    BY <2>1, <2>2, ValuesTyped
  <2> HIDE DEF v
  <2> QED BY <2>2, <2>3, KeyTyped
<1> HIDE DEF v, e
<1> QED BY <1>1, <1>2, <1>3 DEF v, e

(* and so does a raw one. *)
LEMMA RawTyped ==
  ASSUME TypedInput, NEW k \in DOMAIN rawRenditions
  PROVE  LET r == << "raw", k >>
         IN /\ RenditionItem(r).key = rawRenditions[k].key
            /\ RenditionItem(r).value = [payload |-> rawRenditions[k].payload]
            /\ rawRenditions[k].key \in Seq(0..255)
            /\ [payload |-> rawRenditions[k].payload] \in Contents
<1> DEFINE r == << "raw", k >>
           e == [payload |-> rawRenditions[k].payload]
<1>1. RenditionItem(r) = [key |-> rawRenditions[k].key, value |-> e]
  <2>1. r[1] # "structured" /\ r[2] = k
    OBVIOUS
  <2> QED BY <2>1, Zenon DEF RenditionItem
<1>2. e \in Contents
  <2>1. rawRenditions[k].payload \in Payloads
    BY DEF TypedInput
  <2> QED BY <2>1, PayloadsAreContents
<1>3. rawRenditions[k].key \in Seq(0..255)
  BY DEF TypedInput
<1> HIDE DEF e
<1> QED BY <1>1, <1>2, <1>3 DEF e

(* All their keys are of bytes. *)
LEMMA RenditionsTyped ==
  ASSUME Input, TypedInput, NEW S, S \subseteq DOMAIN renditions,
         NEW T, T \subseteq DOMAIN rawRenditions
  PROVE  \A r \in DOMAIN RenditionItems(S, T) : RenditionItems(S, T)[r].key \in Seq(0..255)
<1> SUFFICES ASSUME NEW r \in ({"structured"} \X S) \cup ({"raw"} \X T)
             PROVE  RenditionItem(r).key \in Seq(0..255)
  BY DEF RenditionItems
<1>1. ASSUME NEW k \in S PROVE RenditionItem(<< "structured", k >>).key \in Seq(0..255)
  BY StructuredTyped
<1>2. ASSUME NEW k \in T PROVE RenditionItem(<< "raw", k >>).key \in Seq(0..255)
  BY RawTyped
<1>3. (\E k \in S : r = << "structured", k >>) \/ (\E k \in T : r = << "raw", k >>)
  OBVIOUS
<1> QED BY <1>1, <1>2, <1>3

(* Of the same input come the same items. *)
LEMMA SameInput ==
  ASSUME TypedInput, UNCHANGED input
  PROVE  /\ TypedInput' /\ AllFacets' = AllFacets /\ AllRenditions' = AllRenditions
         /\ FormatToWrite' = FormatToWrite
<1>1. UNCHANGED << facets, renditions, rawRenditions, keyfmt, header >>
  BY DEF input
<1>2. FormatToWrite' = FormatToWrite
  BY <1>1 DEF FormatToWrite
<1>3. AllFacets' = AllFacets
  BY <1>1 DEF AllFacets, FacetItems, FacetItem
<1>4. AllRenditions' = AllRenditions
  BY <1>1, <1>2 DEF AllRenditions, RenditionItems, RenditionItem
<1>5. TypedInput'
  BY <1>1 DEF TypedInput
<1> QED BY <1>2, <1>3, <1>4, <1>5

-----------------------------------------------------------------------------
(* It holds of a writer that is new. *)
LEMMA InitTreesInv == Init => TreesInv
<1> SUFFICES ASSUME Init PROVE TreesInv
  OBVIOUS
<1>1. /\ bom = FileFrom(EmptyLayout, << >>, << >>) /\ renditions = << >>
      /\ rawRenditions = << >> /\ pc = "collect" /\ header \in Headers \cup {NoHeader}
  BY DEF Init, EmptyFile, FileFrom
<1>2. IsSeq(<< >>)
  <2>1. << >> \in Seq(Nat)
    OBVIOUS
  <2> QED BY <2>1, SeqOfItsElements
<1>3. Len(EmptyLayout.entries) = Len(<< >>)
  BY DEF EmptyLayout
<1>4. /\ IsFile(bom) /\ bom.layout = EmptyLayout /\ bom.variables = << >> /\ bom.blocks = << >>
  BY <1>1, <1>2, <1>3, FileFields
<1>5. EmptyLayout \in Layouts
  BY EmptyFits DEF Fits
<1>6. DOMAIN bom.variables = {} /\ Count(bom) = 0
  BY <1>4 DEF Count
<1>7. TypedFile(bom)
  <2>1. \A i \in 0 .. Count(bom) - 1 : FALSE
    BY <1>6
  <2> QED BY <1>4, <1>5, <1>6, <2>1, Zenon DEF TypedFile
<1>8. NoTrees(bom)
  BY <1>6 DEF NoTrees, Absent, Named
<1>9. TypedInput
  <2>1. DOMAIN renditions = {} /\ DOMAIN rawRenditions = {}
    BY <1>1
  <2> QED BY <1>1, <2>1 DEF TypedInput
<1> QED BY <1>1, <1>7, <1>8, <1>9 DEF TreesInv, Before

(* The calls that come before the trees. *)
LEMMA HeadTreesInv ==
  WriterInv /\ TreesInv /\ (PreAllocate \/ GiveUp \/ WriteHeader \/ WriteKeyFormat) => TreesInv'
<1> SUFFICES ASSUME WriterInv, TreesInv, PreAllocate \/ GiveUp \/ WriteHeader \/ WriteKeyFormat
             PROVE  TreesInv'
  OBVIOUS
<1>1. /\ Input /\ TypedInput /\ UNCHANGED input /\ TypedFile(bom)
      /\ pc \in Before /\ (pc # "collect" => Count(bom) > 0)
  BY DEF WriterInv, TreesInv, Before, PreAllocate, GiveUp, WriteHeader, WriteKeyFormat
<1>2. Open(bom) /\ SoundLayout(bom.layout) /\ NoTrees(bom)
  BY <1>1 DEF WriterInv, TreesInv, Before, Writing
<1>3. TypedInput'
  BY <1>1, SameInput
<1>4. SUFFICES /\ TypedFile(bom') /\ Count(bom') > 0 /\ NoTrees(bom')
               /\ pc' \in {"header", "keyfmt", "facet tree", "failed"}
  BY <1>3 DEF TreesInv
<1>5. CASE PreAllocate
  <2> DEFINE d == WithRoom(bom, IndexCount)
  <2>1. IndexCount \in Nat
    BY <1>1, InputSizes
  <2>2. /\ Open(d) /\ SoundLayout(d.layout) /\ Extends(bom, d) /\ Count(d) = Count(bom)
        /\ d.variables = bom.variables
    BY <1>2, <2>1, RoomMade
  <2>3. bom' = WithVacant(d, 1) /\ pc' = "header"
    BY <1>5 DEF PreAllocate
  <2> HIDE DEF d
  <2>4. /\ Open(bom') /\ bom'.variables = d.variables /\ Extends(d, bom')
        /\ Count(bom') = Count(d) + 1
        /\ \A i \in Count(d) .. Count(bom') - 1 : Block(bom', i) = NoContent
    <3>1. 1 \in {1, 2}
      OBVIOUS
    <3> QED BY <2>2, <2>3, <3>1, VacantAdded
  <2>5. Extends(bom, bom')
    BY <1>2, <2>2, <2>4, ExtendsTwice
  <2>6. TypedFile(bom')
    <3>1. IsFile(bom') /\ bom'.layout \in Layouts /\ Count(bom) <= Count(bom')
      BY <2>4, <2>5, OpenLengths DEF Extends
    <3>2. \A i \in Count(bom) .. Count(bom') - 1 : Block(bom', i) \in Contents
      BY <2>2, <2>4, NoContentIsContents
    <3>3. \A i \in 0 .. Count(bom) - 1 : Block(bom', i) = Block(bom, i)
      BY <2>5 DEF Extends
    <3>4. bom'.variables = bom.variables
      BY <2>2, <2>4
    <3> QED BY <1>1, <3>1, <3>2, <3>3, <3>4, TypedStays
  <2>7. Count(bom') > 0
    BY <1>2, <2>2, <2>4, FileNumbers
  <2>8. NoTrees(bom')
    BY <1>2, <2>2, <2>4, AbsentStays DEF NoTrees
  <2> QED BY <2>3, <2>6, <2>7, <2>8
<1>6. CASE GiveUp
  BY <1>1, <1>2, <1>6 DEF GiveUp
<1>7. CASE WriteHeader
  <2>1. /\ bom' = WithVariable(WithBlock(bom, HeaderToWrite, 436), "CARHEADER", Count(bom))
        /\ pc' = "keyfmt" /\ Count(bom) > 0
    BY <1>1, <1>7 DEF WriteHeader
  <2>2. HeaderToWrite \in Contents /\ 436 \in Nat
    BY <1>1, HeadersAreContents
  <2>3. NameLength("CARHEADER") \in Nat
    BY NameLengths
  <2>4. /\ TypedFile(bom') /\ Count(bom') = Count(bom) + 1
        /\ \A other : other # "CARHEADER" /\ Absent(bom, other) => Absent(bom', other)
    BY <1>1, <1>2, <2>1, <2>2, <2>3, VariableWithBlock
  <2>5. NoTrees(bom')
    BY <1>2, <2>4 DEF NoTrees
  <2>6. Count(bom') > 0
    BY <1>2, <2>1, <2>4, FileNumbers
  <2> QED BY <2>1, <2>4, <2>5, <2>6
<1>8. CASE WriteKeyFormat
  <2> DEFINE x == [identifiers |-> FormatToWrite]
             n == 12 + 4 * Len(FormatToWrite)
  <2>1. /\ bom' = WithVariable(WithBlock(bom, x, n), "KEYFORMAT", Count(bom))
        /\ pc' = "facet tree" /\ Count(bom) > 0
    BY <1>1, <1>8 DEF WriteKeyFormat
  <2>2. x \in Contents
    BY <1>1, FormatTyped, FormatsAreContents
  <2>3. n \in Nat
    <3>1. Len(FormatToWrite) \in Nat
      BY <1>1, InputSizes
    <3> QED BY <3>1
  <2>4. NameLength("KEYFORMAT") \in Nat
    BY NameLengths
  <2> HIDE DEF x, n
  <2>5. /\ TypedFile(bom') /\ Count(bom') = Count(bom) + 1
        /\ \A other : other # "KEYFORMAT" /\ Absent(bom, other) => Absent(bom', other)
    <3>1. Open(bom) /\ TypedFile(bom) /\ Count(bom) > 0
      BY <1>1, <1>2, <2>1
    <3>2. bom' = WithVariable(WithBlock(bom, x, n), "KEYFORMAT", Count(bom))
      BY <2>1
    <3> QED BY <2>2, <2>3, <2>4, <3>1, <3>2, VariableWithBlock
  <2>6. NoTrees(bom')
    BY <1>2, <2>5 DEF NoTrees
  <2>7. Count(bom') > 0
    <3>1. Count(bom) \in Nat
      BY <1>2, FileNumbers
    <3> QED BY <2>5, <3>1
  <2> QED BY <2>1, <2>5, <2>6, <2>7
<1> QED BY <1>5, <1>6, <1>7, <1>8

-----------------------------------------------------------------------------
(* A call of bom_tree_add in the file of the writer. *)
LEMMA EntryInFile ==
  ASSUME Open(bom), SoundLayout(bom.layout), NEW name, TreeReady(bom, name),
         NEW key \in Seq(0..255), NEW value, NEW length \in Nat, NEW place,
         bom' = TreeAdd(bom, name, key, value, length, place)
  PROVE  /\ Open(bom') /\ bom'.variables = bom.variables
         /\ HasEntry(bom, bom', name, key, value, place)
<1> DEFINE c == TreeAdd(bom, name, key, value, length, place)
<1>1. Len(key) \in Nat
  BY LenProperties
<1>2. Open(c) /\ c.variables = bom.variables /\ HasEntry(bom, c, name, key, value, place)
  BY <1>1, EntryAdded
<1>3. bom' = c
  OBVIOUS
<1> HIDE DEF c
<1> QED BY <1>2, <1>3

(* What the writing of a facet comes to. *)
LEMMA FacetAdded ==
  ASSUME WriterInv, TypedInput, NEW name \in todo, WriteFacet(name)
  PROVE  /\ Open(bom) /\ Open(bom') /\ bom'.variables = bom.variables
         /\ \E place \in Places(bom, "FACETKEYS", name) :
              HasEntry(bom, bom', "FACETKEYS", name, [pairs |-> PairsOf(facets[name])], place)
<1> DEFINE pairs == PairsOf(facets[name])
           n == 6 + 4 * Len(pairs)
           value == [pairs |-> pairs]
<1>1. Input /\ pc = "facets"
  BY DEF WriterInv, WriteFacet
<1>2. /\ Open(bom) /\ SoundLayout(bom.layout) /\ TreeReady(bom, "FACETKEYS")
      /\ name \in DOMAIN facets
  BY <1>1 DEF WriterInv, Writing, Before
<1>3. name \in Seq(0..255)
  BY <1>1, <1>2, FacetsTyped
<1>4. n \in Nat
  <2>1. Len(pairs) \in Nat
    BY <1>1, <1>2, PairsLength DEF Input
  <2> QED BY <2>1
<1>5. PICK place \in Places(bom, "FACETKEYS", name) :
        bom' = TreeAdd(bom, "FACETKEYS", name, value, n, place)
  BY DEF WriteFacet
<1> HIDE DEF n, value
<1>6. /\ Open(bom') /\ bom'.variables = bom.variables
      /\ HasEntry(bom, bom', "FACETKEYS", name, value, place)
  BY <1>2, <1>3, <1>4, <1>5, EntryInFile
<1> QED BY <1>2, <1>6 DEF value

(* That of a rendition. *)
LEMMA RenditionAdded ==
  ASSUME WriterInv, TypedInput, NEW k \in todo, todo \subseteq DOMAIN renditions, WriteRendition(k)
  PROVE  LET key   == KeyBytes(ValuesOf(renditions[k].attributes, FormatToWrite))
             value == [payload |-> renditions[k].payload]
         IN /\ Open(bom) /\ Open(bom') /\ bom'.variables = bom.variables
            /\ \E place \in Places(bom, "RENDITIONS", key) :
                 HasEntry(bom, bom', "RENDITIONS", key, value, place)
<1> DEFINE key == KeyBytes(ValuesOf(renditions[k].attributes, FormatToWrite))
           value == [payload |-> renditions[k].payload]
<1>1. Input /\ pc = "renditions"
  BY DEF WriterInv, WriteRendition
<1>2. Open(bom) /\ SoundLayout(bom.layout) /\ TreeReady(bom, "RENDITIONS")
  BY <1>1 DEF WriterInv, Writing, Before
<1>3. key \in Seq(0..255)
  BY <1>1, StructuredTyped
<1>4. PICK place \in Places(bom, "RENDITIONS", key) :
        bom' = TreeAdd(bom, "RENDITIONS", key, value, PayloadLength, place)
  BY DEF WriteRendition
<1>5. PayloadLength \in Nat
  BY SizesAssumption
<1> HIDE DEF value, key
<1>6. /\ Open(bom') /\ bom'.variables = bom.variables
      /\ HasEntry(bom, bom', "RENDITIONS", key, value, place)
  BY <1>2, <1>3, <1>4, <1>5, EntryInFile
<1> QED BY <1>2, <1>6 DEF value, key

(* And that of a raw rendition. *)
LEMMA RawAdded ==
  ASSUME WriterInv, TypedInput, NEW k \in todo, WriteRawRendition(k)
  PROVE  LET key   == rawRenditions[k].key
             value == [payload |-> rawRenditions[k].payload]
         IN /\ Open(bom) /\ Open(bom') /\ bom'.variables = bom.variables
            /\ \E place \in Places(bom, "RENDITIONS", key) :
                 HasEntry(bom, bom', "RENDITIONS", key, value, place)
<1> DEFINE key == rawRenditions[k].key
           value == [payload |-> rawRenditions[k].payload]
<1>1. Input /\ pc = "raw"
  BY DEF WriterInv, WriteRawRendition
<1>2. /\ Open(bom) /\ SoundLayout(bom.layout) /\ TreeReady(bom, "RENDITIONS")
      /\ k \in DOMAIN rawRenditions
  BY <1>1 DEF WriterInv, Writing, Before
<1>3. key \in Seq(0..255)
  BY <1>2, RawTyped
<1>4. PICK place \in Places(bom, "RENDITIONS", key) :
        bom' = TreeAdd(bom, "RENDITIONS", key, value, PayloadLength, place)
  BY DEF WriteRawRendition
<1>5. PayloadLength \in Nat
  BY SizesAssumption
<1> HIDE DEF value, key
<1>6. /\ Open(bom') /\ bom'.variables = bom.variables
      /\ HasEntry(bom, bom', "RENDITIONS", key, value, place)
  BY <1>2, <1>3, <1>4, <1>5, EntryInFile
<1> QED BY <1>2, <1>6 DEF value, key

-----------------------------------------------------------------------------
(* A tree that is new leaves a file of the known kinds. *)
LEMMA TypedAfterTree ==
  ASSUME NEW b, Open(b), TypedFile(b), NEW c, Open(c), Extends(b, c), Count(c) = Count(b) + 2,
         NEW name, c.variables = Append(b.variables, [name |-> name, index |-> Count(b) + 1]),
         Block(c, Count(b)) = EmptyLeaf,
         Block(c, Count(b) + 1) = [child |-> Count(b), path_count |-> 0]
  PROVE  TypedFile(c)
<1>1. Count(b) \in Nat
  BY FileNumbers
<1>2. EmptyLeaf \in Contents
  <2>1. {} \subseteq Nat /\ << >> \in Seq(Slots({}))
    OBVIOUS
  <2> QED BY <2>1, LeavesAreContents DEF EmptyLeaf
<1>3. [child |-> Count(b), path_count |-> 0] \in Contents
  BY <1>1, TreesAreContents
<1>4. \A i \in Count(b) .. Count(c) - 1 : Block(c, i) \in Contents
  <2>1. \A i \in Count(b) .. Count(c) - 1 : i = Count(b) \/ i = Count(b) + 1
    BY <1>1
  <2> QED BY <1>2, <1>3, <2>1
<1>5. IsFile(c) /\ c.layout \in Layouts /\ Count(b) <= Count(c)
  BY <1>1, OpenLengths
<1>6. \A i \in 0 .. Count(b) - 1 : Block(c, i) = Block(b, i)
  BY DEF Extends
<1>7. Count(b) + 1 \in 1 .. Count(c) - 1
  BY <1>1
<1> QED BY <1>4, <1>5, <1>6, <1>7, TypedStays

(* The tree of the facets is new. *)
LEMMA BeginFacetsTreesInv == WriterInv /\ TreesInv /\ BeginFacets => TreesInv'
<1> SUFFICES ASSUME WriterInv, TreesInv, BeginFacets PROVE TreesInv'
  OBVIOUS
<1>1. /\ Input /\ TypedInput /\ UNCHANGED input /\ TypedFile(bom) /\ Count(bom) > 0
      /\ pc = "facet tree" /\ pc' = "facets" /\ todo' = DOMAIN facets /\ NoTrees(bom)
      /\ bom' = TreeReserve(TreeAllocEmpty(bom, "FACETKEYS"), "FACETKEYS", FacetCount)
  BY DEF WriterInv, TreesInv, Before, BeginFacets
<1>2. Open(bom) /\ SoundLayout(bom.layout) /\ Absent(bom, "FACETKEYS")
  BY <1>1 DEF WriterInv, Before, Writing
<1>3. TypedInput'
  BY <1>1, SameInput
<1> DEFINE n == FacetCount
           items == WrittenFacets'
<1>4. DOMAIN items = {}
  <2>1. facets' = facets
    BY <1>1 DEF input
  <2> QED BY <1>1, <2>1 DEF WrittenFacets, FacetItems
<1>5. n \in Nat /\ NameLength("FACETKEYS") \in Nat /\ Cardinality(todo') = n
  BY <1>1, InputSizes, NameLengths DEF FacetCount
<1> HIDE DEF n, items
<1>6. /\ Open(bom') /\ Extends(bom, bom') /\ Count(bom') = Count(bom) + 2
      /\ TreeHolds(bom', "FACETKEYS", Count(bom), Count(bom'), items, n)
      /\ bom'.variables = Append(bom.variables, [name |-> "FACETKEYS", index |-> Count(bom) + 1])
      /\ Block(bom', Count(bom)) = EmptyLeaf
      /\ Block(bom', Count(bom) + 1) = [child |-> Count(bom), path_count |-> 0]
  <2>1. bom' = TreeReserve(TreeAllocEmpty(bom, "FACETKEYS"), "FACETKEYS", n)
    BY <1>1 DEF n
  <2> QED BY <1>2, <1>4, <1>5, <2>1, TreeBegun
<1>7. TypedFile(bom')
  BY <1>1, <1>2, <1>6, TypedAfterTree
<1> DEFINE c == bom'
           m == Count(bom)
<1>8. /\ m \in Nat /\ m > 0 /\ Count(c) \in Nat /\ Count(c) = m + 2
      /\ \A i \in 0 .. Count(c) - 1 : LengthOf(c, i) \in Nat
      /\ TreeHolds(c, "FACETKEYS", m, Count(c), items, n)
  <2>1. m \in Nat
    BY <1>2, FileNumbers
  <2>2. Count(c) \in Nat /\ \A i \in 0 .. Count(c) - 1 : LengthOf(c, i) \in Nat
    BY <1>6, FileNumbers
  <2> QED BY <1>1, <1>6, <2>1, <2>2
<1> HIDE DEF c, m
<1>9. TreeHolds(c, "FACETKEYS", 1, Count(c), items, n)
  <2>1. \A i \in m .. Count(c) - 1 : i \in 0 .. Count(c) - 1
    BY <1>8
  <2>2. \A i \in m .. Count(c) - 1 :
          /\ Block(c, i) = Block(c, i) /\ LengthOf(c, i) \in Nat
          /\ LengthOf(c, i) \in Nat /\ LengthOf(c, i) >= LengthOf(c, i)
    BY <1>8, <2>1
  <2>3. m \in Int /\ Count(c) \in Int /\ 1 \in Int /\ 1 <= m /\ Count(c) <= Count(c) /\ n <= n
    BY <1>5, <1>8
  <2> QED BY <1>5, <1>8, <2>2, <2>3, TreeStays
<1>10. Count(c) > 0
  BY <1>8
<1> QED BY <1>1, <1>3, <1>5, <1>7, <1>9, <1>10 DEF TreesInv, Before, items, c

(* A facet goes into its tree. *)
LEMMA WriteFacetTreesInv ==
  ASSUME WriterInv, TreesInv, NEW name \in todo, WriteFacet(name)
  PROVE  TreesInv'
<1> DEFINE pairs == PairsOf(facets[name])
           value == [pairs |-> pairs]
           items == WrittenFacets
           more == WrittenFacets'
           room == Cardinality(todo')
<1>1. /\ Input /\ TypedInput /\ UNCHANGED input /\ TypedFile(bom) /\ Count(bom) > 0
      /\ pc = "facets" /\ pc' = "facets" /\ todo' = todo \ {name} /\ facets' = facets
      /\ TreeHolds(bom, "FACETKEYS", 1, Count(bom), items, Cardinality(todo))
  BY DEF WriterInv, TreesInv, Before, WriteFacet, input
<1>2. /\ Open(bom) /\ SoundLayout(bom.layout) /\ TreeReady(bom, "FACETKEYS")
      /\ todo \subseteq DOMAIN facets
  BY <1>1 DEF WriterInv, Writing, Before
<1>3. TypedInput'
  BY <1>1, SameInput
<1>4. /\ name \in DOMAIN facets /\ name \in Seq(0..255) /\ value \in Contents
      /\ FacetItem(name).key = name /\ FacetItem(name).value = value
  BY <1>1, <1>2, FacetsTyped
<1>6. \A y \in DOMAIN items : items[y].key \in Seq(0..255)
  <2> SUFFICES ASSUME NEW y \in DOMAIN facets \ todo
               PROVE  FacetItem(y).key \in Seq(0..255)
    BY DEF WrittenFacets, FacetItems
  <2> QED BY <1>1, FacetsTyped
<1>7. OneMore(items, name, name, value, more)
  <2>1. DOMAIN items = DOMAIN facets \ todo /\ DOMAIN more = DOMAIN facets \ todo'
    BY <1>1 DEF WrittenFacets, FacetItems
  <2>2. \A y \in DOMAIN items : items[y] = FacetItem(y)
    BY DEF WrittenFacets, FacetItems
  <2>3. \A y \in DOMAIN more : more[y] = FacetItem(y)
    BY <1>1 DEF WrittenFacets, FacetItems, FacetItem
  <2> HIDE DEF items, more, value
  <2> QED BY <1>1, <1>2, <1>4, <2>1, <2>2, <2>3 DEF OneMore
<1>8. room \in Nat /\ Cardinality(todo) = room + 1
  <2>1. IsFiniteSet(todo)
    BY <1>1, <1>2, FS_Subset DEF Input
  <2> QED BY <1>1, <2>1, OneLess
<1>9. PICK place \in Places(bom, "FACETKEYS", name) :
        /\ Open(bom') /\ bom'.variables = bom.variables
        /\ HasEntry(bom, bom', "FACETKEYS", name, value, place)
  BY <1>1, FacetAdded
<1> HIDE DEF value, items, more, room
<1> DEFINE c == bom'
<1>11. TreeHolds(c, "FACETKEYS", 1, Count(c), more, room) /\ TypedFile(c) /\ Count(c) > 0
  <2>1. /\ Open(c) /\ c.variables = bom.variables
        /\ HasEntry(bom, c, "FACETKEYS", name, value, place)
    BY <1>9
  <2>2. TreeHolds(bom, "FACETKEYS", 1, Count(bom), items, room + 1)
    BY <1>1, <1>8
  <2> HIDE DEF c
  <2>3. TreeHolds(c, "FACETKEYS", 1, Count(c), more, room)
    <3>1. 1 \in Nat
      OBVIOUS
    <3> QED BY <1>2, <1>4, <1>6, <1>7, <1>8, <1>9, <2>1, <2>2, <3>1, TreeGrows
  <2>4. TypedFile(c)
    <3>1. 1 \in Nat
      OBVIOUS
    <3> QED BY <1>1, <1>4, <2>1, <2>3, <3>1, TypedAfterEntry
  <2>5. Count(c) > 0
    <3>1. Count(c) = Count(bom) + 2
      BY <2>1, Zenon DEF HasEntry
    <3>2. Count(bom) \in Nat
      BY <1>2, FileNumbers
    <3> QED BY <3>1, <3>2
  <2> QED BY <2>3, <2>4, <2>5
<1> QED BY <1>1, <1>3, <1>11 DEF TreesInv, Before, more, room

-----------------------------------------------------------------------------
(* The tree of the renditions is new, behind the other. *)
LEMMA BeginRenditionsTreesInv == WriterInv /\ TreesInv /\ BeginRenditions => TreesInv'
<1> SUFFICES ASSUME WriterInv, TreesInv, BeginRenditions PROVE TreesInv'
  OBVIOUS
<1> DEFINE n == RenditionCount
           first == AllFacets
           second == WrittenRenditions'
           m == Count(bom)
<1>1. /\ Input /\ TypedInput /\ UNCHANGED input /\ TypedFile(bom) /\ Count(bom) > 0
      /\ pc = "facets" /\ pc' = "renditions" /\ todo = {} /\ todo' = DOMAIN renditions
      /\ TreeHolds(bom, "FACETKEYS", 1, m, WrittenFacets, Cardinality(todo))
      /\ bom' = TreeReserve(TreeAllocEmpty(bom, "RENDITIONS"), "RENDITIONS", RenditionCount)
  BY DEF WriterInv, TreesInv, Before, BeginRenditions
<1>2. Open(bom) /\ SoundLayout(bom.layout) /\ Absent(bom, "RENDITIONS")
  BY <1>1 DEF WriterInv, Before, Writing
<1>3. TypedInput' /\ AllFacets' = AllFacets
  BY <1>1, SameInput
<1>4. TreeHolds(bom, "FACETKEYS", 1, m, first, 0)
  <2>1. WrittenFacets = AllFacets
    <3>1. DOMAIN facets \ todo = DOMAIN facets
      BY <1>1
    <3> QED BY <3>1 DEF WrittenFacets, AllFacets
  <2>2. Cardinality(todo) = 0
    BY <1>1, FS_EmptySet
  <2> QED BY <1>1, <2>1, <2>2
<1>5. /\ renditions' = renditions /\ rawRenditions' = rawRenditions
  BY <1>1 DEF input
<1>6. DOMAIN second = {}
  BY <1>1, <1>5 DEF WrittenRenditions, RenditionItems
<1>7. n \in Nat /\ NameLength("RENDITIONS") \in Nat
  BY <1>1, InputSizes, NameLengths
<1>8. Cardinality(todo') + Len(rawRenditions') = n
  <2>1. Len(renditions) \in Nat /\ DOMAIN renditions = 1 .. Len(renditions)
    BY <1>1, SeqOfItsElements DEF Input, IsSeq
  <2>2. Cardinality(1 .. Len(renditions)) = Len(renditions)
    BY <2>1, SizeOfRange
  <2> QED BY <1>1, <1>5, <2>1, <2>2 DEF RenditionCount
<1> HIDE DEF n, first, second, m
<1> DEFINE c == bom'
<1>9. /\ Open(c) /\ Extends(bom, c) /\ Count(c) = m + 2
      /\ TreeHolds(c, "RENDITIONS", m, Count(c), second, n)
      /\ c.variables = Append(bom.variables, [name |-> "RENDITIONS", index |-> m + 1])
      /\ VariableGet(c, "FACETKEYS") = VariableGet(bom, "FACETKEYS")
      /\ Block(c, m) = EmptyLeaf /\ Block(c, m + 1) = [child |-> m, path_count |-> 0]
  <2>1. c = TreeReserve(TreeAllocEmpty(bom, "RENDITIONS"), "RENDITIONS", n)
    BY <1>1 DEF n
  <2> HIDE DEF c
  <2>2. /\ Open(c) /\ Extends(bom, c) /\ Count(c) = Count(bom) + 2
        /\ TreeHolds(c, "RENDITIONS", Count(bom), Count(c), second, n)
        /\ c.variables = Append(bom.variables, [name |-> "RENDITIONS", index |-> Count(bom) + 1])
        /\ \A other : other # "RENDITIONS" => VariableGet(c, other) = VariableGet(bom, other)
        /\ Block(c, Count(bom)) = EmptyLeaf
        /\ Block(c, Count(bom) + 1) = [child |-> Count(bom), path_count |-> 0]
    BY <1>2, <1>6, <1>7, <2>1, TreeBegun
  <2> QED BY <2>2 DEF m
<1> HIDE DEF c
<1>10. TypedFile(c)
  BY <1>1, <1>2, <1>9, TypedAfterTree DEF m
<1>11. /\ m \in Nat /\ m > 0 /\ Count(c) \in Nat
       /\ \A i \in 0 .. m - 1 : LengthOf(bom, i) \in Nat
       /\ \A i \in 0 .. Count(c) - 1 : LengthOf(c, i) \in Nat
  BY <1>1, <1>2, <1>9, FileNumbers DEF m
<1>12. TreeHolds(c, "FACETKEYS", 1, m, first, 0)
  <2>1. \A i \in 1 .. m - 1 : i \in 0 .. m - 1 /\ i \in 0 .. Count(c) - 1
    BY <1>9, <1>11
  <2>2. \A i \in 0 .. m - 1 : Block(c, i) = Block(bom, i) /\ LengthOf(c, i) >= LengthOf(bom, i)
    BY <1>9 DEF Extends, m
  <2>3. \A i \in 1 .. m - 1 : /\ Block(c, i) = Block(bom, i) /\ LengthOf(bom, i) \in Nat
                              /\ LengthOf(c, i) \in Nat /\ LengthOf(c, i) >= LengthOf(bom, i)
    BY <1>11, <2>1, <2>2, Zenon
  <2>4. 1 \in Int /\ m \in Int /\ 0 \in Nat /\ 1 <= 1 /\ m <= m /\ 0 <= 0
    BY <1>11
  <2> QED BY <1>4, <1>9, <2>3, <2>4, TreeStays
<1>13. BothTrees(c, first, second, n)
  <2>1. m \in 1 .. Count(c)
    BY <1>9, <1>11
  <2> QED BY <1>9, <1>12, <2>1, Zenon DEF BothTrees
<1>14. Count(c) > 0 /\ todo' \subseteq DOMAIN renditions'
  BY <1>1, <1>5, <1>9, <1>11
<1> QED BY <1>1, <1>3, <1>8, <1>10, <1>13, <1>14 DEF TreesInv, Before, first, second, c

-----------------------------------------------------------------------------
(* Adding facets and renditions. *)
LEMMA CollectTreesInv == WriterInv /\ TreesInv /\ Collect => TreesInv'
<1> SUFFICES ASSUME WriterInv, TreesInv, Collect PROVE TreesInv'
  OBVIOUS
<1>1. /\ Input /\ TypedInput /\ TypedFile(bom) /\ NoTrees(bom)
      /\ bom' = bom /\ pc' = pc /\ header' = header /\ pc = "collect"
  BY DEF WriterInv, TreesInv, Before, Collect, AddFacet, AddRendition, AddRawRendition
<1>2. /\ \A k \in DOMAIN renditions : renditions[k].payload \in Payloads
      /\ \A k \in DOMAIN rawRenditions :
           rawRenditions[k].key \in Seq(0..255) /\ rawRenditions[k].payload \in Payloads
      /\ IsSeq(renditions) /\ IsSeq(rawRenditions)
  BY <1>1 DEF TypedInput, Input
<1>3. SUFFICES /\ \A k \in DOMAIN renditions' : renditions'[k].payload \in Payloads
               /\ \A k \in DOMAIN rawRenditions' :
                    rawRenditions'[k].key \in Seq(0..255) /\ rawRenditions'[k].payload \in Payloads
  <2>1. TypedInput'
    BY <1>1, <1>3 DEF TypedInput
  <2>2. pc' \notin {"facets", "renditions", "raw", "written", "relocated"}
    BY <1>1
  <2> QED BY <1>1, <2>1, <2>2 DEF TreesInv, NoTrees, Absent, Named
<1>4. ASSUME NEW name \in Names, NEW a \in AttributeLists, AddFacet(name, a)
      PROVE  renditions' = renditions /\ rawRenditions' = rawRenditions
  BY <1>4 DEF AddFacet
<1>5. ASSUME NEW a \in AttributeLists, NEW p \in Payloads, AddRendition(a, p)
      PROVE  /\ \A k \in DOMAIN renditions' : renditions'[k].payload \in Payloads
             /\ rawRenditions' = rawRenditions
  <2>1. rawRenditions' = rawRenditions
    BY <1>5 DEF AddRendition
  <2>2. CASE renditions' = renditions
    BY <1>2, <2>1, <2>2
  <2>3. CASE renditions' = Append(renditions, [attributes |-> a, payload |-> p])
    <3> DEFINE r == [attributes |-> a, payload |-> p]
    <3>1. r.payload = p
      OBVIOUS
    <3> HIDE DEF r
    <3>2. /\ IsSeq(renditions') /\ Len(renditions') = Len(renditions) + 1
          /\ Len(renditions) \in Nat /\ renditions'[Len(renditions) + 1] = r
          /\ \A j \in 1 .. Len(renditions) : renditions'[j] = renditions[j]
      BY <1>2, <2>3, Appended DEF r
    <3>3. DOMAIN renditions = 1 .. Len(renditions) /\ DOMAIN renditions' = 1 .. Len(renditions')
      BY <1>2, <3>2, SeqOfItsElements DEF IsSeq
    <3>4. ASSUME NEW k \in DOMAIN renditions' PROVE renditions'[k].payload \in Payloads
      <4>1. k = Len(renditions) + 1 \/ k \in 1 .. Len(renditions)
        BY <3>2, <3>3
      <4> QED BY <1>2, <3>1, <3>2, <3>3, <4>1
    <3> QED BY <2>1, <3>4
  <2> QED BY <1>5, <2>2, <2>3 DEF AddRendition
<1>6. ASSUME NEW p \in Payloads, NEW values \in [DOMAIN keyfmt -> RawValues],
             AddRawRendition(values, p)
      PROVE  /\ \A k \in DOMAIN rawRenditions' :
                  rawRenditions'[k].key \in Seq(0..255) /\ rawRenditions'[k].payload \in Payloads
             /\ renditions' = renditions
  <2>1. /\ renditions' = renditions /\ keyfmt # NoFormat
        /\ rawRenditions' = Append(rawRenditions, [key |-> KeyBytes(values), payload |-> p])
    BY <1>6 DEF AddRawRendition
  <2>2. KeyBytes(values) \in Seq(0..255)
    <3>1. keyfmt \in Seq(Nat)
      BY <1>1, <2>1, CatalogAssumption DEF Input
    <3>2. DOMAIN keyfmt = 1 .. Len(keyfmt) /\ Len(keyfmt) \in Nat
      BY <3>1, LenProperties
    <3>3. DOMAIN values = DOMAIN keyfmt /\ values = [i \in DOMAIN values |-> values[i]]
      OBVIOUS
    <3>4. Len(values) = Len(keyfmt)
      BY <3>2, <3>3, LengthOfFunction
    <3>5. \A i \in 1 .. Len(values) : values[i] \in TwoBytes
      BY <3>2, <3>4, AttributesTyped
    <3> QED BY <3>2, <3>3, <3>4, <3>5, KeyTyped
  <2> DEFINE r == [key |-> KeyBytes(values), payload |-> p]
  <2>3. r.key \in Seq(0..255) /\ r.payload = p
    BY <2>2
  <2>4. rawRenditions' = Append(rawRenditions, r)
    BY <2>1
  <2> HIDE DEF r
  <2>5. /\ IsSeq(rawRenditions') /\ Len(rawRenditions') = Len(rawRenditions) + 1
        /\ Len(rawRenditions) \in Nat /\ rawRenditions'[Len(rawRenditions) + 1] = r
        /\ \A j \in 1 .. Len(rawRenditions) : rawRenditions'[j] = rawRenditions[j]
    BY <1>2, <2>4, Appended
  <2>6. /\ DOMAIN rawRenditions = 1 .. Len(rawRenditions)
        /\ DOMAIN rawRenditions' = 1 .. Len(rawRenditions')
    BY <1>2, <2>5, SeqOfItsElements DEF IsSeq
  <2>7. ASSUME NEW k \in DOMAIN rawRenditions'
        PROVE  rawRenditions'[k].key \in Seq(0..255) /\ rawRenditions'[k].payload \in Payloads
    <3>1. k = Len(rawRenditions) + 1 \/ k \in 1 .. Len(rawRenditions)
      BY <2>5, <2>6
    <3> QED BY <1>2, <2>3, <2>5, <2>6, <3>1
  <2> QED BY <2>1, <2>7
<1> QED BY <1>2, <1>4, <1>5, <1>6 DEF Collect

(* A rendition goes into its tree. *)
LEMMA WriteRenditionTreesInv ==
  ASSUME WriterInv, TreesInv, NEW k \in todo, WriteRendition(k)
  PROVE  TreesInv'
<1> DEFINE key == KeyBytes(ValuesOf(renditions[k].attributes, FormatToWrite))
           value == [payload |-> renditions[k].payload]
           x == << "structured", k >>
           first == AllFacets
           items == WrittenRenditions
           more == WrittenRenditions'
           room == Cardinality(todo') + Len(rawRenditions)
<1>1. /\ Input /\ TypedInput /\ UNCHANGED input /\ TypedFile(bom) /\ Count(bom) > 0
      /\ pc = "renditions" /\ pc' = "renditions" /\ todo' = todo \ {k}
      /\ UNCHANGED << renditions, rawRenditions >> /\ todo \subseteq DOMAIN renditions
      /\ BothTrees(bom, first, items, Cardinality(todo) + Len(rawRenditions))
  BY DEF WriterInv, TreesInv, Before, WriteRendition, input
<1>2. Open(bom) /\ SoundLayout(bom.layout) /\ TreeReady(bom, "RENDITIONS")
  BY <1>1 DEF WriterInv, Writing, Before
<1>3. TypedInput' /\ AllFacets' = AllFacets /\ FormatToWrite' = FormatToWrite
  BY <1>1, SameInput
<1>4. /\ RenditionItem(x).key = key /\ RenditionItem(x).value = value
      /\ key \in Seq(0..255) /\ value \in Contents
  BY <1>1, StructuredTyped
<1>5. \A y \in DOMAIN items : items[y].key \in Seq(0..255)
  <2>1. DOMAIN renditions \ todo \subseteq DOMAIN renditions /\ {} \subseteq DOMAIN rawRenditions
    OBVIOUS
  <2> QED BY <1>1, <2>1, RenditionsTyped DEF WrittenRenditions
<1>6. OneMore(items, x, key, value, more)
  <2>1. /\ DOMAIN items = {"structured"} \X (DOMAIN renditions \ todo)
        /\ DOMAIN more = {"structured"} \X (DOMAIN renditions \ todo')
    BY <1>1 DEF WrittenRenditions, RenditionItems
  <2>2. \A y \in DOMAIN items : items[y] = RenditionItem(y)
    BY DEF WrittenRenditions, RenditionItems
  <2>3. \A y \in DOMAIN more : more[y] = RenditionItem(y)
    BY <1>1, <1>3 DEF WrittenRenditions, RenditionItems, RenditionItem
  <2> HIDE DEF items, more, value, key
  <2>4. k \in DOMAIN renditions /\ k \in todo
    BY <1>1
  <2>5. x \notin DOMAIN items /\ DOMAIN more = DOMAIN items \cup {x}
    BY <1>1, <2>1, <2>4
  <2>6. x \in DOMAIN more /\ DOMAIN items \subseteq DOMAIN more
    BY <2>5
  <2> HIDE DEF x
  <2> QED BY <1>4, <2>2, <2>3, <2>5, <2>6 DEF OneMore
<1>7. room \in Nat /\ Cardinality(todo) + Len(rawRenditions) = room + 1
  <2>1. Len(renditions) \in Nat /\ DOMAIN renditions = 1 .. Len(renditions)
        /\ Len(rawRenditions) \in Nat
    BY <1>1, SeqOfItsElements DEF Input, IsSeq
  <2>2. IsFiniteSet(todo)
    BY <1>1, <2>1, SizeOfRange, FS_Subset
  <2>3. Cardinality(todo') \in Nat /\ Cardinality(todo) = Cardinality(todo') + 1
    BY <1>1, <2>2, OneLess
  <2> DEFINE p == Cardinality(todo)  q == Cardinality(todo')  r == Len(rawRenditions)
  <2>4. q \in Nat /\ p = q + 1 /\ r \in Nat
    BY <2>1, <2>3
  <2> HIDE DEF p, q, r
  <2>5. q + r \in Nat /\ p + r = (q + r) + 1
    BY <2>4
  <2> QED BY <2>5 DEF p, q, r
<1>8. PICK place \in Places(bom, "RENDITIONS", key) :
        /\ Open(bom') /\ bom'.variables = bom.variables
        /\ HasEntry(bom, bom', "RENDITIONS", key, value, place)
  BY <1>1, RenditionAdded
<1> HIDE DEF value, key, first, items, more, room, x
<1> DEFINE c == bom'
<1>10. /\ Open(c) /\ c.variables = bom.variables
       /\ HasEntry(bom, c, "RENDITIONS", key, value, place)
  BY <1>8
<1> HIDE DEF c
<1>11. BothTrees(c, first, more, room) /\ TypedFile(c)
  <2>1. BothTrees(bom, first, items, room + 1)
    BY <1>1, <1>7
  <2> QED BY <1>1, <1>2, <1>4, <1>5, <1>6, <1>7, <1>8, <1>10, <2>1, BothTreesGrow
<1>12. Count(c) > 0
  <2>1. Count(c) = Count(bom) + 2
    BY <1>10, Zenon DEF HasEntry
  <2>2. Count(bom) \in Nat
    BY <1>2, FileNumbers
  <2> QED BY <2>1, <2>2
<1>13. todo' \subseteq DOMAIN renditions'
  BY <1>1
<1> QED BY <1>1, <1>3, <1>11, <1>12, <1>13 DEF TreesInv, Before, c, first, more, room

(* The renditions are all there, and the raw ones come next. *)
LEMMA BeginRawTreesInv == WriterInv /\ TreesInv /\ BeginRawRenditions => TreesInv'
<1> SUFFICES ASSUME WriterInv, TreesInv, BeginRawRenditions PROVE TreesInv'
  OBVIOUS
<1>1. /\ Input /\ TypedInput /\ UNCHANGED input /\ TypedFile(bom) /\ Count(bom) > 0
      /\ pc = "renditions" /\ pc' = "raw" /\ todo = {} /\ todo' = DOMAIN rawRenditions
      /\ UNCHANGED << renditions, rawRenditions >> /\ bom' = bom
      /\ BothTrees(bom, AllFacets, WrittenRenditions, Cardinality(todo) + Len(rawRenditions))
  BY DEF WriterInv, TreesInv, Before, BeginRawRenditions, input
<1>2. TypedInput' /\ AllFacets' = AllFacets /\ FormatToWrite' = FormatToWrite
  BY <1>1, SameInput
<1>3. WrittenRaw' = WrittenRenditions
  <2>1. /\ DOMAIN renditions \ todo = DOMAIN renditions
        /\ DOMAIN rawRenditions' \ todo' = {} /\ DOMAIN renditions' = DOMAIN renditions
    BY <1>1
  <2>2. WrittenRenditions = RenditionItems(DOMAIN renditions, {})
    BY <2>1 DEF WrittenRenditions
  <2> QED BY <1>1, <1>2, <2>1, <2>2 DEF WrittenRaw, RenditionItems, RenditionItem
<1>4. Cardinality(todo') = Cardinality(todo) + Len(rawRenditions)
  <2>1. Len(rawRenditions) \in Nat /\ DOMAIN rawRenditions = 1 .. Len(rawRenditions)
    BY <1>1, SeqOfItsElements DEF Input, IsSeq
  <2>2. Cardinality(todo') = Len(rawRenditions)
    BY <1>1, <2>1, SizeOfRange
  <2>3. Cardinality(todo) = 0
    BY <1>1, FS_EmptySet
  <2> QED BY <2>1, <2>2, <2>3
<1>5. BothTrees(bom', AllFacets', WrittenRaw', Cardinality(todo'))
  BY <1>1, <1>2, <1>3, <1>4
<1>6. TypedFile(bom') /\ Count(bom') > 0
  BY <1>1
<1> QED BY <1>1, <1>2, <1>5, <1>6 DEF TreesInv, Before

-----------------------------------------------------------------------------
(* A raw rendition goes into the tree of the renditions. *)
LEMMA WriteRawTreesInv ==
  ASSUME WriterInv, TreesInv, NEW k \in todo, WriteRawRendition(k)
  PROVE  TreesInv'
<1> DEFINE key == rawRenditions[k].key
           value == [payload |-> rawRenditions[k].payload]
           x == << "raw", k >>
           first == AllFacets
           items == WrittenRaw
           more == WrittenRaw'
           room == Cardinality(todo')
<1>1. /\ Input /\ TypedInput /\ UNCHANGED input /\ TypedFile(bom) /\ Count(bom) > 0
      /\ pc = "raw" /\ pc' = "raw" /\ todo' = todo \ {k}
      /\ UNCHANGED << renditions, rawRenditions >> /\ todo \subseteq DOMAIN rawRenditions
      /\ BothTrees(bom, first, items, Cardinality(todo))
  BY DEF WriterInv, TreesInv, Before, WriteRawRendition, input
<1>2. Open(bom) /\ SoundLayout(bom.layout) /\ TreeReady(bom, "RENDITIONS")
  BY <1>1 DEF WriterInv, Writing, Before
<1>3. TypedInput' /\ AllFacets' = AllFacets /\ FormatToWrite' = FormatToWrite
  BY <1>1, SameInput
<1>4. /\ RenditionItem(x).key = key /\ RenditionItem(x).value = value
      /\ key \in Seq(0..255) /\ value \in Contents
  BY <1>1, RawTyped
<1>5. \A y \in DOMAIN items : items[y].key \in Seq(0..255)
  <2>1. DOMAIN renditions \subseteq DOMAIN renditions
        /\ DOMAIN rawRenditions \ todo \subseteq DOMAIN rawRenditions
    OBVIOUS
  <2> QED BY <1>1, <2>1, RenditionsTyped DEF WrittenRaw
<1>6. OneMore(items, x, key, value, more)
  <2> DEFINE S == {"structured"} \X DOMAIN renditions
             T == {"raw"} \X (DOMAIN rawRenditions \ todo)
             U == {"raw"} \X (DOMAIN rawRenditions \ todo')
  <2>1. DOMAIN items = S \cup T /\ DOMAIN more = S \cup U
    BY <1>1 DEF WrittenRaw, RenditionItems
  <2>2. \A y \in DOMAIN items : items[y] = RenditionItem(y)
    BY DEF WrittenRaw, RenditionItems
  <2>3. \A y \in DOMAIN more : more[y] = RenditionItem(y)
    BY <1>1, <1>3 DEF WrittenRaw, RenditionItems, RenditionItem
  <2> HIDE DEF items, more, value, key
  <2>4. k \in DOMAIN rawRenditions /\ k \in todo
    BY <1>1
  <2>5. x \notin S /\ x \notin T /\ U = T \cup {x}
    BY <1>1, <2>4
  <2> HIDE DEF x, S, T, U
  <2>6. /\ x \notin DOMAIN items /\ DOMAIN more = DOMAIN items \cup {x}
        /\ x \in DOMAIN more /\ DOMAIN items \subseteq DOMAIN more
    BY <2>1, <2>5
  <2> QED BY <1>4, <2>2, <2>3, <2>6 DEF OneMore
<1>7. room \in Nat /\ Cardinality(todo) = room + 1
  <2>1. Len(rawRenditions) \in Nat /\ DOMAIN rawRenditions = 1 .. Len(rawRenditions)
    BY <1>1, SeqOfItsElements DEF Input, IsSeq
  <2>2. IsFiniteSet(todo)
    BY <1>1, <2>1, SizeOfRange, FS_Subset
  <2> QED BY <1>1, <2>2, OneLess
<1>8. PICK place \in Places(bom, "RENDITIONS", key) :
        /\ Open(bom') /\ bom'.variables = bom.variables
        /\ HasEntry(bom, bom', "RENDITIONS", key, value, place)
  BY <1>1, RawAdded
<1> HIDE DEF value, key, first, items, more, room, x
<1> DEFINE c == bom'
<1>10. /\ Open(c) /\ c.variables = bom.variables
       /\ HasEntry(bom, c, "RENDITIONS", key, value, place)
  BY <1>8
<1> HIDE DEF c
<1>11. BothTrees(c, first, more, room) /\ TypedFile(c)
  <2>1. BothTrees(bom, first, items, room + 1)
    BY <1>1, <1>7
  <2> QED BY <1>1, <1>2, <1>4, <1>5, <1>6, <1>7, <1>8, <1>10, <2>1, BothTreesGrow
<1>12. Count(c) > 0
  <2>1. Count(c) = Count(bom) + 2
    BY <1>10, Zenon DEF HasEntry
  <2>2. Count(bom) \in Nat
    BY <1>2, FileNumbers
  <2> QED BY <2>1, <2>2
<1> QED BY <1>1, <1>3, <1>11, <1>12 DEF TreesInv, Before, c, first, more, room

(* A file that has more, with the same variables, or one besides. *)
LEMMA TreesStay ==
  ASSUME NEW b, IsFile(b), b.layout \in Layouts, NEW c, IsFile(c), c.layout \in Layouts,
         Extends(b, c), Count(b) > 0,
         \A name \in {"FACETKEYS", "RENDITIONS"} :
           /\ VariableGet(c, name) = VariableGet(b, name)
           /\ Absent(b, name) => Absent(c, name)
  PROVE  /\ Count(c) > 0 /\ (NoTrees(b) => NoTrees(c))
         /\ \A first, second : BothTrees(b, first, second, 0) => BothTrees(c, first, second, 0)
<1>1. Count(b) <= Count(c) /\ Count(b) \in Nat /\ Count(c) \in Nat
  BY FileLengths DEF Extends
<1>2. NoTrees(b) => NoTrees(c)
  BY DEF NoTrees
<1>3. ASSUME NEW first, NEW second, BothTrees(b, first, second, 0)
      PROVE  BothTrees(c, first, second, 0)
  <2>1. 0 \in Nat /\ 0 <= 0
    OBVIOUS
  <2>2. \A name \in {"FACETKEYS", "RENDITIONS"} : VariableGet(c, name) = VariableGet(b, name)
    OBVIOUS
  <2> QED BY <1>3, <2>1, <2>2, BothTreesStay
<1> QED BY <1>1, <1>2, <1>3

(* The last call, and what comes behind it. *)
LEMMA TailTreesInv == WriterInv /\ TreesInv /\ (Finish \/ PassThrough \/ Relocate) => TreesInv'
<1> SUFFICES ASSUME WriterInv, TreesInv, Finish \/ PassThrough \/ Relocate PROVE TreesInv'
  OBVIOUS
<1>1. /\ Input /\ TypedInput /\ UNCHANGED input /\ TypedFile(bom) /\ Count(bom) > 0 /\ Open(bom)
  BY DEF WriterInv, TreesInv, Finish, PassThrough, Relocate, Returned, input
<1>2. TypedInput' /\ AllFacets' = AllFacets /\ AllRenditions' = AllRenditions
  BY <1>1, SameInput
<1>3. IsFile(bom) /\ bom.layout \in Layouts
  BY <1>1 DEF TypedFile
<1> DEFINE c == bom'
           first == AllFacets
           second == AllRenditions
<1>4. CASE Finish
  <2>1. /\ SoundLayout(bom.layout) /\ c = WithVacant(bom, 2) /\ pc' = "written"
        /\ BothTrees(bom, first, WrittenRaw, Cardinality(todo)) /\ todo = {}
    BY <1>4 DEF WriterInv, TreesInv, Writing, Finish
  <2> HIDE DEF c
  <2>2. BothTrees(bom, first, second, 0)
    <3>1. WrittenRaw = second
      <4>1. DOMAIN rawRenditions \ todo = DOMAIN rawRenditions
        BY <2>1
      <4> QED BY <4>1 DEF WrittenRaw, AllRenditions
    <3>2. Cardinality(todo) = 0
      BY <2>1, FS_EmptySet
    <3> QED BY <2>1, <3>1, <3>2
  <2>3. /\ Open(c) /\ c.variables = bom.variables /\ Extends(bom, c)
        /\ \A i \in Count(bom) .. Count(c) - 1 : Block(c, i) = NoContent
    <3>1. 2 \in {1, 2}
      OBVIOUS
    <3> QED BY <1>1, <2>1, <3>1, VacantAdded
  <2>4. IsFile(c) /\ c.layout \in Layouts /\ Count(bom) <= Count(c)
    BY <2>3, OpenLengths DEF Extends
  <2>5. TypedFile(c)
    <3>1. \A i \in Count(bom) .. Count(c) - 1 : Block(c, i) \in Contents
      BY <2>3, NoContentIsContents
    <3>2. \A i \in 0 .. Count(bom) - 1 : Block(c, i) = Block(bom, i)
      BY <2>3 DEF Extends
    <3> QED BY <1>1, <2>3, <2>4, <3>1, <3>2, TypedStays
  <2>6. \A name \in {"FACETKEYS", "RENDITIONS"} :
          /\ VariableGet(c, name) = VariableGet(bom, name)
          /\ Absent(bom, name) => Absent(c, name)
    BY <2>3 DEF VariableGet, Absent, Named
  <2> HIDE DEF first, second
  <2>7. BothTrees(c, first, second, 0) /\ Count(c) > 0
    BY <1>1, <1>3, <2>2, <2>3, <2>4, <2>6, TreesStay
  <2> QED BY <1>2, <2>1, <2>5, <2>7 DEF TreesInv, Before, c, first, second
<1>5. CASE PassThrough
  <2>1. /\ c = WithVariable(WithBlock(bom, NoContent, 1), "OTHER", Count(bom)) /\ pc' = pc
        /\ \/ pc = "failed" /\ NoTrees(bom)
           \/ pc = "written" /\ BothTrees(bom, first, second, 0)
    BY <1>5 DEF PassThrough, Returned, TreesInv
  <2> HIDE DEF c, first, second
  <2>2. 1 \in Nat /\ NameLength("OTHER") \in Nat
    BY NameLengths
  <2>3. /\ Open(c) /\ TypedFile(c) /\ Extends(bom, c)
        /\ \A other : other # "OTHER" => VariableGet(c, other) = VariableGet(bom, other)
        /\ \A other : other # "OTHER" /\ Absent(bom, other) => Absent(c, other)
    BY <1>1, <2>1, <2>2, NoContentIsContents, VariableWithBlock
  <2>4. \A name \in {"FACETKEYS", "RENDITIONS"} :
          /\ VariableGet(c, name) = VariableGet(bom, name)
          /\ Absent(bom, name) => Absent(c, name)
    BY <2>3
  <2>5. IsFile(c) /\ c.layout \in Layouts
    BY <2>3 DEF TypedFile
  <2>6. /\ Count(c) > 0 /\ (NoTrees(bom) => NoTrees(c))
        /\ BothTrees(bom, first, second, 0) => BothTrees(c, first, second, 0)
    BY <1>1, <1>3, <2>3, <2>4, <2>5, TreesStay
  <2> QED BY <1>2, <2>1, <2>3, <2>6 DEF TreesInv, Before, c, first, second
<1>6. CASE Relocate
  <2>1. /\ c = WithTrailerMoved(bom) /\ pc' = "relocated"
        /\ NoTrees(bom) \/ BothTrees(bom, first, second, 0)
    BY <1>6 DEF Relocate, Returned, TreesInv
  <2> HIDE DEF c, first, second
  <2>2. /\ IsFile(c) /\ c.layout \in Layouts /\ Extends(bom, c) /\ Count(c) = Count(bom)
        /\ c.variables = bom.variables
    BY <1>1, <2>1, TrailerMoved
  <2>3. Count(bom) \in Nat
    BY <1>1, FileNumbers
  <2>4. TypedFile(c)
    <3>1. \A i \in 0 .. Count(bom) - 1 : Block(c, i) = Block(bom, i)
      BY <2>2 DEF Extends
    <3>2. \A i \in Count(bom) .. Count(c) - 1 : Block(c, i) \in Contents
      BY <2>2, <2>3
    <3>3. Count(bom) <= Count(c)
      BY <2>2, <2>3
    <3> QED BY <1>1, <2>2, <3>1, <3>2, <3>3, TypedStays
  <2>5. \A name \in {"FACETKEYS", "RENDITIONS"} :
          /\ VariableGet(c, name) = VariableGet(bom, name)
          /\ Absent(bom, name) => Absent(c, name)
    BY <2>2 DEF VariableGet, Absent, Named
  <2>6. /\ Count(c) > 0 /\ (NoTrees(bom) => NoTrees(c))
        /\ BothTrees(bom, first, second, 0) => BothTrees(c, first, second, 0)
    BY <1>1, <1>3, <2>2, <2>5, TreesStay
  <2> QED BY <1>2, <2>1, <2>4, <2>6 DEF TreesInv, Before, c, first, second
<1> QED BY <1>4, <1>5, <1>6

(* A step that changes nothing. *)
LEMMA StutterTreesInv == TreesInv /\ UNCHANGED vars => TreesInv'
<1> SUFFICES ASSUME TreesInv, UNCHANGED vars PROVE TreesInv'
  OBVIOUS
<1>1. UNCHANGED << bom, facets, renditions, rawRenditions, keyfmt, header, pc, todo >>
  BY DEF vars
<1>2. TypedInput' /\ AllFacets' = AllFacets /\ AllRenditions' = AllRenditions
      /\ FormatToWrite' = FormatToWrite
  BY <1>1, SameInput DEF TreesInv, input
<1>3. WrittenFacets' = WrittenFacets
  BY <1>1 DEF WrittenFacets, FacetItems, FacetItem
<1>4. WrittenRenditions' = WrittenRenditions /\ WrittenRaw' = WrittenRaw
  BY <1>1, <1>2 DEF WrittenRenditions, WrittenRaw, RenditionItems, RenditionItem
<1> QED BY <1>1, <1>2, <1>3, <1>4 DEF TreesInv

(* WriterInv and TreesInv are an inductive invariant together. *)
LEMMA TreesInvStep == WriterInv /\ TreesInv /\ [Next]_vars => WriterInv' /\ TreesInv'
<1> SUFFICES ASSUME WriterInv, TreesInv, [Next]_vars PROVE WriterInv' /\ TreesInv'
  OBVIOUS
<1>1. CASE Collect
  BY <1>1, CollectWriterInv, CollectTreesInv
<1>2. CASE Write
  <2>1. WriterInv'
    BY <1>2, HeadWriterInv, TreesWriterInv, FacetWriterInv, RenditionWriterInv, RawWriterInv,
       TailWriterInv
       DEF Write
  <2>2. TreesInv'
    BY <1>2, HeadTreesInv, BeginFacetsTreesInv, WriteFacetTreesInv, BeginRenditionsTreesInv,
       WriteRenditionTreesInv, BeginRawTreesInv, WriteRawTreesInv, TailTreesInv
       DEF Write
  <2> QED BY <2>1, <2>2
<1>3. CASE PassThrough \/ Relocate
  BY <1>3, TailWriterInv, TailTreesInv
<1>4. CASE UNCHANGED vars
  BY <1>4, StutterWriterInv, StutterTreesInv
<1> QED BY <1>1, <1>2, <1>3, <1>4 DEF Next

-----------------------------------------------------------------------------
(* What a reader needs of a tree in the blocks from lo to below hi, of     *)
(* which the values are of one kind.                                       *)
GoodTree(b, name, lo, hi, kind) ==
  LET child == ChildIndex(b, name)
      es    == EntriesOfTree(b, name)
  IN /\ child \in lo .. hi - 1 /\ Block(b, child) = Node(TRUE, es, 0, 0)
     /\ Len(es) \in Nat /\ DOMAIN es = 1 .. Len(es)
     /\ \A i \in DOMAIN es :
          /\ es[i].key \in lo .. hi - 1 /\ es[i].value \in lo .. hi - 1
          /\ es[i].key # es[i].value
          /\ "bytes" \in DOMAIN Block(b, es[i].key) /\ kind \in DOMAIN Block(b, es[i].value)
     /\ \A i, j \in DOMAIN es : i # j => {es[i].key, es[i].value} \cap {es[j].key, es[j].value} = {}
     /\ \A i, j \in DOMAIN es : i < j => ~Precedes(KeyOf(b, es[j]), KeyOf(b, es[i]))
     /\ LeafHeaderSize + SlotSize * Len(es) <= LengthOf(b, child)

(* A tree that is held is as a reader needs it. *)
LEMMA HeldIsGood ==
  ASSUME NEW b, IsFile(b), b.layout \in Layouts, NEW name, NEW lo \in Nat, NEW hi \in Nat,
         hi <= Count(b), NEW items, NEW room \in Nat, NEW kind,
         TreeHolds(b, name, lo, hi, items, room),
         \A x \in DOMAIN items : kind \in DOMAIN items[x].value
  PROVE  GoodTree(b, name, lo, hi, kind)
<1> DEFINE t == VariableGet(b, name)
           k == ChildIndex(b, name)
           es == EntriesOfTree(b, name)
           S == Slots((lo .. hi - 1) \ {t, k})
<1>1. PICK of : Held(b, name, lo, hi, items, room, es, of)
  BY Zenon DEF TreeHolds
<1>2. /\ k \in lo .. hi - 1 /\ Block(b, k) = Node(TRUE, es, 0, 0)
      /\ es \in Seq(S)
      /\ \A i, j \in DOMAIN es : i # j =>
           {es[i].key, es[i].value} \cap {es[j].key, es[j].value} = {}
      /\ of \in Bijection(DOMAIN es, DOMAIN items)
      /\ \A i \in DOMAIN es : Stands(b, es[i], items[of[i]])
      /\ \A i, j \in DOMAIN es : i < j => ~Precedes(KeyOf(b, es[j]), KeyOf(b, es[i]))
      /\ LeafHeaderSize + SlotSize * (Len(es) + room) <= LengthOf(b, k)
  BY <1>1, Zenon DEF Held
<1> HIDE DEF t, k, es
<1>3. DOMAIN es = 1 .. Len(es) /\ Len(es) \in Nat /\ \A i \in DOMAIN es : es[i] \in S
  <2> HIDE DEF S
  <2> QED BY <1>2, LenProperties, ElementOfSeq
<1>4. ASSUME NEW i \in DOMAIN es
      PROVE  /\ es[i].key \in lo .. hi - 1 /\ es[i].value \in lo .. hi - 1
             /\ es[i].key # es[i].value
             /\ "bytes" \in DOMAIN Block(b, es[i].key) /\ kind \in DOMAIN Block(b, es[i].value)
  <2>1. es[i].key \in lo .. hi - 1 /\ es[i].value \in lo .. hi - 1
    BY <1>3 DEF Slots
  <2>2. Stands(b, es[i], items[of[i]]) /\ of[i] \in DOMAIN items
    BY <1>2 DEF Bijection, Injection
  <2>3. /\ es[i].key # es[i].value /\ Block(b, es[i].key) = [bytes |-> items[of[i]].key]
        /\ Block(b, es[i].value) = items[of[i]].value
    BY <2>2, Zenon DEF Stands
  <2>4. "bytes" \in DOMAIN [bytes |-> items[of[i]].key]
    OBVIOUS
  <2> QED BY <2>1, <2>2, <2>3, <2>4
<1>5. LeafHeaderSize + SlotSize * Len(es) <= LengthOf(b, k)
  <2>1. k \in 0 .. Count(b) - 1
    BY <1>2, FileLengths
  <2>2. LengthOf(b, k) \in Nat
    BY <2>1, FileLengths
  <2> DEFINE n == Len(es)  y == LengthOf(b, k)
  <2>3. n \in Nat /\ y \in Nat /\ 12 + 8 * (n + room) <= y
    BY <1>2, <1>3, <2>2 DEF LeafHeaderSize, SlotSize
  <2> HIDE DEF n, y
  <2>4. 12 + 8 * n <= y
    BY <2>3
  <2> QED BY <2>4 DEF n, y, LeafHeaderSize, SlotSize
<1> QED BY <1>2, <1>3, <1>4, <1>5, Zenon DEF GoodTree, k, es

(* The values of facets and of renditions. *)
LEMMA KindsOfItems ==
  /\ \A S : \A x \in DOMAIN FacetItems(S) : "pairs" \in DOMAIN FacetItems(S)[x].value
  /\ \A S, T : \A x \in DOMAIN RenditionItems(S, T) :
       "payload" \in DOMAIN RenditionItems(S, T)[x].value
<1>1. ASSUME NEW name PROVE "pairs" \in DOMAIN FacetItem(name).value
  <2>1. FacetItem(name).value = [pairs |-> PairsOf(facets[name])]
    BY DEF FacetItem
  <2> QED BY <2>1
<1>2. ASSUME NEW r PROVE "payload" \in DOMAIN RenditionItem(r).value
  <2>1. CASE r[1] = "structured"
    <3>1. RenditionItem(r).value = [payload |-> renditions[r[2]].payload]
      BY <2>1 DEF RenditionItem
    <3> QED BY <3>1
  <2>2. CASE r[1] # "structured"
    <3>1. RenditionItem(r).value = [payload |-> rawRenditions[r[2]].payload]
      BY <2>2 DEF RenditionItem
    <3> QED BY <3>1
  <2> QED BY <2>1, <2>2
<1> QED BY <1>1, <1>2 DEF FacetItems, RenditionItems

(* Without its variable there is no tree. *)
LEMMA NoVariable ==
  ASSUME NEW b, NEW name, Absent(b, name)
  PROVE  VariableGet(b, name) = -1 /\ ~HasTree(b, name)
<1>1. VariableGet(b, name) = -1
  BY DEF Absent, Named, VariableGet
<1> QED BY <1>1 DEF HasTree

KindOf(name) == IF name = "FACETKEYS" THEN "pairs" ELSE "payload"

(* The trees that are there are good ones, each with blocks of its own. *)
GoodTrees(m) ==
  /\ "FACETKEYS" \in Trees => m <= Count(bom) /\ GoodTree(bom, "FACETKEYS", 1, m, "pairs")
  /\ "RENDITIONS" \in Trees => GoodTree(bom, "RENDITIONS", m, Count(bom), "payload")

(* So are both trees, at every moment. *)
LEMMA TreesAreGood == WriterInv /\ TreesInv => \E m \in Nat : m > 0 /\ GoodTrees(m)
<1> SUFFICES ASSUME WriterInv, TreesInv PROVE \E m \in Nat : m > 0 /\ GoodTrees(m)
  OBVIOUS
<1>1. /\ IsFile(bom) /\ bom.layout \in Layouts /\ Input
  BY DEF TreesInv, TypedFile, WriterInv
<1>2. Count(bom) \in Nat
  BY <1>1, FileLengths
<1>3. CASE NoTrees(bom)
  <2>1. GoodTrees(1)
    BY <1>3, NoVariable DEF GoodTrees, NoTrees, Trees
  <2> QED BY <2>1
<1>4. CASE pc = "facets"
  <2>1. /\ TreeHolds(bom, "FACETKEYS", 1, Count(bom), WrittenFacets, Cardinality(todo))
        /\ Absent(bom, "RENDITIONS") /\ Count(bom) > 0 /\ todo \subseteq DOMAIN facets
    BY <1>4 DEF TreesInv, WriterInv
  <2>2. Cardinality(todo) \in Nat
    BY <1>1, <2>1, FS_Subset, FS_CardinalityType DEF Input
  <2>3. \A x \in DOMAIN WrittenFacets : "pairs" \in DOMAIN WrittenFacets[x].value
    BY KindsOfItems DEF WrittenFacets
  <2>4. 1 \in Nat /\ Count(bom) <= Count(bom)
    BY <1>2
  <2>5. GoodTree(bom, "FACETKEYS", 1, Count(bom), "pairs")
    BY <1>1, <1>2, <2>1, <2>2, <2>3, <2>4, HeldIsGood
  <2>6. GoodTrees(Count(bom))
    BY <2>1, <2>4, <2>5, NoVariable DEF GoodTrees, Trees
  <2> QED BY <1>2, <2>1, <2>6
<1>5. ASSUME NEW S, NEW T, NEW room \in Nat,
             BothTrees(bom, AllFacets, RenditionItems(S, T), room)
      PROVE  \E m \in Nat : m > 0 /\ GoodTrees(m)
  <2> DEFINE second == RenditionItems(S, T)
  <2>1. \A x \in DOMAIN second : "payload" \in DOMAIN second[x].value
    BY KindsOfItems
  <2>2. \A x \in DOMAIN AllFacets : "pairs" \in DOMAIN AllFacets[x].value
    BY KindsOfItems DEF AllFacets
  <2>3. BothTrees(bom, AllFacets, second, room)
    BY <1>5
  <2> HIDE DEF second
  <2>4. PICK m \in 1 .. Count(bom) :
          /\ TreeHolds(bom, "FACETKEYS", 1, m, AllFacets, 0)
          /\ TreeHolds(bom, "RENDITIONS", m, Count(bom), second, room)
    BY <2>3, Zenon DEF BothTrees
  <2>5. m \in Nat /\ m > 0 /\ m <= Count(bom) /\ 1 \in Nat /\ 0 \in Nat /\ Count(bom) <= Count(bom)
    BY <1>2
  <2>6. GoodTree(bom, "FACETKEYS", 1, m, "pairs")
    BY <1>1, <2>2, <2>4, <2>5, HeldIsGood
  <2>7. GoodTree(bom, "RENDITIONS", m, Count(bom), "payload")
    BY <1>1, <1>2, <2>1, <2>4, <2>5, HeldIsGood
  <2> QED BY <2>5, <2>6, <2>7, Zenon DEF GoodTrees
<1>6. CASE pc = "renditions"
  <2>1. /\ BothTrees(bom, AllFacets, WrittenRenditions, Cardinality(todo) + Len(rawRenditions))
        /\ todo \subseteq DOMAIN renditions
    BY <1>6 DEF TreesInv
  <2>2. Cardinality(todo) \in Nat /\ Len(rawRenditions) \in Nat
    <3>1. Len(renditions) \in Nat /\ DOMAIN renditions = 1 .. Len(renditions)
          /\ Len(rawRenditions) \in Nat
      BY <1>1, SeqOfItsElements DEF Input, IsSeq
    <3> QED BY <2>1, <3>1, SizeOfRange, FS_Subset, FS_CardinalityType
  <2>3. Cardinality(todo) + Len(rawRenditions) \in Nat
    BY <2>2
  <2> QED BY <1>5, <2>1, <2>3 DEF WrittenRenditions
<1>7. CASE pc = "raw"
  <2>1. /\ BothTrees(bom, AllFacets, WrittenRaw, Cardinality(todo))
        /\ todo \subseteq DOMAIN rawRenditions
    BY <1>7 DEF TreesInv, WriterInv
  <2>2. Cardinality(todo) \in Nat
    <3>1. Len(rawRenditions) \in Nat /\ DOMAIN rawRenditions = 1 .. Len(rawRenditions)
      BY <1>1, SeqOfItsElements DEF Input, IsSeq
    <3> QED BY <2>1, <3>1, SizeOfRange, FS_Subset, FS_CardinalityType
  <2> QED BY <1>5, <2>1, <2>2 DEF WrittenRaw
<1>8. CASE BothTrees(bom, AllFacets, AllRenditions, 0)
  <2>1. 0 \in Nat
    OBVIOUS
  <2> QED BY <1>5, <1>8, <2>1 DEF AllRenditions
<1>9. \/ NoTrees(bom) \/ pc \in {"facets", "renditions", "raw"}
      \/ BothTrees(bom, AllFacets, AllRenditions, 0)
  BY DEF TreesInv, WriterInv, Writing, Before
<1> QED BY <1>3, <1>4, <1>6, <1>7, <1>8, <1>9

-----------------------------------------------------------------------------
(* The types follow. *)
LEMMA InvIsTyped == WriterInv /\ TreesInv => TypeOK
<1> SUFFICES ASSUME WriterInv, TreesInv PROVE TypeOK
  OBVIOUS
<1>1. /\ IsFile(bom) /\ bom.layout \in Layouts /\ Input /\ TypedInput
      /\ \A i \in 0 .. Count(bom) - 1 : Block(bom, i) \in Contents
  BY DEF TreesInv, TypedFile, WriterInv
<1>2. /\ DOMAIN bom.blocks = 1 .. Count(bom) /\ Count(bom) \in Nat
      /\ DOMAIN bom.layout.entries = 1 .. Count(bom)
  <2>1. DOMAIN bom.blocks = 1 .. Len(bom.blocks) /\ Len(bom.blocks) \in Nat
    BY <1>1, SeqOfItsElements DEF IsFile, IsSeq
  <2>2. DOMAIN bom.layout.entries = 1 .. Len(bom.layout.entries)
    BY <1>1, LayoutFields
  <2> QED BY <1>1, <2>1, <2>2 DEF IsFile, Count
<1>3. ASSUME NEW k \in DOMAIN bom.blocks PROVE bom.blocks[k] \in Contents
  <2>1. k - 1 \in 0 .. Count(bom) - 1 /\ (k - 1) + 1 = k
    BY <1>2
  <2>2. Block(bom, k - 1) \in Contents
    BY <1>1, <2>1
  <2> QED BY <2>1, <2>2 DEF Block
<1>4. pc \in {"collect", "header", "keyfmt", "facet tree", "facets", "renditions", "raw",
              "written", "failed", "relocated"}
  BY DEF WriterInv, Writing, Before
<1>5. DOMAIN facets \subseteq Names /\ \A n \in DOMAIN facets : facets[n] \in AttributeLists
  BY <1>1 DEF Input
<1>6. \A k \in DOMAIN renditions : /\ renditions[k].attributes \in AttributeLists
                                   /\ renditions[k].payload \in Payloads
  BY <1>1 DEF Input, TypedInput
<1> QED BY <1>1, <1>2, <1>3, <1>4, <1>5, <1>6, Zenon DEF TypeOK

(* So does that the leaves can be searched. *)
LEMMA InvIsSearchable == WriterInv /\ TreesInv => LeavesSearchable
<1> SUFFICES ASSUME WriterInv, TreesInv PROVE LeavesSearchable
  OBVIOUS
<1>1. PICK m \in Nat : m > 0 /\ GoodTrees(m)
  BY TreesAreGood
<1>2. ASSUME NEW t \in Trees
      PROVE  /\ Block(bom, ChildIndex(bom, t)).entries = EntriesOfTree(bom, t)
             /\ \A i, j \in DOMAIN EntriesOfTree(bom, t) : i < j =>
                  ~Precedes(KeyOf(bom, EntriesOfTree(bom, t)[j]),
                            KeyOf(bom, EntriesOfTree(bom, t)[i]))
             /\ LeafHeaderSize + SlotSize * Len(EntriesOfTree(bom, t))
                  <= LengthOf(bom, ChildIndex(bom, t))
  <2>1. PICK lo, hi, kind : GoodTree(bom, t, lo, hi, kind)
    <3>1. t = "FACETKEYS" \/ t = "RENDITIONS"
      BY DEF Trees
    <3> QED BY <1>1, <3>1 DEF GoodTrees
  <2> QED BY <2>1, Zenon DEF GoodTree, EntriesOfTree
<1>3. TreesSorted
  BY <1>2 DEF TreesSorted
<1>4. LeavesHoldEntries
  BY <1>2 DEF LeavesHoldEntries
<1> QED BY <1>3, <1>4 DEF LeavesSearchable

(* And that every reference is right. *)
LEMMA InvRefers == WriterInv /\ TreesInv => ReferencesHold
<1> SUFFICES ASSUME WriterInv, TreesInv PROVE ReferencesHold
  OBVIOUS
<1> DEFINE N == Count(bom)
           entries == [t \in Trees |-> EntriesOfTree(bom, t)]
           slots == {p \in Trees \X (1..N) : p[2] <= Len(entries[p[1]])}
           K(p) == entries[p[1]][p[2]].key
           V(p) == entries[p[1]][p[2]].value
           keys == {<< entries[p[1]][p[2]].key, "bytes", p >> : p \in slots}
           values == {<< entries[p[1]][p[2]].value,
                         IF p[1] = "FACETKEYS" THEN "pairs" ELSE "payload", p >> : p \in slots}
           targets == keys \cup values
<1>1. PICK m \in Nat : m > 0 /\ GoodTrees(m)
  BY TreesAreGood
<1>2. N \in Nat /\ TypedFile(bom)
  BY FileLengths DEF TreesInv, TypedFile
<1>3. \A t \in Trees : t = "FACETKEYS" \/ t = "RENDITIONS"
  BY DEF Trees
<1> DEFINE lo(t) == IF t = "FACETKEYS" THEN 1 ELSE m
           hi(t) == IF t = "FACETKEYS" THEN m ELSE N
<1>4. ASSUME NEW t \in Trees
      PROVE  /\ GoodTree(bom, t, lo(t), hi(t), KindOf(t)) /\ lo(t) > 0 /\ lo(t) \in Nat
             /\ hi(t) \in Nat /\ hi(t) <= N /\ entries[t] = EntriesOfTree(bom, t)
  BY <1>1, <1>2, <1>3 DEF GoodTrees, KindOf
<1>5. ASSUME NEW t \in Trees
      PROVE  /\ ChildIndex(bom, t) > 0 /\ "entries" \in DOMAIN Block(bom, ChildIndex(bom, t))
             /\ Block(bom, ChildIndex(bom, t)).is_leaf
             /\ Block(bom, ChildIndex(bom, t)).forward = 0
  <2>1. /\ ChildIndex(bom, t) \in lo(t) .. hi(t) - 1
        /\ Block(bom, ChildIndex(bom, t)) = Node(TRUE, EntriesOfTree(bom, t), 0, 0)
    BY <1>4, Zenon DEF GoodTree
  <2>2. ChildIndex(bom, t) > 0
    BY <1>4, <2>1
  <2> QED BY <2>1, <2>2 DEF Node
<1>6. ASSUME NEW p \in slots
      PROVE  /\ p[1] \in Trees /\ p[2] \in Nat /\ p = << p[1], p[2] >>
             /\ K(p) \in lo(p[1]) .. hi(p[1]) - 1 /\ V(p) \in lo(p[1]) .. hi(p[1]) - 1
             /\ K(p) # V(p)
             /\ "bytes" \in DOMAIN Block(bom, K(p)) /\ KindOf(p[1]) \in DOMAIN Block(bom, V(p))
             /\ p[2] \in DOMAIN EntriesOfTree(bom, p[1])
  <2>1. PICK t \in Trees, i \in 1..N : p = << t, i >> /\ i <= Len(entries[t])
    OBVIOUS
  <2>2. p[1] = t /\ p[2] = i
    BY <2>1
  <2> DEFINE es == EntriesOfTree(bom, t)
  <2>3. Len(es) \in Nat /\ DOMAIN es = 1 .. Len(es) /\ entries[t] = es
    BY <1>4 DEF GoodTree
  <2> HIDE DEF es, entries
  <2>4. i \in DOMAIN es
    BY <1>2, <2>1, <2>3
  <2>5. /\ es[i].key \in lo(t) .. hi(t) - 1 /\ es[i].value \in lo(t) .. hi(t) - 1
        /\ es[i].key # es[i].value
        /\ "bytes" \in DOMAIN Block(bom, es[i].key)
        /\ KindOf(t) \in DOMAIN Block(bom, es[i].value)
    BY <1>4, <2>4, Zenon DEF GoodTree, es
  <2> HIDE DEF lo, hi
  <2>6. i \in Nat
    BY <1>2
  <2> QED BY <2>1, <2>2, <2>3, <2>4, <2>5, <2>6 DEF es
<1>7. ASSUME NEW p \in slots, NEW q \in slots, p # q
      PROVE  {K(p), V(p)} \cap {K(q), V(q)} = {}
  <2>1. CASE p[1] = q[1]
    <3> DEFINE es == EntriesOfTree(bom, p[1])
    <3>1. /\ p[2] \in DOMAIN es /\ q[2] \in DOMAIN es /\ p[2] # q[2] /\ p[1] \in Trees
      BY <1>6, <1>7, <2>1
    <3>2. \A i, j \in DOMAIN es : i # j => {es[i].key, es[i].value} \cap {es[j].key, es[j].value} = {}
      BY <1>4, <3>1, Zenon DEF GoodTree
    <3>3. entries[p[1]] = es /\ entries[q[1]] = es
      BY <1>4, <2>1, <3>1
    <3> HIDE DEF es, entries
    <3> QED BY <3>1, <3>2, <3>3
  <2>2. CASE p[1] # q[1]
    <3>1. /\ p[1] \in Trees /\ q[1] \in Trees
          /\ K(p) \in lo(p[1]) .. hi(p[1]) - 1 /\ V(p) \in lo(p[1]) .. hi(p[1]) - 1
          /\ K(q) \in lo(q[1]) .. hi(q[1]) - 1 /\ V(q) \in lo(q[1]) .. hi(q[1]) - 1
      BY <1>6
    <3> HIDE DEF K, V
    <3>2. \/ p[1] = "FACETKEYS" /\ q[1] = "RENDITIONS"
          \/ p[1] = "RENDITIONS" /\ q[1] = "FACETKEYS"
      BY <1>3, <2>2, <3>1
    <3> QED BY <1>2, <3>1, <3>2
  <2> QED BY <2>1, <2>2
<1>8. ASSUME NEW r \in targets
      PROVE  \E p \in slots : \/ r = << K(p), "bytes", p >> \/ r = << V(p), KindOf(p[1]), p >>
  BY DEF KindOf
<1> HIDE DEF K, V, entries, slots, keys, values
<1>9. ASSUME NEW r \in targets
      PROVE  r[1] \in 1 .. N - 1 /\ r[2] \in DOMAIN Block(bom, r[1])
  <2>1. PICK p \in slots : \/ r = << K(p), "bytes", p >> \/ r = << V(p), KindOf(p[1]), p >>
    BY <1>8
  <2>2. \A i \in lo(p[1]) .. hi(p[1]) - 1 : i \in 1 .. N - 1
    BY <1>2, <1>4, <1>6
  <2>3. K(p) \in 1 .. N - 1 /\ V(p) \in 1 .. N - 1
    BY <1>6, <2>2, Zenon
  <2>4. "bytes" \in DOMAIN Block(bom, K(p)) /\ KindOf(p[1]) \in DOMAIN Block(bom, V(p))
    BY <1>6
  <2> QED BY <2>1, <2>3, <2>4
<1>10. ASSUME NEW r \in targets, NEW q \in targets, r[1] = q[1] PROVE r = q
  <2>1. PICK p \in slots : \/ r = << K(p), "bytes", p >> \/ r = << V(p), KindOf(p[1]), p >>
    BY <1>8
  <2>2. PICK o \in slots : \/ q = << K(o), "bytes", o >> \/ q = << V(o), KindOf(o[1]), o >>
    BY <1>8
  <2>3. (r[1] = K(p) \/ r[1] = V(p)) /\ (q[1] = K(o) \/ q[1] = V(o))
    BY <2>1, <2>2
  <2>4. p = o
    BY <1>7, <1>10, <2>3
  <2>5. K(p) # V(p)
    BY <1>6
  <2> QED BY <1>10, <2>1, <2>2, <2>4, <2>5
<1>11. \A k \in DOMAIN bom.variables : bom.variables[k].index \in 1 .. N - 1
  BY <1>2 DEF TypedFile
<1> QED BY <1>5, <1>9, <1>10, <1>11 DEF ReferencesHold, K, V, entries, slots, keys, values

-----------------------------------------------------------------------------
(* In every catalog, at every moment of its writing and after it, whatever *)
(* was added, in whatever order the maps are iterated and wherever the     *)
(* search ends among equal keys: blocks, variables and what was added are  *)
(* of their types (Writer.cpp:82-255).                                     *)
THEOREM CatalogsAreTyped == Spec => []TypeOK
<1>1. Init => WriterInv /\ TreesInv
  BY InitWriterInv, InitTreesInv
<1> QED BY <1>1, TreesInvStep, InvIsTyped, PTL DEF Spec

(* the variables and the trees refer to blocks of the right kind, no block *)
(* belongs to two entries, and none is the vacant block 0                  *)
(* (Writer.cpp:94-105, bom_tree.c:150-260);                                *)
THEOREM ReferencesOfCatalogs == Spec => []ReferencesHold
<1>1. Init => WriterInv /\ TreesInv
  BY InitWriterInv, InitTreesInv
<1> QED BY <1>1, TreesInvStep, InvRefers, PTL DEF Spec

(* and the leaves are sorted and inside their blocks, so that a reader may *)
(* search them (bom_tree.c:246, 294-310).                                  *)
THEOREM LeavesOfCatalogs == Spec => []LeavesSearchable
<1>1. Init => WriterInv /\ TreesInv
  BY InitWriterInv, InitTreesInv
<1> QED BY <1>1, TreesInvStep, InvIsSearchable, PTL DEF Spec

-----------------------------------------------------------------------------
(* The key format is in the file. *)
FormatWritten(b, f) ==
  LET i == VariableGet(b, "KEYFORMAT")
  IN i \in 0 .. Count(b) - 1 /\ Block(b, i) = [identifiers |-> f]

(* The inductive invariant of the key format: the one of which the keys    *)
(* are made is the one that is written.  Every rendition has an            *)
(* identifier, and raw ones come with a key format; a file that write()    *)
(* gave up has no header.                                                  *)
FormatInv ==
  /\ \A k \in DOMAIN renditions : IdentifierAttribute \in DOMAIN renditions[k].attributes
  /\ DOMAIN rawRenditions # {} => keyfmt # NoFormat
  /\ pc \in {"collect", "header", "failed"} => Absent(bom, "CARHEADER")
  /\ pc \in {"collect", "header", "keyfmt"} => Absent(bom, "KEYFORMAT")
  /\ pc \in {"facet tree", "facets", "renditions", "raw", "written"} =>
       FormatWritten(bom, FormatToWrite)
  /\ pc = "relocated" =>
       \/ Absent(bom, "CARHEADER")
       \/ /\ BothTrees(bom, AllFacets, AllRenditions, 0)
          /\ FormatWritten(bom, FormatToWrite)

(* It stays there in a file that has the blocks that were there. *)
LEMMA FormatStays ==
  ASSUME NEW b, IsFile(b), b.layout \in Layouts, NEW c, IsFile(c), c.layout \in Layouts,
         Extends(b, c), VariableGet(c, "KEYFORMAT") = VariableGet(b, "KEYFORMAT"), NEW f,
         FormatWritten(b, f)
  PROVE  FormatWritten(c, f)
<1> DEFINE i == VariableGet(b, "KEYFORMAT")
<1>1. i \in 0 .. Count(b) - 1 /\ Block(b, i) = [identifiers |-> f]
  BY DEF FormatWritten
<1>2. Count(b) \in Nat /\ Count(c) \in Nat /\ Count(b) <= Count(c)
  BY FileLengths DEF Extends
<1>3. Block(c, i) = Block(b, i)
  BY <1>1 DEF Extends
<1> HIDE DEF i
<1>4. i \in 0 .. Count(c) - 1
  BY <1>1, <1>2
<1> QED BY <1>1, <1>3, <1>4 DEF FormatWritten, i

(* The nodes that one more entry changes are other blocks. *)
LEMMA FormatStaysUnderEntry ==
  ASSUME NEW b, Open(b), NEW c, Open(c), c.variables = b.variables,
         NEW name, NEW key, NEW value, NEW place, HasEntry(b, c, name, key, value, place),
         NEW lo, NEW hi, NEW items, NEW room, TreeHolds(b, name, lo, hi, items, room),
         NEW f, FormatWritten(b, f)
  PROVE  FormatWritten(c, f)
<1> DEFINE i == VariableGet(b, "KEYFORMAT")
           t == VariableGet(b, name)
           k == ChildIndex(b, name)
           es == EntriesOfTree(b, name)
<1>1. i \in 0 .. Count(b) - 1 /\ Block(b, i) = [identifiers |-> f]
  BY DEF FormatWritten
<1>2. PICK of : Held(b, name, lo, hi, items, room, es, of)
  BY Zenon DEF TreeHolds
<1>3. /\ Block(b, t) = [child |-> k, path_count |-> Block(b, t).path_count]
      /\ Block(b, k) = Node(TRUE, es, 0, 0)
  BY <1>2, Zenon DEF Held
<1>4. /\ Count(c) = Count(b) + 2
      /\ \A j \in 0 .. Count(b) - 1 : j \notin {t, k} => Block(c, j) = Block(b, j)
  BY Zenon DEF HasEntry
<1>5. Count(b) \in Nat
  BY FileNumbers
<1>6. VariableGet(c, "KEYFORMAT") = i
  BY DEF VariableGet
<1> HIDE DEF i, t, k, es
<1>7. i # t /\ i # k
  <2>1. "identifiers" \in DOMAIN Block(b, i)
    BY <1>1
  <2>2. "identifiers" \notin DOMAIN Block(b, t)
    <3> DEFINE n == Block(b, t).path_count
    <3>1. Block(b, t) = [child |-> k, path_count |-> n]
      BY <1>3
    <3> HIDE DEF n
    <3> QED BY <3>1
  <2>3. "identifiers" \notin DOMAIN Block(b, k)
    BY <1>3 DEF Node
  <2> QED BY <2>1, <2>2, <2>3
<1>8. i \in 0 .. Count(c) - 1 /\ Block(c, i) = Block(b, i)
  BY <1>1, <1>4, <1>5, <1>7
<1> QED BY <1>1, <1>6, <1>8 DEF FormatWritten

-----------------------------------------------------------------------------
(* A new writer has written no header and no key format. *)
LEMMA InitFormatInv == Init => FormatInv
<1> SUFFICES ASSUME Init PROVE FormatInv
  OBVIOUS
<1>1. bom.variables = << >> /\ renditions = << >> /\ rawRenditions = << >> /\ pc = "collect"
  BY DEF Init, EmptyFile
<1>2. DOMAIN bom.variables = {} /\ DOMAIN renditions = {} /\ DOMAIN rawRenditions = {}
  BY <1>1
<1> QED BY <1>1, <1>2 DEF FormatInv, Absent, Named

(* A rendition without an identifier is not kept. *)
LEMMA CollectFormatInv == WriterInv /\ FormatInv /\ Collect => FormatInv'
<1> SUFFICES ASSUME WriterInv, FormatInv, Collect PROVE FormatInv'
  OBVIOUS
<1>1. /\ Input /\ bom' = bom /\ pc' = pc /\ pc = "collect"
      /\ Absent(bom, "CARHEADER") /\ Absent(bom, "KEYFORMAT")
      /\ \A k \in DOMAIN renditions : IdentifierAttribute \in DOMAIN renditions[k].attributes
      /\ DOMAIN rawRenditions # {} => keyfmt # NoFormat
      /\ IsSeq(renditions)
  BY DEF WriterInv, FormatInv, Input, Collect, AddFacet, AddRendition, AddRawRendition
<1>2. SUFFICES /\ \A k \in DOMAIN renditions' :
                    IdentifierAttribute \in DOMAIN renditions'[k].attributes
               /\ DOMAIN rawRenditions' # {} => keyfmt' # NoFormat
  BY <1>1, <1>2 DEF FormatInv, Absent, Named
<1>3. ASSUME NEW name \in Names, NEW a \in AttributeLists, AddFacet(name, a)
      PROVE  UNCHANGED << renditions, rawRenditions, keyfmt >>
  BY <1>3 DEF AddFacet
<1>4. ASSUME NEW a \in AttributeLists, NEW p \in Payloads, AddRendition(a, p)
      PROVE  /\ \A k \in DOMAIN renditions' :
                  IdentifierAttribute \in DOMAIN renditions'[k].attributes
             /\ UNCHANGED << rawRenditions, keyfmt >>
  <2>1. UNCHANGED << rawRenditions, keyfmt >>
    BY <1>4 DEF AddRendition
  <2>2. CASE renditions' = renditions
    BY <1>1, <2>1, <2>2
  <2>3. CASE /\ renditions' = Append(renditions, [attributes |-> a, payload |-> p])
             /\ IdentifierAttribute \in DOMAIN a
    <3> DEFINE r == [attributes |-> a, payload |-> p]
    <3>1. r.attributes = a
      OBVIOUS
    <3> HIDE DEF r
    <3>2. /\ IsSeq(renditions') /\ Len(renditions') = Len(renditions) + 1
          /\ Len(renditions) \in Nat /\ renditions'[Len(renditions) + 1] = r
          /\ \A j \in 1 .. Len(renditions) : renditions'[j] = renditions[j]
      BY <1>1, <2>3, Appended DEF r
    <3>3. DOMAIN renditions = 1 .. Len(renditions) /\ DOMAIN renditions' = 1 .. Len(renditions')
      BY <1>1, <3>2, SeqOfItsElements DEF IsSeq
    <3>4. ASSUME NEW k \in DOMAIN renditions'
          PROVE  IdentifierAttribute \in DOMAIN renditions'[k].attributes
      <4>1. k = Len(renditions) + 1 \/ k \in 1 .. Len(renditions)
        BY <3>2, <3>3
      <4> QED BY <1>1, <2>3, <3>1, <3>2, <3>3, <4>1
    <3> QED BY <2>1, <3>4
  <2> QED BY <1>4, <2>2, <2>3 DEF AddRendition
<1>5. ASSUME NEW p \in Payloads, NEW values \in [DOMAIN keyfmt -> RawValues],
             AddRawRendition(values, p)
      PROVE  renditions' = renditions /\ keyfmt' # NoFormat
  BY <1>5 DEF AddRawRendition
<1> QED BY <1>1, <1>3, <1>4, <1>5 DEF Collect

(* What stays of it while the input does. *)
LEMMA SameFormat ==
  ASSUME TypedInput, FormatInv, UNCHANGED input
  PROVE  /\ \A k \in DOMAIN renditions' : IdentifierAttribute \in DOMAIN renditions'[k].attributes
         /\ DOMAIN rawRenditions' # {} => keyfmt' # NoFormat
         /\ FormatToWrite' = FormatToWrite /\ AllFacets' = AllFacets /\ AllRenditions' = AllRenditions
<1>1. UNCHANGED << renditions, rawRenditions, keyfmt >>
  BY DEF input
<1>2. /\ \A k \in DOMAIN renditions : IdentifierAttribute \in DOMAIN renditions[k].attributes
      /\ DOMAIN rawRenditions # {} => keyfmt # NoFormat
  BY DEF FormatInv
<1> QED BY <1>1, <1>2, SameInput

(* The header and the key format are written, or neither is. *)
LEMMA HeadFormatInv ==
  WriterInv /\ TreesInv /\ FormatInv /\ (PreAllocate \/ GiveUp \/ WriteHeader \/ WriteKeyFormat)
    => FormatInv'
<1> SUFFICES ASSUME WriterInv, TreesInv, FormatInv,
                    PreAllocate \/ GiveUp \/ WriteHeader \/ WriteKeyFormat
             PROVE  FormatInv'
  OBVIOUS
<1>1. /\ Input /\ TypedInput /\ UNCHANGED input /\ TypedFile(bom)
      /\ pc \in Before /\ (pc # "collect" => Count(bom) > 0)
  BY DEF WriterInv, TreesInv, Before, PreAllocate, GiveUp, WriteHeader, WriteKeyFormat
<1>2. Open(bom) /\ SoundLayout(bom.layout)
  BY <1>1 DEF WriterInv, Before, Writing
<1>3. /\ \A k \in DOMAIN renditions' : IdentifierAttribute \in DOMAIN renditions'[k].attributes
      /\ DOMAIN rawRenditions' # {} => keyfmt' # NoFormat
      /\ FormatToWrite' = FormatToWrite
  BY <1>1, SameFormat
<1>4. CASE PreAllocate
  <2> DEFINE d == WithRoom(bom, IndexCount)
  <2>1. IndexCount \in Nat
    BY <1>1, InputSizes
  <2>2. Open(d) /\ SoundLayout(d.layout) /\ d.variables = bom.variables
    BY <1>2, <2>1, RoomMade
  <2>3. bom' = WithVacant(d, 1) /\ pc' = "header" /\ pc = "collect"
    BY <1>4 DEF PreAllocate
  <2> HIDE DEF d
  <2>4. bom'.variables = d.variables
    <3>1. 1 \in {1, 2}
      OBVIOUS
    <3> QED BY <2>2, <2>3, <3>1, VacantAdded
  <2>5. Absent(bom, "CARHEADER") /\ Absent(bom, "KEYFORMAT")
    BY <2>3 DEF FormatInv
  <2>6. Absent(bom', "CARHEADER") /\ Absent(bom', "KEYFORMAT")
    BY <2>2, <2>4, <2>5, AbsentStays
  <2> QED BY <1>3, <2>3, <2>6 DEF FormatInv
<1>5. CASE GiveUp
  <2>1. bom' = bom /\ pc' = "failed" /\ pc = "header"
    BY <1>5 DEF GiveUp
  <2>2. Absent(bom, "CARHEADER")
    BY <2>1 DEF FormatInv
  <2> QED BY <1>3, <2>1, <2>2 DEF FormatInv
<1>6. CASE WriteHeader
  <2>1. /\ bom' = WithVariable(WithBlock(bom, HeaderToWrite, 436), "CARHEADER", Count(bom))
        /\ pc' = "keyfmt" /\ pc = "header" /\ Count(bom) > 0
    BY <1>1, <1>6 DEF WriteHeader
  <2>2. HeaderToWrite \in Contents /\ 436 \in Nat
    BY <1>1, HeadersAreContents
  <2>3. NameLength("CARHEADER") \in Nat
    BY NameLengths
  <2>4. \A other : other # "CARHEADER" /\ Absent(bom, other) => Absent(bom', other)
    BY <1>1, <1>2, <2>1, <2>2, <2>3, VariableWithBlock
  <2>5. Absent(bom, "KEYFORMAT")
    BY <2>1 DEF FormatInv
  <2>6. Absent(bom', "KEYFORMAT")
    BY <2>4, <2>5
  <2> QED BY <1>3, <2>1, <2>6 DEF FormatInv
<1>7. CASE WriteKeyFormat
  <2> DEFINE x == [identifiers |-> FormatToWrite]
             n == 12 + 4 * Len(FormatToWrite)
  <2>1. /\ bom' = WithVariable(WithBlock(bom, x, n), "KEYFORMAT", Count(bom))
        /\ pc' = "facet tree" /\ pc = "keyfmt" /\ Count(bom) > 0
    BY <1>1, <1>7 DEF WriteKeyFormat
  <2>2. x \in Contents
    BY <1>1, FormatTyped, FormatsAreContents
  <2>3. n \in Nat
    <3>1. Len(FormatToWrite) \in Nat
      BY <1>1, InputSizes
    <3> QED BY <3>1
  <2>4. NameLength("KEYFORMAT") \in Nat
    BY NameLengths
  <2>5. Absent(bom, "KEYFORMAT")
    BY <2>1 DEF FormatInv
  <2> HIDE DEF x, n
  <2>6. /\ Count(bom') = Count(bom) + 1 /\ Block(bom', Count(bom)) = x
        /\ VariableGet(bom', "KEYFORMAT") = Count(bom)
    <3>1. Open(bom) /\ TypedFile(bom) /\ Count(bom) > 0
      BY <1>1, <1>2, <2>1
    <3>2. bom' = WithVariable(WithBlock(bom, x, n), "KEYFORMAT", Count(bom))
      BY <2>1
    <3> QED BY <2>2, <2>3, <2>4, <2>5, <3>1, <3>2, VariableWithBlock
  <2>7. FormatWritten(bom', FormatToWrite)
    <3>1. Count(bom) \in Nat
      BY <1>2, FileNumbers
    <3>2. Count(bom) \in 0 .. Count(bom') - 1
      BY <2>6, <3>1
    <3> QED BY <2>6, <3>2 DEF FormatWritten, x
  <2> QED BY <1>3, <2>1, <2>7 DEF FormatInv
<1> QED BY <1>4, <1>5, <1>6, <1>7

-----------------------------------------------------------------------------
(* New trees come behind the key format, *)
LEMMA TreesFormatInv ==
  WriterInv /\ TreesInv /\ FormatInv /\ (BeginFacets \/ BeginRenditions \/ BeginRawRenditions)
    => FormatInv'
<1> SUFFICES ASSUME WriterInv, TreesInv, FormatInv,
                    BeginFacets \/ BeginRenditions \/ BeginRawRenditions
             PROVE  FormatInv'
  OBVIOUS
<1>1. /\ Input /\ TypedInput /\ UNCHANGED input
      /\ pc \in {"facet tree", "facets", "renditions"} /\ pc' \in {"facets", "renditions", "raw"}
  BY DEF WriterInv, TreesInv, BeginFacets, BeginRenditions, BeginRawRenditions
<1>2. Open(bom) /\ SoundLayout(bom.layout) /\ FormatWritten(bom, FormatToWrite)
  BY <1>1 DEF WriterInv, Before, Writing, FormatInv
<1>3. /\ \A k \in DOMAIN renditions' : IdentifierAttribute \in DOMAIN renditions'[k].attributes
      /\ DOMAIN rawRenditions' # {} => keyfmt' # NoFormat
      /\ FormatToWrite' = FormatToWrite
  BY <1>1, SameFormat
<1> DEFINE f == FormatToWrite
<1>4. SUFFICES FormatWritten(bom', f)
  BY <1>1, <1>3, <1>4 DEF FormatInv
<1>5. ASSUME NEW name \in {"FACETKEYS", "RENDITIONS"}, Absent(bom, name), NEW n \in Nat,
             bom' = TreeReserve(TreeAllocEmpty(bom, name), name, n)
      PROVE  FormatWritten(bom', f)
  <2> DEFINE c == TreeReserve(TreeAllocEmpty(bom, name), name, n)
  <2> DEFINE none == << >>
  <2>1. NameLength(name) \in Nat /\ DOMAIN none = {}
    BY NameLengths
  <2> HIDE DEF none, f
  <2>2. /\ Open(c) /\ Extends(bom, c) /\ Count(c) = Count(bom) + 2
        /\ TreeHolds(c, name, Count(bom), Count(c), none, n)
        /\ c.variables = Append(bom.variables, [name |-> name, index |-> Count(bom) + 1])
        /\ \A other : other # name => VariableGet(c, other) = VariableGet(bom, other)
        /\ Block(c, Count(bom)) = EmptyLeaf
        /\ Block(c, Count(bom) + 1) = [child |-> Count(bom), path_count |-> 0]
    <3>1. Open(bom) /\ SoundLayout(bom.layout) /\ Absent(bom, name) /\ n \in Nat
      BY <1>2, <1>5
    <3> QED BY <2>1, <3>1, TreeBegun
  <2>3. c = bom'
    BY <1>5
  <2> HIDE DEF c
  <2>4. VariableGet(c, "KEYFORMAT") = VariableGet(bom, "KEYFORMAT")
    BY <2>2
  <2>5. FormatWritten(bom, f)
    BY <1>2 DEF f
  <2>6. IsFile(bom) /\ bom.layout \in Layouts /\ IsFile(c) /\ c.layout \in Layouts
    BY <1>2, <2>2, OpenLengths
  <2>7. FormatWritten(c, f)
    BY <2>2, <2>4, <2>5, <2>6, FormatStays
  <2> QED BY <2>3, <2>7
<1>6. FacetCount \in Nat /\ RenditionCount \in Nat
  BY <1>1, InputSizes
<1>7. CASE BeginFacets
  <2>1. /\ bom' = TreeReserve(TreeAllocEmpty(bom, "FACETKEYS"), "FACETKEYS", FacetCount)
        /\ pc = "facet tree"
    BY <1>7 DEF BeginFacets
  <2>2. Absent(bom, "FACETKEYS")
    BY <2>1 DEF WriterInv, Before
  <2> QED BY <1>5, <1>6, <2>1, <2>2
<1>8. CASE BeginRenditions
  <2>1. /\ bom' = TreeReserve(TreeAllocEmpty(bom, "RENDITIONS"), "RENDITIONS", RenditionCount)
        /\ pc = "facets"
    BY <1>8 DEF BeginRenditions
  <2>2. Absent(bom, "RENDITIONS")
    BY <2>1 DEF WriterInv
  <2> QED BY <1>5, <1>6, <2>1, <2>2
<1>9. CASE BeginRawRenditions
  BY <1>2, <1>9 DEF BeginRawRenditions
<1> QED BY <1>7, <1>8, <1>9

(* and entries leave it alone. *)
LEMMA EntryFormatInv ==
  WriterInv /\ TreesInv /\ FormatInv
    /\ (\E k \in todo : WriteFacet(k) \/ WriteRendition(k) \/ WriteRawRendition(k))
    => FormatInv'
<1> SUFFICES ASSUME WriterInv, TreesInv, FormatInv, NEW k \in todo,
                    WriteFacet(k) \/ WriteRendition(k) \/ WriteRawRendition(k)
             PROVE  FormatInv'
  OBVIOUS
<1>1. /\ Input /\ TypedInput /\ UNCHANGED input /\ pc' = pc
      /\ pc \in {"facets", "renditions", "raw"}
  BY DEF WriterInv, TreesInv, WriteFacet, WriteRendition, WriteRawRendition
<1>2. FormatWritten(bom, FormatToWrite)
  BY <1>1 DEF FormatInv
<1>3. /\ \A r \in DOMAIN renditions' : IdentifierAttribute \in DOMAIN renditions'[r].attributes
      /\ DOMAIN rawRenditions' # {} => keyfmt' # NoFormat
      /\ FormatToWrite' = FormatToWrite
  BY <1>1, SameFormat
<1> DEFINE f == FormatToWrite
<1>4. SUFFICES FormatWritten(bom', f)
  BY <1>1, <1>3, <1>4 DEF FormatInv
<1>5. ASSUME NEW name, NEW lo, NEW hi, NEW items, NEW room, TreeHolds(bom, name, lo, hi, items, room),
             NEW key, NEW value, NEW place, HasEntry(bom, bom', name, key, value, place),
             Open(bom), Open(bom'), bom'.variables = bom.variables
      PROVE  FormatWritten(bom', f)
  <2>1. FormatWritten(bom, f)
    BY <1>2
  <2> HIDE DEF f
  <2> QED BY <1>5, <2>1, FormatStaysUnderEntry
<1> HIDE DEF f
<1>6. CASE WriteFacet(k)
  <2>1. TreeHolds(bom, "FACETKEYS", 1, Count(bom), WrittenFacets, Cardinality(todo))
    BY <1>6 DEF WriteFacet, TreesInv
  <2>2. /\ Open(bom) /\ Open(bom') /\ bom'.variables = bom.variables
        /\ \E place \in Places(bom, "FACETKEYS", k) :
             HasEntry(bom, bom', "FACETKEYS", k, [pairs |-> PairsOf(facets[k])], place)
    BY <1>1, <1>6, FacetAdded
  <2> QED BY <1>5, <2>1, <2>2
<1>7. CASE WriteRendition(k)
  <2>1. todo \subseteq DOMAIN renditions
        /\ BothTrees(bom, AllFacets, WrittenRenditions, Cardinality(todo) + Len(rawRenditions))
    BY <1>7 DEF WriteRendition, TreesInv
  <2>2. PICK m \in 1 .. Count(bom) : TreeHolds(bom, "RENDITIONS", m, Count(bom), WrittenRenditions,
                                               Cardinality(todo) + Len(rawRenditions))
    BY <2>1 DEF BothTrees
  <2> DEFINE key == KeyBytes(ValuesOf(renditions[k].attributes, FormatToWrite))
             value == [payload |-> renditions[k].payload]
  <2>3. /\ Open(bom) /\ Open(bom') /\ bom'.variables = bom.variables
        /\ \E place \in Places(bom, "RENDITIONS", key) :
             HasEntry(bom, bom', "RENDITIONS", key, value, place)
    BY <1>1, <1>7, <2>1, RenditionAdded
  <2> HIDE DEF key, value
  <2> QED BY <1>5, <2>2, <2>3
<1>8. CASE WriteRawRendition(k)
  <2>1. BothTrees(bom, AllFacets, WrittenRaw, Cardinality(todo))
    BY <1>8 DEF WriteRawRendition, TreesInv
  <2>2. PICK m \in 1 .. Count(bom) :
          TreeHolds(bom, "RENDITIONS", m, Count(bom), WrittenRaw, Cardinality(todo))
    BY <2>1 DEF BothTrees
  <2> DEFINE key == rawRenditions[k].key
             value == [payload |-> rawRenditions[k].payload]
  <2>3. /\ Open(bom) /\ Open(bom') /\ bom'.variables = bom.variables
        /\ \E place \in Places(bom, "RENDITIONS", key) :
             HasEntry(bom, bom', "RENDITIONS", key, value, place)
    BY <1>1, <1>8, RawAdded
  <2> HIDE DEF key, value
  <2> QED BY <1>5, <2>2, <2>3
<1> QED BY <1>6, <1>7, <1>8

(* Nothing that comes after write() touches it. *)
LEMMA TailFormatInv ==
  WriterInv /\ TreesInv /\ FormatInv /\ (Finish \/ PassThrough \/ Relocate) => FormatInv'
<1> SUFFICES ASSUME WriterInv, TreesInv, FormatInv, Finish \/ PassThrough \/ Relocate
             PROVE  FormatInv'
  OBVIOUS
<1>1. /\ Input /\ TypedInput /\ UNCHANGED input /\ TypedFile(bom) /\ Count(bom) > 0 /\ Open(bom)
  BY DEF WriterInv, TreesInv, Finish, PassThrough, Relocate, Returned, input
<1>2. IsFile(bom) /\ bom.layout \in Layouts
  BY <1>1 DEF TypedFile
<1>3. /\ \A k \in DOMAIN renditions' : IdentifierAttribute \in DOMAIN renditions'[k].attributes
      /\ DOMAIN rawRenditions' # {} => keyfmt' # NoFormat
      /\ FormatToWrite' = FormatToWrite /\ AllFacets' = AllFacets /\ AllRenditions' = AllRenditions
  BY <1>1, SameFormat
<1> DEFINE f == FormatToWrite
           c == bom'
           first == AllFacets
           second == AllRenditions
<1>4. CASE Finish
  <2>1. /\ SoundLayout(bom.layout) /\ c = WithVacant(bom, 2) /\ pc' = "written"
        /\ FormatWritten(bom, f)
    BY <1>4 DEF WriterInv, FormatInv, Writing, Finish
  <2> HIDE DEF c
  <2>2. Open(c) /\ c.variables = bom.variables /\ Extends(bom, c)
    <3>1. 2 \in {1, 2}
      OBVIOUS
    <3> QED BY <1>1, <2>1, <3>1, VacantAdded
  <2>3. IsFile(c) /\ c.layout \in Layouts
    BY <2>2, OpenLengths
  <2>4. VariableGet(c, "KEYFORMAT") = VariableGet(bom, "KEYFORMAT")
    BY <2>2 DEF VariableGet
  <2> HIDE DEF f
  <2>5. FormatWritten(c, f)
    BY <1>2, <2>1, <2>2, <2>3, <2>4, FormatStays
  <2> QED BY <1>3, <2>1, <2>5 DEF FormatInv, c, f
<1>5. CASE PassThrough
  <2>1. /\ c = WithVariable(WithBlock(bom, NoContent, 1), "OTHER", Count(bom)) /\ pc' = pc
        /\ \/ pc = "failed" /\ Absent(bom, "CARHEADER")
           \/ pc = "written" /\ FormatWritten(bom, f)
    BY <1>5 DEF PassThrough, Returned, FormatInv
  <2> HIDE DEF c, f
  <2>2. 1 \in Nat /\ NameLength("OTHER") \in Nat
    BY NameLengths
  <2>3. /\ Open(c) /\ Extends(bom, c)
        /\ \A other : other # "OTHER" => VariableGet(c, other) = VariableGet(bom, other)
        /\ \A other : other # "OTHER" /\ Absent(bom, other) => Absent(c, other)
    BY <1>1, <2>1, <2>2, NoContentIsContents, VariableWithBlock
  <2>4. VariableGet(c, "KEYFORMAT") = VariableGet(bom, "KEYFORMAT")
    BY <2>3
  <2>5. IsFile(c) /\ c.layout \in Layouts
    BY <2>3, OpenLengths
  <2>6. CASE pc = "failed" /\ Absent(bom, "CARHEADER")
    <3>1. Absent(c, "CARHEADER")
      BY <2>3, <2>6
    <3> QED BY <1>3, <2>1, <2>6, <3>1 DEF FormatInv, c
  <2>7. CASE pc = "written" /\ FormatWritten(bom, f)
    <3>1. FormatWritten(c, f)
      BY <1>2, <2>3, <2>4, <2>5, <2>7, FormatStays
    <3> QED BY <1>3, <2>1, <2>7, <3>1 DEF FormatInv, c, f
  <2> QED BY <2>1, <2>6, <2>7
<1>6. CASE Relocate
  <2>1. /\ c = WithTrailerMoved(bom) /\ pc' = "relocated"
        /\ \/ Absent(bom, "CARHEADER")
           \/ BothTrees(bom, first, second, 0) /\ FormatWritten(bom, f)
    BY <1>6 DEF Relocate, Returned, TreesInv, FormatInv
  <2> HIDE DEF c, f, first, second
  <2>2. /\ IsFile(c) /\ c.layout \in Layouts /\ Extends(bom, c) /\ c.variables = bom.variables
    BY <1>1, <2>1, TrailerMoved
  <2>3. /\ VariableGet(c, "KEYFORMAT") = VariableGet(bom, "KEYFORMAT")
        /\ \A name \in {"FACETKEYS", "RENDITIONS"} :
             /\ VariableGet(c, name) = VariableGet(bom, name)
             /\ Absent(bom, name) => Absent(c, name)
    BY <2>2 DEF VariableGet, Absent, Named
  <2>4. CASE Absent(bom, "CARHEADER")
    <3>1. Absent(c, "CARHEADER")
      BY <2>2, <2>4, AbsentStays
    <3> QED BY <1>3, <2>1, <3>1 DEF FormatInv, c
  <2>5. CASE BothTrees(bom, first, second, 0) /\ FormatWritten(bom, f)
    <3>1. FormatWritten(c, f)
      BY <1>2, <2>2, <2>3, <2>5, FormatStays
    <3>2. BothTrees(c, first, second, 0)
      BY <1>1, <1>2, <2>2, <2>3, <2>5, TreesStay
    <3> QED BY <1>3, <2>1, <3>1, <3>2 DEF FormatInv, c, f, first, second
  <2> QED BY <2>1, <2>4, <2>5
<1> QED BY <1>4, <1>5, <1>6

(* So does a step that changes nothing. *)
LEMMA StutterFormatInv == TreesInv /\ FormatInv /\ UNCHANGED vars => FormatInv'
<1> SUFFICES ASSUME TreesInv, FormatInv, UNCHANGED vars PROVE FormatInv'
  OBVIOUS
<1>1. TypedInput /\ UNCHANGED input /\ bom' = bom /\ pc' = pc
  BY DEF TreesInv, vars, input
<1>2. /\ \A k \in DOMAIN renditions' : IdentifierAttribute \in DOMAIN renditions'[k].attributes
      /\ DOMAIN rawRenditions' # {} => keyfmt' # NoFormat
      /\ FormatToWrite' = FormatToWrite /\ AllFacets' = AllFacets /\ AllRenditions' = AllRenditions
  BY <1>1, SameFormat
<1> QED BY <1>1, <1>2 DEF FormatInv

(* All three invariants of the writer, step by step. *)
CatalogInv == WriterInv /\ TreesInv /\ FormatInv

(* They are inductive together. *)
LEMMA CatalogInvStep == CatalogInv /\ [Next]_vars => CatalogInv'
<1> SUFFICES ASSUME WriterInv, TreesInv, FormatInv, [Next]_vars PROVE FormatInv'
  BY TreesInvStep DEF CatalogInv
<1>1. CASE Collect
  BY <1>1, CollectFormatInv
<1>2. CASE Write
  BY <1>2, HeadFormatInv, TreesFormatInv, EntryFormatInv, TailFormatInv, Zenon DEF Write
<1>3. CASE PassThrough \/ Relocate
  BY <1>3, TailFormatInv
<1>4. CASE UNCHANGED vars
  BY <1>4, StutterFormatInv
<1> QED BY <1>1, <1>2, <1>3, <1>4 DEF Next

-----------------------------------------------------------------------------
(* What is put into a key comes out of it. *)
LEMMA ValueOfBytes ==
  ASSUME NEW v \in Nat
  PROVE  (v % 256) + 256 * (v \div 256) = v
OBVIOUS

(* Where the two bytes of a value are. *)
LEMMA PlacesInKey ==
  ASSUME NEW m \in Nat, NEW i \in 1 .. m
  PROVE  /\ 2 * i - 1 \in 1 .. 2 * m /\ (2 * i - 1) % 2 = 1 /\ ((2 * i - 1) + 1) \div 2 = i
         /\ 2 * i \in 1 .. 2 * m /\ (2 * i) % 2 = 0 /\ (2 * i + 1) \div 2 = i
<1>1. i \in Nat /\ i >= 1 /\ i <= m
  OBVIOUS
<1>2. 2 * i - 1 \in 1 .. 2 * m /\ 2 * i \in 1 .. 2 * m
  BY <1>1
<1>3. (2 * i - 1) % 2 = 1
  BY <1>1
<1>4. (2 * i) % 2 = 0
  BY <1>1
<1>5. ((2 * i - 1) + 1) \div 2 = i
  BY <1>1
<1>6. (2 * i + 1) \div 2 = i
  BY <1>1
<1> QED BY <1>2, <1>3, <1>4, <1>5, <1>6

(* A key has two bytes for each value. *)
LEMMA HalfOfEven ==
  ASSUME NEW m \in Nat
  PROVE  (2 * m) \div 2 = m
OBVIOUS

(* The values of a key, from its bytes. *)
LEMMA KeyReadBack ==
  ASSUME NEW values, NEW m \in Nat, values = [i \in 1 .. m |-> values[i]], Len(values) = m,
         \A i \in 1 .. m : values[i] \in TwoBytes
  PROVE  KeyValues(KeyBytes(values)) = values
<1> DEFINE n == 2 * m
           f == KeyBytes(values)
           g == KeyValues(f)
<1>1. f = [k \in 1..n |-> LET v == values[(k + 1) \div 2]
                          IN IF k % 2 = 1 THEN v % 256 ELSE v \div 256]
  BY DEF KeyBytes
<1>2. g = [i \in 1 .. Len(f) \div 2 |-> f[2 * i - 1] + 256 * f[2 * i]]
  BY DEF KeyValues
<1> HIDE DEF f, g
<1>3. Len(f) = n
  <2>1. DOMAIN f = 1..n /\ f = [i \in DOMAIN f |-> f[i]] /\ n \in Nat
    BY <1>1
  <2> HIDE DEF n
  <2> QED BY <2>1, LengthOfFunction
<1>4. Len(f) \div 2 = m
  BY <1>3, HalfOfEven
<1>5. ASSUME NEW i \in 1 .. m PROVE f[2 * i - 1] + 256 * f[2 * i] = values[i]
  <2> DEFINE p == 2 * i - 1  q == 2 * i
  <2>1. p \in 1..n /\ p % 2 = 1 /\ (p + 1) \div 2 = i /\ q \in 1..n /\ q % 2 = 0 /\ (q + 1) \div 2 = i
    BY PlacesInKey
  <2> HIDE DEF p, q, n
  <2>2. f[p] = values[i] % 256 /\ f[q] = values[i] \div 256
    <3>1. 0 # 1
      OBVIOUS
    <3> QED BY <1>1, <2>1, <3>1, Zenon
  <2>3. values[i] \in Nat
    <3>1. values[i] \in TwoBytes
      OBVIOUS
    <3> QED BY <3>1, AttributesTyped
  <2>4. (values[i] % 256) + 256 * (values[i] \div 256) = values[i]
    BY <2>3, ValueOfBytes
  <2>5. f[p] + 256 * f[q] = values[i]
    BY <2>2, <2>4, Zenon
  <2> QED BY <2>5, Zenon DEF p, q
<1>6. g = [i \in 1 .. m |-> values[i]]
  BY <1>2, <1>4, <1>5, Zenon
<1> QED BY <1>6, Zenon DEF f, g

FirstOf(format, values, n, a) ==
  /\ \A i \in 1 .. n : format[i] \in DOMAIN a
  /\ \A id \in DOMAIN a : \E i \in 1 .. n : format[i] = id /\ a[id] = values[i]

(* Of a list, what the format lets through; it comes from the first place  *)
(* of the identifier.                                                      *)
LEMMA ValuesFound ==
  ASSUME NEW n \in Nat, NEW format, DOMAIN format = 1 .. n, NEW values
  PROVE  FirstOf(format, values, n, FromValues(format, values))
<1> DEFINE a == FromValues(format, values)
           places(id) == {i \in 1 .. n : format[i] = id}
<1>1. /\ DOMAIN a = {format[i] : i \in 1 .. n}
      /\ \A id \in DOMAIN a : a[id] = values[Min(places(id))]
  BY DEF FromValues
<1> HIDE DEF a
<1>2. ASSUME NEW id \in DOMAIN a PROVE Min(places(id)) \in places(id)
  <2>1. places(id) # {} /\ places(id) \subseteq Nat
    BY <1>1
  <2> HIDE DEF places
  <2> QED BY <2>1, MinOfNaturals
<1>3. \A id \in DOMAIN a : \E i \in 1 .. n : format[i] = id /\ a[id] = values[i]
  BY <1>1, <1>2
<1>4. \A i \in 1 .. n : format[i] \in DOMAIN a
  BY <1>1
<1> QED BY <1>3, <1>4, Zenon DEF a, FirstOf

(* The pairs of a facet are its attributes. *)
LEMMA PairsReadBack ==
  ASSUME NEW attributes \in AttributeLists
  PROVE  FromPairs(PairsOf(attributes)) = attributes
<1> DEFINE ids == DOMAIN attributes
           n == Cardinality(ids)
           r == Ranked(ids)
           f == PairsOf(attributes)
           format == [i \in DOMAIN f |-> f[i].identifier]
           values == [i \in DOMAIN f |-> f[i].value]
           a == FromValues(format, values)
<1>1. ids \subseteq Nat /\ attributes = [id \in ids |-> attributes[id]]
  BY ValuesAssumption
<1>2. IsFiniteSet(ids)
  <2>1. ids \subseteq UNION {DOMAIN list : list \in AttributeLists}
    OBVIOUS
  <2> QED BY <2>1, CatalogAssumption, FS_Subset
<1>3. f = [i \in DOMAIN r |-> [identifier |-> r[i], value |-> attributes[r[i]]]]
  BY DEF PairsOf, Ascending, Ranked, Rank
<1> HIDE DEF ids, n, r, f
<1>4. n \in Nat /\ DOMAIN r = 1 .. n /\ ToSet(r) = ids
  <2>1. ids \subseteq Int
    BY <1>1
  <2> QED BY <1>2, <2>1, RankedSet DEF r, n
<1>5. /\ DOMAIN format = 1 .. n /\ \A i \in 1 .. n : format[i] = r[i] /\ values[i] = attributes[r[i]]
  BY <1>3, <1>4
<1>6. {format[i] : i \in 1 .. n} = ids
  BY <1>4, <1>5 DEF ToSet
<1> HIDE DEF format, values, a
<1>7. /\ DOMAIN a = ids
      /\ \A id \in ids : \E i \in 1 .. n : format[i] = id /\ a[id] = values[i]
  <2>1. DOMAIN format = 1 .. n
    BY <1>5
  <2>2. FirstOf(format, values, n, a)
    BY <1>4, <2>1, ValuesFound DEF a
  <2> QED BY <1>6, <2>2 DEF FirstOf
<1>8. \A id \in ids : a[id] = attributes[id]
  BY <1>5, <1>7
<1>9. a = [id \in DOMAIN a |-> a[id]]
  BY DEF a, FromValues
<1>10. a = attributes
  BY <1>1, <1>7, <1>8, <1>9
<1>11. FromPairs(f) = a
  BY Zenon DEF FromPairs, a, format, values
<1> QED BY <1>10, <1>11 DEF f

-----------------------------------------------------------------------------
(* What is iterated are the items, one for one. *)
Iterated(it, items) ==
  \E of \in Bijection(DOMAIN it, DOMAIN items) :
    \A k \in DOMAIN it : it[k].key = items[of[k]].key /\ it[k].value = items[of[k]].value

(* A reader finds the tree, and in it what was put into it. *)
LEMMA TreeIsFound ==
  ASSUME NEW b, IsFile(b), b.layout \in Layouts, Readable(b.layout), NEW name,
         NEW lo \in Nat, NEW hi \in Nat, hi <= Count(b), NEW items, NEW room,
         TreeHolds(b, name, lo, hi, items, room)
  PROVE  LET it == FastIterate(b, name)
         IN /\ HasTree(b, name) /\ Iterated(it, items)
            /\ \E n \in Nat : DOMAIN it = 1 .. n
<1> DEFINE t == VariableGet(b, name)
           k == ChildIndex(b, name)
           es == EntriesOfTree(b, name)
           it == FastIterate(b, name)
<1>1. PICK of : Held(b, name, lo, hi, items, room, es, of)
  BY Zenon DEF TreeHolds
<1>2. /\ t \in lo .. hi - 1 /\ Block(b, t) = [child |-> k, path_count |-> Block(b, t).path_count]
      /\ of \in Bijection(DOMAIN es, DOMAIN items)
      /\ \A i \in DOMAIN es : Stands(b, es[i], items[of[i]])
  BY <1>1, Zenon DEF Held
<1>3. DOMAIN es = 1 .. Len(es) /\ Len(es) \in Nat
  BY <1>1, HeldTree
<1>4. HasTree(b, name)
  <2> DEFINE l == b.layout
             e == l.entries[t + 1]
  <2>1. Count(b) \in Nat /\ Len(l.entries) = Count(b) /\ l.size \in Nat
        /\ DOMAIN l.entries = 1 .. Len(l.entries)
    <3>1. l.entries \in Seq([address : Nat, length : Nat]) /\ l.size \in Nat
      BY DEF Layouts, Entries
    <3>2. Len(l.entries) \in Nat /\ DOMAIN l.entries = 1 .. Len(l.entries)
      BY <3>1, LenProperties
    <3>3. Len(l.entries) = Count(b)
      BY DEF IsFile, Count
    <3> QED BY <3>1, <3>2, <3>3
  <2> HIDE DEF t, k
  <2>2. t \in 0 .. Count(b) - 1 /\ t # -1
    BY <1>2, <2>1
  <2>3. t + 1 \in DOMAIN l.entries
    BY <2>1, <2>2
  <2>4. BlockEnd(e) <= l.size
    <3>1. CASE IsBlock(e)
      BY <2>3, <3>1 DEF Readable
    <3>2. CASE ~IsBlock(e)
      BY <2>1, <3>2 DEF IsBlock, Vacant, BlockEnd
    <3> QED BY <3>1, <3>2
  <2>5. "child" \in DOMAIN Block(b, t)
    <3> DEFINE n == Block(b, t).path_count
    <3>1. Block(b, t) = [child |-> k, path_count |-> n]
      BY <1>2
    <3> HIDE DEF n
    <3> QED BY <3>1
  <2> QED BY <2>2, <2>4, <2>5 DEF HasTree, Resolves, t
<1>5. it = [i \in DOMAIN es |-> [key |-> KeyOf(b, es[i]), value |-> Block(b, es[i].value)]]
  BY <1>4, Zenon DEF FastIterate
<1> HIDE DEF es, it, t, k
<1>6. ASSUME NEW i \in DOMAIN es
      PROVE  it[i].key = items[of[i]].key /\ it[i].value = items[of[i]].value
  <2>1. /\ Block(b, es[i].key) = [bytes |-> items[of[i]].key]
        /\ Block(b, es[i].value) = items[of[i]].value
    BY <1>2 DEF Stands
  <2>2. KeyOf(b, es[i]) = items[of[i]].key
    BY <2>1 DEF KeyOf
  <2> QED BY <1>5, <2>1, <2>2
<1>7. DOMAIN it = DOMAIN es
  BY <1>5
<1>8. Iterated(it, items)
  BY <1>2, <1>6, <1>7 DEF Iterated
<1> QED BY <1>3, <1>4, <1>7, <1>8 DEF it

-----------------------------------------------------------------------------
(* Where there is a rendition, the format has the identifier; and every    *)
(* attribute of a rendition is in a format that nobody has set.            *)
LEMMA FormatIdentifies ==
  ASSUME Input, FormatInv
  PROVE  /\ DOMAIN renditions # {} \/ DOMAIN rawRenditions # {} =>
              \E i \in DOMAIN FormatToWrite : FormatToWrite[i] = IdentifierAttribute
         /\ keyfmt = NoFormat =>
              \A k \in DOMAIN renditions : \A id \in DOMAIN renditions[k].attributes :
                \E i \in DOMAIN FormatToWrite : FormatToWrite[i] = id
<1> DEFINE f == FormatToWrite
<1>1. ASSUME keyfmt # NoFormat
      PROVE  \E i \in DOMAIN f : f[i] = IdentifierAttribute
  <2>1. f = keyfmt /\ keyfmt \in KeyFormats
    BY <1>1 DEF FormatToWrite, Input
  <2> QED BY <2>1, FormatAssumption
<1>2. ASSUME keyfmt = NoFormat, NEW k \in DOMAIN renditions,
             NEW id \in DOMAIN renditions[k].attributes
      PROVE  \E i \in DOMAIN f : f[i] = id
  <2> DEFINE lists == {facets[n] : n \in DOMAIN facets}
                        \cup {renditions[j].attributes : j \in DOMAIN renditions}
             ids == UNION {DOMAIN a : a \in lists}
  <2>1. lists \subseteq AttributeLists /\ id \in ids
    BY DEF Input
  <2> HIDE DEF lists
  <2>2. ids \subseteq UNION {DOMAIN a : a \in AttributeLists}
    BY <2>1
  <2>3. IsFiniteSet(ids) /\ ids \subseteq Nat
    BY <2>1, <2>2, CatalogAssumption, AttributesTyped, FS_Subset
  <2>4. f = Ranked(ids)
    BY <1>2 DEF FormatToWrite, DetermineKeyFormat, Ascending, Ranked, Rank, lists
  <2> HIDE DEF ids, f
  <2>5. ids \subseteq Int
    BY <2>3
  <2>6. ToSet(f) = ids
    BY <2>3, <2>4, <2>5, RankedSet
  <2> QED BY <2>1, <2>6 DEF ToSet
<1> HIDE DEF f
<1>3. ASSUME DOMAIN renditions # {} \/ DOMAIN rawRenditions # {}
      PROVE  \E i \in DOMAIN f : f[i] = IdentifierAttribute
  <2>1. CASE keyfmt # NoFormat
    BY <1>1, <2>1
  <2>2. CASE keyfmt = NoFormat
    <3>1. PICK k \in DOMAIN renditions : IdentifierAttribute \in DOMAIN renditions[k].attributes
      BY <1>3, <2>2 DEF FormatInv
    <3> QED BY <1>2, <2>2, <3>1
  <2> QED BY <2>1, <2>2
<1> QED BY <1>2, <1>3 DEF f

(* The first place of an identifier that the format has. *)
LEMMA IdentifierPlace ==
  ASSUME NEW format, NEW n \in Nat, DOMAIN format = 1 .. n,
         \E i \in 1 .. n : format[i] = IdentifierAttribute
  PROVE  /\ IdentifierIndex(format) \in 1 .. n
         /\ format[IdentifierIndex(format)] = IdentifierAttribute
         /\ \A values : /\ IdentifierAttribute \in DOMAIN FromValues(format, values)
                        /\ FromValues(format, values)[IdentifierAttribute]
                             = values[IdentifierIndex(format)]
<1> DEFINE places == {i \in DOMAIN format : format[i] = IdentifierAttribute}
<1>1. places # {} /\ places \subseteq Nat /\ places \subseteq 1 .. n
  OBVIOUS
<1>2. IdentifierIndex(format) = Min(places)
  BY <1>1 DEF IdentifierIndex
<1>3. Min(places) \in places
  <2> HIDE DEF places
  <2> QED BY <1>1, MinOfNaturals
<1>4. ASSUME NEW values
      PROVE  /\ IdentifierAttribute \in DOMAIN FromValues(format, values)
             /\ FromValues(format, values)[IdentifierAttribute] = values[Min(places)]
  <2>1. IdentifierAttribute \in {format[i] : i \in DOMAIN format}
    BY <1>1
  <2> QED BY <2>1 DEF FromValues
<1> QED BY <1>1, <1>2, <1>3, <1>4

-----------------------------------------------------------------------------
(* What the key of a rendition tells. *)
KeyTells(r) == KeyValues(RenditionItem(r).key)

(* The key of a rendition tells what the format lets through. *)
LEMMA StructuredTells ==
  ASSUME Input, NEW k \in DOMAIN renditions
  PROVE  LET r    == << "structured", k >>
             list == renditions[k].attributes
         IN KeyTells(r) = ValuesOf(list, FormatToWrite) /\ list \in AttributeLists
<1> DEFINE r == << "structured", k >>
           list == renditions[k].attributes
           values == ValuesOf(list, FormatToWrite)
           m == Len(FormatToWrite)
<1>1. list \in AttributeLists /\ m \in Nat /\ DOMAIN FormatToWrite = 1 .. m
  BY InputSizes DEF Input
<1>2. /\ Len(values) = m /\ \A i \in 1 .. m : values[i] \in TwoBytes
  BY <1>1, ValuesTyped
<1>3. values = [i \in 1 .. m |-> values[i]]
  BY <1>1 DEF ValuesOf
<1>4. RenditionItem(r).key = KeyBytes(values)
  BY DEF RenditionItem
<1> HIDE DEF values, r, m, list
<1>5. KeyValues(KeyBytes(values)) = values
  BY <1>1, <1>2, <1>3, KeyReadBack
<1> QED BY <1>1, <1>4, <1>5 DEF KeyTells, values, r, list

(* A rendition is stored as what its key tells, and added for what the key *)
(* has at the place of the identifier.                                     *)
LEMMA StoredAsTold ==
  ASSUME Input, TypedInput, FormatInv, NEW r \in DOMAIN AllRenditions
  PROVE  /\ Stored(r) = [attributes |-> FromValues(FormatToWrite, KeyTells(r)),
                         payload    |-> RenditionItem(r).value.payload]
         /\ \A id : r \in Added(id) <=> KeyTells(r)[IdentifierIndex(FormatToWrite)] = id
<1> DEFINE f == FormatToWrite
           p == IdentifierIndex(FormatToWrite)
<1>1. CASE \E k \in DOMAIN renditions : r = << "structured", k >>
  <2>1. PICK k \in DOMAIN renditions : r = << "structured", k >>
    BY <1>1
  <2> DEFINE list == renditions[k].attributes
  <2>2. KeyTells(r) = ValuesOf(list, f)
    BY <2>1, StructuredTells
  <2>3. RenditionItem(r).value.payload = renditions[k].payload
    <3>1. RenditionItem(r).value = [payload |-> renditions[k].payload]
      BY <2>1, StructuredTyped
    <3> QED BY <3>1
  <2>4. Stored(r) = [attributes |-> FromValues(f, ValuesOf(list, f)), payload |-> renditions[k].payload]
    BY <2>1 DEF Stored, AsLoaded
  <2>5. ValuesOf(list, f)[p] = list[IdentifierAttribute]
    <3>1. /\ \E i \in DOMAIN f : f[i] = IdentifierAttribute
          /\ Len(f) \in Nat /\ DOMAIN f = 1 .. Len(f)
      BY FormatIdentifies, InputSizes
    <3>2. p \in 1 .. Len(f) /\ f[p] = IdentifierAttribute
      BY <3>1, IdentifierPlace
    <3>3. IdentifierAttribute \in DOMAIN list
      BY DEF FormatInv
    <3> QED BY <3>1, <3>2, <3>3 DEF ValuesOf
  <2>6. \A id : r \in Added(id) <=> list[IdentifierAttribute] = id
    <3>1. "structured" # "raw"
      OBVIOUS
    <3> QED BY <2>1, <3>1 DEF Added
  <2> QED BY <2>2, <2>3, <2>4, <2>5, <2>6
<1>2. CASE \E k \in DOMAIN rawRenditions : r = << "raw", k >>
  <2>1. PICK k \in DOMAIN rawRenditions : r = << "raw", k >>
    BY <1>2
  <2> DEFINE key == rawRenditions[k].key
  <2>2. /\ RenditionItem(r).key = key
        /\ RenditionItem(r).value = [payload |-> rawRenditions[k].payload]
    BY <2>1, RawTyped
  <2>3. KeyTells(r) = KeyValues(key) /\ RenditionItem(r).value.payload = rawRenditions[k].payload
    BY <2>2 DEF KeyTells
  <2>4. keyfmt = f
    BY <2>1 DEF FormatInv, FormatToWrite
  <2>5. Stored(r) = [attributes |-> FromValues(keyfmt, KeyValues(key)),
                     payload    |-> rawRenditions[k].payload]
    <3>1. r[1] # "structured" /\ r[2] = k
      BY <2>1
    <3> QED BY <3>1, Zenon DEF Stored
  <2>6. \A id : r \in Added(id) <=> KeyValues(key)[IdentifierIndex(keyfmt)] = id
    <3>1. "structured" # "raw"
      OBVIOUS
    <3> QED BY <2>1, <3>1 DEF Added
  <2> QED BY <2>3, <2>4, <2>5, <2>6
<1> QED BY <1>1, <1>2 DEF AllRenditions, RenditionItems

-----------------------------------------------------------------------------
(* What there is to read in a catalog that loads. *)
Loaded ==
  /\ Iterated(FastIterate(bom, "FACETKEYS"), AllFacets)
  /\ Iterated(FastIterate(bom, "RENDITIONS"), AllRenditions)
  /\ \A name \in {"FACETKEYS", "RENDITIONS"} :
       \E n \in Nat : DOMAIN FastIterate(bom, name) = 1 .. n
  /\ LoadedFormat(bom) = FormatToWrite

(* When the header is found, so is all that was added. *)
LEMMA InvLoads == CatalogInv /\ Written => Loaded
<1> SUFFICES ASSUME CatalogInv, Written PROVE Loaded
  OBVIOUS
<1>1. /\ Input /\ TypedFile(bom) /\ pc \in {"written", "relocated"}
      /\ VariableGet(bom, "CARHEADER") # -1
  BY DEF CatalogInv, WriterInv, TreesInv, Written
<1>2. ~Absent(bom, "CARHEADER")
  BY <1>1, NoVariable
<1>3. BothTrees(bom, AllFacets, AllRenditions, 0) /\ FormatWritten(bom, FormatToWrite)
  BY <1>1, <1>2 DEF CatalogInv, TreesInv, FormatInv
<1>4. Readable(bom.layout)
  BY <1>1, FitsIsReadable DEF CatalogInv, WriterInv, Open
<1>5. IsFile(bom) /\ bom.layout \in Layouts /\ Count(bom) \in Nat
  BY <1>1, FileLengths DEF TypedFile
<1>6. PICK m \in 1 .. Count(bom) :
        /\ TreeHolds(bom, "FACETKEYS", 1, m, AllFacets, 0)
        /\ TreeHolds(bom, "RENDITIONS", m, Count(bom), AllRenditions, 0)
  BY <1>3, Zenon DEF BothTrees
<1>7. m \in Nat /\ m <= Count(bom) /\ 1 \in Nat /\ Count(bom) <= Count(bom)
  BY <1>5
<1>8. /\ Iterated(FastIterate(bom, "FACETKEYS"), AllFacets)
      /\ \E n \in Nat : DOMAIN FastIterate(bom, "FACETKEYS") = 1 .. n
  BY <1>4, <1>5, <1>6, <1>7, TreeIsFound
<1>9. /\ Iterated(FastIterate(bom, "RENDITIONS"), AllRenditions)
      /\ \E n \in Nat : DOMAIN FastIterate(bom, "RENDITIONS") = 1 .. n
  BY <1>4, <1>5, <1>6, <1>7, TreeIsFound
<1>10. LoadedFormat(bom) = FormatToWrite
  <2> DEFINE f == FormatToWrite
  <2>1. Block(bom, VariableGet(bom, "KEYFORMAT")) = [identifiers |-> f]
    BY <1>3 DEF FormatWritten
  <2> HIDE DEF f
  <2>2. LoadedFormat(bom) = f
    BY <2>1 DEF LoadedFormat
  <2> QED BY <2>2 DEF f
<1> QED BY <1>8, <1>9, <1>10 DEF Loaded

-----------------------------------------------------------------------------
(* Every facet is found by its name, and has its attributes. *)
LEMMA InvFacetsReadBack == CatalogInv => FacetsReadBack
<1> SUFFICES ASSUME CatalogInv, Written
             PROVE  /\ DOMAIN LoadedFacets(bom) = DOMAIN facets
                    /\ \A name \in DOMAIN facets : LookupFacet(bom, name) = facets[name]
  BY DEF FacetsReadBack
<1> DEFINE it == FastIterate(bom, "FACETKEYS")
           items == AllFacets
           all == LoadedFacets(bom)
<1>1. Input
  BY DEF CatalogInv, WriterInv
<1>2. PICK of \in Bijection(DOMAIN it, DOMAIN items) :
        \A k \in DOMAIN it : it[k].key = items[of[k]].key /\ it[k].value = items[of[k]].value
  BY InvLoads DEF Loaded, Iterated
<1>3. DOMAIN it \subseteq Nat
  <2>1. PICK n \in Nat : DOMAIN it = 1 .. n
    BY InvLoads DEF Loaded
  <2> HIDE DEF it
  <2> QED BY <2>1
<1>4. /\ DOMAIN items = DOMAIN facets
      /\ \A name \in DOMAIN facets :
           items[name].key = name /\ items[name].value = [pairs |-> PairsOf(facets[name])]
  <2>1. DOMAIN items = DOMAIN facets /\ \A name \in DOMAIN facets : items[name] = FacetItem(name)
    BY DEF AllFacets, FacetItems
  <2> HIDE DEF items
  <2> QED BY <1>1, <2>1, FacetsTyped
<1> HIDE DEF it, items
<1>5. ASSUME NEW k \in DOMAIN it
      PROVE  /\ it[k].key \in DOMAIN facets
             /\ it[k].value = [pairs |-> PairsOf(facets[it[k].key])]
  <2>1. of[k] \in DOMAIN facets
    BY <1>2, <1>4 DEF Bijection, Injection
  <2>2. it[k].key = of[k]
    BY <1>2, <1>4, <2>1
  <2> QED BY <1>2, <1>4, <2>1, <2>2
<1>6. ASSUME NEW name \in DOMAIN facets PROVE \E k \in DOMAIN it : it[k].key = name
  <2>1. of \in Surjection(DOMAIN it, DOMAIN facets)
    BY <1>2, <1>4 DEF Bijection
  <2>2. PICK k \in DOMAIN it : of[k] = name
    BY <2>1 DEF Surjection
  <2>3. it[k].key = items[name].key
    BY <1>2, <2>2
  <2> QED BY <1>4, <2>3
<1> DEFINE keys == {it[k].key : k \in DOMAIN it}
           places(name) == {k \in DOMAIN it : it[k].key = name}
<1>7. keys = DOMAIN facets
  BY <1>5, <1>6
<1>8. all = [name \in keys |-> it[Min(places(name))].value.pairs]
  BY Zenon DEF LoadedFacets, it
<1> HIDE DEF all, keys
<1>9. ASSUME NEW name \in DOMAIN facets PROVE all[name] = PairsOf(facets[name])
  <2>1. places(name) # {} /\ places(name) \subseteq Nat
    BY <1>3, <1>6
  <2>2. Min(places(name)) \in places(name)
    <3> HIDE DEF places
    <3> QED BY <2>1, MinOfNaturals
  <2> DEFINE k == Min(places(name))
             pairs == PairsOf(facets[name])
  <2>3. k \in DOMAIN it /\ it[k].key = name
    BY <2>2
  <2>4. all[name] = it[k].value.pairs
    BY <1>7, <1>8
  <2> HIDE DEF k, pairs
  <2>5. it[k].value = [pairs |-> pairs]
    BY <1>5, <2>3 DEF pairs
  <2>6. all[name] = pairs
    BY <2>4, <2>5
  <2> QED BY <2>6 DEF pairs
<1>10. ASSUME NEW name \in DOMAIN facets PROVE LookupFacet(bom, name) = facets[name]
  <2>1. LookupFacet(bom, name) = FromPairs(PairsOf(facets[name]))
    BY <1>9 DEF LookupFacet, all
  <2>2. facets[name] \in AttributeLists
    BY <1>1 DEF Input
  <2> QED BY <2>1, <2>2, PairsReadBack
<1>11. DOMAIN all = DOMAIN facets
  BY <1>7, <1>8
<1> QED BY <1>10, <1>11 DEF all

-----------------------------------------------------------------------------
(* What a reader has of the renditions: to each place in the leaf belongs  *)
(* one that was added, with what is stored of it and what it is found by.  *)
LEMMA RenditionsLoaded ==
  ASSUME CatalogInv, Written
  PROVE  LET all == LoadedRenditions(bom)
             f   == LoadedFormat(bom)
         IN \E n \in Nat : DOMAIN all = 1 .. n /\
              \E of \in Bijection(DOMAIN all, DOMAIN AllRenditions) :
                \A k \in DOMAIN all :
                  /\ all[k].identifier = KeyValues(all[k].key)[IdentifierIndex(f)]
                  /\ [attributes |-> FromValues(f, KeyValues(all[k].key)),
                      payload    |-> all[k].payload] = Stored(of[k])
                  /\ \A id : of[k] \in Added(id) <=> all[k].identifier = id
<1> DEFINE it == FastIterate(bom, "RENDITIONS")
           items == AllRenditions
           all == LoadedRenditions(bom)
           f == LoadedFormat(bom)
           place == IdentifierIndex(f)
<1>1. Input /\ TypedInput /\ FormatInv /\ f = FormatToWrite
  BY InvLoads DEF CatalogInv, WriterInv, TreesInv, Loaded
<1>2. PICK of \in Bijection(DOMAIN it, DOMAIN items) :
        \A k \in DOMAIN it : it[k].key = items[of[k]].key /\ it[k].value = items[of[k]].value
  BY InvLoads DEF Loaded, Iterated
<1>3. PICK n \in Nat : DOMAIN it = 1 .. n
  BY InvLoads DEF Loaded
<1>4. all = [k \in DOMAIN it |-> [identifier |-> KeyValues(it[k].key)[place],
                                  key        |-> it[k].key,
                                  payload    |-> it[k].value.payload]]
  BY Zenon DEF LoadedRenditions, it, f, place
<1>5. \A r \in DOMAIN items : items[r] = RenditionItem(r)
  BY DEF AllRenditions, RenditionItems
<1> HIDE DEF it, items, all, f
<1>6. ASSUME NEW k \in DOMAIN it
      PROVE  LET r == of[k]
             IN /\ r \in DOMAIN items
                /\ all[k].identifier = KeyTells(r)[place]
                /\ KeyValues(all[k].key) = KeyTells(r)
                /\ all[k].payload = RenditionItem(r).value.payload
  <2> DEFINE r == of[k]
  <2>1. r \in DOMAIN items
    BY <1>2 DEF Bijection, Injection
  <2>2. it[k].key = RenditionItem(r).key /\ it[k].value = RenditionItem(r).value
    BY <1>2, <1>5, <2>1
  <2>3. KeyValues(it[k].key) = KeyTells(r)
    BY <2>2 DEF KeyTells
  <2> HIDE DEF place
  <2>4. /\ all[k].identifier = KeyValues(it[k].key)[place] /\ all[k].key = it[k].key
        /\ all[k].payload = it[k].value.payload
    BY <1>4
  <2> QED BY <2>1, <2>2, <2>3, <2>4
<1>7. DOMAIN all = DOMAIN it
  BY <1>4
<1>8. ASSUME NEW k \in DOMAIN it
      PROVE  /\ all[k].identifier = KeyValues(all[k].key)[place]
             /\ [attributes |-> FromValues(f, KeyValues(all[k].key)),
                 payload    |-> all[k].payload] = Stored(of[k])
             /\ \A id : of[k] \in Added(id) <=> all[k].identifier = id
  <2> DEFINE r == of[k]
  <2>1. /\ Stored(r) = [attributes |-> FromValues(f, KeyTells(r)),
                        payload    |-> RenditionItem(r).value.payload]
        /\ \A id : r \in Added(id) <=> KeyTells(r)[place] = id
    <3>1. r \in DOMAIN AllRenditions
      BY <1>6 DEF items
    <3> QED BY <1>1, <3>1, StoredAsTold
  <2> HIDE DEF place
  <2> QED BY <1>6, <2>1
<1> HIDE DEF place
<1>9. /\ of \in Bijection(DOMAIN all, DOMAIN AllRenditions)
      /\ DOMAIN all = 1 .. n
      /\ \A k \in DOMAIN all :
           /\ all[k].identifier = KeyValues(all[k].key)[place]
           /\ [attributes |-> FromValues(f, KeyValues(all[k].key)),
               payload    |-> all[k].payload] = Stored(of[k])
           /\ \A id : of[k] \in Added(id) <=> all[k].identifier = id
  BY <1>2, <1>3, <1>7, <1>8 DEF items
<1> QED BY <1>3, <1>9, Zenon DEF all, f, place

-----------------------------------------------------------------------------
(* As often as a rendition was added, it is found. *)
FoundAsAdded(id, r) ==
  LET found == LookupRenditions(bom, id)
  IN Cardinality({k \in DOMAIN found : found[k] = r})
       = Cardinality({a \in Added(id) : Stored(a) = r})

(* That is all that RenditionsReadBack asks. *)
LEMMA AllFoundAsAdded ==
  ASSUME Written => \A id, r : FoundAsAdded(id, r)
  PROVE  RenditionsReadBack
<1> DEFINE found(id) == LookupRenditions(bom, id)
           R(id) == {found(id)[k] : k \in DOMAIN found(id)} \cup {Stored(a) : a \in Added(id)}
<1>1. Written => \A id : \A r \in R(id) : FoundAsAdded(id, r)
  OBVIOUS
<1> QED BY <1>1, Zenon DEF RenditionsReadBack, FoundAsAdded

(* The places in the leaf belong to the renditions one for one. *)
LEMMA InvRenditionsReadBack == CatalogInv => RenditionsReadBack
<1> SUFFICES ASSUME CatalogInv, Written, NEW id, NEW r PROVE FoundAsAdded(id, r)
  BY AllFoundAsAdded
<1> DEFINE all == LoadedRenditions(bom)
           f == LoadedFormat(bom)
           stored(k) == [attributes |-> FromValues(f, KeyValues(all[k].key)),
                         payload    |-> all[k].payload]
           found == LookupRenditions(bom, id)
           S == {k \in DOMAIN found : found[k] = r}
           T == {a \in Added(id) : Stored(a) = r}
<1>1. PICK n \in Nat : DOMAIN all = 1 .. n /\
        \E of \in Bijection(DOMAIN all, DOMAIN AllRenditions) :
          \A k \in DOMAIN all :
            /\ stored(k) = Stored(of[k])
            /\ \A i : of[k] \in Added(i) <=> all[k].identifier = i
  BY RenditionsLoaded
<1>2. PICK of \in Bijection(DOMAIN all, DOMAIN AllRenditions) :
        \A k \in DOMAIN all :
          /\ stored(k) = Stored(of[k])
          /\ \A i : of[k] \in Added(i) <=> all[k].identifier = i
  BY <1>1
<1>3. found = [k \in {k \in DOMAIN all : all[k].identifier = id} |-> stored(k)]
  BY Zenon DEF LookupRenditions
<1> HIDE DEF all, stored, found
<1>4. S = {k \in DOMAIN all : all[k].identifier = id /\ stored(k) = r}
  BY <1>3
<1>5. Added(id) \subseteq DOMAIN AllRenditions
  BY DEF Added, AllRenditions, RenditionItems
<1>6. ASSUME NEW k \in S PROVE of[k] \in T
  BY <1>2, <1>4
<1>7. ASSUME NEW a \in T PROVE \E k \in S : of[k] = a
  <2>1. PICK k \in DOMAIN all : of[k] = a
    BY <1>2, <1>5 DEF Bijection, Surjection
  <2>2. k \in S
    BY <1>2, <1>4, <2>1
  <2> QED BY <2>1, <2>2
<1> DEFINE g == [k \in S |-> of[k]]
<1> HIDE DEF S, T
<1>8. \A i, j \in S : g[i] = g[j] => i = j
  <2>1. S \subseteq DOMAIN all
    BY <1>4
  <2>2. \A i, j \in DOMAIN all : of[i] = of[j] => i = j
    BY <1>2 DEF Bijection, Injection, IsInjective
  <2> QED BY <2>1, <2>2
<1>9. g \in [S -> T] /\ \A a \in T : \E k \in S : g[k] = a
  BY <1>6, <1>7
<1> HIDE DEF g
<1>10. g \in Bijection(S, T)
  BY <1>8, <1>9 DEF Bijection, Injection, Surjection, IsInjective
<1>11. IsFiniteSet(S)
  <2>1. S \subseteq 1 .. n
    BY <1>1, <1>4
  <2> QED BY <2>1, SizeOfRange, FS_Subset
<1>12. Cardinality(S) = Cardinality(T)
  BY <1>10, <1>11, FS_Bijection DEF ExistsBijection
<1> QED BY <1>12, Zenon DEF FoundAsAdded, S, T, found

(* The reader's own two ways. *)
LEMMA InvLookupAgrees == CatalogInv => LookupAgreesWithIterate
<1> SUFFICES ASSUME CatalogInv, Written, NEW attributes, IdentifierAttribute \in DOMAIN attributes
             PROVE  FacetRenditionIterate(bom, attributes)
                      = LookupRenditions(bom, attributes[IdentifierAttribute])
  BY Zenon DEF LookupAgreesWithIterate
<1> DEFINE loaded == LoadedRenditions(bom)
           f == LoadedFormat(bom)
           id == attributes[IdentifierAttribute]
           told(k) == FromValues(f, KeyValues(loaded[k].key))
           stored(k) == [attributes |-> told(k), payload |-> loaded[k].payload]
           all == RenditionIterate(bom)
<1>1. PICK n \in Nat : DOMAIN loaded = 1 .. n /\
        \E of \in Bijection(DOMAIN loaded, DOMAIN AllRenditions) :
          \A k \in DOMAIN loaded :
            loaded[k].identifier = KeyValues(loaded[k].key)[IdentifierIndex(f)]
  BY RenditionsLoaded
<1>2. PICK of \in Bijection(DOMAIN loaded, DOMAIN AllRenditions) :
        \A k \in DOMAIN loaded :
          loaded[k].identifier = KeyValues(loaded[k].key)[IdentifierIndex(f)]
  BY <1>1
<1>3. all = [k \in DOMAIN loaded |-> stored(k)]
  BY Zenon DEF RenditionIterate
<1>4. LookupRenditions(bom, id)
        = [k \in {k \in DOMAIN loaded : loaded[k].identifier = id} |-> stored(k)]
  BY Zenon DEF LookupRenditions
<1>5. FacetRenditionIterate(bom, attributes)
        = [k \in {k \in DOMAIN all :
                    /\ IdentifierAttribute \in DOMAIN attributes \cap DOMAIN all[k].attributes
                    /\ all[k].attributes[IdentifierAttribute] = id} |-> all[k]]
  BY Zenon DEF FacetRenditionIterate
<1> HIDE DEF all, loaded, f
<1>6. ASSUME NEW k \in DOMAIN loaded
      PROVE  /\ IdentifierAttribute \in DOMAIN told(k)
             /\ told(k)[IdentifierAttribute] = loaded[k].identifier
  <2>1. Input /\ FormatInv /\ f = FormatToWrite
    BY InvLoads DEF CatalogInv, WriterInv, Loaded, f
  <2>2. DOMAIN renditions # {} \/ DOMAIN rawRenditions # {}
    <3>1. of[k] \in DOMAIN AllRenditions
      BY <1>2 DEF Bijection, Injection
    <3> QED BY <3>1 DEF AllRenditions, RenditionItems
  <2> DEFINE m == Len(f)
  <2>3. m \in Nat /\ DOMAIN f = 1 .. m
    BY <2>1, InputSizes
  <2> HIDE DEF m
  <2>4. \E i \in 1 .. m : f[i] = IdentifierAttribute
    BY <2>1, <2>2, <2>3, FormatIdentifies
  <2>5. \A values : /\ IdentifierAttribute \in DOMAIN FromValues(f, values)
                    /\ FromValues(f, values)[IdentifierAttribute] = values[IdentifierIndex(f)]
    BY <2>3, <2>4, IdentifierPlace
  <2> QED BY <1>2, <2>5
<1>7. ASSUME NEW k \in DOMAIN loaded
      PROVE  all[k] = stored(k) /\ all[k].attributes = told(k)
  <2> HIDE DEF told
  <2> QED BY <1>3
<1>8. DOMAIN all = DOMAIN loaded
  BY <1>3
<1> HIDE DEF told, stored, id
<1>9. {k \in DOMAIN all :
         /\ IdentifierAttribute \in DOMAIN attributes \cap DOMAIN all[k].attributes
         /\ all[k].attributes[IdentifierAttribute] = id}
        = {k \in DOMAIN loaded : loaded[k].identifier = id}
  BY <1>6, <1>7, <1>8
<1>10. FacetRenditionIterate(bom, attributes) = LookupRenditions(bom, id)
  BY <1>4, <1>5, <1>7, <1>8, <1>9
<1> QED BY <1>10 DEF id

(* A format that nobody has set leaves no attribute out. *)
LEMMA InvAttributesKept == CatalogInv => AttributesKept
<1> SUFFICES ASSUME CatalogInv, Written, keyfmt = NoFormat, NEW j \in DOMAIN renditions
             PROVE  LET a     == renditions[j].attributes
                        found == LookupRenditions(bom, a[IdentifierAttribute])
                    IN \E i \in DOMAIN found :
                         /\ found[i].payload = renditions[j].payload
                         /\ \A id \in DOMAIN a : id \in DOMAIN found[i].attributes
                                                 /\ found[i].attributes[id] = a[id]
  BY Zenon DEF AttributesKept
<1> DEFINE all == LoadedRenditions(bom)
           f == LoadedFormat(bom)
           a == renditions[j].attributes
           r == << "structured", j >>
           stored(k) == [attributes |-> FromValues(f, KeyValues(all[k].key)),
                         payload    |-> all[k].payload]
           found == LookupRenditions(bom, a[IdentifierAttribute])
<1>1. PICK n \in Nat : DOMAIN all = 1 .. n /\
        \E of \in Bijection(DOMAIN all, DOMAIN AllRenditions) :
          \A k \in DOMAIN all :
            /\ stored(k) = Stored(of[k])
            /\ \A i : of[k] \in Added(i) <=> all[k].identifier = i
  BY RenditionsLoaded
<1>2. PICK of \in Bijection(DOMAIN all, DOMAIN AllRenditions) :
        \A k \in DOMAIN all :
          /\ stored(k) = Stored(of[k])
          /\ \A i : of[k] \in Added(i) <=> all[k].identifier = i
  BY <1>1
<1>3. found = [k \in {k \in DOMAIN all : all[k].identifier = a[IdentifierAttribute]} |-> stored(k)]
  BY Zenon DEF LookupRenditions
<1>4. Input /\ FormatInv /\ f = FormatToWrite /\ a \in AttributeLists
  BY InvLoads DEF CatalogInv, WriterInv, Loaded, Input
<1> HIDE DEF all, f, stored, found
<1>5. r \in DOMAIN AllRenditions /\ r \in Added(a[IdentifierAttribute])
  BY DEF AllRenditions, RenditionItems, Added
<1>6. PICK i \in DOMAIN all : of[i] = r
  BY <1>2, <1>5 DEF Bijection, Surjection
<1>7. i \in DOMAIN found /\ found[i] = Stored(r)
  <2>1. all[i].identifier = a[IdentifierAttribute] /\ stored(i) = Stored(r)
    BY <1>2, <1>5, <1>6
  <2> QED BY <1>3, <2>1
<1>8. Stored(r) = [attributes |-> FromValues(f, ValuesOf(a, f)), payload |-> renditions[j].payload]
  BY <1>4 DEF Stored, AsLoaded
<1> DEFINE list == FromValues(f, ValuesOf(a, f))
           payload == renditions[j].payload
<1>9. ASSUME NEW id \in DOMAIN a PROVE id \in DOMAIN list /\ list[id] = a[id]
  <2> DEFINE m == Len(f)
             values == ValuesOf(a, f)
  <2>1. m \in Nat /\ DOMAIN f = 1 .. m
    BY <1>4, InputSizes
  <2> HIDE DEF m
  <2>2. \E p \in 1 .. m : f[p] = id
    BY <1>4, <2>1, FormatIdentifies
  <2>3. FirstOf(f, values, m, list)
    <3> HIDE DEF values
    <3>1. FirstOf(f, values, m, FromValues(f, values))
      BY <2>1, ValuesFound
    <3> QED BY <3>1, Zenon DEF values
  <2>4. \A p \in 1 .. m : f[p] = id => values[p] = a[id]
    BY <2>1 DEF ValuesOf
  <2> HIDE DEF values, list
  <2> QED BY <2>2, <2>3, <2>4 DEF FirstOf
<1> HIDE DEF list, payload
<1>10. found[i].attributes = list /\ found[i].payload = payload
  BY <1>7, <1>8 DEF list, payload
<1>11. \A id \in DOMAIN a : id \in DOMAIN found[i].attributes /\ found[i].attributes[id] = a[id]
  BY <1>9, <1>10
<1> QED BY <1>7, <1>10, <1>11 DEF found, payload

(* A catalog that loads has what was added to it: every facet under its    *)
(* name and with its attributes, every rendition as often as it was added, *)
(* for the identifier under which a facet looks for it, and the reader's   *)
(* two ways to the renditions of a facet agree (Reader.cpp:130-226).       *)
THEOREM CatalogsReadBack == Spec => []ReadBack
<1>1. Init => CatalogInv
  BY InitWriterInv, InitTreesInv, InitFormatInv DEF CatalogInv
<1>2. CatalogInv /\ [Next]_vars => CatalogInv'
  BY CatalogInvStep
<1>3. CatalogInv => ReadBack
  BY InvRenditionsReadBack, InvFacetsReadBack, InvLookupAgrees, InvAttributesKept DEF ReadBack
<1> QED BY <1>1, <1>2, <1>3, PTL DEF Spec
=============================================================================
