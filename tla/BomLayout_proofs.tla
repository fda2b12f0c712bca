--------------------------- MODULE BomLayout_proofs ---------------------------
(***************************************************************************)
(* What the operations of a BOM container do to its layout, for every file *)
(* size, every block length and every reservation: each takes a sound      *)
(* layout to a sound one, and moves no block past another.  One lemma per  *)
(* operation; the theorems about the container and about the writer cite   *)
(* them.                                                                   *)
(***************************************************************************)
EXTENDS BomLayout, SequenceTheorems, TLAPS

(* The layout of bom_alloc_empty is sound. *)
LEMMA EmptyIsSound == SoundLayout(EmptyLayout)
  BY DEF SoundLayout, EmptyLayout, Layouts, Entries, SectionsDisjoint, BlocksDisjoint,
         FreelistClear, FreelistLast, IndexInWholeEntries, Fresh, IndexPoint, IndexEnd,
         VariablesEnd, Apart, HeaderSize, CountSize, EntrySize, FreelistSize

(* What an insertion does to each field. *)
LEMMA ResizeFields ==
  ASSUME NEW s \in Layouts, NEW p \in Nat, NEW d \in Nat
  PROVE  /\ Resize(s, p, d) \in Layouts
         /\ Resize(s, p, d).size = s.size + d
         /\ Resize(s, p, d).index_offset = Shift(s.index_offset, p, d)
         /\ Resize(s, p, d).index_length = s.index_length
         /\ Resize(s, p, d).variables_offset = Shift(s.variables_offset, p, d)
         /\ Resize(s, p, d).trailer_len = s.trailer_len
         /\ Resize(s, p, d).variable_bytes = s.variable_bytes
         /\ Resize(s, p, d).freelist_offset = Shift(s.freelist_offset, p, d)
         /\ Resize(s, p, d).block_count = s.block_count
         /\ Len(Resize(s, p, d).entries) = Len(s.entries)
         /\ DOMAIN Resize(s, p, d).entries = DOMAIN s.entries
         /\ \A i \in DOMAIN s.entries :
              /\ Resize(s, p, d).entries[i].address = Shift(s.entries[i].address, p, d)
              /\ Resize(s, p, d).entries[i].length = s.entries[i].length
<1> DEFINE r == Resize(s, p, d)
           e == [i \in DOMAIN s.entries |->
                   [address |-> Shift(s.entries[i].address, p, d),
                    length  |-> s.entries[i].length]]
<1>1. s.entries \in Seq(Entries) /\ Len(s.entries) \in Nat
      /\ DOMAIN s.entries = 1..Len(s.entries)
  BY DEF Layouts
<1>0. /\ s.size \in Nat /\ s.index_offset \in Nat /\ s.variables_offset \in Nat
      /\ s.freelist_offset \in Nat
  BY DEF Layouts
<1>2. \A a \in Nat : Shift(a, p, d) \in Nat
  BY DEF Shift
<1>3. \A i \in DOMAIN s.entries : e[i] \in Entries
  <2> SUFFICES ASSUME NEW i \in DOMAIN s.entries PROVE e[i] \in Entries
    OBVIOUS
  <2>1. s.entries[i] \in Entries
    BY <1>1
  <2> QED
    BY <2>1, <1>2 DEF Entries
<1>4. e \in Seq(Entries) /\ Len(e) = Len(s.entries) /\ DOMAIN e = DOMAIN s.entries
  <2>1. e \in [1..Len(s.entries) -> Entries]
    BY <1>1, <1>3
  <2> QED
    BY <2>1, <1>1
<1>5. r.entries = e
  BY DEF Resize, Layouts
<1>6. /\ r.size = s.size + d
      /\ r.index_offset = Shift(s.index_offset, p, d)
      /\ r.index_length = s.index_length
      /\ r.variables_offset = Shift(s.variables_offset, p, d)
      /\ r.trailer_len = s.trailer_len
      /\ r.variable_bytes = s.variable_bytes
      /\ r.freelist_offset = Shift(s.freelist_offset, p, d)
      /\ r.block_count = s.block_count
  BY DEF Resize, Layouts
<1>7. r \in Layouts
  <2>1. /\ s.size + d \in Nat
        /\ Shift(s.index_offset, p, d) \in Nat
        /\ Shift(s.variables_offset, p, d) \in Nat
        /\ Shift(s.freelist_offset, p, d) \in Nat
    BY <1>0, <1>2
  <2> HIDE DEF e
  <2>2. r = [s EXCEPT !.size             = s.size + d,
                      !.index_offset     = Shift(s.index_offset, p, d),
                      !.variables_offset = Shift(s.variables_offset, p, d),
                      !.freelist_offset  = Shift(s.freelist_offset, p, d),
                      !.entries          = e]
    BY DEF Resize, e
  <2> HIDE DEF r
  <2> QED
    BY <2>1, <2>2, <1>4 DEF Layouts
<1> QED
  BY <1>4, <1>5, <1>6, <1>7

(* The types of the fields, cited instead of the definition. *)
LEMMA LayoutFields ==
  ASSUME NEW s \in Layouts
  PROVE  /\ s.size \in Nat /\ s.index_offset \in Nat /\ s.index_length \in Nat
         /\ s.variables_offset \in Nat /\ s.trailer_len \in Nat
         /\ s.variable_bytes \in Nat /\ s.freelist_offset \in Nat /\ s.block_count \in Nat
         /\ s.entries \in Seq(Entries) /\ Len(s.entries) \in Nat
         /\ DOMAIN s.entries = 1..Len(s.entries)
         /\ \A i \in DOMAIN s.entries : /\ s.entries[i] \in Entries
                                        /\ s.entries[i].address \in Nat
                                        /\ s.entries[i].length \in Nat
<1>1. s.entries \in Seq(Entries)
  BY DEF Layouts
<1>2. Len(s.entries) \in Nat /\ DOMAIN s.entries = 1..Len(s.entries)
  BY <1>1
<1>3. \A i \in DOMAIN s.entries : s.entries[i] \in Entries
  BY <1>1
<1>4. \A e \in Entries : e.address \in Nat /\ e.length \in Nat
  BY DEF Entries
<1>5. /\ s.size \in Nat /\ s.index_offset \in Nat /\ s.index_length \in Nat
      /\ s.variables_offset \in Nat /\ s.trailer_len \in Nat
      /\ s.variable_bytes \in Nat /\ s.freelist_offset \in Nat /\ s.block_count \in Nat
  BY DEF Layouts
<1> QED
  BY <1>1, <1>2, <1>3, <1>4, <1>5

(* An insertion that splits no block keeps the blocks apart. *)
LEMMA ResizeBlocks ==
  ASSUME NEW s \in Layouts, NEW p \in Nat, NEW d \in Nat,
         HeaderSize <= p, BlocksDisjoint(s),
         \A i \in DOMAIN s.entries : IsBlock(s.entries[i]) =>
           BlockEnd(s.entries[i]) <= p \/ p <= s.entries[i].address
  PROVE  /\ \A i \in DOMAIN s.entries :
              /\ IsBlock(Resize(s, p, d).entries[i]) <=> IsBlock(s.entries[i])
              /\ ~IsBlock(s.entries[i]) => Resize(s, p, d).entries[i] = Vacant
         /\ \A i, j \in DOMAIN s.entries :
              i # j /\ IsBlock(s.entries[i]) /\ IsBlock(s.entries[j]) =>
                Apart(Resize(s, p, d).entries[i].address, BlockEnd(Resize(s, p, d).entries[i]),
                      Resize(s, p, d).entries[j].address, BlockEnd(Resize(s, p, d).entries[j]))
<1> DEFINE e == s.entries
           r == Resize(s, p, d).entries
<1>1. \A i \in DOMAIN e : /\ e[i] \in Entries /\ r[i] \in Entries
                          /\ r[i].address = Shift(e[i].address, p, d)
                          /\ r[i].length = e[i].length
  <2>1. /\ Resize(s, p, d) \in Layouts
        /\ DOMAIN Resize(s, p, d).entries = DOMAIN s.entries
        /\ \A i \in DOMAIN s.entries :
             /\ Resize(s, p, d).entries[i].address = Shift(s.entries[i].address, p, d)
             /\ Resize(s, p, d).entries[i].length = s.entries[i].length
    BY ResizeFields
  <2>2. \A q \in Layouts : \A i \in DOMAIN q.entries : q.entries[i] \in Entries
    BY LayoutFields
  <2> QED
    BY <2>1, <2>2
<1> HIDE DEF r
<1>2. ASSUME NEW i \in DOMAIN e
      PROVE  /\ IsBlock(r[i]) <=> IsBlock(e[i])
             /\ ~IsBlock(e[i]) => r[i] = Vacant
  <2>1. /\ e[i].address \in Nat /\ e[i].length \in Nat
        /\ e[i] = [address |-> e[i].address, length |-> e[i].length]
        /\ r[i] = [address |-> r[i].address, length |-> r[i].length]
    BY <1>1 DEF Entries
  <2>2. CASE IsBlock(e[i])
    <3>1. HeaderSize <= e[i].address
      BY <2>2 DEF BlocksDisjoint, BlockPlaced
    <3>2. r[i].address # 0
      BY <3>1, <2>1, <1>1 DEF Shift, HeaderSize
    <3> QED
      BY <2>2, <3>2 DEF IsBlock, Vacant
  <2>3. CASE ~IsBlock(e[i])
    <3>1. e[i].address = 0 /\ e[i].length = 0
      BY <2>3 DEF IsBlock, Vacant
    <3>2. r[i].address = 0 /\ r[i].length = 0
      BY <3>1, <1>1 DEF Shift, HeaderSize
    <3> QED
      BY <2>1, <2>3, <3>2 DEF IsBlock, Vacant
  <2> QED
    BY <2>2, <2>3
<1>3. ASSUME NEW i \in DOMAIN e, NEW j \in DOMAIN e, i # j, IsBlock(e[i]), IsBlock(e[j])
      PROVE  Apart(r[i].address, BlockEnd(r[i]), r[j].address, BlockEnd(r[j]))
  <2>1. Apart(e[i].address, BlockEnd(e[i]), e[j].address, BlockEnd(e[j]))
    BY <1>3 DEF BlocksDisjoint
  <2>2. /\ BlockEnd(e[i]) <= p \/ p <= e[i].address
        /\ BlockEnd(e[j]) <= p \/ p <= e[j].address
    BY <1>3
  <2>3. /\ e[i].address \in Nat /\ e[i].length \in Nat
        /\ e[j].address \in Nat /\ e[j].length \in Nat
    BY <1>1 DEF Entries
  <2>4. /\ r[i].address = Shift(e[i].address, p, d) /\ r[i].length = e[i].length
        /\ r[j].address = Shift(e[j].address, p, d) /\ r[j].length = e[j].length
    BY <1>1
  <2> HIDE DEF e
  <2> QED
    BY <2>1, <2>2, <2>3, <2>4 DEF Apart, BlockEnd, Shift
<1> QED
  BY <1>2, <1>3 DEF r

(* Room inside the index: the entries stop where they did, and all that    *)
(* follows them in the file moves up.                                      *)
LEMMA ReserveSound ==
  ASSUME NEW s, SoundLayout(s), NEW n \in Nat
  PROVE  /\ SoundLayout(IndexReserve(s, n))
         /\ IndexReserve(s, n).entries \in Seq(Entries)
         /\ Len(IndexReserve(s, n).entries) = Len(s.entries)
         /\ IndexPoint(IndexReserve(s, n)) + EntrySize * n
              <= IndexReserve(s, n).freelist_offset
<1> DEFINE p == IndexPoint(s)
           d == EntrySize * n
           r == Resize(s, p, d)
           t == IndexReserve(s, n)
<1>1. s \in Layouts
  BY DEF SoundLayout
<1>2. /\ s.index_offset < p /\ p \in Nat /\ d \in Nat /\ HeaderSize <= p
      /\ p <= s.freelist_offset /\ s.freelist_offset < IndexEnd(s)
  <2>1. /\ HeaderSize <= s.index_offset
        /\ s.index_offset + CountSize + EntrySize * Len(s.entries) <= s.freelist_offset
        /\ s.freelist_offset + FreelistSize = IndexEnd(s)
    BY DEF SoundLayout, SectionsDisjoint, FreelistClear, FreelistLast, IndexPoint
  <2>2. /\ s.index_offset \in Nat /\ s.freelist_offset \in Nat /\ Len(s.entries) \in Nat
        /\ s.index_length \in Nat
    BY <1>1, LayoutFields
  <2>3. \A a, l \in Nat : /\ a < a + CountSize + EntrySize * l
                         /\ a + CountSize + EntrySize * l \in Nat
                         /\ EntrySize * l \in Nat
    BY DEF CountSize, EntrySize
  <2>4. s.index_offset < p /\ p \in Nat /\ d \in Nat
    BY <2>2, <2>3 DEF IndexPoint
  <2>5. s.freelist_offset < IndexEnd(s)
    BY <2>1, <2>2 DEF IndexEnd, FreelistSize
  <2>6. HeaderSize <= p
    BY <2>1, <2>2, <2>4 DEF HeaderSize
  <2> QED
    BY <2>1, <2>4, <2>5, <2>6 DEF IndexPoint
<1>3. r \in Layouts
  BY <1>1, <1>2, ResizeFields
<1>4. /\ t.size = s.size + d
      /\ t.index_offset = s.index_offset
      /\ t.index_length = s.index_length + d
      /\ t.variables_offset = Shift(s.variables_offset, p, d)
      /\ t.trailer_len = s.trailer_len
      /\ t.variable_bytes = s.variable_bytes
      /\ t.freelist_offset = s.freelist_offset + d
      /\ t.entries = r.entries
  <2>1. t = [r EXCEPT !.index_length = s.index_length + d]
    BY DEF IndexReserve, ReservePoint
  <2>2. /\ t.size = r.size /\ t.index_offset = r.index_offset
        /\ t.index_length = s.index_length + d
        /\ t.variables_offset = r.variables_offset /\ t.trailer_len = r.trailer_len
        /\ t.variable_bytes = r.variable_bytes /\ t.freelist_offset = r.freelist_offset
        /\ t.entries = r.entries
    <3> HIDE DEF r, t
    <3> QED
      BY <1>3, <2>1 DEF Layouts
  <2>3. Shift(s.index_offset, p, d) = s.index_offset
    BY <1>1, <1>2, LayoutFields DEF Shift
  <2>4. Shift(s.freelist_offset, p, d) = s.freelist_offset + d
    BY <1>2 DEF Shift
  <2> QED
    BY <1>1, <1>2, <2>2, <2>3, <2>4, ResizeFields
<1>5. t \in Layouts
  <2>1. t = [r EXCEPT !.index_length = s.index_length + d]
    BY DEF IndexReserve, ReservePoint
  <2>2. s.index_length + d \in Nat
    BY <1>1, <1>2, LayoutFields
  <2> HIDE DEF r, t
  <2> QED
    BY <1>3, <2>1, <2>2 DEF Layouts
<1>6. /\ DOMAIN t.entries = DOMAIN s.entries
      /\ Len(t.entries) = Len(s.entries)
      /\ \A i \in DOMAIN s.entries :
           /\ t.entries[i].address = Shift(s.entries[i].address, p, d)
           /\ t.entries[i].length = s.entries[i].length
  BY <1>1, <1>2, <1>4, ResizeFields
<1>7. /\ \A i \in DOMAIN s.entries :
           IsBlock(t.entries[i]) <=> IsBlock(s.entries[i])
      /\ \A i, j \in DOMAIN s.entries :
           i # j /\ IsBlock(s.entries[i]) /\ IsBlock(s.entries[j]) =>
             Apart(t.entries[i].address, BlockEnd(t.entries[i]),
                   t.entries[j].address, BlockEnd(t.entries[j]))
  <2>1. ASSUME NEW i \in DOMAIN s.entries, IsBlock(s.entries[i])
        PROVE  BlockEnd(s.entries[i]) <= p \/ p <= s.entries[i].address
    <3>1. Apart(s.entries[i].address, BlockEnd(s.entries[i]), s.index_offset, IndexEnd(s))
      BY <2>1 DEF SoundLayout, BlocksDisjoint, BlockPlaced
    <3>2. /\ s.entries[i].address \in Nat /\ s.entries[i].length \in Nat
          /\ s.index_offset \in Nat /\ s.index_length \in Nat /\ s.freelist_offset \in Nat
      BY <1>1, LayoutFields
    <3> HIDE DEF p
    <3>3. p <= IndexEnd(s)
      BY <1>2, <3>2 DEF IndexEnd
    <3> QED
      BY <1>2, <3>1, <3>2, <3>3 DEF Apart, BlockEnd, IndexEnd
  <2>2. BlocksDisjoint(s)
    BY DEF SoundLayout
  <2> HIDE DEF p, d
  <2> QED
    BY <1>1, <1>2, <1>4, <2>1, <2>2, ResizeBlocks
<1>a. /\ s.size \in Nat /\ s.index_offset \in Nat /\ s.index_length \in Nat
      /\ s.variables_offset \in Nat /\ s.trailer_len \in Nat
      /\ s.variable_bytes \in Nat /\ s.freelist_offset \in Nat
  BY <1>1, LayoutFields
<1>b. IndexPoint(s) = p /\ IndexPoint(t) = p
  BY <1>4, <1>6 DEF IndexPoint
<1>c. d % EntrySize = 0
  BY DEF EntrySize
<1> HIDE DEF t, r, p, d
<1>8. SectionsDisjoint(t)
  <2>1. SectionsDisjoint(s)
    BY DEF SoundLayout
  <2> QED
    BY <1>2, <1>4, <1>a, <2>1
       DEF SectionsDisjoint, IndexEnd, VariablesEnd, Apart, Shift, HeaderSize, CountSize
<1>9. ASSUME NEW i \in DOMAIN s.entries, IsBlock(s.entries[i])
      PROVE  BlockPlaced(t, t.entries[i])
  <2>1. BlockPlaced(s, s.entries[i]) /\ SectionsDisjoint(s)
    BY <1>9 DEF SoundLayout, BlocksDisjoint
  <2>2. /\ s.entries[i].address \in Nat /\ s.entries[i].length \in Nat
    BY <1>1, LayoutFields
  <2> DEFINE a == s.entries[i].address
             b == t.entries[i].address
             l == s.entries[i].length
  <2>3. b = Shift(a, p, d) /\ t.entries[i].length = l
    BY <1>6
  <2>4. /\ HeaderSize <= a /\ a + l <= s.size
        /\ a + l <= s.index_offset \/ s.index_offset + s.index_length <= a
        /\ a + l <= s.variables_offset \/ s.variables_offset + s.trailer_len <= a
    BY <2>1 DEF BlockPlaced, BlockEnd, IndexEnd, VariablesEnd, Apart
  <2>5. \/ s.index_offset + s.index_length <= s.variables_offset
        \/ s.variables_offset + s.trailer_len <= s.index_offset
    BY <2>1 DEF SectionsDisjoint, IndexEnd, VariablesEnd, Apart
  <2> HIDE DEF a, b, l
  <2>6. /\ HeaderSize <= b /\ b + l <= t.size
        /\ b + l <= t.index_offset \/ t.index_offset + t.index_length <= b
        /\ b + l <= t.variables_offset \/ t.variables_offset + t.trailer_len <= b
    BY <1>2, <1>4, <1>a, <2>2, <2>3, <2>4, <2>5 DEF Shift, HeaderSize, IndexEnd, a, l
  <2> QED
    BY <2>3, <2>6 DEF BlockPlaced, BlockEnd, IndexEnd, VariablesEnd, Apart, b, l
<1>10. BlocksDisjoint(t)
  BY <1>6, <1>7, <1>9 DEF BlocksDisjoint
<1>11. FreelistClear(t) /\ FreelistLast(t) /\ IndexPoint(t) + d <= t.freelist_offset
  BY <1>2, <1>4, <1>a, <1>b
     DEF SoundLayout, FreelistClear, FreelistLast, IndexEnd, FreelistSize
<1>12. IndexInWholeEntries(t)
  BY <1>2, <1>4, <1>a, <1>c DEF SoundLayout, IndexInWholeEntries, EntrySize
<1>13. Fresh(s) => Fresh(t)
  <2> SUFFICES ASSUME Fresh(s) PROVE Fresh(t)
    OBVIOUS
  <2>1. t.index_offset = HeaderSize /\ t.variables_offset = IndexEnd(t)
    BY <1>2, <1>4, <1>a DEF Fresh, IndexEnd, Shift
  <2>2. ASSUME NEW i \in DOMAIN s.entries, IsBlock(s.entries[i])
        PROVE  VariablesEnd(t) <= t.entries[i].address
    <3>1. VariablesEnd(s) <= s.entries[i].address /\ s.entries[i].address \in Nat
      BY <1>1, <2>2, LayoutFields DEF Fresh
    <3>2. t.entries[i].address = Shift(s.entries[i].address, p, d)
      BY <1>6
    <3> QED
      BY <1>2, <1>4, <1>a, <3>1, <3>2 DEF Fresh, VariablesEnd, IndexEnd, Shift
  <2> QED
    BY <1>6, <1>7, <2>1, <2>2 DEF Fresh
<1>14. Moved(s) => Moved(t)
  <2> SUFFICES ASSUME Moved(s) PROVE Moved(t)
    OBVIOUS
  <2>1. VariablesEnd(t) <= t.index_offset
    BY <1>2, <1>4, <1>a DEF Moved, VariablesEnd, Shift
  <2>2. ASSUME NEW i \in DOMAIN s.entries, IsBlock(s.entries[i])
        PROVE  BlockEnd(t.entries[i]) <= t.variables_offset \/ IndexEnd(t) <= t.entries[i].address
    <3>1. /\ BlockEnd(s.entries[i]) <= s.variables_offset \/ IndexEnd(s) <= s.entries[i].address
          /\ s.entries[i].address \in Nat /\ s.entries[i].length \in Nat
      BY <1>1, <2>2, LayoutFields DEF Moved
    <3>2. /\ t.entries[i].address = Shift(s.entries[i].address, p, d)
          /\ t.entries[i].length = s.entries[i].length
      BY <1>6
    <3> QED
      BY <1>2, <1>4, <1>a, <3>1, <3>2 DEF Moved, VariablesEnd, BlockEnd, IndexEnd, Shift
  <2> QED
    BY <1>6, <1>7, <2>1, <2>2 DEF Moved
<1> QED
  BY <1>4, <1>5, <1>6, <1>8, <1>10, <1>11, <1>12, <1>13, <1>14, LayoutFields DEF SoundLayout, t, d

(* After the growth test there is room for one more entry before the free  *)
(* list: the four bytes the test leaves out never matter, because the      *)
(* index section is a whole number of entries long.                        *)
LEMMA RoomForOne ==
  ASSUME NEW s, SoundLayout(s), NEW n \in Nat, ~IndexFull(s, n)
  PROVE  IndexPoint(s) + EntrySize * n <= s.freelist_offset
<1>1. /\ s.index_offset \in Nat /\ s.index_length \in Nat /\ s.freelist_offset \in Nat
      /\ Len(s.entries) \in Nat /\ n \in Nat
  BY LayoutFields DEF SoundLayout
<1>2. /\ s.index_length % 8 = 0
      /\ 4 + 8 * (Len(s.entries) + n) <= s.index_length - 16
  BY <1>1 DEF SoundLayout, IndexInWholeEntries, IndexFull, CountSize, EntrySize
<1>3. 4 + 8 * (Len(s.entries) + n) <= s.index_length - 20
  <2>1. \A l \in Nat : l % 8 = 0 => \E q \in Nat : l = 8 * q
    OBVIOUS
  <2>2. \A k, q \in Nat : 4 + 8 * k <= 8 * q - 16 => 4 + 8 * k <= 8 * q - 20
    OBVIOUS
  <2>3. Len(s.entries) + n \in Nat
    BY <1>1
  <2> QED
    BY <1>1, <1>2, <2>1, <2>2, <2>3
<1>4. s.freelist_offset + 20 = s.index_offset + s.index_length
  BY DEF SoundLayout, FreelistLast, IndexEnd, FreelistSize
<1>5. \A a, b, c, f, l \in Nat :
        4 + 8 * (a + b) <= l - 20 /\ f + 20 = c + l => c + 4 + 8 * a + 8 * b <= f
  OBVIOUS
<1>6. s.index_offset + 4 + 8 * Len(s.entries) + 8 * n <= s.freelist_offset
  BY <1>1, <1>3, <1>4, <1>5
<1> QED
  BY <1>6 DEF IndexPoint, CountSize, EntrySize

(* Resize of bom_index_add when the index has no room for an entry. *)
LEMMA GrowForAddSound ==
  ASSUME NEW s, SoundLayout(s)
  PROVE  /\ SoundLayout(GrowForAdd(s))
         /\ Len(GrowForAdd(s).entries) = Len(s.entries)
         /\ IndexPoint(GrowForAdd(s)) + EntrySize <= GrowForAdd(s).freelist_offset
<1>1. CASE IndexFull(s, 1)
  <2>1. EntrySize * 1 = EntrySize
    BY DEF EntrySize
  <2>2. GrowForAdd(s) = IndexReserve(s, 1)
    BY <1>1, <2>1 DEF GrowForAdd, IndexReserve, ReservePoint
  <2> QED
    BY <2>1, <2>2, ReserveSound
<1>2. CASE ~IndexFull(s, 1)
  <2>1. GrowForAdd(s) = s
    BY <1>2 DEF GrowForAdd
  <2>2. IndexPoint(s) + EntrySize * 1 <= s.freelist_offset /\ EntrySize * 1 = EntrySize
    BY <1>2, RoomForOne DEF EntrySize
  <2> QED
    BY <2>1, <2>2
<1> QED
  BY <1>1, <1>2

(* A new block at the end of the file, into an index with room for it. *)
LEMMA AddSound ==
  ASSUME NEW s, SoundLayout(s), NEW len \in Nat
  PROVE  SoundLayout(IndexAdd(s, len))
<1> DEFINE g == GrowForAdd(s)
           p == g.size
           r == Resize(g, p, len)
           new == [address |-> p, length |-> len]
           n == Len(g.entries)
           t == IndexAdd(s, len)
<1>1. /\ SoundLayout(g) /\ n = Len(s.entries)
      /\ IndexPoint(g) + EntrySize <= g.freelist_offset
  BY GrowForAddSound
<1> HIDE DEF g
<1>2. g \in Layouts
  BY <1>1 DEF SoundLayout
<1>3. /\ g.size \in Nat /\ g.index_offset \in Nat /\ g.index_length \in Nat
      /\ g.variables_offset \in Nat /\ g.trailer_len \in Nat
      /\ g.variable_bytes \in Nat /\ g.freelist_offset \in Nat
      /\ n \in Nat
      /\ len \in Nat /\ p \in Nat /\ p = g.size
  BY <1>2, LayoutFields
<1>s. DOMAIN g.entries = 1..n /\ g.entries \in Seq(Entries)
  BY <1>2, LayoutFields
<1>4. /\ g.index_offset < p /\ g.variables_offset < p /\ g.freelist_offset < p
      /\ HeaderSize <= p /\ IndexEnd(g) <= p /\ VariablesEnd(g) <= p
  <2>1. SectionsDisjoint(g) /\ FreelistLast(g)
    BY <1>1 DEF SoundLayout
  <2>2. g.index_offset < g.freelist_offset
    BY <1>1, <1>3 DEF IndexPoint, CountSize, EntrySize
  <2>3. /\ HeaderSize <= g.index_offset /\ g.index_offset + g.index_length <= p
        /\ g.variables_offset + g.trailer_len <= p
        /\ 4 + g.variable_bytes <= g.trailer_len
        /\ g.freelist_offset + 20 = g.index_offset + g.index_length
    BY <2>1 DEF SectionsDisjoint, FreelistLast, IndexEnd, VariablesEnd, CountSize, FreelistSize
  <2> HIDE DEF n, p
  <2>4. g.freelist_offset < p /\ g.index_offset < p
    BY <1>3, <2>2, <2>3
  <2>5. g.variables_offset < p
    BY <1>3, <2>3
  <2> QED
    BY <1>3, <2>3, <2>4, <2>5 DEF IndexEnd, VariablesEnd, HeaderSize
<1>5. /\ r \in Layouts /\ r.entries \in Seq(Entries) /\ Len(r.entries) = n
      /\ DOMAIN r.entries = 1..n
  BY <1>2, <1>3, <1>s, ResizeFields, LayoutFields
<1>6. /\ t.size = p + len /\ t.index_offset = g.index_offset
      /\ t.index_length = g.index_length /\ t.variables_offset = g.variables_offset
      /\ t.trailer_len = g.trailer_len /\ t.variable_bytes = g.variable_bytes
      /\ t.freelist_offset = g.freelist_offset
      /\ t.entries = Append(r.entries, new)
      /\ t \in Layouts
  <2>1. t = [r EXCEPT !.entries = Append(r.entries, new), !.block_count = n + 1]
    BY <1>1 DEF IndexAdd, g
  <2>2. new \in Entries
    BY <1>3 DEF Entries
  <2>3. Append(r.entries, new) \in Seq(Entries) /\ n + 1 \in Nat
    BY <1>3, <1>5, <2>2
  <2>4. /\ Shift(g.index_offset, p, len) = g.index_offset
        /\ Shift(g.variables_offset, p, len) = g.variables_offset
        /\ Shift(g.freelist_offset, p, len) = g.freelist_offset
    BY <1>3, <1>4 DEF Shift
  <2>5. /\ r.size = p + len /\ r.index_offset = g.index_offset
        /\ r.index_length = g.index_length /\ r.variables_offset = g.variables_offset
        /\ r.trailer_len = g.trailer_len /\ r.variable_bytes = g.variable_bytes
        /\ r.freelist_offset = g.freelist_offset
    BY <1>2, <1>3, <2>4, ResizeFields
  <2> HIDE DEF r, t, new, n
  <2> QED
    BY <1>5, <2>1, <2>3, <2>5 DEF Layouts
<1>7. /\ Len(t.entries) = n + 1 /\ DOMAIN t.entries = 1..(n + 1)
      /\ t.entries[n + 1] = new
      /\ \A i \in 1..n : t.entries[i] = r.entries[i]
  BY <1>5, <1>6
<1>8. /\ \A i \in 1..n : /\ IsBlock(t.entries[i]) <=> IsBlock(g.entries[i])
                         /\ t.entries[i].address = Shift(g.entries[i].address, p, len)
                         /\ t.entries[i].length = g.entries[i].length
                         /\ g.entries[i].address \in Nat /\ g.entries[i].length \in Nat
      /\ \A i, j \in 1..n :
           i # j /\ IsBlock(g.entries[i]) /\ IsBlock(g.entries[j]) =>
             Apart(t.entries[i].address, BlockEnd(t.entries[i]),
                   t.entries[j].address, BlockEnd(t.entries[j]))
  <2>1. \A i \in DOMAIN g.entries : IsBlock(g.entries[i]) =>
          BlockEnd(g.entries[i]) <= p \/ p <= g.entries[i].address
    BY <1>1 DEF SoundLayout, BlocksDisjoint, BlockPlaced
  <2>2. BlocksDisjoint(g)
    BY <1>1 DEF SoundLayout
  <2>3. \A i \in 1..n : /\ r.entries[i].address = Shift(g.entries[i].address, p, len)
                         /\ r.entries[i].length = g.entries[i].length
                         /\ g.entries[i].address \in Nat /\ g.entries[i].length \in Nat
    <3> HIDE DEF n, p, t, new
    <3>1. \A i \in DOMAIN g.entries : /\ r.entries[i].address = Shift(g.entries[i].address, p, len)
                                       /\ r.entries[i].length = g.entries[i].length
      BY <1>2, <1>3, ResizeFields
    <3>2. \A i \in DOMAIN g.entries : g.entries[i].address \in Nat /\ g.entries[i].length \in Nat
      BY <1>2, LayoutFields
    <3>3. DOMAIN g.entries = 1..n
      BY <1>s
    <3> HIDE DEF n, r, p
    <3>4. \A i \in 1..n : i \in DOMAIN g.entries
      BY <3>3
    <3> QED
      BY <3>1, <3>2, <3>4, Zenon
  <2>4. /\ \A i \in 1..n : IsBlock(r.entries[i]) <=> IsBlock(g.entries[i])
        /\ \A i, j \in 1..n :
             i # j /\ IsBlock(g.entries[i]) /\ IsBlock(g.entries[j]) =>
               Apart(r.entries[i].address, BlockEnd(r.entries[i]),
                     r.entries[j].address, BlockEnd(r.entries[j]))
    <3> HIDE DEF n
    <3> QED
      BY <1>2, <1>3, <1>4, <1>s, <2>1, <2>2, ResizeBlocks
  <2> HIDE DEF t, r, n
  <2> QED
    BY <1>7, <2>3, <2>4
<1>9. new.address = p /\ new.length = len
  OBVIOUS
<1> HIDE DEF t, r, n, new, p
<1>10. SectionsDisjoint(t)
  <2>1. SectionsDisjoint(g)
    BY <1>1 DEF SoundLayout
  <2>2. IndexEnd(t) = IndexEnd(g) /\ VariablesEnd(t) = VariablesEnd(g)
    BY <1>6 DEF IndexEnd, VariablesEnd
  <2>3. IndexEnd(t) <= t.size /\ VariablesEnd(t) <= t.size
    <3>1. IndexEnd(g) \in Nat /\ VariablesEnd(g) \in Nat
      BY <1>3 DEF IndexEnd, VariablesEnd
    <3> QED
      BY <1>3, <1>4, <1>6, <2>2, <3>1
  <2> QED
    BY <1>6, <2>1, <2>2, <2>3 DEF SectionsDisjoint
(* A block that was there: it ends by the old end of the file, or is empty *)
(* there and moves to the new end.                                         *)
<1>11. ASSUME NEW i \in 1..n, IsBlock(t.entries[i])
       PROVE  /\ BlockPlaced(t, t.entries[i])
              /\ Apart(t.entries[i].address, BlockEnd(t.entries[i]), p, p + len)
  <2> DEFINE a == g.entries[i].address
             b == t.entries[i].address
             l == g.entries[i].length
  <2>1. BlockPlaced(g, g.entries[i])
    BY <1>1, <1>s, <1>8, <1>11 DEF SoundLayout, BlocksDisjoint
  <2>2. b = Shift(a, p, len) /\ t.entries[i].length = l /\ a \in Nat /\ l \in Nat
    BY <1>8
  <2>3. /\ HeaderSize <= a /\ a + l <= p
        /\ a + l <= g.index_offset \/ g.index_offset + g.index_length <= a
        /\ a + l <= g.variables_offset \/ g.variables_offset + g.trailer_len <= a
    BY <2>1, <1>3 DEF BlockPlaced, BlockEnd, IndexEnd, VariablesEnd, Apart
  <2> HIDE DEF a, b, l
  <2>4. /\ HeaderSize <= b /\ b + l <= p + len
        /\ b + l <= g.index_offset \/ g.index_offset + g.index_length <= b
        /\ b + l <= g.variables_offset \/ g.variables_offset + g.trailer_len <= b
        /\ b + l <= p \/ p + len <= b
    <3>1. \A u, v, x, m \in Nat :
            /\ u + v <= p
            /\ u + v <= x \/ x + m <= u
            /\ x < p
            => Shift(u, p, len) + v <= x \/ x + m <= Shift(u, p, len)
      BY <1>3 DEF Shift
    <3>2. \A u, v \in Nat : /\ u + v <= p
                            /\ HeaderSize <= u
                            => /\ HeaderSize <= Shift(u, p, len)
                               /\ Shift(u, p, len) + v <= p + len
                               /\ Shift(u, p, len) + v <= p \/ p + len <= Shift(u, p, len)
      BY <1>3 DEF Shift, HeaderSize
    <3>3. /\ a \in Nat /\ l \in Nat /\ b = Shift(a, p, len)
          /\ g.index_offset \in Nat /\ g.index_length \in Nat /\ g.index_offset < p
          /\ g.variables_offset \in Nat /\ g.trailer_len \in Nat /\ g.variables_offset < p
      BY <1>3, <1>4, <2>2
    <3> QED
      BY <2>3, <3>1, <3>2, <3>3
  <2> QED
    BY <1>6, <2>2, <2>4 DEF BlockPlaced, BlockEnd, IndexEnd, VariablesEnd, Apart, b, l
<1>12. BlockPlaced(t, new) /\ BlockEnd(new) = p + len
  BY <1>3, <1>4, <1>6, <1>9 DEF BlockPlaced, BlockEnd, IndexEnd, VariablesEnd, Apart
<1>13. BlocksDisjoint(t)
  <2> SUFFICES ASSUME NEW i \in 1..(n + 1), IsBlock(t.entries[i])
               PROVE  /\ BlockPlaced(t, t.entries[i])
                      /\ \A j \in 1..(n + 1) : i # j /\ IsBlock(t.entries[j]) =>
                           Apart(t.entries[i].address, BlockEnd(t.entries[i]),
                                 t.entries[j].address, BlockEnd(t.entries[j]))
    BY <1>7 DEF BlocksDisjoint
  <2>1. CASE i = n + 1
    BY <1>3, <1>7, <1>9, <1>11, <1>12, <2>1 DEF Apart
  <2>2. CASE i # n + 1
    <3>1. i \in 1..n
      BY <1>3, <2>2
    <3>2. \A j \in 1..(n + 1) : j \in 1..n \/ j = n + 1
      BY <1>3
    <3> QED
      BY <1>7, <1>8, <1>9, <1>11, <1>12, <3>1, <3>2
  <2> QED
    BY <2>1, <2>2
<1>14. FreelistClear(t) /\ FreelistLast(t) /\ IndexInWholeEntries(t)
  <2>1. IndexPoint(t) = IndexPoint(g) + EntrySize
    BY <1>3, <1>6, <1>7 DEF IndexPoint, CountSize, EntrySize, n
  <2> QED
    BY <1>1, <1>6, <2>1 DEF SoundLayout, FreelistClear, FreelistLast, IndexInWholeEntries, IndexEnd
<1>15. Fresh(t) \/ Moved(t)
  <2>1. CASE Fresh(g)
    <3>1. ASSUME NEW i \in 1..(n + 1), IsBlock(t.entries[i])
          PROVE  VariablesEnd(t) <= t.entries[i].address
      <4>1. CASE i = n + 1
        BY <1>4, <1>6, <1>7, <1>9, <4>1 DEF VariablesEnd
      <4>2. CASE i \in 1..n
        <5>1. VariablesEnd(g) <= g.entries[i].address
          BY <1>s, <1>8, <2>1, <3>1, <4>2 DEF Fresh
        <5>2. t.entries[i].address = Shift(g.entries[i].address, p, len)
              /\ g.entries[i].address \in Nat
          BY <1>8, <4>2
        <5>3. VariablesEnd(t) = VariablesEnd(g) /\ VariablesEnd(g) \in Nat
          BY <1>3, <1>6 DEF VariablesEnd
        <5>4. \A u, v \in Nat : u <= v => u <= Shift(v, p, len)
          BY <1>3 DEF Shift
        <5> QED
          BY <5>1, <5>2, <5>3, <5>4
      <4> QED
        BY <1>3, <4>1, <4>2
    <3> QED
      BY <1>6, <1>7, <2>1, <3>1 DEF Fresh, IndexEnd
  <2>2. CASE Moved(g)
    <3>1. ASSUME NEW i \in 1..(n + 1), IsBlock(t.entries[i])
          PROVE  BlockEnd(t.entries[i]) <= t.variables_offset \/ IndexEnd(t) <= t.entries[i].address
      <4>1. CASE i = n + 1
        BY <1>4, <1>6, <1>7, <1>9, <4>1 DEF IndexEnd
      <4>2. CASE i \in 1..n
        <5>1. BlockEnd(g.entries[i]) <= g.variables_offset \/ IndexEnd(g) <= g.entries[i].address
          BY <1>s, <1>8, <2>2, <3>1, <4>2 DEF Moved
        <5>2. /\ t.entries[i].address = Shift(g.entries[i].address, p, len)
              /\ t.entries[i].length = g.entries[i].length
              /\ g.entries[i].address \in Nat /\ g.entries[i].length \in Nat
          BY <1>8, <4>2
        <5>3. /\ IndexEnd(t) = IndexEnd(g) /\ IndexEnd(g) \in Nat
              /\ t.variables_offset = g.variables_offset /\ g.variables_offset \in Nat
              /\ g.variables_offset < p
          BY <1>3, <1>4, <1>6 DEF IndexEnd
        <5>4. \A u, v, x, m \in Nat :
                (u + v <= x \/ m <= u) /\ x < p => Shift(u, p, len) + v <= x \/ m <= Shift(u, p, len)
          BY <1>3 DEF Shift
        <5> QED
          BY <5>1, <5>2, <5>3, <5>4 DEF BlockEnd
      <4> QED
        BY <1>3, <4>1, <4>2
    <3> QED
      BY <1>6, <1>7, <2>2, <3>1 DEF Moved, VariablesEnd
  <2> QED
    BY <1>1, <2>1, <2>2 DEF SoundLayout
<1> QED
  BY <1>6, <1>10, <1>13, <1>14, <1>15 DEF SoundLayout, t

(* One or more vacant entries, when the index grows for no more than one.  *)
LEMMA FreeSound ==
  ASSUME NEW s, SoundLayout(s), NEW n \in Nat, n = 1 \/ ~IndexFull(s, n)
  PROVE  SoundLayout(FreeIndicesAdd(s, n))
<1> DEFINE g == GrowForFree(s, n)
           v == [i \in 1..n |-> Vacant]
           t == FreeIndicesAdd(s, n)
           m == Len(g.entries)
<1>1. SoundLayout(g) /\ IndexPoint(g) + EntrySize * n <= g.freelist_offset
  <2>1. CASE IndexFull(s, n)
    <3>1. n = 1 /\ EntrySize * 1 = EntrySize
      BY <2>1 DEF EntrySize
    <3>2. g = IndexReserve(s, 1)
      BY <2>1, <3>1 DEF GrowForFree, IndexReserve, ReservePoint
    <3> HIDE DEF g
    <3> QED
      BY <3>1, <3>2, ReserveSound
  <2>2. CASE ~IndexFull(s, n)
    BY <2>2, RoomForOne DEF GrowForFree
  <2> QED
    BY <2>1, <2>2
<1> HIDE DEF g
<1>2. /\ g \in Layouts /\ g.entries \in Seq(Entries) /\ m \in Nat /\ DOMAIN g.entries = 1..m
      /\ g.index_offset \in Nat
  BY <1>1, LayoutFields DEF SoundLayout
<1>3. v \in Seq(Entries) /\ Len(v) = n /\ \A k \in 1..n : v[k] = Vacant
  <2>1. Vacant \in Entries
    BY DEF Vacant, Entries
  <2> QED
    BY <2>1
<1>4. t = [g EXCEPT !.entries = g.entries \o v]
  BY DEF FreeIndicesAdd, g
<1> HIDE DEF v, t
<1>5. /\ g.entries \o v \in Seq(Entries) /\ Len(g.entries \o v) = m + n
      /\ \A k \in 1..m : (g.entries \o v)[k] = g.entries[k]
      /\ \A k \in (m + 1)..(m + n) : (g.entries \o v)[k] = Vacant
  BY <1>2, <1>3
<1>6. /\ t \in Layouts /\ t.entries = g.entries \o v
      /\ t.size = g.size /\ t.index_offset = g.index_offset
      /\ t.index_length = g.index_length /\ t.variables_offset = g.variables_offset
      /\ t.trailer_len = g.trailer_len /\ t.variable_bytes = g.variable_bytes
      /\ t.freelist_offset = g.freelist_offset
  BY <1>2, <1>4, <1>5 DEF Layouts
<1>7. \A k \in DOMAIN t.entries : IsBlock(t.entries[k]) =>
        k \in DOMAIN g.entries /\ t.entries[k] = g.entries[k]
  <2>1. DOMAIN t.entries = 1..(m + n)
    BY <1>2, <1>5, <1>6
  <2>2. \A k \in 1..(m + n) : k \in 1..m \/ k \in (m + 1)..(m + n)
    BY <1>2
  <2> HIDE DEF m
  <2> QED
    BY <1>2, <1>5, <1>6, <2>1, <2>2 DEF IsBlock
<1>8. SectionsDisjoint(t)
  BY <1>1, <1>6 DEF SoundLayout, SectionsDisjoint, IndexEnd, VariablesEnd
<1>9. BlocksDisjoint(t)
  <2>1. BlocksDisjoint(g)
    BY <1>1 DEF SoundLayout
  <2>2. \A b : BlockPlaced(g, b) => BlockPlaced(t, b)
    BY <1>6 DEF BlockPlaced, IndexEnd, VariablesEnd
  <2> QED
    BY <1>7, <2>1, <2>2 DEF BlocksDisjoint
<1>10. FreelistClear(t) /\ FreelistLast(t) /\ IndexInWholeEntries(t)
  <2>1. IndexPoint(t) = IndexPoint(g) + EntrySize * n
    <3>1. \A a, b, c \in Nat : a + 4 + 8 * (b + c) = a + 4 + 8 * b + 8 * c
      OBVIOUS
    <3>2. Len(t.entries) = m + n /\ n \in Nat
      BY <1>5, <1>6
    <3> QED
      BY <1>2, <1>6, <3>1, <3>2 DEF IndexPoint, CountSize, EntrySize
  <2> QED
    BY <1>1, <1>6, <2>1
       DEF SoundLayout, FreelistClear, FreelistLast, IndexInWholeEntries, IndexEnd
<1>11. Fresh(t) \/ Moved(t)
  <2>1. Fresh(g) => Fresh(t)
    BY <1>6, <1>7 DEF Fresh, IndexEnd, VariablesEnd
  <2>2. Moved(g) => Moved(t)
    BY <1>6, <1>7 DEF Moved, IndexEnd, VariablesEnd
  <2> QED
    BY <1>1, <2>1, <2>2 DEF SoundLayout
<1> QED
  BY <1>6, <1>8, <1>9, <1>10, <1>11 DEF SoundLayout, t

(* An insertion at p that splits neither of two runs keeps them apart. *)
LEMMA ShiftBoth ==
  ASSUME NEW p \in Nat, NEW d \in Nat
  PROVE  \A a, l, x, m \in Nat :
           /\ a + l <= x \/ x + m <= a
           /\ a + l <= p \/ p <= a
           /\ x + m <= p \/ p <= x
           => Shift(a, p, d) + l <= Shift(x, p, d) \/ Shift(x, p, d) + m <= Shift(a, p, d)
<1>1. \A a : Shift(a, p, d) = IF a >= p THEN a + d ELSE a
  BY DEF Shift
<1> QED
  BY <1>1

(* An insertion after the first byte of a run, or at its end, lengthens it *)
(* and keeps every other run apart from it.                                *)
LEMMA ShiftHost ==
  ASSUME NEW x \in Nat, NEW m \in Nat, NEW p \in Nat, NEW d \in Nat, x < p, p <= x + m
  PROVE  /\ \A a, l \in Nat :
              a + l <= x \/ x + m <= a =>
                /\ a + l <= p \/ p <= a
                /\ Shift(a, p, d) + l <= x \/ x + (m + d) <= Shift(a, p, d)
         /\ Shift(x, p, d) = x
  BY DEF Shift

(* An insertion moves nothing below p, and keeps what fits the file in it. *)
LEMMA ShiftInside ==
  ASSUME NEW p \in Nat, NEW d \in Nat, NEW z \in Nat
  PROVE  \A a, l \in Nat :
           /\ Shift(a, p, d) \in Nat
           /\ a <= Shift(a, p, d)
           /\ a + l <= z => Shift(a, p, d) + l <= z + d
  BY DEF Shift

(* More bytes for a block that has some: the block stays where it is. *)
LEMMA AppendSound ==
  ASSUME NEW s, SoundLayout(s), NEW i \in DOMAIN s.entries, IsBlock(s.entries[i]),
         s.entries[i].length > 0, NEW len \in Nat
  PROVE  SoundLayout(IndexAppend(s, i, len))
<1> DEFINE x == s.entries[i].address
           m == s.entries[i].length
           p == BlockEnd(s.entries[i])
           r == Resize(s, p, len)
           t == IndexAppend(s, i, len)
<1>1. s \in Layouts /\ SectionsDisjoint(s) /\ BlocksDisjoint(s)
  BY DEF SoundLayout
<1>2. /\ s.size \in Nat /\ s.index_offset \in Nat /\ s.index_length \in Nat
      /\ s.variables_offset \in Nat /\ s.trailer_len \in Nat
      /\ s.variable_bytes \in Nat /\ s.freelist_offset \in Nat
      /\ len \in Nat /\ x \in Nat /\ m \in Nat
  BY <1>1, LayoutFields
<1>3. p \in Nat /\ p = x + m /\ x < p /\ p <= x + m
  BY <1>2 DEF BlockEnd
<1>n. \A k \in DOMAIN s.entries : s.entries[k].address \in Nat /\ s.entries[k].length \in Nat
  BY <1>1, LayoutFields
<1>4. BlockPlaced(s, s.entries[i])
  BY <1>1 DEF BlocksDisjoint
<1>5. /\ HeaderSize <= x /\ x + m <= s.size
      /\ x + m <= s.index_offset \/ s.index_offset + s.index_length <= x
      /\ x + m <= s.variables_offset \/ s.variables_offset + s.trailer_len <= x
  BY <1>4 DEF BlockPlaced, BlockEnd, IndexEnd, VariablesEnd, Apart
<1>6. HeaderSize <= p
  BY <1>2, <1>3, <1>5 DEF HeaderSize
<1>7. \A k \in DOMAIN s.entries : IsBlock(s.entries[k]) /\ k # i =>
        \/ s.entries[k].address + s.entries[k].length <= x
        \/ x + m <= s.entries[k].address
  BY <1>1 DEF BlocksDisjoint, BlockEnd, Apart
<1>8. /\ r \in Layouts /\ DOMAIN r.entries = DOMAIN s.entries
      /\ r.entries \in Seq(Entries) /\ Len(r.entries) = Len(s.entries)
      /\ \A k \in DOMAIN s.entries :
           /\ r.entries[k].address = Shift(s.entries[k].address, p, len)
           /\ r.entries[k].length = s.entries[k].length
           /\ s.entries[k].address \in Nat /\ s.entries[k].length \in Nat
  <2>1. /\ r \in Layouts /\ DOMAIN r.entries = DOMAIN s.entries
        /\ Len(r.entries) = Len(s.entries)
        /\ \A k \in DOMAIN s.entries :
             /\ r.entries[k].address = Shift(s.entries[k].address, p, len)
             /\ r.entries[k].length = s.entries[k].length
    <3>1. p \in Nat /\ len \in Nat
      BY <1>2, <1>3
    <3> HIDE DEF p, x, m
    <3> QED
      BY <1>1, <3>1, ResizeFields
  <2>2. \A k \in DOMAIN s.entries :
          s.entries[k].address \in Nat /\ s.entries[k].length \in Nat
    BY <1>1, LayoutFields
  <2> HIDE DEF r, p, x, m
  <2>3. r.entries \in Seq(Entries)
    BY <2>1, LayoutFields
  <2> QED
    BY <2>1, <2>2, <2>3
<1>9. /\ \A k \in DOMAIN s.entries : IsBlock(r.entries[k]) <=> IsBlock(s.entries[k])
      /\ \A j, k \in DOMAIN s.entries :
           j # k /\ IsBlock(s.entries[j]) /\ IsBlock(s.entries[k]) =>
             Apart(r.entries[j].address, BlockEnd(r.entries[j]),
                   r.entries[k].address, BlockEnd(r.entries[k]))
  <2>1. ASSUME NEW k \in DOMAIN s.entries, IsBlock(s.entries[k])
        PROVE  BlockEnd(s.entries[k]) <= p \/ p <= s.entries[k].address
    <3>1. CASE k = i
      BY <1>3, <3>1
    <3>2. CASE k # i
      <4> DEFINE a == s.entries[k].address
                 l == s.entries[k].length
      <4>1. a + l <= x \/ x + m <= a
        BY <1>7, <2>1, <3>2
      <4>2. a \in Nat /\ l \in Nat
        BY <1>n
      <4> HIDE DEF x, m, p, a, l
      <4>3. a + l <= p \/ p <= a
        BY <1>2, <1>3, <4>1, <4>2
      <4> QED
        BY <4>3 DEF BlockEnd, a, l
    <3> QED
      BY <3>1, <3>2
  <2> HIDE DEF p
  <2> QED
    BY <1>1, <1>2, <1>3, <1>6, <2>1, ResizeBlocks
<1>10. Shift(x, p, len) = x
  <2> HIDE DEF x, m, p
  <2> QED
    BY <1>2, <1>3 DEF Shift
<1>h. \A a, l \in Nat :
        a + l <= x \/ x + m <= a =>
          /\ a + l <= p \/ p <= a
          /\ Shift(a, p, len) + l <= x \/ x + (m + len) <= Shift(a, p, len)
  <2> HIDE DEF x, m, p
  <2> QED
    BY <1>2, <1>3, ShiftHost
<1>i. \A a, l \in Nat : /\ Shift(a, p, len) \in Nat /\ a <= Shift(a, p, len)
                        /\ a + l <= s.size => Shift(a, p, len) + l <= s.size + len
  <2> HIDE DEF x, m, p
  <2> QED
    BY <1>2, <1>3, ShiftInside
<1>b. \A a, l, y, n \in Nat :
        /\ a + l <= y \/ y + n <= a
        /\ a + l <= p \/ p <= a
        /\ y + n <= p \/ p <= y
        => Shift(a, p, len) + l <= Shift(y, p, len) \/ Shift(y, p, len) + n <= Shift(a, p, len)
  <2> HIDE DEF x, m, p
  <2> QED
    BY <1>2, <1>3, ShiftBoth
<1>11. /\ t.size = s.size + len
       /\ t.index_offset = Shift(s.index_offset, p, len)
       /\ t.index_length = s.index_length
       /\ t.variables_offset = Shift(s.variables_offset, p, len)
       /\ t.trailer_len = s.trailer_len
       /\ t.variable_bytes = s.variable_bytes
       /\ t.freelist_offset = Shift(s.freelist_offset, p, len)
       /\ t.entries = [r.entries EXCEPT ![i] = [address |-> x, length |-> m + len]]
       /\ t \in Layouts
  <2> DEFINE new == [address |-> x, length |-> m + len]
             e == [r.entries EXCEPT ![i] = new]
  <2>1. t = [r EXCEPT !.entries = e]
    BY <1>8, <1>10 DEF IndexAppend
  <2>2. new \in Entries
    BY <1>2 DEF Entries
  <2>3. e \in Seq(Entries)
    BY <1>8, <2>2, ExceptSeq
  <2>4. /\ r.size = s.size + len
        /\ r.index_offset = Shift(s.index_offset, p, len)
        /\ r.index_length = s.index_length
        /\ r.variables_offset = Shift(s.variables_offset, p, len)
        /\ r.trailer_len = s.trailer_len
        /\ r.variable_bytes = s.variable_bytes
        /\ r.freelist_offset = Shift(s.freelist_offset, p, len)
    <3> HIDE DEF p, x, m
    <3> QED
      BY <1>1, <1>2, <1>3, ResizeFields
  <2> HIDE DEF t, r, e
  <2>5. t \in Layouts /\ t.entries = e
    BY <1>8, <2>1, <2>3 DEF Layouts
  <2> QED
    BY <1>8, <2>1, <2>4, <2>5 DEF Layouts, e
<1>12. /\ DOMAIN t.entries = DOMAIN s.entries /\ Len(t.entries) = Len(s.entries)
       /\ t.entries[i].address = x /\ t.entries[i].length = m + len
       /\ t.entries[i] = [address |-> x, length |-> m + len]
       /\ \A k \in DOMAIN s.entries : k # i => t.entries[k] = r.entries[k]
  <2>1. r.entries \in Seq(Entries) /\ i \in DOMAIN r.entries
    BY <1>8
  <2> HIDE DEF r, t
  <2> QED
    BY <1>8, <1>11, <2>1
<1>13. \A k \in DOMAIN s.entries : IsBlock(t.entries[k]) <=> IsBlock(s.entries[k])
  <2>1. IsBlock(t.entries[i])
    <3>1. t.entries[i].address # 0
      BY <1>2, <1>5, <1>12 DEF HeaderSize
    <3>2. Vacant.address = 0
      BY DEF Vacant
    <3> HIDE DEF t
    <3> QED
      BY <3>1, <3>2 DEF IsBlock
  <2> HIDE DEF t, r
  <2> QED
    BY <1>9, <1>12, <2>1
<1> HIDE DEF t, r, p, x, m
<1>14. SectionsDisjoint(t)
  <2>1. /\ HeaderSize <= s.index_offset /\ s.index_offset + s.index_length <= s.size
        /\ HeaderSize <= s.variables_offset /\ s.variables_offset + s.trailer_len <= s.size
        /\ \/ s.index_offset + s.index_length <= s.variables_offset
           \/ s.variables_offset + s.trailer_len <= s.index_offset
        /\ CountSize + s.variable_bytes <= s.trailer_len
    BY <1>1 DEF SectionsDisjoint, IndexEnd, VariablesEnd, Apart
  <2>2. /\ s.index_offset + s.index_length <= p \/ p <= s.index_offset
        /\ s.variables_offset + s.trailer_len <= p \/ p <= s.variables_offset
    BY <1>2, <1>5, <1>h
  <2>3. \/ t.index_offset + t.index_length <= t.variables_offset
        \/ t.variables_offset + t.trailer_len <= t.index_offset
    BY <1>2, <1>11, <1>b, <2>1, <2>2
  <2>4. \A a \in Nat : HeaderSize <= a => HeaderSize <= Shift(a, p, len)
    BY <1>2, <1>3 DEF Shift, HeaderSize
  <2>5. /\ t.index_offset + t.index_length <= t.size
        /\ t.variables_offset + t.trailer_len <= t.size
    BY <1>2, <1>11, <1>i, <2>1
  <2> QED
    BY <1>2, <1>11, <2>1, <2>3, <2>4, <2>5 DEF SectionsDisjoint, IndexEnd, VariablesEnd, Apart
<1>15. ASSUME NEW k \in DOMAIN s.entries, IsBlock(s.entries[k])
       PROVE  /\ BlockPlaced(t, t.entries[k])
              /\ k # i => Apart(t.entries[k].address, BlockEnd(t.entries[k]), x, x + (m + len))
  <2>1. CASE k = i
    <3>1. /\ x + (m + len) <= t.index_offset \/ t.index_offset + t.index_length <= x
          /\ x + (m + len) <= t.variables_offset \/ t.variables_offset + t.trailer_len <= x
      BY <1>2, <1>5, <1>11, <1>h
    <3>2. x + (m + len) <= t.size
      BY <1>2, <1>5, <1>11
    <3> QED
      BY <1>5, <1>12, <2>1, <3>1, <3>2 DEF BlockPlaced, BlockEnd, IndexEnd, VariablesEnd, Apart
  <2>2. CASE k # i
    <3> DEFINE a == s.entries[k].address
               l == s.entries[k].length
    <3>1. BlockPlaced(s, s.entries[k])
      BY <1>1, <1>15 DEF BlocksDisjoint
    <3>2. /\ a \in Nat /\ l \in Nat
          /\ t.entries[k].address = Shift(a, p, len) /\ t.entries[k].length = l
      BY <1>8, <1>12, <2>2
    <3>3. /\ HeaderSize <= a /\ a + l <= s.size
          /\ a + l <= s.index_offset \/ s.index_offset + s.index_length <= a
          /\ a + l <= s.variables_offset \/ s.variables_offset + s.trailer_len <= a
      BY <3>1 DEF BlockPlaced, BlockEnd, IndexEnd, VariablesEnd, Apart
    <3>4. a + l <= x \/ x + m <= a
      BY <1>7, <1>15, <2>2
    <3> HIDE DEF a, l
    <3>5. /\ s.index_offset + s.index_length <= p \/ p <= s.index_offset
          /\ s.variables_offset + s.trailer_len <= p \/ p <= s.variables_offset
          /\ a + l <= p \/ p <= a
          /\ Shift(a, p, len) + l <= x \/ x + (m + len) <= Shift(a, p, len)
      BY <1>2, <1>5, <1>h, <3>2, <3>4
    <3>6. /\ Shift(a, p, len) + l <= t.index_offset \/ t.index_offset + t.index_length <= Shift(a, p, len)
          /\ \/ Shift(a, p, len) + l <= t.variables_offset
             \/ t.variables_offset + t.trailer_len <= Shift(a, p, len)
      <4>1. \/ Shift(a, p, len) + l <= Shift(s.index_offset, p, len)
            \/ Shift(s.index_offset, p, len) + s.index_length <= Shift(a, p, len)
        BY <1>2, <1>b, <3>2, <3>3, <3>5
      <4>2. \/ Shift(a, p, len) + l <= Shift(s.variables_offset, p, len)
            \/ Shift(s.variables_offset, p, len) + s.trailer_len <= Shift(a, p, len)
        BY <1>2, <1>b, <3>2, <3>3, <3>5
      <4> QED
        BY <1>11, <4>1, <4>2
    <3>7. HeaderSize <= Shift(a, p, len) /\ Shift(a, p, len) + l <= t.size
      <4>1. a <= Shift(a, p, len) /\ Shift(a, p, len) \in Nat
            /\ Shift(a, p, len) + l <= s.size + len
        BY <1>2, <1>i, <3>2, <3>3
      <4> QED
        BY <1>11, <3>2, <3>3, <4>1 DEF HeaderSize
    <3> QED
      BY <3>2, <3>5, <3>6, <3>7 DEF BlockPlaced, BlockEnd, IndexEnd, VariablesEnd, Apart
  <2> QED
    BY <2>1, <2>2
<1>16. BlocksDisjoint(t)
  <2>1. ASSUME NEW j \in DOMAIN s.entries, NEW k \in DOMAIN s.entries, j # k,
               IsBlock(s.entries[j]), IsBlock(s.entries[k])
        PROVE  Apart(t.entries[j].address, BlockEnd(t.entries[j]),
                     t.entries[k].address, BlockEnd(t.entries[k]))
    <3>1. CASE j = i
      BY <1>12, <1>15, <2>1, <3>1 DEF Apart, BlockEnd
    <3>2. CASE k = i
      BY <1>12, <1>15, <2>1, <3>2 DEF Apart, BlockEnd
    <3>3. CASE j # i /\ k # i
      BY <1>9, <1>12, <2>1, <3>3
    <3> QED
      BY <3>1, <3>2, <3>3
  <2> QED
    BY <1>12, <1>13, <1>15, <2>1 DEF BlocksDisjoint
<1>17. s.index_offset < s.freelist_offset /\ s.freelist_offset + 20 = s.index_offset + s.index_length
       /\ IndexPoint(s) <= s.freelist_offset
  <2>1. FreelistClear(s) /\ FreelistLast(s) /\ Len(s.entries) \in Nat
    BY <1>1, LayoutFields DEF SoundLayout
  <2>2. \A c, l \in Nat : CountSize + EntrySize * l \in Nat /\ c < c + CountSize + EntrySize * l
                         /\ c + CountSize + EntrySize * l \in Nat
    BY DEF CountSize, EntrySize
  <2>3. s.index_offset < IndexPoint(s) /\ IndexPoint(s) \in Nat
    BY <1>2, <2>1, <2>2 DEF IndexPoint
  <2> QED
    BY <1>2, <2>1, <2>3 DEF FreelistClear, FreelistLast, IndexEnd, FreelistSize
(* The index and its free list lie on one side of the block. *)
<1>18. \/ t.index_offset = s.index_offset /\ t.freelist_offset = s.freelist_offset
       \/ t.index_offset = s.index_offset + len /\ t.freelist_offset = s.freelist_offset + len
  BY <1>2, <1>3, <1>5, <1>11, <1>17 DEF Shift
<1>19. FreelistClear(t) /\ FreelistLast(t) /\ IndexInWholeEntries(t)
  <2>1. /\ s.index_offset + (CountSize + EntrySize * Len(s.entries)) <= s.freelist_offset
        /\ Len(s.entries) \in Nat
    BY <1>1, <1>2, <1>17, LayoutFields DEF IndexPoint, CountSize, EntrySize
  <2>2. CountSize + EntrySize * Len(s.entries) \in Nat
    BY <2>1 DEF CountSize, EntrySize
  <2>3. t.index_offset + (CountSize + EntrySize * Len(s.entries)) <= t.freelist_offset
    BY <1>2, <1>18, <2>1, <2>2
  <2>4. FreelistClear(t)
    <3>1. Len(t.entries) = Len(s.entries) /\ t.index_offset \in Nat
      BY <1>2, <1>3, <1>12, <1>18
    <3>2. \A c, l \in Nat : c + CountSize + EntrySize * l = c + (CountSize + EntrySize * l)
      BY DEF CountSize, EntrySize
    <3> QED
      BY <2>1, <2>3, <3>1, <3>2 DEF FreelistClear, IndexPoint
  <2>5. FreelistLast(t)
    BY <1>2, <1>11, <1>17, <1>18 DEF FreelistLast, IndexEnd, FreelistSize
  <2>6. IndexInWholeEntries(t)
    BY <1>11 DEF SoundLayout, IndexInWholeEntries
  <2> QED
    BY <2>4, <2>5, <2>6
<1>20. Fresh(s) => Fresh(t)
  <2> SUFFICES ASSUME Fresh(s) PROVE Fresh(t)
    OBVIOUS
  <2>1. /\ s.index_offset = HeaderSize /\ s.variables_offset = s.index_offset + s.index_length
        /\ s.variables_offset + s.trailer_len <= x
    BY DEF Fresh, IndexEnd, VariablesEnd, x
  <2>2. t.index_offset = s.index_offset /\ t.variables_offset = s.variables_offset
    BY <1>2, <1>3, <1>11, <2>1 DEF Shift
  <2>3. ASSUME NEW k \in DOMAIN s.entries, IsBlock(s.entries[k])
        PROVE  VariablesEnd(t) <= t.entries[k].address
    <3>1. s.variables_offset + s.trailer_len <= s.entries[k].address
      BY <2>3 DEF Fresh, VariablesEnd
    <3>2. s.entries[k].address <= t.entries[k].address /\ t.entries[k].address \in Nat
          /\ s.entries[k].address \in Nat
      <4>1. /\ s.entries[k].address \in Nat
            /\ k # i => t.entries[k].address = Shift(s.entries[k].address, p, len)
            /\ k = i => t.entries[k].address = s.entries[k].address
        BY <1>8, <1>12 DEF x
      <4> QED
        BY <1>2, <1>i, <4>1
    <3> QED
      BY <1>2, <1>11, <2>2, <3>1, <3>2 DEF VariablesEnd
  <2> QED
    BY <1>11, <1>12, <1>13, <2>1, <2>2, <2>3 DEF Fresh, IndexEnd
<1>21. Moved(s) => Moved(t)
  <2> SUFFICES ASSUME Moved(s) PROVE Moved(t)
    OBVIOUS
  <2>1. /\ s.variables_offset + s.trailer_len <= s.index_offset
        /\ x + m <= s.variables_offset \/ s.index_offset + s.index_length <= x
    BY DEF Moved, IndexEnd, VariablesEnd, BlockEnd, x, m
  <2>2. \/ /\ t.index_offset = s.index_offset + len /\ t.variables_offset = s.variables_offset + len
           /\ p <= s.variables_offset
        \/ /\ t.index_offset = s.index_offset /\ t.variables_offset = s.variables_offset
           /\ s.index_offset + s.index_length <= x
    BY <1>2, <1>3, <1>11, <2>1 DEF Shift
  <2>3. VariablesEnd(t) <= t.index_offset
    BY <1>2, <1>11, <2>1, <2>2 DEF VariablesEnd
  <2>4. ASSUME NEW k \in DOMAIN s.entries, IsBlock(s.entries[k])
        PROVE  BlockEnd(t.entries[k]) <= t.variables_offset \/ IndexEnd(t) <= t.entries[k].address
    <3> DEFINE a == s.entries[k].address
               l == s.entries[k].length
    <3>1. /\ a + l <= s.variables_offset \/ s.index_offset + s.index_length <= a
          /\ a \in Nat /\ l \in Nat
      BY <1>8, <2>4 DEF Moved, BlockEnd, IndexEnd
    <3>2. CASE k = i
      BY <1>2, <1>3, <1>11, <1>12, <2>1, <2>2, <3>2 DEF BlockEnd, IndexEnd
    <3>3. CASE k # i
      <4>1. t.entries[k].address = Shift(a, p, len) /\ t.entries[k].length = l
        BY <1>8, <1>12, <3>3
      <4>2. a + l <= x \/ x + m <= a
        BY <1>7, <2>4, <3>3
      <4> HIDE DEF a, l
      <4>3. \/ Shift(a, p, len) + l <= t.variables_offset
            \/ t.index_offset + t.index_length <= Shift(a, p, len)
        BY <1>2, <1>3, <1>11, <2>1, <2>2, <3>1, <4>2 DEF Shift
      <4> QED
        BY <4>1, <4>3 DEF BlockEnd, IndexEnd
    <3> QED
      BY <3>2, <3>3
  <2> QED
    BY <1>12, <1>13, <2>3, <2>4 DEF Moved
<1> QED
  BY <1>11, <1>14, <1>16, <1>19, <1>20, <1>21 DEF SoundLayout, t

(* The padding of a variable is at least one byte, so that the walk over   *)
(* the variables always ends before their section does.                    *)
LEMMA PaddedFits ==
  ASSUME NEW n \in Nat
  PROVE  Padded(n) \in Nat /\ n <= Padded(n)
<1>1. n % 4 \in 0..3
  OBVIOUS
<1> QED
  BY <1>1 DEF Padded

(* One more variable inside the variables section. *)
LEMMA VariableSound ==
  ASSUME NEW s, SoundLayout(s), NEW name \in Nat
  PROVE  SoundLayout(VariableAdd(s, name))
<1> DEFINE x == s.variables_offset
           m == s.trailer_len
           p == x + CountSize + s.variable_bytes
           z == StoredSize(name)
           d == Padded(VariableSize(name))
           r == Resize(s, p, d)
           t == VariableAdd(s, name)
<1>1. s \in Layouts /\ SectionsDisjoint(s) /\ BlocksDisjoint(s)
  BY DEF SoundLayout
<1>2. /\ s.size \in Nat /\ s.index_offset \in Nat /\ s.index_length \in Nat
      /\ x \in Nat /\ m \in Nat
      /\ s.variable_bytes \in Nat /\ s.freelist_offset \in Nat
  BY <1>1, LayoutFields
<1>3. z \in Nat /\ d \in Nat /\ z <= d
  <2>1. name % 256 \in Nat /\ name % 256 <= name
    OBVIOUS
  <2>2. z \in Nat /\ VariableSize(name) \in Nat /\ z <= VariableSize(name)
    BY <2>1 DEF VariableSize, StoredSize, VariableHeaderSize
  <2>3. d \in Nat /\ VariableSize(name) <= d
    BY <2>2, PaddedFits
  <2> HIDE DEF z, d
  <2> QED
    BY <2>2, <2>3
<1>4. /\ HeaderSize <= s.index_offset /\ s.index_offset + s.index_length <= s.size
      /\ HeaderSize <= x /\ x + m <= s.size
      /\ s.index_offset + s.index_length <= x \/ x + m <= s.index_offset
      /\ CountSize + s.variable_bytes <= m
  BY <1>1 DEF SectionsDisjoint, IndexEnd, VariablesEnd, Apart
<1>5. p \in Nat /\ x < p /\ p <= x + m /\ HeaderSize <= p
  <2> HIDE DEF x, m
  <2> QED
    BY <1>2, <1>4 DEF CountSize, HeaderSize
<1> HIDE DEF z, d
<1>6. /\ t.size = s.size + d
      /\ t.index_offset = Shift(s.index_offset, p, d)
      /\ t.index_length = s.index_length
      /\ t.variables_offset = x
      /\ t.trailer_len = m + d
      /\ t.variable_bytes = s.variable_bytes + z
      /\ t.freelist_offset = Shift(s.freelist_offset, p, d)
      /\ t.entries = r.entries
      /\ t \in Layouts
  <2>1. t = [r EXCEPT !.variable_bytes = s.variable_bytes + z, !.trailer_len = m + d]
    BY DEF VariableAdd, d, z
  <2>2. s.variable_bytes + z \in Nat /\ m + d \in Nat
    BY <1>2, <1>3
  <2> HIDE DEF p, m
  <2>3. /\ r \in Layouts
        /\ r.size = s.size + d
        /\ r.index_offset = Shift(s.index_offset, p, d)
        /\ r.index_length = s.index_length
        /\ r.variables_offset = Shift(x, p, d)
        /\ r.freelist_offset = Shift(s.freelist_offset, p, d)
    BY <1>1, <1>3, <1>5, ResizeFields
  <2>4. Shift(x, p, d) = x
    <3> HIDE DEF x
    <3> QED
      BY <1>2, <1>5 DEF Shift
  <2> HIDE DEF t, r, x
  <2> QED
    BY <2>1, <2>2, <2>3, <2>4 DEF Layouts
<1>7. /\ DOMAIN t.entries = DOMAIN s.entries /\ Len(t.entries) = Len(s.entries)
      /\ \A k \in DOMAIN s.entries :
           /\ t.entries[k].address = Shift(s.entries[k].address, p, d)
           /\ t.entries[k].length = s.entries[k].length
           /\ s.entries[k].address \in Nat /\ s.entries[k].length \in Nat
  <2> HIDE DEF p, t
  <2>1. \A k \in DOMAIN s.entries :
          s.entries[k].address \in Nat /\ s.entries[k].length \in Nat
    BY <1>1, LayoutFields
  <2>2. /\ DOMAIN r.entries = DOMAIN s.entries /\ Len(r.entries) = Len(s.entries)
        /\ \A k \in DOMAIN s.entries :
             /\ r.entries[k].address = Shift(s.entries[k].address, p, d)
             /\ r.entries[k].length = s.entries[k].length
    BY <1>1, <1>3, <1>5, ResizeFields
  <2> HIDE DEF r
  <2> QED
    BY <1>6, <2>1, <2>2
(* What the insertion does to a run of bytes outside the variables. *)
<1>h. \A a, l \in Nat :
        a + l <= x \/ x + m <= a =>
          /\ a + l <= p \/ p <= a
          /\ Shift(a, p, d) + l <= x \/ x + (m + d) <= Shift(a, p, d)
  <2> HIDE DEF x, m, p
  <2> QED
    BY <1>2, <1>3, <1>5, ShiftHost
<1>i. \A a, l \in Nat : /\ Shift(a, p, d) \in Nat /\ a <= Shift(a, p, d)
                        /\ a + l <= s.size => Shift(a, p, d) + l <= s.size + d
  <2> HIDE DEF x, m, p
  <2> QED
    BY <1>2, <1>3, <1>5, ShiftInside
<1>b. \A a, l, y, n \in Nat :
        /\ a + l <= y \/ y + n <= a
        /\ a + l <= p \/ p <= a
        /\ y + n <= p \/ p <= y
        => Shift(a, p, d) + l <= Shift(y, p, d) \/ Shift(y, p, d) + n <= Shift(a, p, d)
  <2> HIDE DEF x, m, p
  <2> QED
    BY <1>2, <1>3, <1>5, ShiftBoth
<1>8. \A k \in DOMAIN s.entries : IsBlock(s.entries[k]) =>
        \/ s.entries[k].address + s.entries[k].length <= x
        \/ x + m <= s.entries[k].address
  BY <1>1 DEF BlocksDisjoint, BlockPlaced, BlockEnd, VariablesEnd, Apart
<1>9. /\ \A k \in DOMAIN s.entries : IsBlock(t.entries[k]) <=> IsBlock(s.entries[k])
      /\ \A j, k \in DOMAIN s.entries :
           j # k /\ IsBlock(s.entries[j]) /\ IsBlock(s.entries[k]) =>
             Apart(t.entries[j].address, BlockEnd(t.entries[j]),
                   t.entries[k].address, BlockEnd(t.entries[k]))
  <2> HIDE DEF x, m, p, t
  <2>1. ASSUME NEW k \in DOMAIN s.entries, IsBlock(s.entries[k])
        PROVE  BlockEnd(s.entries[k]) <= p \/ p <= s.entries[k].address
    BY <1>7, <1>8, <1>h, <2>1 DEF BlockEnd
  <2> QED
    BY <1>1, <1>3, <1>5, <1>6, <2>1, ResizeBlocks
<1> HIDE DEF t, r, p, x, m
<1>10. SectionsDisjoint(t)
  <2>1. \/ t.index_offset + t.index_length <= t.variables_offset
        \/ t.variables_offset + t.trailer_len <= t.index_offset
    BY <1>2, <1>4, <1>6, <1>h
  <2>2. /\ t.index_offset + t.index_length <= t.size
        /\ t.variables_offset + t.trailer_len <= t.size
    BY <1>2, <1>3, <1>4, <1>6, <1>i
  <2>3. HeaderSize <= t.index_offset
    <3>1. HeaderSize \in Nat /\ Shift(s.index_offset, p, d) \in Nat
          /\ s.index_offset <= Shift(s.index_offset, p, d)
      BY <1>2, <1>i DEF HeaderSize
    <3> QED
      BY <1>2, <1>4, <1>6, <3>1
  <2>4. CountSize + t.variable_bytes <= t.trailer_len
    BY <1>2, <1>3, <1>4, <1>6 DEF CountSize
  <2> QED
    BY <1>4, <1>6, <2>1, <2>2, <2>3, <2>4 DEF SectionsDisjoint, IndexEnd, VariablesEnd, Apart
<1>11. ASSUME NEW k \in DOMAIN s.entries, IsBlock(s.entries[k])
       PROVE  BlockPlaced(t, t.entries[k])
  <2> DEFINE a == s.entries[k].address
             l == s.entries[k].length
  <2>1. BlockPlaced(s, s.entries[k])
    BY <1>1, <1>11 DEF BlocksDisjoint
  <2>2. /\ a \in Nat /\ l \in Nat
        /\ t.entries[k].address = Shift(a, p, d) /\ t.entries[k].length = l
    BY <1>7
  <2>3. /\ HeaderSize <= a /\ a + l <= s.size
        /\ a + l <= s.index_offset \/ s.index_offset + s.index_length <= a
        /\ a + l <= x \/ x + m <= a
    BY <2>1 DEF BlockPlaced, BlockEnd, IndexEnd, VariablesEnd, Apart, x, m
  <2> HIDE DEF a, l
  <2>4. /\ a + l <= p \/ p <= a
        /\ Shift(a, p, d) + l <= x \/ x + (m + d) <= Shift(a, p, d)
        /\ s.index_offset + s.index_length <= p \/ p <= s.index_offset
    BY <1>2, <1>4, <1>h, <2>2, <2>3
  <2>5. \/ Shift(a, p, d) + l <= Shift(s.index_offset, p, d)
        \/ Shift(s.index_offset, p, d) + s.index_length <= Shift(a, p, d)
    BY <1>2, <1>b, <2>2, <2>3, <2>4
  <2>6. HeaderSize <= Shift(a, p, d) /\ Shift(a, p, d) + l <= t.size
    <3>1. /\ a <= Shift(a, p, d) /\ Shift(a, p, d) \in Nat
          /\ Shift(a, p, d) + l <= s.size + d
      BY <1>i, <2>2, <2>3
    <3> QED
      BY <1>6, <2>2, <2>3, <3>1 DEF HeaderSize
  <2> QED
    BY <1>6, <2>2, <2>4, <2>5, <2>6 DEF BlockPlaced, BlockEnd, IndexEnd, VariablesEnd, Apart
<1>12. BlocksDisjoint(t)
  BY <1>7, <1>9, <1>11 DEF BlocksDisjoint
<1>13. /\ IndexPoint(s) <= s.freelist_offset
       /\ s.freelist_offset + 20 = s.index_offset + s.index_length
       /\ s.index_offset < s.freelist_offset
  <2>1. FreelistClear(s) /\ FreelistLast(s) /\ Len(s.entries) \in Nat
    BY <1>1, LayoutFields DEF SoundLayout
  <2> QED
    BY <1>2, <2>1 DEF FreelistClear, FreelistLast, IndexPoint, IndexEnd, CountSize, EntrySize, FreelistSize
<1>14. \/ t.index_offset = s.index_offset /\ t.freelist_offset = s.freelist_offset
       \/ t.index_offset = s.index_offset + d /\ t.freelist_offset = s.freelist_offset + d
  <2>1. s.index_offset + s.index_length <= p \/ p <= s.index_offset
    BY <1>2, <1>4, <1>h
  <2> QED
    BY <1>2, <1>3, <1>5, <1>6, <1>13, <2>1 DEF Shift
<1>15. FreelistClear(t) /\ FreelistLast(t) /\ IndexInWholeEntries(t)
  <2>1. /\ s.index_offset + (CountSize + EntrySize * Len(s.entries)) <= s.freelist_offset
        /\ Len(s.entries) \in Nat
    BY <1>1, <1>2, <1>13, LayoutFields DEF IndexPoint, CountSize, EntrySize
  <2>2. CountSize + EntrySize * Len(s.entries) \in Nat
    BY <2>1 DEF CountSize, EntrySize
  <2>3. t.index_offset + (CountSize + EntrySize * Len(s.entries)) <= t.freelist_offset
    BY <1>2, <1>3, <1>14, <2>1, <2>2
  <2>4. FreelistClear(t)
    <3>1. t.index_offset \in Nat
      BY <1>2, <1>3, <1>14
    <3>2. \A a, b \in Nat : a + 4 + 8 * b = a + (4 + 8 * b)
      OBVIOUS
    <3>3. IndexPoint(t) = t.index_offset + (CountSize + EntrySize * Len(s.entries))
      BY <1>7, <2>1, <3>1, <3>2 DEF IndexPoint, CountSize, EntrySize
    <3> QED
      BY <2>3, <3>3 DEF FreelistClear
  <2>5. FreelistLast(t)
    BY <1>2, <1>3, <1>6, <1>13, <1>14 DEF FreelistLast, IndexEnd, FreelistSize
  <2>6. IndexInWholeEntries(t)
    BY <1>6 DEF SoundLayout, IndexInWholeEntries
  <2> QED
    BY <2>4, <2>5, <2>6
<1>16. Fresh(s) => Fresh(t)
  <2> SUFFICES ASSUME Fresh(s) PROVE Fresh(t)
    OBVIOUS
  <2>1. s.index_offset = HeaderSize /\ x = s.index_offset + s.index_length
    BY DEF Fresh, IndexEnd, x
  <2>2. t.index_offset = s.index_offset
    BY <1>2, <1>3, <1>5, <1>6, <2>1 DEF Shift
  <2>3. ASSUME NEW k \in DOMAIN s.entries, IsBlock(s.entries[k])
        PROVE  VariablesEnd(t) <= t.entries[k].address
    <3>1. x + m <= s.entries[k].address /\ s.entries[k].address \in Nat
      BY <1>7, <2>3 DEF Fresh, VariablesEnd, x, m
    <3>2. t.entries[k].address = s.entries[k].address + d
      BY <1>2, <1>3, <1>5, <1>7, <3>1 DEF Shift
    <3> QED
      BY <1>2, <1>3, <1>6, <3>1, <3>2 DEF VariablesEnd
  <2> QED
    BY <1>6, <1>7, <1>9, <2>1, <2>2, <2>3 DEF Fresh, IndexEnd
<1>17. Moved(s) => Moved(t)
  <2> SUFFICES ASSUME Moved(s) PROVE Moved(t)
    OBVIOUS
  <2>1. x + m <= s.index_offset
    BY DEF Moved, VariablesEnd, x, m
  <2>2. t.index_offset = s.index_offset + d
    BY <1>2, <1>3, <1>5, <1>6, <2>1 DEF Shift
  <2>3. VariablesEnd(t) <= t.index_offset
    BY <1>2, <1>3, <1>6, <2>1, <2>2 DEF VariablesEnd
  <2>4. ASSUME NEW k \in DOMAIN s.entries, IsBlock(s.entries[k])
        PROVE  BlockEnd(t.entries[k]) <= t.variables_offset \/ IndexEnd(t) <= t.entries[k].address
    <3> DEFINE a == s.entries[k].address
               l == s.entries[k].length
    <3>1. /\ a + l <= x \/ s.index_offset + s.index_length <= a
          /\ a \in Nat /\ l \in Nat
      BY <1>7, <2>4 DEF Moved, BlockEnd, IndexEnd, x
    <3>2. t.entries[k].address = Shift(a, p, d) /\ t.entries[k].length = l
      BY <1>7
    <3> HIDE DEF a, l
    <3>3. \/ Shift(a, p, d) + l <= x
          \/ s.index_offset + d + s.index_length <= Shift(a, p, d)
      BY <1>2, <1>3, <1>5, <2>1, <3>1 DEF Shift
    <3> QED
      BY <1>6, <2>2, <3>2, <3>3 DEF BlockEnd, IndexEnd
  <2> QED
    BY <1>7, <1>9, <2>3, <2>4 DEF Moved
<1> QED
  BY <1>6, <1>10, <1>12, <1>15, <1>16, <1>17 DEF SoundLayout, t

(* Rounding up to a multiple of 16 adds less than 16. *)
LEMMA RoundUpBounds ==
  ASSUME NEW n \in Nat
  PROVE  RoundUp(n) \in Nat /\ n <= RoundUp(n) /\ RoundUp(n) < n + Alignment
  BY DEF RoundUp, Alignment

(* Bytes from u on that move by w - u, where w is the header's end or past u. *)
LEMMA MoveDown ==
  ASSUME NEW u \in Nat, NEW v \in Nat, NEW w \in Nat, NEW y \in Nat, NEW z \in Nat,
         u <= v, HeaderSize <= v, w = HeaderSize \/ u <= w, v + y <= z
  PROVE  /\ v - (u - w) \in Nat /\ HeaderSize <= v - (u - w)
         /\ v - (u - w) + y <= z - (u - w)
  BY DEF HeaderSize

(* A relocation, the first one or a later one: every block ends before the *)
(* variables, and these before the index.                                  *)
LEMMA RelocateSound ==
  ASSUME NEW s, SoundLayout(s)
  PROVE  /\ SoundLayout(RelocateTrailer(s))
         /\ RelocateTrailer(s) # s => Relocated(s, RelocateTrailer(s))
<1> DEFINE ve == s.variables_offset + s.trailer_len
           sh == ve - s.index_offset
           vo == s.size - sh
           io == RoundUp(vo + s.trailer_len)
           t  == RelocateTrailer(s)
           e  == [i \in DOMAIN s.entries |->
                    IF MovesWithData(s, s.entries[i])
                    THEN [address |-> s.entries[i].address - sh,
                          length  |-> s.entries[i].length]
                    ELSE s.entries[i]]
<1>1. s \in Layouts /\ SectionsDisjoint(s) /\ BlocksDisjoint(s) /\ (Fresh(s) \/ Moved(s))
      /\ FreelistClear(s) /\ FreelistLast(s)
  BY DEF SoundLayout
<1>2. CASE VariablesEnd(s) >= s.size
  BY <1>2 DEF RelocateTrailer
<1>3. CASE ~(VariablesEnd(s) >= s.size)
  <2>1. /\ s.size \in Nat /\ s.index_offset \in Nat /\ s.index_length \in Nat
        /\ s.variables_offset \in Nat /\ s.trailer_len \in Nat
        /\ s.variable_bytes \in Nat /\ s.freelist_offset \in Nat /\ s.block_count \in Nat
    BY <1>1, LayoutFields
  <2>2. VariablesEnd(s) = ve /\ ve < s.size /\ ve \in Nat
    BY <1>3, <2>1 DEF VariablesEnd
  <2>3. /\ HeaderSize <= s.index_offset
        /\ s.index_offset + s.index_length <= s.size
        /\ s.variables_offset <= ve /\ HeaderSize <= s.variables_offset
        /\ CountSize + s.variable_bytes <= s.trailer_len
    BY <1>1, <2>1 DEF SectionsDisjoint, IndexEnd, VariablesEnd, Apart
  <2>4. /\ s.freelist_offset + 20 = s.index_offset + s.index_length
        /\ s.index_offset <= s.freelist_offset
        /\ s.index_offset + (CountSize + EntrySize * Len(s.entries)) <= s.freelist_offset
        /\ CountSize + EntrySize * Len(s.entries) \in Nat
    <3>1. IndexPoint(s) <= s.freelist_offset /\ Len(s.entries) \in Nat
      BY <1>1, LayoutFields DEF FreelistClear
    <3>2. \A a, b \in Nat : a + 4 + 8 * b = a + (4 + 8 * b) /\ a <= a + 4 + 8 * b
                            /\ 4 + 8 * b \in Nat
      OBVIOUS
    <3> QED
      <4>1. s.index_offset + 4 + 8 * Len(s.entries) <= s.freelist_offset
        BY <3>1 DEF IndexPoint, CountSize, EntrySize
      <4>2. s.index_offset + (4 + 8 * Len(s.entries)) <= s.freelist_offset
            /\ 4 + 8 * Len(s.entries) \in Nat
        BY <2>1, <3>1, <3>2, <4>1
      <4>3. s.index_offset <= s.freelist_offset
        BY <2>1, <4>2
      <4> QED
        BY <1>1, <4>2, <4>3 DEF FreelistLast, IndexEnd, CountSize, EntrySize, FreelistSize
  (* Fresh: the blocks go down to the header.  Moved: they go up, or stay. *)
  <2>5. \/ /\ s.index_offset = HeaderSize /\ HeaderSize < ve
           /\ \A i \in DOMAIN s.entries : IsBlock(s.entries[i]) => ve <= s.entries[i].address
        \/ /\ ve <= s.index_offset
           /\ \A i \in DOMAIN s.entries : IsBlock(s.entries[i]) =>
                \/ s.entries[i].address + s.entries[i].length <= s.variables_offset
                \/ s.index_offset + s.index_length <= s.entries[i].address
    <3>1. CASE Fresh(s)
      <4>1. s.index_offset = HeaderSize /\ HeaderSize < ve
        BY <2>1, <2>3, <3>1 DEF Fresh, IndexEnd, HeaderSize, CountSize
      <4> QED
        BY <3>1, <4>1 DEF Fresh, VariablesEnd
    <3>2. CASE Moved(s)
      BY <3>2 DEF Moved, VariablesEnd, IndexEnd, BlockEnd
    <3> QED
      BY <1>1, <3>1, <3>2
  <2> HIDE DEF ve
  <2>6. /\ vo \in Nat /\ HeaderSize <= vo /\ sh \in Int /\ sh = ve - s.index_offset
        /\ vo = s.size - sh
        /\ ve <= s.index_offset => s.variables_offset <= vo
    BY <2>1, <2>2, <2>3, <2>5 DEF HeaderSize
  <2>7. io \in Nat /\ vo + s.trailer_len <= io
    <3> HIDE DEF vo
    <3>1. vo + s.trailer_len \in Nat
      BY <2>1, <2>6
    <3> QED
      BY <3>1, RoundUpBounds
  <2> HIDE DEF sh, vo, io
  <2>8. \A i \in DOMAIN s.entries :
          /\ s.entries[i] \in Entries
          /\ s.entries[i].address \in Nat /\ s.entries[i].length \in Nat
    BY <1>1, LayoutFields
  (* Where a block goes. *)
  <2>9. ASSUME NEW i \in DOMAIN s.entries, IsBlock(s.entries[i])
        PROVE  /\ e[i].length = s.entries[i].length
               /\ e[i].address \in Nat
               /\ HeaderSize <= e[i].address
               /\ e[i].address + e[i].length <= vo
               /\ e[i] \in Entries
               /\ IsBlock(e[i])
               /\ \/ e[i].address = s.entries[i].address - sh /\ ve <= s.entries[i].address
                  \/ /\ e[i].address = s.entries[i].address
                     /\ ve <= s.index_offset
                     /\ s.entries[i].address + s.entries[i].length <= s.variables_offset
    <3> DEFINE a == s.entries[i].address
               l == s.entries[i].length
    <3>1. a \in Nat /\ l \in Nat /\ HeaderSize <= a /\ a + l <= s.size
      BY <1>1, <2>8, <2>9 DEF BlocksDisjoint, BlockPlaced, BlockEnd
    <3>2. CASE ve <= a
      <4>1. e[i] = [address |-> a - sh, length |-> l]
        BY <2>1, <2>2, <2>9, <3>1, <3>2 DEF MovesWithData
      <4>2. e[i].address = a - sh /\ e[i].length = l
        BY <4>1
      <4> HIDE DEF a, l, e
      <4>3. a - sh \in Nat /\ HeaderSize <= a - sh /\ a - sh + l <= vo
        <5>1. \/ s.index_offset = HeaderSize
              \/ ve <= s.index_offset
          BY <2>5
        <5> HIDE DEF e
        <5> QED
          BY <2>1, <2>2, <2>6, <3>1, <3>2, <5>1, MoveDown
      <4>4. e[i] \in Entries
        BY <3>1, <4>1, <4>3 DEF Entries
      <4>5. IsBlock(e[i])
        BY <4>2, <4>3 DEF IsBlock, Vacant, HeaderSize
      <4> QED
        BY <3>2, <4>2, <4>3, <4>4, <4>5 DEF a, l
    <3>3. CASE ~(ve <= a)
      <4>1. e[i] = s.entries[i]
        BY <2>1, <2>2, <3>1, <3>3 DEF MovesWithData
      <4>2. ve <= s.index_offset /\ a + l <= s.variables_offset
        <5>1. \/ ve <= a
              \/ /\ ve <= s.index_offset
                 /\ a + l <= s.variables_offset \/ s.index_offset + s.index_length <= a
          BY <2>5, <2>9
        <5> HIDE DEF a, l, e
        <5>2. \A u, v, w, y \in Nat : ~(u <= v) /\ u <= w => ~(w + y <= v)
          OBVIOUS
        <5> QED
          BY <2>1, <2>2, <3>1, <3>3, <5>1, <5>2
      <4>3. a + l <= vo
        BY <2>1, <2>6, <3>1, <4>2
      <4> HIDE DEF e
      <4> QED
        BY <2>8, <2>9, <3>1, <4>1, <4>2, <4>3
    <3> QED
      BY <3>2, <3>3
  <2>10. \A i \in DOMAIN s.entries : ~IsBlock(s.entries[i]) => e[i] = s.entries[i]
    BY DEF MovesWithData
  <2>11. /\ e \in Seq(Entries) /\ Len(e) = Len(s.entries) /\ DOMAIN e = DOMAIN s.entries
    <3>1. DOMAIN s.entries = 1..Len(s.entries) /\ Len(s.entries) \in Nat
      BY <1>1, LayoutFields
    <3>2. DOMAIN e = DOMAIN s.entries
      OBVIOUS
    <3>3. \A i \in DOMAIN s.entries : e[i] \in Entries
      <4> HIDE DEF e
      <4> QED
        BY <2>8, <2>9, <2>10
    <3>4. e \in [1..Len(s.entries) -> Entries]
      BY <3>1, <3>3
    <3> HIDE DEF e
    <3> QED
      BY <3>1, <3>2, <3>4
  <2>12. /\ t.size = io + s.index_length /\ t.index_offset = io
         /\ t.index_length = s.index_length /\ t.variables_offset = vo
         /\ t.trailer_len = s.trailer_len /\ t.variable_bytes = s.variable_bytes
         /\ t.freelist_offset = io + (s.freelist_offset - s.index_offset)
         /\ t.entries = e
         /\ t \in Layouts
    <3>1. t = [s EXCEPT !.size             = io + s.index_length,
                        !.index_offset     = io,
                        !.variables_offset = vo,
                        !.freelist_offset  = io + (s.freelist_offset - s.index_offset),
                        !.entries          = e]
      BY <1>3, <2>2 DEF RelocateTrailer, io, vo, sh, ve, VariablesEnd
    <3>2. io + s.index_length \in Nat /\ io + (s.freelist_offset - s.index_offset) \in Nat
      <4>1. \A u, v, w, y \in Nat : w <= v => u + y \in Nat /\ u + (v - w) \in Nat
        OBVIOUS
      <4> QED
        BY <2>1, <2>4, <2>7, <4>1
    <3> HIDE DEF t, e
    <3> QED
      BY <1>1, <2>6, <2>7, <2>11, <3>1, <3>2 DEF Layouts
  <2> HIDE DEF t, e
  <2>13. SectionsDisjoint(t)
    BY <2>1, <2>3, <2>6, <2>7, <2>12
       DEF SectionsDisjoint, IndexEnd, VariablesEnd, Apart, HeaderSize, CountSize
  <2>14. \A i \in DOMAIN s.entries : IsBlock(e[i]) => IsBlock(s.entries[i])
    BY <2>10
  <2>15. ASSUME NEW i \in DOMAIN s.entries, IsBlock(s.entries[i])
         PROVE  BlockPlaced(t, e[i]) /\ BlockEnd(e[i]) <= t.variables_offset
    <3>1. e[i].address \in Nat /\ e[i].length \in Nat /\ HeaderSize <= e[i].address
          /\ e[i].address + e[i].length <= vo
      BY <2>8, <2>9, <2>15
    <3>2. e[i].address + e[i].length <= io /\ e[i].address + e[i].length <= io + s.index_length
      BY <2>1, <2>6, <2>7, <3>1
    <3> QED
      BY <2>12, <3>1, <3>2 DEF BlockPlaced, BlockEnd, IndexEnd, VariablesEnd, Apart
  <2>16. ASSUME NEW i \in DOMAIN s.entries, NEW j \in DOMAIN s.entries, i # j,
                IsBlock(s.entries[i]), IsBlock(s.entries[j])
         PROVE  Apart(e[i].address, BlockEnd(e[i]), e[j].address, BlockEnd(e[j]))
    <3> DEFINE a == s.entries[i].address
               l == s.entries[i].length
               b == s.entries[j].address
               m == s.entries[j].length
    <3>1. a + l <= b \/ b + m <= a
      BY <1>1, <2>16 DEF BlocksDisjoint, BlockEnd, Apart
    <3>2. a \in Nat /\ l \in Nat /\ b \in Nat /\ m \in Nat
      BY <2>8
    <3>3. e[i].length = l /\ e[j].length = m
      BY <2>9, <2>16
    <3>4. \/ e[i].address = a - sh /\ ve <= a
          \/ e[i].address = a /\ ve <= s.index_offset /\ a + l <= s.variables_offset
      BY <2>9, <2>16
    <3>5. \/ e[j].address = b - sh /\ ve <= b
          \/ e[j].address = b /\ ve <= s.index_offset /\ b + m <= s.variables_offset
      BY <2>9, <2>16
    <3> HIDE DEF a, l, b, m
    <3> DEFINE c == e[i].address
               f == e[j].address
    <3>6. c + l <= f \/ f + m <= c
      <4> DEFINE up(u, n, v) == /\ ve <= u /\ ve <= s.index_offset
                                /\ v + n <= s.variables_offset
      <4>1. c = a - sh /\ f = b - sh => c + l <= f \/ f + m <= c
        BY <2>6, <3>1, <3>2
      <4>2. c = a /\ f = b => c + l <= f \/ f + m <= c
        BY <3>1
      <4>3. c = a - sh /\ f = b /\ up(a, m, b) => c + l <= f \/ f + m <= c
        <5>1. up(a, m, b) => b + m <= a /\ a <= a - sh
          BY <2>1, <2>2, <2>3, <2>6, <3>2
        <5> QED
          BY <2>6, <3>2, <5>1
      <4>4. f = b - sh /\ c = a /\ up(b, l, a) => c + l <= f \/ f + m <= c
        <5>1. up(b, l, a) => a + l <= b /\ b <= b - sh
          BY <2>1, <2>2, <2>3, <2>6, <3>2
        <5> QED
          BY <2>6, <3>2, <5>1
      <4>5. \/ c = a - sh /\ f = b - sh
            \/ c = a /\ f = b
            \/ c = a - sh /\ f = b /\ up(a, m, b)
            \/ f = b - sh /\ c = a /\ up(b, l, a)
        BY <3>4, <3>5
      <4> HIDE DEF c, f, up
      <4> QED
        BY <4>1, <4>2, <4>3, <4>4, <4>5
    <3> QED
      BY <3>3, <3>6 DEF Apart, BlockEnd
  <2>17. BlocksDisjoint(t)
    BY <2>11, <2>12, <2>14, <2>15, <2>16 DEF BlocksDisjoint
  <2>18. FreelistClear(t) /\ FreelistLast(t) /\ IndexInWholeEntries(t)
    <3>1. io + (CountSize + EntrySize * Len(s.entries)) <= t.freelist_offset
      <4>1. t.freelist_offset = io + (s.freelist_offset - s.index_offset)
        BY <2>12
      <4>2. \A a, b, c, d \in Nat : a + b <= c => d + b <= d + (c - a)
        OBVIOUS
      <4> QED
        BY <2>1, <2>4, <2>7, <4>1, <4>2
    <3>2. \A a, b \in Nat : a + 4 + 8 * b = a + (4 + 8 * b)
      OBVIOUS
    <3>3. Len(s.entries) \in Nat
      BY <1>1, LayoutFields
    <3>4. FreelistClear(t)
      BY <2>7, <2>11, <2>12, <3>1, <3>2, <3>3 DEF FreelistClear, IndexPoint, CountSize, EntrySize
    <3>5. FreelistLast(t)
      <4>1. \A u, v, w, y \in Nat : v + 20 = w + y => u + (v - w) + 20 = u + y
        OBVIOUS
      <4> QED
        <5>1. io + (s.freelist_offset - s.index_offset) + 20 = io + s.index_length
          <6>1. s.freelist_offset + 20 = s.index_offset + s.index_length
            BY <2>4
          <6> QED
            BY <2>1, <2>7, <4>1, <6>1
        <5> QED
          BY <2>12, <5>1 DEF FreelistLast, IndexEnd, FreelistSize
    <3>6. IndexInWholeEntries(t)
      BY <2>12 DEF SoundLayout, IndexInWholeEntries
    <3> QED
      BY <3>4, <3>5, <3>6
  <2>19. Moved(t)
    BY <2>7, <2>11, <2>12, <2>14, <2>15 DEF Moved, VariablesEnd
  <2>20. io % Alignment = 0 /\ io < vo + s.trailer_len + Alignment
    <3> DEFINE v == vo + s.trailer_len
    <3>1. v \in Nat
      BY <2>1, <2>6
    <3> HIDE DEF v
    <3>2. RoundUp(v) % Alignment = 0
      BY <3>1 DEF RoundUp, Alignment
    <3>3. io = RoundUp(v)
      BY DEF io, v
    <3> QED
      BY <3>1, <3>2, <3>3, RoundUpBounds DEF v
  <2>21. s.size <= t.size /\ (s.index_offset = HeaderSize => t.size < s.size + Alignment)
    <3>1. \/ s.index_offset = HeaderSize /\ ve = s.index_offset + s.index_length + s.trailer_len
          \/ ve <= s.index_offset /\ HeaderSize < s.index_offset
      <4>1. CASE Fresh(s)
        BY <4>1 DEF Fresh, IndexEnd, ve
      <4>2. CASE Moved(s)
        <5>1. s.variables_offset + s.trailer_len = ve /\ ve <= s.index_offset
          BY <4>2 DEF Moved, VariablesEnd, ve
        <5> QED
          BY <2>1, <2>3, <5>1 DEF HeaderSize, CountSize
      <4> QED
        BY <1>1, <4>1, <4>2
    <3>2. \A z, o, l, m, q \in Nat :
            /\ z - (o + l + m - o) + m <= q
            /\ q < z - (o + l + m - o) + m + 16
            => z <= q + l /\ q + l < z + 16
      OBVIOUS
    <3>3. \A z, u, o, m, q, l \in Nat : z - (u - o) + m <= q /\ u <= o => z <= q + l
      OBVIOUS
    <3>4. vo + s.trailer_len <= io /\ io < vo + s.trailer_len + 16 /\ io \in Nat
      BY <2>7, <2>20 DEF Alignment
    <3>5. CASE s.index_offset = HeaderSize /\ ve = s.index_offset + s.index_length + s.trailer_len
      BY <2>1, <2>2, <2>6, <2>12, <3>2, <3>4, <3>5 DEF Alignment
    <3>6. CASE ve <= s.index_offset /\ HeaderSize < s.index_offset
      <4>1. s.index_offset # HeaderSize
        BY <2>1, <3>6 DEF HeaderSize
      <4> QED
        BY <2>1, <2>2, <2>6, <2>12, <3>3, <3>4, <3>6, <4>1
    <3> QED
      BY <3>1, <3>5, <3>6
  <2>22. Relocated(s, t)
    BY <2>1, <2>7, <2>11, <2>12, <2>14, <2>15, <2>20, <2>21
       DEF Relocated, VariablesEnd, IndexEnd
  <2> QED
    BY <2>12, <2>13, <2>17, <2>18, <2>19, <2>22 DEF SoundLayout, t
<1> QED
  BY <1>2, <1>3

-----------------------------------------------------------------------------
(* The blocks of s with bytes have their order in t. *)
InOrder(s, t) ==
  \A i, j \in DOMAIN s.entries :
    LET b == s.entries[i]  c == s.entries[j]
    IN b.length > 0 /\ c.length > 0 /\ b.address < c.address =>
         t.entries[i].address < t.entries[j].address

(* The entries of s have their lengths in t. *)
LengthsKept(s, t) ==
  \A i \in DOMAIN s.entries : t.entries[i].length = s.entries[i].length

(* An insertion anywhere shifts all blocks behind it by the same length. *)
LEMMA ResizeInOrder ==
  ASSUME NEW s \in Layouts, NEW p \in Nat, NEW d \in Nat
  PROVE  InOrder(s, Resize(s, p, d))
<1>1. \A a, b \in Nat : a < b => Shift(a, p, d) < Shift(b, p, d)
  BY DEF Shift
<1>2. \A i \in DOMAIN s.entries :
        /\ Resize(s, p, d).entries[i].address = Shift(s.entries[i].address, p, d)
        /\ Resize(s, p, d).entries[i].length = s.entries[i].length
        /\ s.entries[i].address \in Nat /\ s.entries[i].length \in Nat
  BY ResizeFields, LayoutFields
<1> QED BY <1>1, <1>2 DEF InOrder

(* All of an insertion that the operations below need. *)
LEMMA ResizeOrdered ==
  ASSUME NEW s \in Layouts, NEW p \in Nat, NEW d \in Nat
  PROVE  /\ Resize(s, p, d) \in Layouts /\ InOrder(s, Resize(s, p, d))
         /\ DOMAIN Resize(s, p, d).entries = DOMAIN s.entries
         /\ LengthsKept(s, Resize(s, p, d))
BY ResizeInOrder, ResizeFields DEF LengthsKept

(* What has its blocks where t has them has them in order too. *)
LEMMA SameBlocksInOrder ==
  ASSUME NEW s, NEW t, NEW u, InOrder(s, t), LengthsKept(s, t),
         \A i \in DOMAIN s.entries : u.entries[i] = t.entries[i]
  PROVE  InOrder(s, u) /\ LengthsKept(s, u)
BY DEF InOrder, LengthsKept

(* Two changes in a row. *)
LEMMA InOrderTwice ==
  ASSUME NEW s, NEW t, NEW u, InOrder(s, t), InOrder(t, u),
         LengthsKept(s, t), LengthsKept(t, u),
         DOMAIN s.entries \subseteq DOMAIN t.entries
  PROVE  InOrder(s, u) /\ LengthsKept(s, u)
BY DEF InOrder, LengthsKept

(* Where a block ends or a section goes on: all points are in the file. *)
LEMMA PointsAreNumbers ==
  ASSUME NEW s \in Layouts
  PROVE  /\ IndexPoint(s) \in Nat /\ s.size \in Nat
         /\ s.variables_offset + CountSize + s.variable_bytes \in Nat
         /\ \A i \in DOMAIN s.entries : BlockEnd(s.entries[i]) \in Nat
<1>1. s.index_offset \in Nat /\ s.size \in Nat /\ s.variables_offset \in Nat
      /\ s.variable_bytes \in Nat /\ Len(s.entries) \in Nat
  BY LayoutFields
<1>2. IndexPoint(s) \in Nat
  BY <1>1 DEF IndexPoint, CountSize, EntrySize
<1>3. s.variables_offset + CountSize + s.variable_bytes \in Nat
  BY <1>1 DEF CountSize
<1>4. \A i \in DOMAIN s.entries : BlockEnd(s.entries[i]) \in Nat
  <2> SUFFICES ASSUME NEW i \in DOMAIN s.entries
               PROVE  BlockEnd(s.entries[i]) \in Nat
    OBVIOUS
  <2>1. s.entries[i].address \in Nat /\ s.entries[i].length \in Nat
    BY LayoutFields
  <2> QED BY <2>1 DEF BlockEnd
<1> QED BY <1>1, <1>2, <1>3, <1>4

(* bom_index_reserve keeps the order of the blocks and their lengths. *)
LEMMA ReserveInOrder ==
  ASSUME NEW s \in Layouts, NEW count \in Nat
  PROVE  InOrder(s, IndexReserve(s, count)) /\ LengthsKept(s, IndexReserve(s, count))
<1> DEFINE r == Resize(s, IndexPoint(s), EntrySize * count)
<1>1. r \in Layouts /\ InOrder(s, r) /\ LengthsKept(s, r)
  <2>1. IndexPoint(s) \in Nat /\ EntrySize * count \in Nat
    BY PointsAreNumbers DEF EntrySize
  <2> QED BY <2>1, ResizeOrdered
<1>2. IndexReserve(s, count) = [r EXCEPT !.index_length = s.index_length + EntrySize * count]
  BY DEF IndexReserve, ReservePoint
<1> HIDE DEF r
<1>3. IndexReserve(s, count).entries = r.entries
  BY <1>1, <1>2 DEF Layouts
<1> QED BY <1>1, <1>3, SameBlocksInOrder

(* bom_index_add keeps the order of the blocks and their lengths. *)
LEMMA AddInOrder ==
  ASSUME NEW s \in Layouts, NEW len \in Nat
  PROVE  InOrder(s, IndexAdd(s, len)) /\ LengthsKept(s, IndexAdd(s, len))
<1> DEFINE h == Resize(s, IndexPoint(s), EntrySize)
           g == GrowForAdd(s)
           r == Resize(g, g.size, len)
           e == [address |-> g.size, length |-> len]
<1>1. /\ h \in Layouts /\ InOrder(s, h) /\ DOMAIN h.entries = DOMAIN s.entries
      /\ LengthsKept(s, h)
  <2>1. IndexPoint(s) \in Nat /\ EntrySize \in Nat
    BY PointsAreNumbers DEF EntrySize
  <2> QED BY <2>1, ResizeOrdered
<1>2. /\ g \in Layouts /\ InOrder(s, g) /\ DOMAIN g.entries = DOMAIN s.entries
      /\ LengthsKept(s, g)
  <2>1. CASE IndexFull(s, 1)
    <3>1. g = [h EXCEPT !.index_length = s.index_length + EntrySize]
      BY <2>1 DEF GrowForAdd
    <3>2. s.index_length + EntrySize \in Nat
      BY LayoutFields DEF EntrySize
    <3> HIDE DEF h, g
    <3>3. g \in Layouts /\ g.entries = h.entries
      BY <1>1, <3>1, <3>2 DEF Layouts
    <3> QED BY <1>1, <3>3, SameBlocksInOrder
  <2>2. CASE ~IndexFull(s, 1)
    <3>1. g = s
      BY <2>2 DEF GrowForAdd
    <3>2. InOrder(s, s) /\ LengthsKept(s, s)
      BY DEF InOrder, LengthsKept
    <3> QED BY <3>1, <3>2
  <2> QED BY <2>1, <2>2
<1>3. IndexAdd(s, len).entries = Append(r.entries, e)
  <2>1. r \in Layouts
    BY <1>2, PointsAreNumbers, ResizeFields
  <2> QED BY <2>1 DEF IndexAdd, Layouts
<1> HIDE DEF h, g, e
<1>4. /\ r \in Layouts /\ InOrder(g, r) /\ DOMAIN r.entries = DOMAIN g.entries
      /\ LengthsKept(g, r)
  <2>1. g.size \in Nat
    BY <1>2, PointsAreNumbers
  <2> QED BY <1>2, <2>1, ResizeOrdered
<1> HIDE DEF r
<1>5. InOrder(s, r) /\ LengthsKept(s, r)
  BY <1>2, <1>4, InOrderTwice
<1>6. r.entries \in Seq(Entries) /\ DOMAIN r.entries = 1 .. Len(r.entries)
  BY <1>4, LayoutFields
<1>7. \A i \in DOMAIN s.entries : Append(r.entries, e)[i] = r.entries[i]
  <2>1. r.entries \in Seq(Entries \cup {e}) /\ e \in Entries \cup {e}
    BY <1>6
  <2> QED BY <1>2, <1>4, <1>6, <2>1, AppendProperties
<1> QED BY <1>3, <1>5, <1>7, SameBlocksInOrder

(* bom_free_indices_add keeps the order of the blocks and their lengths. *)
LEMMA FreeInOrder ==
  ASSUME NEW s \in Layouts, NEW n \in Nat
  PROVE  InOrder(s, FreeIndicesAdd(s, n)) /\ LengthsKept(s, FreeIndicesAdd(s, n))
<1> DEFINE h == Resize(s, IndexPoint(s), EntrySize)
           g == GrowForFree(s, n)
           v == [i \in 1..n |-> Vacant]
<1>1. /\ h \in Layouts /\ InOrder(s, h) /\ DOMAIN h.entries = DOMAIN s.entries
      /\ LengthsKept(s, h)
  <2>1. IndexPoint(s) \in Nat /\ EntrySize \in Nat
    BY PointsAreNumbers DEF EntrySize
  <2> QED BY <2>1, ResizeOrdered
<1>2. /\ g \in Layouts /\ InOrder(s, g) /\ DOMAIN g.entries = DOMAIN s.entries
      /\ LengthsKept(s, g)
  <2>1. CASE IndexFull(s, n)
    <3>1. g = [h EXCEPT !.index_length = s.index_length + EntrySize * n]
      BY <2>1 DEF GrowForFree
    <3>2. s.index_length + EntrySize * n \in Nat
      BY LayoutFields DEF EntrySize
    <3> HIDE DEF h, g
    <3>3. g \in Layouts /\ g.entries = h.entries
      BY <1>1, <3>1, <3>2 DEF Layouts
    <3> QED BY <1>1, <3>3, SameBlocksInOrder
  <2>2. CASE ~IndexFull(s, n)
    <3>1. g = s
      BY <2>2 DEF GrowForFree
    <3>2. InOrder(s, s) /\ LengthsKept(s, s)
      BY DEF InOrder, LengthsKept
    <3> QED BY <3>1, <3>2
  <2> QED BY <2>1, <2>2
<1>3. FreeIndicesAdd(s, n).entries = g.entries \o v
  BY <1>2 DEF FreeIndicesAdd, Layouts
<1>4. v \in Seq(Entries)
  <2>1. v \in [1..n -> Entries]
    BY DEF Vacant, Entries
  <2> QED BY <2>1, SeqDef
<1>5. g.entries \in Seq(Entries) /\ DOMAIN g.entries = 1 .. Len(g.entries)
  BY <1>2, LayoutFields
<1> HIDE DEF g, h, v
<1>6. \A i \in DOMAIN s.entries : (g.entries \o v)[i] = g.entries[i]
  BY <1>2, <1>4, <1>5, ConcatProperties
<1> QED BY <1>2, <1>3, <1>6, SameBlocksInOrder

(* bom_index_append keeps the order of the blocks, the longer one          *)
(* included, and the lengths of all others.                                *)
LEMMA AppendInOrder ==
  ASSUME NEW s \in Layouts, NEW i \in DOMAIN s.entries, NEW len \in Nat
  PROVE  /\ InOrder(s, IndexAppend(s, i, len))
         /\ \A j \in DOMAIN s.entries :
              IndexAppend(s, i, len).entries[j].length =
                IF j = i THEN s.entries[j].length + len ELSE s.entries[j].length
<1> DEFINE r == Resize(s, BlockEnd(s.entries[i]), len)
           e == [address |-> r.entries[i].address, length |-> r.entries[i].length + len]
           u == IndexAppend(s, i, len)
<1>1. /\ r \in Layouts /\ InOrder(s, r) /\ DOMAIN r.entries = DOMAIN s.entries
      /\ LengthsKept(s, r)
  <2>1. BlockEnd(s.entries[i]) \in Nat
    BY PointsAreNumbers
  <2> QED BY <2>1, ResizeOrdered
<1>2. u.entries = [r.entries EXCEPT ![i] = e]
  BY <1>1 DEF IndexAppend, Layouts
<1>3. \A j \in DOMAIN s.entries : u.entries[j] = IF j = i THEN e ELSE r.entries[j]
  <2> HIDE DEF r, e, u
  <2>1. r.entries \in Seq(Entries)
    BY <1>1, LayoutFields
  <2> QED BY <1>1, <1>2, <2>1
<1>4. \A j \in DOMAIN s.entries :
        /\ u.entries[j].address = r.entries[j].address
        /\ u.entries[j].length =
             IF j = i THEN s.entries[j].length + len ELSE s.entries[j].length
  <2> HIDE DEF r, u
  <2> QED BY <1>1, <1>3 DEF LengthsKept
<1> HIDE DEF r, e, u
<1>5. InOrder(s, u)
  BY <1>1, <1>4 DEF InOrder
<1> QED BY <1>4, <1>5 DEF u

(* bom_variable_add keeps the order of the blocks and their lengths. *)
LEMMA VariableInOrder ==
  ASSUME NEW s \in Layouts, NEW n \in Nat
  PROVE  InOrder(s, VariableAdd(s, n)) /\ LengthsKept(s, VariableAdd(s, n))
<1> DEFINE point == s.variables_offset + CountSize + s.variable_bytes
           delta == Padded(VariableSize(n))
           r     == Resize(s, point, delta)
<1>1. delta \in Nat
  BY DEF Padded, VariableSize, VariableHeaderSize
<1>2. r \in Layouts /\ InOrder(s, r) /\ LengthsKept(s, r)
  <2>1. point \in Nat
    BY PointsAreNumbers
  <2> HIDE DEF point, delta
  <2> QED BY <1>1, <2>1, ResizeOrdered
<1>3. VariableAdd(s, n) = [r EXCEPT !.variable_bytes = s.variable_bytes + StoredSize(n),
                                    !.trailer_len = s.trailer_len + delta]
  BY DEF VariableAdd
<1> HIDE DEF r
<1>4. VariableAdd(s, n).entries = r.entries
  BY <1>2, <1>3 DEF Layouts
<1> QED BY <1>2, <1>4, SameBlocksInOrder

(* The blocks a relocation leaves are below those it moves, and when there *)
(* are any it moves up, or not at all.                                     *)
LEMMA RelocateInOrder ==
  ASSUME NEW s, SoundLayout(s)
  PROVE  InOrder(s, RelocateTrailer(s)) /\ LengthsKept(s, RelocateTrailer(s))
<1> DEFINE t  == RelocateTrailer(s)
           sh == VariablesEnd(s) - s.index_offset
<1>1. /\ s \in Layouts /\ (Fresh(s) \/ Moved(s))
      /\ VariablesEnd(s) \in Nat /\ s.index_offset \in Nat /\ sh \in Int
      /\ \A i \in DOMAIN s.entries : s.entries[i].address \in Nat /\ s.entries[i].length \in Nat
  BY LayoutFields DEF SoundLayout, VariablesEnd
<1>2. CASE VariablesEnd(s) >= s.size
  <2>1. t = s
    BY <1>2 DEF RelocateTrailer
  <2> QED BY <2>1 DEF InOrder, LengthsKept
<1>3. CASE ~(VariablesEnd(s) >= s.size)
  <2>1. t.entries = [i \in DOMAIN s.entries |->
                       IF MovesWithData(s, s.entries[i])
                       THEN [address |-> s.entries[i].address - sh,
                             length  |-> s.entries[i].length]
                       ELSE s.entries[i]]
    BY <1>1, <1>3 DEF RelocateTrailer, Layouts
  <2> HIDE DEF t
  <2>2. \A i \in DOMAIN s.entries : s.entries[i].length > 0 =>
          (MovesWithData(s, s.entries[i]) <=> s.entries[i].address >= VariablesEnd(s))
    BY <1>1 DEF MovesWithData, IsBlock, Vacant
  <2>3. \A i \in DOMAIN s.entries :
          /\ t.entries[i].length = s.entries[i].length
          /\ t.entries[i].address = IF MovesWithData(s, s.entries[i])
                                    THEN s.entries[i].address - sh
                                    ELSE s.entries[i].address
    BY <2>1
  <2>4. \/ sh <= 0
        \/ \A i \in DOMAIN s.entries : s.entries[i].length > 0 =>
             s.entries[i].address >= VariablesEnd(s)
    <3>1. CASE Fresh(s)
      BY <1>1, <3>1 DEF Fresh, IsBlock, Vacant
    <3>2. CASE Moved(s)
      BY <1>1, <3>2 DEF Moved
    <3> QED BY <1>1, <3>1, <3>2
  <2> HIDE DEF sh
  <2>5. LengthsKept(s, t)
    BY <2>3 DEF LengthsKept
  <2>6. SUFFICES ASSUME NEW j \in DOMAIN s.entries, NEW k \in DOMAIN s.entries,
                        s.entries[j].length > 0, s.entries[k].length > 0,
                        s.entries[j].address < s.entries[k].address
                 PROVE  t.entries[j].address < t.entries[k].address
    BY <2>5 DEF InOrder, t
  <2> DEFINE a == s.entries[j].address
             b == s.entries[k].address
             ve == VariablesEnd(s)
  <2>7. /\ t.entries[j].address = IF a >= ve THEN a - sh ELSE a
        /\ t.entries[k].address = IF b >= ve THEN b - sh ELSE b
    BY <2>2, <2>3, <2>6
  <2>8. a \in Nat /\ b \in Nat /\ ve \in Nat /\ sh \in Int /\ a < b
    BY <1>1, <2>6 DEF sh
  <2>9. sh <= 0 \/ a >= ve
    BY <2>4, <2>6
  <2> HIDE DEF a, b, ve
  <2> QED BY <2>7, <2>8, <2>9
<1> QED BY <1>2, <1>3
=============================================================================
