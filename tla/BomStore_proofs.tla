--------------------------- MODULE BomStore_proofs ---------------------------
(***************************************************************************)
(* Every careful operation of the BOM container keeps its layout sound and *)
(* its blocks in order, for every file size, every block length and every  *)
(* reservation.                                                            *)
(***************************************************************************)
EXTENDS BomStore, BomLayout_proofs

(* Every careful operation takes a sound layout to a sound layout. *)
LEMMA CarefulStepSound == Sound /\ [CarefulNext]_store => Sound'
<1> SUFFICES ASSUME Sound, [CarefulNext]_store PROVE Sound'
  OBVIOUS
<1> USE DEF Sound
<1>1. ASSUME NEW count \in ReserveCounts, Reserve(count) PROVE Sound'
  BY <1>1, ReserveSound, InputsAssumption DEF Reserve
<1>2. ASSUME NEW len \in DataLengths, AddBlock(len) PROVE Sound'
  BY <1>2, AddSound, InputsAssumption DEF AddBlock
<1>3. ASSUME NEW n \in FreeCounts, n = 1 \/ ~IndexFull(store, n), AddFreeIndices(n)
      PROVE  Sound'
  <2>1. n \in Nat
    BY InputsAssumption
  <2> QED
    BY <1>3, <2>1, FreeSound DEF AddFreeIndices
<1>4. ASSUME NEW len \in DataLengths, NEW i \in DOMAIN store.entries,
             store.entries[i].length > 0, AppendToBlock(i, len)
      PROVE  Sound'
  <2>1. len \in Nat
    BY InputsAssumption
  <2> QED
    BY <1>4, <2>1, AppendSound DEF AppendToBlock
<1>5. ASSUME NEW nameLength \in NameLengths, AddVariable(nameLength) PROVE Sound'
  BY <1>5, VariableSound, InputsAssumption DEF AddVariable
<1>6. ASSUME Relocate PROVE Sound'
  BY <1>6, RelocateSound DEF Relocate
<1>7. CASE UNCHANGED store
  BY <1>7
<1> QED
  BY <1>1, <1>2, <1>3, <1>4, <1>5, <1>6, <1>7 DEF CarefulNext

(* The strengthened invariant holds in every reachable state. *)
THEOREM LayoutStaysSound == CarefulSpec => []Sound
<1>1. Init => Sound
  BY EmptyIsSound DEF Init, Sound
<1> QED
  BY <1>1, CarefulStepSound, PTL DEF CarefulSpec

(* No operation takes an offset or a length below zero. *)
THEOREM TypeCorrect == CarefulSpec => []TypeOK
<1>1. Sound => TypeOK
  BY DEF Sound, SoundLayout, TypeOK
<1> QED
  BY <1>1, LayoutStaysSound, PTL

(* Header, index and variables never overlap, whatever the sizes. *)
THEOREM SectionsStayApart == CarefulSpec => []SectionsApart
<1>1. Sound => SectionsApart
  BY DEF Sound, SoundLayout, SectionsApart
<1> QED
  BY <1>1, LayoutStaysSound, PTL

(* Registered blocks never overlap a section, the file's end or each other. *)
THEOREM BlocksStayApart == CarefulSpec => []BlocksApart
<1>1. Sound => BlocksApart
  BY DEF Sound, SoundLayout, BlocksApart
<1> QED
  BY <1>1, LayoutStaysSound, PTL

(* As long as callers are careful, no entry is written over the free list. *)
THEOREM FreelistStaysIntact == CarefulSpec => []FreelistIntact
<1>1. Sound => FreelistIntact
  BY DEF Sound, SoundLayout, FreelistIntact
<1> QED
  BY <1>1, LayoutStaysSound, PTL

(* A relocation always leaves the form real readers expect. *)
THEOREM RelocationForm == CarefulSpec => RelocatedForm
<1>1. Sound /\ [CarefulNext]_store =>
        [Relocate /\ store' # store => Relocated(store, store')]_store
  BY RelocateSound DEF Sound, Relocate
<1> QED
  BY <1>1, LayoutStaysSound, PTL DEF CarefulSpec, RelocatedForm

(* What OrderKept says of one step. *)
OrderAndLengths ==
  /\ InOrder(store, store')
  /\ \A i \in DOMAIN store.entries :
       \/ store'.entries[i].length = store.entries[i].length
       \/ \E len \in DataLengths :
            /\ AppendToBlock(i, len)
            /\ store'.entries[i].length = store.entries[i].length + len

(* Two blocks with bytes never change places, through any number of        *)
(* additions, reservations, appends, variables and relocations: what       *)
(* address a caller compared stays comparable.  And the length of a block  *)
(* changes by an append to that very block only, and by what is appended   *)
(* (bom.c:253-283, 153-233, 458-490).                                      *)
THEOREM BlocksKeepOrder == CarefulSpec => OrderKept
<1>1. Sound /\ [CarefulNext]_store => [OrderAndLengths]_store
  <2> SUFFICES ASSUME Sound, CarefulNext PROVE OrderAndLengths
    OBVIOUS
  <2>0. SoundLayout(store) /\ store \in Layouts
    BY DEF Sound, SoundLayout
  <2>1. InOrder(store, store') /\ LengthsKept(store, store') => OrderAndLengths
    BY DEF LengthsKept, OrderAndLengths
  <2>2. ASSUME NEW count \in ReserveCounts, Reserve(count) PROVE OrderAndLengths
    BY <2>0, <2>1, <2>2, ReserveInOrder, InputsAssumption DEF Reserve
  <2>3. ASSUME NEW len \in DataLengths, AddBlock(len) PROVE OrderAndLengths
    BY <2>0, <2>1, <2>3, AddInOrder, InputsAssumption DEF AddBlock
  <2>4. ASSUME NEW n \in FreeCounts, AddFreeIndices(n) PROVE OrderAndLengths
    BY <2>0, <2>1, <2>4, FreeInOrder, InputsAssumption DEF AddFreeIndices
  <2>5. ASSUME NEW len \in DataLengths, NEW i \in DOMAIN store.entries, AppendToBlock(i, len)
        PROVE  OrderAndLengths
    <3>1. store' = IndexAppend(store, i, len) /\ len \in Nat
      BY <2>5, InputsAssumption DEF AppendToBlock
    <3>2. /\ InOrder(store, store')
          /\ \A j \in DOMAIN store.entries :
               store'.entries[j].length =
                 IF j = i THEN store.entries[j].length + len ELSE store.entries[j].length
      BY <2>0, <3>1, AppendInOrder
    <3> QED BY <2>5, <3>2 DEF OrderAndLengths
  <2>6. ASSUME NEW nameLength \in NameLengths, AddVariable(nameLength)
        PROVE  OrderAndLengths
    BY <2>0, <2>1, <2>6, VariableInOrder, InputsAssumption DEF AddVariable
  <2>7. ASSUME Relocate PROVE OrderAndLengths
    BY <2>0, <2>1, <2>7, RelocateInOrder DEF Relocate
  <2> QED BY <2>2, <2>3, <2>4, <2>5, <2>6, <2>7 DEF CarefulNext
<1>2. [OrderAndLengths]_store =>
        [/\ \A i, j \in DOMAIN store.entries :
              LET b == store.entries[i]  c == store.entries[j]
              IN b.length > 0 /\ c.length > 0 /\ b.address < c.address =>
                   store'.entries[i].address < store'.entries[j].address
         /\ \A i \in DOMAIN store.entries :
              \/ store'.entries[i].length = store.entries[i].length
              \/ \E len \in DataLengths :
                   /\ AppendToBlock(i, len)
                   /\ store'.entries[i].length = store.entries[i].length + len]_store
  BY DEF OrderAndLengths, InOrder
<1> QED BY <1>1, <1>2, LayoutStaysSound, PTL DEF CarefulSpec, OrderKept
=============================================================================
