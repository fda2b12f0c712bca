---------------------------- MODULE BomTree_proofs ----------------------------
(***************************************************************************)
(* Proofs about BomTree: for every set of keys with a total preorder, every *)
(* node size and every pattern of reservations, bom_tree_add keeps the leaf *)
(* sorted and inside its block, and its search always narrows.             *)
(***************************************************************************)
EXTENDS BomTree, TLAPS

(* The leaf was lengthened by what was granted, and is not used beyond it. *)
Room ==
  /\ NodeSize + SlotSize * granted <= length
  /\ Len(slots) + Pending <= granted + Capacity
  /\ Len(slots) + Pending < CountLimit

(* The inductive invariant: while an entry is on its way the search keeps  *)
(* it bracketed, and that is what makes Place keep the order.              *)
Inv == TypeOK /\ Sorted /\ SearchInvariant /\ Room

(* What the capacity of an empty leaf is good for. *)
LEMMA CapacityFits ==
  Capacity \in Nat /\ LeafHeaderSize + SlotSize * Capacity <= NodeSize
<1>1. \A n \in Nat : n >= 12 => /\ (n - 12) \div 8 \in Nat
                                /\ 12 + 8 * ((n - 12) \div 8) <= n
  OBVIOUS
<1> QED
  BY <1>1, SizeAssumption DEF Capacity, LeafHeaderSize, SlotSize

(* The order is total. *)
LEMMA Total ==
  ASSUME NEW a \in Keys, NEW b \in Keys
  PROVE  /\ Compare(a, b) \in Int
         /\ ~(Compare(a, b) < 0) => Compare(b, a) <= 0
         /\ ~(Compare(a, b) > 0) => Compare(a, b) <= 0
         /\ Compare(a, b) > 0 => Compare(b, a) <= 0
         /\ Compare(a, b) < 0 => Compare(a, b) <= 0
         /\ Compare(a, b) = 0 => Compare(a, b) <= 0 /\ Compare(b, a) <= 0
<1>1. Compare(a, b) \in Int /\ Compare(b, a) \in Int
  BY OrderAssumption
<1>2. Compare(a, b) < 0 <=> Compare(b, a) > 0
  BY OrderAssumption
<1>3. Compare(b, a) < 0 <=> Compare(a, b) > 0
  BY OrderAssumption
<1> QED
  BY <1>1, <1>2, <1>3

(* An entry at place i of s, and the others around it in their order. *)
LEMMA WithEntry ==
  ASSUME NEW V, NEW s \in Seq(V), NEW e \in V, NEW i \in 0..Len(s)
  PROVE  /\ With(s, i, e) \in Seq(V)
         /\ Len(With(s, i, e)) = Len(s) + 1
         /\ DOMAIN With(s, i, e) = 1 .. Len(s) + 1
         /\ With(s, i, e)[i + 1] = e
         /\ \A k \in 1 .. Len(s) : k <= i => With(s, i, e)[k] = s[k]
         /\ \A k \in 1 .. Len(s) : i < k => With(s, i, e)[k + 1] = s[k]
<1> DEFINE n == Len(s)
           w == With(s, i, e)
<1>1. n \in Nat /\ i \in Nat /\ i <= n /\ DOMAIN s = 1..n /\ \A k \in 1..n : s[k] \in V
  OBVIOUS
<1>2. w = [k \in 1 .. n + 1 |-> IF k <= i THEN s[k] ELSE IF k = i + 1 THEN e ELSE s[k - 1]]
  BY DEF With
<1> HIDE DEF n, w
<1>3. ASSUME NEW k \in 1 .. n + 1
      PROVE  w[k] \in V
  <2>1. CASE k <= i
    BY <1>1, <1>2, <2>1
  <2>2. CASE k = i + 1
    BY <1>1, <1>2, <2>2
  <2>3. CASE i + 1 < k
    <3>1. k - 1 \in 1..n
      BY <1>1, <2>3
    <3> QED
      BY <1>1, <1>2, <2>3, <3>1
  <2> QED
    BY <1>1, <2>1, <2>2, <2>3
<1>4. w \in Seq(V) /\ Len(w) = n + 1 /\ DOMAIN w = 1 .. n + 1
  BY <1>1, <1>2, <1>3
<1>5. w[i + 1] = e
  BY <1>1, <1>2
<1>6. \A k \in 1..n : k <= i => w[k] = s[k]
  BY <1>1, <1>2
<1>7. ASSUME NEW k \in 1..n, i < k
      PROVE  w[k + 1] = s[k]
  <2>1. k + 1 \in 1 .. n + 1 /\ ~(k + 1 <= i) /\ k + 1 # i + 1 /\ (k + 1) - 1 = k
    BY <1>1, <1>7
  <2> QED
    BY <1>2, <2>1
<1> QED
  BY <1>4, <1>5, <1>6, <1>7 DEF n, w

(* Between neighbours that it fits, an entry keeps the leaf sorted. *)
LEMMA WithSorted ==
  ASSUME NEW V, NEW s \in Seq(EntriesOf(V)), NEW e \in EntriesOf(V), NEW i \in 0..Len(s),
         \A k, l \in DOMAIN s : k < l => Compare(s[k].key, s[l].key) <= 0,
         \A k \in DOMAIN s : k <= i => Compare(s[k].key, e.key) <= 0,
         \A k \in DOMAIN s : i < k => Compare(e.key, s[k].key) <= 0
  PROVE  \A k, l \in DOMAIN With(s, i, e) :
           k < l => Compare(With(s, i, e)[k].key, With(s, i, e)[l].key) <= 0
<1> DEFINE n == Len(s)
           w == With(s, i, e)
<1>1. /\ DOMAIN w = 1 .. n + 1 /\ n \in Nat /\ i \in Nat /\ i <= n /\ DOMAIN s = 1..n
      /\ w[i + 1] = e
      /\ \A k \in 1..n : k <= i => w[k] = s[k]
      /\ \A k \in 1..n : i < k => w[k + 1] = s[k]
  BY WithEntry
<1> HIDE DEF n, w
(* Where the entry at a place of the new leaf comes from. *)
<1>2. ASSUME NEW k \in 1 .. n + 1
      PROVE  \/ k <= i /\ k \in 1..n /\ w[k] = s[k]
             \/ k = i + 1 /\ w[k] = e
             \/ i + 1 < k /\ k - 1 \in 1..n /\ i < k - 1 /\ w[k] = s[k - 1]
  <2>1. CASE k <= i
    BY <1>1, <2>1
  <2>2. CASE k = i + 1
    BY <1>1, <2>2
  <2>3. CASE i + 1 < k
    <3>1. k - 1 \in 1..n /\ i < k - 1 /\ (k - 1) + 1 = k
      BY <1>1, <2>3
    <3> QED
      BY <1>1, <2>3, <3>1
  <2> QED
    BY <1>1, <2>1, <2>2, <2>3
<1>3. ASSUME NEW k \in 1 .. n + 1, NEW l \in 1 .. n + 1, k < l
      PROVE  Compare(w[k].key, w[l].key) <= 0
  <2>1. CASE k <= i /\ k \in 1..n /\ w[k] = s[k]
    <3>1. CASE l <= i /\ l \in 1..n /\ w[l] = s[l]
      BY <1>1, <1>3, <2>1, <3>1
    <3>2. CASE l = i + 1 /\ w[l] = e
      BY <1>1, <2>1, <3>2
    <3>3. CASE i + 1 < l /\ l - 1 \in 1..n /\ i < l - 1 /\ w[l] = s[l - 1]
      <4>1. k < l - 1
        BY <1>1, <2>1, <3>3
      <4> QED
        BY <1>1, <2>1, <3>3, <4>1
    <3> QED
      BY <1>2, <3>1, <3>2, <3>3
  <2>2. CASE k = i + 1 /\ w[k] = e
    <3>1. i + 1 < l
      BY <1>3, <2>2
    <3>2. l - 1 \in 1..n /\ i < l - 1 /\ w[l] = s[l - 1]
      BY <1>1, <1>2, <3>1
    <3> QED
      BY <1>1, <2>2, <3>2
  <2>3. CASE i + 1 < k /\ k - 1 \in 1..n /\ i < k - 1 /\ w[k] = s[k - 1]
    <3>1. i + 1 < l /\ k - 1 < l - 1
      BY <1>1, <1>3, <2>3
    <3>2. l - 1 \in 1..n /\ w[l] = s[l - 1]
      BY <1>1, <1>2, <3>1
    <3> QED
      BY <1>1, <2>3, <3>1, <3>2
  <2> QED
    BY <1>2, <2>1, <2>2, <2>3
<1> QED
  BY <1>1, <1>3 DEF w

-----------------------------------------------------------------------------
(* An empty tree has the invariant. *)
LEMMA InitInv == Init => Inv
<1> SUFFICES ASSUME Init PROVE Inv
  OBVIOUS
<1>1. slots = << >> /\ Len(slots) = 0 /\ DOMAIN slots = {} /\ slots \in Seq(EntriesOf(Nat))
  BY DEF Init
<1>2. TypeOK
  BY <1>1, SizeAssumption DEF Init, TypeOK, EntriesOf
<1>3. Sorted /\ SearchInvariant
  BY <1>1 DEF Init, Sorted, SearchInvariant
<1>4. Room
  <2>1. Capacity \in Nat
    BY CapacityFits
  <2>2. Pending = 0 /\ granted = 0 /\ length = NodeSize
    BY DEF Init, Pending
  <2>3. NodeSize + SlotSize * granted <= length
    BY <2>2, SizeAssumption DEF SlotSize
  <2> QED
    BY <1>1, <2>1, <2>2, <2>3, SizeAssumption DEF Room
<1> QED
  BY <1>2, <1>3, <1>4 DEF Inv

(* The entries are keys with values: what a type invariant is cited for. *)
LEMMA SlotKeys ==
  ASSUME TypeOK
  PROVE  /\ slots \in Seq(EntriesOf(Nat)) /\ Len(slots) \in Nat
         /\ DOMAIN slots = 1 .. Len(slots)
         /\ \A i \in DOMAIN slots : slots[i].key \in Keys
         /\ entry.key \in Keys
<1>1. slots \in Seq(EntriesOf(Nat)) /\ entry \in EntriesOf(Nat)
  BY DEF TypeOK
<1>2. Len(slots) \in Nat /\ DOMAIN slots = 1 .. Len(slots)
      /\ \A i \in DOMAIN slots : slots[i] \in EntriesOf(Nat)
  BY <1>1
<1>3. \A e \in EntriesOf(Nat) : e.key \in Keys
  BY DEF EntriesOf
<1> QED
  BY <1>1, <1>2, <1>3

(* A reservation keeps the invariant. *)
LEMMA ReserveInv ==
  ASSUME Inv, NEW count \in ReserveCounts, Reserve(count)
  PROVE  Inv'
<1>1. count \in Nat
  BY SizeAssumption
<1>2. /\ UNCHANGED << slots, path_count, pc, entry, start, end, at >>
      /\ length' = length + SlotSize * count /\ granted' = granted + count
  BY DEF Reserve, Reserved
<1>3. length \in Nat /\ granted \in Nat
  BY DEF Inv, TypeOK
<1>4. TypeOK'
  BY <1>1, <1>2, <1>3 DEF Inv, TypeOK, SlotSize
<1>5. Sorted' /\ SearchInvariant'
  BY <1>2 DEF Inv, Sorted, SearchInvariant, RangeBrackets, PlaceFits
<1>6. Room'
  <2>1. \A b, g, c, m \in Nat : m + 8 * g <= b => m + 8 * (g + c) <= b + 8 * c
    OBVIOUS
  <2>2. NodeSize + SlotSize * granted' <= length'
    BY <1>1, <1>2, <1>3, <2>1, SizeAssumption DEF Inv, Room, SlotSize
  <2>3. Pending' = Pending /\ Pending \in Nat
    BY <1>2 DEF Pending
  <2>4. Len(slots) \in Nat /\ Capacity \in Nat
    BY SlotKeys, CapacityFits DEF Inv
  <2>5. Len(slots') + Pending' <= granted' + Capacity /\ Len(slots') + Pending' < CountLimit
    BY <1>1, <1>2, <1>3, <2>3, <2>4 DEF Inv, Room
  <2> QED
    BY <2>2, <2>5 DEF Room
<1> QED
  BY <1>4, <1>5, <1>6 DEF Inv

(* At first the range is the whole leaf. *)
LEMMA BeginInv ==
  ASSUME Inv, NEW key \in Keys, HasRoom, BeginAdd(key)
  PROVE  Inv'
<1>1. /\ pc = "idle" /\ pc' = "search" /\ start' = 0 /\ end' = Len(slots) /\ at' = 0
      /\ entry' = [key |-> key, value |-> path_count]
      /\ UNCHANGED << slots, path_count, granted >>
      /\ length' = Grown(Len(slots), length)
  BY DEF BeginAdd
<1>2. length \in Nat /\ granted \in Nat /\ path_count \in Nat
  BY DEF Inv, TypeOK
<1>3. Len(slots) \in Nat /\ DOMAIN slots = 1 .. Len(slots)
  BY SlotKeys DEF Inv
<1>4. length' \in Nat /\ length <= length'
  BY <1>1, <1>2, <1>3 DEF Grown, SlotSize
<1>5. TypeOK'
  <2>1. entry' \in EntriesOf(Nat)
    BY <1>1, <1>2 DEF EntriesOf
  <2> QED
    BY <1>1, <1>2, <1>3, <1>4, <2>1 DEF Inv, TypeOK
<1>6. Sorted' /\ SearchInvariant'
  <2>1. RangeBrackets'
    BY <1>1, <1>3 DEF RangeBrackets
  <2> QED
    BY <1>1, <2>1 DEF Inv, Sorted, SearchInvariant
<1>7. Room'
  <2>1. Pending' = 1 /\ Capacity \in Nat
    BY <1>1, CapacityFits DEF Pending
  <2>2. NodeSize + SlotSize * granted <= length
    BY DEF Inv, Room
  <2>3. NodeSize + SlotSize * granted \in Nat
    BY <1>2, SizeAssumption DEF SlotSize
  <2>4. NodeSize + SlotSize * granted' <= length'
    BY <1>1, <1>2, <1>4, <2>2, <2>3
  <2>5. Len(slots) + 1 <= granted + Capacity /\ Len(slots) + 1 < CountLimit
    BY <1>2, <1>3, <2>1 DEF HasRoom
  <2> QED
    BY <1>1, <2>1, <2>4, <2>5 DEF Room
<1> QED
  BY <1>5, <1>6, <1>7 DEF Inv

(* A comparison leaves the key's place inside the half that it keeps. *)
LEMMA CompareInv ==
  ASSUME Inv, CompareOne
  PROVE  Inv' /\ (pc' = "place" \/ end' - start' < end - start)
<1> DEFINE m == (end - start) \div 2 + start
           r == Compare(entry.key, slots[m + 1].key)
<1>1. /\ pc = "search" /\ start < end /\ at' = m
      /\ end' = IF r < 0 THEN m ELSE end
      /\ start' = IF r > 0 THEN m + 1 ELSE start
      /\ pc' = IF r = 0 THEN "place" ELSE "search"
      /\ UNCHANGED << slots, length, path_count, granted, entry >>
  BY DEF CompareOne, LowerHalf, UpperHalf
<1>2. /\ start \in Nat /\ end \in Nat /\ TypeOK /\ Sorted /\ Room
  BY DEF Inv, TypeOK
<1>3. /\ end <= Len(slots)
      /\ \A i \in DOMAIN slots : i <= start => Compare(slots[i].key, entry.key) <= 0
      /\ \A i \in DOMAIN slots : end < i => Compare(entry.key, slots[i].key) <= 0
  BY <1>1 DEF Inv, SearchInvariant, RangeBrackets
<1>4. /\ Len(slots) \in Nat /\ DOMAIN slots = 1 .. Len(slots)
      /\ \A i \in DOMAIN slots : slots[i].key \in Keys
      /\ entry.key \in Keys
  BY <1>2, SlotKeys
<1>5. m \in Nat /\ start <= m /\ m < end
  <2>1. \A a, b \in Nat : a < b => /\ (b - a) \div 2 + a \in Nat
                                   /\ a <= (b - a) \div 2 + a
                                   /\ (b - a) \div 2 + a < b
    OBVIOUS
  <2> QED
    BY <1>1, <1>2, <2>1
<1> HIDE DEF m
<1>6. m + 1 \in DOMAIN slots /\ r \in Int
  <2>1. m + 1 \in DOMAIN slots
    BY <1>2, <1>3, <1>4, <1>5
  <2> QED
    BY <1>4, <2>1, Total
<1>7. Sorted' /\ Room' /\ TypeOK'
  <2>1. start' \in Nat /\ end' \in Nat /\ at' \in Nat /\ pc' \in {"search", "place"}
    BY <1>1, <1>2, <1>5
  <2>2. Pending' = Pending
    BY <1>1 DEF Pending
  <2>3. Sorted' /\ Room'
    BY <1>1, <1>2, <2>2 DEF Sorted, Room
  <2>4. TypeOK'
    BY <1>1, <1>2, <2>1 DEF TypeOK
  <2> QED
    BY <2>3, <2>4
(* The order carries what the middle's key says to one half of the leaf. *)
<1>8. r >= 0 => \A i \in DOMAIN slots : i <= m + 1 => Compare(slots[i].key, entry.key) <= 0
  <2> SUFFICES ASSUME r >= 0, NEW i \in DOMAIN slots, i <= m + 1
               PROVE  Compare(slots[i].key, entry.key) <= 0
    OBVIOUS
  <2>1. Compare(slots[m + 1].key, entry.key) <= 0
    BY <1>4, <1>6, Total
  <2>2. CASE i = m + 1
    BY <2>1, <2>2
  <2>3. CASE i # m + 1
    <3>1. i < m + 1
      BY <1>4, <1>5, <2>3
    <3>2. Compare(slots[i].key, slots[m + 1].key) <= 0
      BY <1>2, <1>6, <3>1 DEF Sorted
    <3> QED
      BY <1>4, <1>6, <2>1, <3>2, OrderAssumption
  <2> QED
    BY <2>2, <2>3
<1>9. r <= 0 => \A i \in DOMAIN slots : m < i => Compare(entry.key, slots[i].key) <= 0
  <2> SUFFICES ASSUME r <= 0, NEW i \in DOMAIN slots, m < i
               PROVE  Compare(entry.key, slots[i].key) <= 0
    OBVIOUS
  <2>1. CASE i = m + 1
    BY <2>1
  <2>2. CASE i # m + 1
    <3>1. m + 1 < i
      BY <1>4, <1>5, <2>2
    <3>2. Compare(slots[m + 1].key, slots[i].key) <= 0
      BY <1>2, <1>6, <3>1 DEF Sorted
    <3> QED
      BY <1>4, <1>6, <3>2, OrderAssumption
  <2> QED
    BY <2>1, <2>2
<1> HIDE DEF r
<1>10. CASE r < 0
  <2>1. end' = m /\ start' = start /\ pc' = "search" /\ slots' = slots /\ entry' = entry
    BY <1>1, <1>6, <1>10
  <2>2. RangeBrackets'
    BY <1>2, <1>3, <1>4, <1>5, <1>6, <1>9, <1>10, <2>1 DEF RangeBrackets
  <2>3. end' - start' < end - start
    BY <1>2, <1>5, <2>1
  <2> QED
    BY <1>7, <2>1, <2>2, <2>3 DEF Inv, SearchInvariant
<1>11. CASE r > 0
  <2>1. end' = end /\ start' = m + 1 /\ pc' = "search" /\ slots' = slots /\ entry' = entry
    BY <1>1, <1>6, <1>11
  <2>2. RangeBrackets'
    BY <1>2, <1>3, <1>4, <1>5, <1>6, <1>8, <1>11, <2>1 DEF RangeBrackets
  <2>3. end' - start' < end - start
    BY <1>2, <1>5, <2>1
  <2> QED
    BY <1>7, <2>1, <2>2, <2>3 DEF Inv, SearchInvariant
<1>12. CASE r = 0
  <2>1. at' = m /\ pc' = "place" /\ slots' = slots /\ entry' = entry
    BY <1>1, <1>12
  <2>2. PlaceFits'
    <3>1. \A i \in DOMAIN slots : i <= m => i <= m + 1
      BY <1>4, <1>5
    <3>2. m <= Len(slots)
      BY <1>2, <1>3, <1>4, <1>5
    <3> QED
      BY <1>8, <1>9, <1>12, <2>1, <3>1, <3>2 DEF PlaceFits
  <2> QED
    BY <1>7, <2>1, <2>2 DEF Inv, SearchInvariant
<1> QED
  BY <1>6, <1>10, <1>11, <1>12

(* When the range is empty its place is between the two sides. *)
LEMMA EndSearchInv ==
  ASSUME Inv, EndSearch
  PROVE  Inv'
<1>1. /\ pc = "search" /\ start >= end /\ at' = start /\ pc' = "place"
      /\ UNCHANGED << slots, length, path_count, granted, entry, start, end >>
  BY DEF EndSearch, Found
<1>2. TypeOK /\ Sorted /\ Room /\ RangeBrackets /\ start \in Nat /\ end \in Nat
  BY <1>1 DEF Inv, SearchInvariant, TypeOK
<1>3. TypeOK'
  BY <1>1, <1>2 DEF TypeOK
<1>4. Sorted' /\ Room'
  <2>1. Pending' = Pending
    BY <1>1 DEF Pending
  <2> QED
    BY <1>1, <1>2, <2>1 DEF Sorted, Room
<1>5. PlaceFits'
  <2>1. start = end /\ start <= Len(slots)
    BY <1>1, <1>2 DEF RangeBrackets
  <2> QED
    BY <1>1, <1>2, <2>1 DEF RangeBrackets, PlaceFits
<1> QED
  BY <1>1, <1>3, <1>4, <1>5 DEF Inv, SearchInvariant

(* What Place does when the count does not wrap, which Room excludes. *)
LEMMA PlaceWith ==
  ASSUME Inv, Place
  PROVE  /\ pc = "place" /\ pc' = "idle"
         /\ at \in 0..Len(slots) /\ PlaceFits
         /\ slots' = With(slots, at, entry)
         /\ path_count' = path_count + 1
         /\ UNCHANGED << length, granted, entry, start, end, at >>
<1>1. /\ pc = "place" /\ pc' = "idle" /\ path_count' = path_count + 1
      /\ slots' = IF Len(slots) + 1 = CountLimit THEN << >> ELSE With(slots, at, entry)
      /\ UNCHANGED << length, granted, entry, start, end, at >>
  BY DEF Place
<1>2. Len(slots) \in Nat /\ at \in Nat
  BY SlotKeys DEF Inv, TypeOK
<1>3. PlaceFits
  BY <1>1 DEF Inv, SearchInvariant
<1>4. at \in 0..Len(slots)
  BY <1>2, <1>3 DEF PlaceFits
<1>5. Len(slots) + 1 # CountLimit
  <2>1. Pending = 1
    BY <1>1 DEF Pending
  <2> QED
    BY <1>2, <2>1, SizeAssumption DEF Inv, Room
<1> QED
  BY <1>1, <1>3, <1>4, <1>5

(* An insertion at the end of a search keeps the invariant. *)
LEMMA PlaceInv ==
  ASSUME Inv, Place
  PROVE  Inv'
<1>1. /\ pc = "place" /\ pc' = "idle"
      /\ at \in 0..Len(slots) /\ PlaceFits
      /\ slots' = With(slots, at, entry)
      /\ path_count' = path_count + 1
      /\ UNCHANGED << length, granted, entry, start, end, at >>
  BY PlaceWith
<1>2. TypeOK /\ Sorted /\ Room
  BY DEF Inv
<1>3. slots \in Seq(EntriesOf(Nat)) /\ entry \in EntriesOf(Nat) /\ Len(slots) \in Nat
  BY <1>2 DEF TypeOK
<1>4. slots' \in Seq(EntriesOf(Nat)) /\ Len(slots') = Len(slots) + 1
  BY <1>1, <1>3, WithEntry
<1>5. TypeOK'
  BY <1>1, <1>2, <1>4 DEF TypeOK
<1>6. Sorted'
  <2>1. /\ \A k, l \in DOMAIN slots : k < l => Compare(slots[k].key, slots[l].key) <= 0
        /\ \A k \in DOMAIN slots : k <= at => Compare(slots[k].key, entry.key) <= 0
        /\ \A k \in DOMAIN slots : at < k => Compare(entry.key, slots[k].key) <= 0
    BY <1>1, <1>2 DEF Sorted, PlaceFits
  <2>2. \A k, l \in DOMAIN With(slots, at, entry) :
          k < l => Compare(With(slots, at, entry)[k].key, With(slots, at, entry)[l].key) <= 0
    BY <1>1, <1>3, <2>1, WithSorted
  <2> QED
    BY <1>1, <2>2 DEF Sorted
<1>7. Room'
  <2>1. Pending = 1 /\ Pending' = 0
    BY <1>1 DEF Pending
  <2>2. Len(slots') + Pending' = Len(slots) + Pending
    BY <1>3, <1>4, <2>1
  <2> QED
    BY <1>1, <1>2, <2>2 DEF Room
<1> QED
  BY <1>1, <1>5, <1>6, <1>7 DEF Inv, SearchInvariant

(* Every step keeps the invariant. *)
LEMMA StepInv == Inv /\ [CarefulNext]_vars => Inv'
<1> SUFFICES ASSUME Inv, [CarefulNext]_vars PROVE Inv'
  OBVIOUS
<1>1. ASSUME NEW count \in ReserveCounts, Reserve(count) PROVE Inv'
  BY <1>1, ReserveInv
<1>2. ASSUME NEW key \in Keys, HasRoom, BeginAdd(key) PROVE Inv'
  BY <1>2, BeginInv
<1>3. CASE CompareOne
  BY <1>3, CompareInv
<1>4. CASE EndSearch
  BY <1>4, EndSearchInv
<1>5. CASE Place
  BY <1>5, PlaceInv
<1>6. CASE UNCHANGED vars
  BY <1>6 DEF vars, Inv, TypeOK, Sorted, SearchInvariant, RangeBrackets, PlaceFits,
              Room, Pending
<1> QED
  BY <1>1, <1>2, <1>3, <1>4, <1>5, <1>6 DEF CarefulNext, Add

(* The invariant holds in every state. *)
LEMMA Invariance == CarefulSpec => []Inv
<1> QED
  BY InitInv, StepInv, PTL DEF CarefulSpec

-----------------------------------------------------------------------------
(* The leaf's fields keep their types: in particular the search never      *)
(* leaves the naturals (bom_tree.c:255-292).                               *)
THEOREM TypeCorrect == CarefulSpec => []TypeOK
<1>1. Inv => TypeOK
  BY DEF Inv
<1> QED
  BY <1>1, Invariance, PTL

(* The keys of the leaf are in order after every addition, whatever the    *)
(* keys and their order are.                                               *)
THEOREM LeafStaysSorted == CarefulSpec => []Sorted
<1>1. Inv => Sorted
  BY DEF Inv
<1> QED
  BY <1>1, Invariance, PTL

(* The key's place never leaves the range that the loop still searches,    *)
(* and where the entry goes in it fits between its neighbours.             *)
THEOREM SearchIsSound == CarefulSpec => []SearchInvariant
<1>1. Inv => SearchInvariant
  BY DEF Inv
<1> QED
  BY <1>1, Invariance, PTL

(* As long as no more is added than was reserved, beyond what an empty     *)
(* leaf has room for, every entry lies inside the leaf's block.            *)
THEOREM EntriesStayInside == CarefulSpec => []LeafHoldsEntries
<1>1. Inv => LeafHoldsEntries
  <2> SUFFICES ASSUME Inv PROVE LeafHoldsEntries
    OBVIOUS
  <2>1. /\ NodeSize + SlotSize * granted <= length
        /\ Len(slots) + Pending <= granted + Capacity
    BY DEF Inv, Room
  <2>2. granted \in Nat /\ length \in Nat /\ Len(slots) \in Nat /\ Pending \in Nat
    BY SlotKeys DEF Inv, TypeOK, Pending
  <2>3. Capacity \in Nat /\ 12 + 8 * Capacity <= NodeSize
    BY CapacityFits DEF LeafHeaderSize, SlotSize
  <2>4. \A g, c, p, b, n \in Nat :
          p <= g + c /\ 12 + 8 * c <= n /\ n + 8 * g <= b => 12 + 8 * p <= b
    OBVIOUS
  <2>5. Len(slots) + Pending \in Nat /\ NodeSize \in Nat
    BY <2>2, SizeAssumption
  <2> QED
    BY <2>1, <2>2, <2>3, <2>4, <2>5 DEF LeafHoldsEntries, LeafHeaderSize, SlotSize
<1> QED
  BY <1>1, Invariance, PTL

(* Every comparison ends the search or makes its range smaller, the        *)
(* assertion at bom_tree.c:281: the loop cannot run for ever.              *)
THEOREM SearchNarrows == CarefulSpec => RangeShrinks
<1>1. Inv /\ [CarefulNext]_vars
        => [CompareOne => pc' = "place" \/ end' - start' < end - start]_vars
  BY CompareInv
<1> QED
  BY <1>1, Invariance, PTL DEF CarefulSpec, RangeShrinks

(* The entries of s are in the new leaf in the order they had: those up to  *)
(* the place where they were, the others one further.                      *)
LEMMA WithOrder ==
  ASSUME NEW V, NEW s \in Seq(V), NEW e \in V, NEW p \in 0..Len(s),
         NEW i \in DOMAIN s, NEW j \in DOMAIN s, i < j
  PROVE  \E k, l \in DOMAIN With(s, p, e) :
           k < l /\ With(s, p, e)[k] = s[i] /\ With(s, p, e)[l] = s[j]
<1> DEFINE n == Len(s)
           w == With(s, p, e)
<1>1. n \in Nat /\ p \in Nat /\ DOMAIN s = 1..n
  OBVIOUS
<1>2. /\ DOMAIN w = 1 .. n + 1
      /\ \A k \in 1..n : k <= p => w[k] = s[k]
      /\ \A k \in 1..n : p < k => w[k + 1] = s[k]
  <2>1. p \in 0..Len(s) /\ s \in Seq(V) /\ e \in V
    OBVIOUS
  <2> QED
    BY <2>1, WithEntry
<1> HIDE DEF n, w
<1>3. i \in Nat /\ j \in Nat /\ i \in 1..n /\ j \in 1..n
  BY <1>1
<1>4. i \in DOMAIN w /\ j \in DOMAIN w /\ i + 1 \in DOMAIN w /\ j + 1 \in DOMAIN w
  BY <1>1, <1>2, <1>3
<1>5. CASE j <= p
  <2>1. w[i] = s[i] /\ w[j] = s[j]
    BY <1>1, <1>2, <1>3, <1>5
  <2> QED
    BY <1>4, <2>1 DEF w
<1>6. CASE i <= p /\ p < j
  <2>1. w[i] = s[i] /\ w[j + 1] = s[j] /\ i < j + 1
    BY <1>1, <1>2, <1>3, <1>6
  <2> QED
    BY <1>4, <2>1 DEF w
<1>7. CASE p < i
  <2>1. w[i + 1] = s[i] /\ w[j + 1] = s[j] /\ i + 1 < j + 1
    BY <1>1, <1>2, <1>3, <1>7
  <2> QED
    BY <1>4, <2>1 DEF w
<1>8. j <= p \/ (i <= p /\ p < j) \/ p < i
  BY <1>1, <1>3
<1> QED
  BY <1>5, <1>6, <1>7, <1>8

(* An addition leaves every entry of the leaf behind, in the order they    *)
(* had (bom_tree.c:315-325): entries that refer to blocks stay in step     *)
(* with the keys that the lookup compares.                                 *)
THEOREM AdditionKeepsOrder == CarefulSpec => OrderKept
<1> DEFINE Kept == \A i, j \in DOMAIN slots : i < j =>
             \E k, l \in DOMAIN slots' : k < l /\ slots'[k] = slots[i] /\ slots'[l] = slots[j]
<1>1. ASSUME Inv, Place PROVE Kept
  <2>1. slots' = With(slots, at, entry) /\ at \in 0..Len(slots)
    BY <1>1, PlaceWith
  <2>2. slots \in Seq(EntriesOf(Nat)) /\ entry \in EntriesOf(Nat)
    BY <1>1 DEF Inv, TypeOK
  <2>3. ASSUME NEW i \in DOMAIN slots, NEW j \in DOMAIN slots, i < j
        PROVE  \E k, l \in DOMAIN With(slots, at, entry) :
                 k < l /\ With(slots, at, entry)[k] = slots[i]
                       /\ With(slots, at, entry)[l] = slots[j]
    BY <2>1, <2>2, <2>3, WithOrder
  <2> QED
    BY <2>1, <2>3
<1>2. ASSUME slots' = slots PROVE Kept
  BY <1>2
<1>3. [CarefulNext]_vars => slots' = slots \/ Place
  BY DEF CarefulNext, Add, Reserve, BeginAdd, CompareOne, EndSearch, vars
<1>4. Inv /\ [CarefulNext]_vars => [Kept]_vars
  <2> HIDE DEF Kept
  <2> QED
    BY <1>1, <1>2, <1>3
<1>5. CarefulSpec => [][Kept]_vars
  BY <1>4, Invariance, PTL DEF CarefulSpec
<1> QED
  BY <1>5 DEF OrderKept

-----------------------------------------------------------------------------
(* The serial number on its way is the next one. *)
Serial == NothingLost /\ (pc # "idle" => entry.value = path_count)

(* An insertion shifts the entries behind it and keeps the others. *)
LEMMA PlaceSerial ==
  ASSUME Inv, Serial, Place
  PROVE  Serial'
<1>1. /\ pc = "place" /\ pc' = "idle" /\ at \in 0..Len(slots)
      /\ slots' = With(slots, at, entry) /\ path_count' = path_count + 1
  BY PlaceWith
<1>2. /\ slots \in Seq(EntriesOf(Nat)) /\ entry \in EntriesOf(Nat)
      /\ Len(slots) \in Nat /\ DOMAIN slots = 1 .. Len(slots) /\ at \in Nat /\ at <= Len(slots)
  BY <1>1, SlotKeys DEF Inv, TypeOK
<1>3. /\ Len(slots) = path_count /\ entry.value = path_count
      /\ \A v \in 0 .. path_count - 1 : \E i \in DOMAIN slots : slots[i].value = v
  BY <1>1 DEF Serial, NothingLost
<1>4. /\ Len(slots') = Len(slots) + 1 /\ DOMAIN slots' = 1 .. Len(slots) + 1
      /\ slots'[at + 1] = entry
      /\ \A k \in 1 .. Len(slots) : k <= at => slots'[k] = slots[k]
      /\ \A k \in 1 .. Len(slots) : at < k => slots'[k + 1] = slots[k]
  <2> DEFINE w == With(slots, at, entry)
  <2>1. at \in 0..Len(slots) /\ slots \in Seq(EntriesOf(Nat)) /\ entry \in EntriesOf(Nat)
    BY <1>1, <1>2
  <2>2. Len(w) = Len(slots) + 1 /\ DOMAIN w = 1 .. Len(slots) + 1 /\ w[at + 1] = entry
    BY <2>1, WithEntry
  <2>3. \A k \in 1 .. Len(slots) : k <= at => w[k] = slots[k]
    BY <2>1, WithEntry
  <2>4. \A k \in 1 .. Len(slots) : at < k => w[k + 1] = slots[k]
    BY <2>1, WithEntry
  <2> QED
    BY <1>1, <2>2, <2>3, <2>4
<1>5. ASSUME NEW v \in 0 .. path_count
      PROVE  \E i \in DOMAIN slots' : slots'[i].value = v
  <2>1. CASE v = path_count
    <3>1. at + 1 \in DOMAIN slots'
      BY <1>2, <1>4
    <3> QED
      BY <1>3, <1>4, <2>1, <3>1
  <2>2. CASE v # path_count
    <3>1. v \in 0 .. path_count - 1
      BY <1>2, <1>3, <2>2
    <3>2. PICK i \in 1 .. Len(slots) : slots[i].value = v
      BY <1>2, <1>3, <3>1
    <3>3. CASE i <= at
      <4>1. i \in DOMAIN slots' /\ slots'[i] = slots[i]
        BY <1>2, <1>4, <3>3
      <4> QED
        BY <3>2, <4>1
    <3>4. CASE at < i
      <4>1. i + 1 \in DOMAIN slots' /\ slots'[i + 1] = slots[i]
        BY <1>2, <1>4, <3>4
      <4> QED
        BY <3>2, <4>1
    <3> QED
      BY <1>2, <3>3, <3>4
  <2> QED
    BY <2>1, <2>2
<1>6. path_count' = Len(slots') /\ path_count' - 1 = path_count
  BY <1>1, <1>2, <1>3, <1>4
<1> QED
  BY <1>1, <1>5, <1>6 DEF Serial, NothingLost

(* The leaf holds every entry that was added, and as many as the header    *)
(* of the tree counts (bom_tree.c:315-325).                                *)
THEOREM EveryEntryStays == CarefulSpec => []NothingLost
<1>1. Init => Serial
  BY DEF Init, Serial, NothingLost
<1>2. Inv /\ Serial /\ [CarefulNext]_vars => Serial'
  <2> SUFFICES ASSUME Inv, Serial, [CarefulNext]_vars PROVE Serial'
    OBVIOUS
  <2>1. CASE Place
    BY <2>1, PlaceSerial
  <2>2. ASSUME NEW count \in ReserveCounts, Reserve(count) PROVE Serial'
    BY <2>2 DEF Reserve, Serial, NothingLost
  <2>3. ASSUME NEW key \in Keys, BeginAdd(key) PROVE Serial'
    BY <2>3 DEF BeginAdd, Serial, NothingLost
  <2>4. CASE CompareOne \/ EndSearch \/ UNCHANGED vars
    BY <2>4 DEF CompareOne, EndSearch, vars, Serial, NothingLost
  <2> QED
    BY <2>1, <2>2, <2>3, <2>4 DEF CarefulNext, Add
<1>3. Serial => NothingLost
  BY DEF Serial
<1> QED
  BY <1>1, <1>2, <1>3, Invariance, PTL DEF CarefulSpec
=============================================================================
