------------------------------- MODULE BomTree -------------------------------
(***************************************************************************)
(* One BOM tree as bom_tree.c builds it: a single leaf that holds its      *)
(* entries sorted by key, and bom_tree_add with its binary search, one     *)
(* comparison per step.  The keys and their order are parameters; KeyOrder *)
(* has the order of the code.                                              *)
(***************************************************************************)
EXTENDS BomLeaf

CONSTANTS
  Keys,            \* the keys that are added
  Compare(_, _),   \* negative, zero or positive
  ReserveCounts,   \* the counts given to bom_tree_reserve
  NodeSize,        \* bytes of an empty leaf: 4096 in the code
  CountLimit,      \* the count of a leaf has 16 bits: 65536 in the code
  MaxPaths         \* bound on the number of entries that are added

ASSUME OrderAssumption ==
  /\ \A a, b \in Keys : Compare(a, b) \in Int
  /\ \A a, b \in Keys : Compare(a, b) < 0 <=> Compare(b, a) > 0
  /\ \A a, b, c \in Keys : Compare(a, b) <= 0 /\ Compare(b, c) <= 0 => Compare(a, c) <= 0

ASSUME SizeAssumption ==
  /\ NodeSize \in Nat /\ NodeSize >= 12
  /\ CountLimit \in Nat \ {0} /\ MaxPaths \in Nat
  /\ ReserveCounts \subseteq Nat

(* How many entries a leaf has room for as it is allocated. *)
Capacity == (NodeSize - LeafHeaderSize) \div SlotSize

VARIABLES
  slots,        \* the entries of the leaf, as [key, value]
  length,       \* the length of the leaf's block
  path_count,   \* of struct bom_tree
  granted,      \* history: how many entries have been reserved
  pc,           \* where bom_tree_add is: "idle", "search" or "place"
  entry,        \* the entry that it adds
  start,        \* start_range
  end,          \* end_range
  at            \* entry_index

vars == << slots, length, path_count, granted, pc, entry, start, end, at >>

EntriesOf(values) == [key : Keys, value : values]

(* bom_tree_alloc_empty. *)
Init ==
  /\ slots = << >> /\ length = NodeSize /\ path_count = 0 /\ granted = 0
  /\ pc = "idle" /\ start = 0 /\ end = 0 /\ at = 0
  /\ entry \in EntriesOf({0})     \* not initialised, and not used

(* bom_tree_reserve: the leaf's block is lengthened, nothing else. *)
Reserve(count) ==
  /\ pc = "idle"
  /\ length' = Reserved(length, count)
  /\ granted' = granted + count
  /\ UNCHANGED << slots, path_count, pc, entry, start, end, at >>

(* bom_tree_add up to the loop; the value is a serial number. *)
BeginAdd(key) ==
  /\ pc = "idle"
  /\ entry' = [key |-> key, value |-> path_count]
  /\ length' = Grown(Len(slots), length)
  /\ start' = 0 /\ end' = Len(slots) /\ at' = 0
  /\ pc' = "search"
  /\ UNCHANGED << slots, path_count, granted >>

(* mutants: the middle is excluded from the lower half, or kept in the upper *)
BelowMiddle(middle) == middle - 1
FromMiddle(middle)  == middle

LowerHalf(middle) == middle        \* end_range of what is below the middle
UpperHalf(middle) == middle + 1    \* start_range of what is above it

(* One turn of the loop.  at counts from 0. *)
CompareOne ==
  LET middle == (end - start) \div 2 + start
      result == Compare(entry.key, slots[middle + 1].key)
  IN /\ pc = "search" /\ start < end
     /\ at' = middle
     /\ end' = IF result < 0 THEN LowerHalf(middle) ELSE end
     /\ start' = IF result > 0 THEN UpperHalf(middle) ELSE start
     /\ pc' = IF result = 0 THEN "place" ELSE "search"
     /\ UNCHANGED << slots, length, path_count, granted, entry >>

(* mutant: the last middle is taken for the place (bom_tree.c:294) *)
StaleMiddle == at

Found == start

(* The loop ends without an exact match. *)
EndSearch ==
  /\ pc = "search" /\ start >= end
  /\ at' = Found
  /\ pc' = "place"
  /\ UNCHANGED << slots, length, path_count, granted, entry, start, end >>

(* The entry is put into its place and both counts are updated.  When the  *)
(* count of the leaf wraps, the leaf looks empty.                          *)
Place ==
  /\ pc = "place"
  /\ slots' = IF Len(slots) + 1 = CountLimit THEN << >> ELSE With(slots, at, entry)
  /\ path_count' = path_count + 1
  /\ pc' = "idle"
  /\ UNCHANGED << length, granted, entry, start, end, at >>

Add == CompareOne \/ EndSearch \/ Place

Next ==
  \/ \E count \in ReserveCounts : granted + count <= MaxPaths /\ Reserve(count)
  \/ \E key \in Keys : path_count < MaxPaths /\ BeginAdd(key)
  \/ Add

Spec == Init /\ [][Next]_vars

-----------------------------------------------------------------------------
(* How Writer::write uses the tree: it reserves what it is going to add.   *)
(* A leaf also has room for Capacity entries from the start, and its count *)
(* must not wrap.                                                          *)
HasRoom == /\ Len(slots) < granted + Capacity
           /\ Len(slots) + 1 < CountLimit

CarefulNext ==
  \/ \E count \in ReserveCounts : granted + count <= MaxPaths /\ Reserve(count)
  \/ \E key \in Keys : path_count < MaxPaths /\ HasRoom /\ BeginAdd(key)
  \/ Add

CarefulSpec == Init /\ [][CarefulNext]_vars

(* The loop runs by itself once bom_tree_add is called. *)
FairSpec == CarefulSpec /\ WF_vars(Add)

-----------------------------------------------------------------------------
TypeOK ==
  /\ slots \in Seq(EntriesOf(Nat))
  /\ length \in Nat /\ path_count \in Nat /\ granted \in Nat
  /\ pc \in {"idle", "search", "place"}
  /\ entry \in EntriesOf(Nat)
  /\ start \in Nat /\ end \in Nat /\ at \in Nat

(* The entries are sorted by key at every moment (bom_tree.c:261, 294). *)
Sorted ==
  \A i, j \in DOMAIN slots : i < j => Compare(slots[i].key, slots[j].key) <= 0

(* The loop looks where the key belongs: nothing before the range is       *)
(* greater, nothing behind it is smaller.                                  *)
RangeBrackets ==
  /\ start <= end /\ end <= Len(slots)
  /\ \A i \in DOMAIN slots : i <= start => Compare(slots[i].key, entry.key) <= 0
  /\ \A i \in DOMAIN slots : end < i => Compare(entry.key, slots[i].key) <= 0

(* Where the entry goes in, its neighbours are in order with it. *)
PlaceFits ==
  /\ at <= Len(slots)
  /\ \A i \in DOMAIN slots : i <= at => Compare(slots[i].key, entry.key) <= 0
  /\ \A i \in DOMAIN slots : at < i => Compare(entry.key, slots[i].key) <= 0

SearchInvariant ==
  /\ pc = "search" => RangeBrackets
  /\ pc = "place" => PlaceFits

Pending == IF pc = "idle" THEN 0 ELSE 1

(* The entries of the leaf, the one on its way included, lie inside the    *)
(* leaf's block (bom_tree.c:247, "extending the size as necessary").       *)
LeafHoldsEntries == LeafHeaderSize + SlotSize * (Len(slots) + Pending) <= length

(* Every entry that was added is in the leaf, once. *)
NothingLost ==
  /\ Len(slots) = path_count
  /\ \A v \in 0 .. path_count - 1 : \E i \in DOMAIN slots : slots[i].value = v

(* "The range always shrinks" (bom_tree.c:281). *)
RangeShrinks ==
  [][CompareOne => pc' = "place" \/ end' - start' < end - start]_vars

(* An addition keeps the entries that were there, in their order. *)
OrderKept ==
  [][\A i, j \in DOMAIN slots : i < j =>
       \E k, l \in DOMAIN slots' : k < l /\ slots'[k] = slots[i] /\ slots'[l] = slots[j]]_vars

(* Every addition comes to its end. *)
AddEnds == pc # "idle" ~> pc = "idle"
=============================================================================
