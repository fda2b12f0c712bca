------------------------------ MODULE DataLemmas ------------------------------
(***************************************************************************)
(* Sequences whose elements have no common type, such as the blocks of a   *)
(* file: what appending and replacing an element leaves of them.  Sets of  *)
(* numbers: their least element, induction, and their enumeration.  And,   *)
(* in the last section, the codes of LZVN, which are arithmetic on bytes.  *)
(***************************************************************************)
EXTENDS Integers, SequencesExt, SequenceTheorems, FiniteSetTheorems, TLAPS

(* A sequence, whatever is in it. *)
IsSeq(s) == s \in Seq(ToSet(s))

(* A sequence over some set is one over the set of its own elements. *)
LEMMA SeqOfItsElements ==
  ASSUME NEW S, NEW s \in Seq(S)
  PROVE  IsSeq(s) /\ DOMAIN s = 1 .. Len(s) /\ Len(s) \in Nat
<1>1. s \in [1 .. Len(s) -> S] /\ Len(s) \in Nat
  BY LenProperties
<1>2. s \in [1 .. Len(s) -> ToSet(s)]
  BY <1>1 DEF ToSet
<1> QED BY <1>1, <1>2, SeqDef DEF IsSeq

WithAt(s, i, x) == [s EXCEPT ![i] = x]

(* Replacing an element leaves a sequence of the same length. *)
LEMMA Replaced ==
  ASSUME NEW s, IsSeq(s), NEW i \in 1 .. Len(s), NEW x
  PROVE  /\ IsSeq(WithAt(s, i, x)) /\ Len(WithAt(s, i, x)) = Len(s)
         /\ WithAt(s, i, x)[i] = x
         /\ \A j \in 1 .. Len(s) : j # i => WithAt(s, i, x)[j] = s[j]
<1> DEFINE t == WithAt(s, i, x)
<1>1. DOMAIN s = 1 .. Len(s) /\ Len(s) \in Nat /\ s \in [1 .. Len(s) -> ToSet(s)]
  BY SeqOfItsElements, LenProperties DEF IsSeq
<1>2. /\ t \in [1 .. Len(s) -> ToSet(s) \cup {x}]
      /\ t[i] = x /\ \A j \in 1 .. Len(s) : j # i => t[j] = s[j]
  BY <1>1 DEF WithAt
<1> HIDE DEF t
<1>3. t \in Seq(ToSet(s) \cup {x}) /\ Len(t) = Len(s)
  BY <1>1, <1>2, SeqDef, LenProperties
<1>4. IsSeq(t)
  BY <1>3, SeqOfItsElements
<1> QED BY <1>2, <1>3, <1>4 DEF t

(* So does appending one, of a length greater by one. *)
LEMMA Appended ==
  ASSUME NEW s, IsSeq(s), NEW x
  PROVE  /\ IsSeq(Append(s, x)) /\ Len(Append(s, x)) = Len(s) + 1 /\ Len(s) \in Nat
         /\ Append(s, x)[Len(s) + 1] = x
         /\ \A j \in 1 .. Len(s) : Append(s, x)[j] = s[j]
<1> DEFINE S == ToSet(s) \cup {x}
<1>1. DOMAIN s = 1 .. Len(s) /\ Len(s) \in Nat /\ s \in [1 .. Len(s) -> ToSet(s)]
  BY SeqOfItsElements, LenProperties DEF IsSeq
<1>2. s \in Seq(S) /\ x \in S
  BY <1>1, SeqDef
<1> HIDE DEF S
<1>3. Append(s, x) \in Seq(S) /\ Len(Append(s, x)) = Len(s) + 1
  BY <1>2, AppendProperties
<1>4. /\ Append(s, x)[Len(s) + 1] = x
      /\ \A j \in 1 .. Len(s) : Append(s, x)[j] = s[j]
  BY <1>2, AppendProperties
<1> QED BY <1>1, <1>3, <1>4, SeqOfItsElements

(* Nor does a concatenation disturb what it is made of. *)
LEMMA Concatenated ==
  ASSUME NEW s, IsSeq(s), NEW t, IsSeq(t)
  PROVE  /\ IsSeq(s \o t) /\ Len(s \o t) = Len(s) + Len(t)
         /\ Len(s) \in Nat /\ Len(t) \in Nat
         /\ \A j \in 1 .. Len(s) : (s \o t)[j] = s[j]
         /\ \A j \in 1 .. Len(t) : (s \o t)[Len(s) + j] = t[j]
<1> DEFINE S == ToSet(s) \cup ToSet(t)
<1>1. /\ Len(s) \in Nat /\ s \in [1 .. Len(s) -> ToSet(s)]
      /\ Len(t) \in Nat /\ t \in [1 .. Len(t) -> ToSet(t)]
  BY SeqOfItsElements, LenProperties DEF IsSeq
<1>2. s \in Seq(S) /\ t \in Seq(S)
  BY <1>1, SeqDef
<1> HIDE DEF S
<1>3. /\ s \o t \in Seq(S) /\ Len(s \o t) = Len(s) + Len(t)
      /\ \A j \in 1 .. Len(s) : (s \o t)[j] = s[j]
  BY <1>1, <1>2, ConcatProperties
<1>4. \A j \in 1 .. Len(t) : (s \o t)[Len(s) + j] = t[j]
  <2> SUFFICES ASSUME NEW j \in 1 .. Len(t) PROVE (s \o t)[Len(s) + j] = t[j]
    OBVIOUS
  <2>1. Len(s) + j \in 1 .. Len(s) + Len(t) /\ ~(Len(s) + j <= Len(s)) /\ Len(s) + j - Len(s) = j
    BY <1>1
  <2> QED BY <1>2, <2>1, ConcatProperties
<1> QED BY <1>1, <1>3, <1>4, SeqOfItsElements

(* Of the elements, each is in the set of them. *)
LEMMA ElementIn ==
  ASSUME NEW s, IsSeq(s), NEW i \in 1 .. Len(s)
  PROVE  s[i] \in ToSet(s)
BY SeqOfItsElements DEF IsSeq, ToSet

-----------------------------------------------------------------------------
(***************************************************************************)
(* Every set of natural numbers that is not empty has a least element. The *)
(* library's induction over the natural numbers has an operator as its     *)
(* parameter; the strict subset order of finite sets, which it proves to   *)
(* be well-founded, has none.                                              *)
(***************************************************************************)
LEMMA Least ==
  ASSUME NEW T, T \subseteq Nat, T # {}
  PROVE  \E x \in T : \A y \in T : x <= y
<1> DEFINE F == {0 .. x - 1 : x \in T}
<1>1. IsWellFoundedOn(StrictSubsetOrdering(Nat), FiniteSubsetsOf(Nat))
  BY FS_StrictSubsetOrderingWellFounded
<1>2. F \subseteq FiniteSubsetsOf(Nat)
  <2> SUFFICES ASSUME NEW x \in T PROVE 0 .. x - 1 \in FiniteSubsetsOf(Nat)
    OBVIOUS
  <2>1. x \in Nat
    OBVIOUS
  <2>2. IsFiniteSet(0 .. x - 1)
    BY <2>1, FS_Interval
  <2> QED BY <2>1, <2>2 DEF FiniteSubsetsOf
<1>3. F # {}
  OBVIOUS
<1> HIDE DEF F
<1>4. PICK s \in F : \A t \in F : << t, s >> \notin StrictSubsetOrdering(Nat)
  BY <1>1, <1>2, <1>3, WFMin
<1>5. PICK x \in T : s = 0 .. x - 1
  BY DEF F
<1>6. ASSUME NEW y \in T, y < x PROVE FALSE
  <2>1. 0 .. y - 1 \in F
    BY DEF F
  <2>2. /\ 0 .. y - 1 \subseteq 0 .. x - 1 /\ 0 .. x - 1 \subseteq Nat
        /\ y \in 0 .. x - 1 /\ y \notin 0 .. y - 1
    BY <1>6
  <2>3. << 0 .. y - 1, 0 .. x - 1 >> \in StrictSubsetOrdering(Nat)
    BY <2>2 DEF StrictSubsetOrdering
  <2> QED BY <1>4, <1>5, <2>1, <2>3
<1> QED BY <1>6

(* So does a set that is closed under successors have them all: induction. *)
LEMMA Induction ==
  ASSUME NEW S, 0 \in S, \A n \in Nat : n \in S => n + 1 \in S
  PROVE  \A n \in Nat : n \in S
<1> SUFFICES ASSUME Nat \ S # {} PROVE FALSE
  OBVIOUS
<1>1. PICK x \in Nat \ S : \A y \in Nat \ S : x <= y
  BY Least
<1>2. x # 0 /\ x - 1 \in Nat /\ x - 1 \in S
  BY <1>1
<1> QED BY <1>1, <1>2

(* So Min finds it. *)
LEMMA MinOfNaturals ==
  ASSUME NEW T, T \subseteq Nat, T # {}
  PROVE  Min(T) \in T /\ \A y \in T : Min(T) <= y
BY Least DEF Min

(* The elements of a finite set of numbers by their rank. *)
Rank(ids, id) == Cardinality({k \in ids : k < id})

Ranked(ids) == [i \in 1 .. Cardinality(ids) |-> CHOOSE id \in ids : Rank(ids, id) = i - 1]

(* Different elements have different ranks, and there are as many. *)
LEMMA Ranks ==
  ASSUME NEW ids, IsFiniteSet(ids), ids \subseteq Int
  PROVE  /\ \A id \in ids : Rank(ids, id) \in 0 .. Cardinality(ids) - 1
         /\ \A a, b \in ids : a < b => Rank(ids, a) < Rank(ids, b)
         /\ \A i \in 0 .. Cardinality(ids) - 1 : \E id \in ids : Rank(ids, id) = i
<1> DEFINE rank == [id \in ids |-> Rank(ids, id)]
           below(id) == {k \in ids : k < id}
           n == Cardinality(ids)
<1>1. n \in Nat
  BY FS_CardinalityType
<1>2. \A id \in ids : IsFiniteSet(below(id)) /\ rank[id] = Cardinality(below(id)) /\ rank[id] \in Nat
  <2> SUFFICES ASSUME NEW id \in ids PROVE IsFiniteSet(below(id)) /\ Cardinality(below(id)) \in Nat
    BY DEF Rank
  <2>1. below(id) \in SUBSET ids
    OBVIOUS
  <2> QED BY <2>1, FS_Subset, FS_CardinalityType
<1>3. ASSUME NEW id \in ids PROVE rank[id] < n
  <2>1. below(id) \in SUBSET ids /\ id \notin below(id)
    OBVIOUS
  <2>2. Cardinality(below(id)) <= n /\ Cardinality(below(id)) # n
    BY <2>1, FS_Subset
  <2> QED BY <1>1, <1>2, <2>2
<1>4. ASSUME NEW a \in ids, NEW b \in ids, a < b PROVE rank[a] < rank[b]
  <2>1. below(a) \in SUBSET below(b) /\ a \in below(b) /\ a \notin below(a)
    <3>1. ASSUME NEW k \in ids, k < a PROVE k < b
      <4>1. k \in Int /\ a \in Int /\ b \in Int
        OBVIOUS
      <4> QED BY <1>4, <3>1, <4>1
    <3>2. ~(a < a)
      <4>1. a \in Int
        OBVIOUS
      <4> QED BY <4>1
    <3>3. a \in below(b) /\ a \notin below(a)
      BY <1>4, <3>2
    <3>4. below(a) \in SUBSET below(b)
      BY <3>1
    <3> QED BY <3>3, <3>4
  <2> HIDE DEF below
  <2>2. Cardinality(below(a)) <= Cardinality(below(b)) /\ Cardinality(below(b)) # Cardinality(below(a))
    BY <1>2, <2>1, FS_Subset
  <2> QED BY <1>2, <2>2
<1>5. rank \in [ids -> 0 .. n - 1]
  <2>1. \A id \in ids : rank[id] \in 0 .. n - 1
    <3> SUFFICES ASSUME NEW id \in ids PROVE rank[id] \in 0 .. n - 1
      OBVIOUS
    <3>1. rank[id] \in Nat /\ rank[id] < n
      BY <1>2, <1>3
    <3> HIDE DEF n, rank
    <3> QED BY <1>1, <3>1
  <2> QED BY <2>1
<1>6. rank \in Injection(ids, 0 .. n - 1)
  <2>1. \A a, b \in ids : rank[a] = rank[b] => a = b
    <3> HIDE DEF rank
    <3>1. \A a \in ids : a \in Int /\ rank[a] \in Nat
      BY <1>2
    <3> QED BY <1>4, <3>1
  <2> QED BY <1>5, <2>1 DEF Injection, IsInjective
<1>7. IsFiniteSet(0 .. n - 1) /\ Cardinality(0 .. n - 1) = n
  <2>1. IsFiniteSet(0 .. n - 1) /\ Cardinality(0 .. n - 1) = IF 0 > n - 1 THEN 0 ELSE n - 1 - 0 + 1
    BY <1>1, FS_Interval
  <2> QED BY <1>1, <2>1
<1> HIDE DEF rank, n
<1>8. rank \in Surjection(ids, 0 .. n - 1)
  BY <1>6, <1>7, FS_Injection DEF n
<1>9. \A i \in 0 .. n - 1 : \E id \in ids : rank[id] = i
  BY <1>8 DEF Surjection
<1> QED BY <1>3, <1>4, <1>5, <1>9 DEF rank, n

(* They come in ascending order, each of them once. *)
LEMMA RankedSet ==
  ASSUME NEW ids, IsFiniteSet(ids), ids \subseteq Int
  PROVE  /\ Cardinality(ids) \in Nat
         /\ Ranked(ids) \in Seq(ids) /\ Len(Ranked(ids)) = Cardinality(ids)
         /\ DOMAIN Ranked(ids) = 1 .. Cardinality(ids)
         /\ \A i, j \in 1 .. Cardinality(ids) : i < j => Ranked(ids)[i] < Ranked(ids)[j]
         /\ ToSet(Ranked(ids)) = ids
<1> DEFINE rank(id) == Rank(ids, id)
           n == Cardinality(ids)
           s == Ranked(ids)
<1>1. n \in Nat
  BY FS_CardinalityType
<1>2. /\ \A id \in ids : rank(id) \in 0 .. n - 1
      /\ \A a, b \in ids : a < b => rank(a) < rank(b)
      /\ \A i \in 0 .. n - 1 : \E id \in ids : rank(id) = i
  BY Ranks
<1>3. s = [i \in 1 .. n |-> CHOOSE id \in ids : rank(id) = i - 1]
  BY DEF Ranked
<1> HIDE DEF rank, n, s
<1>4. \A i \in 1 .. n : s[i] \in ids /\ rank(s[i]) = i - 1
  <2> SUFFICES ASSUME NEW i \in 1 .. n PROVE s[i] \in ids /\ rank(s[i]) = i - 1
    OBVIOUS
  <2>1. i - 1 \in 0 .. n - 1
    BY <1>1
  <2>2. \E id \in ids : rank(id) = i - 1
    BY <1>2, <2>1
  <2> QED BY <1>3, <2>2
<1>5. \A a, b \in ids : rank(a) = rank(b) => a = b
  <2>1. \A a \in ids : a \in Int
    OBVIOUS
  <2>2. \A a \in ids : rank(a) \in Int
    BY <1>1, <1>2
  <2> QED BY <1>2, <2>1, <2>2
<1>6. \A i, j \in 1 .. n : i < j => s[i] < s[j]
  <2> SUFFICES ASSUME NEW i \in 1 .. n, NEW j \in 1 .. n, i < j PROVE s[i] < s[j]
    OBVIOUS
  <2>1. s[i] \in Int /\ s[j] \in Int
    BY <1>4
  <2>2. rank(s[i]) < rank(s[j])
    BY <1>1, <1>4
  <2> QED BY <1>2, <1>4, <2>1, <2>2
<1>7. s \in Seq(ids) /\ Len(s) = n /\ DOMAIN s = 1 .. n
  <2>1. s \in [1 .. n -> ids]
    BY <1>3, <1>4
  <2> QED BY <1>1, <2>1, SeqDef, LenProperties
<1>8. \A id \in ids : \E i \in 1 .. n : s[i] = id
  <2> SUFFICES ASSUME NEW id \in ids PROVE \E i \in 1 .. n : s[i] = id
    OBVIOUS
  <2>1. rank(id) + 1 \in 1 .. n /\ rank(id) \in Int
    BY <1>1, <1>2
  <2> DEFINE i == rank(id) + 1
  <2>2. s[i] \in ids /\ rank(s[i]) = i - 1
    BY <1>4, <2>1
  <2>3. rank(s[i]) = rank(id)
    BY <2>1, <2>2
  <2>4. s[i] = id
    BY <1>5, <2>2, <2>3
  <2> QED BY <2>1, <2>4
<1>9. ToSet(s) = ids
  BY <1>4, <1>7, <1>8 DEF ToSet
<1> QED BY <1>1, <1>6, <1>7, <1>9 DEF n, s

(* No other sequence ascends through the same numbers. *)
LEMMA RankedIsUnique ==
  ASSUME NEW n \in Nat, NEW t \in [1 .. n -> Int],
         \A i, j \in 1 .. n : i < j => t[i] < t[j]
  PROVE  LET ids == {t[i] : i \in 1 .. n}
         IN IsFiniteSet(ids) /\ Cardinality(ids) = n /\ Ranked(ids) = t
<1> DEFINE ids == {t[i] : i \in 1 .. n}
           first(m) == {t[i] : i \in 1 .. m}
           part(m) == [i \in 1 .. m |-> t[i]]
<1>1. ASSUME NEW m \in 0 .. n PROVE IsFiniteSet(first(m)) /\ Cardinality(first(m)) = m
  <2>1. m \in Nat /\ \A i \in 1 .. m : i \in 1 .. n /\ i \in Int
    OBVIOUS
  <2>2. part(m) \in [1 .. m -> first(m)]
    OBVIOUS
  <2>3. \A i, j \in 1 .. m : part(m)[i] = part(m)[j] => i = j
    <3> SUFFICES ASSUME NEW i \in 1 .. m, NEW j \in 1 .. m, t[i] = t[j], i # j PROVE FALSE
      OBVIOUS
    <3>1. t[i] \in Int /\ t[j] \in Int /\ (i < j \/ j < i)
      BY <2>1
    <3> QED BY <2>1, <3>1
  <2>4. \A x \in first(m) : \E i \in 1 .. m : part(m)[i] = x
    OBVIOUS
  <2> HIDE DEF part, first
  <2>5. part(m) \in Bijection(1 .. m, first(m))
    BY <2>2, <2>3, <2>4 DEF Bijection, Injection, Surjection, IsInjective
  <2>6. ExistsBijection(1 .. m, first(m))
    BY <2>5 DEF ExistsBijection
  <2>7. IsFiniteSet(1 .. m)
    BY <2>1, FS_Interval
  <2> QED BY <2>1, <2>6, <2>7, FS_Bijection, FS_CountingElements
<1>2. ids = first(n) /\ n \in 0 .. n
  OBVIOUS
<1>3. IsFiniteSet(ids) /\ Cardinality(ids) = n
  BY <1>1, <1>2
<1>4. ids \subseteq Int
  OBVIOUS
<1> DEFINE rank(id) == Rank(ids, id)
<1>5. ASSUME NEW i \in 1 .. n PROVE rank(t[i]) = i - 1
  <2>1. i - 1 \in 0 .. n
    OBVIOUS
  <2>2. \A j \in 1 .. n : t[j] < t[i] <=> j < i
    <3> SUFFICES ASSUME NEW j \in 1 .. n PROVE t[j] < t[i] <=> j < i
      OBVIOUS
    <3>1. t[i] \in Int /\ t[j] \in Int /\ (i < j \/ j < i \/ i = j)
      OBVIOUS
    <3>2. (i < j => t[i] < t[j]) /\ (j < i => t[j] < t[i])
      OBVIOUS
    <3> QED BY <3>1, <3>2
  <2>3. {k \in ids : k < t[i]} = first(i - 1)
    <3>1. ASSUME NEW k \in ids, k < t[i] PROVE k \in first(i - 1)
      <4>1. PICK j \in 1 .. n : k = t[j]
        OBVIOUS
      <4>2. j \in 1 .. i - 1
        BY <2>2, <3>1, <4>1
      <4> QED BY <4>1, <4>2
    <3>2. ASSUME NEW k \in first(i - 1) PROVE k \in ids /\ k < t[i]
      <4>1. PICK j \in 1 .. i - 1 : k = t[j]
        OBVIOUS
      <4>2. j \in 1 .. n /\ j < i
        OBVIOUS
      <4> QED BY <2>2, <4>1, <4>2
    <3> QED BY <3>1, <3>2
  <2>4. t[i] \in ids /\ Cardinality(first(i - 1)) = i - 1
    BY <1>1, <2>1
  <2>5. rank(t[i]) = Cardinality({k \in ids : k < t[i]})
    BY DEF Rank
  <2> QED BY <2>3, <2>4, <2>5
<1>6. \A i \in 1 .. n : \A id \in ids : rank(id) = i - 1 <=> id = t[i]
  <2> SUFFICES ASSUME NEW i \in 1 .. n, NEW id \in ids PROVE rank(id) = i - 1 <=> id = t[i]
    OBVIOUS
  <2>1. PICK j \in 1 .. n : id = t[j]
    OBVIOUS
  <2> HIDE DEF rank, ids
  <2>2. rank(id) = j - 1
    BY <1>5, <2>1
  <2>3. rank(t[i]) = i - 1
    BY <1>5
  <2> QED BY <2>1, <2>2, <2>3
<1>7. Ranked(ids) = [i \in 1 .. n |-> CHOOSE id \in ids : rank(id) = i - 1]
  BY <1>3 DEF Ranked
<1>8. \A i \in 1 .. n : t[i] \in ids
  OBVIOUS
<1> HIDE DEF rank, ids, first
<1>9. \A i \in 1 .. n : (CHOOSE id \in ids : rank(id) = i - 1) = t[i]
  BY <1>6, <1>8
<1> DEFINE r == Ranked(ids)
<1>10. r = [i \in 1 .. n |-> t[i]]
  BY <1>7, <1>9
<1>11. t = [i \in 1 .. n |-> t[i]]
  OBVIOUS
<1> QED BY <1>3, <1>10, <1>11 DEF r, ids

(* So many numbers are in 1..n. *)
LEMMA SizeOfRange ==
  ASSUME NEW n \in Nat
  PROVE  IsFiniteSet(1..n) /\ Cardinality(1..n) = n
<1>1. 1 \in Int /\ n \in Int
  OBVIOUS
<1>2. IsFiniteSet(1..n) /\ Cardinality(1..n) = IF 1 > n THEN 0 ELSE n - 1 + 1
  BY <1>1, FS_Interval
<1> DEFINE k == Cardinality(1..n)
<1>3. k = IF 1 > n THEN 0 ELSE n - 1 + 1
  BY <1>2
<1> HIDE DEF k
<1>4. k = n
  BY <1>3
<1> QED BY <1>2, <1>4 DEF k

(* One of the elements is gone. *)
LEMMA OneLess ==
  ASSUME NEW S, IsFiniteSet(S), NEW x \in S
  PROVE  Cardinality(S \ {x}) \in Nat /\ Cardinality(S) = Cardinality(S \ {x}) + 1
<1>1. /\ IsFiniteSet(S \ {x}) /\ Cardinality(S \ {x}) = Cardinality(S) - 1
  BY FS_RemoveElement
<1>2. Cardinality(S) \in Nat /\ Cardinality(S \ {x}) \in Nat
  BY <1>1, FS_CardinalityType
<1> QED BY <1>1, <1>2

-----------------------------------------------------------------------------
(***************************************************************************)
(* Every instruction that emit packs is read back by the decoder as what   *)
(* it was packed from, for all matches and distances of the format: the    *)
(* runs meet only some of the 65535 distances. The literals and the match  *)
(* share the first byte with the codes of the other instructions, so what  *)
(* has to be shown is that no packed byte falls among those.               *)
(***************************************************************************)
Codes == INSTANCE LzvnOpcodes WITH MaxRun <- 271, MaxDistance <- 65535

(***************************************************************************)
(* The bytes of the codes with a distance, by their fields. They are names *)
(* for the provers, which match them better than sums and large numbers.   *)
(***************************************************************************)
CodeByte == 0 .. 255
Distances == 0 .. 65535
Near == 0 .. 1535
SmallByte(L, x, hi) == hi + 64 * L + 8 * x
LargeByte(L, x) == 64 * L + 8 * x + 7
MediumByte(L, hi) == 160 + hi + 8 * L
By4(hi, lo) == 4 * hi + lo
By64(hi, lo) == 64 * hi + lo
By256(hi, lo) == 256 * hi + lo

(* Three literals leave 3 bits of match length 4 values at most; what is   *)
(* left of the match is for other instructions.                            *)
LEMMA FirstMatchBounds ==
  ASSUME NEW L \in 0 .. 3, NEW M \in Nat, M >= 3
  PROVE  /\ Codes!FirstMatch(L, M) \in Nat
         /\ Codes!FirstMatch(L, M) - 3 \in 0 .. 7 - 2 * L
         /\ M - Codes!FirstMatch(L, M) \in 0 .. M - 3
         /\ M - (M - Codes!FirstMatch(L, M)) = Codes!FirstMatch(L, M)
<1>1. Codes!FirstMatch(L, M) \in 3 .. 10 - 2 * L /\ Codes!FirstMatch(L, M) <= M
  BY DEF Codes!FirstMatch, Codes!Lesser
<1> QED BY <1>1

(* A distance is a natural number. *)
LEMMA DistancesAreNumbers ==
  ASSUME NEW D \in Distances
  PROVE  D \in Nat
BY DEF Distances

(* The two bytes of a distance. *)
LEMMA DistanceBytes ==
  ASSUME NEW D \in Distances
  PROVE  \E hi \in CodeByte, lo \in CodeByte :
           hi = D \div 256 /\ lo = D % 256 /\ By256(hi, lo) = D /\ (D \in Near => hi \in 0 .. 5)
<1>1. D \in Nat /\ D <= 65535
  BY DEF Distances
<1>2. D \div 256 \in CodeByte /\ D % 256 \in CodeByte
  <2>1. D \div 256 \in Int /\ D \div 256 >= 0 /\ D \div 256 <= 255
    BY <1>1
  <2>2. D % 256 \in 0 .. 255
    BY <1>1
  <2> QED BY <2>1, <2>2 DEF CodeByte
<1>3. By256(D \div 256, D % 256) = D
  BY <1>1 DEF By256
<1>4. ASSUME D \in Near PROVE D \div 256 \in 0 .. 5
  <2>1. D < 1536
    BY <1>4 DEF Near
  <2>2. D \div 256 \in Int /\ D \div 256 >= 0 /\ D \div 256 <= 5
    BY <1>1, <2>1
  <2> QED BY <2>2
<1> QED BY <1>2, <1>3, <1>4

(* The fields of a medium distance: 6 low bits and 8 high ones. *)
LEMMA MediumBytes ==
  ASSUME NEW D \in Nat
  PROVE  \E hi \in Nat, lo \in Nat : hi = D \div 64 /\ lo = D % 64 /\ By64(hi, lo) = D
<1>1. D \div 64 \in Nat /\ D % 64 \in Nat
  OBVIOUS
<1>2. By64(D \div 64, D % 64) = D
  BY DEF By64
<1> QED BY <1>1, <1>2

(* The length of a match in a medium distance: 2 low bits and 3 high ones. *)
LEMMA LengthBytes ==
  ASSUME NEW x \in 0 .. 31
  PROVE  \E hi \in 0 .. 7, lo \in 0 .. 3 : hi = x \div 4 /\ lo = x % 4 /\ By4(hi, lo) = x
<1>1. x \div 4 \in 0 .. 7 /\ x % 4 \in 0 .. 3
  OBVIOUS
<1>2. By4(x \div 4, x % 4) = x
  BY DEF By4
<1> QED BY <1>1, <1>2

(* Two low bits below a number leave both readable. *)
LEMMA LowBits ==
  ASSUME NEW r \in Nat, NEW s \in 0 .. 3
  PROVE  By4(r, s) % 4 = s /\ By4(r, s) \div 4 = r
BY DEF By4

(* The codes that the decoder reads, one lemma for each that emit packs. *)
LEMMA SmallRead ==
  ASSUME NEW L \in 0 .. 3, NEW x \in 0 .. 7 - 2 * L, NEW hi \in 0 .. 5,
         NEW c \in CodeByte, NEW d
  PROVE  Codes!Unpacked(SmallByte(L, x, hi), c, d)
           = Codes!Instruction("sml_d", 2, L, x + 3, By256(hi, c))
<1> DEFINE b == SmallByte(L, x, hi)
<1>1. b \in 0 .. 205 /\ b % 8 = hi /\ b \div 64 = L /\ (b \div 8) % 8 = x
  <2>1. CASE L = 0 BY <2>1 DEF SmallByte
  <2>2. CASE L = 1 BY <2>2 DEF SmallByte
  <2>3. CASE L = 2 BY <2>3 DEF SmallByte
  <2>4. CASE L = 3 BY <2>4 DEF SmallByte
  <2> QED BY <2>1, <2>2, <2>3, <2>4
<1>2. b \notin 112 .. 127 /\ b \notin 160 .. 191
  <2>1. CASE L = 0 BY <2>1 DEF SmallByte
  <2>2. CASE L = 1 BY <2>2 DEF SmallByte
  <2>3. CASE L = 2 BY <2>3 DEF SmallByte
  <2>4. CASE L = 3 BY <2>4 DEF SmallByte
  <2> QED BY <2>1, <2>2, <2>3, <2>4
<1>3. b \notin {6, 14, 22} /\ b \notin Codes!Undefined
  BY <1>1, <1>2 DEF Codes!Undefined
<1> HIDE DEF b
<1>4. Codes!Unpacked(b, c, d)
        = Codes!Instruction("sml_d", 2, b \div 64, ((b \div 8) % 8) + 3, 256 * (b % 8) + c)
  BY <1>1, <1>2, <1>3 DEF Codes!Unpacked
<1> QED BY <1>1, <1>4 DEF b, By256, CodeByte

(* A match at a large distance, which two bytes of their own hold. *)
LEMMA LargeRead ==
  ASSUME NEW L \in 0 .. 3, NEW x \in 0 .. 7 - 2 * L,
         NEW c \in CodeByte, NEW d \in CodeByte
  PROVE  Codes!Unpacked(LargeByte(L, x), c, d)
           = Codes!Instruction("lrg_d", 3, L, x + 3, By256(d, c))
<1> DEFINE b == LargeByte(L, x)
<1>1. b \in 0 .. 207 /\ b % 8 = 7 /\ b \div 64 = L /\ (b \div 8) % 8 = x
  <2>1. CASE L = 0 BY <2>1 DEF LargeByte
  <2>2. CASE L = 1 BY <2>2 DEF LargeByte
  <2>3. CASE L = 2 BY <2>3 DEF LargeByte
  <2>4. CASE L = 3 BY <2>4 DEF LargeByte
  <2> QED BY <2>1, <2>2, <2>3, <2>4
<1>2. b \notin 112 .. 127 /\ b \notin 160 .. 191
  <2>1. CASE L = 0 BY <2>1 DEF LargeByte
  <2>2. CASE L = 1 BY <2>2 DEF LargeByte
  <2>3. CASE L = 2 BY <2>3 DEF LargeByte
  <2>4. CASE L = 3 BY <2>4 DEF LargeByte
  <2> QED BY <2>1, <2>2, <2>3, <2>4
<1>3. b \notin {6, 14, 22} /\ b \notin Codes!Undefined
  BY <1>1, <1>2 DEF Codes!Undefined
<1> HIDE DEF b
<1>4. Codes!Unpacked(b, c, d)
        = Codes!Instruction("lrg_d", 3, b \div 64, ((b \div 8) % 8) + 3, c + 256 * d)
  BY <1>1, <1>2, <1>3 DEF Codes!Unpacked
<1>5. c + 256 * d = By256(d, c)
  BY DEF By256, CodeByte
<1> QED BY <1>1, <1>4, <1>5 DEF b

(* A match at the distance before, with literals. *)
LEMMA PreviousRead ==
  ASSUME NEW L \in 1 .. 3, NEW x \in 0 .. 7 - 2 * L, NEW c, NEW d
  PROVE  Codes!Unpacked(64 * L + 8 * x + 6, c, d) = Codes!Instruction("pre_d", 1, L, x + 3, 0)
<1> DEFINE b == 64 * L + 8 * x + 6
<1>1. b \in 64 .. 207 /\ b % 8 = 6 /\ b \div 64 = L /\ (b \div 8) % 8 = x
  <2>1. CASE L = 1 BY <2>1
  <2>2. CASE L = 2 BY <2>2
  <2>3. CASE L = 3 BY <2>3
  <2> QED BY <2>1, <2>2, <2>3
<1>2. b \notin 112 .. 127 /\ b \notin 160 .. 191
  <2>1. CASE L = 1 BY <2>1
  <2>2. CASE L = 2 BY <2>2
  <2>3. CASE L = 3 BY <2>3
  <2> QED BY <2>1, <2>2, <2>3
<1>3. b \notin {6, 14, 22} /\ b \notin Codes!Undefined
  BY <1>1, <1>2 DEF Codes!Undefined
<1> HIDE DEF b
<1>4. Codes!Unpacked(b, c, d)
        = Codes!Instruction("pre_d", 1, b \div 64, ((b \div 8) % 8) + 3, 0)
  BY <1>1, <1>2, <1>3 DEF Codes!Unpacked
<1> QED BY <1>1, <1>4 DEF b

(* A match at the distance before, without literals. *)
LEMMA MatchRead ==
  ASSUME NEW M \in 3 .. 10, NEW c, NEW d
  PROVE  Codes!Unpacked(240 + M, c, d) = Codes!Instruction("sml_m", 1, 0, M, 0)
<1> DEFINE b == 240 + M
<1>1. b \in 241 .. 255 /\ b % 16 = M
  OBVIOUS
<1>2. b # 6 /\ b \notin {14, 22} /\ b \notin Codes!Undefined /\ b \notin 160 .. 191
        /\ b # 224 /\ b \notin 225 .. 239 /\ b # 240
  BY DEF Codes!Undefined
<1> HIDE DEF b
<1>3. Codes!Unpacked(b, c, d) = Codes!Instruction("sml_m", 1, 0, b % 16, 0)
  BY <1>1, <1>2 DEF Codes!Unpacked
<1> QED BY <1>1, <1>3 DEF b

(* A match at a medium distance, which three bytes hold with the length. *)
LEMMA MediumRead ==
  ASSUME NEW L \in 0 .. 3, NEW hi \in 0 .. 7, NEW s \in 0 .. 3, NEW r \in Nat, NEW d \in Nat
  PROVE  Codes!Unpacked(MediumByte(L, hi), By4(r, s), d)
           = Codes!Instruction("med_d", 3, L, By4(hi, s) + 3, By64(d, r))
<1> DEFINE b == MediumByte(L, hi)
           c == By4(r, s)
<1>1. b \in 160 .. 191 /\ b % 8 = hi /\ (b \div 8) % 4 = L
  <2>1. CASE L = 0 BY <2>1 DEF MediumByte
  <2>2. CASE L = 1 BY <2>2 DEF MediumByte
  <2>3. CASE L = 2 BY <2>3 DEF MediumByte
  <2>4. CASE L = 3 BY <2>4 DEF MediumByte
  <2> QED BY <2>1, <2>2, <2>3, <2>4
<1>2. b # 6 /\ b \notin {14, 22} /\ b \notin Codes!Undefined
  BY <1>1 DEF Codes!Undefined
<1>3. c % 4 = s /\ c \div 4 = r
  BY LowBits
<1> HIDE DEF b, c
<1>4. Codes!Unpacked(b, c, d)
        = Codes!Instruction("med_d", 3, (b \div 8) % 4, 4 * (b % 8) + (c % 4) + 3,
                            c \div 4 + 64 * d)
  BY <1>1, <1>2 DEF Codes!Unpacked
<1>5. 4 * hi + s + 3 = By4(hi, s) + 3 /\ r + 64 * d = By64(d, r)
  BY DEF By4, By64
<1> QED BY <1>1, <1>3, <1>4, <1>5 DEF b, c

(***************************************************************************)
(* u, an instruction of the decoder, is what was packed into p: it has as  *)
(* many bytes, copies the L literals and what p does not leave over of a   *)
(* match of length M, at D, unless it has no distance and takes it from    *)
(* the instruction before, at Dprev. b, c, d are the bytes of the code,    *)
(* followed by any.                                                        *)
(***************************************************************************)
Follows(code, b, c, d) ==
  /\ b = code[1]
  /\ Len(code) >= 2 => c = code[2]
  /\ Len(code) >= 3 => d = code[3]

Reads(u, len, L, M, D, Dprev) ==
  \E kind, E :
    /\ u = Codes!Instruction(kind, len, L, M, E)
    /\ IF kind \in {"pre_d", "sml_m"} THEN D = Dprev ELSE E = D

ReadAsPacked(u, p, L, M, D, Dprev) ==
  /\ p.rest \in 0 .. M - 3
  /\ Reads(u, Len(p.code), L, M - p.rest, D, Dprev)

(* The distance of a match that has one is read back. *)
LEMMA DistanceRead ==
  ASSUME NEW kind, kind \notin {"pre_d", "sml_m"}, NEW u, NEW len, NEW L, NEW M, NEW D,
         NEW Dprev, u = Codes!Instruction(kind, len, L, M, D)
  PROVE  Reads(u, len, L, M, D, Dprev)
BY Zenon DEF Reads

(* The forms one by one, f the part of the match that is packed. *)
LEMMA PreviousReads ==
  ASSUME NEW L \in 0 .. 3, NEW f \in Nat, f - 3 \in 0 .. 7 - 2 * L, NEW D,
         NEW b, NEW c, NEW d, Follows(Codes!PreviousDistance(L, f - 3), b, c, d)
  PROVE  Reads(Codes!Unpacked(b, c, d), Len(Codes!PreviousDistance(L, f - 3)), L, f, D, D)
<1>1. (f - 3) + 3 = f
  OBVIOUS
<1>2. CASE L = 0
  <2>1. /\ Len(Codes!PreviousDistance(L, f - 3)) = 1
        /\ Codes!PreviousDistance(L, f - 3)[1] = 240 + f
    BY <1>2 DEF Codes!PreviousDistance
  <2>2. f \in 3 .. 10
    BY <1>2
  <2>3. Codes!Unpacked(240 + f, c, d) = Codes!Instruction("sml_m", 1, 0, f, 0)
    BY <2>2, MatchRead
  <2>4. b = 240 + f
    BY <2>1 DEF Follows
  <2> QED BY <1>2, <2>1, <2>3, <2>4 DEF Reads
<1>3. CASE L # 0
  <2>1. /\ Len(Codes!PreviousDistance(L, f - 3)) = 1
        /\ Codes!PreviousDistance(L, f - 3)[1] = 64 * L + 8 * (f - 3) + 6
    BY <1>3 DEF Codes!PreviousDistance
  <2>2. L \in 1 .. 3
    BY <1>3
  <2>3. Codes!Unpacked(64 * L + 8 * (f - 3) + 6, c, d)
           = Codes!Instruction("pre_d", 1, L, (f - 3) + 3, 0)
    BY <2>2, PreviousRead
  <2>4. b = 64 * L + 8 * (f - 3) + 6
    BY <2>1 DEF Follows
  <2> QED BY <1>1, <2>1, <2>3, <2>4 DEF Reads
<1> QED BY <1>2, <1>3

(* A match packed with a small distance is read back. *)
LEMMA SmallReads ==
  ASSUME NEW L \in 0 .. 3, NEW f \in Nat, f - 3 \in 0 .. 7 - 2 * L,
         NEW D \in Distances, D \in Near, NEW Dprev,
         NEW b, NEW c, NEW d, Follows(Codes!SmallDistance(L, f - 3, D), b, c, d)
  PROVE  Reads(Codes!Unpacked(b, c, d), Len(Codes!SmallDistance(L, f - 3, D)), L, f, D, Dprev)
<1>1. PICK hi \in CodeByte, lo \in CodeByte :
        hi = D \div 256 /\ lo = D % 256 /\ By256(hi, lo) = D /\ (D \in Near => hi \in 0 .. 5)
  BY DistanceBytes
<1>2. Codes!SmallDistance(L, f - 3, D) = <<SmallByte(L, f - 3, hi), lo>>
  BY <1>1 DEF Codes!SmallDistance, SmallByte
<1>3. /\ Len(Codes!SmallDistance(L, f - 3, D)) = 2 /\ Len(Codes!SmallDistance(L, f - 3, D)) >= 2
      /\ Codes!SmallDistance(L, f - 3, D)[1] = SmallByte(L, f - 3, hi)
      /\ Codes!SmallDistance(L, f - 3, D)[2] = lo
  BY <1>2
<1>4. b = SmallByte(L, f - 3, hi) /\ c = lo
  BY <1>3, Zenon DEF Follows
<1>5. Codes!Unpacked(b, c, d) = Codes!Instruction("sml_d", 2, L, (f - 3) + 3, By256(hi, lo))
  <2>1. hi \in 0 .. 5
    BY <1>1, Zenon
  <2> QED BY <1>4, <2>1, SmallRead, Zenon
<1>6. (f - 3) + 3 = f /\ "sml_d" \notin {"pre_d", "sml_m"}
  OBVIOUS
<1> QED BY <1>1, <1>3, <1>5, <1>6, DistanceRead, Zenon

(* A match packed with a large distance is read back. *)
LEMMA LargeReads ==
  ASSUME NEW L \in 0 .. 3, NEW f \in Nat, f - 3 \in 0 .. 7 - 2 * L,
         NEW D \in Distances, NEW Dprev,
         NEW b, NEW c, NEW d, Follows(Codes!LargeDistance(L, f - 3, D), b, c, d)
  PROVE  Reads(Codes!Unpacked(b, c, d), Len(Codes!LargeDistance(L, f - 3, D)), L, f, D, Dprev)
<1>1. PICK hi \in CodeByte, lo \in CodeByte :
        hi = D \div 256 /\ lo = D % 256 /\ By256(hi, lo) = D /\ (D \in Near => hi \in 0 .. 5)
  BY DistanceBytes
<1>2. Codes!LargeDistance(L, f - 3, D) = <<LargeByte(L, f - 3), lo, hi>>
  BY <1>1 DEF Codes!LargeDistance, LargeByte
<1>3. /\ Len(Codes!LargeDistance(L, f - 3, D)) = 3
      /\ Len(Codes!LargeDistance(L, f - 3, D)) >= 2
      /\ Len(Codes!LargeDistance(L, f - 3, D)) >= 3
      /\ Codes!LargeDistance(L, f - 3, D)[1] = LargeByte(L, f - 3)
      /\ Codes!LargeDistance(L, f - 3, D)[2] = lo
      /\ Codes!LargeDistance(L, f - 3, D)[3] = hi
  BY <1>2
<1>4. b = LargeByte(L, f - 3) /\ c = lo /\ d = hi
  BY <1>3, Zenon DEF Follows
<1>5. Codes!Unpacked(b, c, d) = Codes!Instruction("lrg_d", 3, L, (f - 3) + 3, By256(hi, lo))
  BY <1>4, LargeRead, Zenon
<1>6. (f - 3) + 3 = f /\ "lrg_d" \notin {"pre_d", "sml_m"}
  OBVIOUS
<1> QED BY <1>1, <1>3, <1>5, <1>6, DistanceRead, Zenon

(* A match packed with a medium distance is read back. *)
LEMMA MediumReads ==
  ASSUME NEW L \in 0 .. 3, NEW M \in 3 .. 34, NEW D \in Nat, NEW Dprev,
         NEW b, NEW c, NEW d, Follows(Codes!MediumDistance(L, M - 3, D), b, c, d)
  PROVE  Reads(Codes!Unpacked(b, c, d), Len(Codes!MediumDistance(L, M - 3, D)), L, M, D, Dprev)
<1>1. PICK hi \in Nat, lo \in Nat : hi = D \div 64 /\ lo = D % 64 /\ By64(hi, lo) = D
  BY MediumBytes
<1>2. PICK high \in 0 .. 7, low \in 0 .. 3 :
        high = (M - 3) \div 4 /\ low = (M - 3) % 4 /\ By4(high, low) = M - 3
  <2>1. M - 3 \in 0 .. 31
    OBVIOUS
  <2> QED BY <2>1, LengthBytes
<1>3. Codes!MediumDistance(L, M - 3, D) = <<MediumByte(L, high), By4(lo, low), hi>>
  BY <1>1, <1>2 DEF Codes!MediumDistance, MediumByte, By4
<1>4. /\ Len(Codes!MediumDistance(L, M - 3, D)) = 3
      /\ Len(Codes!MediumDistance(L, M - 3, D)) >= 2
      /\ Len(Codes!MediumDistance(L, M - 3, D)) >= 3
      /\ Codes!MediumDistance(L, M - 3, D)[1] = MediumByte(L, high)
      /\ Codes!MediumDistance(L, M - 3, D)[2] = By4(lo, low)
      /\ Codes!MediumDistance(L, M - 3, D)[3] = hi
  BY <1>3
<1>5. b = MediumByte(L, high) /\ c = By4(lo, low) /\ d = hi
  BY <1>4, Zenon DEF Follows
<1>6. Codes!Unpacked(b, c, d)
        = Codes!Instruction("med_d", 3, L, By4(high, low) + 3, By64(hi, lo))
  BY <1>5, MediumRead, Zenon
<1>7. (M - 3) + 3 = M /\ "med_d" \notin {"pre_d", "sml_m"}
  OBVIOUS
<1> QED BY <1>1, <1>2, <1>4, <1>6, <1>7, DistanceRead, Zenon

(* For every match of at least 3 bytes, each distance of 16 bits and each  *)
(* distance before it, the decoder reads the literals, the length and the  *)
(* distance that emit packed (the five forms of lzvn_encode_base.c, the    *)
(* switch over the first byte of lzvn_decode_base.c).                      *)
THEOREM PackedIsReadBack ==
  ASSUME NEW L \in 0 .. 3, NEW M \in Nat, M >= 3,
         NEW D \in Distances, NEW Dprev \in Distances,
         NEW b, NEW c, NEW d,
         Follows(Codes!Packed(L, M, D, Dprev).code, b, c, d)
  PROVE  ReadAsPacked(Codes!Unpacked(b, c, d), Codes!Packed(L, M, D, Dprev), L, M, D, Dprev)
<1> DEFINE f == Codes!FirstMatch(L, M)
<1>1. f \in Nat /\ f - 3 \in 0 .. 7 - 2 * L /\ M - f \in 0 .. M - 3 /\ M - (M - f) = f
  BY FirstMatchBounds, Zenon
<1>2. D \in Nat
  BY DistancesAreNumbers, Zenon
<1> HIDE DEF f
<1>3. CASE D = Dprev
  <2>1. Codes!Packed(L, M, D, D) = [code |-> Codes!PreviousDistance(L, f - 3), rest |-> M - f]
    BY DEF Codes!Packed, f
  <2>2. /\ Codes!Packed(L, M, D, D).code = Codes!PreviousDistance(L, f - 3)
        /\ Codes!Packed(L, M, D, D).rest = M - f
    BY <2>1
  <2>3. Reads(Codes!Unpacked(b, c, d), Len(Codes!PreviousDistance(L, f - 3)), L, f, D, D)
    BY <1>1, <1>3, <2>2, PreviousReads, Zenon
  <2> QED BY <1>1, <1>3, <2>2, <2>3, Zenon DEF ReadAsPacked
<1>4. CASE D # Dprev /\ D < 1536
  <2>1. Codes!Packed(L, M, D, Dprev)
          = [code |-> Codes!SmallDistance(L, f - 3, D), rest |-> M - f]
    BY <1>2, <1>4 DEF Codes!Packed, f
  <2>2. /\ Codes!Packed(L, M, D, Dprev).code = Codes!SmallDistance(L, f - 3, D)
        /\ Codes!Packed(L, M, D, Dprev).rest = M - f
    BY <2>1
  <2>3. D \in Near
    BY <1>2, <1>4 DEF Near
  <2>4. Reads(Codes!Unpacked(b, c, d), Len(Codes!SmallDistance(L, f - 3, D)), L, f, D, Dprev)
    BY <1>1, <2>2, <2>3, SmallReads, Zenon
  <2> QED BY <1>1, <2>2, <2>4, Zenon DEF ReadAsPacked
<1>5. CASE D # Dprev /\ D >= 1536 /\ (D >= 16384 \/ M - f = 0 \/ M > 34)
  <2>1. Codes!Packed(L, M, D, Dprev)
          = [code |-> Codes!LargeDistance(L, f - 3, D), rest |-> M - f]
    BY <1>2, <1>5 DEF Codes!Packed, f
  <2>2. /\ Codes!Packed(L, M, D, Dprev).code = Codes!LargeDistance(L, f - 3, D)
        /\ Codes!Packed(L, M, D, Dprev).rest = M - f
    BY <2>1
  <2>3. Reads(Codes!Unpacked(b, c, d), Len(Codes!LargeDistance(L, f - 3, D)), L, f, D, Dprev)
    BY <1>1, <2>2, LargeReads, Zenon
  <2> QED BY <1>1, <2>2, <2>3, Zenon DEF ReadAsPacked
<1>6. CASE D # Dprev /\ D >= 1536 /\ ~(D >= 16384 \/ M - f = 0 \/ M > 34)
  <2>1. Codes!Packed(L, M, D, Dprev) = [code |-> Codes!MediumDistance(L, M - 3, D), rest |-> 0]
    BY <1>2, <1>6 DEF Codes!Packed, f
  <2>2. /\ Codes!Packed(L, M, D, Dprev).code = Codes!MediumDistance(L, M - 3, D)
        /\ Codes!Packed(L, M, D, Dprev).rest = 0
    BY <2>1
  <2>3. M \in 3 .. 34 /\ 0 \in 0 .. M - 3 /\ M - 0 = M
    BY <1>6
  <2>4. Reads(Codes!Unpacked(b, c, d), Len(Codes!MediumDistance(L, M - 3, D)), L, M, D, Dprev)
    BY <1>2, <2>2, <2>3, MediumReads, Zenon
  <2> QED BY <2>2, <2>3, <2>4, Zenon DEF ReadAsPacked
<1>7. D < 1536 \/ D >= 1536
  BY <1>2
<1> QED BY <1>3, <1>4, <1>5, <1>6, <1>7
=============================================================================
