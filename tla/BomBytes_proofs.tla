---------------------------- MODULE BomBytes_proofs ----------------------------
(***************************************************************************)
(* The byte-level container of BomBytes, proved for every set of contents, *)
(* names, counts and lengths, every junk that realloc may leave, and every *)
(* bound on the size of the file below 2^32: the file is well formed after *)
(* any sequence of careful operations (BytesWellFormed), its offsets are   *)
(* those of BomStore (BytesAreGeometry) and its contents those of          *)
(* BlockStore (BytesAreBlocks).                                            *)
(*                                                                         *)
(* The inductive invariant, BytesInv, is that the memory is a file: there  *)
(* is a sound layout s that the bytes encode (File(mem, s)), whose unused  *)
(* index slots and free list are zero, and over whose variables the code   *)
(* can walk.  An operation is shown to take a file laid out as s to one    *)
(* laid out as the operation of BomLayout says, with every block and       *)
(* variable carried to its new place byte by byte.                         *)
(***************************************************************************)
EXTENDS BomBytes, DataLemmas

-----------------------------------------------------------------------------
(***************************************************************************)
(* Runs of bytes.                                                          *)
(***************************************************************************)

Byte == 0 .. 255
Word32 == {v \in Nat : v < 4294967296}

(* The run of n bytes at a in m is at b in x. *)
Same(x, b, m, a, n) == \A k \in 0 .. n - 1 : x[b + k + 1] = m[a + k + 1]

(* The largest file has a size of 32 bits. *)
LEMMA MaxSizeIsWord == MaxSize \in Nat /\ MaxSize \in Word32
BY BytesAssumption, SMT DEF Word32

(* A store replaces its bytes and no others. *)
LEMMA PutBytes ==
  ASSUME NEW m \in Seq(Byte), NEW a \in Nat, NEW b \in Seq(Byte), a + Len(b) <= Len(m)
  PROVE  /\ Put(m, a, b) \in Seq(Byte) /\ Len(Put(m, a, b)) = Len(m)
         /\ \A k \in 1 .. Len(m) :
              Put(m, a, b)[k] = IF a < k /\ k <= a + Len(b) THEN b[k - a] ELSE m[k]
<1> DEFINE n == Len(m)
           l == SubSeq(m, 1, a)
           r == SubSeq(m, a + Len(b) + 1, n)
           w == l \o b \o r
<1>1. n \in Nat /\ Len(b) \in Nat
  BY LenProperties
<1>2. /\ l \in Seq(Byte) /\ Len(l) = a
      /\ \A k \in 1 .. a : l[k] = m[k]
  <2>1. \A k \in 1 .. a : m[k] \in Byte /\ 1 + k - 1 = k
    BY <1>1, ElementOfSeq
  <2> QED BY <1>1, <2>1, SubSeqProperties
<1>3. /\ r \in Seq(Byte) /\ Len(r) = n - a - Len(b)
      /\ \A k \in 1 .. n - a - Len(b) : r[k] = m[a + Len(b) + k]
  <2>1. \A k \in a + Len(b) + 1 .. n : m[k] \in Byte
    BY <1>1, ElementOfSeq
  <2>2. \A k \in 1 .. n - a - Len(b) : a + Len(b) + 1 + k - 1 = a + Len(b) + k
        /\ n - (a + Len(b) + 1) + 1 = n - a - Len(b)
    BY <1>1
  <2> QED BY <1>1, <2>1, <2>2, SubSeqProperties
<1> HIDE DEF l, r
<1>4. /\ l \o b \in Seq(Byte) /\ Len(l \o b) = a + Len(b)
      /\ \A k \in 1 .. a + Len(b) : (l \o b)[k] = IF k <= a THEN l[k] ELSE b[k - a]
  BY <1>1, <1>2, ConcatProperties
<1>5. /\ w \in Seq(Byte) /\ Len(w) = n
      /\ \A k \in 1 .. n : w[k] = IF k <= a + Len(b) THEN (l \o b)[k] ELSE r[k - (a + Len(b))]
  BY <1>1, <1>3, <1>4, ConcatProperties
<1>6. \A k \in 1 .. n : w[k] = IF a < k /\ k <= a + Len(b) THEN b[k - a] ELSE m[k]
  <2> SUFFICES ASSUME NEW k \in 1 .. n
               PROVE  w[k] = IF a < k /\ k <= a + Len(b) THEN b[k - a] ELSE m[k]
    OBVIOUS
  <2>1. CASE k <= a
    <3>1. k \in 1 .. a /\ k \in 1 .. a + Len(b)
      BY <1>1, <2>1
    <3> QED BY <1>1, <1>2, <1>4, <1>5, <2>1, <3>1
  <2>2. CASE a < k /\ k <= a + Len(b)
    <3>1. k \in 1 .. a + Len(b) /\ ~(k <= a)
      BY <1>1, <2>2
    <3> QED BY <1>1, <1>4, <1>5, <2>2, <3>1
  <2>3. CASE a + Len(b) < k
    <3>1. k - (a + Len(b)) \in 1 .. n - a - Len(b) /\ a + Len(b) + (k - (a + Len(b))) = k
          /\ ~(k <= a + Len(b))
      BY <1>1, <2>3
    <3> QED BY <1>1, <1>3, <1>5, <2>3, <3>1
  <2>4. k <= a \/ (a < k /\ k <= a + Len(b)) \/ a + Len(b) < k
    BY <1>1
  <2> QED BY <2>1, <2>2, <2>3, <2>4, Zenon
<1> HIDE DEF w
<1>7. SubSeq(w, 1, n) = w
  <2>1. SubSeq(w, 1, n) \in Seq(Byte) /\ Len(SubSeq(w, 1, n)) = n
        /\ \A k \in 1 .. n : SubSeq(w, 1, n)[k] = w[k]
    <3>1. \A k \in 1 .. n : w[k] \in Byte /\ 1 + k - 1 = k
      BY <1>5, ElementOfSeq
    <3> QED BY <1>1, <3>1, SubSeqProperties
  <2> QED BY <1>5, <2>1, SeqEqual
<1>8. Put(m, a, b) = w
  BY <1>7 DEF Put, w, l, r
<1> QED BY <1>5, <1>6, <1>8

(* What was in the run that was stored, and in a run beside it. *)
LEMMA PutRuns ==
  ASSUME NEW m \in Seq(Byte), NEW a \in Nat, NEW b \in Seq(Byte), a + Len(b) <= Len(m)
  PROVE  /\ Same(Put(m, a, b), a, b, 0, Len(b))
         /\ \A c \in Nat, n \in Nat : c + n <= Len(m) /\ (c + n <= a \/ a + Len(b) <= c)
              => Same(Put(m, a, b), c, m, c, n)
<1> DEFINE x == Put(m, a, b)
<1>1. Len(m) \in Nat /\ Len(b) \in Nat
  BY LenProperties
<1>2. \A k \in 1 .. Len(m) : x[k] = IF a < k /\ k <= a + Len(b) THEN b[k - a] ELSE m[k]
  BY PutBytes
<1> HIDE DEF x
<1>3. Same(x, a, b, 0, Len(b))
  BY <1>1, <1>2 DEF Same
<1>4. ASSUME NEW c \in Nat, NEW n \in Nat, c + n <= Len(m), c + n <= a \/ a + Len(b) <= c
      PROVE  Same(x, c, m, c, n)
  <2> SUFFICES ASSUME NEW k \in 0 .. n - 1 PROVE x[c + k + 1] = m[c + k + 1]
    BY DEF Same
  <2>1. c + k + 1 \in 1 .. Len(m) /\ ~(a < c + k + 1 /\ c + k + 1 <= a + Len(b))
    BY <1>1, <1>4
  <2> QED BY <1>2, <2>1
<1> QED BY <1>3, <1>4 DEF x

(* A part of a run that was carried, and a run that was carried twice. *)
LEMMA SamePart ==
  ASSUME NEW m, NEW a \in Int, NEW x, NEW b \in Int, NEW n \in Int, Same(x, b, m, a, n),
         NEW i \in Nat, NEW j \in Nat, i + j <= n
  PROVE  Same(x, b + i, m, a + i, j)
<1> SUFFICES ASSUME NEW k \in 0 .. j - 1 PROVE x[b + i + k + 1] = m[a + i + k + 1]
  BY DEF Same
<1>1. i + k \in 0 .. n - 1
  OBVIOUS
<1>2. x[b + (i + k) + 1] = m[a + (i + k) + 1]
  BY <1>1 DEF Same
<1>3. b + (i + k) + 1 = b + i + k + 1 /\ a + (i + k) + 1 = a + i + k + 1
  OBVIOUS
<1> QED BY <1>2, <1>3

(* Runs that are the same as a third are carried twice. *)
LEMMA SameTwice ==
  ASSUME NEW m, NEW a, NEW x, NEW b, NEW y, NEW c, NEW n,
         Same(x, b, m, a, n), Same(y, c, x, b, n)
  PROVE  Same(y, c, m, a, n)
BY DEF Same

(* The field of a run that was carried is the field that was there. *)
LEMMA SameGet ==
  ASSUME NEW m, NEW a \in Int, NEW x, NEW b \in Int, Same(x, b, m, a, 4)
  PROVE  Get(x, b) = Get(m, a)
<1>1. x[b + 0 + 1] = m[a + 0 + 1] /\ x[b + 1 + 1] = m[a + 1 + 1]
      /\ x[b + 2 + 1] = m[a + 2 + 1] /\ x[b + 3 + 1] = m[a + 3 + 1]
  BY DEF Same
<1>2. /\ b + 0 + 1 = b + 1 /\ b + 1 + 1 = b + 2 /\ b + 2 + 1 = b + 3 /\ b + 3 + 1 = b + 4
      /\ a + 0 + 1 = a + 1 /\ a + 1 + 1 = a + 2 /\ a + 2 + 1 = a + 3 /\ a + 3 + 1 = a + 4
  OBVIOUS
<1> QED BY <1>1, <1>2 DEF Get

(* So are its bytes. *)
LEMMA SameBytes ==
  ASSUME NEW m \in Seq(Byte), NEW a \in Nat, NEW x \in Seq(Byte), NEW b \in Nat, NEW n \in Nat,
         Same(x, b, m, a, n), a + n <= Len(m), b + n <= Len(x)
  PROVE  /\ Bytes(m, a, n) \in Seq(Byte) /\ Len(Bytes(m, a, n)) = n
         /\ Bytes(x, b, n) = Bytes(m, a, n)
         /\ \A k \in 1 .. n : Bytes(m, a, n)[k] = m[a + k]
<1>1. Len(m) \in Nat /\ Len(x) \in Nat
  BY LenProperties
<1>2. ASSUME NEW y \in Seq(Byte), NEW c \in Nat, c + n <= Len(y)
      PROVE  /\ Bytes(y, c, n) \in Seq(Byte) /\ Len(Bytes(y, c, n)) = n
             /\ \A k \in 1 .. n : Bytes(y, c, n)[k] = y[c + k]
  <2>1. \A k \in c + 1 .. c + n : y[k] \in Byte
    BY <1>2, ElementOfSeq, LenProperties
  <2>2. \A k \in 1 .. n : c + 1 + k - 1 = c + k /\ c + n - (c + 1) + 1 = n
    OBVIOUS
  <2> QED BY <2>1, <2>2, SubSeqProperties DEF Bytes
<1>3. /\ Bytes(x, b, n) \in Seq(Byte) /\ Len(Bytes(x, b, n)) = n
      /\ \A k \in 1 .. n : Bytes(x, b, n)[k] = x[b + k]
  BY <1>2
<1>4. /\ Bytes(m, a, n) \in Seq(Byte) /\ Len(Bytes(m, a, n)) = n
      /\ \A k \in 1 .. n : Bytes(m, a, n)[k] = m[a + k]
  BY <1>2
<1>5. ASSUME NEW k \in 1 .. n PROVE Bytes(x, b, n)[k] = Bytes(m, a, n)[k]
  <2>1. k - 1 \in 0 .. n - 1 /\ b + (k - 1) + 1 = b + k /\ a + (k - 1) + 1 = a + k
    OBVIOUS
  <2> QED BY <1>3, <1>4, <2>1 DEF Same
<1>6. Bytes(x, b, n) = Bytes(m, a, n)
  BY <1>3, <1>4, <1>5, SeqEqual, Zenon
<1> QED BY <1>4, <1>6

(* A field of four bytes holds a number of 32 bits, and any such number. *)
Big(d, c, b, a) == a + 256 * (b + 256 * (c + 256 * d))

(* Four bytes make a number of 32 bits. *)
LEMMA BigIsWord ==
  ASSUME NEW d \in Byte, NEW c \in Byte, NEW b \in Byte, NEW a \in Byte
  PROVE  Big(d, c, b, a) \in Word32
<1>1. /\ d \in Nat /\ d < 256 /\ c \in Nat /\ c < 256 /\ b \in Nat /\ b < 256 /\ a \in Nat /\ a < 256
  BY DEF Byte
<1> QED BY <1>1, SMT DEF Big, Word32

(* What is loaded from a file has 32 bits. *)
LEMMA GetIsWord ==
  ASSUME NEW m \in Seq(Byte), NEW a \in Nat, a + 4 <= Len(m)
  PROVE  Get(m, a) \in Word32
<1>1. m[a + 1] \in Byte /\ m[a + 2] \in Byte /\ m[a + 3] \in Byte /\ m[a + 4] \in Byte
  <2>1. Len(m) \in Nat
    BY LenProperties
  <2>2. a + 1 \in 1 .. Len(m) /\ a + 2 \in 1 .. Len(m) /\ a + 3 \in 1 .. Len(m) /\ a + 4 \in 1 .. Len(m)
    BY <2>1
  <2> QED BY <2>2, ElementOfSeq
<1>2. Big(m[a + 1], m[a + 2], m[a + 3], m[a + 4]) \in Word32
  BY <1>1, BigIsWord, Zenon
<1>3. Get(m, a) = Big(m[a + 1], m[a + 2], m[a + 3], m[a + 4])
  BY Zenon DEF Get, Big
<1> QED BY <1>2, <1>3, Zenon

(* And what is stored is loaded again: a number of 32 bits is four bytes. *)
LEMMA WordIsBytes ==
  ASSUME NEW v \in Word32
  PROVE  /\ Word(v) \in Seq(Byte) /\ Len(Word(v)) = 4 /\ Get(Word(v), 0) = v
<1> DEFINE q1 == v \div 256  q2 == v \div 65536  q3 == v \div 16777216
           a == v % 256  b == q1 % 256  c == q2 % 256  d == q3 % 256
<1>0. v \in Nat /\ v < 4294967296
  BY SMT DEF Word32
<1>1. v = 256 * q1 + a /\ a \in Byte /\ q1 \in Nat
  BY <1>0, SMT DEF Byte
<1>2. q1 = 256 * q2 + b /\ b \in Byte /\ q2 \in Nat
  BY <1>0, SMT DEF Byte
<1>3. q2 = 256 * q3 + c /\ c \in Byte /\ q3 \in Nat
  BY <1>0, SMT DEF Byte
<1>4. q3 = d /\ d \in Byte
  BY <1>0, SMT DEF Byte
<1>5. Word(v) = << d, c, b, a >>
  BY SMT DEF Word
<1> HIDE DEF a, b, c, d, q1, q2, q3
<1>6. << d, c, b, a >> \in Seq(Byte) /\ Len(<< d, c, b, a >>) = 4
      /\ << d, c, b, a >>[1] = d /\ << d, c, b, a >>[2] = c
      /\ << d, c, b, a >>[3] = b /\ << d, c, b, a >>[4] = a
  BY <1>1, <1>2, <1>3, <1>4
<1>7. Big(d, c, b, a) = v
  BY <1>1, <1>2, <1>3, <1>4, SMT DEF Byte, Big
<1>8. \A w : Get(w, 0) = Big(w[1], w[2], w[3], w[4])
  BY DEF Get, Big
<1>9. Word(v)[1] = d /\ Word(v)[2] = c /\ Word(v)[3] = b /\ Word(v)[4] = a
  BY <1>5, <1>6, SMT
<1>10. Get(Word(v), 0) = v
  BY <1>7, <1>8, <1>9, Zenon
<1> QED BY <1>5, <1>6, <1>10, Zenon

-----------------------------------------------------------------------------
(***************************************************************************)
(* The loop of _bom_address_update_all.                                    *)
(***************************************************************************)

(* A field after a store of a number, and every run beside it. *)
LEMMA PutWord ==
  ASSUME NEW m \in Seq(Byte), NEW a \in Nat, a + 4 <= Len(m), NEW v \in Word32
  PROVE  /\ Put(m, a, Word(v)) \in Seq(Byte) /\ Len(Put(m, a, Word(v))) = Len(m)
         /\ Get(Put(m, a, Word(v)), a) = v
         /\ \A c \in Nat, n \in Nat : c + n <= Len(m) /\ (c + n <= a \/ a + 4 <= c)
              => Same(Put(m, a, Word(v)), c, m, c, n)
<1>1. Word(v) \in Seq(Byte) /\ Len(Word(v)) = 4 /\ Get(Word(v), 0) = v
  BY WordIsBytes
<1>2. /\ Put(m, a, Word(v)) \in Seq(Byte) /\ Len(Put(m, a, Word(v))) = Len(m)
      /\ Same(Put(m, a, Word(v)), a, Word(v), 0, 4)
      /\ \A c \in Nat, n \in Nat : c + n <= Len(m) /\ (c + n <= a \/ a + 4 <= c)
              => Same(Put(m, a, Word(v)), c, m, c, n)
  BY <1>1, PutBytes, PutRuns
<1>3. Get(Put(m, a, Word(v)), a) = Get(Word(v), 0)
  BY <1>2, SameGet
<1> QED BY <1>1, <1>2, <1>3

-----------------------------------------------------------------------------
(* The index fits the memory, and its entries lie one behind the other. *)
IndexFits(m) ==
  /\ m \in Seq(Byte) /\ IndexOffset(m) \in Nat /\ Count(m) \in Nat
  /\ IndexOffset(m) + 4 + 8 * Count(m) <= Len(m)

(* The entries of an index that fits lie in the file, one behind the other. *)
LEMMA EntryPlaces ==
  ASSUME NEW m, IndexFits(m)
  PROVE  /\ Len(m) \in Nat
         /\ \A j \in 0 .. Count(m) - 1 :
              /\ EntryAt(m, j) \in Nat /\ EntryAt(m, j) = IndexOffset(m) + 4 + 8 * j
              /\ IndexOffset(m) + 4 <= EntryAt(m, j)
              /\ EntryAt(m, j) + 8 <= IndexOffset(m) + 4 + 8 * Count(m)
              /\ EntryAt(m, j) + 8 <= Len(m)
              /\ \A i \in 0 .. Count(m) - 1 :
                   i # j => EntryAt(m, i) + 8 <= EntryAt(m, j) \/ EntryAt(m, j) + 8 <= EntryAt(m, i)
         /\ EntryAt(m, Count(m)) \in Nat
         /\ EntryAt(m, Count(m)) = IndexOffset(m) + 4 + 8 * Count(m)
<1>1. Len(m) \in Nat /\ IndexOffset(m) \in Nat /\ Count(m) \in Nat
      /\ IndexOffset(m) + 4 + 8 * Count(m) <= Len(m)
  BY LenProperties DEF IndexFits
<1>2. \A j \in Int : EntryAt(m, j) = IndexOffset(m) + 4 + 8 * j
  BY <1>1 DEF EntryAt, Layout!CountSize, Layout!EntrySize
<1> DEFINE o == IndexOffset(m)  n == Count(m)  l == Len(m)
<1>3. l \in Nat /\ o \in Nat /\ n \in Nat /\ o + 4 + 8 * n <= l
  BY <1>1
<1>4. \A j \in Int : EntryAt(m, j) = o + 4 + 8 * j
  BY <1>2
<1> HIDE DEF o, n, l
<1>5. ASSUME NEW j \in 0 .. n - 1
      PROVE  /\ EntryAt(m, j) \in Nat /\ EntryAt(m, j) = o + 4 + 8 * j
             /\ o + 4 <= EntryAt(m, j) /\ EntryAt(m, j) + 8 <= o + 4 + 8 * n
             /\ EntryAt(m, j) + 8 <= l
             /\ \A i \in 0 .. n - 1 :
                   i # j => EntryAt(m, i) + 8 <= EntryAt(m, j) \/ EntryAt(m, j) + 8 <= EntryAt(m, i)
  BY <1>3, <1>4
<1>6. EntryAt(m, n) \in Nat /\ EntryAt(m, n) = o + 4 + 8 * n
  BY <1>3, <1>4
<1> QED BY <1>3, <1>5, <1>6 DEF o, n, l

(* The loop of _bom_address_update_all is a function of the entries done. *)
IsShiftLoop(f, m, p, d, n) ==
  f = [i \in 0 .. n |-> IF i = 0 THEN m ELSE Shifted(f[i - 1], EntryAt(m, i - 1), p, d)]

(* The recursive function of EntriesShifted is defined by its two equations. *)
LEMMA ShiftLoopExists ==
  ASSUME NEW m, NEW p, NEW d, NEW N \in Nat
  PROVE  \E f : IsShiftLoop(f, m, p, d, N)
<1> DEFINE S == {n \in Nat : \E f : IsShiftLoop(f, m, p, d, n)}
           F(x, i) == Shifted(x, EntryAt(m, i), p, d)
<1>1. 0 \in S
  <2> DEFINE f == [i \in 0 .. 0 |-> m]
  <2>1. IsShiftLoop(f, m, p, d, 0)
    BY DEF IsShiftLoop
  <2> QED BY <2>1
<1>2. ASSUME NEW n \in Nat, n \in S PROVE n + 1 \in S
  <2>1. PICK f : IsShiftLoop(f, m, p, d, n)
    BY <1>2
  <2> DEFINE g == [k \in 0 .. n + 1 |-> IF k \in 0 .. n THEN f[k] ELSE F(f[n], n)]
  <2>2. \A k \in 0 .. n : f[k] = IF k = 0 THEN m ELSE F(f[k - 1], k - 1)
    BY <2>1 DEF IsShiftLoop
  <2> HIDE DEF F
  <2>3. ASSUME NEW k \in 0 .. n + 1
        PROVE  g[k] = IF k = 0 THEN m ELSE F(g[k - 1], k - 1)
    <3>1. CASE k = 0
      BY <2>2, <3>1
    <3>2. CASE k \in 1 .. n
      <4>1. k \in 0 .. n /\ k - 1 \in 0 .. n /\ k # 0 /\ k - 1 \in 0 .. n + 1
        BY <3>2
      <4> QED BY <2>2, <4>1
    <3>3. CASE k = n + 1
      <4>1. k \notin 0 .. n /\ k - 1 \in 0 .. n /\ k # 0 /\ k - 1 \in 0 .. n + 1 /\ k - 1 = n
        BY <3>3
      <4> QED BY <4>1
    <3> QED BY <3>1, <3>2, <3>3
  <2>4. IsShiftLoop(g, m, p, d, n + 1)
    <3> DEFINE h == [k \in 0 .. n + 1 |-> IF k = 0 THEN m ELSE F(g[k - 1], k - 1)]
    <3>1. DOMAIN g = 0 .. n + 1 /\ DOMAIN h = 0 .. n + 1 /\ \A k \in 0 .. n + 1 : g[k] = h[k]
      BY <2>3
    <3>2. g = [k \in 0 .. n + 1 |-> g[k]] /\ h = [k \in 0 .. n + 1 |-> h[k]]
      OBVIOUS
    <3>3. g = h
      BY <3>1, <3>2
    <3> QED BY <3>3 DEF IsShiftLoop, F
  <2> HIDE DEF g
  <2> QED BY <2>4
<1> HIDE DEF S
<1>3. \A n \in Nat : n \in S
  BY <1>1, <1>2, Induction
<1> QED BY <1>3 DEF S

(* After i turns the first i addresses have followed, and nothing else     *)
(* has changed.                                                            *)
ShiftedUpTo(x, m, p, d, i) ==
  /\ x \in Seq(Byte) /\ Len(x) = Len(m)
  /\ \A j \in 0 .. Count(m) - 1 :
       IF j < i THEN Get(x, EntryAt(m, j)) = Layout!Shift(EntryAddress(m, j), p, d)
                ELSE Same(x, EntryAt(m, j), m, EntryAt(m, j), 4)
  /\ \A c \in Nat, n \in Nat :
       /\ c + n <= Len(m)
       /\ \A j \in 0 .. Count(m) - 1 : c + n <= EntryAt(m, j) \/ EntryAt(m, j) + 4 <= c
       => Same(x, c, m, c, n)

(* One turn of the loop shifts one address and leaves the others. *)
LEMMA ShiftLoopStep ==
  ASSUME NEW m, IndexFits(m), NEW p, NEW d, NEW i \in 0 .. Count(m) - 1, NEW x,
         Layout!Shift(EntryAddress(m, i), p, d) \in Word32,
         ShiftedUpTo(x, m, p, d, i)
  PROVE  ShiftedUpTo(Shifted(x, EntryAt(m, i), p, d), m, p, d, i + 1)
<1> DEFINE a == EntryAt(m, i)
           v == Layout!Shift(EntryAddress(m, i), p, d)
           y == Shifted(x, a, p, d)
<1>1. /\ a \in Nat /\ a + 8 <= Len(m) /\ Len(m) \in Nat /\ Count(m) \in Nat
      /\ \A j \in 0 .. Count(m) - 1 :
           /\ EntryAt(m, j) \in Nat /\ EntryAt(m, j) + 8 <= Len(m)
           /\ j # i => EntryAt(m, j) + 8 <= a \/ a + 8 <= EntryAt(m, j)
  BY EntryPlaces DEF IndexFits
<1>2. x \in Seq(Byte) /\ Len(x) = Len(m) /\ Same(x, a, m, a, 4)
  BY <1>1 DEF ShiftedUpTo
<1>3. Get(x, a) = EntryAddress(m, i)
  BY <1>1, <1>2, SameGet DEF EntryAddress
<1>4. y = Put(x, a, Word(v))
  BY <1>3 DEF Shifted
<1> HIDE DEF y, v, a
<1>5. /\ y \in Seq(Byte) /\ Len(y) = Len(m) /\ Get(y, a) = v
      /\ \A c \in Nat, n \in Nat : c + n <= Len(m) /\ (c + n <= a \/ a + 4 <= c)
           => Same(y, c, x, c, n)
  <2>1. a + 4 <= Len(x) /\ v \in Word32
    BY <1>1, <1>2 DEF v
  <2> QED BY <1>1, <1>2, <1>4, <2>1, PutWord
<1>6. ASSUME NEW j \in 0 .. Count(m) - 1
      PROVE  IF j < i + 1 THEN Get(y, EntryAt(m, j)) = Layout!Shift(EntryAddress(m, j), p, d)
                          ELSE Same(y, EntryAt(m, j), m, EntryAt(m, j), 4)
  <2>1. CASE j = i
    <3>1. j < i + 1
      BY <2>1
    <3> QED BY <1>5, <2>1, <3>1 DEF a, v
  <2>2. CASE j # i
    <3>1. Same(y, EntryAt(m, j), x, EntryAt(m, j), 4)
      <4> DEFINE q == EntryAt(m, j)  n == Len(m)
      <4>1. a \in Nat /\ n \in Nat /\ q \in Nat /\ q + 8 <= n /\ (q + 8 <= a \/ a + 8 <= q)
        BY <1>1, <2>2, Zenon
      <4> HIDE DEF q, n
      <4>2. 4 \in Nat /\ q + 4 <= n /\ (q + 4 <= a \/ a + 4 <= q)
        BY <4>1
      <4> QED BY <1>5, <4>1, <4>2, Zenon DEF q, n
    <3>2. CASE j < i
      <4>1. j < i + 1
        BY <3>2
      <4>2. Get(y, EntryAt(m, j)) = Get(x, EntryAt(m, j))
        BY <1>1, <3>1, SameGet
      <4>3. Get(x, EntryAt(m, j)) = Layout!Shift(EntryAddress(m, j), p, d)
        BY <3>2 DEF ShiftedUpTo
      <4> QED BY <4>1, <4>2, <4>3
    <3>3. CASE ~(j < i)
      <4>1. ~(j < i + 1)
        BY <2>2, <3>3
      <4>2. Same(x, EntryAt(m, j), m, EntryAt(m, j), 4)
        BY <3>3 DEF ShiftedUpTo
      <4>3. Same(y, EntryAt(m, j), m, EntryAt(m, j), 4)
        BY <3>1, <4>2, SameTwice
      <4> QED BY <4>1, <4>3
    <3> QED BY <3>2, <3>3
  <2> QED BY <2>1, <2>2
<1>7. ASSUME NEW c \in Nat, NEW n \in Nat, c + n <= Len(m),
             \A j \in 0 .. Count(m) - 1 : c + n <= EntryAt(m, j) \/ EntryAt(m, j) + 4 <= c
      PROVE  Same(y, c, m, c, n)
  <2>1. Same(x, c, m, c, n)
    BY <1>7 DEF ShiftedUpTo
  <2>2. Same(y, c, x, c, n)
    BY <1>5, <1>7 DEF a
  <2> QED BY <2>1, <2>2, SameTwice
<1> QED BY <1>5, <1>6, <1>7 DEF ShiftedUpTo, y, a

(* So the loop of _bom_address_update_all shifts every address once. *)
LEMMA EntriesShiftedAll ==
  ASSUME NEW m, IndexFits(m), NEW p, NEW d,
         \A i \in 0 .. Count(m) - 1 : Layout!Shift(EntryAddress(m, i), p, d) \in Word32
  PROVE  ShiftedUpTo(EntriesShifted(m, p, d)[Count(m)], m, p, d, Count(m))
<1> DEFINE N == Count(m)
           f == CHOOSE g : IsShiftLoop(g, m, p, d, N)
           S == {i \in Nat : i <= N => ShiftedUpTo(f[i], m, p, d, i)}
<1>1. N \in Nat
  BY DEF IndexFits
<1>2. IsShiftLoop(f, m, p, d, N)
  BY <1>1, ShiftLoopExists
<1>3. EntriesShifted(m, p, d) = f
  BY DEF EntriesShifted, IsShiftLoop
<1> HIDE DEF f
<1>4. \A i \in 0 .. N : f[i] = IF i = 0 THEN m ELSE Shifted(f[i - 1], EntryAt(m, i - 1), p, d)
  BY <1>2 DEF IsShiftLoop
<1>5. 0 \in S
  <2>1. f[0] = m
    BY <1>1, <1>4
  <2>2. ShiftedUpTo(m, m, p, d, 0)
    BY <1>1 DEF ShiftedUpTo, IndexFits, Same
  <2> QED BY <2>1, <2>2
<1>6. ASSUME NEW i \in Nat, i \in S PROVE i + 1 \in S
  <2> SUFFICES ASSUME i + 1 <= N PROVE ShiftedUpTo(f[i + 1], m, p, d, i + 1)
    OBVIOUS
  <2>1. i \in 0 .. N - 1 /\ i + 1 \in 0 .. N /\ i + 1 # 0 /\ i + 1 - 1 = i /\ i <= N
    BY <1>1
  <2>2. f[i + 1] = Shifted(f[i], EntryAt(m, i), p, d)
    BY <1>4, <2>1
  <2>3. ShiftedUpTo(f[i], m, p, d, i)
    BY <1>6, <2>1
  <2> QED BY <2>1, <2>2, <2>3, ShiftLoopStep
<1> HIDE DEF S
<1>7. N \in S
  BY <1>1, <1>5, <1>6, Induction
<1> QED BY <1>1, <1>3, <1>7 DEF S

-----------------------------------------------------------------------------
(***************************************************************************)
(* A memory that holds a layout.                                           *)
(***************************************************************************)

Geo == INSTANCE BomLayout_proofs

(* Entry i of a layout. *)
Address(s, i) == s.entries[i].address
Length(s, i)  == s.entries[i].length

(* The fields of a layout are numbers, and its entries a sequence. *)
LEMMA LayoutTypes ==
  ASSUME NEW s \in Layout!Layouts
  PROVE  /\ s.size \in Nat /\ s.index_offset \in Nat /\ s.index_length \in Nat
         /\ s.variables_offset \in Nat /\ s.trailer_len \in Nat
         /\ s.variable_bytes \in Nat /\ s.freelist_offset \in Nat /\ s.block_count \in Nat
         /\ s.entries \in Seq(Layout!Entries) /\ Len(s.entries) \in Nat
         /\ DOMAIN s.entries = 1 .. Len(s.entries)
         /\ \A i \in 1 .. Len(s.entries) : /\ Address(s, i) \in Nat
                                           /\ Length(s, i) \in Nat
BY Geo!LayoutFields DEF Geo!Layouts, Layout!Layouts, Geo!Entries, Layout!Entries, Address, Length

(* The memory m holds the layout s: header, index and section offsets. *)
Encodes(m, s) ==
  /\ m \in Seq(Byte) /\ s \in Layout!Layouts /\ Len(m) = s.size
  /\ 32 <= s.index_offset /\ Layout!IndexPoint(s) <= s.size
  /\ Same(m, 0, Magic, 0, 8) /\ Get(m, VersionAt) = 1
  /\ Get(m, BlockCountAt) = s.block_count
  /\ IndexOffset(m) = s.index_offset
  /\ IndexLength(m) = s.index_length
  /\ VariablesOffset(m) = s.variables_offset
  /\ TrailerLength(m) = s.trailer_len
  /\ Count(m) = Len(s.entries)
  /\ \A i \in 1 .. Len(s.entries) : /\ EntryAddress(m, i - 1) = Address(s, i)
                                    /\ EntryLength(m, i - 1) = Length(s, i)

(* Where entry i of a layout is, and that the entries lie apart. *)
Slot(s, i) == s.index_offset + 4 + 8 * (i - 1)

(* The slots of the entries, from the count to the index point, lie apart. *)
LEMMA Slots ==
  ASSUME NEW s \in Layout!Layouts
  PROVE  /\ Layout!IndexPoint(s) = s.index_offset + 4 + 8 * Len(s.entries)
         /\ Layout!IndexPoint(s) \in Nat
         /\ \A i \in Nat \ {0} : /\ Slot(s, i) \in Nat
                                 /\ s.index_offset + 4 <= Slot(s, i)
                                 /\ i <= Len(s.entries) <=> Slot(s, i) + 8 <= Layout!IndexPoint(s)
                                 /\ i > Len(s.entries) <=> Layout!IndexPoint(s) <= Slot(s, i)
         /\ \A i \in Nat \ {0}, j \in Nat \ {0} :
              i # j => Slot(s, i) + 8 <= Slot(s, j) \/ Slot(s, j) + 8 <= Slot(s, i)
<1> DEFINE o == s.index_offset  n == Len(s.entries)  p == Layout!IndexPoint(s)
<1>1. o \in Nat /\ n \in Nat
  BY LayoutTypes
<1>2. p = o + 4 + 8 * n
  BY DEF Layout!IndexPoint, Layout!CountSize, Layout!EntrySize
<1>3. \A i : Slot(s, i) = o + 4 + 8 * (i - 1)
  BY DEF Slot
<1> HIDE DEF o, n, p
<1>4. \A i \in Nat \ {0} : /\ Slot(s, i) \in Nat /\ o + 4 <= Slot(s, i)
                           /\ i <= n <=> Slot(s, i) + 8 <= p
                           /\ i > n <=> p <= Slot(s, i)
  BY <1>1, <1>2, <1>3
<1>5. \A i \in Nat \ {0}, j \in Nat \ {0} :
        i # j => Slot(s, i) + 8 <= Slot(s, j) \/ Slot(s, j) + 8 <= Slot(s, i)
  BY <1>1, <1>3
<1>6. p \in Nat
  BY <1>1, <1>2
<1> QED BY <1>2, <1>4, <1>5, <1>6, Zenon DEF o, n, p

(* The index point, where the next entry goes, is behind the used slots. *)
LEMMA PointIs ==
  ASSUME NEW s \in Layout!Layouts
  PROVE  /\ Layout!IndexPoint(s) \in Nat /\ s.index_offset \in Nat /\ Len(s.entries) \in Nat
         /\ Layout!IndexPoint(s) = s.index_offset + 4 + 8 * Len(s.entries)
         /\ s.index_offset + 4 <= Layout!IndexPoint(s)
<1>1. Layout!IndexPoint(s) = s.index_offset + 4 + 8 * Len(s.entries)
  BY Slots
<1>2. s.index_offset \in Nat /\ Len(s.entries) \in Nat
  BY LayoutTypes
<1> QED BY <1>1, <1>2

(* The same of a memory that holds the layout. *)
LEMMA EntrySlots ==
  ASSUME NEW m, NEW s \in Layout!Layouts, IndexOffset(m) = s.index_offset
  PROVE  /\ \A i \in Nat \ {0} : EntryAt(m, i - 1) = Slot(s, i)
         /\ EntryAt(m, Len(s.entries)) = Layout!IndexPoint(s)
         /\ \A i \in Nat : EntryAt(m, i) = Slot(s, i + 1)
<1>1. s.index_offset \in Nat /\ Len(s.entries) \in Nat
  BY LayoutTypes
<1> QED BY <1>1 DEF EntryAt, Slot, Layout!CountSize, Layout!EntrySize, Layout!IndexPoint

(* What a memory that holds a layout has in its header and its index. *)
LEMMA EncodesIndex ==
  ASSUME NEW m, NEW s, Encodes(m, s)
  PROVE  /\ IndexFits(m) /\ s \in Layout!Layouts /\ Len(m) = s.size /\ m \in Seq(Byte)
         /\ Layout!IndexPoint(s) <= s.size /\ 32 <= s.index_offset /\ 36 <= s.size
         /\ Get(m, 16) = s.index_offset /\ Get(m, 24) = s.variables_offset
         /\ Get(m, s.index_offset) = Len(s.entries)
         /\ \A i \in 1 .. Len(s.entries) : /\ Get(m, Slot(s, i)) = Address(s, i)
                                           /\ Get(m, Slot(s, i) + 4) = Length(s, i)
<1>1. s \in Layout!Layouts /\ IndexOffset(m) = s.index_offset /\ Count(m) = Len(s.entries)
  BY DEF Encodes
<1>2. s.index_offset \in Nat /\ Len(s.entries) \in Nat /\ s.size \in Nat
      /\ Layout!IndexPoint(s) = s.index_offset + 4 + 8 * Len(s.entries)
  BY <1>1, LayoutTypes, Slots
<1>3. IndexFits(m)
  BY <1>1, <1>2 DEF Encodes, IndexFits
<1>4. \A i \in 1 .. Len(s.entries) : EntryAt(m, i - 1) = Slot(s, i)
  BY <1>1, <1>2, EntrySlots
<1>5. \A i \in 1 .. Len(s.entries) : /\ Get(m, Slot(s, i)) = Address(s, i)
                                     /\ Get(m, Slot(s, i) + 4) = Length(s, i)
  BY <1>4 DEF Encodes, EntryAddress, EntryLength
<1>6. 36 <= s.size
  BY <1>2 DEF Encodes
<1> QED BY <1>1, <1>3, <1>5, <1>6 DEF Encodes, IndexOffset, IndexOffsetAt, VariablesOffset, VariablesAt, Count

(* A layout of which every word is in the memory. *)
LEMMA EncodesByWords ==
  ASSUME NEW m \in Seq(Byte), NEW s \in Layout!Layouts, Len(m) = s.size,
         32 <= s.index_offset, Layout!IndexPoint(s) <= s.size,
         Same(m, 0, Magic, 0, 8), Get(m, 8) = 1, Get(m, 12) = s.block_count,
         Get(m, 16) = s.index_offset, Get(m, 20) = s.index_length,
         Get(m, 24) = s.variables_offset, Get(m, 28) = s.trailer_len,
         Get(m, s.index_offset) = Len(s.entries),
         \A i \in 1 .. Len(s.entries) : /\ Get(m, Slot(s, i)) = Address(s, i)
                                        /\ Get(m, Slot(s, i) + 4) = Length(s, i)
  PROVE  Encodes(m, s)
<1>1. IndexOffset(m) = s.index_offset
  BY DEF IndexOffset, IndexOffsetAt
<1>2. \A i \in 1 .. Len(s.entries) : EntryAt(m, i - 1) = Slot(s, i)
  BY <1>1, EntrySlots
<1>3. \A i \in 1 .. Len(s.entries) : /\ EntryAddress(m, i - 1) = Address(s, i)
                                     /\ EntryLength(m, i - 1) = Length(s, i)
  BY <1>2 DEF EntryAddress, EntryLength
<1>4. Count(m) = Len(s.entries)
  BY <1>1 DEF Count
<1> QED BY <1>1, <1>3, <1>4 DEF Encodes, IndexLength, IndexLengthAt, VariablesOffset, VariablesAt,
          TrailerLength, TrailerLengthAt, VersionAt, BlockCountAt

-----------------------------------------------------------------------------
(***************************************************************************)
(* _bom_address_resize: the offsets, then the bytes.                       *)
(***************************************************************************)

(* A shifted offset of a file that stays in bounds still has 32 bits. *)
LEMMA ShiftIsWord ==
  ASSUME NEW a \in Nat, NEW p \in Nat, NEW d \in Nat, NEW z \in Nat, a <= z, z + d \in Word32
  PROVE  Layout!Shift(a, p, d) \in Nat /\ Layout!Shift(a, p, d) \in Word32
         /\ Layout!Shift(a, p, d) = IF a >= p THEN a + d ELSE a
BY SMT DEF Layout!Shift, Word32

(* A field that follows its bytes. *)
LEMMA ShiftedWord ==
  ASSUME NEW m \in Seq(Byte), NEW a \in Nat, a + 4 <= Len(m), NEW p, NEW d,
         Layout!Shift(Get(m, a), p, d) \in Word32
  PROVE  /\ Shifted(m, a, p, d) \in Seq(Byte) /\ Len(Shifted(m, a, p, d)) = Len(m)
         /\ Get(Shifted(m, a, p, d), a) = Layout!Shift(Get(m, a), p, d)
         /\ \A c \in Nat, n \in Nat : c + n <= Len(m) /\ (c + n <= a \/ a + 4 <= c)
              => Same(Shifted(m, a, p, d), c, m, c, n)
BY PutWord DEF Shifted

(* A field is the same when its bytes are, in their place. *)
LEMMA GetCarried == \A x, m : \A a \in Nat : Same(x, a, m, a, 4) => Get(x, a) = Get(m, a)
BY SameGet

(* The run of n bytes at c has no byte of that of k bytes at a. *)
Beside(c, n, a, k) == c + n <= a \/ a + k <= c

(* A run that the updates of the offsets leave alone. *)
Untouched(s, c, n) ==
  /\ c + n <= s.size
  /\ Beside(c, n, 16, 4) /\ Beside(c, n, 24, 4)
  /\ \A i \in 1 .. Len(s.entries) : Beside(c, n, Slot(s, i), 4)

(* No offset points behind the memory, so that they stay within 32 bits.   *)
Shiftable(s, d) ==
  /\ s.size + d \in Word32 /\ s.variables_offset <= s.size
  /\ \A i \in 1 .. Len(s.entries) : Address(s, i) <= s.size

(* _bom_address_update_all: offsets and addresses are shifted, and nothing   *)
(* else.                                                                     *)
LEMMA UpdatedAll ==
  ASSUME NEW m, NEW s, Encodes(m, s), NEW p \in Nat, NEW d \in Nat, Shiftable(s, d)
  PROVE  /\ AddressUpdateAll(m, p, d) \in Seq(Byte) /\ Len(AddressUpdateAll(m, p, d)) = s.size
         /\ Get(AddressUpdateAll(m, p, d), 16) = Layout!Shift(s.index_offset, p, d)
         /\ Get(AddressUpdateAll(m, p, d), 24) = Layout!Shift(s.variables_offset, p, d)
         /\ \A i \in 1 .. Len(s.entries) :
              Get(AddressUpdateAll(m, p, d), Slot(s, i)) = Layout!Shift(Address(s, i), p, d)
         /\ \A c \in Nat, n \in Nat :
              Untouched(s, c, n) => Same(AddressUpdateAll(m, p, d), c, m, c, n)
<1> DEFINE e == EntriesShifted(m, p, d)[Count(m)]
           f == Shifted(e, 16, p, d)
           u == AddressUpdateAll(m, p, d)
           N == Len(s.entries)
<1>1. /\ IndexFits(m) /\ s \in Layout!Layouts /\ Len(m) = s.size /\ m \in Seq(Byte)
      /\ 32 <= s.index_offset /\ 36 <= s.size
      /\ Get(m, 16) = s.index_offset /\ Get(m, 24) = s.variables_offset
      /\ Count(m) = N /\ IndexOffset(m) = s.index_offset
      /\ Layout!IndexPoint(s) <= s.size
  BY EncodesIndex DEF Encodes
<1>2. /\ s.size \in Nat /\ s.index_offset \in Nat /\ s.variables_offset \in Nat /\ N \in Nat
      /\ \A i \in 1 .. N : Address(s, i) \in Nat
  BY <1>1, LayoutTypes
<1>0. /\ 16 \in Nat /\ 24 \in Nat /\ 4 \in Nat /\ 16 + 4 <= s.size /\ 24 + 4 <= s.size
      /\ Beside(16, 4, 24, 4) /\ Beside(24, 4, 16, 4)
  BY <1>1, <1>2 DEF Beside
<1>3. s.index_offset <= s.size
  <2>1. Layout!IndexPoint(s) \in Nat /\ s.index_offset + 4 <= Layout!IndexPoint(s)
    BY <1>1, PointIs
  <2> QED BY <1>1, <1>2, <2>1
<1>4. /\ Layout!Shift(s.index_offset, p, d) \in Word32
      /\ Layout!Shift(s.variables_offset, p, d) \in Word32
      /\ \A i \in 1 .. N : Layout!Shift(Address(s, i), p, d) \in Word32
  BY <1>2, <1>3, ShiftIsWord DEF Shiftable
<1>5. \A i \in 1 .. N : /\ Slot(s, i) = EntryAt(m, i - 1) /\ EntryAddress(m, i - 1) = Address(s, i)
                        /\ 36 <= Slot(s, i) /\ Slot(s, i) + 8 <= s.size /\ Slot(s, i) \in Nat
  <2>1. \A i \in 1 .. N : i \in Nat \ {0}
    OBVIOUS
  <2>2. \A i \in 1 .. N : EntryAt(m, i - 1) = Slot(s, i)
    BY <1>1, <2>1, EntrySlots
  <2>3. \A i \in 1 .. N : s.index_offset + 4 <= Slot(s, i) /\ Slot(s, i) \in Nat
                          /\ Slot(s, i) + 8 <= Layout!IndexPoint(s) /\ Layout!IndexPoint(s) \in Nat
    BY <1>1, <1>2, <2>1, Slots
  <2>4. \A i \in 1 .. N : EntryAddress(m, i - 1) = Address(s, i)
    BY DEF Encodes
  <2>5. ASSUME NEW i \in 1 .. N PROVE 36 <= Slot(s, i) /\ Slot(s, i) + 8 <= s.size
    <3> DEFINE q == Slot(s, i)  o == s.index_offset  z == s.size  w == Layout!IndexPoint(s)
    <3>1. o + 4 <= q /\ q \in Nat /\ q + 8 <= w /\ w \in Nat
      BY <2>3, Zenon
    <3>2. o \in Nat /\ 32 <= o /\ z \in Nat /\ w <= z
      BY <1>1, <1>2, Zenon
    <3> HIDE DEF q, o, z, w
    <3>3. 36 <= q /\ q + 8 <= z
      BY <3>1, <3>2
    <3> QED BY <3>3 DEF q, z
  <2> QED BY <2>2, <2>3, <2>4, <2>5
<1>6. \A j \in 0 .. N - 1 : j + 1 \in 1 .. N /\ j + 1 - 1 = j
  BY <1>2
<1>7. ShiftedUpTo(e, m, p, d, N)
  <2>1. \A j \in 0 .. N - 1 : EntryAddress(m, j) = Address(s, j + 1)
    BY <1>5, <1>6
  <2>2. \A j \in 0 .. N - 1 : Layout!Shift(EntryAddress(m, j), p, d) \in Word32
    BY <1>4, <1>6, <2>1
  <2> QED BY <1>1, <2>2, EntriesShiftedAll
<1> HIDE DEF e
<1>8. /\ e \in Seq(Byte) /\ Len(e) = s.size
      /\ \A i \in 1 .. N : Get(e, Slot(s, i)) = Layout!Shift(Address(s, i), p, d)
      /\ \A c \in Nat, n \in Nat :
           c + n <= s.size /\ (\A i \in 1 .. N : Beside(c, n, Slot(s, i), 4)) => Same(e, c, m, c, n)
  <2>1. ASSUME NEW i \in 1 .. N PROVE Get(e, Slot(s, i)) = Layout!Shift(Address(s, i), p, d)
    <3>1. i - 1 \in 0 .. N - 1 /\ i - 1 < N
      BY <1>2
    <3> QED BY <1>1, <1>5, <1>7, <3>1 DEF ShiftedUpTo
  <2>2. ASSUME NEW c \in Nat, NEW n \in Nat, c + n <= s.size,
               \A i \in 1 .. N : Beside(c, n, Slot(s, i), 4)
        PROVE  Same(e, c, m, c, n)
    <3>1. \A j \in 0 .. N - 1 : c + n <= EntryAt(m, j) \/ EntryAt(m, j) + 4 <= c
      BY <1>5, <1>6, <2>2 DEF Beside
    <3> QED BY <1>1, <1>7, <2>2, <3>1 DEF ShiftedUpTo
  <2> QED BY <1>1, <1>7, <2>1, <2>2 DEF ShiftedUpTo
<1>9. Get(e, 16) = s.index_offset /\ Get(e, 24) = s.variables_offset
  <2>1. \A i \in 1 .. N : Beside(16, 4, Slot(s, i), 4) /\ Beside(24, 4, Slot(s, i), 4)
    BY <1>5 DEF Beside
  <2>2. Same(e, 16, m, 16, 4) /\ Same(e, 24, m, 24, 4)
    BY <1>8, <2>1, <1>0, Zenon
  <2>3. Get(e, 16) = Get(m, 16) /\ Get(e, 24) = Get(m, 24)
    BY <2>2, GetCarried
  <2> QED BY <1>1, <2>3
<1>10. /\ f \in Seq(Byte) /\ Len(f) = s.size /\ Get(f, 16) = Layout!Shift(s.index_offset, p, d)
       /\ \A c \in Nat, n \in Nat : c + n <= s.size /\ Beside(c, n, 16, 4) => Same(f, c, e, c, n)
  <2>1. 16 \in Nat /\ 16 + 4 <= Len(e)
    BY <1>1, <1>2, <1>8
  <2> QED BY <1>4, <1>8, <1>9, <2>1, ShiftedWord DEF Beside
<1>11. u = Shifted(f, 24, p, d)
  BY <1>1 DEF AddressUpdateAll, e, IndexOffsetAt, VariablesAt
<1> HIDE DEF f, u
<1>12. Get(f, 24) = s.variables_offset
  <2>1. Same(f, 24, e, 24, 4)
    BY <1>10, <1>0, Zenon
  <2>2. Get(f, 24) = Get(e, 24)
    BY <2>1, GetCarried
  <2> QED BY <1>9, <2>2
<1>13. /\ u \in Seq(Byte) /\ Len(u) = s.size /\ Get(u, 24) = Layout!Shift(s.variables_offset, p, d)
       /\ \A c \in Nat, n \in Nat : c + n <= s.size /\ Beside(c, n, 24, 4) => Same(u, c, f, c, n)
  <2>1. 24 \in Nat /\ 24 + 4 <= Len(f)
    BY <1>1, <1>2, <1>10
  <2>2. Layout!Shift(Get(f, 24), p, d) \in Word32
    BY <1>4, <1>12
  <2>3. /\ Shifted(f, 24, p, d) \in Seq(Byte) /\ Len(Shifted(f, 24, p, d)) = Len(f)
        /\ Get(Shifted(f, 24, p, d), 24) = Layout!Shift(Get(f, 24), p, d)
        /\ \A c \in Nat, n \in Nat : c + n <= Len(f) /\ (c + n <= 24 \/ 24 + 4 <= c)
              => Same(Shifted(f, 24, p, d), c, f, c, n)
    BY <1>10, <2>1, <2>2, ShiftedWord
  <2> QED BY <1>10, <1>11, <1>12, <2>3 DEF Beside
<1>14. Get(u, 16) = Layout!Shift(s.index_offset, p, d)
  <2>1. Same(u, 16, f, 16, 4)
    BY <1>13, <1>0, Zenon
  <2>2. Get(u, 16) = Get(f, 16)
    BY <2>1, GetCarried
  <2> QED BY <1>10, <2>2
<1>15. ASSUME NEW i \in 1 .. N
       PROVE  Get(u, Slot(s, i)) = Layout!Shift(Address(s, i), p, d)
  <2>1. Slot(s, i) \in Nat /\ 36 <= Slot(s, i) /\ Slot(s, i) + 4 <= s.size
    BY <1>2, <1>5
  <2>2. Same(u, Slot(s, i), f, Slot(s, i), 4) /\ Same(f, Slot(s, i), e, Slot(s, i), 4)
    BY <1>10, <1>13, <2>1 DEF Beside
  <2>3. Same(u, Slot(s, i), e, Slot(s, i), 4)
    BY <2>2, SameTwice
  <2> QED BY <1>8, <2>1, <2>3, SameGet
<1>16. ASSUME NEW c \in Nat, NEW n \in Nat, Untouched(s, c, n) PROVE Same(u, c, m, c, n)
  <2>1. Same(u, c, f, c, n) /\ Same(f, c, e, c, n) /\ Same(e, c, m, c, n)
    BY <1>8, <1>10, <1>13, <1>16 DEF Untouched
  <2> QED BY <2>1, SameTwice
<1> QED BY <1>13, <1>14, <1>15, <1>16 DEF u

(* What the resize and the move do with the bytes. *)
MovedUp(u, p, d, junk) ==
  Put(MemoryResize(u, Len(u) + d, junk), p + d, Bytes(u, p, Len(u) - p))

(* The bytes behind the point move up by d; the gap keeps what was there. *)
LEMMA MovedBytes ==
  ASSUME NEW u \in Seq(Byte), NEW p \in Nat, p <= Len(u), NEW d \in Nat, NEW junk \in Byte
  PROVE  /\ MovedUp(u, p, d, junk) \in Seq(Byte) /\ Len(MovedUp(u, p, d, junk)) = Len(u) + d
         /\ \A c \in Nat, n \in Nat :
              c + n <= Len(u) /\ c + n <= p + d => Same(MovedUp(u, p, d, junk), c, u, c, n)
         /\ \A c \in Nat, n \in Nat :
              c + n <= Len(u) /\ p <= c => Same(MovedUp(u, p, d, junk), c + d, u, c, n)
<1> DEFINE r == MovedUp(u, p, d, junk)
           z == Len(u)
           g == MemoryResize(u, z + d, junk)
           b == Bytes(u, p, z - p)
<1>0. r = Put(g, p + d, b)
  BY DEF MovedUp
<1>1. z \in Nat /\ z - p \in Nat /\ p + (z - p) <= z
  BY LenProperties
<1>2. /\ g \in Seq(Byte) /\ Len(g) = z + d
      /\ \A k \in 1 .. z : g[k] = u[k]
  <2>1. CASE d = 0
    <3>1. g = SubSeq(u, 1, z)
      BY <1>1, <2>1 DEF MemoryResize
    <3>2. SubSeq(u, 1, z) = u
      BY SubSeqFull
    <3> QED BY <1>1, <2>1, <3>1, <3>2
  <2>2. CASE d # 0
    <3> DEFINE t == [k \in 1 .. (z + d) - z |-> junk]
    <3>1. g = u \o t
      BY <1>1, <2>2 DEF MemoryResize
    <3>2. (z + d) - z = d
      BY <1>1
    <3>3. t \in Seq(Byte) /\ Len(t) = d
      BY <3>2, IsASeq
    <3> HIDE DEF t
    <3>4. /\ u \o t \in Seq(Byte) /\ Len(u \o t) = z + d
          /\ \A k \in 1 .. z + d : (u \o t)[k] = IF k <= z THEN u[k] ELSE t[k - z]
      BY <3>3, ConcatProperties
    <3>5. \A k \in 1 .. z : k \in 1 .. z + d /\ k <= z
      BY <1>1
    <3> QED BY <3>1, <3>4, <3>5
  <2> QED BY <2>1, <2>2
<1>3. Same(u, p, u, p, z - p)
  BY DEF Same
<1>4. /\ b \in Seq(Byte) /\ Len(b) = z - p
      /\ \A k \in 1 .. z - p : b[k] = u[p + k]
  BY <1>1, <1>3, SameBytes
<1> HIDE DEF g, b, r
<1>5. p + d \in Nat /\ (p + d) + Len(b) <= Len(g)
  BY <1>1, <1>2, <1>4
<1>6. /\ r \in Seq(Byte) /\ Len(r) = z + d
      /\ Same(r, p + d, b, 0, z - p)
      /\ \A c \in Nat, n \in Nat : c + n <= z + d /\ c + n <= p + d => Same(r, c, g, c, n)
  <2>1. r \in Seq(Byte) /\ Len(r) = Len(g)
    <3>1. Put(g, p + d, b) \in Seq(Byte) /\ Len(Put(g, p + d, b)) = Len(g)
      BY <1>2, <1>4, <1>5, PutBytes
    <3> QED BY <1>0, <3>1
  <2>2. /\ Same(r, p + d, b, 0, Len(b))
        /\ \A c \in Nat, n \in Nat : c + n <= Len(g) /\ (c + n <= p + d \/ p + d + Len(b) <= c)
              => Same(r, c, g, c, n)
    BY <1>0, <1>2, <1>4, <1>5, PutRuns
  <2> QED BY <1>2, <1>4, <2>1, <2>2
<1>7. ASSUME NEW c \in Nat, NEW n \in Nat, c + n <= z, c + n <= p + d PROVE Same(r, c, u, c, n)
  <2>1. Same(r, c, g, c, n)
    BY <1>1, <1>6, <1>7
  <2>2. Same(g, c, u, c, n)
    <3> SUFFICES ASSUME NEW k \in 0 .. n - 1 PROVE g[c + k + 1] = u[c + k + 1]
      BY DEF Same
    <3>1. c + k + 1 \in 1 .. z
      BY <1>1, <1>7
    <3> QED BY <1>2, <3>1
  <2> QED BY <2>1, <2>2, SameTwice
<1>8. ASSUME NEW c \in Nat, NEW n \in Nat, c + n <= z, p <= c PROVE Same(r, c + d, u, c, n)
  <2> SUFFICES ASSUME NEW k \in 0 .. n - 1 PROVE r[c + d + k + 1] = u[c + k + 1]
    BY DEF Same
  <2>1. (c - p) + k \in 0 .. (z - p) - 1 /\ (c - p) + k + 1 \in 1 .. z - p
        /\ (p + d) + ((c - p) + k) + 1 = c + d + k + 1 /\ 0 + ((c - p) + k) + 1 = (c - p) + k + 1
        /\ p + ((c - p) + k + 1) = c + k + 1
    BY <1>1, <1>8
  <2>2. r[(p + d) + ((c - p) + k) + 1] = b[0 + ((c - p) + k) + 1]
    BY <1>6, <2>1 DEF Same
  <2>3. b[(c - p) + k + 1] = u[p + ((c - p) + k + 1)]
    BY <1>4, <2>1
  <2> QED BY <2>1, <2>2, <2>3
<1> QED BY <1>6, <1>7, <1>8 DEF r

(* The fields of a layout after an insertion. *)
LEMMA ResizedFields ==
  ASSUME NEW s \in Layout!Layouts, NEW p \in Nat, NEW d \in Nat
  PROVE  /\ Layout!Resize(s, p, d) \in Layout!Layouts
         /\ Layout!Resize(s, p, d).size = s.size + d
         /\ Layout!Resize(s, p, d).index_offset = Layout!Shift(s.index_offset, p, d)
         /\ Layout!Resize(s, p, d).index_length = s.index_length
         /\ Layout!Resize(s, p, d).variables_offset = Layout!Shift(s.variables_offset, p, d)
         /\ Layout!Resize(s, p, d).trailer_len = s.trailer_len
         /\ Layout!Resize(s, p, d).variable_bytes = s.variable_bytes
         /\ Layout!Resize(s, p, d).freelist_offset = Layout!Shift(s.freelist_offset, p, d)
         /\ Layout!Resize(s, p, d).block_count = s.block_count
         /\ Len(Layout!Resize(s, p, d).entries) = Len(s.entries)
         /\ \A i \in 1 .. Len(s.entries) :
              /\ Address(Layout!Resize(s, p, d), i) = Layout!Shift(Address(s, i), p, d)
              /\ Length(Layout!Resize(s, p, d), i) = Length(s, i)
<1>1. /\ Geo!Resize(s, p, d) = Layout!Resize(s, p, d) /\ s \in Geo!Layouts
      /\ Geo!Layouts = Layout!Layouts /\ \A a : Geo!Shift(a, p, d) = Layout!Shift(a, p, d)
  BY DEF Geo!Resize, Layout!Resize, Geo!Shift, Layout!Shift, Geo!Layouts, Layout!Layouts,
         Geo!Entries, Layout!Entries
<1>2. DOMAIN s.entries = 1 .. Len(s.entries)
  BY LayoutTypes
<1> QED BY <1>1, <1>2, Geo!ResizeFields DEF Address, Length

(* A run that an insertion at p carries as a whole. *)
Carries(s, p, c, n) ==
  /\ 32 <= c /\ c + n <= s.size
  /\ c + n <= s.index_offset \/ Layout!IndexPoint(s) <= c
  /\ c + n <= p \/ p <= c

(* A run in front of the gap's end. *)
Leaves(s, p, d, c, n) ==
  /\ 32 <= c /\ c + n <= s.size
  /\ c + n <= s.index_offset \/ Layout!IndexPoint(s) <= c
  /\ c + n <= p + d

(* Where an insertion may be, so that the index stays in one piece. *)
Insertable(s, p) ==
  /\ p \in Nat /\ 32 <= p /\ p <= s.size
  /\ p <= s.index_offset \/ Layout!IndexPoint(s) <= p

(* _bom_address_resize: every run that the point does not divide is carried. *)
LEMMA ResizedRuns ==
  ASSUME NEW m, NEW s, Encodes(m, s), NEW p, NEW d \in Nat, Shiftable(s, d), Insertable(s, p),
         NEW junk \in Byte
  PROVE  /\ \A c \in Nat, n \in Nat :
              Carries(s, p, c, n) => Same(AddressResize(m, p, d, junk), Layout!Shift(c, p, d), m, c, n)
         /\ \A c \in Nat, n \in Nat :
              Leaves(s, p, d, c, n) => Same(AddressResize(m, p, d, junk), c, m, c, n)
<1> DEFINE u == AddressUpdateAll(m, p, d)
           r == AddressResize(m, p, d, junk)
<1>1. /\ u \in Seq(Byte) /\ Len(u) = s.size
      /\ \A c \in Nat, n \in Nat : Untouched(s, c, n) => Same(u, c, m, c, n)
  BY UpdatedAll DEF Insertable
<1>2. r = MovedUp(u, p, d, junk)
  BY DEF AddressResize, MovedUp
<1> HIDE DEF u, r
<1>3. /\ \A c \in Nat, n \in Nat : c + n <= s.size /\ c + n <= p + d => Same(r, c, u, c, n)
      /\ \A c \in Nat, n \in Nat : c + n <= s.size /\ p <= c => Same(r, c + d, u, c, n)
  BY <1>1, <1>2, MovedBytes DEF Insertable
<1>4. s \in Layout!Layouts /\ 32 <= s.index_offset /\ p \in Nat /\ s.index_offset \in Nat
      /\ Layout!IndexPoint(s) \in Nat
  BY PointIs DEF Encodes, Insertable
<1>5. ASSUME NEW c \in Nat, NEW n \in Nat, 32 <= c, c + n <= s.size,
             c + n <= s.index_offset \/ Layout!IndexPoint(s) <= c
      PROVE  Same(u, c, m, c, n)
  <2>1. Beside(c, n, 16, 4) /\ Beside(c, n, 24, 4)
    BY <1>5 DEF Beside
  <2>2. ASSUME NEW i \in 1 .. Len(s.entries) PROVE Beside(c, n, Slot(s, i), 4)
    <3>1. i \in Nat \ {0} /\ i <= Len(s.entries)
      BY <1>4, PointIs
    <3>2. Slot(s, i) \in Nat /\ s.index_offset + 4 <= Slot(s, i) /\ Slot(s, i) + 8 <= Layout!IndexPoint(s)
      BY <1>4, <3>1, Slots
    <3> QED BY <1>4, <1>5, <3>2 DEF Beside
  <2>3. Untouched(s, c, n)
    BY <1>5, <2>1, <2>2 DEF Untouched
  <2> QED BY <1>1, <2>3
<1>6. ASSUME NEW c \in Nat, NEW n \in Nat, Carries(s, p, c, n)
      PROVE  Same(r, Layout!Shift(c, p, d), m, c, n)
  <2>1. Same(u, c, m, c, n)
    BY <1>5, <1>6 DEF Carries
  <2>2. CASE p <= c
    <3>1. Layout!Shift(c, p, d) = c + d /\ Same(r, c + d, u, c, n)
      BY <1>3, <1>4, <1>6, <2>2 DEF Carries, Layout!Shift
    <3> QED BY <2>1, <3>1, SameTwice
  <2>3. CASE ~(p <= c)
    <3>1. c + n <= p /\ c + n <= p + d /\ c + n <= s.size /\ Layout!Shift(c, p, d) = c
      BY <1>4, <1>6, <2>3 DEF Carries, Layout!Shift
    <3>2. Same(r, c, u, c, n)
      BY <1>3, <3>1
    <3> QED BY <2>1, <3>1, <3>2, SameTwice
  <2> QED BY <2>2, <2>3
<1>7. ASSUME NEW c \in Nat, NEW n \in Nat, Leaves(s, p, d, c, n)
      PROVE  Same(r, c, m, c, n)
  <2>1. Same(u, c, m, c, n)
    BY <1>5, <1>7 DEF Leaves
  <2>2. Same(r, c, u, c, n)
    BY <1>3, <1>7 DEF Leaves
  <2> QED BY <2>1, <2>2, SameTwice
<1> QED BY <1>6, <1>7 DEF r

(* An insertion: the memory holds the layout of the insertion. *)
LEMMA ResizedEncodes ==
  ASSUME NEW m, NEW s, Encodes(m, s), NEW p, NEW d \in Nat, Shiftable(s, d), Insertable(s, p),
         NEW junk \in Byte
  PROVE  Encodes(AddressResize(m, p, d, junk), Layout!Resize(s, p, d))
<1> DEFINE u == AddressUpdateAll(m, p, d)
           r == AddressResize(m, p, d, junk)
           t == Layout!Resize(s, p, d)
           N == Len(s.entries)
           o == s.index_offset
<1>1. /\ s \in Layout!Layouts /\ 32 <= o /\ p \in Nat /\ p <= s.size /\ o \in Nat /\ N \in Nat
      /\ s.size \in Nat /\ 32 <= p /\ (p <= o \/ Layout!IndexPoint(s) <= p)
      /\ Layout!IndexPoint(s) \in Nat /\ o + 4 <= Layout!IndexPoint(s)
      /\ Layout!IndexPoint(s) = o + 4 + 8 * N /\ Layout!IndexPoint(s) <= s.size
  BY PointIs, LayoutTypes DEF Encodes, Insertable
<1>2. /\ u \in Seq(Byte) /\ Len(u) = s.size
      /\ Get(u, 16) = Layout!Shift(o, p, d)
      /\ Get(u, 24) = Layout!Shift(s.variables_offset, p, d)
      /\ \A i \in 1 .. N : Get(u, Slot(s, i)) = Layout!Shift(Address(s, i), p, d)
      /\ \A c \in Nat, n \in Nat : Untouched(s, c, n) => Same(u, c, m, c, n)
  BY <1>1, UpdatedAll
<1>3. r = MovedUp(u, p, d, junk)
  BY DEF AddressResize, MovedUp
<1>4. /\ t \in Layout!Layouts /\ t.size = s.size + d
      /\ t.index_offset = Layout!Shift(o, p, d) /\ t.index_length = s.index_length
      /\ t.variables_offset = Layout!Shift(s.variables_offset, p, d)
      /\ t.trailer_len = s.trailer_len /\ t.block_count = s.block_count
      /\ Len(t.entries) = N
      /\ \A i \in 1 .. N : /\ Address(t, i) = Layout!Shift(Address(s, i), p, d)
                           /\ Length(t, i) = Length(s, i)
  <2>1. s \in Layout!Layouts /\ p \in Nat
    BY <1>1
  <2> QED BY <2>1, ResizedFields
<1> HIDE DEF u, r, t
<1>5. /\ r \in Seq(Byte) /\ Len(r) = s.size + d
      /\ \A c \in Nat, n \in Nat : c + n <= s.size /\ c + n <= p + d => Same(r, c, u, c, n)
      /\ \A c \in Nat, n \in Nat : c + n <= s.size /\ p <= c => Same(r, c + d, u, c, n)
  <2>1. p \in Nat /\ p <= Len(u) /\ u \in Seq(Byte)
    BY <1>1, <1>2
  <2> QED BY <1>2, <1>3, <2>1, MovedBytes
<1>6. \A i \in 1 .. N : /\ Slot(s, i) \in Nat /\ o + 4 <= Slot(s, i)
                        /\ Slot(s, i) + 8 <= Layout!IndexPoint(s)
  <2>1. \A i \in 1 .. N : i \in Nat \ {0} /\ i <= N
    BY <1>1
  <2> QED BY <1>1, <2>1, Slots
<1>7. ASSUME NEW c \in Nat, NEW n \in Nat, c + n <= 16
      PROVE  Untouched(s, c, n) /\ c + n <= s.size /\ c + n <= p + d
  <2> DEFINE z == s.size
  <2>1. /\ z \in Nat /\ p \in Nat /\ o \in Nat /\ 32 <= o /\ 32 <= p /\ p <= z
        /\ \A i \in 1 .. N : Slot(s, i) \in Nat /\ o + 4 <= Slot(s, i)
    BY <1>1, <1>6, Zenon
  <2> HIDE DEF z, o, N
  <2>2. c + n <= z /\ c + n <= p + d
    BY <1>7, <2>1
  <2>3. Beside(c, n, 16, 4) /\ Beside(c, n, 24, 4)
    BY <1>7 DEF Beside
  <2>4. ASSUME NEW i \in 1 .. N PROVE Beside(c, n, Slot(s, i), 4)
    <3> DEFINE q == Slot(s, i)
    <3>1. q \in Nat /\ o + 4 <= q
      BY <2>1, Zenon
    <3> HIDE DEF q
    <3>2. c + n <= q
      BY <1>7, <2>1, <3>1
    <3> QED BY <3>2, Zenon DEF Beside, q
  <2> QED BY <2>2, <2>3, <2>4, Zenon DEF Untouched, z, N
<1>8. Untouched(s, 20, 4) /\ Untouched(s, 28, 4) /\ Untouched(s, o, 4)
  <2> DEFINE z == s.size
  <2>1. /\ z \in Nat /\ o \in Nat /\ 32 <= o /\ o + 4 <= z
        /\ \A i \in 1 .. N : Slot(s, i) \in Nat /\ o + 4 <= Slot(s, i)
    <3>1. /\ z \in Nat /\ o \in Nat /\ N \in Nat /\ o + 4 + 8 * N <= z
      BY <1>1
    <3>2. o + 4 <= z
      <4> HIDE DEF z, o, N
      <4> QED BY <3>1
    <3> QED BY <1>1, <1>6, <3>1, <3>2, Zenon
  <2> HIDE DEF z, o, N
  <2>2. 20 + 4 <= z /\ 28 + 4 <= z /\ o + 4 <= z
    BY <2>1
  <2>3. /\ Beside(20, 4, 16, 4) /\ Beside(20, 4, 24, 4)
        /\ Beside(28, 4, 16, 4) /\ Beside(28, 4, 24, 4)
        /\ Beside(o, 4, 16, 4) /\ Beside(o, 4, 24, 4)
    BY <2>1 DEF Beside
  <2>4. ASSUME NEW i \in 1 .. N
        PROVE  Beside(20, 4, Slot(s, i), 4) /\ Beside(28, 4, Slot(s, i), 4) /\ Beside(o, 4, Slot(s, i), 4)
    <3> DEFINE q == Slot(s, i)
    <3>1. q \in Nat /\ o + 4 <= q
      BY <2>1, Zenon
    <3> HIDE DEF q
    <3>2. 20 + 4 <= q /\ 28 + 4 <= q /\ o + 4 <= q
      BY <2>1, <3>1
    <3> QED BY <3>2, Zenon DEF Beside, q
  <2> QED BY <2>2, <2>3, <2>4, Zenon DEF Untouched, z, N
<1>9. /\ 0 \in Nat /\ 8 \in Nat /\ 12 \in Nat /\ 16 \in Nat /\ 20 \in Nat /\ 24 \in Nat /\ 28 \in Nat
      /\ 4 \in Nat /\ 0 + 8 <= 16 /\ 8 + 4 <= 16 /\ 12 + 4 <= 16
      /\ 16 + 4 <= s.size /\ 20 + 4 <= s.size /\ 24 + 4 <= s.size /\ 28 + 4 <= s.size
      /\ 16 + 4 <= p + d /\ 20 + 4 <= p + d /\ 24 + 4 <= p + d /\ 28 + 4 <= p + d
  BY <1>1
<1>10. Same(r, 0, m, 0, 8) /\ Get(r, 8) = Get(m, 8) /\ Get(r, 12) = Get(m, 12)
  <2>1. /\ Same(u, 0, m, 0, 8) /\ Same(u, 8, m, 8, 4) /\ Same(u, 12, m, 12, 4)
    BY <1>2, <1>7, <1>9, Zenon
  <2>2. /\ Same(r, 0, u, 0, 8) /\ Same(r, 8, u, 8, 4) /\ Same(r, 12, u, 12, 4)
    BY <1>5, <1>7, <1>9, Zenon
  <2>3. /\ Same(r, 0, m, 0, 8) /\ Same(r, 8, m, 8, 4) /\ Same(r, 12, m, 12, 4)
    BY <2>1, <2>2, SameTwice
  <2> QED BY <2>3, <1>9, GetCarried, Zenon
<1>11. Get(r, 20) = Get(m, 20) /\ Get(r, 28) = Get(m, 28)
  <2>1. Same(u, 20, m, 20, 4) /\ Same(u, 28, m, 28, 4)
    BY <1>2, <1>8, <1>9, Zenon
  <2>2. Same(r, 20, u, 20, 4) /\ Same(r, 28, u, 28, 4)
    BY <1>5, <1>9, Zenon
  <2>3. Same(r, 20, m, 20, 4) /\ Same(r, 28, m, 28, 4)
    BY <2>1, <2>2, SameTwice
  <2> QED BY <2>3, <1>9, GetCarried, Zenon
<1>12. Get(r, 16) = t.index_offset /\ Get(r, 24) = t.variables_offset
  <2>1. Same(r, 16, u, 16, 4) /\ Same(r, 24, u, 24, 4)
    BY <1>5, <1>9, Zenon
  <2>2. Get(r, 16) = Get(u, 16) /\ Get(r, 24) = Get(u, 24)
    BY <1>9, <2>1, GetCarried, Zenon
  <2> QED BY <1>2, <1>4, <2>2
(* The words of the index are found where the index is now. *)
<1>13. ASSUME NEW c \in Nat, o <= c, c + 4 <= Layout!IndexPoint(s)
       PROVE  Get(r, t.index_offset + (c - o)) = Get(u, c)
  <2>1. CASE p <= o
    <3>1. t.index_offset + (c - o) = c + d /\ c + d \in Nat
      BY <1>1, <1>4, <1>13, <2>1 DEF Layout!Shift
    <3>2. Same(r, c + d, u, c, 4)
      <4> DEFINE z == s.size  w == Layout!IndexPoint(s)
      <4>1. p \in Nat /\ o \in Nat /\ z \in Nat /\ w \in Nat /\ w <= z
        BY <1>1, Zenon
      <4>2. o <= c /\ c + 4 <= w
        BY <1>13, Zenon
      <4> HIDE DEF z, w, o
      <4>3. c + 4 <= z /\ p <= c /\ 4 \in Nat
        BY <2>1, <4>1, <4>2
      <4> QED BY <1>5, <4>3, Zenon DEF z
    <3> QED BY <3>1, <3>2, SameGet
  <2>2. CASE ~(p <= o)
    <3>1. t.index_offset + (c - o) = c
      BY <1>1, <1>4, <1>13, <2>2 DEF Layout!Shift
    <3>2. Same(r, c, u, c, 4)
      <4> DEFINE z == s.size  w == Layout!IndexPoint(s)
      <4>1. /\ p \in Nat /\ o \in Nat /\ z \in Nat /\ w \in Nat /\ w <= z
            /\ (p <= o \/ w <= p)
        BY <1>1, Zenon
      <4>2. o <= c /\ c + 4 <= w
        BY <1>13, Zenon
      <4> HIDE DEF z, w, o
      <4>3. c + 4 <= z /\ c + 4 <= p + d /\ 4 \in Nat
        BY <2>2, <4>1, <4>2
      <4> QED BY <1>5, <4>3, Zenon DEF z
    <3> QED BY <3>1, <3>2, SameGet
  <2> QED BY <2>1, <2>2
<1>14. t.index_offset \in Nat /\ 32 <= t.index_offset /\ t.index_offset + 4 + 8 * N <= s.size + d
  <2> DEFINE q == t.index_offset  z == s.size
  <2>1. q = IF o >= p THEN o + d ELSE o
    BY <1>4 DEF Layout!Shift
  <2>2. o \in Nat /\ p \in Nat /\ 32 <= o /\ z \in Nat /\ N \in Nat /\ o + 4 + 8 * N <= z
    BY <1>1
  <2> HIDE DEF q, o, z, N
  <2>3. q \in Nat /\ 32 <= q /\ q + 4 + 8 * N <= z + d
    BY <2>1, <2>2
  <2> QED BY <2>3 DEF q, z
<1>15. Get(r, t.index_offset) = N
  <2>1. Get(r, t.index_offset + (o - o)) = Get(u, o)
    BY <1>1, <1>13
  <2>2. t.index_offset + (o - o) = t.index_offset
    BY <1>1, <1>14
  <2>3. Same(u, o, m, o, 4)
    BY <1>1, <1>2, <1>8
  <2>4. Get(m, o) = N
    BY EncodesIndex
  <2> QED BY <1>1, <2>1, <2>2, <2>3, <2>4, GetCarried
<1>16. ASSUME NEW i \in 1 .. N
       PROVE  /\ Get(r, Slot(t, i)) = Address(t, i)
              /\ Get(r, Slot(t, i) + 4) = Length(t, i)
  <2> DEFINE a == Slot(s, i)
  <2>1. a \in Nat /\ o <= a /\ a + 8 <= Layout!IndexPoint(s)
    BY <1>1, <1>6
  <2>2. a = o + 4 + 8 * (i - 1) /\ Slot(t, i) = t.index_offset + 4 + 8 * (i - 1)
    BY DEF Slot
  <2> HIDE DEF a
  <2>3. Slot(t, i) = t.index_offset + (a - o) /\ Slot(t, i) + 4 = t.index_offset + ((a + 4) - o)
    <3> DEFINE q == t.index_offset  z == Slot(t, i)
    <3>1. i \in Int /\ o \in Nat /\ q \in Nat /\ a = o + 4 + 8 * (i - 1) /\ z = q + 4 + 8 * (i - 1)
      BY <1>1, <1>14, <2>2
    <3> HIDE DEF q, o, z
    <3>2. z = q + (a - o) /\ z + 4 = q + ((a + 4) - o)
      BY <2>1, <3>1
    <3> QED BY <3>2 DEF q, z
  <2>4. Get(r, Slot(t, i)) = Get(u, a)
    BY <1>1, <1>13, <2>1, <2>3
  <2>5. Get(r, Slot(t, i) + 4) = Get(u, a + 4)
    <3>1. a + 4 \in Nat /\ o <= a + 4 /\ (a + 4) + 4 <= Layout!IndexPoint(s)
      BY <1>1, <2>1
    <3> QED BY <1>13, <2>3, <3>1
  <2>6. Get(u, a) = Address(t, i)
    BY <1>2, <1>4 DEF a
  <2>7. Same(u, a + 4, m, a + 4, 4)
    <3>1. ASSUME NEW j \in 1 .. N PROVE Beside(a + 4, 4, Slot(s, j), 4)
      <4>1. i # j => a + 8 <= Slot(s, j) \/ Slot(s, j) + 8 <= a
        <5>1. i \in Nat \ {0} /\ j \in Nat \ {0}
          BY <1>1
        <5> QED BY <1>1, <5>1, Slots DEF a
      <4>2. i = j => Slot(s, j) = a
        BY DEF a
      <4>3. Slot(s, j) \in Nat
        BY <1>6
      <4> QED BY <2>1, <4>1, <4>2, <4>3 DEF Beside
    <3>2. Untouched(s, a + 4, 4) /\ a + 4 \in Nat
      BY <1>1, <2>1, <3>1 DEF Untouched, Beside
    <3> QED BY <1>2, <3>2
  <2>8. Get(u, a + 4) = Get(m, a + 4)
    <3>1. a + 4 \in Nat
      BY <2>1
    <3> QED BY <2>7, <3>1, GetCarried
  <2>9. Get(m, a + 4) = Length(s, i)
    BY EncodesIndex DEF a
  <2> QED BY <1>4, <2>4, <2>5, <2>6, <2>8, <2>9
<1>17. /\ Same(m, 0, Magic, 0, 8) /\ Get(m, 8) = 1 /\ Get(m, 12) = s.block_count
       /\ Get(m, 20) = s.index_length /\ Get(m, 28) = s.trailer_len
  BY DEF Encodes, VersionAt, BlockCountAt, IndexLength, IndexLengthAt, TrailerLength, TrailerLengthAt
<1>18. Same(r, 0, Magic, 0, 8)
  BY <1>10, <1>17, SameTwice
<1>19. Layout!IndexPoint(t) <= t.size
  BY <1>4, <1>14, PointIs
<1>20. Encodes(r, t)
  BY <1>4, <1>5, <1>10, <1>11, <1>12, <1>14, <1>15, <1>16, <1>17, <1>18, <1>19, EncodesByWords
<1> QED BY <1>20 DEF r, t

-----------------------------------------------------------------------------
(***************************************************************************)
(* What a sound layout says about the points of insertion.                 *)
(***************************************************************************)

(* The two instances of BomLayout are of one mind. *)
LEMMA SoundIsSound == \A s : Geo!SoundLayout(s) <=> Layout!SoundLayout(s)
BY DEF Geo!SoundLayout, Layout!SoundLayout, Geo!Layouts, Layout!Layouts, Geo!Entries, Layout!Entries,
       Geo!SectionsDisjoint, Layout!SectionsDisjoint, Geo!BlocksDisjoint, Layout!BlocksDisjoint,
       Geo!FreelistClear, Layout!FreelistClear, Geo!FreelistLast, Layout!FreelistLast,
       Geo!IndexInWholeEntries, Layout!IndexInWholeEntries, Geo!Fresh, Layout!Fresh,
       Geo!Moved, Layout!Moved, Geo!IndexPoint, Layout!IndexPoint, Geo!IndexEnd, Layout!IndexEnd,
       Geo!VariablesEnd, Layout!VariablesEnd, Geo!Apart, Layout!Apart,
       Geo!BlockPlaced, Layout!BlockPlaced, Geo!BlockEnd, Layout!BlockEnd,
       Geo!IsBlock, Layout!IsBlock, Geo!Vacant, Layout!Vacant,
       Geo!HeaderSize, Layout!HeaderSize, Geo!CountSize, Layout!CountSize,
       Geo!EntrySize, Layout!EntrySize, Geo!FreelistSize, Layout!FreelistSize

(* A sound layout in numbers. *)
LEMMA SoundSections ==
  ASSUME NEW s, Layout!SoundLayout(s)
  PROVE  /\ s \in Layout!Layouts
         /\ s.size \in Nat /\ s.index_offset \in Nat /\ s.index_length \in Nat
         /\ s.variables_offset \in Nat /\ s.trailer_len \in Nat /\ s.variable_bytes \in Nat
         /\ s.freelist_offset \in Nat /\ s.block_count \in Nat /\ Len(s.entries) \in Nat
         /\ 32 <= s.index_offset /\ s.index_offset + s.index_length <= s.size
         /\ 32 <= s.variables_offset /\ s.variables_offset + s.trailer_len <= s.size
         /\ \/ s.index_offset + s.index_length <= s.variables_offset
            \/ s.variables_offset + s.trailer_len <= s.index_offset
         /\ 4 + s.variable_bytes <= s.trailer_len
         /\ Layout!IndexPoint(s) \in Nat /\ s.index_offset + 4 <= Layout!IndexPoint(s)
         /\ Layout!IndexPoint(s) <= s.freelist_offset
         /\ s.freelist_offset + 20 = s.index_offset + s.index_length
<1>1. s \in Layout!Layouts
  BY DEF Layout!SoundLayout
<1>2. Layout!IndexPoint(s) \in Nat /\ s.index_offset + 4 <= Layout!IndexPoint(s)
  BY <1>1, PointIs
<1>3. /\ s.size \in Nat /\ s.index_offset \in Nat /\ s.index_length \in Nat
      /\ s.variables_offset \in Nat /\ s.trailer_len \in Nat /\ s.variable_bytes \in Nat
      /\ s.freelist_offset \in Nat /\ s.block_count \in Nat /\ Len(s.entries) \in Nat
  BY <1>1, LayoutTypes
<1> QED BY <1>1, <1>2, <1>3 DEF Layout!SoundLayout, Layout!SectionsDisjoint, Layout!Apart,
           Layout!IndexEnd, Layout!VariablesEnd, Layout!HeaderSize, Layout!CountSize,
           Layout!FreelistClear, Layout!FreelistLast, Layout!FreelistSize

Held(s, i) == Address(s, i) # 0 \/ Length(s, i) # 0

(* A position holds a block unless it is vacant. *)
LEMMA HeldIsBlock ==
  ASSUME NEW s, NEW i, s.entries[i] \in Layout!Entries
  PROVE  Layout!IsBlock(s.entries[i]) <=> Held(s, i)
BY DEF Layout!Entries, Layout!IsBlock, Layout!Vacant, Held, Address, Length

(* The blocks of a sound layout lie in the file, apart from the sections and *)
(* each other.                                                               *)
LEMMA SoundBlocks ==
  ASSUME NEW s, Layout!SoundLayout(s)
  PROVE  /\ \A i \in 1 .. Len(s.entries) :
              /\ s.entries[i] \in Layout!Entries
              /\ Address(s, i) \in Nat /\ Length(s, i) \in Nat
              /\ Address(s, i) + Length(s, i) <= s.size
              /\ Held(s, i) =>
                   /\ 32 <= Address(s, i)
                   /\ Beside(Address(s, i), Length(s, i), s.index_offset, s.index_length)
                   /\ Beside(Address(s, i), Length(s, i),
                             s.variables_offset, s.trailer_len)
         /\ \A i \in 1 .. Len(s.entries), j \in 1 .. Len(s.entries) :
              i # j /\ Held(s, i) /\ Held(s, j) =>
                Beside(Address(s, i), Length(s, i),
                       Address(s, j), Length(s, j))
<1>1. /\ s \in Layout!Layouts /\ s.size \in Nat /\ s.entries \in Seq(Layout!Entries)
      /\ DOMAIN s.entries = 1 .. Len(s.entries) /\ Len(s.entries) \in Nat
  BY LayoutTypes DEF Layout!SoundLayout
<1>2. \A i \in 1 .. Len(s.entries) : s.entries[i] \in Layout!Entries
  BY <1>1, ElementOfSeq
<1>3. \A i \in 1 .. Len(s.entries) :
        /\ Address(s, i) \in Nat /\ Length(s, i) \in Nat
        /\ Layout!IsBlock(s.entries[i]) <=> Held(s, i)
  BY <1>2, HeldIsBlock DEF Layout!Entries, Address, Length
<1>4. Layout!BlocksDisjoint(s)
  BY DEF Layout!SoundLayout
<1>5. \A i \in 1 .. Len(s.entries) :
        Held(s, i) =>
           /\ 32 <= Address(s, i)
           /\ Address(s, i) + Length(s, i) <= s.size
           /\ Beside(Address(s, i), Length(s, i), s.index_offset, s.index_length)
           /\ Beside(Address(s, i), Length(s, i), s.variables_offset, s.trailer_len)
  BY <1>1, <1>3, <1>4 DEF Layout!BlocksDisjoint, Layout!BlockPlaced, Layout!Apart, Beside,
     Layout!BlockEnd, Layout!IndexEnd, Layout!VariablesEnd, Layout!HeaderSize, Address, Length
<1>6. \A i \in 1 .. Len(s.entries), j \in 1 .. Len(s.entries) :
        i # j /\ Held(s, i) /\ Held(s, j) =>
          Beside(Address(s, i), Length(s, i),
                 Address(s, j), Length(s, j))
  BY <1>1, <1>3, <1>4 DEF Layout!BlocksDisjoint, Layout!Apart, Beside, Layout!BlockEnd,
     Address, Length
<1>7. \A i \in 1 .. Len(s.entries) :
        ~Held(s, i) => Address(s, i) + Length(s, i) <= s.size
  <2>1. s.size \in Nat /\ 0 + 0 <= s.size
    BY <1>1
  <2>2. \A i \in 1 .. Len(s.entries) :
          ~Held(s, i) => Address(s, i) = 0 /\ Length(s, i) = 0
    BY DEF Held
  <2> QED BY <2>1, <2>2
<1> QED BY <1>2, <1>3, <1>5, <1>6, <1>7

(* No offset of a sound layout overflows when the file stays in bounds. *)
LEMMA SoundShiftable ==
  ASSUME NEW s, Layout!SoundLayout(s), NEW d, s.size + d \in Word32
  PROVE  Shiftable(s, d)
<1>1. s.variables_offset <= s.size
  BY SoundSections
<1>0. /\ s.size \in Nat
      /\ \A i \in 1 .. Len(s.entries) : /\ Address(s, i) \in Nat /\ Length(s, i) \in Nat
                                        /\ Address(s, i) + Length(s, i) <= s.size
  BY SoundBlocks, SoundSections
<1>2. \A i \in 1 .. Len(s.entries) : Address(s, i) <= s.size
  BY <1>0
<1> QED BY <1>1, <1>2 DEF Shiftable

(* The same with a name for every number. *)
Numbers(z, o, il, v, tl, vb, fl, p) ==
  /\ z \in Nat /\ o \in Nat /\ il \in Nat /\ v \in Nat /\ tl \in Nat /\ vb \in Nat /\ fl \in Nat
  /\ p \in Nat /\ 32 <= o /\ o + il <= z /\ 32 <= v /\ v + tl <= z
  /\ o + il <= v \/ v + tl <= o
  /\ 4 + vb <= tl /\ o + 4 <= p /\ p <= fl /\ fl + 20 = o + il

(* The sections of a sound layout, as numbers. *)
LEMMA SoundNumbers ==
  ASSUME NEW s, Layout!SoundLayout(s)
  PROVE  Numbers(s.size, s.index_offset, s.index_length, s.variables_offset, s.trailer_len,
                 s.variable_bytes, s.freelist_offset, Layout!IndexPoint(s))
BY SoundSections, Zenon DEF Numbers

(* Where a block is: nowhere, or beside the sections. *)
Placed(z, o, il, v, tl, a, n) ==
  /\ a \in Nat /\ n \in Nat /\ a + n <= z
  /\ \/ a = 0 /\ n = 0
     \/ 32 <= a /\ Beside(a, n, o, il) /\ Beside(a, n, v, tl)

(* A block of a sound layout, as numbers. *)
LEMMA SoundPlaces ==
  ASSUME NEW s, Layout!SoundLayout(s), NEW i \in 1 .. Len(s.entries)
  PROVE  Placed(s.size, s.index_offset, s.index_length, s.variables_offset, s.trailer_len,
                Address(s, i), Length(s, i))
<1>1. ~Held(s, i) => Address(s, i) = 0 /\ Length(s, i) = 0
  BY DEF Held
<1> QED BY <1>1, SoundBlocks, Zenon DEF Placed

(* A place where an insertion divides neither the index, nor a block, nor  *)
(* the variables.                                                          *)
Divides(p, c, n) == c < p /\ p < c + n

Whole(s, p) ==
  /\ Insertable(s, p)
  /\ \A i \in 1 .. Len(s.entries) : ~Divides(p, Address(s, i), Length(s, i))
  /\ ~Divides(p, s.variables_offset, 4 + s.variable_bytes)

(* The points of insertion divide neither the variables nor a block. *)
LEMMA SectionPoints ==
  ASSUME NEW z, NEW o, NEW il, NEW v, NEW tl, NEW vb, NEW fl, NEW x,
         Numbers(z, o, il, v, tl, vb, fl, x)
  PROVE  /\ \A p \in {x, z, v + 4 + vb} :
              /\ p \in Nat /\ 32 <= p /\ p <= z /\ (p <= o \/ x <= p) /\ ~Divides(p, v, 4 + vb)
              /\ \A a, n : Placed(z, o, il, v, tl, a, n) => ~Divides(p, a, n)
         /\ v + 4 + vb <= o \/ o + il <= v + 4 + vb
<1>1. ASSUME NEW p \in {x, z, v + 4 + vb}
      PROVE  p \in Nat /\ 32 <= p /\ p <= z /\ (p <= o \/ x <= p) /\ ~Divides(p, v, 4 + vb)
  BY <1>1 DEF Numbers, Divides
<1>2. ASSUME NEW p \in {x, z, v + 4 + vb}, NEW a, NEW n, Placed(z, o, il, v, tl, a, n)
      PROVE  ~Divides(p, a, n)
  BY <1>2 DEF Numbers, Divides, Placed, Beside
<1>3. v + 4 + vb <= o \/ o + il <= v + 4 + vb
  BY DEF Numbers
<1> QED BY <1>1, <1>2, <1>3

(* The same of the layout: these insertions divide nothing. *)
LEMMA SectionsWhole ==
  ASSUME NEW s, Layout!SoundLayout(s)
  PROVE  /\ Whole(s, Layout!IndexPoint(s)) /\ Whole(s, s.size)
         /\ Whole(s, s.variables_offset + 4 + s.variable_bytes)
         /\ \/ s.variables_offset + 4 + s.variable_bytes <= s.index_offset
            \/ s.index_offset + s.index_length <= s.variables_offset + 4 + s.variable_bytes
BY SoundNumbers, SoundPlaces, SectionPoints, Zenon DEF Whole, Insertable

(* Nor does an insertion at the end of a block that is not empty. *)
LEMMA BlockEndWhole ==
  ASSUME NEW s, Layout!SoundLayout(s), NEW i \in 1 .. Len(s.entries), Length(s, i) > 0
  PROVE  /\ Whole(s, Address(s, i) + Length(s, i))
         /\ \/ Address(s, i) + Length(s, i) <= s.index_offset
            \/ s.index_offset + s.index_length <= Address(s, i) + Length(s, i)
<1> DEFINE a == Address(s, i)
           k == Length(s, i)
           p == a + k
           z == s.size  o == s.index_offset  il == s.index_length  v == s.variables_offset
           tl == s.trailer_len  vb == s.variable_bytes
           fl == s.freelist_offset  x == Layout!IndexPoint(s)
           e(j) == Address(s, j)
           l(j) == Length(s, j)
<1>1. Numbers(z, o, il, v, tl, vb, fl, x) /\ Placed(z, o, il, v, tl, a, k) /\ k > 0
  BY SoundNumbers, SoundPlaces
<1>2. \A j \in 1 .. Len(s.entries) : /\ Placed(z, o, il, v, tl, e(j), l(j))
                                     /\ j = i => e(j) = a /\ l(j) = k
  BY SoundPlaces
<1>3. \A j \in 1 .. Len(s.entries) :
        j # i => Beside(a, k, e(j), l(j)) \/ (e(j) = 0 /\ l(j) = 0)
  <2>1. Held(s, i)
    BY <1>1 DEF Placed, Held
  <2>2. \A j \in 1 .. Len(s.entries) : ~Held(s, j) => (e(j) = 0 /\ l(j) = 0)
    BY DEF Held
  <2> QED BY <2>1, <2>2, SoundBlocks, Zenon
<1>4. Insertable(s, p) <=> (p \in Nat /\ 32 <= p /\ p <= z /\ (p <= o \/ x <= p))
  BY DEF Insertable
<1>5. Whole(s, p) <=> /\ Insertable(s, p)
                      /\ \A j \in 1 .. Len(s.entries) : ~Divides(p, e(j), l(j))
                      /\ ~Divides(p, v, 4 + vb)
  BY DEF Whole
<1> HIDE DEF a, k, z, o, il, v, tl, vb, fl, x, e, l
<1>6. /\ p \in Nat /\ 32 <= p /\ p <= z /\ (p <= o \/ x <= p) /\ ~Divides(p, v, 4 + vb)
      /\ p <= o \/ o + il <= p
  BY <1>1 DEF Numbers, Placed, Beside, Divides
<1>7. ASSUME NEW j \in 1 .. Len(s.entries) PROVE ~Divides(p, e(j), l(j))
  <2> DEFINE b == e(j)  n == l(j)
  <2>1. /\ Placed(z, o, il, v, tl, b, n) /\ (j = i => b = a /\ n = k)
        /\ j # i => Beside(a, k, b, n) \/ (b = 0 /\ n = 0)
    BY <1>2, <1>3
  <2> HIDE DEF b, n
  <2>2. ~Divides(p, b, n)
    BY <1>1, <2>1 DEF Placed, Beside, Divides
  <2> QED BY <2>2 DEF b, n
<1>8. Whole(s, p) /\ (p <= o \/ o + il <= p)
  BY <1>4, <1>5, <1>6, <1>7
<1> QED BY <1>8 DEF a, k, o, il

-----------------------------------------------------------------------------
(***************************************************************************)
(* What an operation keeps.                                                *)
(***************************************************************************)

(* The blocks and the variables of m, laid out as s, are in x, laid out as *)
(* t; there may be more of both, and blocks may be longer.                 *)
Kept(x, t, m, s) ==
  /\ Len(s.entries) <= Len(t.entries) /\ s.variable_bytes <= t.variable_bytes
  /\ \A i \in 1 .. Len(s.entries) :
       /\ Held(t, i) <=> Held(s, i)
       /\ Length(s, i) <= Length(t, i)
       /\ Same(x, Address(t, i), m, Address(s, i), Length(s, i))
  /\ Same(x, t.variables_offset + 4, m, s.variables_offset + 4, s.variable_bytes)

(* What two operations keep one after the other is kept. *)
LEMMA KeptTwice ==
  ASSUME NEW m, NEW s \in Layout!Layouts, NEW x, NEW t \in Layout!Layouts,
         NEW y, NEW u \in Layout!Layouts, Kept(x, t, m, s), Kept(y, u, x, t)
  PROVE  Kept(y, u, m, s)
<1>1. /\ Len(s.entries) \in Nat /\ Len(t.entries) \in Nat /\ Len(u.entries) \in Nat
      /\ s.variable_bytes \in Nat /\ t.variable_bytes \in Nat /\ u.variable_bytes \in Nat
      /\ s.variables_offset \in Nat /\ t.variables_offset \in Nat /\ u.variables_offset \in Nat
      /\ \A i \in 1 .. Len(s.entries) : Address(s, i) \in Nat /\ Length(s, i) \in Nat
      /\ \A i \in 1 .. Len(t.entries) : Address(t, i) \in Nat /\ Length(t, i) \in Nat
      /\ \A i \in 1 .. Len(u.entries) : Address(u, i) \in Nat /\ Length(u, i) \in Nat
  BY LayoutTypes
<1>2. Len(s.entries) <= Len(t.entries) /\ Len(t.entries) <= Len(u.entries)
      /\ s.variable_bytes <= t.variable_bytes /\ t.variable_bytes <= u.variable_bytes
  BY DEF Kept
<1>3. \A i \in 1 .. Len(s.entries) : i \in 1 .. Len(t.entries) /\ i \in 1 .. Len(u.entries)
  BY <1>1, <1>2
<1>0. \A a \in Int, b \in Int, k \in Int, j \in Nat :
        Same(y, b, x, a, k) /\ j <= k => Same(y, b, x, a, j)
  <2> SUFFICES ASSUME NEW a \in Int, NEW b \in Int, NEW k \in Int, NEW j \in Nat,
                      Same(y, b, x, a, k), j <= k
               PROVE  Same(y, b, x, a, j)
    OBVIOUS
  <2>1. Same(y, b + 0, x, a + 0, j)
    BY SamePart
  <2>2. b + 0 = b /\ a + 0 = a
    OBVIOUS
  <2> QED BY <2>1, <2>2
<1>4. ASSUME NEW i \in 1 .. Len(s.entries)
      PROVE  /\ Held(u, i) <=> Held(s, i)
             /\ Length(s, i) <= Length(u, i)
             /\ Same(y, Address(u, i), m, Address(s, i), Length(s, i))
  <2>1. /\ Held(t, i) <=> Held(s, i)
        /\ Length(s, i) <= Length(t, i)
        /\ Same(x, Address(t, i), m, Address(s, i), Length(s, i))
    BY DEF Kept
  <2>2. /\ Held(u, i) <=> Held(t, i)
        /\ Length(t, i) <= Length(u, i)
        /\ Same(y, Address(u, i), x, Address(t, i), Length(t, i))
    BY <1>3 DEF Kept
  <2>3. /\ Address(t, i) \in Int /\ Address(u, i) \in Int
        /\ Length(t, i) \in Nat /\ Length(s, i) \in Nat /\ Length(u, i) \in Nat
    BY <1>1, <1>3
  <2>4. Same(y, Address(u, i), x, Address(t, i), Length(s, i))
    <3> DEFINE a == Address(t, i)  b == Address(u, i)
               k == Length(t, i)  j == Length(s, i)
    <3>1. a \in Int /\ b \in Int /\ k \in Int /\ j \in Nat /\ j <= k /\ Same(y, b, x, a, k)
      BY <2>1, <2>2, <2>3
    <3> HIDE DEF a, b, k, j
    <3>2. Same(y, b, x, a, j)
      BY <1>0, <3>1
    <3> QED BY <3>2 DEF a, b, j
  <2>5. Same(y, Address(u, i), m, Address(s, i), Length(s, i))
    BY <2>1, <2>4, SameTwice
  <2>6. Length(s, i) <= Length(u, i)
    BY <2>1, <2>2, <2>3
  <2> QED BY <2>1, <2>2, <2>5, <2>6, Zenon
<1>5. Same(y, u.variables_offset + 4, m, s.variables_offset + 4, s.variable_bytes)
  <2>1. Same(x, t.variables_offset + 4, m, s.variables_offset + 4, s.variable_bytes)
    BY DEF Kept
  <2>2. Same(y, u.variables_offset + 4, x, t.variables_offset + 4, t.variable_bytes)
    BY DEF Kept
  <2>3. t.variables_offset + 4 \in Int /\ u.variables_offset + 4 \in Int
    BY <1>1
  <2>4. Same(y, u.variables_offset + 4, x, t.variables_offset + 4, s.variable_bytes)
    BY <1>0, <1>1, <1>2, <2>2, <2>3
  <2> QED BY <2>1, <2>4, SameTwice
<1>6. Len(s.entries) <= Len(u.entries) /\ s.variable_bytes <= u.variable_bytes
  BY <1>1, <1>2
<1> QED BY <1>4, <1>5, <1>6, Zenon DEF Kept

(* A memory keeps what it holds. *)
LEMMA KeptSelf ==
  ASSUME NEW m, NEW s \in Layout!Layouts
  PROVE  Kept(m, s, m, s)
<1>1. /\ Len(s.entries) \in Nat /\ s.variable_bytes \in Nat
      /\ \A i \in 1 .. Len(s.entries) : Length(s, i) \in Nat
  BY LayoutTypes
<1> QED BY <1>1 DEF Kept, Same

(* What an insertion does to the blocks, the variables and the free part   *)
(* of the index.                                                           *)
LEMMA ResizedKept ==
  ASSUME NEW m, NEW s, Encodes(m, s), Layout!SoundLayout(s), NEW p, Whole(s, p),
         NEW d \in Nat, s.size + d \in Word32, NEW junk \in Byte
  PROVE  /\ Encodes(AddressResize(m, p, d, junk), Layout!Resize(s, p, d))
         /\ Kept(AddressResize(m, p, d, junk), Layout!Resize(s, p, d), m, s)
         /\ Same(AddressResize(m, p, d, junk), Layout!Resize(s, p, d).variables_offset,
                 m, s.variables_offset, 4)
<1> DEFINE r == AddressResize(m, p, d, junk)
           t == Layout!Resize(s, p, d)
           v == s.variables_offset
           vb == s.variable_bytes
<1>1. /\ s \in Layout!Layouts /\ Insertable(s, p) /\ Shiftable(s, d) /\ p \in Nat /\ 32 <= p
  BY SoundShiftable, SoundSections DEF Whole, Insertable
<1>2. Encodes(r, t)
  BY <1>1, ResizedEncodes
<1>3. \A c \in Nat, n \in Nat : Carries(s, p, c, n) => Same(r, Layout!Shift(c, p, d), m, c, n)
  BY <1>1, ResizedRuns
<1>4. /\ t \in Layout!Layouts /\ t.variables_offset = Layout!Shift(v, p, d)
      /\ t.variable_bytes = vb /\ Len(t.entries) = Len(s.entries)
      /\ \A i \in 1 .. Len(s.entries) :
           /\ Address(t, i) = Layout!Shift(Address(s, i), p, d)
           /\ Length(t, i) = Length(s, i)
  BY <1>1, ResizedFields
<1> HIDE DEF r, t
<1>5. ASSUME NEW i \in 1 .. Len(s.entries)
      PROVE  /\ Held(t, i) <=> Held(s, i)
             /\ Length(s, i) <= Length(t, i)
             /\ Same(r, Address(t, i), m, Address(s, i), Length(s, i))
  <2> DEFINE a == Address(s, i)
             n == Length(s, i)
             z == s.size  o == s.index_offset  il == s.index_length
             tl == s.trailer_len  fl == s.freelist_offset  x == Layout!IndexPoint(s)
  <2>1. Numbers(z, o, il, v, tl, vb, fl, x) /\ Placed(z, o, il, v, tl, a, n) /\ ~Divides(p, a, n)
    BY SoundNumbers, SoundPlaces DEF Whole
  <2>2. Address(t, i) = Layout!Shift(a, p, d) /\ Length(t, i) = n
    BY <1>4
  <2>3. /\ Held(s, i) <=> (a # 0 \/ n # 0)
        /\ Held(t, i) <=> (Layout!Shift(a, p, d) # 0 \/ n # 0)
    BY <2>2 DEF Held
  <2>4. Carries(s, p, a, n) <=> /\ 32 <= a /\ a + n <= z /\ (a + n <= o \/ x <= a)
                                /\ a + n <= p \/ p <= a
    BY DEF Carries
  <2> HIDE DEF a, n, z, o, il, tl, fl, x, v, vb
  <2>5. a \in Nat /\ n \in Nat
    BY <2>1 DEF Placed
  <2>6. Layout!Shift(a, p, d) # 0 <=> a # 0
    BY <1>1, <2>5 DEF Layout!Shift
  <2>7. Same(r, Layout!Shift(a, p, d), m, a, n)
    <3>1. CASE n = 0
      BY <3>1 DEF Same
    <3>2. CASE n # 0
      <4>1. Carries(s, p, a, n)
        BY <1>1, <2>1, <2>4, <2>5, <3>2 DEF Numbers, Placed, Divides, Beside
      <4> QED BY <1>3, <2>5, <4>1
    <3> QED BY <3>1, <3>2
  <2>8. Length(s, i) <= Length(t, i)
    BY <2>2, <2>5 DEF n
  <2> QED BY <2>2, <2>3, <2>6, <2>7, <2>8 DEF a, n
<1>6. /\ Same(r, t.variables_offset, m, v, 4) /\ Same(r, t.variables_offset + 4, m, v + 4, vb)
  <2> DEFINE z == s.size  o == s.index_offset  il == s.index_length
             tl == s.trailer_len  fl == s.freelist_offset  x == Layout!IndexPoint(s)
  <2>1. Numbers(z, o, il, v, tl, vb, fl, x) /\ ~Divides(p, v, 4 + vb)
    BY SoundNumbers DEF Whole
  <2>2. Carries(s, p, v, 4 + vb) <=> /\ 32 <= v /\ v + (4 + vb) <= z
                                     /\ (v + (4 + vb) <= o \/ x <= v)
                                     /\ v + (4 + vb) <= p \/ p <= v
    BY DEF Carries
  <2>3. t.variables_offset = Layout!Shift(v, p, d)
    BY <1>4
  <2> DEFINE w == t.variables_offset
  <2> HIDE DEF z, o, il, tl, fl, x, v, vb, w
  <2>4. Carries(s, p, v, 4 + vb) /\ v \in Nat /\ 4 + vb \in Nat /\ vb \in Nat
    BY <1>1, <2>1, <2>2 DEF Numbers, Divides
  <2>5. Same(r, w, m, v, 4 + vb) /\ w \in Nat
    BY <1>1, <1>3, <2>3, <2>4 DEF Layout!Shift, w
  <2>6. Same(r, w + 0, m, v + 0, 4) /\ w + 0 = w /\ v + 0 = v
    BY <2>4, <2>5, SamePart
  <2>7. Same(r, w + 4, m, v + 4, vb)
    BY <2>4, <2>5, SamePart
  <2> QED BY <2>6, <2>7 DEF w
<1>7. Len(s.entries) <= Len(t.entries) /\ vb <= t.variable_bytes
  BY <1>1, <1>4, LayoutTypes
<1>8. Kept(r, t, m, s)
  BY <1>5, <1>6, <1>7 DEF Kept
<1> QED BY <1>2, <1>6, <1>8 DEF r, t

-----------------------------------------------------------------------------
(***************************************************************************)
(* Stores in the header and in the index.                                  *)
(***************************************************************************)

(* x is m but for the n bytes at a. *)
OnlyAt(x, m, a, n) ==
  /\ x \in Seq(Byte) /\ m \in Seq(Byte) /\ Len(x) = Len(m)
  /\ \A c \in Nat, k \in Nat : c + k <= Len(m) /\ Beside(c, k, a, n) => Same(x, c, m, c, k)

(* A store touches the bytes it writes, and writes them. *)
LEMMA PutOnlyAt ==
  ASSUME NEW m \in Seq(Byte), NEW a \in Nat, NEW b \in Seq(Byte), a + Len(b) <= Len(m)
  PROVE  OnlyAt(Put(m, a, b), m, a, Len(b)) /\ Same(Put(m, a, b), a, b, 0, Len(b))
BY PutBytes, PutRuns DEF OnlyAt, Beside

(* The same of the store of a number. *)
LEMMA WordOnlyAt ==
  ASSUME NEW m \in Seq(Byte), NEW a \in Nat, a + 4 <= Len(m), NEW v \in Word32
  PROVE  OnlyAt(Put(m, a, Word(v)), m, a, 4) /\ Get(Put(m, a, Word(v)), a) = v
BY PutWord DEF OnlyAt, Beside

(* The words of the header, in their places. *)
Fields == {8, 12, 16, 20, 24, 28}

(* The words of the header are in the header, behind the magic. *)
LEMMA FieldsAre ==
  \A f \in Fields : f \in Nat /\ f + 4 <= 32 /\ 8 <= f
BY DEF Fields

(* And they lie apart. *)
LEMMA FieldsApart ==
  \A f \in Fields, g \in Fields : f # g => Beside(f, 4, g, 4)
BY DEF Fields, Beside

(* What beside the n bytes at a was found in m is found in x. *)
LEMMA WordsKept ==
  ASSUME NEW m, NEW s, Encodes(m, s), NEW x, NEW a \in Nat, NEW n \in Nat, OnlyAt(x, m, a, n)
  PROVE  /\ 8 <= a => Same(x, 0, Magic, 0, 8)
         /\ \A f \in Fields : Beside(f, 4, a, n) => Get(x, f) = Get(m, f)
         /\ Beside(s.index_offset, 4, a, n) => Get(x, s.index_offset) = Len(s.entries)
         /\ \A i \in 1 .. Len(s.entries) :
              /\ Beside(Slot(s, i), 4, a, n) => Get(x, Slot(s, i)) = Address(s, i)
              /\ Beside(Slot(s, i) + 4, 4, a, n) => Get(x, Slot(s, i) + 4) = Length(s, i)
<1>1. /\ s \in Layout!Layouts /\ Len(m) = s.size /\ Layout!IndexPoint(s) <= s.size
      /\ s.index_offset \in Nat /\ Layout!IndexPoint(s) \in Nat /\ s.size \in Nat
      /\ s.index_offset + 4 <= Layout!IndexPoint(s) /\ 36 <= s.size
      /\ Same(m, 0, Magic, 0, 8)
  BY EncodesIndex, PointIs, LayoutTypes DEF Encodes
<1>2. \A c \in Nat, k \in Nat : c + k <= s.size /\ Beside(c, k, a, n) => Same(x, c, m, c, k)
  BY <1>1 DEF OnlyAt
<1>3. \A c \in Nat : c + 4 <= s.size /\ Beside(c, 4, a, n) => Get(x, c) = Get(m, c)
  BY <1>2, GetCarried
<1>4. ASSUME 8 <= a PROVE Same(x, 0, Magic, 0, 8)
  <2>1. 0 \in Nat /\ 8 \in Nat /\ 0 + 8 <= s.size /\ Beside(0, 8, a, n)
    BY <1>1, <1>4 DEF Beside
  <2>2. Same(x, 0, m, 0, 8)
    BY <1>2, <2>1, Zenon
  <2> QED BY <1>1, <2>2, SameTwice
<1>5. ASSUME NEW f \in Fields, Beside(f, 4, a, n) PROVE Get(x, f) = Get(m, f)
  <2>1. f \in Nat /\ f + 4 <= s.size
    BY <1>1, FieldsAre
  <2> QED BY <1>3, <1>5, <2>1
<1>6. Beside(s.index_offset, 4, a, n) => Get(x, s.index_offset) = Len(s.entries)
  <2>1. s.index_offset + 4 <= s.size
    BY <1>1
  <2> QED BY <1>1, <1>3, <2>1, EncodesIndex
<1>7. ASSUME NEW i \in 1 .. Len(s.entries)
      PROVE  /\ Beside(Slot(s, i), 4, a, n) => Get(x, Slot(s, i)) = Address(s, i)
             /\ Beside(Slot(s, i) + 4, 4, a, n) => Get(x, Slot(s, i) + 4) = Length(s, i)
  <2>1. i \in Nat \ {0} /\ i <= Len(s.entries)
    BY <1>1, LayoutTypes
  <2>2. Slot(s, i) \in Nat /\ Slot(s, i) + 8 <= Layout!IndexPoint(s)
    BY <1>1, <2>1, Slots
  <2>3. /\ Slot(s, i) \in Nat /\ Slot(s, i) + 4 <= s.size
        /\ Slot(s, i) + 4 \in Nat /\ (Slot(s, i) + 4) + 4 <= s.size
    BY <1>1, <2>2
  <2>4. Get(m, Slot(s, i)) = Address(s, i) /\ Get(m, Slot(s, i) + 4) = Length(s, i)
    BY EncodesIndex
  <2> QED BY <1>3, <2>3, <2>4
<1> QED BY <1>4, <1>5, <1>6, <1>7

(* The words of the header of a layout. *)
LEMMA HeaderWords ==
  ASSUME NEW m, NEW s, Encodes(m, s)
  PROVE  /\ Get(m, 8) = 1 /\ Get(m, 12) = s.block_count /\ Get(m, 16) = s.index_offset
         /\ Get(m, 20) = s.index_length /\ Get(m, 24) = s.variables_offset
         /\ Get(m, 28) = s.trailer_len
BY DEF Encodes, VersionAt, BlockCountAt, IndexOffset, IndexOffsetAt, IndexLength, IndexLengthAt,
       VariablesOffset, VariablesAt, TrailerLength, TrailerLengthAt

(* A store outside the header and the used part of the index. *)
LEMMA OutsideEncodes ==
  ASSUME NEW m, NEW s, Encodes(m, s), NEW x, NEW a \in Nat, NEW n \in Nat, OnlyAt(x, m, a, n),
         32 <= a, a + n <= s.index_offset \/ Layout!IndexPoint(s) <= a
  PROVE  Encodes(x, s)
<1>1. /\ s \in Layout!Layouts /\ Len(x) = s.size /\ x \in Seq(Byte) /\ 32 <= s.index_offset
      /\ Layout!IndexPoint(s) <= s.size /\ s.index_offset \in Nat /\ Layout!IndexPoint(s) \in Nat
      /\ s.index_offset + 4 <= Layout!IndexPoint(s)
  BY PointIs DEF Encodes, OnlyAt
<1>2. \A f \in Fields : Beside(f, 4, a, n)
  BY FieldsAre DEF Beside
<1>3. Beside(s.index_offset, 4, a, n)
  BY <1>1 DEF Beside
<1>4. ASSUME NEW i \in 1 .. Len(s.entries)
      PROVE  Beside(Slot(s, i), 4, a, n) /\ Beside(Slot(s, i) + 4, 4, a, n)
  <2>1. i \in Nat \ {0} /\ i <= Len(s.entries)
    BY <1>1, LayoutTypes
  <2> DEFINE q == Slot(s, i)  o == s.index_offset  w == Layout!IndexPoint(s)
  <2>2. q \in Nat /\ q + 8 <= w /\ o + 4 <= q
    BY <1>1, <2>1, Slots
  <2>3. o \in Nat /\ w \in Nat /\ (a + n <= o \/ w <= a)
    BY <1>1, Zenon
  <2> HIDE DEF q, o, w
  <2>4. Beside(q, 4, a, n) /\ Beside(q + 4, 4, a, n)
    BY <2>2, <2>3 DEF Beside
  <2> QED BY <2>4, Zenon DEF q
<1>5. 8 <= a /\ 8 \in Fields /\ 12 \in Fields /\ 16 \in Fields /\ 20 \in Fields
      /\ 24 \in Fields /\ 28 \in Fields
  BY DEF Fields
<1>6. /\ Same(x, 0, Magic, 0, 8)
      /\ \A f \in Fields : Get(x, f) = Get(m, f)
      /\ Get(x, s.index_offset) = Len(s.entries)
      /\ \A i \in 1 .. Len(s.entries) : /\ Get(x, Slot(s, i)) = Address(s, i)
                                        /\ Get(x, Slot(s, i) + 4) = Length(s, i)
  BY <1>2, <1>3, <1>4, <1>5, WordsKept
<1>7. /\ Get(x, 8) = 1 /\ Get(x, 12) = s.block_count /\ Get(x, 16) = s.index_offset
      /\ Get(x, 20) = s.index_length /\ Get(x, 24) = s.variables_offset
      /\ Get(x, 28) = s.trailer_len
  BY <1>5, <1>6, HeaderWords, Zenon
<1> QED BY <1>1, <1>6, <1>7, EncodesByWords

(* A store of one of the numbers of the header that no offset depends on.  *)
WithField(t, s, f, v) ==
  /\ t.size = s.size /\ t.entries = s.entries
  /\ t.index_offset = s.index_offset /\ t.variables_offset = s.variables_offset
  /\ t.block_count = IF f = 12 THEN v ELSE s.block_count
  /\ t.index_length = IF f = 20 THEN v ELSE s.index_length
  /\ t.trailer_len = IF f = 28 THEN v ELSE s.trailer_len

(* The store of a header field stores that field of the layout. *)
LEMMA HeaderEncodes ==
  ASSUME NEW m, NEW s, Encodes(m, s), NEW x, NEW f \in {12, 20, 28}, OnlyAt(x, m, f, 4),
         NEW t \in Layout!Layouts, WithField(t, s, f, Get(x, f))
  PROVE  Encodes(x, t)
<1>1. /\ s \in Layout!Layouts /\ Len(x) = s.size /\ x \in Seq(Byte) /\ 32 <= s.index_offset
      /\ Layout!IndexPoint(s) <= s.size /\ s.index_offset \in Nat
  BY PointIs DEF Encodes, OnlyAt
<1>2. Layout!IndexPoint(t) = Layout!IndexPoint(s) /\ \A i : Slot(t, i) = Slot(s, i)
  BY DEF Layout!IndexPoint, Slot, WithField
<1>3. f \in Fields /\ f \in Nat /\ 8 <= f /\ f + 4 <= 32
  BY DEF Fields
<1>4. Beside(s.index_offset, 4, f, 4)
  BY <1>1, <1>3 DEF Beside
<1>5. ASSUME NEW i \in 1 .. Len(s.entries)
      PROVE  Beside(Slot(s, i), 4, f, 4) /\ Beside(Slot(s, i) + 4, 4, f, 4)
  <2>1. i \in Nat \ {0}
    BY <1>1, LayoutTypes
  <2>2. Slot(s, i) \in Nat /\ s.index_offset + 4 <= Slot(s, i)
    BY <1>1, <2>1, Slots
  <2> QED BY <1>1, <1>3, <2>2 DEF Beside
<1>6. /\ Same(x, 0, Magic, 0, 8)
      /\ \A g \in Fields : g # f => Get(x, g) = Get(m, g)
      /\ Get(x, s.index_offset) = Len(s.entries)
      /\ \A i \in 1 .. Len(s.entries) : /\ Get(x, Slot(s, i)) = Address(s, i)
                                        /\ Get(x, Slot(s, i) + 4) = Length(s, i)
  <2>1. 4 \in Nat
    OBVIOUS
  <2>2. \A g \in Fields : g # f => Beside(g, 4, f, 4)
    BY <1>3, FieldsApart
  <2>3. /\ 8 <= f => Same(x, 0, Magic, 0, 8)
        /\ \A g \in Fields : Beside(g, 4, f, 4) => Get(x, g) = Get(m, g)
        /\ Beside(s.index_offset, 4, f, 4) => Get(x, s.index_offset) = Len(s.entries)
        /\ \A i \in 1 .. Len(s.entries) :
              /\ Beside(Slot(s, i), 4, f, 4) => Get(x, Slot(s, i)) = Address(s, i)
              /\ Beside(Slot(s, i) + 4, 4, f, 4) => Get(x, Slot(s, i) + 4) = Length(s, i)
    BY <1>3, <2>1, WordsKept
  <2> QED BY <1>3, <1>4, <1>5, <2>2, <2>3
<1>7. /\ 8 \in Fields /\ 12 \in Fields /\ 16 \in Fields /\ 20 \in Fields
      /\ 24 \in Fields /\ 28 \in Fields /\ 8 # f /\ 16 # f /\ 24 # f
  BY DEF Fields
<1>8. Get(x, 8) = 1 /\ Get(x, 16) = s.index_offset /\ Get(x, 24) = s.variables_offset
  BY <1>6, <1>7, HeaderWords, Zenon
<1>9. Get(x, 12) = t.block_count
  BY <1>6, <1>7, HeaderWords, Zenon DEF WithField
<1>10. Get(x, 20) = t.index_length
  BY <1>6, <1>7, HeaderWords, Zenon DEF WithField
<1>11. Get(x, 28) = t.trailer_len
  BY <1>6, <1>7, HeaderWords, Zenon DEF WithField
<1>12. /\ x \in Seq(Byte) /\ Len(x) = t.size /\ 32 <= t.index_offset
       /\ Layout!IndexPoint(t) <= t.size /\ Same(x, 0, Magic, 0, 8)
       /\ Get(x, 16) = t.index_offset /\ Get(x, 24) = t.variables_offset
       /\ Get(x, t.index_offset) = Len(t.entries)
       /\ \A i \in 1 .. Len(t.entries) : /\ Get(x, Slot(t, i)) = Address(t, i)
                                         /\ Get(x, Slot(t, i) + 4) = Length(t, i)
  BY <1>1, <1>2, <1>6, <1>8, Zenon DEF WithField, Address, Length
<1> QED BY <1>8, <1>9, <1>10, <1>11, <1>12, EncodesByWords

(* t is s with other entries. *)
WithEntries(t, s) ==
  /\ t.size = s.size /\ t.index_offset = s.index_offset /\ t.index_length = s.index_length
  /\ t.variables_offset = s.variables_offset /\ t.trailer_len = s.trailer_len
  /\ t.block_count = s.block_count

(* The count is raised over entries that are there already. *)
LEMMA CountEncodes ==
  ASSUME NEW m, NEW s, Encodes(m, s), NEW x, OnlyAt(x, m, s.index_offset, 4),
         NEW t \in Layout!Layouts, WithEntries(t, s),
         Get(x, s.index_offset) = Len(t.entries), Len(s.entries) <= Len(t.entries),
         Layout!IndexPoint(t) <= s.size,
         \A i \in 1 .. Len(s.entries) : Address(t, i) = Address(s, i) /\ Length(t, i) = Length(s, i),
         \A i \in Len(s.entries) + 1 .. Len(t.entries) :
           Get(m, Slot(s, i)) = Address(t, i) /\ Get(m, Slot(s, i) + 4) = Length(t, i)
  PROVE  Encodes(x, t)
<1> DEFINE o == s.index_offset
           N == Len(s.entries)
           K == Len(t.entries)
<1>1. /\ s \in Layout!Layouts /\ Len(m) = s.size /\ x \in Seq(Byte) /\ Len(x) = s.size
      /\ 32 <= o /\ o \in Nat /\ N \in Nat /\ K \in Nat /\ s.size \in Nat
  BY LayoutTypes DEF Encodes, OnlyAt
<1>2. /\ t.index_offset = o /\ \A i : Slot(t, i) = Slot(s, i)
      /\ t.size = s.size /\ t.index_length = s.index_length
      /\ t.variables_offset = s.variables_offset /\ t.trailer_len = s.trailer_len
      /\ t.block_count = s.block_count
  BY DEF Slot, WithEntries
<1>3. \A f \in Fields : Beside(f, 4, o, 4)
  BY <1>1, FieldsAre DEF Beside
<1>4. /\ Same(x, 0, Magic, 0, 8)
      /\ \A f \in Fields : Get(x, f) = Get(m, f)
  <2>1. 8 <= o /\ o \in Nat /\ 4 \in Nat /\ OnlyAt(x, m, o, 4) /\ Encodes(m, s)
    BY <1>1
  <2> HIDE DEF o
  <2>2. /\ 8 <= o => Same(x, 0, Magic, 0, 8)
        /\ \A f \in Fields : Beside(f, 4, o, 4) => Get(x, f) = Get(m, f)
        /\ Beside(s.index_offset, 4, o, 4) => Get(x, s.index_offset) = Len(s.entries)
        /\ \A i \in 1 .. Len(s.entries) :
              /\ Beside(Slot(s, i), 4, o, 4) => Get(x, Slot(s, i)) = Address(s, i)
              /\ Beside(Slot(s, i) + 4, 4, o, 4) => Get(x, Slot(s, i) + 4) = Length(s, i)
    BY <2>1, WordsKept
  <2> QED BY <1>3, <2>1, <2>2, Zenon
<1>5. \A c \in Nat : c + 4 <= s.size /\ o + 4 <= c => Get(x, c) = Get(m, c)
  <2>1. \A c \in Nat, k \in Nat : c + k <= s.size /\ o + 4 <= c => Same(x, c, m, c, k)
    BY <1>1 DEF OnlyAt, Beside
  <2> QED BY <2>1, GetCarried
<1>6. ASSUME NEW i \in 1 .. K
      PROVE  Get(x, Slot(t, i)) = Address(t, i) /\ Get(x, Slot(t, i) + 4) = Length(t, i)
  <2>1. i \in Nat \ {0} /\ i <= K
    BY <1>1
  <2>2. /\ Slot(t, i) \in Nat /\ o + 4 <= Slot(t, i) /\ Slot(t, i) + 8 <= Layout!IndexPoint(t)
        /\ Layout!IndexPoint(t) \in Nat
    BY <1>2, <2>1, Slots
  <2>3. /\ Slot(s, i) \in Nat /\ o + 4 <= Slot(s, i) /\ Slot(s, i) + 4 <= s.size
        /\ Slot(s, i) + 4 \in Nat /\ o + 4 <= Slot(s, i) + 4 /\ (Slot(s, i) + 4) + 4 <= s.size
    BY <1>1, <1>2, <2>2
  <2>4. Get(x, Slot(s, i)) = Get(m, Slot(s, i)) /\ Get(x, Slot(s, i) + 4) = Get(m, Slot(s, i) + 4)
    BY <1>5, <2>3
  <2>5. CASE i <= N
    <3>1. i \in 1 .. N
      BY <1>1, <2>5
    <3>2. Get(m, Slot(s, i)) = Address(s, i) /\ Get(m, Slot(s, i) + 4) = Length(s, i)
      BY <3>1, EncodesIndex
    <3> QED BY <1>2, <2>4, <3>1, <3>2
  <2>6. CASE ~(i <= N)
    <3>1. i \in N + 1 .. K
      BY <1>1, <2>6
    <3> QED BY <1>2, <2>4, <3>1
  <2> QED BY <2>5, <2>6
<1>7. 8 \in Fields /\ 12 \in Fields /\ 16 \in Fields /\ 20 \in Fields /\ 24 \in Fields /\ 28 \in Fields
  BY DEF Fields
<1>8. /\ Get(x, 8) = 1 /\ Get(x, 12) = t.block_count /\ Get(x, 16) = t.index_offset
      /\ Get(x, 20) = t.index_length /\ Get(x, 24) = t.variables_offset
      /\ Get(x, 28) = t.trailer_len
  BY <1>2, <1>4, <1>7, HeaderWords, Zenon
<1>9. /\ Len(x) = t.size /\ 32 <= t.index_offset /\ Layout!IndexPoint(t) <= t.size
      /\ Get(x, t.index_offset) = Len(t.entries)
  BY <1>1, <1>2
<1> QED BY <1>1, <1>4, <1>6, <1>8, <1>9, EncodesByWords

(* The length of entry i is stored. *)
LEMMA LengthEncodes ==
  ASSUME NEW m, NEW s, Encodes(m, s), NEW i \in 1 .. Len(s.entries), NEW x,
         OnlyAt(x, m, Slot(s, i) + 4, 4),
         NEW t \in Layout!Layouts, WithEntries(t, s), Len(t.entries) = Len(s.entries),
         \A j \in 1 .. Len(s.entries) : Address(t, j) = Address(s, j),
         \A j \in 1 .. Len(s.entries) : j # i => Length(t, j) = Length(s, j),
         Get(x, Slot(s, i) + 4) = Length(t, i)
  PROVE  Encodes(x, t)
<1> DEFINE o == s.index_offset
           N == Len(s.entries)
           a == Slot(s, i) + 4
<1>1. /\ s \in Layout!Layouts /\ Len(m) = s.size /\ x \in Seq(Byte) /\ Len(x) = s.size
      /\ 32 <= o /\ o \in Nat /\ N \in Nat /\ s.size \in Nat /\ Layout!IndexPoint(s) <= s.size
  BY LayoutTypes DEF Encodes, OnlyAt
<1>2. /\ t.index_offset = o /\ \A j : Slot(t, j) = Slot(s, j)
      /\ t.size = s.size /\ t.index_length = s.index_length
      /\ t.variables_offset = s.variables_offset /\ t.trailer_len = s.trailer_len
      /\ t.block_count = s.block_count
  BY DEF Slot, WithEntries
<1>0. \A j \in 1 .. N : j \in Nat \ {0}
  OBVIOUS
<1>3. a \in Nat /\ o + 8 <= a /\ OnlyAt(x, m, a, 4)
  <2>1. Slot(s, i) \in Nat /\ o + 4 <= Slot(s, i)
    BY <1>0, <1>1, Slots
  <2> QED BY <1>1, <2>1
<1> HIDE DEF a
<1>4. /\ \A f \in Fields : Beside(f, 4, a, 4)
      /\ Beside(o, 4, a, 4)
  BY <1>1, <1>3, FieldsAre DEF Beside
<1>5. /\ Same(x, 0, Magic, 0, 8)
      /\ \A f \in Fields : Get(x, f) = Get(m, f)
      /\ Get(x, o) = N
      /\ \A j \in 1 .. N :
              /\ Beside(Slot(s, j), 4, a, 4) => Get(x, Slot(s, j)) = Address(s, j)
              /\ Beside(Slot(s, j) + 4, 4, a, 4) => Get(x, Slot(s, j) + 4) = Length(s, j)
  <2>1. 8 <= a /\ 4 \in Nat
    BY <1>1, <1>3
  <2> QED BY <1>3, <1>4, <2>1, WordsKept
<1>6. ASSUME NEW j \in 1 .. N
      PROVE  Get(x, Slot(t, j)) = Address(t, j) /\ Get(x, Slot(t, j) + 4) = Length(t, j)
  <2>1. /\ i \in Nat \ {0} /\ j \in Nat \ {0}
    BY <1>0
  <2>2. /\ Slot(s, j) \in Nat /\ Slot(s, i) \in Nat
        /\ i # j => Slot(s, i) + 8 <= Slot(s, j) \/ Slot(s, j) + 8 <= Slot(s, i)
    BY <1>1, <2>1, Slots
  <2>3. Beside(Slot(s, j), 4, a, 4) /\ (i # j => Beside(Slot(s, j) + 4, 4, a, 4))
    BY <2>2 DEF Beside, a
  <2>4. Get(x, Slot(s, j)) = Address(s, j) /\ (i # j => Get(x, Slot(s, j) + 4) = Length(s, j))
    BY <1>5, <2>3
  <2>5. i = j => Get(x, Slot(s, j) + 4) = Length(t, j)
    BY DEF a
  <2> QED BY <1>2, <2>4, <2>5
<1>7. 8 \in Fields /\ 12 \in Fields /\ 16 \in Fields /\ 20 \in Fields /\ 24 \in Fields /\ 28 \in Fields
  BY DEF Fields
<1>8. /\ Get(x, 8) = 1 /\ Get(x, 12) = t.block_count /\ Get(x, 16) = t.index_offset
      /\ Get(x, 20) = t.index_length /\ Get(x, 24) = t.variables_offset
      /\ Get(x, 28) = t.trailer_len
  BY <1>2, <1>5, <1>7, HeaderWords, Zenon
<1>9. /\ Len(x) = t.size /\ 32 <= t.index_offset /\ Layout!IndexPoint(t) <= t.size
      /\ Get(x, t.index_offset) = Len(t.entries)
  <2>1. Layout!IndexPoint(t) = Layout!IndexPoint(s)
    BY <1>2 DEF Layout!IndexPoint
  <2> QED BY <1>1, <1>2, <1>5, <2>1
<1>10. \A j \in 1 .. Len(t.entries) :
         Get(x, Slot(t, j)) = Address(t, j) /\ Get(x, Slot(t, j) + 4) = Length(t, j)
  BY <1>6
<1> QED BY <1>1, <1>5, <1>8, <1>9, <1>10, EncodesByWords

-----------------------------------------------------------------------------
(* The same blocks and variables, and perhaps more, at the same places. *)
SamePlaces(u, t) ==
  /\ u.variables_offset = t.variables_offset /\ t.variable_bytes <= u.variable_bytes
  /\ Len(t.entries) <= Len(u.entries)
  /\ \A i \in 1 .. Len(t.entries) :
       /\ Address(u, i) = Address(t, i) /\ Length(t, i) <= Length(u, i)
       /\ Held(u, i) <=> Held(t, i)

(* Other fields that are not offsets may differ. *)
LEMMA KeptThere ==
  ASSUME NEW m, NEW s \in Layout!Layouts, NEW x, NEW t \in Layout!Layouts, NEW u \in Layout!Layouts,
         Kept(x, t, m, s), SamePlaces(u, t)
  PROVE  Kept(x, u, m, s)
<1>1. Kept(x, u, x, t)
  <2>1. /\ t.variable_bytes \in Nat /\ t.variables_offset \in Nat
        /\ \A i \in 1 .. Len(t.entries) : Address(t, i) \in Nat /\ Length(t, i) \in Nat
    BY LayoutTypes
  <2> QED BY <2>1 DEF Kept, SamePlaces, Same
<1> QED BY <1>1, KeptTwice

(* A store beside the blocks and the variables. *)
LEMMA KeptPut ==
  ASSUME NEW m, NEW s \in Layout!Layouts, NEW x, NEW u, Layout!SoundLayout(u), Kept(x, u, m, s),
         Len(x) = u.size, NEW y, NEW a \in Nat, NEW n \in Nat, OnlyAt(y, x, a, n),
         \A i \in 1 .. Len(s.entries) : Held(u, i) => Beside(Address(u, i), Length(u, i), a, n),
         Beside(u.variables_offset + 4, s.variable_bytes, a, n)
  PROVE  Kept(y, u, m, s)
<1>1. \A c \in Nat, k \in Nat : c + k <= u.size /\ Beside(c, k, a, n) => Same(y, c, x, c, k)
  BY DEF OnlyAt
<1>2. /\ Len(s.entries) \in Nat /\ Len(u.entries) \in Nat /\ s.variable_bytes \in Nat
      /\ u.size \in Nat /\ u.variables_offset \in Nat
      /\ u.variables_offset + 4 + u.variable_bytes <= u.size
      /\ u.variable_bytes \in Nat /\ s.variable_bytes <= u.variable_bytes
      /\ Len(s.entries) <= Len(u.entries)
  <2> DEFINE z == u.size  o == u.index_offset  il == u.index_length  v == u.variables_offset
             tl == u.trailer_len  vb == u.variable_bytes  fl == u.freelist_offset
             p == Layout!IndexPoint(u)
  <2>1. Numbers(z, o, il, v, tl, vb, fl, p)
    BY SoundNumbers
  <2>2. Len(s.entries) \in Nat /\ Len(u.entries) \in Nat /\ s.variable_bytes \in Nat
    BY SoundSections, LayoutTypes
  <2>3. s.variable_bytes <= vb /\ Len(s.entries) <= Len(u.entries)
    BY DEF Kept
  <2> HIDE DEF z, o, il, v, tl, vb, fl, p
  <2>4. z \in Nat /\ v \in Nat /\ v + 4 + vb <= z /\ vb \in Nat
    BY <2>1 DEF Numbers
  <2> QED BY <2>2, <2>3, <2>4 DEF z, v, vb
<1>3. ASSUME NEW i \in 1 .. Len(s.entries)
      PROVE  Same(y, Address(u, i), m, Address(s, i), Length(s, i))
  <2> DEFINE c == Address(u, i)  l == Length(u, i)  k == Length(s, i)
  <2>1. i \in 1 .. Len(u.entries)
    BY <1>2
  <2>2. c \in Nat /\ l \in Nat /\ c + l <= u.size /\ k \in Nat /\ k <= l
    BY <2>1, SoundBlocks, LayoutTypes DEF Kept
  <2>3. Same(x, c, m, Address(s, i), k)
    BY DEF Kept
  <2>4. Held(u, i) => Beside(c, l, a, n)
    OBVIOUS
  <2>5. ~Held(u, i) => k = 0
    <3>1. ~Held(u, i) => l = 0
      BY DEF Held
    <3> QED BY <2>2, <3>1
  <2> HIDE DEF c, l, k
  <2>6. CASE k = 0
    BY <2>6 DEF Same, k
  <2>7. CASE k # 0
    <3>1. Same(y, c, x, c, k)
      <4>1. c + k <= u.size /\ Beside(c, k, a, n)
        BY <1>2, <2>2, <2>4, <2>5, <2>7 DEF Beside
      <4> QED BY <1>1, <2>2, <4>1
    <3>2. Same(y, c, m, Address(s, i), k)
      BY <2>3, <3>1, SameTwice
    <3> QED BY <3>2 DEF c, k
  <2> QED BY <2>6, <2>7
<1>4. Same(y, u.variables_offset + 4, m, s.variables_offset + 4, s.variable_bytes)
  <2>1. Same(x, u.variables_offset + 4, m, s.variables_offset + 4, s.variable_bytes)
    BY DEF Kept
  <2>2. /\ u.variables_offset + 4 \in Nat /\ s.variable_bytes \in Nat
        /\ (u.variables_offset + 4) + s.variable_bytes <= u.size
    <3> DEFINE v == u.variables_offset  b == s.variable_bytes  w == u.variable_bytes  z == u.size
    <3>1. v \in Nat /\ b \in Nat /\ w \in Nat /\ z \in Nat /\ v + 4 + w <= z /\ b <= w
      BY <1>2, Zenon
    <3> HIDE DEF v, b, w, z
    <3>2. v + 4 \in Nat /\ b \in Nat /\ (v + 4) + b <= z
      BY <3>1
    <3> QED BY <3>2 DEF v, b, z
  <2>3. Same(y, u.variables_offset + 4, x, u.variables_offset + 4, s.variable_bytes)
    BY <1>1, <2>2
  <2> QED BY <2>1, <2>3, SameTwice
<1> QED BY <1>3, <1>4 DEF Kept

(* A store in the header or in the index is one. *)
InSections(u, a, n) ==
  \/ a + n <= 32
  \/ u.index_offset <= a /\ a + n <= u.index_offset + u.index_length
  \/ a = u.variables_offset /\ n = 4

(* A store in one of the sections, in its head, or in a gap touches no block. *)
LEMMA KeptSections ==
  ASSUME NEW m, NEW s \in Layout!Layouts, NEW x, NEW u, Layout!SoundLayout(u), Kept(x, u, m, s),
         Len(x) = u.size, NEW y, NEW a \in Nat, NEW n \in Nat, OnlyAt(y, x, a, n),
         InSections(u, a, n)
  PROVE  Kept(y, u, m, s)
<1> DEFINE z == u.size  o == u.index_offset  il == u.index_length  v == u.variables_offset
           tl == u.trailer_len  vb == u.variable_bytes  fl == u.freelist_offset
           p == Layout!IndexPoint(u)
           k == s.variable_bytes
<1>1. Numbers(z, o, il, v, tl, vb, fl, p) /\ k \in Nat /\ k <= vb
      /\ Len(s.entries) \in Nat /\ Len(u.entries) \in Nat /\ Len(s.entries) <= Len(u.entries)
  BY SoundNumbers, SoundSections, LayoutTypes DEF Kept
<1>2. a + n <= 32 \/ (o <= a /\ a + n <= o + il) \/ (a = v /\ n = 4)
  BY DEF InSections
<1>3. ASSUME NEW i \in 1 .. Len(s.entries), Held(u, i)
      PROVE  Beside(Address(u, i), Length(u, i), a, n)
  <2> DEFINE c == Address(u, i)  l == Length(u, i)
  <2>1. Placed(z, o, il, v, tl, c, l)
    <3>1. i \in 1 .. Len(u.entries)
      BY <1>1
    <3> QED BY <3>1, SoundPlaces
  <2>2. c # 0 \/ l # 0
    BY <1>3 DEF Held
  <2> HIDE DEF c, l, z, o, il, v, tl, vb, fl, p
  <2>3. Beside(c, l, a, n)
    BY <1>1, <1>2, <2>1, <2>2 DEF Numbers, Placed, Beside
  <2> QED BY <2>3 DEF c, l
<1>4. Beside(v + 4, k, a, n)
  <2> HIDE DEF z, o, il, v, tl, vb, fl, p, k
  <2> QED BY <1>1, <1>2 DEF Numbers, Beside
<1> QED BY <1>3, <1>4, KeptPut

-----------------------------------------------------------------------------
(***************************************************************************)
(* Zeros, and the walk over the variables.                                 *)
(***************************************************************************)

(* A run of zeros. *)
Zero(m, a, n) == \A k \in 0 .. n - 1 : m[a + k + 1] = 0

(* A run of zeros that is carried is one. *)
LEMMA ZeroSame ==
  ASSUME NEW x, NEW b, NEW m, NEW a, NEW n, Same(x, b, m, a, n), Zero(m, a, n)
  PROVE  Zero(x, b, n)
BY DEF Same, Zero

(* So is a part of it. *)
LEMMA ZeroPart ==
  ASSUME NEW m, NEW a \in Nat, NEW n \in Int, Zero(m, a, n), NEW b \in Nat, NEW k \in Int,
         a <= b, b + k <= a + n
  PROVE  Zero(m, b, k)
<1> SUFFICES ASSUME NEW j \in 0 .. k - 1 PROVE m[b + j + 1] = 0
  BY DEF Zero
<1>1. (b - a) + j \in 0 .. n - 1 /\ a + ((b - a) + j) + 1 = b + j + 1
  OBVIOUS
<1> QED BY <1>1 DEF Zero

(* And two of them, end to end. *)
LEMMA ZeroJoin ==
  ASSUME NEW m, NEW a \in Nat, NEW n \in Nat, NEW k \in Nat, Zero(m, a, n), Zero(m, a + n, k)
  PROVE  Zero(m, a, n + k)
<1> SUFFICES ASSUME NEW j \in 0 .. n + k - 1 PROVE m[a + j + 1] = 0
  BY DEF Zero
<1>1. CASE j < n
  <2>1. j \in 0 .. n - 1
    BY <1>1
  <2> QED BY <2>1 DEF Zero
<1>2. CASE ~(j < n)
  <2>1. j - n \in 0 .. k - 1 /\ a + n + (j - n) + 1 = a + j + 1
    BY <1>2
  <2> QED BY <2>1 DEF Zero
<1> QED BY <1>1, <1>2

(* Zeros(n) is a run of n zeros. *)
LEMMA ZerosAre ==
  ASSUME NEW n \in Nat
  PROVE  Zeros(n) \in Seq(Byte) /\ Len(Zeros(n)) = n /\ Zero(Zeros(n), 0, n)
<1>1. Zeros(n) \in [1 .. n -> Byte]
  BY DEF Zeros, Byte
<1>2. Zeros(n) \in Seq(Byte) /\ Len(Zeros(n)) = n
  <2>1. Zeros(n) \in Seq(Byte)
    BY <1>1, SeqDef
  <2>2. DOMAIN Zeros(n) = 1 .. n
    BY DEF Zeros
  <2> QED BY <2>1, <2>2, LenProperties
<1>3. Zero(Zeros(n), 0, n)
  BY DEF Zero, Zeros
<1> QED BY <1>2, <1>3

(* The unused part of the index section, with the free list at its end. *)
Spare(m, s) == Zero(m, Layout!IndexPoint(s), s.freelist_offset + 20 - Layout!IndexPoint(s))

-----------------------------------------------------------------------------
(* The walk over n variables: st[i] bytes behind the first one the i-th    *)
(* starts, and st[n] is where they end.                                    *)
Walk(m, s, st, n) ==
  /\ n \in Nat /\ st \in [0 .. n -> Nat] /\ st[0] = 0 /\ st[n] = s.variable_bytes
  /\ Get(m, s.variables_offset) = n
  /\ \A i \in 1 .. n : /\ st[i] = st[i - 1] + 5 + m[s.variables_offset + 4 + st[i - 1] + 5]
                       /\ st[i - 1] + 5 <= st[i] /\ 5 * i <= st[i] /\ st[i] <= st[n]

(* The code's walk over the variables is this walk: each starts where the    *)
(* one before ends.                                                          *)
LEMMA WalkStarts ==
  ASSUME NEW m, NEW s \in Layout!Layouts, NEW st, NEW n, Walk(m, s, st, n),
         VariablesOffset(m) = s.variables_offset, m \in Seq(Byte),
         s.variables_offset + 4 + s.variable_bytes <= Len(m)
  PROVE  /\ VariableCount(m) = n
         /\ \A i \in 0 .. n : VariableStart(m)[i] = s.variables_offset + 4 + st[i]
<1> DEFINE v == s.variables_offset
           F(y, i) == y + 5 + m[y + 5]
           Is(g) == g = [i \in 0 .. n |-> IF i = 0 THEN v + 4 ELSE F(g[i - 1], i)]
           h == [i \in 0 .. n |-> v + 4 + st[i]]
           f == CHOOSE g : Is(g)
           S == {i \in Nat : i <= n => f[i] = h[i]}
<1>1. v \in Nat /\ n \in Nat /\ \A i \in 0 .. n : st[i] \in Nat
  BY LayoutTypes DEF Walk
<1>2. VariableCount(m) = n
  BY DEF VariableCount, Walk
<1>3. VariableStart(m) = f
  BY <1>2 DEF VariableStart, Layout!CountSize, Layout!VariableHeaderSize
<1>4. \A i \in 1 .. n : /\ i \in 0 .. n /\ i - 1 \in 0 .. n /\ i # 0
                        /\ h[i] = F(h[i - 1], i)
  <2> SUFFICES ASSUME NEW i \in 1 .. n PROVE i \in 0 .. n /\ i - 1 \in 0 .. n /\ i # 0 /\ h[i] = F(h[i - 1], i)
    OBVIOUS
  <2>1. i \in 0 .. n /\ i - 1 \in 0 .. n /\ i # 0
    BY <1>1
  <2>2. st[i] = st[i - 1] + 5 + m[v + 4 + st[i - 1] + 5]
    BY DEF Walk
  <2>3. st[i] \in Nat /\ st[i - 1] \in Nat
    BY <1>1, <2>1
  <2>4. h[i] = v + 4 + st[i] /\ h[i - 1] = v + 4 + st[i - 1]
    BY <2>1
  <2> DEFINE y == m[v + 4 + st[i - 1] + 5]
  <2>5. st[i] = st[i - 1] + 5 + y
    BY <2>2
  <2> HIDE DEF h, y, v
  <2>6. v + 4 + (st[i - 1] + 5 + y) = (v + 4 + st[i - 1]) + 5 + y
    <3>1. y \in Nat
      <4>1. v + 4 + st[i - 1] + 5 \in 1 .. Len(m)
        <5>1. st[i - 1] + 5 <= st[i] /\ st[i] <= s.variable_bytes
          BY DEF Walk
        <5>2. v + 4 + s.variable_bytes <= Len(m) /\ s.variable_bytes \in Nat /\ Len(m) \in Nat
          BY LayoutTypes, LenProperties DEF v
        <5> DEFINE e == st[i - 1]  g == st[i]  l == Len(m)  b == s.variable_bytes
        <5>3. /\ e \in Nat /\ g \in Nat /\ l \in Nat /\ b \in Nat /\ v \in Nat
              /\ e + 5 <= g /\ g <= b /\ v + 4 + b <= l
          BY <1>1, <2>3, <5>1, <5>2, Zenon
        <5> HIDE DEF e, g, l, b
        <5>4. v + 4 + e + 5 \in 1 .. l
          BY <5>3
        <5> QED BY <5>4, Zenon DEF e, l
      <4>2. y \in Byte
        BY <4>1, ElementOfSeq DEF y
      <4> QED BY <4>2 DEF Byte
    <3> QED BY <1>1, <2>3, <3>1
  <2>7. m[h[i - 1] + 5] = y
    BY <2>4 DEF y
  <2>8. h[i] = (v + 4 + st[i - 1]) + 5 + y
    BY <2>4, <2>5, <2>6, Zenon
  <2>9. h[i] = h[i - 1] + 5 + m[h[i - 1] + 5]
    BY <2>4, <2>7, <2>8, Zenon
  <2> QED BY <2>1, <2>9
<1>5. h[0] = v + 4
  <2>1. 0 \in 0 .. n /\ st[0] = 0
    BY <1>1 DEF Walk
  <2> QED BY <1>1, <2>1
<1>6. Is(h)
  <2>1. \A i \in 0 .. n : h[i] = IF i = 0 THEN v + 4 ELSE F(h[i - 1], i)
    <3> SUFFICES ASSUME NEW i \in 0 .. n PROVE h[i] = IF i = 0 THEN v + 4 ELSE F(h[i - 1], i)
      OBVIOUS
    <3>1. i = 0 \/ i \in 1 .. n
      BY <1>1
    <3> HIDE DEF h, F
    <3> QED BY <1>4, <1>5, <3>1
  <2>2. h = [i \in 0 .. n |-> h[i]]
    OBVIOUS
  <2> HIDE DEF h, F, v
  <2>3. [i \in 0 .. n |-> h[i]] = [i \in 0 .. n |-> IF i = 0 THEN v + 4 ELSE F(h[i - 1], i)]
    BY <2>1
  <2> QED BY <2>2, <2>3
<1> HIDE DEF Is
<1>7. Is(f)
  BY <1>6
<1> HIDE DEF f, h, F, v
<1>8. \A i \in 0 .. n : f[i] = IF i = 0 THEN v + 4 ELSE F(f[i - 1], i)
  BY <1>7 DEF Is
<1>9. 0 \in S
  <2>1. 0 \in 0 .. n
    BY <1>1
  <2> QED BY <1>5, <1>8, <2>1
<1>10. ASSUME NEW i \in Nat, i \in S PROVE i + 1 \in S
  <2> SUFFICES ASSUME i + 1 <= n PROVE f[i + 1] = h[i + 1]
    OBVIOUS
  <2>1. i + 1 \in 1 .. n /\ i + 1 \in 0 .. n /\ i + 1 # 0 /\ i + 1 - 1 = i /\ i <= n
    BY <1>1
  <2>2. f[i] = h[i]
    BY <1>10, <2>1
  <2>3. f[i + 1] = F(f[i], i + 1)
    BY <1>8, <2>1
  <2>4. h[i + 1] = F(h[i], i + 1)
    BY <1>4, <2>1
  <2> QED BY <2>2, <2>3, <2>4
<1> HIDE DEF S
<1>11. \A i \in Nat : i \in S
  BY <1>9, <1>10, Induction
<1>12. \A i \in 0 .. n : f[i] = h[i]
  BY <1>1, <1>11 DEF S
<1> QED BY <1>2, <1>3, <1>12 DEF h, v

(* The walk is kept with the bytes of the variables. *)
LEMMA WalkSame ==
  ASSUME NEW m, NEW s \in Layout!Layouts, NEW x, NEW t \in Layout!Layouts,
         Same(x, t.variables_offset + 4, m, s.variables_offset + 4, s.variable_bytes),
         t.variable_bytes = s.variable_bytes, Same(x, t.variables_offset, m, s.variables_offset, 4),
         NEW st, NEW n, Walk(m, s, st, n)
  PROVE  Walk(x, t, st, n)
<1> DEFINE v == s.variables_offset
           w == t.variables_offset
           vb == s.variable_bytes
<1>1. v \in Nat /\ w \in Nat /\ vb \in Nat
  BY LayoutTypes
<1>2. /\ n \in Nat /\ st \in [0 .. n -> Nat] /\ st[0] = 0 /\ st[n] = vb /\ Get(m, v) = n
      /\ \A i \in 1 .. n : /\ st[i] = st[i - 1] + 5 + m[v + 4 + st[i - 1] + 5]
                           /\ st[i - 1] + 5 <= st[i] /\ 5 * i <= st[i] /\ st[i] <= st[n]
  BY DEF Walk
<1>3. Get(x, w) = n
  BY <1>1, <1>2, SameGet
<1>4. Same(x, w + 4, m, v + 4, vb)
  OBVIOUS
<1> HIDE DEF v, w, vb
<1>5. ASSUME NEW i \in 1 .. n
      PROVE  x[w + 4 + st[i - 1] + 5] = m[v + 4 + st[i - 1] + 5]
  <2>1. i - 1 \in 0 .. n /\ i \in 0 .. n
    BY <1>2
  <2>2. st[i - 1] \in Nat /\ st[i] \in Nat /\ st[i - 1] + 5 <= st[i] /\ st[i] <= vb
    BY <1>2, <2>1
  <2>3. st[i - 1] + 4 \in 0 .. vb - 1
    BY <1>1, <2>2
  <2>4. x[w + 4 + (st[i - 1] + 4) + 1] = m[v + 4 + (st[i - 1] + 4) + 1]
    BY <1>4, <2>3 DEF Same
  <2>5. /\ w + 4 + (st[i - 1] + 4) + 1 = w + 4 + st[i - 1] + 5
        /\ v + 4 + (st[i - 1] + 4) + 1 = v + 4 + st[i - 1] + 5
    BY <1>1, <2>2
  <2> QED BY <2>4, <2>5
<1>6. \A i \in 1 .. n : st[i] = st[i - 1] + 5 + x[w + 4 + st[i - 1] + 5]
  BY <1>2, <1>5
<1> QED BY <1>2, <1>3, <1>6 DEF Walk, v, w, vb

(* The same of an operation that keeps the variables. *)
LEMMA WalkKept ==
  ASSUME NEW m, NEW s \in Layout!Layouts, NEW x, NEW t \in Layout!Layouts, Kept(x, t, m, s),
         t.variable_bytes = s.variable_bytes, Same(x, t.variables_offset, m, s.variables_offset, 4),
         NEW st, NEW n, Walk(m, s, st, n)
  PROVE  Walk(x, t, st, n)
<1>1. Same(x, t.variables_offset + 4, m, s.variables_offset + 4, s.variable_bytes)
  BY DEF Kept
<1> QED BY <1>1, WalkSame

-----------------------------------------------------------------------------
(***************************************************************************)
(* The geometry stays sound, as BomLayout_proofs shows it.                 *)
(***************************************************************************)

(* The operations on layouts are those that BomLayout_proofs is about. *)
LEMMA EmptyStays == Layout!SoundLayout(Layout!EmptyLayout)
<1>1. Geo!SoundLayout(Geo!EmptyLayout)
  BY Geo!EmptyIsSound
<1>2. Geo!EmptyLayout = Layout!EmptyLayout
  BY DEF Geo!EmptyLayout, Layout!EmptyLayout, Geo!HeaderSize, Layout!HeaderSize, Geo!CountSize,
         Layout!CountSize, Geo!FreelistSize, Layout!FreelistSize
<1> QED BY <1>1, <1>2, SoundIsSound

(* The operations keep a layout sound: bom_index_reserve. *)
LEMMA ReserveStays ==
  ASSUME NEW s, Layout!SoundLayout(s), NEW n \in Nat
  PROVE  Layout!SoundLayout(Layout!IndexReserve(s, n))
<1>1. Geo!SoundLayout(Geo!IndexReserve(s, n))
  BY SoundIsSound, Geo!ReserveSound
<1>2. Geo!IndexReserve(s, n) = Layout!IndexReserve(s, n)
  BY DEF Geo!IndexReserve, Layout!IndexReserve, Geo!Resize, Layout!Resize, Geo!Shift, Layout!Shift,
         Geo!ReservePoint, Layout!ReservePoint, Geo!IndexPoint, Layout!IndexPoint,
         Geo!CountSize, Layout!CountSize, Geo!EntrySize, Layout!EntrySize
<1> QED BY <1>1, <1>2, SoundIsSound

(* Growth by an entry is the same in both instances. *)
LEMMA GrowIsGrow ==
  ASSUME NEW s
  PROVE  /\ Geo!GrowForAdd(s) = Layout!GrowForAdd(s)
         /\ \A n : Geo!IndexFull(s, n) <=> Layout!IndexFull(s, n)
BY DEF Geo!GrowForAdd, Layout!GrowForAdd, Geo!Resize, Layout!Resize, Geo!Shift, Layout!Shift,
       Geo!IndexFull, Layout!IndexFull, Geo!IndexPoint, Layout!IndexPoint,
       Geo!CountSize, Layout!CountSize, Geo!EntrySize, Layout!EntrySize

(* bom_index_add makes room for an entry in front of the free list. *)
LEMMA GrowStays ==
  ASSUME NEW s, Layout!SoundLayout(s)
  PROVE  /\ Layout!SoundLayout(Layout!GrowForAdd(s))
         /\ Len(Layout!GrowForAdd(s).entries) = Len(s.entries)
         /\ Layout!IndexPoint(Layout!GrowForAdd(s)) + 8 <= Layout!GrowForAdd(s).freelist_offset
<1> DEFINE g == Layout!GrowForAdd(s)
<1>1. /\ Geo!SoundLayout(g) /\ Len(g.entries) = Len(s.entries)
      /\ Geo!IndexPoint(g) + Geo!EntrySize <= g.freelist_offset
  BY SoundIsSound, Geo!GrowForAddSound, GrowIsGrow
<1> HIDE DEF g
<1>2. Geo!IndexPoint(g) = Layout!IndexPoint(g) /\ Geo!EntrySize = 8
  BY DEF Geo!IndexPoint, Layout!IndexPoint, Geo!CountSize, Layout!CountSize, Geo!EntrySize, Layout!EntrySize
<1>3. Layout!SoundLayout(g) /\ Layout!IndexPoint(g) + 8 <= g.freelist_offset
  BY <1>1, <1>2, SoundIsSound
<1> QED BY <1>1, <1>3 DEF g

(* bom_index_add keeps the layout sound. *)
LEMMA AddStays ==
  ASSUME NEW s, Layout!SoundLayout(s), NEW n \in Nat
  PROVE  Layout!SoundLayout(Layout!IndexAdd(s, n))
<1>1. Geo!SoundLayout(Geo!IndexAdd(s, n))
  BY SoundIsSound, Geo!AddSound
<1>2. Geo!IndexAdd(s, n) = Layout!IndexAdd(s, n)
  <2> DEFINE g == Layout!GrowForAdd(s)
             r == Layout!Resize(g, g.size, n)
             A(y) == [y EXCEPT !.entries = Append(y.entries, [address |-> g.size, length |-> n]),
                               !.block_count = Len(s.entries) + 1]
  <2>1. Geo!GrowForAdd(s) = g
    BY GrowIsGrow
  <2>2. Layout!IndexAdd(s, n) = A(r)
    BY DEF Layout!IndexAdd
  <2>3. Geo!IndexAdd(s, n) = A(Geo!Resize(g, g.size, n))
    BY <2>1 DEF Geo!IndexAdd
  <2> HIDE DEF g, A
  <2>4. Geo!Resize(g, g.size, n) = r
    BY DEF Geo!Resize, Layout!Resize, Geo!Shift, Layout!Shift
  <2> QED BY <2>2, <2>3, <2>4
<1> QED BY <1>1, <1>2, SoundIsSound

(* An index that is not full has room for n entries in front of the free     *)
(* list.                                                                     *)
LEMMA RoomStays ==
  ASSUME NEW s, Layout!SoundLayout(s), NEW n \in Nat, ~Layout!IndexFull(s, n)
  PROVE  Layout!IndexPoint(s) + 8 * n <= s.freelist_offset
<1>1. Geo!IndexPoint(s) + Geo!EntrySize * n <= s.freelist_offset
  BY SoundIsSound, GrowIsGrow, Geo!RoomForOne
<1>2. Geo!IndexPoint(s) = Layout!IndexPoint(s) /\ Geo!EntrySize = 8
  BY DEF Geo!IndexPoint, Layout!IndexPoint, Geo!CountSize, Layout!CountSize, Geo!EntrySize, Layout!EntrySize
<1> QED BY <1>1, <1>2

(* bom_free_indices_add keeps the layout sound, within what is careful. *)
LEMMA FreeStays ==
  ASSUME NEW s, Layout!SoundLayout(s), NEW n \in Nat, n = 1 \/ ~Layout!IndexFull(s, n)
  PROVE  Layout!SoundLayout(Layout!FreeIndicesAdd(s, n))
<1>1. Geo!SoundLayout(Geo!FreeIndicesAdd(s, n))
  BY SoundIsSound, GrowIsGrow, Geo!FreeSound
<1>2. Geo!FreeIndicesAdd(s, n) = Layout!FreeIndicesAdd(s, n)
  BY GrowIsGrow DEF Geo!FreeIndicesAdd, Layout!FreeIndicesAdd, Geo!GrowForFree, Layout!GrowForFree,
         Geo!Resize, Layout!Resize, Geo!Shift, Layout!Shift, Geo!Vacant, Layout!Vacant,
         Geo!IndexPoint, Layout!IndexPoint, Geo!CountSize, Layout!CountSize, Geo!EntrySize, Layout!EntrySize
<1> QED BY <1>1, <1>2, SoundIsSound

(* bom_index_append keeps it sound for a block that is not empty. *)
LEMMA AppendStays ==
  ASSUME NEW s, Layout!SoundLayout(s), NEW i \in 1 .. Len(s.entries), Length(s, i) > 0, NEW n \in Nat
  PROVE  Layout!SoundLayout(Layout!IndexAppend(s, i, n))
<1>1. /\ i \in DOMAIN s.entries /\ s.entries[i] \in Layout!Entries /\ s.entries[i].length > 0
      /\ s \in Layout!Layouts
  BY SoundBlocks, SoundSections, LayoutTypes DEF Length
<1>2. Geo!IsBlock(s.entries[i])
  BY <1>1 DEF Geo!IsBlock, Geo!Vacant
<1>3. Geo!SoundLayout(Geo!IndexAppend(s, i, n))
  BY <1>1, <1>2, SoundIsSound, Geo!AppendSound
<1>4. Geo!IndexAppend(s, i, n) = Layout!IndexAppend(s, i, n)
  BY DEF Geo!IndexAppend, Layout!IndexAppend, Geo!Resize, Layout!Resize, Geo!Shift, Layout!Shift,
         Geo!BlockEnd, Layout!BlockEnd
<1> QED BY <1>3, <1>4, SoundIsSound

(* bom_variable_add keeps it sound, and inserts more than the variable. *)
LEMMA VariableStays ==
  ASSUME NEW s, Layout!SoundLayout(s), NEW n \in Nat
  PROVE  /\ Layout!SoundLayout(Layout!VariableAdd(s, n))
         /\ Layout!Padded(5 + n) \in Nat /\ 5 + n <= Layout!Padded(5 + n)
<1>1. Geo!SoundLayout(Geo!VariableAdd(s, n))
  BY SoundIsSound, Geo!VariableSound
<1>2. Geo!VariableAdd(s, n) = Layout!VariableAdd(s, n)
  BY DEF Geo!VariableAdd, Layout!VariableAdd, Geo!Resize, Layout!Resize, Geo!Shift, Layout!Shift,
         Geo!Padded, Layout!Padded, Geo!VariableSize, Layout!VariableSize,
         Geo!StoredSize, Layout!StoredSize, Geo!CountSize, Layout!CountSize,
         Geo!VariableHeaderSize, Layout!VariableHeaderSize
<1>3. Geo!Padded(5 + n) \in Nat /\ 5 + n <= Geo!Padded(5 + n)
  BY Geo!PaddedFits
<1>4. Geo!Padded(5 + n) = Layout!Padded(5 + n)
  BY DEF Geo!Padded, Layout!Padded
<1> QED BY <1>1, <1>2, <1>3, <1>4, SoundIsSound

(* bom_relocate_trailer keeps it sound, and never makes the file smaller. *)
LEMMA RelocateStays ==
  ASSUME NEW s, Layout!SoundLayout(s)
  PROVE  /\ Layout!SoundLayout(Layout!RelocateTrailer(s))
         /\ s.size <= Layout!RelocateTrailer(s).size
<1>1. /\ Geo!SoundLayout(Geo!RelocateTrailer(s))
      /\ Geo!RelocateTrailer(s) # s => Geo!Relocated(s, Geo!RelocateTrailer(s))
  BY SoundIsSound, Geo!RelocateSound
<1>2. Geo!RelocateTrailer(s) = Layout!RelocateTrailer(s)
  BY DEF Geo!RelocateTrailer, Layout!RelocateTrailer, Geo!VariablesEnd, Layout!VariablesEnd,
         Geo!RoundUp, Layout!RoundUp, Geo!Alignment, Layout!Alignment,
         Geo!MovesWithData, Layout!MovesWithData, Geo!IsBlock, Layout!IsBlock, Geo!Vacant, Layout!Vacant
<1>3. Layout!SoundLayout(Layout!RelocateTrailer(s))
  BY <1>1, <1>2, SoundIsSound
<1>4. s.size <= Layout!RelocateTrailer(s).size
  <2>1. s.size \in Nat
    BY SoundSections
  <2> QED BY <1>1, <1>2, <2>1 DEF Geo!Relocated
<1> QED BY <1>3, <1>4

-----------------------------------------------------------------------------
(***************************************************************************)
(* The file.                                                               *)
(***************************************************************************)

Walks(m, s) == \E n, st : Walk(m, s, st, n)

(* The memory m is a file that is laid out as s: the inductive invariant.  *)
File(m, s) ==
  /\ Encodes(m, s) /\ Layout!SoundLayout(s) /\ s.size \in Word32
  /\ Spare(m, s) /\ Walks(m, s)

(* A record of these fields is what its fields say. *)
LEMMA EntriesAre ==
  ASSUME NEW s \in Layout!Layouts
  PROVE  /\ s.entries = [i \in 1 .. Len(s.entries) |->
                           [address |-> Address(s, i), length |-> Length(s, i)]]
<1> DEFINE E == s.entries
           f == [i \in 1 .. Len(E) |-> [address |-> Address(s, i), length |-> Length(s, i)]]
<1>1. E \in Seq(Layout!Entries) /\ DOMAIN E = 1 .. Len(E) /\ E = [i \in DOMAIN E |-> E[i]]
  BY LayoutTypes, LenProperties
<1>2. \A i \in 1 .. Len(E) : E[i] = [address |-> E[i].address, length |-> E[i].length]
  <2>1. \A e \in Layout!Entries : e = [address |-> e.address, length |-> e.length]
    BY DEF Layout!Entries
  <2>2. \A i \in 1 .. Len(E) : E[i] \in Layout!Entries
    BY <1>1, ElementOfSeq
  <2> HIDE DEF E
  <2> QED BY <2>1, <2>2
<1>3. [i \in 1 .. Len(E) |-> E[i]] = f
  <2>1. \A i \in 1 .. Len(E) : E[i] = [address |-> Address(s, i), length |-> Length(s, i)]
    BY <1>2 DEF Address, Length
  <2> QED BY <2>1, Zenon
<1> QED BY <1>1, <1>3, Zenon

(* The layout of a file can be read from its bytes, but for the free list. *)
LEMMA FileLayout ==
  ASSUME NEW m, NEW s, File(m, s)
  PROVE  LayoutOf(m, s.freelist_offset) = s
<1> DEFINE t == LayoutOf(m, s.freelist_offset)
<1>1. s \in Layout!Layouts /\ Encodes(m, s) /\ Layout!SoundLayout(s)
  BY SoundSections DEF File
<1>2. PICK n, st : Walk(m, s, st, n)
  BY DEF File, Walks
<1>3. /\ VariableCount(m) = n
      /\ VariableStart(m)[n] = s.variables_offset + 4 + s.variable_bytes
  <2>1. /\ VariablesOffset(m) = s.variables_offset /\ m \in Seq(Byte) /\ Len(m) = s.size
        /\ s.variables_offset + 4 + s.variable_bytes <= s.size
    <3>1. /\ s.variables_offset \in Nat /\ s.variable_bytes \in Nat /\ s.trailer_len \in Nat
          /\ s.variables_offset + s.trailer_len <= s.size /\ 4 + s.variable_bytes <= s.trailer_len
          /\ s.size \in Nat
      BY <1>1, SoundSections
    <3>2. s.variables_offset + 4 + s.variable_bytes <= s.size
      BY <3>1
    <3> QED BY <1>1, <3>2 DEF Encodes
  <2>2. /\ VariableCount(m) = n
        /\ \A i \in 0 .. n : VariableStart(m)[i] = s.variables_offset + 4 + st[i]
    BY <1>1, <1>2, <2>1, WalkStarts
  <2>0. n \in Nat
    BY <1>2 DEF Walk
  <2>3. n \in 0 .. n /\ st[n] = s.variable_bytes
    BY <1>2, <2>0 DEF Walk
  <2> QED BY <2>2, <2>3
<1>4. [i \in 1 .. Count(m) |-> [address |-> EntryAddress(m, i - 1),
                                length  |-> EntryLength(m, i - 1)]] = s.entries
  <2>1. Count(m) = Len(s.entries)
    BY <1>1 DEF Encodes
  <2>2. \A i \in 1 .. Len(s.entries) :
          EntryAddress(m, i - 1) = Address(s, i) /\ EntryLength(m, i - 1) = Length(s, i)
    BY <1>1 DEF Encodes
  <2>3. [i \in 1 .. Count(m) |-> [address |-> EntryAddress(m, i - 1),
                                  length  |-> EntryLength(m, i - 1)]]
          = [i \in 1 .. Len(s.entries) |-> [address |-> Address(s, i), length |-> Length(s, i)]]
    BY <2>1, <2>2, Zenon
  <2> QED BY <1>1, <2>3, EntriesAre, Zenon
<1>5. VariableStart(m)[n] - s.variables_offset - 4 = s.variable_bytes
  <2>1. s.variables_offset \in Nat /\ s.variable_bytes \in Nat
    BY <1>1, LayoutTypes
  <2> QED BY <1>3, <2>1
<1>6. t = [size             |-> s.size,
           index_offset     |-> s.index_offset,
           index_length     |-> s.index_length,
           variables_offset |-> s.variables_offset,
           trailer_len      |-> s.trailer_len,
           variable_bytes   |-> s.variable_bytes,
           freelist_offset  |-> s.freelist_offset,
           entries          |-> s.entries,
           block_count      |-> s.block_count]
  <2>1. /\ Len(m) = s.size /\ IndexOffset(m) = s.index_offset /\ IndexLength(m) = s.index_length
        /\ VariablesOffset(m) = s.variables_offset /\ TrailerLength(m) = s.trailer_len
        /\ Get(m, BlockCountAt) = s.block_count
    BY <1>1 DEF Encodes
  <2>2. VariableStart(m)[VariableCount(m)] - VariablesOffset(m) - Layout!CountSize = s.variable_bytes
    BY <1>3, <1>5, <2>1 DEF Layout!CountSize
  <2> QED BY <1>4, <2>1, <2>2, Zenon DEF LayoutOf
<1>7. s = [size             |-> s.size,
           index_offset     |-> s.index_offset,
           index_length     |-> s.index_length,
           variables_offset |-> s.variables_offset,
           trailer_len      |-> s.trailer_len,
           variable_bytes   |-> s.variable_bytes,
           freelist_offset  |-> s.freelist_offset,
           entries          |-> s.entries,
           block_count      |-> s.block_count]
  BY <1>1 DEF Layout!Layouts
<1> QED BY <1>6, <1>7, Zenon

(* What WellFormed says of such a file. *)
WellFormedAt(m, fl) ==
  /\ m \in Seq(0..255) /\ Loads(m)
  /\ \A i \in 0 .. Count(m) - 1 : EntryAddress(m, i) + EntryLength(m, i) <= Len(m)
  /\ fl + Layout!FreelistSize <= Len(m)
  /\ \A a \in EntryAt(m, Count(m)) .. fl + Layout!FreelistSize - 1 : m[a + 1] = 0

(* All the bytes of a sequence are the sequence. *)
LEMMA AllBytes ==
  ASSUME NEW q \in Seq(Byte)
  PROVE  Bytes(q, 0, Len(q)) = q
<1>1. Len(q) \in Nat /\ 0 \in Nat /\ Same(q, 0, q, 0, Len(q)) /\ 0 + Len(q) <= Len(q)
  BY LenProperties DEF Same
<1>2. /\ Bytes(q, 0, Len(q)) \in Seq(Byte) /\ Len(Bytes(q, 0, Len(q))) = Len(q)
      /\ \A k \in 1 .. Len(q) : Bytes(q, 0, Len(q))[k] = q[0 + k]
  BY <1>1, SameBytes
<1>3. \A k \in 1 .. Len(q) : 0 + k = k
  BY <1>1
<1>4. \A k \in 1 .. Len(q) : Bytes(q, 0, Len(q))[k] = q[k]
  BY <1>2, <1>3
<1> QED BY <1>2, <1>4, SeqEqual, Zenon

(* A file is well formed: bom_alloc_load takes it, and its blocks lie in it. *)
LEMMA FileWellFormed ==
  ASSUME NEW m, NEW s, File(m, s)
  PROVE  WellFormedAt(m, s.freelist_offset)
<1> DEFINE z == s.size  o == s.index_offset  il == s.index_length  v == s.variables_offset
           tl == s.trailer_len  vb == s.variable_bytes  fl == s.freelist_offset
           p == Layout!IndexPoint(s)
<1>1. s \in Layout!Layouts /\ Encodes(m, s) /\ Layout!SoundLayout(s)
  BY SoundSections DEF File
<1>2. Numbers(z, o, il, v, tl, vb, fl, p)
  BY <1>1, SoundNumbers
<1>3. /\ m \in Seq(Byte) /\ Len(m) = z /\ IndexOffset(m) = o /\ IndexLength(m) = il
      /\ VariablesOffset(m) = v /\ Get(m, VersionAt) = 1 /\ Same(m, 0, Magic, 0, 8)
      /\ Count(m) = Len(s.entries)
  BY <1>1 DEF Encodes
<1>4. PICK n, st : Walk(m, s, st, n)
  BY DEF File, Walks
<1>5. VariableCount(m) = n
  BY <1>3, <1>4 DEF VariableCount, Walk
<1>6. 5 * n <= vb
  <2>0. n \in Nat
    BY <1>4 DEF Walk
  <2>1. n = 0 \/ n \in 1 .. n
    BY <2>0
  <2>2. n \in 1 .. n => 5 * n <= st[n] /\ st[n] = vb
    BY <1>4 DEF Walk
  <2>3. vb \in Nat
    BY <1>2 DEF Numbers
  <2> QED BY <2>0, <2>1, <2>2, <2>3
<1>7. Bytes(m, 0, 8) = Magic
  <2>1. Magic \in Seq(Byte) /\ Len(Magic) = 8
    BY DEF Magic, Byte
  <2>2. z \in Nat /\ 36 <= z
    BY <1>2 DEF Numbers
  <2>3. 0 + 8 <= Len(m) /\ 0 \in Nat /\ 8 \in Nat
    BY <1>3, <2>2
  <2>4. Bytes(m, 0, 8) = Bytes(Magic, 0, 8)
    <3>1. 0 + 8 <= Len(Magic)
      BY <2>1
    <3> HIDE DEF z
    <3> QED BY <1>3, <2>1, <2>3, <3>1, SameBytes, Zenon
  <2>5. Bytes(Magic, 0, 8) = Magic
    <3> HIDE DEF Magic
    <3> QED BY <2>1, AllBytes
  <2> QED BY <2>4, <2>5
<1>8. Loads(m)
  <2> HIDE DEF z, o, il, v, tl, vb, fl, p
  <2>0. n \in Nat
    BY <1>4 DEF Walk
  <2>1. /\ z >= 32 /\ o + 4 <= z /\ o + il <= z /\ v + 4 <= z /\ v + 4 + n * 5 <= z
    BY <1>2, <1>6, <2>0 DEF Numbers
  <2> QED BY <1>3, <1>5, <1>7, <2>1 DEF Loads, Layout!HeaderSize, Layout!CountSize,
             Layout!VariableHeaderSize
<1>9. \A i \in 0 .. Count(m) - 1 : EntryAddress(m, i) + EntryLength(m, i) <= Len(m)
  <2> SUFFICES ASSUME NEW i \in 0 .. Count(m) - 1
               PROVE  EntryAddress(m, i) + EntryLength(m, i) <= Len(m)
    OBVIOUS
  <2>1. i + 1 \in 1 .. Len(s.entries) /\ (i + 1) - 1 = i
    BY <1>1, <1>3, LayoutTypes
  <2>2. EntryAddress(m, i) = Address(s, i + 1) /\ EntryLength(m, i) = Length(s, i + 1)
    BY <1>1, <2>1 DEF Encodes
  <2>3. Address(s, i + 1) + Length(s, i + 1) <= s.size
    BY <1>1, <2>1, SoundBlocks
  <2> QED BY <1>3, <2>2, <2>3
<1>10. fl + Layout!FreelistSize <= Len(m)
  <2> HIDE DEF z, o, il, v, tl, vb, fl, p
  <2> QED BY <1>2, <1>3 DEF Numbers, Layout!FreelistSize
<1>11. \A a \in EntryAt(m, Count(m)) .. fl + Layout!FreelistSize - 1 : m[a + 1] = 0
  <2>1. EntryAt(m, Count(m)) = p /\ Layout!FreelistSize = 20
    BY <1>1, <1>3, EntrySlots DEF Layout!FreelistSize
  <2>2. Zero(m, p, fl + 20 - p)
    BY DEF File, Spare
  <2> HIDE DEF z, o, il, v, tl, vb, fl, p
  <2>3. ASSUME NEW a \in p .. fl + 20 - 1 PROVE m[a + 1] = 0
    <3>1. p \in Nat /\ fl \in Nat
      BY <1>2 DEF Numbers
    <3>2. a - p \in 0 .. (fl + 20 - p) - 1 /\ p + (a - p) + 1 = a + 1
      BY <3>1
    <3> QED BY <2>2, <3>2 DEF Zero
  <2> QED BY <2>1, <2>3
<1> QED BY <1>3, <1>8, <1>9, <1>10, <1>11 DEF WellFormedAt, Byte

-----------------------------------------------------------------------------

-----------------------------------------------------------------------------
(***************************************************************************)
(* bom_alloc_empty.                                                        *)
(***************************************************************************)

(* A concatenation has both parts, each in its place. *)
LEMMA Joined ==
  ASSUME NEW w \in Seq(Byte), NEW b \in Seq(Byte)
  PROVE  /\ w \o b \in Seq(Byte) /\ Len(w \o b) = Len(w) + Len(b)
         /\ \A c \in Nat, n \in Nat : c + n <= Len(w) => Same(w \o b, c, w, c, n)
         /\ Same(w \o b, Len(w), b, 0, Len(b))
<1> DEFINE x == w \o b  l == Len(w)  k == Len(b)
<1>1. /\ x \in Seq(Byte) /\ Len(x) = l + k /\ l \in Nat /\ k \in Nat
      /\ \A i \in 1 .. l + k : x[i] = IF i <= l THEN w[i] ELSE b[i - l]
  BY ConcatProperties, LenProperties
<1> HIDE DEF x, l, k
<1>2. ASSUME NEW c \in Nat, NEW n \in Nat, c + n <= l PROVE Same(x, c, w, c, n)
  <2> SUFFICES ASSUME NEW i \in 0 .. n - 1 PROVE x[c + i + 1] = w[c + i + 1]
    BY DEF Same
  <2>1. c + i + 1 \in 1 .. l + k /\ c + i + 1 <= l
    BY <1>1, <1>2
  <2> QED BY <1>1, <2>1
<1>3. Same(x, l, b, 0, k)
  <2> SUFFICES ASSUME NEW i \in 0 .. k - 1 PROVE x[l + i + 1] = b[0 + i + 1]
    BY DEF Same
  <2>1. l + i + 1 \in 1 .. l + k /\ ~(l + i + 1 <= l) /\ l + i + 1 - l = 0 + i + 1
    BY <1>1
  <2> QED BY <1>1, <2>1
<1> QED BY <1>1, <1>2, <1>3 DEF x, l, k

(* w is how x begins. *)
Begins(x, w) ==
  /\ x \in Seq(Byte) /\ w \in Seq(Byte) /\ Len(w) \in Nat /\ Len(x) \in Nat
  /\ Len(w) <= Len(x) /\ Same(x, 0, w, 0, Len(w))

(* A beginning of a beginning is one. *)
LEMMA BeginsTwice ==
  ASSUME NEW w, NEW x, NEW y, Begins(x, w), Begins(y, x)
  PROVE  Begins(y, w)
<1>1. Same(y, 0, x, 0, Len(w)) /\ Len(w) <= Len(y)
  BY DEF Begins, Same
<1> QED BY <1>1, SameTwice DEF Begins

(* A run of the beginning is the same in the whole. *)
LEMMA BeginsRun ==
  ASSUME NEW x, NEW w, Begins(x, w), NEW a \in Nat, NEW n \in Nat, a + n <= Len(w)
  PROVE  Same(x, a, w, a, n)
<1> SUFFICES ASSUME NEW k \in 0 .. n - 1 PROVE x[a + k + 1] = w[a + k + 1]
  BY DEF Same
<1>1. a + k \in 0 .. Len(w) - 1 /\ 0 + (a + k) + 1 = a + k + 1
  BY DEF Begins
<1> QED BY <1>1 DEF Begins, Same

(* So is a field. *)
LEMMA BeginsGet ==
  ASSUME NEW x, NEW w, Begins(x, w), NEW a \in Nat, a + 4 <= Len(w)
  PROVE  Get(x, a) = Get(w, a)
<1>1. 4 \in Nat
  OBVIOUS
<1>2. Same(x, a, w, a, 4)
  BY <1>1, BeginsRun
<1> QED BY <1>2, GetCarried

(* A concatenation begins with its first part and ends with the second. *)
LEMMA JoinedBegins ==
  ASSUME NEW w \in Seq(Byte), NEW b \in Seq(Byte)
  PROVE  Begins(w \o b, w) /\ Len(w \o b) = Len(w) + Len(b) /\ Same(w \o b, Len(w), b, 0, Len(b))
<1>1. Len(w) \in Nat /\ Len(b) \in Nat /\ 0 \in Nat /\ 0 + Len(w) <= Len(w)
  BY LenProperties
<1>2. /\ w \o b \in Seq(Byte) /\ Len(w \o b) = Len(w) + Len(b)
      /\ Same(w \o b, Len(w), b, 0, Len(b))
  BY Joined
<1>3. Same(w \o b, 0, w, 0, Len(w))
  BY <1>1, Joined, Zenon
<1>4. Len(w) + Len(b) \in Nat /\ Len(w) <= Len(w) + Len(b)
  BY <1>1
<1> QED BY <1>1, <1>2, <1>3, <1>4, Zenon DEF Begins

(* A number that is appended is loaded from where it was appended. *)
LEMMA JoinedWord ==
  ASSUME NEW w \in Seq(Byte), NEW v \in Word32
  PROVE  /\ Begins(w \o Word(v), w) /\ w \o Word(v) \in Seq(Byte)
         /\ Len(w \o Word(v)) = Len(w) + 4 /\ Get(w \o Word(v), Len(w)) = v
<1> DEFINE b == Word(v)  x == w \o b  l == Len(w)
<1>1. b \in Seq(Byte) /\ Len(b) = 4 /\ Get(b, 0) = v /\ l \in Int /\ 0 \in Int
  BY WordIsBytes, LenProperties
<1> HIDE DEF b
<1>2. Begins(x, w) /\ x \in Seq(Byte) /\ Len(x) = l + 4 /\ Same(x, l, b, 0, 4)
  BY <1>1, JoinedBegins DEF Begins
<1> HIDE DEF x, l
<1>3. Get(x, l) = Get(b, 0)
  BY <1>1, <1>2, SameGet
<1> QED BY <1>1, <1>2, <1>3, Zenon DEF b, x, l

(* The numbers that bom_alloc_empty stores have 32 bits. *)
LEMMA SmallWords ==
  /\ 0 \in Word32 /\ 1 \in Word32 /\ 4 \in Word32 /\ 24 \in Word32
  /\ 32 \in Word32 /\ 56 \in Word32
BY DEF Word32

(* What bom_alloc_empty has written, field by field. *)
LEMMA EmptyBytes ==
  /\ AllocEmpty \in Seq(Byte) /\ Len(AllocEmpty) = 60
  /\ Same(AllocEmpty, 0, Magic, 0, 8)
  /\ Get(AllocEmpty, 8) = 1 /\ Get(AllocEmpty, 12) = 0 /\ Get(AllocEmpty, 16) = 32
  /\ Get(AllocEmpty, 20) = 24 /\ Get(AllocEmpty, 24) = 56 /\ Get(AllocEmpty, 28) = 4
  /\ Get(AllocEmpty, 32) = 0 /\ Zero(AllocEmpty, 36, 20) /\ Get(AllocEmpty, 56) = 0
<1> DEFINE w0 == Magic
           w1 == w0 \o Word(1)
           w2 == w1 \o Word(0)
           w3 == w2 \o Word(32)
           w4 == w3 \o Word(24)
           w5 == w4 \o Word(56)
           w6 == w5 \o Word(4)
           w7 == w6 \o Word(0)
           w8 == w7 \o Word(0)
           w9 == w8 \o Zeros(16)
           w == w9 \o Word(0)
<1>a. AllocEmpty = w
  BY DEF AllocEmpty
<1>0. w0 \in Seq(Byte) /\ Len(w0) = 8
  BY DEF Magic, Byte
<1> HIDE DEF w0
<1>1. Begins(w1, w0) /\ w1 \in Seq(Byte) /\ Len(w1) = 12 /\ Get(w1, 8) = 1
  <2>1. /\ Begins(w1, w0) /\ w1 \in Seq(Byte)
        /\ Len(w1) = Len(w0) + 4 /\ Get(w1, Len(w0)) = 1
    BY <1>0, SmallWords, JoinedWord, Zenon
  <2> QED BY <1>0, <2>1
<1> HIDE DEF w1
<1>2. Begins(w2, w1) /\ w2 \in Seq(Byte) /\ Len(w2) = 16 /\ Get(w2, 12) = 0
  <2>1. /\ Begins(w2, w1) /\ w2 \in Seq(Byte)
        /\ Len(w2) = Len(w1) + 4 /\ Get(w2, Len(w1)) = 0
    BY <1>1, SmallWords, JoinedWord, Zenon
  <2> QED BY <1>1, <2>1
<1> HIDE DEF w2
<1>3. Begins(w3, w2) /\ w3 \in Seq(Byte) /\ Len(w3) = 20 /\ Get(w3, 16) = 32
  <2>1. /\ Begins(w3, w2) /\ w3 \in Seq(Byte)
        /\ Len(w3) = Len(w2) + 4 /\ Get(w3, Len(w2)) = 32
    BY <1>2, SmallWords, JoinedWord, Zenon
  <2> QED BY <1>2, <2>1
<1> HIDE DEF w3
<1>4. Begins(w4, w3) /\ w4 \in Seq(Byte) /\ Len(w4) = 24 /\ Get(w4, 20) = 24
  <2>1. /\ Begins(w4, w3) /\ w4 \in Seq(Byte)
        /\ Len(w4) = Len(w3) + 4 /\ Get(w4, Len(w3)) = 24
    BY <1>3, SmallWords, JoinedWord, Zenon
  <2> QED BY <1>3, <2>1
<1> HIDE DEF w4
<1>5. Begins(w5, w4) /\ w5 \in Seq(Byte) /\ Len(w5) = 28 /\ Get(w5, 24) = 56
  <2>1. /\ Begins(w5, w4) /\ w5 \in Seq(Byte)
        /\ Len(w5) = Len(w4) + 4 /\ Get(w5, Len(w4)) = 56
    BY <1>4, SmallWords, JoinedWord, Zenon
  <2> QED BY <1>4, <2>1
<1> HIDE DEF w5
<1>6. Begins(w6, w5) /\ w6 \in Seq(Byte) /\ Len(w6) = 32 /\ Get(w6, 28) = 4
  <2>1. /\ Begins(w6, w5) /\ w6 \in Seq(Byte)
        /\ Len(w6) = Len(w5) + 4 /\ Get(w6, Len(w5)) = 4
    BY <1>5, SmallWords, JoinedWord, Zenon
  <2> QED BY <1>5, <2>1
<1> HIDE DEF w6
<1>7. Begins(w7, w6) /\ w7 \in Seq(Byte) /\ Len(w7) = 36 /\ Get(w7, 32) = 0
  <2>1. /\ Begins(w7, w6) /\ w7 \in Seq(Byte)
        /\ Len(w7) = Len(w6) + 4 /\ Get(w7, Len(w6)) = 0
    BY <1>6, SmallWords, JoinedWord, Zenon
  <2> QED BY <1>6, <2>1
<1> HIDE DEF w7
<1>8. Begins(w8, w7) /\ w8 \in Seq(Byte) /\ Len(w8) = 40 /\ Get(w8, 36) = 0
  <2>1. /\ Begins(w8, w7) /\ w8 \in Seq(Byte)
        /\ Len(w8) = Len(w7) + 4 /\ Get(w8, Len(w7)) = 0
    BY <1>7, SmallWords, JoinedWord, Zenon
  <2> QED BY <1>7, <2>1
<1> HIDE DEF w8
<1>9. Begins(w9, w8) /\ w9 \in Seq(Byte) /\ Len(w9) = 56 /\ Same(w9, 40, Zeros(16), 0, 16)
  <2>1. Zeros(16) \in Seq(Byte) /\ Len(Zeros(16)) = 16
    BY ZerosAre
  <2>2. /\ Begins(w9, w8) /\ Len(w9) = Len(w8) + Len(Zeros(16))
        /\ Same(w9, Len(w8), Zeros(16), 0, Len(Zeros(16)))
    BY <1>8, <2>1, JoinedBegins, Zenon
  <2> HIDE DEF w9
  <2>3. w9 \in Seq(Byte)
    BY <2>2 DEF Begins
  <2>4. Len(w9) = 56 /\ Len(w8) = 40 /\ Len(Zeros(16)) = 16
    <3> DEFINE z == Zeros(16)
    <3>1. Len(z) = 16 /\ Len(w9) = Len(w8) + Len(z)
      BY <2>1, <2>2
    <3> HIDE DEF z
    <3>2. Len(w9) = 56 /\ Len(w8) = 40 /\ Len(z) = 16
      BY <1>8, <3>1
    <3> QED BY <3>2 DEF z
  <2>5. Same(w9, 40, Zeros(16), 0, 16)
    <3> DEFINE a == Len(w8)  b == Len(Zeros(16))
    <3>1. Same(w9, a, Zeros(16), 0, b) /\ a = 40 /\ b = 16
      BY <2>2, <2>4
    <3> HIDE DEF a, b
    <3> QED BY <3>1, Zenon
  <2> QED BY <2>2, <2>3, <2>4, <2>5, Zenon
<1> HIDE DEF w9
<1>10. Begins(w, w9) /\ w \in Seq(Byte) /\ Len(w) = 60 /\ Get(w, 56) = 0
  <2>1. /\ Begins(w, w9) /\ w \in Seq(Byte)
        /\ Len(w) = Len(w9) + 4 /\ Get(w, Len(w9)) = 0
    BY <1>9, SmallWords, JoinedWord, Zenon
  <2> QED BY <1>9, <2>1
<1> HIDE DEF w
<1>11. Begins(w, w8)
  BY <1>9, <1>10, BeginsTwice
<1>12. Begins(w, w7)
  BY <1>8, <1>11, BeginsTwice
<1>13. Begins(w, w6)
  BY <1>7, <1>12, BeginsTwice
<1>14. Begins(w, w5)
  BY <1>6, <1>13, BeginsTwice
<1>15. Begins(w, w4)
  BY <1>5, <1>14, BeginsTwice
<1>16. Begins(w, w3)
  BY <1>4, <1>15, BeginsTwice
<1>17. Begins(w, w2)
  BY <1>3, <1>16, BeginsTwice
<1>18. Begins(w, w1)
  BY <1>2, <1>17, BeginsTwice
<1>19. Begins(w, w0)
  BY <1>1, <1>18, BeginsTwice
<1>20. /\ Get(w, 8) = 1 /\ Get(w, 12) = 0 /\ Get(w, 16) = 32 /\ Get(w, 20) = 24
       /\ Get(w, 24) = 56 /\ Get(w, 28) = 4 /\ Get(w, 32) = 0
  <2>1. Get(w, 8) = 1
    <3>1. 8 \in Nat /\ 8 + 4 <= Len(w1)
      BY <1>1
    <3> QED BY <1>1, <1>18, <3>1, BeginsGet, Zenon
  <2>2. Get(w, 12) = 0
    <3>1. 12 \in Nat /\ 12 + 4 <= Len(w2)
      BY <1>2
    <3> QED BY <1>2, <1>17, <3>1, BeginsGet, Zenon
  <2>3. Get(w, 16) = 32
    <3>1. 16 \in Nat /\ 16 + 4 <= Len(w3)
      BY <1>3
    <3> QED BY <1>3, <1>16, <3>1, BeginsGet, Zenon
  <2>4. Get(w, 20) = 24
    <3>1. 20 \in Nat /\ 20 + 4 <= Len(w4)
      BY <1>4
    <3> QED BY <1>4, <1>15, <3>1, BeginsGet, Zenon
  <2>5. Get(w, 24) = 56
    <3>1. 24 \in Nat /\ 24 + 4 <= Len(w5)
      BY <1>5
    <3> QED BY <1>5, <1>14, <3>1, BeginsGet, Zenon
  <2>6. Get(w, 28) = 4
    <3>1. 28 \in Nat /\ 28 + 4 <= Len(w6)
      BY <1>6
    <3> QED BY <1>6, <1>13, <3>1, BeginsGet, Zenon
  <2>7. Get(w, 32) = 0
    <3>1. 32 \in Nat /\ 32 + 4 <= Len(w7)
      BY <1>7
    <3> QED BY <1>7, <1>12, <3>1, BeginsGet, Zenon
  <2> QED BY <2>1, <2>2, <2>3, <2>4, <2>5, <2>6, <2>7
<1>21. Same(w, 0, Magic, 0, 8)
  BY <1>0, <1>19 DEF Begins, w0
<1>22. Zero(w, 36, 20)
  <2>1. w8 = w7 \o << 0, 0, 0, 0 >> /\ Same(w8, 36, << 0, 0, 0, 0 >>, 0, 4)
    <3>1. Word(0) = << 0, 0, 0, 0 >>
      BY DEF Word
    <3>2. << 0, 0, 0, 0 >> \in Seq(Byte) /\ Len(<< 0, 0, 0, 0 >>) = 4
      BY DEF Byte
    <3> QED BY <1>7, <3>1, <3>2, JoinedBegins DEF w8
  <2>2. Zero(<< 0, 0, 0, 0 >>, 0, 4) /\ Zero(Zeros(16), 0, 16)
    <3>1. 16 \in Nat
      OBVIOUS
    <3>2. Zero(Zeros(16), 0, 16)
      BY <3>1, ZerosAre, Zenon
    <3>3. Zero(<< 0, 0, 0, 0 >>, 0, 4)
      BY DEF Zero
    <3> QED BY <3>2, <3>3
  <2>3. Zero(w8, 36, 4) /\ Zero(w9, 40, 16)
    BY <1>9, <2>1, <2>2, ZeroSame
  <2>4. 36 \in Nat /\ 40 \in Nat /\ 4 \in Nat /\ 16 \in Nat /\ 36 + 4 = 40 /\ 4 + 16 = 20
        /\ 36 + 4 <= Len(w8) /\ 40 + 16 <= Len(w9)
    BY <1>8, <1>9
  <2>5. Same(w, 36, w8, 36, 4) /\ Same(w, 40, w9, 40, 16)
    BY <1>10, <1>11, <2>4, BeginsRun
  <2>6. Zero(w, 36, 4) /\ Zero(w, 36 + 4, 16)
    BY <2>3, <2>4, <2>5, ZeroSame
  <2> QED BY <2>4, <2>6, ZeroJoin
<1> QED BY <1>a, <1>10, <1>20, <1>21, <1>22

(* The memory of bom_alloc_empty is a file, laid out as EmptyLayout. *)
LEMMA EmptyFile == File(AllocEmpty, Layout!EmptyLayout)
<1> DEFINE m == AllocEmpty
           s == Layout!EmptyLayout
<1>1. /\ s.size = 60 /\ s.index_offset = 32 /\ s.index_length = 24 /\ s.variables_offset = 56
      /\ s.trailer_len = 4 /\ s.variable_bytes = 0 /\ s.freelist_offset = 36
      /\ s.entries = << >> /\ s.block_count = 0
  BY DEF Layout!EmptyLayout, Layout!HeaderSize, Layout!CountSize, Layout!FreelistSize
<1>2. Layout!SoundLayout(s) /\ s \in Layout!Layouts
  BY EmptyStays, SoundSections
<1> HIDE DEF m, s
<1>3. Len(s.entries) = 0 /\ Layout!IndexPoint(s) = 36
  BY <1>1 DEF Layout!IndexPoint, Layout!CountSize, Layout!EntrySize
<1>4. Encodes(m, s)
  <2>1. \A i \in 1 .. Len(s.entries) : /\ Get(m, Slot(s, i)) = Address(s, i)
                                       /\ Get(m, Slot(s, i) + 4) = Length(s, i)
    BY <1>3
  <2>2. /\ m \in Seq(Byte) /\ Len(m) = s.size
        /\ Same(m, 0, Magic, 0, 8) /\ Get(m, 8) = 1 /\ Get(m, 12) = s.block_count
        /\ Get(m, 16) = s.index_offset /\ Get(m, 20) = s.index_length
        /\ Get(m, 24) = s.variables_offset /\ Get(m, 28) = s.trailer_len
        /\ Get(m, s.index_offset) = Len(s.entries)
    BY <1>1, <1>3, EmptyBytes, Zenon DEF m
  <2>3. 32 <= s.index_offset /\ Layout!IndexPoint(s) <= s.size
    BY <1>1, <1>3
  <2> QED BY <1>2, <2>1, <2>2, <2>3, EncodesByWords, Zenon
<1>5. Spare(m, s)
  BY <1>1, <1>3, EmptyBytes DEF Spare, m
<1>6. Walk(m, s, [i \in 0 .. 0 |-> 0], 0)
  <2>1. Get(m, 56) = 0
    BY EmptyBytes DEF m
  <2> QED BY <1>1, <2>1 DEF Walk
<1>7. s.size \in Word32
  BY <1>1 DEF Word32
<1> QED BY <1>2, <1>4, <1>5, <1>6, <1>7 DEF File, Walks, m, s

(* A number that is not larger than one of 32 bits has 32 bits. *)
LEMMA WordLess ==
  ASSUME NEW z \in Word32, NEW a \in Nat, a <= z
  PROVE  a \in Word32
<1> DEFINE big == 4294967296
<1>1. Word32 = {v \in Nat : v < big} /\ big \in Nat
  BY SMT DEF Word32
<1> HIDE DEF big
<1> QED BY <1>1

(* So has the size of a file in bounds. *)
LEMMA FitsWord ==
  ASSUME NEW t, t.size \in Nat, Fits(t)
  PROVE  t.size \in Word32
BY MaxSizeIsWord, WordLess DEF Fits

(* No number of a sound layout is larger than the file. *)
LEMMA SoundWords ==
  ASSUME NEW t, Layout!SoundLayout(t), t.size \in Word32
  PROVE  /\ t.index_offset \in Word32 /\ t.index_length \in Word32 /\ t.variables_offset \in Word32
         /\ t.trailer_len \in Word32 /\ Len(t.entries) \in Word32
         /\ \A i \in 1 .. Len(t.entries) : Address(t, i) \in Word32 /\ Length(t, i) \in Word32
<1> DEFINE z == t.size  o == t.index_offset  il == t.index_length  v == t.variables_offset
           tl == t.trailer_len  vb == t.variable_bytes  fl == t.freelist_offset
           p == Layout!IndexPoint(t)  N == Len(t.entries)
<1>1. Numbers(z, o, il, v, tl, vb, fl, p) /\ N \in Nat /\ p = o + 4 + 8 * N
  BY SoundNumbers, SoundSections, PointIs
<1>0. z \in Word32
  OBVIOUS
<1>2. ASSUME NEW i \in 1 .. N PROVE Address(t, i) \in Word32 /\ Length(t, i) \in Word32
  <2> DEFINE a == Address(t, i)  n == Length(t, i)
  <2>1. Placed(z, o, il, v, tl, a, n) /\ z \in Nat
    BY <1>1, SoundPlaces DEF Numbers
  <2> HIDE DEF a, n, z
  <2>2. a \in Nat /\ n \in Nat /\ a <= z /\ n <= z
    BY <2>1 DEF Placed
  <2>3. a \in Word32 /\ n \in Word32
    BY <1>0, <2>2, WordLess
  <2> QED BY <2>3 DEF a, n
<1> HIDE DEF z, o, il, v, tl, vb, fl, p, N
<1>3. /\ o \in Nat /\ o <= z /\ il \in Nat /\ il <= z /\ v \in Nat /\ v <= z
      /\ tl \in Nat /\ tl <= z /\ N \in Nat /\ N <= z
  BY <1>1 DEF Numbers
<1>4. o \in Word32 /\ il \in Word32 /\ v \in Word32 /\ tl \in Word32 /\ N \in Word32
  BY <1>0, <1>3, WordLess
<1> QED BY <1>2, <1>4 DEF o, il, v, tl, N

-----------------------------------------------------------------------------
(* With the count of the variables. *)
Carried(x, t, m, s) ==
  Kept(x, t, m, s) /\ Same(x, t.variables_offset, m, s.variables_offset, 4)

(* Fields that are not offsets may differ here, too. *)
LEMMA CarriedThere ==
  ASSUME NEW m, NEW s \in Layout!Layouts, NEW x, NEW t \in Layout!Layouts, NEW u \in Layout!Layouts,
         Carried(x, t, m, s), SamePlaces(u, t)
  PROVE  Carried(x, u, m, s)
<1>1. Kept(x, u, m, s)
  BY KeptThere DEF Carried
<1>2. u.variables_offset = t.variables_offset
  BY DEF SamePlaces
<1> QED BY <1>1, <1>2 DEF Carried

(* A store in the header or in the index. *)
InIndex(u, a, n) ==
  \/ a + n <= 32
  \/ u.index_offset <= a /\ a + n <= u.index_offset + u.index_length

(* A store in the header or in the index carries blocks and variables. *)
LEMMA CarriedIndex ==
  ASSUME NEW m, NEW s \in Layout!Layouts, NEW x, NEW u, Layout!SoundLayout(u), Carried(x, u, m, s),
         Len(x) = u.size, NEW y, NEW a \in Nat, NEW n \in Nat, OnlyAt(y, x, a, n),
         InIndex(u, a, n)
  PROVE  Carried(y, u, m, s) /\ Len(y) = u.size
<1> DEFINE z == u.size  o == u.index_offset  il == u.index_length  v == u.variables_offset
           tl == u.trailer_len  vb == u.variable_bytes  fl == u.freelist_offset
           p == Layout!IndexPoint(u)
<1>1. Numbers(z, o, il, v, tl, vb, fl, p)
  BY SoundNumbers
<1>2. a + n <= 32 \/ (o <= a /\ a + n <= o + il)
  BY DEF InIndex
<1>3. Kept(y, u, m, s)
  BY KeptSections DEF InSections, InIndex, Carried
<1>4. Same(y, v, m, s.variables_offset, 4)
  <2>1. v \in Nat /\ 4 \in Nat /\ v + 4 <= z /\ Beside(v, 4, a, n)
    <3> HIDE DEF z, o, il, v, tl, vb, fl, p
    <3> QED BY <1>1, <1>2 DEF Numbers, Beside
  <2>2. Same(y, v, x, v, 4)
    BY <2>1 DEF OnlyAt
  <2>3. Same(x, v, m, s.variables_offset, 4)
    BY DEF Carried
  <2> QED BY <2>2, <2>3, SameTwice
<1>5. Len(y) = u.size
  BY DEF OnlyAt
<1> QED BY <1>3, <1>4, <1>5 DEF Carried

(* Variables that are carried are walked over as before. *)
LEMMA CarriedWalks ==
  ASSUME NEW m, NEW s \in Layout!Layouts, NEW x, NEW t \in Layout!Layouts, Carried(x, t, m, s),
         t.variable_bytes = s.variable_bytes, Walks(m, s)
  PROVE  Walks(x, t)
<1>1. PICK n, st : Walk(m, s, st, n)
  BY DEF Walks
<1>2. Walk(x, t, st, n)
  BY <1>1, WalkKept DEF Carried
<1> QED BY <1>2 DEF Walks

(* What is carried twice is carried. *)
LEMMA CarriedTwice ==
  ASSUME NEW m, NEW s \in Layout!Layouts, NEW x, NEW t \in Layout!Layouts,
         NEW y, NEW u \in Layout!Layouts, Carried(x, t, m, s), Carried(y, u, x, t)
  PROVE  Carried(y, u, m, s)
<1>1. Kept(y, u, m, s)
  BY KeptTwice DEF Carried
<1>2. Same(y, u.variables_offset, m, s.variables_offset, 4)
  BY SameTwice DEF Carried
<1> QED BY <1>1, <1>2 DEF Carried

(* An insertion carries all of it, and what is clear at the end of the     *)
(* index section.                                                          *)
LEMMA ResizedCarried ==
  ASSUME NEW m, NEW s, Encodes(m, s), Layout!SoundLayout(s),
         NEW p, Whole(s, p), NEW d \in Nat, s.size + d \in Word32, NEW junk \in Byte,
         NEW c \in Nat, Layout!IndexPoint(s) <= c, c <= s.freelist_offset + 20,
         Zero(m, c, s.freelist_offset + 20 - c), p <= c \/ s.freelist_offset + 20 <= p
  PROVE  /\ Encodes(AddressResize(m, p, d, junk), Layout!Resize(s, p, d))
         /\ Carried(AddressResize(m, p, d, junk), Layout!Resize(s, p, d), m, s)
         /\ Zero(AddressResize(m, p, d, junk), Layout!Shift(c, p, d), s.freelist_offset + 20 - c)
<1> DEFINE r == AddressResize(m, p, d, junk)
           z == s.size  o == s.index_offset  il == s.index_length  v == s.variables_offset
           tl == s.trailer_len  vb == s.variable_bytes  fl == s.freelist_offset
           x == Layout!IndexPoint(s)
<1>2. /\ Encodes(r, Layout!Resize(s, p, d)) /\ Carried(r, Layout!Resize(s, p, d), m, s)
  BY ResizedKept DEF Carried
<1>3. Shiftable(s, d) /\ Insertable(s, p)
  BY SoundShiftable DEF Whole
<1>4. \A b \in Nat, n \in Nat : Carries(s, p, b, n) => Same(r, Layout!Shift(b, p, d), m, b, n)
  BY <1>3, ResizedRuns
<1>5. Numbers(z, o, il, v, tl, vb, fl, x) /\ p \in Nat
  BY <1>3, SoundNumbers DEF Insertable
<1>6. Zero(m, c, fl + 20 - c) /\ x <= c /\ c <= fl + 20
  OBVIOUS
<1>7. Carries(s, p, c, fl + 20 - c) <=> /\ 32 <= c /\ c + (fl + 20 - c) <= z
                                        /\ c + (fl + 20 - c) <= o \/ x <= c
                                        /\ c + (fl + 20 - c) <= p \/ p <= c
  BY DEF Carries
<1>8. p <= c \/ fl + 20 <= p
  OBVIOUS
<1> HIDE DEF r, z, o, il, v, tl, vb, fl, x
<1>9. fl + 20 - c \in Nat /\ Carries(s, p, c, fl + 20 - c)
  BY <1>5, <1>6, <1>7, <1>8 DEF Numbers
<1>10. Zero(r, Layout!Shift(c, p, d), fl + 20 - c)
  BY <1>4, <1>6, <1>9, ZeroSame
<1> QED BY <1>2, <1>10 DEF r, fl

(* Zeros stay zeros in a store beside them. *)
LEMMA ZeroBeside ==
  ASSUME NEW y, NEW x, NEW a \in Nat, NEW n \in Nat, OnlyAt(y, x, a, n), NEW c \in Nat, NEW k \in Nat,
         c + k <= Len(x), Beside(c, k, a, n), Zero(x, c, k)
  PROVE  Zero(y, c, k)
BY ZeroSame DEF OnlyAt

(* Zeros that are stored, and zeros beside them that were there. *)
LEMMA ZeroOver ==
  ASSUME NEW x \in Seq(Byte), NEW a \in Nat, NEW n \in Nat, a + n <= Len(x),
         NEW c \in Nat, NEW k \in Nat, c + k <= Len(x), Zero(x, c, k)
  PROVE  OnlyAt(Put(x, a, Zeros(n)), x, a, n) /\ Zero(Put(x, a, Zeros(n)), c, k)
<1> DEFINE b == Zeros(n)
           y == Put(x, a, b)
<1>1. b \in Seq(Byte) /\ Len(b) = n /\ Zero(b, 0, n)
  BY ZerosAre
<1> HIDE DEF b
<1>2. /\ OnlyAt(y, x, a, n)
      /\ \A j \in 1 .. Len(x) : y[j] = IF a < j /\ j <= a + n THEN b[j - a] ELSE x[j]
  BY <1>1, PutOnlyAt, PutBytes
<1> HIDE DEF y
<1>3. ASSUME NEW j \in 0 .. k - 1 PROVE y[c + j + 1] = 0
  <2>0. Len(x) \in Nat
    BY LenProperties
  <2>1. c + j + 1 \in 1 .. Len(x) /\ x[c + j + 1] = 0
    <3>1. c + j + 1 \in 1 .. Len(x)
      BY <2>0
    <3>2. x[c + j + 1] = 0
      BY DEF Zero
    <3> QED BY <3>1, <3>2
  <2>2. CASE a < c + j + 1 /\ c + j + 1 <= a + n
    <3> DEFINE i == c + j + 1
    <3>1. i - a - 1 \in 0 .. n - 1 /\ 0 + (i - a - 1) + 1 = i - a
      BY <2>2
    <3>2. b[i - a] = 0
      BY <1>1, <3>1 DEF Zero
    <3> QED BY <1>2, <2>1, <2>2, <3>2
  <2>3. CASE ~(a < c + j + 1 /\ c + j + 1 <= a + n)
    BY <1>2, <2>1, <2>3
  <2> QED BY <2>2, <2>3
<1>4. Zero(y, c, k)
  BY <1>3 DEF Zero
<1> QED BY <1>2, <1>4 DEF y, b

(* A store that touches no block of s and no variable. *)
LEMMA CarriedPut ==
  ASSUME NEW m, NEW s \in Layout!Layouts, NEW x, NEW u, Layout!SoundLayout(u), Carried(x, u, m, s),
         Len(x) = u.size, NEW y, NEW a \in Nat, NEW n \in Nat, OnlyAt(y, x, a, n),
         \A i \in 1 .. Len(s.entries) : Held(u, i) => Beside(Address(u, i), Length(u, i), a, n),
         Beside(u.variables_offset, 4 + s.variable_bytes, a, n)
  PROVE  Carried(y, u, m, s) /\ Len(y) = u.size
<1> DEFINE z == u.size  o == u.index_offset  il == u.index_length  v == u.variables_offset
           tl == u.trailer_len  vb == u.variable_bytes  fl == u.freelist_offset
           p == Layout!IndexPoint(u)  k == s.variable_bytes
<1>1. Numbers(z, o, il, v, tl, vb, fl, p) /\ Beside(v, 4 + k, a, n) /\ k \in Nat
  BY SoundNumbers, LayoutTypes
<1>2. v \in Nat /\ 4 \in Nat /\ v + 4 <= z /\ Beside(v, 4, a, n) /\ Beside(v + 4, k, a, n)
  <2> HIDE DEF z, o, il, v, tl, vb, fl, p, k
  <2> QED BY <1>1 DEF Numbers, Beside
<1>3. Kept(y, u, m, s)
  BY <1>2, KeptPut DEF Carried
<1>4. Same(y, v, m, s.variables_offset, 4)
  <2>2. Same(y, v, x, v, 4)
    BY <1>2 DEF OnlyAt
  <2>3. Same(x, v, m, s.variables_offset, 4)
    BY DEF Carried
  <2> QED BY <2>2, <2>3, SameTwice
<1>5. Len(y) = u.size
  BY DEF OnlyAt
<1> QED BY <1>3, <1>4, <1>5 DEF Carried

-----------------------------------------------------------------------------
(***************************************************************************)
(* bom_index_reserve.                                                      *)
(***************************************************************************)

(* What an operation leaves: a file laid out as t, which holds what m held. *)
Succeeds(x, t, m, s) == File(x, t) /\ Carried(x, t, m, s) /\ t.variable_bytes = s.variable_bytes

(* What is left to show of an operation that leaves the variables alone. *)
LEMMA FileIs ==
  ASSUME NEW m, NEW s, File(m, s), NEW x, NEW t, Encodes(x, t), Layout!SoundLayout(t),
         t.size \in Word32, Spare(x, t), Carried(x, t, m, s), t.variable_bytes = s.variable_bytes
  PROVE  Succeeds(x, t, m, s)
<1>1. s \in Layout!Layouts /\ t \in Layout!Layouts
  BY SoundSections DEF File
<1>2. Walks(x, t)
  BY <1>1, CarriedWalks DEF File
<1> QED BY <1>2 DEF Succeeds, File

(* The index is lengthened in place. *)
LEMMA WithLength ==
  ASSUME NEW s \in Layout!Layouts, NEW n \in Nat
  PROVE  /\ [s EXCEPT !.index_length = n] \in Layout!Layouts
         /\ [s EXCEPT !.index_length = n].index_length = n
         /\ WithField([s EXCEPT !.index_length = n], s, 20, n)
         /\ [s EXCEPT !.index_length = n].variable_bytes = s.variable_bytes
         /\ [s EXCEPT !.index_length = n].freelist_offset = s.freelist_offset
BY DEF Layout!Layouts, WithField

(* A layout with another header field has everything in the same places. *)
LEMMA SamePlacesField ==
  ASSUME NEW s \in Layout!Layouts, NEW t, NEW f, NEW v, WithField(t, s, f, v),
         t.variable_bytes = s.variable_bytes
  PROVE  SamePlaces(t, s)
<1>1. /\ s.variable_bytes \in Nat /\ Len(s.entries) \in Nat
      /\ \A i \in 1 .. Len(s.entries) : Length(s, i) \in Nat
  BY LayoutTypes
<1>2. t.entries = s.entries /\ t.variables_offset = s.variables_offset
  BY DEF WithField
<1>3. \A i : Address(t, i) = Address(s, i) /\ Length(t, i) = Length(s, i)
  BY <1>2 DEF Address, Length
<1> QED BY <1>1, <1>2, <1>3 DEF SamePlaces, Held

(* n more slots behind the used ones, as yet with any contents: what       *)
(* bom_index_reserve and both callers that grow the index have in common.  *)
LEMMA Opened ==
  ASSUME NEW m, NEW s, File(m, s), NEW n \in Nat,
         NEW t, t = Layout!IndexReserve(s, n), t.size \in Word32, NEW junk \in Byte,
         NEW r, r = AddressResize(m, EntryAt(m, Count(m)), 8 * n, junk)
  PROVE  /\ Encodes(Put(r, IndexLengthAt, Word(IndexLength(m) + 8 * n)), t)
         /\ Carried(Put(r, IndexLengthAt, Word(IndexLength(m) + 8 * n)), t, m, s)
         /\ Zero(Put(r, IndexLengthAt, Word(IndexLength(m) + 8 * n)),
                 Layout!IndexPoint(s) + 8 * n, s.freelist_offset + 20 - Layout!IndexPoint(s))
         /\ Layout!SoundLayout(t) /\ t.variable_bytes = s.variable_bytes
         /\ Layout!IndexPoint(t) = Layout!IndexPoint(s) /\ Len(t.entries) = Len(s.entries)
         /\ t.index_offset = s.index_offset
         /\ t.index_length = s.index_length + 8 * n /\ t.freelist_offset = s.freelist_offset + 8 * n
         /\ EntryAt(m, Count(m)) = Layout!IndexPoint(s) /\ IndexLength(r) = IndexLength(m)
<1> DEFINE p == Layout!IndexPoint(s)
           d == 8 * n
           rs == Layout!Resize(s, p, d)
           il == s.index_length
           y == Put(r, 20, Word(il + d))
<1>1. /\ Encodes(m, s) /\ Layout!SoundLayout(s) /\ s \in Layout!Layouts /\ s.size \in Nat
      /\ il \in Nat /\ s.index_offset \in Nat /\ s.freelist_offset \in Nat /\ p \in Nat
      /\ s.index_offset + 4 <= p /\ p <= s.freelist_offset /\ d \in Nat
      /\ s.freelist_offset + 20 = s.index_offset + il
  BY SoundSections DEF File
<1>2. EntryAt(m, Count(m)) = p /\ IndexLength(m) = il
  BY <1>1, EntrySlots DEF Encodes
<1>3. /\ rs \in Layout!Layouts /\ rs.size = s.size + d
      /\ rs.index_offset = Layout!Shift(s.index_offset, p, d)
      /\ rs.freelist_offset = Layout!Shift(s.freelist_offset, p, d)
      /\ rs.index_length = il /\ rs.variable_bytes = s.variable_bytes
      /\ Len(rs.entries) = Len(s.entries)
  <2> HIDE DEF p, d
  <2> QED BY <1>1, ResizedFields
<1>4. t = [rs EXCEPT !.index_length = il + d]
  <2>1. Layout!EntrySize * n = d
    BY DEF Layout!EntrySize
  <2> QED BY <2>1, Zenon DEF Layout!IndexReserve, Layout!ReservePoint
<1> HIDE DEF rs, d, p
<1>5. /\ t \in Layout!Layouts /\ t.index_length = il + d /\ WithField(t, rs, 20, il + d)
      /\ t.variable_bytes = s.variable_bytes /\ t.freelist_offset = rs.freelist_offset
  <2>1. il + d \in Nat
    BY <1>1
  <2> DEFINE w == il + d
             u == [rs EXCEPT !.index_length = w]
  <2>2. /\ u \in Layout!Layouts /\ u.index_length = w /\ WithField(u, rs, 20, w)
        /\ u.variable_bytes = rs.variable_bytes /\ u.freelist_offset = rs.freelist_offset
    <3>1. w \in Nat
      BY <2>1
    <3> HIDE DEF w
    <3> QED BY <1>3, <3>1, WithLength, Zenon
  <2>3. t = u
    BY <1>4
  <2> HIDE DEF u
  <2> QED BY <1>3, <2>2, <2>3, Zenon
<1>6. Layout!SoundLayout(t)
  BY <1>1, ReserveStays
<1>7. /\ t.size = s.size + d /\ t.index_offset = s.index_offset /\ t.entries = rs.entries
      /\ t.freelist_offset = s.freelist_offset + d
  <2>1. Layout!Shift(s.index_offset, p, d) = s.index_offset
    BY <1>1 DEF Layout!Shift
  <2>2. Layout!Shift(s.freelist_offset, p, d) = s.freelist_offset + d
    BY <1>1 DEF Layout!Shift
  <2> QED BY <1>3, <1>5, <2>1, <2>2, Zenon DEF WithField
<1>8. Layout!IndexPoint(t) = p /\ Len(t.entries) = Len(s.entries)
  BY <1>3, <1>7 DEF Layout!IndexPoint, p
<1>9. /\ Encodes(r, rs) /\ Carried(r, rs, m, s)
      /\ Zero(r, Layout!Shift(p, p, d), s.freelist_offset + 20 - p)
  <2>1. Whole(s, p)
    BY <1>1, SectionsWhole DEF p
  <2>2. s.size + d \in Word32
    BY <1>7
  <2>3. p <= Layout!IndexPoint(s) \/ s.freelist_offset + 20 <= p
    BY <1>1 DEF p
  <2>4. r = AddressResize(m, p, d, junk)
    BY <1>2 DEF d
  <2>5. Zero(m, p, s.freelist_offset + 20 - p)
    BY DEF File, Spare, p
  <2>6. Layout!IndexPoint(s) <= p /\ p <= s.freelist_offset + 20 /\ p <= p
    BY <1>1 DEF p
  <2> QED BY <1>1, <2>1, <2>2, <2>4, <2>5, <2>6, ResizedCarried DEF rs
<1>10. /\ Len(r) = t.size /\ r \in Seq(Byte) /\ t.size \in Nat /\ 36 <= t.size
  BY <1>3, <1>7, <1>9, EncodesIndex
<1>11. OnlyAt(y, r, 20, 4) /\ Get(y, 20) = il + d
  <2>1. il + d \in Word32
    BY <1>5, <1>6, SoundWords
  <2>2. 20 \in Nat /\ 20 + 4 <= Len(r)
    BY <1>10
  <2> QED BY <1>10, <2>1, <2>2, WordOnlyAt, Zenon
<1> HIDE DEF y
<1>12. Encodes(y, t)
  <2>1. 20 \in {12, 20, 28}
    OBVIOUS
  <2>2. WithField(t, rs, 20, Get(y, 20))
    BY <1>5, <1>11
  <2> QED BY <1>5, <1>9, <1>11, <2>1, <2>2, HeaderEncodes, Zenon
<1>13. Carried(y, t, m, s)
  <2>1. SamePlaces(t, rs)
    BY <1>3, <1>5, SamePlacesField
  <2>2. Carried(r, t, m, s)
    BY <1>1, <1>3, <1>5, <1>9, <2>1, CarriedThere
  <2>3. InIndex(t, 20, 4) /\ 20 \in Nat /\ 4 \in Nat
    BY DEF InIndex
  <2> QED BY <1>1, <1>6, <1>10, <1>11, <2>2, <2>3, CarriedIndex, Zenon
<1>14. Zero(y, p + d, s.freelist_offset + 20 - p)
  <2>1. Layout!Shift(p, p, d) = p + d
    BY <1>1 DEF Layout!Shift
  <2> DEFINE c == p + d  k == s.freelist_offset + 20 - p
  <2>2. c \in Nat /\ k \in Nat /\ c + k <= Len(r) /\ Beside(c, k, 20, 4) /\ 20 \in Nat /\ 4 \in Nat
    <3>1. 32 <= s.index_offset /\ s.index_offset + il <= s.size
      BY <1>1, SoundSections
    <3>2. c \in Nat /\ k \in Nat
      BY <1>1
    <3>3. c + k = s.index_offset + il + d /\ 32 <= c
      BY <1>1, <3>1
    <3>4. c + k <= s.size + d
      BY <1>1, <3>1, <3>3
    <3> HIDE DEF c, k
    <3> QED BY <1>7, <1>10, <3>2, <3>3, <3>4 DEF Beside
  <2>3. Zero(r, c, k)
    BY <1>9, <2>1
  <2> HIDE DEF c, k
  <2>4. Zero(y, c, k)
    BY <1>11, <2>2, <2>3, ZeroBeside, Zenon
  <2> QED BY <2>4 DEF c, k
<1>15. IndexLength(r) = IndexLength(m)
  <2>1. IndexLength(r) = il
    BY <1>3, <1>9 DEF Encodes
  <2> QED BY <1>2, <2>1
<1> QED BY <1>2, <1>5, <1>6, <1>7, <1>8, <1>12, <1>13, <1>14, <1>15
        DEF y, p, d, IndexLengthAt

(* bom_index_reserve. *)
LEMMA ReserveFile ==
  ASSUME NEW m, NEW s, File(m, s), NEW n \in Nat, NEW junk \in Byte,
         Layout!IndexReserve(s, n).size \in Word32
  PROVE  Succeeds(IndexReserve(m, n, junk), Layout!IndexReserve(s, n), m, s)
<1> DEFINE p == Layout!IndexPoint(s)
           d == 8 * n
           t == Layout!IndexReserve(s, n)
           r == AddressResize(m, EntryAt(m, Count(m)), d, junk)
           y == Put(r, IndexLengthAt, Word(IndexLength(m) + d))
           x == Put(y, p, Zeros(d))
           fl == s.freelist_offset
<1>1. /\ Encodes(y, t) /\ Carried(y, t, m, s) /\ Zero(y, p + d, fl + 20 - p)
      /\ Layout!SoundLayout(t) /\ t.variable_bytes = s.variable_bytes
      /\ Layout!IndexPoint(t) = p /\ t.index_offset = s.index_offset
      /\ t.index_length = s.index_length + d /\ t.freelist_offset = fl + d
      /\ EntryAt(m, Count(m)) = p /\ t.size \in Word32
  BY Opened
<1>2. IndexReserve(m, n, junk) = x
  BY <1>1 DEF IndexReserve, Layout!EntrySize
<1>3. /\ s \in Layout!Layouts /\ p \in Nat /\ d \in Nat /\ fl \in Nat /\ 32 <= s.index_offset
      /\ s.index_offset \in Nat /\ s.index_length \in Nat
      /\ s.index_offset + 4 <= p /\ p <= fl /\ fl + 20 = s.index_offset + s.index_length
  BY SoundSections DEF File
<1>4. /\ t.size \in Nat /\ t.index_offset + t.index_length <= t.size
      /\ y \in Seq(Byte) /\ Len(y) = t.size
  BY <1>1, SoundSections, EncodesIndex
<1> HIDE DEF t, y, p, d, fl
<1>5. OnlyAt(x, y, p, d) /\ Zero(x, p, d)
  <2>1. Zeros(d) \in Seq(Byte) /\ Len(Zeros(d)) = d /\ Zero(Zeros(d), 0, d)
    BY <1>3, ZerosAre
  <2>2. p + d <= Len(y)
    <3> DEFINE z == t.size  o == s.index_offset  il == s.index_length
    <3>1. /\ z \in Nat /\ o \in Nat /\ il \in Nat /\ p \in Nat /\ d \in Nat /\ fl \in Nat
          /\ p <= fl /\ fl + 20 = o + il /\ Len(y) = z
      BY <1>3, <1>4, Zenon
    <3>2. o + (il + d) <= z
      <4>1. t.index_offset = o /\ t.index_length = il + d
        BY <1>1, Zenon
      <4> QED BY <1>4, <4>1, Zenon
    <3> HIDE DEF z, o, il
    <3> QED BY <3>1, <3>2
  <2>3. OnlyAt(x, y, p, Len(Zeros(d))) /\ Same(x, p, Zeros(d), 0, Len(Zeros(d)))
    BY <1>3, <1>4, <2>1, <2>2, PutOnlyAt
  <2> QED BY <2>1, <2>3, ZeroSame
<1> HIDE DEF x
<1>6. Encodes(x, t)
  <2>1. 32 <= p /\ Layout!IndexPoint(t) <= p
    BY <1>1, <1>3
  <2> QED BY <1>1, <1>3, <1>5, <2>1, OutsideEncodes
<1>7. Carried(x, t, m, s)
  <2>1. InIndex(t, p, d)
    BY <1>1, <1>3 DEF InIndex
  <2> QED BY <1>1, <1>3, <1>4, <1>5, <2>1, CarriedIndex
<1>8. Spare(x, t)
  <2> DEFINE k == fl + 20 - p
  <2>1. k \in Nat /\ p + d \in Nat /\ (p + d) + k <= Len(y) /\ Beside(p + d, k, p, d)
    <3> DEFINE o == s.index_offset  il == s.index_length  z == t.size
    <3>1. o + (il + d) <= z /\ Len(y) = z /\ z \in Nat
      BY <1>1, <1>4
    <3>2. o \in Nat /\ il \in Nat /\ fl + 20 = o + il /\ p <= fl
      BY <1>3
    <3> HIDE DEF o, il, z
    <3> QED BY <1>3, <3>1, <3>2 DEF Beside
  <2>2. Zero(x, p + d, k)
    BY <1>1, <1>3, <1>5, <2>1, ZeroBeside
  <2>3. Zero(x, p, d + k)
    BY <1>3, <1>5, <2>1, <2>2, ZeroJoin
  <2>4. t.freelist_offset + 20 - Layout!IndexPoint(t) = d + k
    BY <1>1, <1>3
  <2> QED BY <1>1, <2>3, <2>4 DEF Spare
<1>9. Succeeds(x, t, m, s)
  BY <1>1, <1>6, <1>7, <1>8, FileIs
<1> QED BY <1>2, <1>9 DEF t

-----------------------------------------------------------------------------
(***************************************************************************)
(* bom_index_add.                                                          *)
(***************************************************************************)

(* The code and the geometry agree on when the index is full. *)
LEMMA FullIsFull ==
  ASSUME NEW m, NEW s, Encodes(m, s)
  PROVE  \A n : IndexFull(m, n) <=> Layout!IndexFull(s, n)
BY DEF Encodes, IndexFull, Layout!IndexFull

(* Room for one entry more: the index of g, laid out as u, is clear from   *)
(* one entry behind the used ones.                                         *)
Roomy(g, u, m, s) ==
  /\ Encodes(g, u) /\ Layout!SoundLayout(u) /\ Carried(g, u, m, s)
  /\ u.variable_bytes = s.variable_bytes /\ Len(u.entries) = Len(s.entries)
  /\ Layout!IndexPoint(u) + 8 <= u.freelist_offset
  /\ Zero(g, Layout!IndexPoint(u) + 8, u.freelist_offset + 20 - (Layout!IndexPoint(u) + 8))

(* bom_index_add, up to the growth of a full index. *)
LEMMA GrowFile ==
  ASSUME NEW m, NEW s, File(m, s), NEW junk \in Byte, Layout!GrowForAdd(s).size \in Word32
  PROVE  Roomy(GrowForAdd(m, junk), Layout!GrowForAdd(s), m, s)
<1> DEFINE u == Layout!GrowForAdd(s)
           g == GrowForAdd(m, junk)
           p == Layout!IndexPoint(s)
           fl == s.freelist_offset
           n == Count(m)
           r == AddressResize(m, EntryAt(m, n), 8, junk)
           l == Put(r, IndexLengthAt, Word(IndexLength(r) + 8))
           w == Put(l, EntryAt(l, n + 1), Zeros(8))
<1>1. /\ Encodes(m, s) /\ Layout!SoundLayout(s) /\ s \in Layout!Layouts
      /\ p \in Nat /\ fl \in Nat /\ p <= fl /\ n = Len(s.entries) /\ n \in Nat
      /\ p = s.index_offset + 4 + 8 * n /\ s.index_offset \in Nat
      /\ Zero(m, p, fl + 20 - p)
  BY SoundSections, PointIs DEF File, Encodes, Spare
<1>2. IndexFull(m, 1) <=> Layout!IndexFull(s, 1)
  BY <1>1, FullIsFull
<1>3. /\ Layout!SoundLayout(u) /\ Len(u.entries) = Len(s.entries)
      /\ Layout!IndexPoint(u) + 8 <= u.freelist_offset
  BY <1>1, GrowStays
<1>4. CASE ~Layout!IndexFull(s, 1)
  <2>1. u = s /\ g = m
    BY <1>2, <1>4 DEF Layout!GrowForAdd, GrowForAdd
  <2>2. Carried(m, s, m, s)
    BY <1>1, KeptSelf DEF Carried, Same
  <2>3. Zero(m, p + 8, fl + 20 - (p + 8))
    <3> DEFINE a == p + 8  j == fl + 20 - (p + 8)  k == fl + 20 - p
    <3>1. p \in Nat /\ a \in Nat /\ k \in Int /\ j \in Int /\ p <= a /\ a + j <= p + k
          /\ Zero(m, p, k)
      <4>1. Zero(m, p, k) /\ p \in Nat /\ fl \in Nat
        BY <1>1
      <4> HIDE DEF p, fl
      <4>2. a \in Nat /\ k \in Int /\ j \in Int /\ p <= a /\ a + j <= p + k
        BY <4>1
      <4> QED BY <4>1, <4>2
    <3> HIDE DEF a, j, k, p
    <3>2. Zero(m, a, j)
      BY <3>1, ZeroPart
    <3> QED BY <3>2 DEF a, j
  <2> QED BY <1>1, <1>3, <2>1, <2>2, <2>3 DEF Roomy
<1>5. CASE Layout!IndexFull(s, 1)
  <2>1. u = Layout!IndexReserve(s, 1)
    <3>1. Layout!EntrySize * 1 = Layout!EntrySize
      BY DEF Layout!EntrySize
    <3> QED BY <1>5, <3>1, Zenon DEF Layout!GrowForAdd, Layout!IndexReserve, Layout!ReservePoint
  <2>2. r = AddressResize(m, EntryAt(m, Count(m)), 8 * 1, junk)
    OBVIOUS
  <2> DEFINE y == Put(r, IndexLengthAt, Word(IndexLength(m) + 8 * 1))
  <2>0. u.size \in Word32 /\ 1 \in Nat
    OBVIOUS
  <2>5. g = w
    BY <1>2, <1>5 DEF GrowForAdd, Layout!EntrySize
  <2> HIDE DEF r, u
  <2>3. /\ Encodes(y, u) /\ Carried(y, u, m, s)
        /\ Zero(y, p + 8 * 1, fl + 20 - p)
        /\ Layout!SoundLayout(u) /\ u.variable_bytes = s.variable_bytes
        /\ Layout!IndexPoint(u) = p /\ Len(u.entries) = Len(s.entries)
        /\ u.index_offset = s.index_offset
        /\ u.index_length = s.index_length + 8 * 1 /\ u.freelist_offset = fl + 8 * 1
        /\ EntryAt(m, Count(m)) = p /\ IndexLength(r) = IndexLength(m)
    <3> DEFINE e == 1
    <3>1. /\ e \in Nat /\ u = Layout!IndexReserve(s, e)
          /\ r = AddressResize(m, EntryAt(m, Count(m)), 8 * e, junk)
      BY <2>0, <2>1, <2>2
    <3> DEFINE f == Put(r, IndexLengthAt, Word(IndexLength(m) + 8 * e))
    <3> HIDE DEF e
    <3>2. /\ Encodes(f, u) /\ Carried(f, u, m, s)
          /\ Zero(f, Layout!IndexPoint(s) + 8 * e, s.freelist_offset + 20 - Layout!IndexPoint(s))
          /\ Layout!SoundLayout(u) /\ u.variable_bytes = s.variable_bytes
          /\ Layout!IndexPoint(u) = Layout!IndexPoint(s) /\ Len(u.entries) = Len(s.entries)
          /\ u.index_offset = s.index_offset
          /\ u.index_length = s.index_length + 8 * e
          /\ u.freelist_offset = s.freelist_offset + 8 * e
          /\ EntryAt(m, Count(m)) = Layout!IndexPoint(s) /\ IndexLength(r) = IndexLength(m)
      BY <2>0, <3>1, Opened
    <3> QED BY <3>2 DEF e
  <2>4. l = y
    BY <2>3
  <2> HIDE DEF y, g
  <2>6. EntryAt(l, n + 1) = p + 8
    <3>1. IndexOffset(l) = s.index_offset
      BY <2>3, <2>4 DEF Encodes
    <3>2. EntryAt(l, n + 1) = s.index_offset + 4 + 8 * (n + 1)
      BY <3>1 DEF EntryAt, Layout!CountSize, Layout!EntrySize
    <3> HIDE DEF n, p
    <3> QED BY <1>1, <3>2
  <2>7. /\ y \in Seq(Byte) /\ Len(y) = u.size /\ u.size \in Nat
        /\ u.index_offset + u.index_length <= u.size
        /\ 32 <= u.index_offset /\ u.index_length \in Nat /\ u.freelist_offset \in Nat
        /\ u.freelist_offset + 20 = u.index_offset + u.index_length
    BY <1>3, <2>3, SoundSections, EncodesIndex
  <2>8. g = Put(y, p + 8, Zeros(8))
    BY <2>4, <2>5, <2>6
  <2> DEFINE a == p + 8  k == fl + 20 - p
  <2>9. a \in Nat /\ k \in Nat /\ a + 8 <= Len(y) /\ a + k <= Len(y) /\ 8 \in Nat
        /\ 32 <= a /\ p <= a /\ s.index_offset <= a /\ a + 8 <= u.index_offset + u.index_length
    <3> DEFINE o == u.index_offset  il == u.index_length  z == u.size  fu == u.freelist_offset
    <3>1. /\ Len(y) = z /\ z \in Nat /\ o + il <= z /\ 32 <= o /\ il \in Nat /\ fu + 20 = o + il
          /\ fu = fl + 8 * 1 /\ s.index_offset = o
      BY <2>3, <2>7
    <3>2. p \in Nat /\ fl \in Nat /\ p <= fl /\ o \in Nat /\ p = o + 4 + 8 * n /\ n \in Nat
      BY <1>1, <3>1
    <3> HIDE DEF o, il, z, fu, p, fl, n
    <3>3. /\ a \in Nat /\ k \in Nat /\ a + 8 <= z /\ a + k <= z /\ 8 \in Nat
          /\ 32 <= a /\ p <= a /\ o <= a /\ a + 8 <= o + il
      BY <3>1, <3>2
    <3> HIDE DEF a, k
    <3> QED BY <3>1, <3>3 DEF o, il
  <2>10. Zero(y, a, k)
    <3>1. p + 8 * 1 = a
      OBVIOUS
    <3> QED BY <2>3, <3>1
  <2> HIDE DEF a, k
  <2>11. OnlyAt(g, y, a, 8) /\ Zero(g, a, k)
    <3>1. OnlyAt(Put(y, a, Zeros(8)), y, a, 8) /\ Zero(Put(y, a, Zeros(8)), a, k)
      BY <2>7, <2>9, <2>10, ZeroOver, Zenon
    <3> QED BY <2>8, <3>1 DEF a
  <2>12. Encodes(g, u)
    BY <2>3, <2>9, <2>11, OutsideEncodes, Zenon
  <2>13. Carried(g, u, m, s)
    <3>1. InIndex(u, a, 8)
      BY <2>3, <2>9 DEF InIndex
    <3> QED BY <1>1, <1>3, <2>3, <2>7, <2>9, <2>11, <3>1, CarriedIndex, Zenon
  <2>14. Layout!IndexPoint(u) + 8 = a /\ u.freelist_offset + 20 - (Layout!IndexPoint(u) + 8) = k
    <3> DEFINE q == Layout!IndexPoint(u)  fu == u.freelist_offset
    <3>1. q = p /\ fu = fl + 8 * 1 /\ p \in Nat /\ fl \in Nat
      BY <1>1, <2>3
    <3> HIDE DEF q, fu, p, fl
    <3>2. q + 8 = p + 8 /\ fu + 20 - (q + 8) = fl + 20 - p
      BY <3>1
    <3> QED BY <3>2 DEF a, k, q, fu
  <2>15. Zero(g, Layout!IndexPoint(u) + 8, u.freelist_offset + 20 - (Layout!IndexPoint(u) + 8))
    BY <2>11, <2>14, Zenon
  <2> QED BY <1>3, <2>3, <2>12, <2>13, <2>15, Zenon DEF Roomy, u, g
<1> QED BY <1>4, <1>5

(* Two numbers, one behind the other. *)
LEMMA WordsOnlyAt ==
  ASSUME NEW m \in Seq(Byte), NEW a \in Nat, a + 8 <= Len(m), NEW v \in Word32, NEW w \in Word32
  PROVE  LET x == Put(m, a, Word(v) \o Word(w))
         IN OnlyAt(x, m, a, 8) /\ Get(x, a) = v /\ Get(x, a + 4) = w
<1> DEFINE b == Word(v) \o Word(w)
           x == Put(m, a, b)
<1>1. /\ Word(v) \in Seq(Byte) /\ Len(Word(v)) = 4 /\ Get(Word(v), 0) = v
      /\ Word(w) \in Seq(Byte) /\ Len(Word(w)) = 4 /\ Get(Word(w), 0) = w
  BY WordIsBytes
<1>2. /\ b \in Seq(Byte) /\ Len(b) = 8 /\ Get(b, 0) = v /\ Get(b, 4) = w
  <2> DEFINE c == Word(v)  d == Word(w)
  <2>1. /\ c \in Seq(Byte) /\ Len(c) = 4 /\ w \in Word32
        /\ Begins(c \o d, c) /\ c \o d \in Seq(Byte) /\ Len(c \o d) = Len(c) + 4
        /\ Get(c \o d, Len(c)) = w
    BY <1>1, JoinedWord
  <2>2. Len(c) = 4 /\ Get(c, 0) = v /\ b = c \o d
    BY <1>1
  <2> HIDE DEF c, d, b
  <2>3. 0 \in Nat /\ 0 + 4 <= Len(c)
    BY <2>2
  <2>4. Get(c \o d, 0) = Get(c, 0)
    BY <2>1, <2>3, BeginsGet, Zenon
  <2>5. Len(b) = 8
    BY <2>1, <2>2
  <2> QED BY <2>1, <2>2, <2>4, <2>5, Zenon
<1> HIDE DEF b
<1>3. OnlyAt(x, m, a, 8) /\ Same(x, a, b, 0, 8)
  <2>1. OnlyAt(x, m, a, Len(b)) /\ Same(x, a, b, 0, Len(b))
    BY <1>2, PutOnlyAt
  <2> QED BY <1>2, <2>1
<1> HIDE DEF x
<1>4. Same(x, a, b, 0, 4) /\ Same(x, a + 4, b, 4, 4)
  <2>1. Same(x, a + 0, b, 0 + 0, 4) /\ Same(x, a + 4, b, 0 + 4, 4)
    <3>1. 0 \in Int /\ 8 \in Int /\ a \in Int /\ 0 \in Nat /\ 4 \in Nat /\ 0 + 4 <= 8 /\ 4 + 4 <= 8
      OBVIOUS
    <3> QED BY <1>3, <3>1, SamePart, Zenon
  <2> QED BY <2>1
<1>5. Get(x, a) = Get(b, 0) /\ Get(x, a + 4) = Get(b, 4)
  <2>1. a \in Int /\ a + 4 \in Int /\ 0 \in Int /\ 4 \in Int
    OBVIOUS
  <2> QED BY <1>4, <2>1, SameGet
<1> QED BY <1>2, <1>3, <1>5 DEF x, b

(* The index holds other entries. *)
Listing(s, q)   == [s EXCEPT !.entries = q]
Counted(s, q, k) == [s EXCEPT !.entries = q, !.block_count = k]

(* A layout with other entries. *)
LEMMA EntriesReplaced ==
  ASSUME NEW s \in Layout!Layouts, NEW ee \in Seq(Layout!Entries), NEW kk \in Nat,
         NEW w, w = Counted(s, ee, kk), NEW v, v = Listing(s, ee)
  PROVE  /\ w \in Layout!Layouts /\ v \in Layout!Layouts
         /\ w.entries = ee /\ v.entries = ee
         /\ WithEntries(v, s) /\ WithField(w, v, 12, kk)
         /\ w.variable_bytes = s.variable_bytes /\ w.freelist_offset = s.freelist_offset
         /\ w.size = s.size /\ w.index_offset = s.index_offset
         /\ w.index_length = s.index_length /\ w.variables_offset = s.variables_offset
         /\ v.variable_bytes = s.variable_bytes /\ v.freelist_offset = s.freelist_offset
<1>1. /\ v \in Layout!Layouts /\ v.entries = ee /\ v.size = s.size /\ v.index_offset = s.index_offset
      /\ v.index_length = s.index_length /\ v.variables_offset = s.variables_offset
      /\ v.trailer_len = s.trailer_len /\ v.block_count = s.block_count
      /\ v.variable_bytes = s.variable_bytes /\ v.freelist_offset = s.freelist_offset
  BY DEF Layout!Layouts, Listing
<1>2. /\ w \in Layout!Layouts /\ w.entries = ee /\ w.size = s.size /\ w.index_offset = s.index_offset
      /\ w.index_length = s.index_length /\ w.variables_offset = s.variables_offset
      /\ w.trailer_len = s.trailer_len /\ w.block_count = kk
      /\ w.variable_bytes = s.variable_bytes /\ w.freelist_offset = s.freelist_offset
  BY DEF Layout!Layouts, Counted
<1>3. WithEntries(v, s) /\ WithField(w, v, 12, kk)
  BY <1>1, <1>2 DEF WithEntries, WithField
<1> QED BY <1>1, <1>2, <1>3

Block(a, n) == [address |-> a, length |-> n]

(* A layout with an entry more. *)
LEMMA EntryAppended ==
  ASSUME NEW s \in Layout!Layouts, NEW a \in Nat, NEW n \in Nat, NEW t \in Layout!Layouts,
         t.entries = Append(s.entries, Block(a, n))
  PROVE  /\ Len(t.entries) = Len(s.entries) + 1
         /\ Address(t, Len(s.entries) + 1) = a /\ Length(t, Len(s.entries) + 1) = n
         /\ \A i \in 1 .. Len(s.entries) : Address(t, i) = Address(s, i) /\ Length(t, i) = Length(s, i)
<1> DEFINE q == s.entries  e == [address |-> a, length |-> n]
<1>1. q \in Seq(Layout!Entries) /\ e \in Layout!Entries /\ Len(q) \in Nat /\ t.entries = Append(q, e)
  BY LayoutTypes DEF Layout!Entries, Block
<1>2. e.address = a /\ e.length = n
  OBVIOUS
<1> HIDE DEF q, e
<1>3. /\ Len(Append(q, e)) = Len(q) + 1 /\ Append(q, e)[Len(q) + 1] = e
      /\ \A i \in 1 .. Len(q) : Append(q, e)[i] = q[i]
  BY <1>1, AppendProperties
<1> QED BY <1>1, <1>2, <1>3 DEF Address, Length, q

(* Growth changes no length. *)
LEMMA GrowLengths ==
  ASSUME NEW s, Layout!SoundLayout(s)
  PROVE  \A i \in 1 .. Len(s.entries) : Length(Layout!GrowForAdd(s), i) = Length(s, i)
<1> DEFINE p == Layout!IndexPoint(s)  e == Layout!EntrySize  rs == Layout!Resize(s, p, e)
<1>1. s \in Layout!Layouts /\ p \in Nat /\ e \in Nat
  BY SoundSections DEF Layout!EntrySize
<1>2. \A i \in 1 .. Len(s.entries) : Length(rs, i) = Length(s, i)
  <2> HIDE DEF p, e
  <2> QED BY <1>1, ResizedFields
<1>3. rs \in Layout!Layouts
  <2> HIDE DEF p, e
  <2> QED BY <1>1, ResizedFields
<1>4. [rs EXCEPT !.index_length = s.index_length + e].entries = rs.entries
  <2> HIDE DEF rs, e
  <2> QED BY <1>3 DEF Layout!Layouts
<1> HIDE DEF rs
<1>5. Layout!GrowForAdd(s) = s \/ Layout!GrowForAdd(s) = [rs EXCEPT !.index_length = s.index_length + e]
  BY Zenon DEF Layout!GrowForAdd, rs
<1> QED BY <1>2, <1>4, <1>5 DEF Length

(* The new block and its entry, in a file that has room for it. *)
LEMMA AddFile ==
  ASSUME NEW m, NEW s, File(m, s), NEW data \in Seq(Byte), NEW junk \in Byte,
         NEW t, t = Layout!IndexAdd(s, Len(data)), t.size \in Word32,
         NEW x, x = IndexAdd(m, data, junk)
  PROVE  /\ Succeeds(x, t, m, s) /\ Len(t.entries) = Len(s.entries) + 1
         /\ Address(t, Len(s.entries) + 1) # 0
         /\ Length(t, Len(s.entries) + 1) = Len(data)
         /\ Same(x, Address(t, Len(s.entries) + 1), data, 0, Len(data))
         /\ \A i \in 1 .. Len(s.entries) : Length(t, i) = Length(s, i)
<1> DEFINE len == Len(data)
           n == Count(m)
           u == Layout!GrowForAdd(s)
           g == GrowForAdd(m, junk)
           z == u.size
           rs == Layout!Resize(u, z, len)
           y == [rs EXCEPT !.entries = t.entries]
           r == AddressResize(g, z, len, junk)
           p == Layout!IndexPoint(u)
           e == Put(r, p, Word(z) \o Word(len))
           d == Put(e, z, data)
           o == u.index_offset
           c == Put(d, o, Word(n + 1))
           fl == u.freelist_offset
<1>1. /\ s \in Layout!Layouts /\ n = Len(s.entries) /\ n \in Nat /\ len \in Nat
      /\ Layout!SoundLayout(s)
  BY SoundSections, LenProperties DEF File, Encodes
<1>2. Layout!SoundLayout(u) /\ u \in Layout!Layouts /\ Len(u.entries) = n
  BY <1>1, GrowStays, SoundSections
<1>3. /\ z \in Nat /\ o \in Nat /\ p \in Nat /\ fl \in Nat /\ p = o + 4 + 8 * n /\ 32 <= o
      /\ fl + 20 = o + u.index_length /\ u.index_length \in Nat /\ o + u.index_length <= z
  BY <1>2, SoundSections, PointIs
<1>4. /\ rs \in Layout!Layouts /\ rs.size = u.size + len
      /\ rs.index_offset = Layout!Shift(o, z, len) /\ rs.index_length = u.index_length
      /\ rs.variable_bytes = u.variable_bytes
      /\ rs.freelist_offset = Layout!Shift(fl, z, len)
      /\ Len(rs.entries) = Len(u.entries)
  <2>1. u \in Layout!Layouts /\ z \in Nat /\ len \in Nat
    BY <1>1, <1>2, <1>3
  <2> HIDE DEF z, len, u
  <2> QED BY <2>1, ResizedFields DEF z
<1>5. t = [rs EXCEPT !.entries = Append(rs.entries, [address |-> z, length |-> len]),
                     !.block_count = n + 1]
  BY <1>1, Zenon DEF Layout!IndexAdd
<1> HIDE DEF rs
<1>6. /\ t \in Layout!Layouts /\ y \in Layout!Layouts
      /\ t.entries = Append(rs.entries, [address |-> z, length |-> len]) /\ y.entries = t.entries
      /\ WithEntries(y, rs) /\ WithField(t, y, 12, n + 1)
      /\ t.variable_bytes = rs.variable_bytes /\ t.freelist_offset = rs.freelist_offset
      /\ t.size = rs.size /\ t.index_offset = rs.index_offset
      /\ t.index_length = rs.index_length /\ t.variables_offset = rs.variables_offset
      /\ y.variable_bytes = rs.variable_bytes
  <2> DEFINE q == Append(rs.entries, [address |-> z, length |-> len])  k == n + 1
  <2>1. q \in Seq(Layout!Entries) /\ k \in Nat
    <3>1. [address |-> z, length |-> len] \in Layout!Entries /\ rs.entries \in Seq(Layout!Entries)
      BY <1>1, <1>3, <1>4, LayoutTypes DEF Layout!Entries
    <3> QED BY <1>1, <3>1, AppendProperties
  <2>2. t = Counted(rs, q, k)
    BY <1>5 DEF Counted
  <2>3. y = Listing(rs, q)
    <3>1. t.entries = q
      BY <1>4, <2>2 DEF Layout!Layouts, Counted
    <3> QED BY <3>1 DEF Listing
  <2>0. rs \in Layout!Layouts
    BY <1>4
  <2> HIDE DEF q, k, y
  <2>4. /\ t \in Layout!Layouts /\ y \in Layout!Layouts
        /\ t.entries = q /\ y.entries = q
        /\ WithEntries(y, rs) /\ WithField(t, y, 12, k)
        /\ t.variable_bytes = rs.variable_bytes /\ t.freelist_offset = rs.freelist_offset
        /\ t.size = rs.size /\ t.index_offset = rs.index_offset
        /\ t.index_length = rs.index_length /\ t.variables_offset = rs.variables_offset
        /\ y.variable_bytes = rs.variable_bytes
    <3>1. q \in Seq(Layout!Entries) /\ k \in Nat
      BY <2>1
    <3>2. t = Counted(rs, q, k) /\ y = Listing(rs, q)
      BY <2>2, <2>3
    <3>3. t \in Layout!Layouts /\ y \in Layout!Layouts
      BY <2>0, <3>1, <3>2, EntriesReplaced
    <3>6. t.entries = q /\ y.entries = q
      BY <2>0, <3>1, <3>2, EntriesReplaced
    <3>7. WithEntries(y, rs) /\ WithField(t, y, 12, k)
      BY <2>0, <3>1, <3>2, EntriesReplaced
    <3>4. /\ t.variable_bytes = rs.variable_bytes /\ t.freelist_offset = rs.freelist_offset
          /\ t.size = rs.size /\ t.index_offset = rs.index_offset
          /\ t.index_length = rs.index_length /\ t.variables_offset = rs.variables_offset
      BY <2>0, <3>1, <3>2, EntriesReplaced
    <3>5. y.variable_bytes = rs.variable_bytes
      BY <2>0, <3>2 DEF Listing, Layout!Layouts
    <3> QED BY <3>3, <3>4, <3>5, <3>6, <3>7, Zenon
  <2> QED BY <2>4, Zenon DEF q, k
<1> HIDE DEF y
<1>7. Layout!SoundLayout(t)
  BY <1>1, AddStays
<1>8. z \in Word32 /\ len \in Word32 /\ z + len \in Word32
  <2>1. t.size = z + len
    BY <1>4, <1>6
  <2>2. t.size \in Word32 /\ z <= z + len /\ len <= z + len
    BY <1>1, <1>3
  <2> HIDE DEF z, len
  <2> QED BY <1>1, <1>3, <2>1, <2>2, WordLess
<1>9. Roomy(g, u, m, s)
  BY <1>8, GrowFile
<1>10. /\ Encodes(g, u) /\ Carried(g, u, m, s) /\ u.variable_bytes = s.variable_bytes
       /\ p + 8 <= fl /\ Zero(g, p + 8, fl + 20 - (p + 8))
  BY <1>9, Zenon DEF Roomy
<1>11. /\ Encodes(r, rs) /\ Carried(r, rs, g, u) /\ Zero(r, p + 8, fl + 20 - (p + 8))
  <2> DEFINE b == p + 8
  <2>1. Whole(u, z)
    BY <1>2, SectionsWhole
  <2>2. /\ b \in Nat /\ Layout!IndexPoint(u) <= b /\ b <= u.freelist_offset + 20
        /\ z <= b \/ u.freelist_offset + 20 <= z
    <3> DEFINE il == u.index_length
    <3>1. /\ z \in Nat /\ p \in Nat /\ fl \in Nat /\ o \in Nat /\ il \in Nat
          /\ fl + 20 = o + il /\ o + il <= z /\ p + 8 <= fl
      BY <1>3, <1>10, Zenon
    <3>2. Layout!IndexPoint(u) = p /\ u.freelist_offset = fl
      OBVIOUS
    <3> HIDE DEF z, p, fl, o, il
    <3> QED BY <3>1, <3>2
  <2>3. Zero(g, b, u.freelist_offset + 20 - b)
    BY <1>10
  <2>4. Layout!Shift(b, z, len) = b
    <3> DEFINE il == u.index_length
    <3>1. /\ z \in Nat /\ p \in Nat /\ fl \in Nat /\ o \in Nat /\ il \in Nat
          /\ fl + 20 = o + il /\ o + il <= z /\ p + 8 <= fl
      BY <1>3, <1>10, Zenon
    <3> HIDE DEF z, p, fl, o, il, len
    <3> QED BY <3>1 DEF Layout!Shift
  <2>5. u.size + len \in Word32
    BY <1>8
  <2> HIDE DEF b, g, r
  <2>6. /\ Encodes(AddressResize(g, z, len, junk), Layout!Resize(u, z, len))
        /\ Carried(AddressResize(g, z, len, junk), Layout!Resize(u, z, len), g, u)
        /\ Zero(AddressResize(g, z, len, junk), Layout!Shift(b, z, len), u.freelist_offset + 20 - b)
    <3> HIDE DEF z, len
    <3> QED BY <1>1, <1>2, <1>10, <2>1, <2>2, <2>3, <2>5, ResizedCarried DEF z
  <2> QED BY <2>4, <2>6 DEF b, r, rs
<1> DEFINE il == u.index_length  b == p + 8  k == fl + 20 - b
<1>12. /\ z \in Nat /\ o \in Nat /\ il \in Nat /\ p \in Nat /\ fl \in Nat /\ n \in Nat /\ len \in Nat
       /\ p = o + 4 + 8 * n /\ 32 <= o /\ fl + 20 = o + il /\ o + il <= z /\ b <= fl
  BY <1>1, <1>3, <1>10
<1>13. /\ Layout!Shift(o, z, len) = o /\ Layout!Shift(fl, z, len) = fl
  <2> HIDE DEF z, o, il, p, fl, n, len, k
  <2> QED BY <1>12 DEF Layout!Shift
<1>14. /\ rs.size = z + len /\ rs.index_offset = o /\ rs.freelist_offset = fl
       /\ rs.index_length = il /\ Len(rs.entries) = n
  BY <1>2, <1>4, <1>13
<1>15. /\ t.size = z + len /\ t.index_offset = o /\ t.freelist_offset = fl /\ t.index_length = il
       /\ y.index_offset = o /\ t.variable_bytes = s.variable_bytes
  <2>1. y.index_offset = rs.index_offset
    BY <1>6 DEF WithEntries
  <2> QED BY <1>4, <1>6, <1>10, <1>14, <2>1
<1>16. /\ Layout!IndexPoint(rs) = p /\ Slot(rs, n + 1) = p /\ 32 <= p
       /\ b \in Nat /\ k \in Nat /\ b + k = o + il /\ b + k <= z + len /\ b <= z /\ p + 8 <= z + len
       /\ z <= z + len /\ o + 4 <= p /\ p <= z /\ o + 4 <= z /\ 16 <= o
       /\ o + 4 + 8 * (n + 1) = b
  <2>1. Layout!IndexPoint(rs) = o + 4 + 8 * n
    BY <1>4, <1>14, PointIs
  <2>2. Slot(rs, n + 1) = o + 4 + 8 * ((n + 1) - 1)
    BY <1>14 DEF Slot
  <2> HIDE DEF z, o, il, p, fl, n, len
  <2> QED BY <1>12, <2>1, <2>2
<1>17. /\ Len(t.entries) = n + 1 /\ Address(t, n + 1) = z /\ Length(t, n + 1) = len
       /\ \A i \in 1 .. n : Address(t, i) = Address(rs, i) /\ Length(t, i) = Length(rs, i)
  <2>1. z \in Nat /\ len \in Nat /\ t \in Layout!Layouts /\ rs \in Layout!Layouts
        /\ t.entries = Append(rs.entries, Block(z, len)) /\ Len(rs.entries) = n
    BY <1>4, <1>6, <1>12, <1>14 DEF Block
  <2> HIDE DEF z, len, n
  <2>2. Len(t.entries) = Len(rs.entries) + 1
    BY <2>1, EntryAppended
  <2>3. Address(t, Len(rs.entries) + 1) = z
    BY <2>1, EntryAppended
  <2>4. Length(t, Len(rs.entries) + 1) = len
    BY <2>1, EntryAppended
  <2>5. \A i \in 1 .. Len(rs.entries) : Address(t, i) = Address(rs, i) /\ Length(t, i) = Length(rs, i)
    BY <2>1, EntryAppended
  <2> QED BY <2>1, <2>2, <2>3, <2>4, <2>5
<1>18. /\ Len(y.entries) = n + 1 /\ Address(y, n + 1) = z /\ Length(y, n + 1) = len
       /\ \A i \in 1 .. n : Address(y, i) = Address(rs, i) /\ Length(y, i) = Length(rs, i)
  <2>1. y.entries = t.entries
    BY <1>6
  <2> HIDE DEF z, len, n
  <2> QED BY <1>17, <2>1 DEF Address, Length
<1>19. Layout!IndexPoint(t) = b /\ Layout!IndexPoint(y) = b
  <2>1. /\ Layout!IndexPoint(t) = o + 4 + 8 * (n + 1)
        /\ Layout!IndexPoint(y) = o + 4 + 8 * (n + 1)
    BY <1>6, <1>15, <1>17, <1>18, PointIs
  <2> QED BY <1>16, <2>1
<1>20. r \in Seq(Byte) /\ Len(r) = z + len /\ data \in Seq(Byte)
  <2>1. Len(r) = rs.size /\ r \in Seq(Byte)
    BY <1>11, EncodesIndex
  <2> QED BY <1>14, <2>1
<1>21. /\ Encodes(r, rs) /\ Carried(r, rs, g, u) /\ Zero(r, b, k)
  BY <1>11
<1> HIDE DEF r
<1>22. /\ OnlyAt(e, r, p, 8) /\ Get(e, p) = z /\ Get(e, p + 4) = len
  <2>1. p + 8 <= Len(r) /\ p \in Nat /\ z \in Word32 /\ len \in Word32
    BY <1>8, <1>12, <1>16, <1>20
  <2> HIDE DEF p, z, len
  <2> QED BY <1>20, <2>1, WordsOnlyAt
<1> HIDE DEF e
<1>23. Encodes(e, rs) /\ Zero(e, b, k) /\ e \in Seq(Byte) /\ Len(e) = z + len
  <2> HIDE DEF z, o, il, p, fl, n, len, k, b
  <2>1. p \in Nat /\ 8 \in Nat /\ 32 <= p /\ Layout!IndexPoint(rs) <= p
    BY <1>12, <1>16
  <2>2. Encodes(e, rs)
    BY <1>21, <1>22, <2>1, OutsideEncodes
  <2>3. b \in Nat /\ k \in Nat /\ b + k <= Len(r) /\ Beside(b, k, p, 8)
    BY <1>12, <1>16, <1>20 DEF Beside, b
  <2>4. Zero(e, b, k)
    BY <1>21, <1>22, <2>1, <2>3, ZeroBeside, Zenon
  <2>5. Len(e) = rs.size /\ e \in Seq(Byte)
    BY <2>2, EncodesIndex
  <2> QED BY <1>14, <2>2, <2>4, <2>5
<1>24. OnlyAt(d, e, z, len) /\ Same(d, z, data, 0, len)
  <2>1. z + Len(data) <= Len(e) /\ z \in Nat
    BY <1>12, <1>23
  <2> HIDE DEF z
  <2> QED BY <1>20, <1>23, <2>1, PutOnlyAt DEF len
<1> HIDE DEF d
<1>25. /\ Encodes(d, rs) /\ Zero(d, b, k) /\ d \in Seq(Byte) /\ Len(d) = z + len
       /\ Get(d, p) = z /\ Get(d, p + 4) = len
  <2> HIDE DEF z, o, il, p, fl, n, len, k, b
  <2>1. z \in Nat /\ len \in Nat /\ 32 <= z /\ Layout!IndexPoint(rs) <= z
    BY <1>12, <1>16
  <2>2. Encodes(d, rs)
    BY <1>23, <1>24, <2>1, OutsideEncodes
  <2>3. b \in Nat /\ k \in Nat /\ b + k <= Len(e) /\ Beside(b, k, z, len)
    BY <1>12, <1>16, <1>23 DEF Beside
  <2>4. Zero(d, b, k)
    BY <1>23, <1>24, <2>1, <2>3, ZeroBeside, Zenon
  <2>5. Len(d) = rs.size /\ d \in Seq(Byte)
    BY <2>2, EncodesIndex
  <2>6. Get(d, p) = Get(e, p) /\ Get(d, p + 4) = Get(e, p + 4)
    <3>1. /\ p \in Nat /\ p + 4 \in Nat /\ 4 \in Nat
          /\ p + 4 <= Len(e) /\ (p + 4) + 4 <= Len(e)
          /\ Beside(p, 4, z, len) /\ Beside(p + 4, 4, z, len)
      BY <1>12, <1>16, <1>23 DEF Beside, b
    <3>2. Same(d, p, e, p, 4) /\ Same(d, p + 4, e, p + 4, 4)
      BY <1>24, <3>1, Zenon DEF OnlyAt
    <3> QED BY <3>1, <3>2, GetCarried, Zenon
  <2> QED BY <1>14, <1>22, <2>2, <2>4, <2>5, <2>6, Zenon
<1>26. /\ OnlyAt(c, d, o, 4) /\ Get(c, o) = n + 1
  <2>1. n + 1 \in Word32
    <3>1. Len(t.entries) \in Word32
      BY <1>7, SoundWords
    <3> QED BY <1>17, <3>1
  <2> DEFINE w == n + 1
  <2> HIDE DEF z, o, il, p, fl, n, len, k, b, w
  <2>2. o + 4 <= Len(d) /\ o \in Nat
    BY <1>12, <1>16, <1>25
  <2> QED BY <1>25, <2>1, <2>2, WordOnlyAt DEF w
<1> HIDE DEF c
<1>27. /\ Encodes(c, y) /\ Zero(c, b, k) /\ c \in Seq(Byte) /\ Len(c) = z + len
  <2> HIDE DEF z, o, il, p, fl, n, len, k, b
  <2>1. Encodes(c, y)
    <3>1. OnlyAt(c, d, rs.index_offset, 4) /\ Get(c, rs.index_offset) = Len(y.entries)
      BY <1>14, <1>18, <1>26
    <3>2. Len(rs.entries) <= Len(y.entries) /\ Layout!IndexPoint(y) <= rs.size
      BY <1>12, <1>14, <1>16, <1>18, <1>19
    <3>3. \A i \in 1 .. Len(rs.entries) : Address(y, i) = Address(rs, i) /\ Length(y, i) = Length(rs, i)
      BY <1>14, <1>18
    <3>4. \A i \in Len(rs.entries) + 1 .. Len(y.entries) :
             Get(d, Slot(rs, i)) = Address(y, i) /\ Get(d, Slot(rs, i) + 4) = Length(y, i)
      <4>1. ASSUME NEW i \in Len(rs.entries) + 1 .. Len(y.entries)
            PROVE  i = n + 1
        BY <1>12, <1>14, <1>18
      <4> QED BY <1>16, <1>18, <1>25, <4>1
    <3> QED BY <1>6, <1>25, <3>1, <3>2, <3>3, <3>4, CountEncodes
  <2>2. b \in Nat /\ k \in Nat /\ b + k <= Len(d) /\ Beside(b, k, o, 4) /\ o \in Nat /\ 4 \in Nat
    BY <1>12, <1>16, <1>25 DEF Beside, b
  <2>3. Zero(c, b, k)
    BY <1>25, <1>26, <2>2, ZeroBeside, Zenon
  <2> QED BY <1>25, <1>26, <2>1, <2>3 DEF OnlyAt
<1>28. x = Put(c, 12, Word(n + 1))
  <2>1. Len(g) = z /\ IndexOffset(g) = o /\ Count(g) = n
    BY <1>2, <1>10 DEF Encodes
  <2>2. EntryAt(r, n) = p
    <3>1. IndexOffset(r) = rs.index_offset
      BY <1>21 DEF Encodes
    <3>2. EntryAt(r, Len(rs.entries)) = Layout!IndexPoint(rs)
      BY <1>4, <3>1, EntrySlots
    <3> HIDE DEF n, p
    <3> QED BY <1>14, <1>16, <3>2
  <2>3. IndexOffset(d) = o
    <3>1. IndexOffset(d) = rs.index_offset
      BY <1>25 DEF Encodes
    <3> QED BY <1>14, <3>1
  <2>4. r = AddressResize(g, Len(g), len, junk)
    BY <2>1 DEF r
  <2>5. e = Put(r, EntryAt(r, n), Word(Len(g)) \o Word(len))
    BY <2>1, <2>2 DEF e
  <2>6. d = Put(e, Len(g), data)
    BY <2>1 DEF d
  <2>7. c = Put(d, IndexOffset(d), Word(n + 1))
    BY <2>3 DEF c
  <2> QED BY <2>4, <2>5, <2>6, <2>7 DEF IndexAdd, BlockCountAt
<1>29. OnlyAt(x, c, 12, 4) /\ Get(x, 12) = n + 1
  <2> DEFINE w == n + 1
  <2>1. w \in Word32
    <3>1. Len(t.entries) \in Word32
      BY <1>7, SoundWords
    <3> QED BY <1>17, <3>1
  <2>2. 12 \in Nat /\ 12 + 4 <= Len(c)
    <3> HIDE DEF z, o, il, p, fl, n, len, k, b
    <3> QED BY <1>12, <1>16, <1>27
  <2>3. x = Put(c, 12, Word(w))
    BY <1>28
  <2> HIDE DEF w
  <2>4. OnlyAt(Put(c, 12, Word(w)), c, 12, 4) /\ Get(Put(c, 12, Word(w)), 12) = w
    BY <1>27, <2>1, <2>2, WordOnlyAt, Zenon
  <2> QED BY <2>3, <2>4 DEF w
<1>30. Encodes(x, t) /\ Zero(x, b, k)
  <2>1. Encodes(x, t)
    <3>1. 12 \in {12, 20, 28} /\ WithField(t, y, 12, Get(x, 12))
      BY <1>6, <1>29
    <3> QED BY <1>6, <1>27, <1>29, <3>1, HeaderEncodes, Zenon
  <2> HIDE DEF z, o, il, p, fl, n, len, k, b
  <2>2. b \in Nat /\ k \in Nat /\ b + k <= Len(c) /\ Beside(b, k, 12, 4) /\ 12 \in Nat /\ 4 \in Nat
    BY <1>12, <1>16, <1>27 DEF Beside, b
  <2>3. Zero(x, b, k)
    BY <1>27, <1>29, <2>2, ZeroBeside, Zenon
  <2> QED BY <2>1, <2>3
<1>31. Same(x, z, data, 0, len)
  <2> HIDE DEF z, o, il, p, fl, n, len, k, b
  <2>1. /\ z \in Nat /\ len \in Nat /\ z + len <= Len(d) /\ z + len <= Len(c)
        /\ Beside(z, len, o, 4) /\ Beside(z, len, 12, 4)
    BY <1>12, <1>16, <1>25, <1>27 DEF Beside
  <2>2. Same(c, z, d, z, len) /\ Same(x, z, c, z, len)
    BY <1>26, <1>29, <2>1, Zenon DEF OnlyAt
  <2> QED BY <1>24, <2>2, SameTwice
<1>32. Carried(r, t, m, s) /\ s \in Layout!Layouts /\ Len(r) = t.size
  <2>1. SamePlaces(t, rs)
    <3>1. /\ t.variables_offset = rs.variables_offset /\ t.variable_bytes = rs.variable_bytes
          /\ rs.variable_bytes \in Nat
          /\ \A i \in 1 .. Len(rs.entries) : Length(rs, i) \in Nat
      BY <1>4, <1>6, LayoutTypes
    <3>2. \A i \in 1 .. Len(rs.entries) : Address(t, i) = Address(rs, i) /\ Length(t, i) = Length(rs, i)
      BY <1>14, <1>17
    <3>3. Len(rs.entries) <= Len(t.entries)
      <4> HIDE DEF n
      <4> QED BY <1>12, <1>14, <1>17
    <3> QED BY <3>1, <3>2, <3>3 DEF SamePlaces, Held
  <2>2. Carried(r, rs, m, s)
    <3> HIDE DEF u, g
    <3> QED BY <1>1, <1>2, <1>4, <1>10, <1>21, CarriedTwice
  <2>3. Carried(r, t, m, s)
    BY <1>1, <1>4, <1>6, <2>1, <2>2, CarriedThere
  <2> QED BY <1>1, <1>15, <1>20, <2>3
<1>33. Carried(x, t, m, s)
  <2> HIDE DEF z, o, il, p, fl, n, len, k, b
  <2>1. Carried(e, t, m, s) /\ Len(e) = t.size
    <3>1. InIndex(t, p, 8) /\ p \in Nat /\ 8 \in Nat
      <4>1. p \in Nat /\ o <= p /\ p + 8 <= o + il
        BY <1>12 DEF b
      <4>2. t.index_offset = o /\ t.index_length = il
        BY <1>15, Zenon
      <4> QED BY <4>1, <4>2 DEF InIndex
    <3> QED BY <1>7, <1>22, <1>32, <3>1, CarriedIndex, Zenon
  <2>2. Carried(d, t, m, s) /\ Len(d) = t.size
    <3> DEFINE v == t.variables_offset  tl == t.trailer_len  vb == s.variable_bytes
    <3>1. Len(s.entries) = n /\ n + 1 \in 1 .. Len(t.entries) /\ n \in Nat
      BY <1>1, <1>12, <1>17
    <3>2. Held(t, n + 1)
      BY <1>12, <1>16, <1>17 DEF Held
    <3>3. /\ v \in Nat /\ tl \in Nat /\ vb \in Nat /\ 4 + vb <= tl
      BY <1>7, <1>15, SoundSections
    <3>4. /\ \A i \in 1 .. n : Held(t, i) => Beside(Address(t, i), Length(t, i), z, len)
          /\ Beside(z, len, v, tl)
      <4>1. /\ \A i \in 1 .. Len(t.entries) :
                 i # n + 1 /\ Held(t, i) => Beside(Address(t, i), Length(t, i), z, len)
            /\ Beside(z, len, v, tl)
        BY <1>7, <1>17, <3>1, <3>2, SoundBlocks
      <4> QED BY <1>17, <3>1, <4>1
    <3>5. Beside(v, 4 + vb, z, len)
      <4> HIDE DEF v, tl, vb
      <4> QED BY <1>12, <3>3, <3>4 DEF Beside
    <3>6. z \in Nat /\ len \in Nat
      BY <1>12
    <3>7. \A i \in 1 .. Len(s.entries) : Held(t, i) => Beside(Address(t, i), Length(t, i), z, len)
      BY <3>1, <3>4
    <3>8. OnlyAt(d, e, z, len)
      BY <1>24
    <3>9. Carried(d, t, m, s)
      BY <1>7, <1>32, <2>1, <3>5, <3>6, <3>7, <3>8, CarriedPut
    <3> QED BY <2>1, <3>8, <3>9 DEF OnlyAt
  <2>3. Carried(c, t, m, s) /\ Len(c) = t.size
    <3>1. InIndex(t, o, 4) /\ o \in Nat /\ 4 \in Nat
      <4>1. o \in Nat /\ o <= o /\ o + 4 <= o + il
        BY <1>12 DEF b
      <4>2. t.index_offset = o /\ t.index_length = il
        BY <1>15, Zenon
      <4> QED BY <4>1, <4>2 DEF InIndex
    <3> QED BY <1>7, <1>26, <1>32, <2>2, <3>1, CarriedIndex, Zenon
  <2>4. InIndex(t, 12, 4) /\ 12 \in Nat /\ 4 \in Nat
    BY DEF InIndex
  <2> QED BY <1>7, <1>29, <1>32, <2>3, <2>4, CarriedIndex, Zenon
<1>34. Spare(x, t)
  BY <1>15, <1>19, <1>30 DEF Spare, k
<1>35. Succeeds(x, t, m, s)
  BY <1>7, <1>15, <1>30, <1>33, <1>34, FileIs
<1>36. \A i \in 1 .. n : Length(t, i) = Length(s, i)
  <2>1. \A i \in 1 .. n : Length(rs, i) = Length(u, i)
    <3>1. u \in Layout!Layouts /\ z \in Nat /\ len \in Nat /\ Len(u.entries) = n
      BY <1>2, <1>12
    <3> HIDE DEF z, len, u, n
    <3> QED BY <3>1, ResizedFields DEF rs
  <2>2. \A i \in 1 .. n : Length(u, i) = Length(s, i)
    BY <1>1, GrowLengths
  <2> QED BY <1>17, <2>1, <2>2
<1>37. Address(t, n + 1) # 0
  <2> HIDE DEF z, o, il, p, fl, n, len, k, b
  <2> QED BY <1>12, <1>16, <1>17
<1> QED BY <1>1, <1>17, <1>31, <1>35, <1>36, <1>37

-----------------------------------------------------------------------------
(***************************************************************************)
(* bom_free_indices_add.                                                   *)
(***************************************************************************)

(* Zeros are loaded as 0. *)
LEMMA ZeroGet ==
  ASSUME NEW m, NEW a \in Int, Zero(m, a, 4)
  PROVE  Get(m, a) = 0
<1>1. 0 \in 0 .. 4 - 1 /\ 1 \in 0 .. 4 - 1 /\ 2 \in 0 .. 4 - 1 /\ 3 \in 0 .. 4 - 1
  OBVIOUS
<1>2. m[a + 0 + 1] = 0 /\ m[a + 1 + 1] = 0 /\ m[a + 2 + 1] = 0 /\ m[a + 3 + 1] = 0
  BY <1>1 DEF Zero
<1>3. a + 0 + 1 = a + 1 /\ a + 1 + 1 = a + 2 /\ a + 2 + 1 = a + 3 /\ a + 3 + 1 = a + 4
  OBVIOUS
<1>4. m[a + 1] = 0 /\ m[a + 2] = 0 /\ m[a + 3] = 0 /\ m[a + 4] = 0
  BY <1>2, <1>3
<1> QED BY <1>4 DEF Get

(* n slots more, vacant. *)
Vacants(n) == [i \in 1..n |-> Layout!Vacant]

(* The two numbers that are not in the file. *)
SameHistory(t, u) == t.variable_bytes = u.variable_bytes /\ t.freelist_offset = u.freelist_offset

(* A layout with n vacant entries more. *)
LEMMA VacantsAppended ==
  ASSUME NEW u \in Layout!Layouts, NEW n \in Nat, NEW t, t = Listing(u, u.entries \o Vacants(n))
  PROVE  /\ t \in Layout!Layouts /\ WithEntries(t, u) /\ Len(t.entries) = Len(u.entries) + n
         /\ SameHistory(t, u)
         /\ \A i \in 1 .. Len(u.entries) : Address(t, i) = Address(u, i) /\ Length(t, i) = Length(u, i)
         /\ \A i \in Len(u.entries) + 1 .. Len(u.entries) + n : Address(t, i) = 0 /\ Length(t, i) = 0
<1> DEFINE q == u.entries  v == Vacants(n)  j == q \o v
<1>1. q \in Seq(Layout!Entries) /\ Len(q) \in Nat
  BY LayoutTypes
<1>2. v \in Seq(Layout!Entries) /\ Len(v) = n /\ \A i \in 1 .. n : v[i] = Layout!Vacant
  BY DEF Vacants, Layout!Vacant, Layout!Entries
<1>3. t = Listing(u, j)
  OBVIOUS
<1> HIDE DEF v, q
<1>4. /\ j \in Seq(Layout!Entries) /\ Len(j) = Len(q) + n
      /\ \A i \in 1 .. Len(q) : j[i] = q[i]
      /\ \A i \in Len(q) + 1 .. Len(q) + n : j[i] = Layout!Vacant
  BY <1>1, <1>2
<1> HIDE DEF j
<1>5. /\ t \in Layout!Layouts /\ t.entries = j /\ t.size = u.size /\ t.index_offset = u.index_offset
      /\ t.index_length = u.index_length /\ t.variables_offset = u.variables_offset
      /\ t.trailer_len = u.trailer_len /\ t.block_count = u.block_count
      /\ t.variable_bytes = u.variable_bytes /\ t.freelist_offset = u.freelist_offset
  BY <1>3, <1>4 DEF Layout!Layouts, Listing
<1>6. WithEntries(t, u)
  BY <1>5 DEF WithEntries
<1>10. SameHistory(t, u)
  BY <1>5 DEF SameHistory
<1>7. Len(t.entries) = Len(u.entries) + n
  BY <1>4, <1>5 DEF q
<1>8. \A i \in 1 .. Len(u.entries) : Address(t, i) = Address(u, i) /\ Length(t, i) = Length(u, i)
  BY <1>4, <1>5 DEF Address, Length, q
<1>9. \A i \in Len(u.entries) + 1 .. Len(u.entries) + n : Address(t, i) = 0 /\ Length(t, i) = 0
  <2>1. Layout!Vacant.address = 0 /\ Layout!Vacant.length = 0
    BY DEF Layout!Vacant
  <2> QED BY <1>4, <1>5, <2>1 DEF Address, Length, q
<1> QED BY <1>5, <1>6, <1>7, <1>8, <1>9, <1>10

(* Room for n entries more, as far as bom_free_indices_add makes it. *)
RoomyFor(g, u, m, s, n) ==
  /\ Encodes(g, u) /\ Layout!SoundLayout(u) /\ Carried(g, u, m, s)
  /\ u.variable_bytes = s.variable_bytes /\ Len(u.entries) = Len(s.entries)
  /\ Layout!IndexPoint(u) + 8 * n <= u.freelist_offset
  /\ Zero(g, Layout!IndexPoint(u) + 8 * n,
          u.freelist_offset + 20 - (Layout!IndexPoint(u) + 8 * n))

GrownForFree(m, n, junk) ==
  LET r == AddressResize(m, EntryAt(m, Count(m)), Layout!EntrySize, junk)
  IN IF IndexFull(m, n)
     THEN Put(r, IndexLengthAt, Word(IndexLength(r) + n * Layout!EntrySize))
     ELSE m

(* bom_free_indices_add, up to the growth of a full index. *)
LEMMA FreeRoom ==
  ASSUME NEW m, NEW s, File(m, s), NEW n \in Nat, NEW junk \in Byte,
         n = 1 \/ ~Layout!IndexFull(s, n),
         NEW u, u = Layout!GrowForFree(s, n), u.size \in Word32
  PROVE  RoomyFor(GrownForFree(m, n, junk), u, m, s, n)
<1> DEFINE g == GrownForFree(m, n, junk)
           p == Layout!IndexPoint(s)
           fl == s.freelist_offset
<1>1. /\ Encodes(m, s) /\ Layout!SoundLayout(s) /\ s \in Layout!Layouts
      /\ p \in Nat /\ fl \in Nat /\ p <= fl /\ Zero(m, p, fl + 20 - p)
  BY SoundSections, PointIs DEF File, Encodes, Spare
<1>2. IndexFull(m, n) <=> Layout!IndexFull(s, n)
  BY <1>1, FullIsFull
<1>4. CASE ~Layout!IndexFull(s, n)
  <2>1. u = s /\ g = m
    BY <1>2, <1>4 DEF Layout!GrowForFree, GrownForFree
  <2>2. Carried(m, s, m, s)
    BY <1>1, KeptSelf DEF Carried, Same
  <2>3. p + 8 * n <= fl
    BY <1>1, <1>4, RoomStays
  <2>4. Zero(m, p + 8 * n, fl + 20 - (p + 8 * n))
    <3> DEFINE a == p + 8 * n  j == fl + 20 - a  k == fl + 20 - p
    <3>1. p \in Nat /\ fl \in Nat /\ Zero(m, p, k)
      BY <1>1
    <3> HIDE DEF p, fl
    <3>2. a \in Nat /\ k \in Int /\ j \in Int /\ p <= a /\ a + j <= p + k
      BY <3>1
    <3> HIDE DEF a, j, k
    <3>3. Zero(m, a, j)
      BY <3>1, <3>2, ZeroPart
    <3> QED BY <3>3 DEF a, j
  <2> QED BY <1>1, <2>1, <2>2, <2>3, <2>4 DEF RoomyFor
<1>5. CASE Layout!IndexFull(s, n)
  <2> DEFINE r == AddressResize(m, EntryAt(m, Count(m)), 8 * n, junk)
             y == Put(r, IndexLengthAt, Word(IndexLength(m) + 8 * n))
  <2>1. n = 1 /\ Layout!EntrySize * n = Layout!EntrySize /\ Layout!EntrySize = 8 /\ 8 * n = 8
        /\ n * Layout!EntrySize = 8 * n
    BY <1>5 DEF Layout!EntrySize
  <2>2. u = Layout!IndexReserve(s, n)
    <3> HIDE <1>5
    <3>1. u = [Layout!Resize(s, p, Layout!EntrySize)
                 EXCEPT !.index_length = s.index_length + Layout!EntrySize * n]
      BY <1>5, Zenon DEF Layout!GrowForFree
    <3>2. Layout!IndexReserve(s, n) = [Layout!Resize(s, p, Layout!EntrySize * n)
                 EXCEPT !.index_length = s.index_length + Layout!EntrySize * n]
      BY Zenon DEF Layout!IndexReserve, Layout!ReservePoint
    <3> QED BY <2>1, <3>1, <3>2, Zenon
  <2>3. r = AddressResize(m, EntryAt(m, Count(m)), 8 * n, junk)
    OBVIOUS
  <2>4. g = Put(AddressResize(m, EntryAt(m, Count(m)), 8, junk), IndexLengthAt,
                Word(IndexLength(AddressResize(m, EntryAt(m, Count(m)), 8, junk)) + n * 8))
    BY <1>2, <1>5 DEF GrownForFree, Layout!EntrySize
  <2> HIDE DEF r, g
  <2>5. /\ Encodes(y, u) /\ Carried(y, u, m, s)
        /\ Zero(y, Layout!IndexPoint(s) + 8 * n, s.freelist_offset + 20 - Layout!IndexPoint(s))
        /\ Layout!SoundLayout(u) /\ u.variable_bytes = s.variable_bytes
        /\ Layout!IndexPoint(u) = Layout!IndexPoint(s) /\ Len(u.entries) = Len(s.entries)
        /\ u.index_offset = s.index_offset
        /\ u.index_length = s.index_length + 8 * n
        /\ u.freelist_offset = s.freelist_offset + 8 * n
        /\ EntryAt(m, Count(m)) = Layout!IndexPoint(s) /\ IndexLength(r) = IndexLength(m)
    BY <2>2, <2>3, Opened
  <2>6. g = y
    <3>1. g = Put(r, IndexLengthAt, Word(IndexLength(r) + 8 * n))
      BY <2>1, <2>4 DEF r
    <3> QED BY <2>5, <3>1
  <2> HIDE DEF y
  <2>7. /\ Layout!IndexPoint(u) + 8 * n <= u.freelist_offset
        /\ Zero(g, Layout!IndexPoint(u) + 8 * n,
                u.freelist_offset + 20 - (Layout!IndexPoint(u) + 8 * n))
    <3> DEFINE q == Layout!IndexPoint(u)  fu == u.freelist_offset
    <3>1. q = p /\ fu = fl + 8 * n /\ p \in Nat /\ fl \in Nat /\ p <= fl
          /\ Zero(g, p + 8 * n, fl + 20 - p)
      BY <1>1, <2>5, <2>6
    <3> HIDE DEF q, fu, p, fl
    <3>2. q + 8 * n <= fu /\ q + 8 * n = p + 8 * n /\ fu + 20 - (q + 8 * n) = fl + 20 - p
      BY <3>1
    <3> QED BY <3>1, <3>2 DEF q, fu
  <2> QED BY <2>5, <2>6, <2>7 DEF RoomyFor, g
<1> QED BY <1>4, <1>5

(* The file keeps within what 32 bits address. *)
Fit(t) == t.size \in Word32

(* bom_free_indices_add. *)
LEMMA FreeFile ==
  ASSUME NEW m, NEW s, File(m, s), NEW n \in Nat, NEW junk \in Byte,
         n = 1 \/ ~Layout!IndexFull(s, n),
         NEW t, t = Layout!FreeIndicesAdd(s, n), Fit(t),
         NEW x, x = FreeIndicesAdd(m, n, junk)
  PROVE  /\ Succeeds(x, t, m, s) /\ Len(t.entries) = Len(s.entries) + n
         /\ \A i \in Len(s.entries) + 1 .. Len(s.entries) + n : Address(t, i) = 0 /\ Length(t, i) = 0
         /\ \A i \in 1 .. Len(s.entries) : Length(t, i) = Length(s, i)
<1> DEFINE u == Layout!GrowForFree(s, n)
           g == GrownForFree(m, n, junk)
           count == Count(m)
           p == Layout!IndexPoint(u)
           d == 8 * n
           o == u.index_offset
           il == u.index_length
           z == u.size
           fl == u.freelist_offset
           b == p + d
           k == fl + 20 - b
           e == Put(g, p, Zeros(d))
           c == Put(e, o, Word(count + n))
<1>0. count = Len(s.entries)
  BY DEF File, Encodes
<1>1. s \in Layout!Layouts /\ count \in Nat /\ Layout!SoundLayout(s) /\ d \in Nat
  BY <1>0, SoundSections, LayoutTypes DEF File
<1>2. t = Listing(u, u.entries \o Vacants(n))
  BY DEF Layout!FreeIndicesAdd, Listing, Vacants
<1>3. u \in Layout!Layouts
  <2> DEFINE q == Layout!IndexPoint(s)  w == s.index_length + Layout!EntrySize * n
             rs == Layout!Resize(s, q, Layout!EntrySize)
  <2>1. q \in Nat /\ w \in Nat /\ Layout!EntrySize \in Nat
    BY <1>1, SoundSections DEF Layout!EntrySize
  <2>2. rs \in Layout!Layouts
    <3> HIDE DEF q
    <3> QED BY <1>1, <2>1, ResizedFields
  <2>3. u = s \/ u = [rs EXCEPT !.index_length = w]
    BY Zenon DEF Layout!GrowForFree
  <2> HIDE DEF rs, w
  <2>4. [rs EXCEPT !.index_length = w] \in Layout!Layouts
    BY <2>1, <2>2, WithLength
  <2> QED BY <1>1, <2>3, <2>4
<1> HIDE DEF u
<1>4. /\ t \in Layout!Layouts /\ WithEntries(t, u) /\ Len(t.entries) = Len(u.entries) + n
      /\ t.variable_bytes = u.variable_bytes /\ t.freelist_offset = u.freelist_offset
      /\ \A i \in 1 .. Len(u.entries) : Address(t, i) = Address(u, i) /\ Length(t, i) = Length(u, i)
      /\ \A i \in Len(u.entries) + 1 .. Len(u.entries) + n : Address(t, i) = 0 /\ Length(t, i) = 0
  <2>1. t \in Layout!Layouts /\ WithEntries(t, u)
    BY <1>2, <1>3, VacantsAppended
  <2>4. Len(t.entries) = Len(u.entries) + n
    BY <1>2, <1>3, VacantsAppended
  <2>5. SameHistory(t, u)
    BY <1>2, <1>3, VacantsAppended
  <2>2. \A i \in 1 .. Len(u.entries) : Address(t, i) = Address(u, i) /\ Length(t, i) = Length(u, i)
    BY <1>2, <1>3, VacantsAppended
  <2>3. \A i \in Len(u.entries) + 1 .. Len(u.entries) + n : Address(t, i) = 0 /\ Length(t, i) = 0
    BY <1>2, <1>3, VacantsAppended
  <2> QED BY <2>1, <2>2, <2>3, <2>4, <2>5 DEF SameHistory
<1>5. t.size = z /\ t.index_offset = o /\ t.index_length = il
  BY <1>4 DEF WithEntries
<1>6. RoomyFor(g, u, m, s, n)
  BY <1>5, FreeRoom DEF u, Fit
<1> HIDE DEF g
<1>7. /\ Encodes(g, u) /\ Layout!SoundLayout(u) /\ Carried(g, u, m, s)
      /\ u.variable_bytes = s.variable_bytes /\ Len(u.entries) = count
      /\ b <= fl /\ Zero(g, b, k)
  BY <1>0, <1>6, Zenon DEF RoomyFor
<1>8. Layout!SoundLayout(t)
  BY <1>1, FreeStays
<1>9. /\ z \in Nat /\ o \in Nat /\ il \in Nat /\ p \in Nat /\ fl \in Nat
      /\ p = o + 4 + 8 * count /\ 32 <= o /\ fl + 20 = o + il /\ o + il <= z
      /\ Len(g) = z /\ g \in Seq(Byte)
  BY <1>7, SoundSections, PointIs, EncodesIndex
<1>10. /\ b \in Nat /\ k \in Nat /\ b + k = o + il /\ 32 <= p /\ o + 4 <= p /\ b <= z /\ o + 4 <= z
       /\ o <= p /\ b <= o + il /\ 4 <= il /\ d \in Nat /\ n \in Nat
  <2>1. d = 8 * n
    OBVIOUS
  <2> HIDE DEF z, o, il, p, fl, count, d
  <2>2. /\ z \in Nat /\ o \in Nat /\ il \in Nat /\ p \in Nat /\ fl \in Nat /\ count \in Nat /\ d \in Nat
        /\ p = o + 4 + 8 * count /\ 32 <= o /\ fl + 20 = o + il /\ o + il <= z /\ p + d <= fl
    BY <1>1, <1>7, <1>9
  <2>3. /\ b \in Nat /\ k \in Nat /\ b + k = o + il /\ 32 <= p /\ o + 4 <= p /\ b <= z
    BY <2>1, <2>2
  <2>4. /\ o + 4 <= z /\ o <= p /\ b <= o + il /\ 4 <= il
    BY <2>1, <2>2
  <2> QED BY <2>2, <2>3, <2>4
<1>11. /\ OnlyAt(e, g, p, d) /\ Zero(e, p, d)
  <2> HIDE DEF z, o, il, p, fl, count, d, b, k
  <2>1. Zeros(d) \in Seq(Byte) /\ Len(Zeros(d)) = d /\ Zero(Zeros(d), 0, d)
    BY <1>1, ZerosAre
  <2>2. p + d <= Len(g)
    BY <1>9, <1>10 DEF b
  <2>3. OnlyAt(e, g, p, Len(Zeros(d))) /\ Same(e, p, Zeros(d), 0, Len(Zeros(d)))
    BY <1>9, <2>1, <2>2, PutOnlyAt
  <2> QED BY <2>1, <2>3, ZeroSame
<1> HIDE DEF e
<1>12. /\ Encodes(e, u) /\ Zero(e, b, k) /\ e \in Seq(Byte) /\ Len(e) = z
  <2> HIDE DEF z, o, il, p, fl, count, d, b, k
  <2>1. p \in Nat /\ d \in Nat /\ 32 <= p /\ Layout!IndexPoint(u) <= p
    BY <1>1, <1>9, <1>10 DEF p
  <2>2. Encodes(e, u)
    BY <1>7, <1>11, <2>1, OutsideEncodes
  <2>3. b \in Nat /\ k \in Nat /\ b + k <= Len(g) /\ Beside(b, k, p, d)
    BY <1>9, <1>10 DEF Beside, b
  <2>4. Zero(e, b, k)
    BY <1>7, <1>11, <2>1, <2>3, ZeroBeside, Zenon
  <2> QED BY <1>9, <1>11, <2>2, <2>4 DEF OnlyAt
<1>13. \A i \in count + 1 .. count + n : Get(e, Slot(u, i)) = 0 /\ Get(e, Slot(u, i) + 4) = 0
  <2> SUFFICES ASSUME NEW i \in count + 1 .. count + n
               PROVE  Get(e, Slot(u, i)) = 0 /\ Get(e, Slot(u, i) + 4) = 0
    OBVIOUS
  <2> DEFINE a == Slot(u, i)
  <2>1. a = o + 4 + 8 * (i - 1) /\ d = 8 * n
    BY DEF Slot
  <2> HIDE DEF z, o, il, p, fl, count, d, b, k, a
  <2>2. /\ p \in Nat /\ d \in Int /\ a \in Nat /\ a + 4 \in Nat /\ 4 \in Int
        /\ p <= a /\ a + 4 <= p + d /\ p <= a + 4 /\ (a + 4) + 4 <= p + d
    BY <1>1, <1>9, <2>1
  <2>3. Zero(e, a, 4) /\ Zero(e, a + 4, 4)
    BY <1>11, <2>2, ZeroPart, Zenon
  <2>4. Get(e, a) = 0 /\ Get(e, a + 4) = 0
    BY <2>2, <2>3, ZeroGet
  <2> QED BY <2>4 DEF a
<1>14. /\ OnlyAt(c, e, o, 4) /\ Get(c, o) = count + n
  <2> DEFINE w == count + n
  <2>1. w \in Word32
    <3>1. Len(t.entries) \in Word32
      BY <1>5, <1>8, SoundWords DEF Fit
    <3> QED BY <1>4, <1>7, <3>1
  <2> HIDE DEF z, o, il, p, fl, count, d, b, k, w
  <2>2. o + 4 <= Len(e) /\ o \in Nat
    BY <1>9, <1>10, <1>12
  <2> QED BY <1>12, <2>1, <2>2, WordOnlyAt DEF w
<1> HIDE DEF c
<1>15. Layout!IndexPoint(t) = b
  <2>1. Layout!IndexPoint(t) = o + 4 + 8 * (count + n)
    BY <1>4, <1>5, <1>7, PointIs
  <2>2. count \in Nat /\ o \in Nat /\ p = o + 4 + 8 * count
    BY <1>1, <1>9
  <2> HIDE DEF p, o, count
  <2> QED BY <2>1, <2>2
<1>16. Encodes(c, t) /\ Zero(c, b, k)
  <2> HIDE DEF z, o, il, p, fl, count, d, b, k
  <2>1. Encodes(c, t)
    <3>1. OnlyAt(c, e, u.index_offset, 4) /\ Get(c, u.index_offset) = Len(t.entries)
      BY <1>4, <1>7, <1>14 DEF o
    <3>2. Len(u.entries) <= Len(t.entries) /\ Layout!IndexPoint(t) <= u.size
      BY <1>1, <1>4, <1>7, <1>10, <1>15 DEF z
    <3>3. \A i \in Len(u.entries) + 1 .. Len(t.entries) :
             Get(e, Slot(u, i)) = Address(t, i) /\ Get(e, Slot(u, i) + 4) = Length(t, i)
      BY <1>4, <1>7, <1>13
    <3> QED BY <1>4, <1>12, <3>1, <3>2, <3>3, CountEncodes
  <2>2. b \in Nat /\ k \in Nat /\ b + k <= Len(e) /\ Beside(b, k, o, 4) /\ o \in Nat /\ 4 \in Nat
    BY <1>1, <1>9, <1>10, <1>12 DEF Beside, b
  <2>3. Zero(c, b, k)
    BY <1>12, <1>14, <2>2, ZeroBeside, Zenon
  <2> QED BY <2>1, <2>3
<1>17. Carried(c, t, m, s)
  <2> HIDE DEF z, o, il, p, fl, count, d, b, k
  <2>1. SamePlaces(t, u)
    <3>1. t.variables_offset = u.variables_offset /\ u.variable_bytes \in Nat
          /\ \A i \in 1 .. Len(u.entries) : Length(u, i) \in Nat
      BY <1>3, <1>4, LayoutTypes DEF WithEntries
    <3>2. Len(u.entries) <= Len(t.entries)
      BY <1>1, <1>4, <1>7
    <3> QED BY <1>4, <3>1, <3>2 DEF SamePlaces, Held
  <2>2. Carried(g, t, m, s)
    BY <1>1, <1>3, <1>4, <1>7, <2>1, CarriedThere
  <2>3. InIndex(t, p, d) /\ InIndex(t, o, 4) /\ p \in Nat /\ d \in Nat /\ o \in Nat /\ 4 \in Nat
    BY <1>1, <1>5, <1>9, <1>10 DEF InIndex, b
  <2>4. Len(g) = t.size
    BY <1>5, <1>9
  <2>5. Carried(e, t, m, s) /\ Len(e) = t.size
    BY <1>1, <1>8, <1>11, <2>2, <2>3, <2>4, CarriedIndex, Zenon
  <2> QED BY <1>1, <1>8, <1>14, <2>3, <2>5, CarriedIndex, Zenon
<1>18. x = c
  <2>1. EntryAt(g, count) = p /\ IndexOffset(g) = o /\ IndexOffset(e) = o
    <3>1. IndexOffset(g) = u.index_offset /\ IndexOffset(e) = u.index_offset
      BY <1>7, <1>12 DEF Encodes
    <3>2. EntryAt(g, Len(u.entries)) = Layout!IndexPoint(u)
      BY <1>3, <3>1, EntrySlots
    <3> QED BY <1>7, <3>1, <3>2
  <2>2. e = Put(g, EntryAt(g, count), Zeros(Layout!EntrySize * n))
    BY <2>1 DEF e, Layout!EntrySize
  <2>3. c = Put(e, IndexOffset(e), Word(count + n))
    BY <2>1 DEF c
  <2> QED BY <2>2, <2>3, Zenon DEF FreeIndicesAdd, GrownForFree, g
<1>19. Spare(c, t)
  BY <1>4, <1>15, <1>16 DEF Spare, k
<1>20. Succeeds(x, t, m, s)
  <2>1. t.variable_bytes = s.variable_bytes
    BY <1>4, <1>7
  <2> QED BY <1>8, <1>16, <1>17, <1>18, <1>19, <2>1, FileIs DEF Fit
<1>21. \A i \in 1 .. Len(s.entries) : Length(u, i) = Length(s, i)
  <2> DEFINE q == Layout!IndexPoint(s)  w == s.index_length + Layout!EntrySize * n
             rs == Layout!Resize(s, q, Layout!EntrySize)
  <2>1. q \in Nat /\ Layout!EntrySize \in Nat
    BY <1>1, SoundSections DEF Layout!EntrySize
  <2>2. rs \in Layout!Layouts /\ \A i \in 1 .. Len(s.entries) : Length(rs, i) = Length(s, i)
    <3> HIDE DEF q
    <3> QED BY <1>1, <2>1, ResizedFields
  <2>3. u = s \/ u = [rs EXCEPT !.index_length = w]
    BY Zenon DEF Layout!GrowForFree, u
  <2> HIDE DEF rs, w
  <2>4. [rs EXCEPT !.index_length = w].entries = rs.entries
    BY <2>2 DEF Layout!Layouts
  <2> QED BY <2>2, <2>3, <2>4 DEF Length
<1> QED BY <1>0, <1>4, <1>7, <1>20, <1>21

-----------------------------------------------------------------------------
(***************************************************************************)
(* bom_index_append, and a store in a block.                               *)
(***************************************************************************)

(* Entry i of a layout is n bytes longer. *)
Lengthened(r, i, n) ==
  [r EXCEPT !.entries = [r.entries EXCEPT ![i] =
     [address |-> r.entries[i].address, length |-> r.entries[i].length + n]]]

(* A layout with a longer block. *)
LEMMA EntryLengthened ==
  ASSUME NEW r \in Layout!Layouts, NEW i \in 1 .. Len(r.entries), NEW n \in Nat,
         NEW t, t = Lengthened(r, i, n)
  PROVE  /\ t \in Layout!Layouts /\ WithEntries(t, r) /\ SameHistory(t, r)
         /\ Len(t.entries) = Len(r.entries)
         /\ \A j \in 1 .. Len(r.entries) : Address(t, j) = Address(r, j)
         /\ \A j \in 1 .. Len(r.entries) : j # i => Length(t, j) = Length(r, j)
         /\ Length(t, i) = Length(r, i) + n
<1> DEFINE q == r.entries
           e == [address |-> q[i].address, length |-> q[i].length + n]
           j == [q EXCEPT ![i] = e]
<1>1. q \in Seq(Layout!Entries) /\ Len(q) \in Nat /\ i \in 1 .. Len(q) /\ q[i] \in Layout!Entries
  BY LayoutTypes
<1>2. e \in Layout!Entries /\ e.address = q[i].address /\ e.length = q[i].length + n
  BY <1>1 DEF Layout!Entries
<1>3. t = Listing(r, j)
  BY DEF Lengthened, Listing
<1> HIDE DEF q, e
<1>4. /\ j \in Seq(Layout!Entries) /\ Len(j) = Len(q) /\ j[i] = e
      /\ \A k \in 1 .. Len(q) : k # i => j[k] = q[k]
  BY <1>1, <1>2
<1> HIDE DEF j
<1>5. /\ t \in Layout!Layouts /\ t.entries = j /\ t.size = r.size /\ t.index_offset = r.index_offset
      /\ t.index_length = r.index_length /\ t.variables_offset = r.variables_offset
      /\ t.trailer_len = r.trailer_len /\ t.block_count = r.block_count
      /\ t.variable_bytes = r.variable_bytes /\ t.freelist_offset = r.freelist_offset
  BY <1>3, <1>4 DEF Layout!Layouts, Listing
<1>6. WithEntries(t, r) /\ SameHistory(t, r)
  BY <1>5 DEF WithEntries, SameHistory
<1>7. Len(t.entries) = Len(r.entries)
  BY <1>4, <1>5 DEF q
<1>8. \A k \in 1 .. Len(r.entries) : k # i => Address(t, k) = Address(r, k) /\ Length(t, k) = Length(r, k)
  BY <1>4, <1>5 DEF Address, Length, q
<1>9. Address(t, i) = Address(r, i) /\ Length(t, i) = Length(r, i) + n
  BY <1>2, <1>4, <1>5 DEF Address, Length, q
<1> QED BY <1>5, <1>6, <1>7, <1>8, <1>9

(* bom_index_append. *)
LEMMA AppendFile ==
  ASSUME NEW m, NEW s, File(m, s), NEW i \in 1 .. Len(s.entries), Length(s, i) > 0,
         NEW n \in Nat, NEW junk \in Byte,
         NEW t, t = Layout!IndexAppend(s, i, n), Fit(t),
         NEW x, x = IndexAppend(m, i - 1, n, junk)
  PROVE  /\ Succeeds(x, t, m, s) /\ Len(t.entries) = Len(s.entries)
         /\ \A j \in 1 .. Len(s.entries) : j # i => Length(t, j) = Length(s, j)
         /\ Length(t, i) = Length(s, i) + n
<1> DEFINE o == s.index_offset
           il == s.index_length
           z == s.size
           fl == s.freelist_offset
           c == Layout!IndexPoint(s)
           p == Address(s, i) + Length(s, i)
           rs == Layout!Resize(s, p, n)
           r == AddressResize(m, p, n, junk)
           k == fl + 20 - c
           q == Slot(rs, i)
           cnt == Len(s.entries)
<1>1. s \in Layout!Layouts /\ Layout!SoundLayout(s) /\ Encodes(m, s)
  BY SoundSections DEF File
<1>2. /\ z \in Nat /\ o \in Nat /\ il \in Nat /\ c \in Nat /\ fl \in Nat /\ p \in Nat
      /\ 32 <= o /\ fl + 20 = o + il /\ o + il <= z /\ c <= fl /\ o <= c /\ p <= z
      /\ p <= o \/ o + il <= p
  <2>1. Address(s, i) \in Nat /\ Length(s, i) \in Nat
    BY <1>1, LayoutTypes
  <2>2. p \in Nat
    BY <2>1
  <2>3. p <= z
    BY <1>1, SoundBlocks
  <2>4. p <= o \/ o + il <= p
    BY <1>1, BlockEndWhole
  <2>5. /\ z \in Nat /\ o \in Nat /\ il \in Nat /\ c \in Nat /\ fl \in Nat
        /\ 32 <= o /\ fl + 20 = o + il /\ o + il <= z /\ c <= fl /\ o + 4 <= c
    BY <1>1, SoundSections
  <2> HIDE DEF p, z, o, il, c, fl
  <2> QED BY <2>2, <2>3, <2>4, <2>5
<1>3. /\ rs \in Layout!Layouts /\ Len(rs.entries) = cnt
  <2> HIDE DEF p
  <2> QED BY <1>1, <1>2, ResizedFields
<1>4. /\ rs.size = z + n /\ rs.index_offset = Layout!Shift(o, p, n)
      /\ rs.index_length = il
  <2> HIDE DEF p
  <2> QED BY <1>1, <1>2, ResizedFields
<1>5. rs.freelist_offset = Layout!Shift(fl, p, n) /\ rs.variable_bytes = s.variable_bytes
  <2> HIDE DEF p
  <2> QED BY <1>1, <1>2, ResizedFields
<1>6. \A j \in 1 .. cnt : Length(rs, j) = Length(s, j)
  <2> HIDE DEF p
  <2> QED BY <1>1, <1>2, ResizedFields
<1>7. t = Lengthened(rs, i, n)
  <2>1. p = Layout!BlockEnd(s.entries[i])
    BY DEF Layout!BlockEnd, Address, Length
  <2> QED BY <2>1, Zenon DEF Layout!IndexAppend, Lengthened
<1>8. Layout!SoundLayout(t)
  BY <1>1, AppendStays
<1>9. x = Put(r, EntryAt(r, i - 1) + 4, Word(EntryLength(r, i - 1) + n))
  <2>1. AppendPoint(m, i - 1) = p
    BY <1>1 DEF AppendPoint, Encodes
  <2> QED BY <2>1 DEF IndexAppend
<1> HIDE DEF rs
<1>10. /\ t \in Layout!Layouts /\ WithEntries(t, rs) /\ SameHistory(t, rs)
       /\ Len(t.entries) = cnt
  BY <1>3, <1>7, EntryLengthened
<1>11. \A j \in 1 .. cnt : Address(t, j) = Address(rs, j)
  BY <1>3, <1>7, EntryLengthened
<1>12. \A j \in 1 .. cnt : j # i => Length(t, j) = Length(rs, j)
  BY <1>3, <1>7, EntryLengthened
<1>13. Length(t, i) = Length(rs, i) + n
  BY <1>3, <1>7, EntryLengthened
<1>14. t.size = rs.size /\ t.index_offset = rs.index_offset /\ t.index_length = il
  BY <1>4, <1>10 DEF WithEntries
<1>15. t.freelist_offset = rs.freelist_offset /\ t.variable_bytes = s.variable_bytes
  BY <1>5, <1>10 DEF SameHistory
<1>16. Encodes(r, rs) /\ Carried(r, rs, m, s) /\ Zero(r, Layout!Shift(c, p, n), k)
  <2>1. Whole(s, p)
    BY <1>1, BlockEndWhole
  <2>2. z + n \in Word32
    BY <1>4, <1>14 DEF Fit
  <2>3. c \in Nat /\ Layout!IndexPoint(s) <= c /\ c <= fl + 20 /\ (p <= c \/ fl + 20 <= p)
        /\ Zero(m, c, fl + 20 - c)
    <3>1. Zero(m, c, fl + 20 - c)
      BY DEF File, Spare
    <3>2. Layout!IndexPoint(s) <= c
      BY <1>2 DEF c
    <3> HIDE DEF p, z, o, il, c, fl
    <3> QED BY <1>2, <3>1, <3>2
  <2> HIDE DEF c, p
  <2> QED BY <1>1, <2>1, <2>2, <2>3, ResizedCarried DEF rs
<1> HIDE DEF r
<1>17. EntryAt(r, i - 1) = q /\ EntryLength(r, i - 1) = Length(rs, i)
  <2>1. IndexOffset(r) = rs.index_offset /\ EntryLength(r, i - 1) = Length(rs, i)
    BY <1>3, <1>16 DEF Encodes
  <2>2. i \in Nat \ {0}
    BY <1>1, LayoutTypes
  <2> QED BY <1>3, <2>1, <2>2, EntrySlots
<1> DEFINE ro == rs.index_offset  c2 == Layout!IndexPoint(rs)  fr == rs.freelist_offset  zr == rs.size
<1>18. /\ q \in Nat /\ ro + 4 <= q /\ q + 8 <= c2 /\ c2 \in Nat /\ 32 <= ro /\ ro \in Nat
       /\ c2 = Layout!Shift(c, p, n) /\ fr + 20 - c2 = k /\ k \in Nat /\ zr \in Nat
       /\ c2 + k = ro + il /\ ro + il <= zr
  <2>1. i \in Nat \ {0} /\ i <= Len(rs.entries) /\ cnt \in Nat
    BY <1>1, <1>3, LayoutTypes
  <2>2. q \in Nat /\ ro + 4 <= q /\ q + 8 <= c2
    BY <1>3, <2>1, Slots
  <2>3. c2 = ro + 4 + 8 * cnt /\ c = o + 4 + 8 * cnt
    <3>1. c2 = ro + 4 + 8 * Len(rs.entries) /\ c = o + 4 + 8 * Len(s.entries)
      BY <1>1, <1>3, PointIs
    <3> QED BY <1>3, <3>1
  <2>4. ro = Layout!Shift(o, p, n) /\ fr = Layout!Shift(fl, p, n) /\ zr = z + n
    BY <1>4, <1>5
  <2> HIDE DEF p, z, o, il, c, fl, ro, c2, fr, zr, q, cnt
  <2>5. CASE p <= o
    <3>1. ro = o + n /\ fr = fl + n /\ Layout!Shift(c, p, n) = c + n
      BY <1>2, <2>4, <2>5 DEF Layout!Shift
    <3> QED BY <1>2, <2>1, <2>2, <2>3, <2>4, <3>1
  <2>6. CASE ~(p <= o)
    <3>1. ro = o /\ fr = fl /\ Layout!Shift(c, p, n) = c
      BY <1>2, <2>4, <2>6 DEF Layout!Shift
    <3> QED BY <1>2, <2>1, <2>2, <2>3, <2>4, <3>1
  <2> QED BY <2>5, <2>6
<1>19. r \in Seq(Byte) /\ Len(r) = zr
  BY <1>16, EncodesIndex
<1>20. OnlyAt(x, r, q + 4, 4) /\ Get(x, q + 4) = Length(t, i)
  <2> DEFINE w == Length(t, i)  a == q + 4
  <2>1. x = Put(r, a, Word(w))
    BY <1>9, <1>13, <1>17
  <2>2. w \in Word32
    BY <1>8, <1>10, SoundWords DEF Fit
  <2> HIDE DEF p, z, o, il, c, fl, ro, c2, fr, zr, q, cnt, w
  <2>3. a \in Nat /\ a + 4 <= Len(r)
    BY <1>2, <1>18, <1>19
  <2> HIDE DEF a
  <2>4. OnlyAt(x, r, a, 4) /\ Get(x, a) = w
    BY <1>19, <2>1, <2>2, <2>3, WordOnlyAt
  <2> QED BY <2>4 DEF w, a
<1>21. Encodes(x, t)
  <2>1. i \in 1 .. Len(rs.entries) /\ OnlyAt(x, r, Slot(rs, i) + 4, 4)
        /\ Get(x, Slot(rs, i) + 4) = Length(t, i)
    BY <1>3, <1>20
  <2>2. Len(t.entries) = Len(rs.entries)
    BY <1>3, <1>10
  <2>3. \A j \in 1 .. Len(rs.entries) : Address(t, j) = Address(rs, j)
    BY <1>3, <1>11
  <2>4. \A j \in 1 .. Len(rs.entries) : j # i => Length(t, j) = Length(rs, j)
    BY <1>3, <1>12
  <2> QED BY <1>10, <1>16, <2>1, <2>2, <2>3, <2>4, LengthEncodes
<1>22. Carried(x, t, m, s)
  <2>1. SamePlaces(t, rs)
    <3>1. t.variables_offset = rs.variables_offset /\ rs.variable_bytes \in Nat
          /\ t.variable_bytes = rs.variable_bytes
      BY <1>3, <1>5, <1>10, <1>15, LayoutTypes DEF WithEntries
    <3>2. \A j \in 1 .. cnt : Length(rs, j) \in Nat /\ Length(rs, j) <= Length(t, j)
      <4>1. \A j \in 1 .. cnt : Length(rs, j) \in Nat
        BY <1>3, LayoutTypes
      <4>2. \A j \in 1 .. cnt : Length(rs, j) <= Length(t, j)
        BY <1>12, <1>13, <4>1
      <4> QED BY <4>1, <4>2
    <3>3. \A j \in 1 .. cnt : Held(t, j) <=> Held(rs, j)
      <4>1. Held(rs, i) /\ Held(t, i)
        <5>1. Length(rs, i) > 0
          BY <1>6
        <5>2. Length(rs, i) <= Length(t, i) /\ Length(rs, i) \in Nat
          BY <3>2
        <5>3. Length(t, i) \in Nat
          BY <1>13, <5>2
        <5> QED BY <5>1, <5>2, <5>3 DEF Held
      <4> QED BY <1>11, <1>12, <4>1 DEF Held
    <3>4. Len(rs.entries) <= Len(t.entries)
      BY <1>1, <1>3, <1>10, LayoutTypes
    <3>5. \A j \in 1 .. Len(rs.entries) :
            Address(t, j) = Address(rs, j) /\ Length(rs, j) <= Length(t, j) /\ (Held(t, j) <=> Held(rs, j))
      BY <1>3, <1>11, <3>2, <3>3
    <3>6. rs.variable_bytes <= t.variable_bytes
      BY <3>1
    <3> QED BY <3>1, <3>4, <3>5, <3>6 DEF SamePlaces
  <2>2. Carried(r, t, m, s)
    BY <1>1, <1>3, <1>10, <1>16, <2>1, CarriedThere
  <2>3. InIndex(t, q + 4, 4) /\ q + 4 \in Nat /\ 4 \in Nat
    <3>1. t.index_offset = ro /\ t.index_length = il
      BY <1>14
    <3> HIDE DEF p, z, o, il, c, fl, ro, c2, fr, zr, q, cnt, k
    <3> QED BY <1>18, <3>1 DEF InIndex
  <2>4. Len(r) = t.size
    BY <1>14, <1>19
  <2> QED BY <1>1, <1>8, <1>20, <2>2, <2>3, <2>4, CarriedIndex, Zenon
<1>23. Spare(x, t)
  <2>1. Layout!IndexPoint(t) = c2
    BY <1>3, <1>10, <1>14 DEF Layout!IndexPoint
  <2>2. t.freelist_offset + 20 - Layout!IndexPoint(t) = k
    BY <1>15, <1>18, <2>1
  <2>3. Zero(x, c2, k)
    <3>1. Zero(r, c2, k)
      BY <1>16, <1>18
    <3> DEFINE a == q + 4
    <3>2. c2 \in Nat /\ k \in Nat /\ c2 + k <= Len(r) /\ Beside(c2, k, a, 4) /\ a \in Nat /\ 4 \in Nat
      <4> HIDE DEF p, z, o, il, c, fl, ro, c2, fr, zr, q, cnt, k
      <4> QED BY <1>18, <1>19, <1>2 DEF Beside
    <3>3. OnlyAt(x, r, a, 4)
      BY <1>20
    <3> HIDE DEF a, c2, k
    <3> QED BY <3>1, <3>2, <3>3, ZeroBeside, Zenon
  <2> QED BY <2>1, <2>2, <2>3 DEF Spare
<1>24. Succeeds(x, t, m, s)
  BY <1>8, <1>15, <1>21, <1>22, <1>23, FileIs DEF Fit
<1> QED BY <1>6, <1>10, <1>12, <1>13, <1>24

(* A store of one byte in a block: the layout is as before, and the other  *)
(* blocks and the variables too.                                           *)
LEMMA StoreFile ==
  ASSUME NEW m, NEW s, File(m, s), NEW i \in 1 .. Len(s.entries),
         NEW k \in 0 .. Length(s, i) - 1, NEW byte \in Byte,
         NEW x, x = Put(m, Address(s, i) + k, << byte >>)
  PROVE  /\ File(x, s) /\ OnlyAt(x, m, Address(s, i) + k, 1)
         /\ x[Address(s, i) + k + 1] = byte
         /\ Same(x, s.variables_offset, m, s.variables_offset, 4 + s.variable_bytes)
         /\ \A j \in 1 .. Len(s.entries) :
              j # i => Same(x, Address(s, j), m, Address(s, j), Length(s, j))
<1> DEFINE o == s.index_offset
           il == s.index_length
           z == s.size
           fl == s.freelist_offset
           c == Layout!IndexPoint(s)
           v == s.variables_offset
           tl == s.trailer_len
           vb == s.variable_bytes
           ad == Address(s, i)
           l == Length(s, i)
           a == ad + k
           w == fl + 20 - c
<1>1. s \in Layout!Layouts /\ Layout!SoundLayout(s) /\ Encodes(m, s)
  BY SoundSections DEF File
<1>2. Numbers(z, o, il, v, tl, vb, fl, c) /\ Placed(z, o, il, v, tl, ad, l)
  BY <1>1, SoundNumbers, SoundPlaces
<1>3. m \in Seq(Byte) /\ Len(m) = z
  BY <1>1, EncodesIndex
<1>4. k \in Int /\ 0 <= k /\ k <= l - 1
  <2>1. l \in Nat
    BY <1>2 DEF Placed
  <2> HIDE DEF l
  <2> QED BY <2>1 DEF l
<1>5. /\ a \in Nat /\ a + 1 <= z /\ ad <= a /\ a + 1 <= ad + l /\ ad \in Nat /\ l \in Nat
      /\ 32 <= a /\ (a + 1 <= o \/ c <= a)
      /\ Beside(v, 4 + vb, a, 1) /\ v \in Nat /\ vb \in Nat /\ 4 + vb \in Nat /\ v + (4 + vb) <= z
      /\ c \in Nat /\ w \in Nat /\ c + w <= z /\ Beside(c, w, a, 1)
  <2> HIDE DEF z, o, il, fl, c, v, tl, vb, ad, l
  <2>1. /\ z \in Nat /\ o \in Nat /\ il \in Nat /\ v \in Nat /\ tl \in Nat /\ vb \in Nat /\ fl \in Nat
        /\ c \in Nat /\ 32 <= o /\ o + il <= z /\ v + tl <= z
        /\ 4 + vb <= tl /\ o + 4 <= c /\ c <= fl /\ fl + 20 = o + il
    BY <1>2 DEF Numbers
  <2>2. /\ ad \in Nat /\ l \in Nat /\ ad + l <= z
        /\ 32 <= ad /\ (ad + l <= o \/ o + il <= ad) /\ (ad + l <= v \/ v + tl <= ad)
    BY <1>2, <1>4 DEF Placed, Beside
  <2>3. a \in Nat /\ a + 1 <= z /\ ad <= a /\ a + 1 <= ad + l /\ 32 <= a
    BY <1>4, <2>1, <2>2
  <2>4. (a + 1 <= o \/ c <= a) /\ (a + 1 <= o \/ o + il <= a) /\ (a + 1 <= v \/ v + tl <= a)
    BY <2>1, <2>2, <2>3
  <2>5. w \in Nat /\ c + w = o + il
    BY <2>1
  <2> HIDE DEF a, w
  <2> QED BY <2>1, <2>2, <2>3, <2>4, <2>5 DEF Beside
<1>6. OnlyAt(x, m, a, 1) /\ x[a + 1] = byte
  <2> DEFINE b == << byte >>
  <2>1. b \in Seq(Byte) /\ Len(b) = 1 /\ b[1] = byte
    OBVIOUS
  <2> HIDE DEF b, a
  <2>2. OnlyAt(Put(m, a, b), m, a, Len(b)) /\ Same(Put(m, a, b), a, b, 0, Len(b))
    BY <1>3, <1>5, <2>1, PutOnlyAt
  <2>3. x = Put(m, a, b)
    BY DEF a, b
  <2>4. x[a + 0 + 1] = b[0 + 0 + 1]
    <3>1. 0 \in 0 .. Len(b) - 1
      BY <2>1
    <3> QED BY <2>2, <2>3, <3>1 DEF Same
  <2>5. a + 0 + 1 = a + 1 /\ 0 + 0 + 1 = 1
    BY <1>5
  <2> QED BY <2>1, <2>2, <2>3, <2>4, <2>5
<1> HIDE DEF a, w
<1>7. Encodes(x, s)
  <2> HIDE DEF z, o, il, fl, c, v, tl, vb, ad, l
  <2>1. a \in Nat /\ 1 \in Nat /\ 32 <= a /\ (a + 1 <= s.index_offset \/ Layout!IndexPoint(s) <= a)
    BY <1>5 DEF o, c
  <2> QED BY <1>1, <1>6, <2>1, OutsideEncodes, Zenon
<1>8. Same(x, v, m, v, 4 + vb)
  <2> HIDE DEF z, o, il, fl, c, v, tl, vb, ad, l
  <2> QED BY <1>3, <1>5, <1>6 DEF OnlyAt
<1>9. Spare(x, s)
  <2>1. Zero(m, c, w)
    BY DEF File, Spare, w
  <2> HIDE DEF z, o, il, fl, c, v, tl, vb, ad, l
  <2>2. 1 \in Nat /\ c + w <= Len(m)
    BY <1>3, <1>5
  <2>3. Zero(x, c, w)
    BY <1>5, <1>6, <2>1, <2>2, ZeroBeside, Zenon
  <2> QED BY <2>3 DEF Spare, w, c, fl
<1>10. Walks(x, s)
  <2>1. PICK n, st : Walk(m, s, st, n)
    BY DEF File, Walks
  <2>2. Same(x, v, m, v, 4) /\ Same(x, v + 4, m, v + 4, vb)
    <3> HIDE DEF v, vb
    <3>1. Same(x, v + 0, m, v + 0, 4) /\ Same(x, v + 4, m, v + 4, vb)
      <4>1. v \in Int /\ 4 + vb \in Int /\ 0 \in Nat /\ 4 \in Nat /\ vb \in Nat
            /\ 0 + 4 <= 4 + vb /\ 4 + vb <= 4 + vb
        BY <1>5
      <4> QED BY <1>8, <4>1, SamePart, Zenon
    <3>2. v + 0 = v
      BY <1>5
    <3> QED BY <3>1, <3>2
  <2>3. Walk(x, s, st, n)
    BY <1>1, <2>1, <2>2, WalkSame
  <2> QED BY <2>3 DEF Walks
<1>11. ASSUME NEW j \in 1 .. Len(s.entries), j # i
       PROVE  Same(x, Address(s, j), m, Address(s, j), Length(s, j))
  <2> DEFINE e == Address(s, j)  n == Length(s, j)
  <2>1. Held(s, i)
    <3> HIDE DEF ad
    <3> QED BY <1>4, <1>5 DEF Held
  <2>2. e \in Nat /\ n \in Nat /\ e + n <= z
    BY <1>1, SoundBlocks
  <2>3. Held(s, j) => Beside(e, n, ad, l)
    BY <1>1, <1>11, <2>1, SoundBlocks
  <2>4. ~Held(s, j) => n = 0
    BY DEF Held
  <2> HIDE DEF e, n, ad, l, z
  <2>7. Same(x, e, m, e, n)
    <3>1. CASE n = 0
      BY <3>1 DEF Same
    <3>2. CASE n # 0
      <4>1. Beside(e, n, a, 1) /\ e + n <= Len(m)
        BY <1>3, <1>5, <2>2, <2>3, <2>4, <3>2 DEF Beside
      <4> QED BY <1>6, <2>2, <4>1 DEF OnlyAt
    <3> QED BY <3>1, <3>2
  <2> QED BY <2>7 DEF e, n
<1>12. s.size \in Word32
  BY DEF File
<1> QED BY <1>1, <1>6, <1>7, <1>8, <1>9, <1>10, <1>11, <1>12 DEF File, a

-----------------------------------------------------------------------------
(***************************************************************************)
(* bom_variable_add.                                                       *)
(***************************************************************************)

(* One variable more, at the end of the walk. *)
Longer(st, n, e) == [i \in 0 .. n + 1 |-> IF i <= n THEN st[i] ELSE e]

(* The walk goes on over a variable that is stored at its end. *)
LEMMA WalkLonger ==
  ASSUME NEW m, NEW s \in Layout!Layouts, NEW x, NEW t \in Layout!Layouts,
         Same(x, t.variables_offset + 4, m, s.variables_offset + 4, s.variable_bytes),
         NEW st, NEW n, Walk(m, s, st, n), NEW size \in Byte,
         t.variable_bytes = s.variable_bytes + 5 + size,
         x[t.variables_offset + 4 + s.variable_bytes + 5] = size,
         Get(x, t.variables_offset) = n + 1
  PROVE  Walk(x, t, Longer(st, n, s.variable_bytes + 5 + size), n + 1)
<1> DEFINE v == s.variables_offset
           w == t.variables_offset
           vb == s.variable_bytes
           e == vb + 5 + size
           su == Longer(st, n, e)
<1>1. v \in Nat /\ w \in Nat /\ vb \in Nat /\ size \in Nat
  BY LayoutTypes DEF Byte
<1>2. /\ n \in Nat /\ st \in [0 .. n -> Nat] /\ st[0] = 0 /\ st[n] = vb
      /\ \A i \in 1 .. n : /\ st[i] = st[i - 1] + 5 + m[v + 4 + st[i - 1] + 5]
                           /\ st[i - 1] + 5 <= st[i] /\ 5 * i <= st[i] /\ st[i] <= st[n]
  BY DEF Walk
<1>3. Same(x, w + 4, m, v + 4, vb) /\ x[w + 4 + vb + 5] = size
  OBVIOUS
<1>4. t.variable_bytes = e
  OBVIOUS
<1> HIDE DEF v, w, vb
<1>5. ASSUME NEW i \in 1 .. n
      PROVE  x[w + 4 + st[i - 1] + 5] = m[v + 4 + st[i - 1] + 5]
  <2>1. i - 1 \in 0 .. n /\ i \in 0 .. n
    BY <1>2
  <2>2. st[i - 1] \in Nat /\ st[i] \in Nat /\ st[i - 1] + 5 <= st[i] /\ st[i] <= vb
    BY <1>2, <2>1
  <2>3. st[i - 1] + 4 \in 0 .. vb - 1
    BY <1>1, <2>2
  <2>4. x[w + 4 + (st[i - 1] + 4) + 1] = m[v + 4 + (st[i - 1] + 4) + 1]
    BY <1>3, <2>3 DEF Same
  <2>5. /\ w + 4 + (st[i - 1] + 4) + 1 = w + 4 + st[i - 1] + 5
        /\ v + 4 + (st[i - 1] + 4) + 1 = v + 4 + st[i - 1] + 5
    BY <1>1, <2>2
  <2> QED BY <2>4, <2>5
<1>6. e \in Nat
  BY <1>1
<1>7. /\ su \in [0 .. n + 1 -> Nat]
      /\ \A i \in 0 .. n : su[i] = st[i]
      /\ su[n + 1] = e
  BY <1>2, <1>6 DEF Longer
<1>8. su[0] = 0
  BY <1>2, <1>7
<1>9. ASSUME NEW i \in 1 .. n
      PROVE  /\ su[i] = su[i - 1] + 5 + x[w + 4 + su[i - 1] + 5]
             /\ su[i - 1] + 5 <= su[i] /\ 5 * i <= su[i] /\ su[i] <= su[n + 1]
  <2>1. i - 1 \in 0 .. n /\ i \in 0 .. n
    BY <1>2
  <2>2. su[i] = st[i] /\ su[i - 1] = st[i - 1]
    BY <1>7, <2>1
  <2>3. st[i] \in Nat /\ st[i] <= vb
    BY <1>2, <2>1
  <2>4. st[i] <= e
    BY <1>1, <2>3
  <2> QED BY <1>2, <1>5, <1>7, <2>2, <2>4
<1>10. n \in 0 .. n
  BY <1>2
<1>11. su[n] = vb
  BY <1>2, <1>7, <1>10
<1>12. 5 * n <= vb
  <2>1. CASE n = 0
    BY <1>1, <2>1
  <2>2. CASE n # 0
    BY <1>2, <2>2
  <2> QED BY <2>1, <2>2
<1>13. /\ su[n + 1] = su[n] + 5 + x[w + 4 + su[n] + 5]
       /\ su[n] + 5 <= su[n + 1] /\ 5 * (n + 1) <= su[n + 1]
  <2>1. x[w + 4 + su[n] + 5] = size
    BY <1>3, <1>11
  <2>2. su[n] = vb /\ su[n + 1] = e /\ e = vb + 5 + size
    BY <1>7, <1>11
  <2> HIDE DEF su, e
  <2>3. su[n + 1] = su[n] + 5 + x[w + 4 + su[n] + 5]
    BY <1>1, <2>1, <2>2
  <2>4. vb + 5 <= e /\ 5 * (n + 1) <= e
    BY <1>1, <1>2, <1>12, <2>2
  <2> QED BY <2>2, <2>3, <2>4
<1>14. \A i \in 1 .. n + 1 : /\ su[i] = su[i - 1] + 5 + x[w + 4 + su[i - 1] + 5]
                             /\ su[i - 1] + 5 <= su[i] /\ 5 * i <= su[i] /\ su[i] <= su[n + 1]
  <2> SUFFICES ASSUME NEW i \in 1 .. n + 1
               PROVE  /\ su[i] = su[i - 1] + 5 + x[w + 4 + su[i - 1] + 5]
                      /\ su[i - 1] + 5 <= su[i] /\ 5 * i <= su[i] /\ su[i] <= su[n + 1]
    OBVIOUS
  <2> HIDE DEF su, e
  <2>1. CASE i = n + 1
    <3>1. i - 1 = n /\ su[i] <= su[i] /\ su[i] \in Nat
      BY <1>2, <1>6, <1>7, <2>1
    <3> QED BY <1>13, <2>1, <3>1
  <2>2. CASE i # n + 1
    <3>1. i \in 1 .. n
      BY <1>2, <2>2
    <3> QED BY <1>9, <3>1
  <2> QED BY <2>1, <2>2
<1>15. n + 1 \in Nat /\ t.variable_bytes = su[n + 1]
  BY <1>2, <1>4, <1>7
<1>16. Get(x, w) = n + 1
  BY DEF w
<1> HIDE DEF su, e
<1>17. Walk(x, t, su, n + 1)
  BY <1>7, <1>8, <1>14, <1>15, <1>16 DEF Walk, w
<1> QED BY <1>17 DEF su, e, vb

(* A variable as it is stored: index, length and name. *)
VariableBytes(name, index, size) == Word(index) \o << size >> \o SubSeq(name, 1, size)

(* The bytes of a variable: its index, the length of its name and the name. *)
LEMMA StoredVariable ==
  ASSUME NEW name \in Seq(Byte), NEW index \in Word32, NEW size \in Byte, size <= Len(name),
         NEW b, b = VariableBytes(name, index, size)
  PROVE  /\ b \in Seq(Byte) /\ Len(b) = 5 + size
         /\ Get(b, 0) = index /\ b[5] = size /\ Same(b, 5, name, 0, size)
<1> DEFINE w == Word(index)  q == << size >>  nm == SubSeq(name, 1, size)
<1>1. w \in Seq(Byte) /\ Len(w) = 4 /\ Get(w, 0) = index
  BY WordIsBytes
<1>2. q \in Seq(Byte) /\ Len(q) = 1 /\ q[1] = size
  OBVIOUS
<1>3. size \in Nat
  BY DEF Byte
<1>4. nm \in Seq(Byte) /\ Len(nm) = size /\ \A k \in 1 .. size : nm[k] = name[k]
  BY <1>3
<1> HIDE DEF w, q, nm
<1> DEFINE wq == w \o q
<1>5. b = wq \o nm
  BY DEF w, q, nm, VariableBytes
<1>6. /\ wq \in Seq(Byte) /\ Len(wq) = 5 /\ wq[5] = size /\ Begins(wq, w)
  <2>1. Begins(wq, w) /\ Len(wq) = Len(w) + Len(q) /\ wq \in Seq(Byte)
    BY <1>1, <1>2, JoinedBegins DEF Begins
  <2>2. wq[5] = q[1]
    <3>0. 0 \in 0 .. Len(q) - 1
      BY <1>2
    <3> HIDE DEF w, q
    <3>1. Same(wq, Len(w), q, 0, Len(q))
      BY <1>1, <1>2, JoinedBegins, Zenon
    <3>2. wq[Len(w) + 0 + 1] = q[0 + 0 + 1]
      BY <3>0, <3>1 DEF Same
    <3>3. Len(w) + 0 + 1 = 5 /\ 0 + 0 + 1 = 1
      BY <1>1
    <3> QED BY <3>2, <3>3
  <2> QED BY <1>1, <1>2, <2>1, <2>2
<1> HIDE DEF wq
<1>7. /\ b \in Seq(Byte) /\ Len(b) = 5 + size /\ Begins(b, wq) /\ Same(b, 5, nm, 0, size)
  <2>1. Begins(wq \o nm, wq) /\ Len(wq \o nm) = Len(wq) + Len(nm) /\ Same(wq \o nm, Len(wq), nm, 0, Len(nm))
    BY <1>4, <1>6, JoinedBegins
  <2>2. wq \o nm \in Seq(Byte)
    BY <2>1 DEF Begins
  <2> QED BY <1>4, <1>5, <1>6, <2>1, <2>2
<1>8. b[5] = size
  <2>1. wq[5] = b[5]
    <3>1. Same(b, 0, wq, 0, 5) /\ 4 \in 0 .. 5 - 1
      BY <1>6, <1>7 DEF Begins
    <3>2. b[0 + 4 + 1] = wq[0 + 4 + 1]
      BY <3>1 DEF Same
    <3>3. 0 + 4 + 1 = 5
      OBVIOUS
    <3> QED BY <3>2, <3>3
  <2> QED BY <1>6, <2>1
<1>9. Get(b, 0) = index
  <2>1. Begins(b, w)
    BY <1>6, <1>7, BeginsTwice
  <2>2. 0 \in Nat /\ 0 + 4 <= Len(w)
    BY <1>1
  <2>3. Get(b, 0) = Get(w, 0)
    BY <2>1, <2>2, BeginsGet, Zenon
  <2> QED BY <1>1, <2>3
<1>10. Same(b, 5, name, 0, size)
  BY <1>3, <1>4, <1>7 DEF Same
<1> QED BY <1>7, <1>8, <1>9, <1>10

(* An insertion beside the index carries its clear end with it. *)
IndexAfter(z, o, il, fl, c, p, n, ro, zr, fr, c2) ==
  /\ ro \in Nat /\ c2 \in Nat /\ fr \in Nat /\ zr \in Nat /\ zr = z + n
  /\ c2 = Layout!Shift(c, p, n) /\ fr + 20 - c2 = fl + 20 - c /\ c2 <= fr
  /\ fr + 20 = ro + il /\ ro + il <= zr /\ ro + 4 <= c2 /\ 32 <= ro
  /\ IF p <= o THEN ro = o + n ELSE ro = o /\ c2 = c

(* The index section after an insertion outside of it, as numbers. *)
LEMMA ResizedIndex ==
  ASSUME NEW s, Layout!SoundLayout(s), NEW p \in Nat, NEW n \in Nat,
         Beside(p, 0, s.index_offset, s.index_length), NEW rs, rs = Layout!Resize(s, p, n)
  PROVE  IndexAfter(s.size, s.index_offset, s.index_length, s.freelist_offset, Layout!IndexPoint(s),
                    p, n, rs.index_offset, rs.size, rs.freelist_offset, Layout!IndexPoint(rs))
<1> DEFINE cnt == Len(s.entries)
           o == s.index_offset
           il == s.index_length
           z == s.size
           fl == s.freelist_offset
           c == Layout!IndexPoint(s)
           ro == rs.index_offset
           zr == rs.size
           fr == rs.freelist_offset
           c2 == Layout!IndexPoint(rs)
<1>1. s \in Layout!Layouts /\ cnt \in Nat
  BY SoundSections, LayoutTypes
<1>2. /\ z \in Nat /\ o \in Nat /\ il \in Nat /\ c \in Nat /\ fl \in Nat
      /\ 32 <= o /\ fl + 20 = o + il /\ o + il <= z /\ c <= fl /\ o + 4 <= c
  BY SoundSections
<1>3. rs \in Layout!Layouts /\ Len(rs.entries) = cnt
  BY <1>1, ResizedFields
<1>4. ro = Layout!Shift(o, p, n) /\ fr = Layout!Shift(fl, p, n) /\ zr = z + n
  BY <1>1, ResizedFields
<1>5. c2 = ro + 4 + 8 * cnt /\ c = o + 4 + 8 * cnt
  <2>1. c2 = rs.index_offset + 4 + 8 * Len(rs.entries) /\ c = s.index_offset + 4 + 8 * Len(s.entries)
    BY <1>1, <1>3, PointIs
  <2> QED BY <1>3, <2>1
<1>0. p <= o \/ o + il <= p
  <2> HIDE DEF o, il
  <2>1. Beside(p, 0, o, il) /\ p + 0 = p
    BY DEF o, il
  <2> QED BY <2>1 DEF Beside
<1> HIDE DEF cnt, o, il, z, fl, c, ro, zr, fr, c2
<1>6. ASSUME p <= o
      PROVE  IndexAfter(z, o, il, fl, c, p, n, ro, zr, fr, c2)
  <2>1. ro = o + n /\ fr = fl + n /\ Layout!Shift(c, p, n) = c + n
    BY <1>2, <1>4, <1>6 DEF Layout!Shift
  <2> QED BY <1>1, <1>2, <1>4, <1>5, <1>6, <2>1 DEF IndexAfter
<1>7. ASSUME ~(p <= o)
      PROVE  IndexAfter(z, o, il, fl, c, p, n, ro, zr, fr, c2)
  <2>1. ro = o /\ fr = fl /\ Layout!Shift(c, p, n) = c
    BY <1>0, <1>2, <1>4, <1>7 DEF Layout!Shift
  <2>2. IF p <= o THEN ro = o + n ELSE ro = o /\ c2 = c
    BY <1>5, <1>7, <2>1
  <2>3. ro + il <= zr
    BY <1>2, <1>4, <2>1
  <2> QED BY <1>1, <1>2, <1>4, <1>5, <2>1, <2>2, <2>3 DEF IndexAfter
<1>8. IndexAfter(z, o, il, fl, c, p, n, ro, zr, fr, c2)
  BY <1>6, <1>7
<1> QED BY <1>8 DEF o, il, z, fl, c, ro, zr, fr, c2

(* The section of the variables is longer. *)
Widened(r, e, l) == [r EXCEPT !.variable_bytes = e, !.trailer_len = l]

(* A layout with a longer section of variables. *)
LEMMA SectionWidened ==
  ASSUME NEW r \in Layout!Layouts, NEW e \in Nat, NEW l \in Nat, NEW t, t = Widened(r, e, l)
  PROVE  /\ t \in Layout!Layouts /\ WithField(t, r, 28, l)
         /\ t.variable_bytes = e /\ t.trailer_len = l /\ t.freelist_offset = r.freelist_offset
         /\ t.size = r.size /\ t.variables_offset = r.variables_offset
         /\ Len(t.entries) = Len(r.entries)
         /\ Layout!IndexPoint(t) = Layout!IndexPoint(r)
         /\ \A i \in 1 .. Len(r.entries) : Address(t, i) = Address(r, i) /\ Length(t, i) = Length(r, i)
<1>1. /\ t \in Layout!Layouts
      /\ t.entries = r.entries /\ t.size = r.size /\ t.index_offset = r.index_offset
      /\ t.index_length = r.index_length /\ t.variables_offset = r.variables_offset
      /\ t.trailer_len = l /\ t.block_count = r.block_count
      /\ t.variable_bytes = e /\ t.freelist_offset = r.freelist_offset
  BY DEF Layout!Layouts, Widened
<1>2. WithField(t, r, 28, l)
  BY <1>1 DEF WithField
<1>3. Layout!IndexPoint(t) = Layout!IndexPoint(r)
  BY <1>1, Zenon DEF Layout!IndexPoint
<1>4. \A i \in 1 .. Len(r.entries) : Address(t, i) = Address(r, i) /\ Length(t, i) = Length(r, i)
  BY <1>1, Zenon DEF Address, Length
<1>5. Len(t.entries) = Len(r.entries)
  BY <1>1, Zenon
<1> QED BY <1>1, <1>2, <1>3, <1>4, <1>5

(* The numbers of the insertion that a variable needs. *)
Gap(z, o, il, v, tl, vb, fl, c, p, d, n, ro, c2, zr, k) ==
  /\ Numbers(z, o, il, v, tl, vb, fl, c)
  /\ p = v + 4 + vb /\ d \in Nat /\ n \in Nat /\ n <= d /\ (p <= o \/ o + il <= p)
  /\ zr = z + d /\ IF p <= o THEN ro = o + d ELSE ro = o /\ c2 = c
  /\ k = fl + 20 - c /\ c2 + k = ro + il /\ ro + 4 <= c2 /\ c2 \in Nat /\ ro \in Nat /\ 32 <= ro

(* The stores of bom_variable_add stay clear of the index. *)
LEMMA VariablePlaces ==
  ASSUME NEW z, NEW o, NEW il, NEW v, NEW tl, NEW vb, NEW fl, NEW c,
         NEW p, NEW d, NEW n, NEW ro, NEW c2, NEW zr, NEW k,
         Gap(z, o, il, v, tl, vb, fl, c, p, d, n, ro, c2, zr, k)
  PROVE  /\ p \in Nat /\ 32 <= p /\ p + n <= zr /\ v + 4 <= zr /\ ro + il <= zr
         /\ v + 4 <= p /\ k \in Nat
         /\ p + n <= ro \/ c2 <= p
         /\ v + 4 <= ro \/ c2 <= v
         /\ Beside(c2, k, p, n) /\ Beside(c2, k, v, 4) /\ Beside(c2, k, 28, 4)
         /\ c2 + k <= zr /\ (p <= c \/ fl + 20 <= p)
<1>1. /\ z \in Nat /\ o \in Nat /\ il \in Nat /\ v \in Nat /\ tl \in Nat /\ vb \in Nat /\ fl \in Nat
      /\ c \in Nat /\ 32 <= o /\ o + il <= z /\ 32 <= v /\ v + tl <= z
      /\ o + il <= v \/ v + tl <= o
      /\ 4 + vb <= tl /\ o + 4 <= c /\ c <= fl /\ fl + 20 = o + il
  BY DEF Numbers, Gap
<1>4. /\ p = v + 4 + vb /\ d \in Nat /\ n \in Nat /\ n <= d /\ (p <= o \/ o + il <= p)
      /\ zr = z + d /\ IF p <= o THEN ro = o + d ELSE ro = o /\ c2 = c
      /\ k = fl + 20 - c /\ c2 + k = ro + il /\ ro + 4 <= c2 /\ c2 \in Nat /\ ro \in Nat /\ 32 <= ro
  BY DEF Gap
<1>2. CASE p <= o
  <2>1. ro = o + d
    BY <1>2, <1>4
  <2> QED BY <1>1, <1>2, <1>4, <2>1 DEF Beside
<1>3. CASE ~(p <= o)
  <2>1. ro = o /\ c2 = c /\ o + il <= p
    BY <1>3, <1>4
  <2>2. o + il <= v
    BY <1>1, <1>3, <1>4
  <2> QED BY <1>1, <1>3, <1>4, <2>1, <2>2 DEF Beside
<1> QED BY <1>2, <1>3

(* How many bytes of a name are stored, and how many are inserted for it.  *)
Stored(name)   == Len(name) % 256
Inserted(name) == Layout!Padded(Layout!VariableSize(Len(name)))

(* The room that is inserted for a variable is larger than what is stored of *)
(* it.                                                                       *)
LEMMA StoredFits ==
  ASSUME NEW s, Layout!SoundLayout(s), NEW name \in Seq(Byte)
  PROVE  /\ Stored(name) \in Byte /\ Stored(name) \in Nat /\ Stored(name) <= Len(name)
         /\ Inserted(name) \in Nat /\ 5 + Stored(name) <= Inserted(name)
         /\ Layout!StoredSize(Len(name)) = 5 + Stored(name)
<1> DEFINE l == Len(name)
<1>1. l \in Nat
  BY LenProperties
<1>2. Layout!Padded(5 + l) \in Nat /\ 5 + l <= Layout!Padded(5 + l)
  BY <1>1, VariableStays
<1>3. Inserted(name) = Layout!Padded(5 + l)
  BY DEF Inserted, Layout!VariableSize, Layout!VariableHeaderSize
<1> HIDE DEF l
<1>4. l % 256 \in Nat /\ l % 256 <= 255 /\ l % 256 <= l
  BY <1>1
<1>5. Stored(name) = l % 256 /\ Layout!StoredSize(Len(name)) = 5 + Stored(name)
  BY DEF Stored, l, Layout!StoredSize, Layout!VariableHeaderSize
<1> DEFINE g == l % 256  i == Inserted(name)
<1>6. g \in Byte
  <2>1. g \in Nat /\ g <= 255
    BY <1>4
  <2> HIDE DEF g
  <2> QED BY <2>1 DEF Byte
<1>7. i \in Nat /\ 5 + l <= i
  BY <1>2, <1>3
<1> HIDE DEF g, i
<1>8. g \in Nat /\ g <= l
  BY <1>4 DEF g
<1>9. 5 + g <= i
  BY <1>1, <1>7, <1>8
<1> QED BY <1>5, <1>6, <1>7, <1>8, <1>9 DEF g, i, l

(* A variable is stored behind the others. *)
Variables(x, t, m, s, st, n, name, index) ==
  /\ Walk(x, t, Longer(st, n, t.variable_bytes), n + 1)
  /\ t.variable_bytes = s.variable_bytes + 5 + Stored(name)
  /\ Get(x, t.variables_offset + 4 + s.variable_bytes) = index
  /\ x[t.variables_offset + 4 + s.variable_bytes + 5] = Stored(name)
  /\ Same(x, t.variables_offset + 4 + s.variable_bytes + 5, name, 0, Stored(name))

(* The stores of bom_variable_add in the memory r, with d bytes more at p. *)
VariableStores(r, p, d, b, n) ==
  LET y == Put(r, p, b)
      w == Put(y, VariablesOffset(y), Word(n))
  IN Put(w, TrailerLengthAt, Word(TrailerLength(w) + d))

(* bom_variable_add. *)
LEMMA VariableFile ==
  ASSUME NEW m, NEW s, File(m, s), NEW name \in Seq(Byte), NEW index \in Word32, NEW junk \in Byte,
         NEW t, t = Layout!VariableAdd(s, Len(name)), Fit(t),
         NEW x, x = VariableAdd(m, name, index, junk), NEW st, NEW n, Walk(m, s, st, n)
  PROVE  /\ File(x, t) /\ Kept(x, t, m, s) /\ Variables(x, t, m, s, st, n, name, index)
         /\ Len(t.entries) = Len(s.entries)
         /\ \A i \in 1 .. Len(s.entries) : Length(t, i) = Length(s, i)
<1> DEFINE o == s.index_offset
           il == s.index_length
           z == s.size
           fl == s.freelist_offset
           c == Layout!IndexPoint(s)
           v == s.variables_offset
           vb == s.variable_bytes
           tl == s.trailer_len
           p == v + 4 + vb
           d == Inserted(name)
           g == Stored(name)
           rs == Layout!Resize(s, p, d)
           r == AddressResize(m, p, d, junk)
           k == fl + 20 - c
           cnt == Len(s.entries)
           e == vb + 5 + g
           b == Word(index) \o << g >> \o SubSeq(name, 1, g)
           y == Put(r, p, b)
           w == Put(y, v, Word(n + 1))
<1>1. s \in Layout!Layouts /\ Layout!SoundLayout(s) /\ Encodes(m, s)
  BY SoundSections DEF File
<1>2. Numbers(z, o, il, v, tl, vb, fl, c)
  BY <1>1, SoundNumbers
<1>3. /\ g \in Byte /\ g \in Nat /\ g <= Len(name) /\ d \in Nat /\ 5 + g <= d
      /\ Layout!StoredSize(Len(name)) = 5 + g
  BY <1>1, StoredFits
<1>4. Whole(s, p) /\ (p <= o \/ o + il <= p)
  BY <1>1, SectionsWhole
<1>5. v \in Nat /\ vb \in Nat /\ tl \in Nat /\ p \in Nat /\ z \in Nat /\ v < p /\ e \in Nat /\ tl + d \in Nat
  <2>1. v \in Nat /\ vb \in Nat /\ tl \in Nat /\ z \in Nat
    BY <1>2 DEF Numbers
  <2> HIDE DEF v, vb, tl, d, g
  <2> QED BY <1>3, <2>1
<1>6. /\ rs \in Layout!Layouts /\ Len(rs.entries) = cnt
  <2> HIDE DEF p, d
  <2> QED BY <1>1, <1>3, <1>5, ResizedFields
<1>7. /\ rs.size = z + d /\ rs.variables_offset = Layout!Shift(v, p, d)
      /\ rs.index_length = il
  <2> HIDE DEF p, d
  <2> QED BY <1>1, <1>3, <1>5, ResizedFields
<1>8. rs.trailer_len = tl /\ rs.variable_bytes = vb
  <2> HIDE DEF p, d
  <2> QED BY <1>1, <1>3, <1>5, ResizedFields
<1>9. \A j \in 1 .. cnt : Length(rs, j) = Length(s, j)
  <2> HIDE DEF p, d
  <2> QED BY <1>1, <1>3, <1>5, ResizedFields
<1>10. rs.variables_offset = v
  <2> HIDE DEF v, p, d
  <2> QED BY <1>3, <1>5, <1>7 DEF Layout!Shift
<1>11. t = Widened(rs, e, tl + d)
  <2>1. Layout!CountSize = 4 /\ vb + (5 + g) = e
    <3> HIDE DEF g, vb
    <3> QED BY <1>3, <1>5 DEF Layout!CountSize, e
  <2>2. Layout!VariableAdd(s, Len(name))
        = [rs EXCEPT !.variable_bytes = vb + (5 + g), !.trailer_len = tl + d]
    BY <1>3, <2>1, Zenon DEF Layout!VariableAdd, Inserted
  <2> QED BY <2>1, <2>2 DEF Widened
<1>12. Layout!SoundLayout(t)
  <2>1. Len(name) \in Nat
    BY LenProperties
  <2> QED BY <1>1, <2>1, VariableStays
<1> HIDE DEF rs, e
<1>13. t \in Layout!Layouts /\ WithField(t, rs, 28, tl + d)
  BY <1>5, <1>6, <1>11, SectionWidened
<1>14. t.variable_bytes = e /\ t.trailer_len = tl + d
  BY <1>5, <1>6, <1>11, SectionWidened
<1>15. t.freelist_offset = rs.freelist_offset /\ Len(t.entries) = Len(rs.entries)
  BY <1>5, <1>6, <1>11, SectionWidened
<1>16. Layout!IndexPoint(t) = Layout!IndexPoint(rs)
  BY <1>5, <1>6, <1>11, SectionWidened
<1>17. \A i \in 1 .. Len(rs.entries) : Address(t, i) = Address(rs, i) /\ Length(t, i) = Length(rs, i)
  BY <1>5, <1>6, <1>11, SectionWidened
<1>18. t.size = z + d /\ t.variables_offset = v
  <2>1. t.size = rs.size /\ t.variables_offset = rs.variables_offset
    BY <1>5, <1>6, <1>11, SectionWidened
  <2> QED BY <1>7, <1>10, <2>1
<1>19. Encodes(r, rs) /\ Carried(r, rs, m, s) /\ Zero(r, Layout!Shift(c, p, d), k)
  <2>1. z + d \in Word32
    BY <1>18 DEF Fit
  <2>2. c \in Nat /\ Layout!IndexPoint(s) <= c /\ c <= fl + 20 /\ (p <= c \/ fl + 20 <= p)
        /\ Zero(m, c, fl + 20 - c)
    <3>1. Zero(m, c, fl + 20 - c)
      BY DEF File, Spare
    <3>2. /\ o \in Nat /\ c \in Nat /\ fl \in Nat /\ il \in Nat
          /\ o + 4 <= c /\ c <= fl /\ fl + 20 = o + il
      BY <1>2 DEF Numbers
    <3>3. Layout!IndexPoint(s) <= c
      BY <3>2
    <3> HIDE DEF p, o, il, c, fl
    <3> QED BY <1>4, <1>5, <3>1, <3>2, <3>3
  <2> HIDE DEF c, p, d, k
  <2> QED BY <1>1, <1>3, <1>4, <2>1, <2>2, ResizedCarried DEF rs, k
<1> HIDE DEF r
<1> DEFINE ro == rs.index_offset
           c2 == Layout!IndexPoint(rs)
           fr == rs.freelist_offset
           zr == rs.size
<1>20. IndexAfter(z, o, il, fl, c, p, d, ro, zr, fr, c2)
  <2>1. Beside(p, 0, o, il)
    <3>1. p \in Nat /\ p + 0 = p
      BY <1>5
    <3> HIDE DEF p, o, il
    <3> QED BY <1>4, <3>1 DEF Beside
  <2>2. rs = Layout!Resize(s, p, d)
    BY DEF rs
  <2> HIDE DEF p, d
  <2> QED BY <1>1, <1>3, <1>5, <2>1, <2>2, ResizedIndex
<1>21. r \in Seq(Byte) /\ Len(r) = zr
  BY <1>19, EncodesIndex
<1> DEFINE q == 5 + g
<1>22. Gap(z, o, il, v, tl, vb, fl, c, p, d, q, ro, c2, zr, k)
  <2> HIDE DEF d, g, ro, c2, zr, fr, z, o, il, v, tl, vb, fl, c
  <2>1. q \in Nat /\ q <= d
    BY <1>3
  <2>2. p = v + 4 + vb /\ k = fl + 20 - c /\ d \in Nat
    BY <1>3
  <2>3. fl \in Nat /\ c \in Nat /\ il \in Nat
    BY <1>2 DEF Numbers
  <2> HIDE DEF p, k, q
  <2>4. c2 + k = ro + il
    <3>1. fr \in Nat /\ c2 \in Nat /\ ro \in Nat /\ fr + 20 - c2 = fl + 20 - c /\ fr + 20 = ro + il
      BY <1>20, Zenon DEF IndexAfter
    <3> QED BY <2>2, <2>3, <3>1
  <2>5. /\ zr = z + d /\ IF p <= o THEN ro = o + d ELSE ro = o /\ c2 = c
        /\ ro + 4 <= c2 /\ c2 \in Nat /\ ro \in Nat /\ 32 <= ro
    BY <1>20 DEF IndexAfter
  <2>6. p <= o \/ o + il <= p
    BY <1>4
  <2> QED BY <1>2, <2>1, <2>2, <2>4, <2>5, <2>6, Zenon DEF Gap
<1>23. Len(b) = q /\ b \in Seq(Byte) /\ Get(b, 0) = index /\ b[5] = g /\ Same(b, 5, name, 0, g)
  <2>1. g \in Byte /\ g <= Len(name)
    BY <1>3
  <2>2. b = VariableBytes(name, index, g)
    BY DEF VariableBytes
  <2> HIDE DEF g, b
  <2> QED BY <2>1, <2>2, StoredVariable
<1>24. t.size = zr /\ zr \in Word32
  BY <1>7, <1>18 DEF Fit
<1>25. /\ p \in Nat /\ 32 <= p /\ p + q <= zr /\ v + 4 <= zr /\ ro + il <= zr
       /\ v + 4 <= p /\ k \in Nat
       /\ p + q <= ro \/ c2 <= p
       /\ v + 4 <= ro \/ c2 <= v
       /\ Beside(c2, k, p, q) /\ Beside(c2, k, v, 4) /\ Beside(c2, k, 28, 4)
       /\ c2 + k <= zr /\ (p <= c \/ fl + 20 <= p)
  <2> HIDE DEF d, q, ro, c2, zr, fr, z, o, il, v, tl, vb, fl, c, p, k
  <2> QED BY <1>22, VariablePlaces
<1>26. v \in Nat /\ v + tl <= z /\ 32 <= v /\ 4 + vb <= tl /\ vb \in Nat /\ tl \in Nat /\ z \in Nat
  BY <1>2 DEF Numbers
<1> HIDE DEF q, ro, c2, zr, fr, z, o, il, v, tl, vb, fl, c, p, k, d, g, b
<1>27. c2 \in Nat /\ ro \in Nat /\ zr \in Nat /\ q \in Nat /\ q <= d /\ d \in Nat /\ q = 5 + g /\ 32 <= ro
  <2>1. c2 \in Nat /\ ro \in Nat /\ zr \in Nat /\ 32 <= ro
    BY <1>20, Zenon DEF IndexAfter
  <2> QED BY <1>3, <2>1 DEF q
<1>28. OnlyAt(y, r, p, q) /\ Same(y, p, b, 0, q)
  BY <1>21, <1>23, <1>25, PutOnlyAt
<1>29. Encodes(y, rs)
  <2>1. p + q <= rs.index_offset \/ Layout!IndexPoint(rs) <= p
    BY <1>25 DEF ro, c2
  <2> QED BY <1>19, <1>25, <1>27, <1>28, <2>1, OutsideEncodes
<1>30. y \in Seq(Byte) /\ Len(y) = zr
  BY <1>29, EncodesIndex DEF zr
<1>31. n \in Nat /\ n + 1 \in Word32
  <2>1. n \in Nat /\ 5 * n <= vb
    <3>1. n \in Nat /\ st[0] = 0 /\ st[n] = vb /\ \A i \in 1 .. n : 5 * i <= st[i]
      BY DEF Walk, vb
    <3>2. CASE n = 0
      BY <1>26, <3>1, <3>2
    <3>3. CASE n # 0
      BY <3>1, <3>3
    <3> QED BY <3>1, <3>2, <3>3
  <2>2. n + 1 <= zr
    BY <1>25, <1>26, <1>27, <1>3, <2>1 DEF p
  <2> QED BY <1>24, <2>1, <2>2, WordLess
<1>32. OnlyAt(w, y, v, 4) /\ Get(w, v) = n + 1
  <2>1. v \in Nat /\ v + 4 <= Len(y)
    BY <1>25, <1>26, <1>30
  <2> QED BY <1>30, <1>31, <2>1, WordOnlyAt
<1>33. x = Put(w, 28, Word(tl + d))
  <2>1. VariableCount(m) = n /\ VariableStart(m)[n] = p
    <3>1. VariablesOffset(m) = s.variables_offset /\ m \in Seq(Byte) /\ Len(m) = s.size
      BY <1>1, EncodesIndex DEF Encodes
    <3>2. s.variables_offset + 4 + s.variable_bytes <= s.size
      <4>1. v + 4 + vb <= z
        BY <1>26
      <4> QED BY <4>1 DEF v, vb, z
    <3>3. VariableCount(m) = n /\ \A i \in 0 .. n : VariableStart(m)[i] = v + 4 + st[i]
      BY <1>1, <3>1, <3>2, WalkStarts DEF v
    <3>4. n \in 0 .. n /\ st[n] = vb
      <4>1. n \in Nat /\ st[n] = vb
        BY DEF Walk, vb
      <4> QED BY <4>1
    <3> QED BY <3>3, <3>4 DEF p
  <2>2. VariableAdd(m, name, index, junk)
        = Put(Put(y, VariablesOffset(y), Word(n + 1)), TrailerLengthAt,
              Word(TrailerLength(Put(y, VariablesOffset(y), Word(n + 1))) + d))
    <3>1. VariableAdd(m, name, index, junk)
          = VariableStores(AddressResize(m, VariableStart(m)[VariableCount(m)], Inserted(name), junk),
                           VariableStart(m)[VariableCount(m)], Inserted(name),
                           VariableBytes(name, index, Stored(name)), VariableCount(m) + 1)
      BY DEF VariableAdd, VariableStores, Inserted, Stored, VariableBytes
    <3>2. r = AddressResize(m, p, Inserted(name), junk) /\ d = Inserted(name)
          /\ b = VariableBytes(name, index, Stored(name))
      BY DEF r, d, b, VariableBytes, g
    <3> HIDE DEF y
    <3>3. VariableAdd(m, name, index, junk) = VariableStores(r, p, d, b, n + 1)
      BY <2>1, <3>1, <3>2
    <3> QED BY <3>3, Zenon DEF VariableStores, y
  <2>3. VariablesOffset(y) = v
    BY <1>10, <1>29, Zenon DEF Encodes
  <2>4. OnlyAt(w, y, v, 4) /\ TrailerLength(y) = tl
    BY <1>8, <1>29, <1>32, Zenon DEF Encodes
  <2>5. TrailerLength(w) = tl
    <3>1. Same(w, 28, y, 28, 4)
      <4>1. 28 + 4 <= Len(y) /\ Beside(28, 4, v, 4) /\ 28 \in Nat /\ 4 \in Nat
        BY <1>25, <1>26, <1>30 DEF Beside
      <4> QED BY <1>32, <4>1 DEF OnlyAt
    <3>2. Get(w, 28) = Get(y, 28)
      BY <3>1, SameGet
    <3> QED BY <2>4, <3>2 DEF TrailerLength, TrailerLengthAt
  <2> QED BY <2>2, <2>3, <2>5 DEF TrailerLengthAt
<1>34. Encodes(w, rs)
  <2>1. v + 4 <= rs.index_offset \/ Layout!IndexPoint(rs) <= v
    BY <1>25 DEF ro, c2
  <2>2. v \in Nat /\ 4 \in Nat /\ 32 <= v
    BY <1>26
  <2> HIDE DEF w
  <2> QED BY <1>29, <1>32, <2>1, <2>2, OutsideEncodes
<1>35. w \in Seq(Byte) /\ Len(w) = zr
  BY <1>34, EncodesIndex DEF zr
<1>36. OnlyAt(x, w, 28, 4) /\ Get(x, 28) = tl + d
  <2>1. tl + d \in Nat /\ tl + d <= zr
    BY <1>7, <1>25, <1>26, <1>27 DEF zr
  <2>2. tl + d \in Word32
    BY <1>24, <2>1, WordLess
  <2> DEFINE a == 28  u == tl + d
  <2>3. a \in Nat /\ a + 4 <= Len(w)
    BY <1>25, <1>26, <1>35
  <2> HIDE DEF w, u
  <2>4. u \in Word32
    BY <2>2 DEF u
  <2>5. x = Put(w, a, Word(u))
    BY <1>33 DEF u
  <2> HIDE DEF a
  <2>6. OnlyAt(x, w, a, 4) /\ Get(x, a) = u
    BY <1>35, <2>3, <2>4, <2>5, WordOnlyAt
  <2> QED BY <2>6 DEF a, u
<1> HIDE DEF w, y
<1>37. Encodes(x, t)
  <2>1. WithField(t, rs, 28, Get(x, 28))
    BY <1>13, <1>36
  <2> QED BY <1>13, <1>34, <1>36, <2>1, HeaderEncodes
<1>38. Kept(r, t, m, s) /\ Len(r) = t.size
  <2>1. SamePlaces(t, rs)
    <3>1. t.variables_offset = rs.variables_offset /\ rs.variable_bytes <= t.variable_bytes
      <4>1. rs.variable_bytes = vb /\ t.variable_bytes = e /\ vb <= e
        BY <1>3, <1>8, <1>14, <1>26 DEF e, vb, g
      <4> QED BY <1>10, <1>18, <4>1
    <3>2. \A i \in 1 .. Len(rs.entries) : Length(rs, i) \in Nat
      BY <1>6, LayoutTypes
    <3>3. \A i \in 1 .. Len(rs.entries) :
            /\ Address(t, i) = Address(rs, i) /\ Length(rs, i) <= Length(t, i)
            /\ Held(t, i) <=> Held(rs, i)
      BY <1>17, <3>2 DEF Held
    <3>4. Len(rs.entries) <= Len(t.entries)
      BY <1>6, <1>15, LayoutTypes
    <3> QED BY <3>1, <3>3, <3>4 DEF SamePlaces
  <2>2. Kept(r, rs, m, s)
    BY <1>19 DEF Carried
  <2> QED BY <1>1, <1>6, <1>13, <1>21, <1>24, <2>1, <2>2, KeptThere
<1>39. Kept(y, t, m, s) /\ Len(y) = t.size
  <2> DEFINE tv == t.variables_offset
             tt == t.trailer_len
             tz == t.size
             to == t.index_offset
             ti == t.index_length
  <2>1. tv = v /\ tt = tl + d
    BY <1>14, <1>18 DEF tl
  <2>2. ASSUME NEW i \in 1 .. Len(s.entries), Held(t, i)
        PROVE  Beside(Address(t, i), Length(t, i), p, q)
    <3> DEFINE a == Address(t, i)  l == Length(t, i)
    <3>1. i \in 1 .. Len(t.entries)
      BY <1>6, <1>15 DEF cnt
    <3>2. Placed(tz, to, ti, tv, tt, a, l) /\ (a # 0 \/ l # 0)
      BY <1>12, <2>2, <3>1, SoundPlaces DEF Held
    <3> HIDE DEF a, l, tz, to, ti, tv, tt
    <3>3. a \in Nat /\ l \in Nat /\ (a + l <= tv \/ tv + tt <= a)
      BY <3>2 DEF Placed, Beside
    <3>4. Beside(a, l, p, q)
      BY <1>26, <1>27, <2>1, <3>3 DEF p, Beside
    <3> QED BY <3>4 DEF a, l
  <2>3. Beside(t.variables_offset + 4, s.variable_bytes, p, q)
    <3>1. Beside(v + 4, vb, p, q)
      BY <1>26, <1>27 DEF p, Beside
    <3> QED BY <1>18, <3>1 DEF v, vb
  <2> QED BY <1>1, <1>12, <1>25, <1>27, <1>28, <1>38, <2>2, <2>3, <1>24, <1>30, KeptPut
<1>40. Kept(w, t, m, s) /\ Len(w) = t.size
  <2>1. InSections(t, v, 4) /\ v \in Nat /\ 4 \in Nat
    BY <1>18, <1>26 DEF InSections
  <2> QED BY <1>1, <1>12, <1>24, <1>32, <1>35, <1>39, <2>1, KeptSections
<1>41. Kept(x, t, m, s)
  <2>1. InSections(t, 28, 4) /\ 28 \in Nat /\ 4 \in Nat
    BY DEF InSections
  <2> QED BY <1>1, <1>12, <1>36, <1>40, <2>1, KeptSections
<1>42. Spare(x, t)
  <2>1. Zero(r, c2, k)
    BY <1>19, <1>20, Zenon DEF IndexAfter, k
  <2>2. c2 + k <= Len(r) /\ c2 + k <= Len(y) /\ c2 + k <= Len(w)
    <3>1. c2 + k <= zr
      BY <1>25
    <3>2. Len(r) = zr /\ Len(y) = zr /\ Len(w) = zr
      BY <1>21, <1>30, <1>35
    <3> QED BY <3>1, <3>2, Zenon
  <2>3. Zero(y, c2, k)
    BY <1>25, <1>27, <1>28, <2>1, <2>2, ZeroBeside
  <2>4. Zero(w, c2, k)
    <3>1. 4 \in Nat
      OBVIOUS
    <3> QED BY <1>25, <1>26, <1>27, <1>32, <2>2, <2>3, <3>1, ZeroBeside
  <2>5. Zero(x, c2, k)
    <3> DEFINE a == 28  f == 4
    <3>1. a \in Nat /\ f \in Nat /\ OnlyAt(x, w, a, f) /\ Beside(c2, k, a, f)
      BY <1>25, <1>36
    <3> HIDE DEF a, f
    <3> QED BY <1>25, <1>27, <2>2, <2>4, <3>1, ZeroBeside
  <2>6. t.freelist_offset + 20 - Layout!IndexPoint(t) = k /\ Layout!IndexPoint(t) = c2
    <3>1. fr + 20 - c2 = k
      BY <1>20, Zenon DEF IndexAfter, k
    <3>2. Layout!IndexPoint(t) = c2 /\ t.freelist_offset = fr
      BY <1>15, <1>16 DEF c2, fr
    <3> QED BY <3>1, <3>2
  <2> QED BY <2>5, <2>6 DEF Spare
<1>43. Same(x, p, b, 0, q)
  <2>1. Same(w, p, y, p, q)
    <3>1. Beside(p, q, v, 4) /\ p + q <= Len(y)
      <4>1. Beside(p, q, v, 4)
        BY <1>25 DEF Beside
      <4>2. p + q <= zr /\ Len(y) = zr
        BY <1>25, <1>30
      <4> QED BY <4>1, <4>2, Zenon
    <3> QED BY <1>25, <1>27, <1>32, <3>1 DEF OnlyAt
  <2>2. Same(x, p, w, p, q)
    <3>1. Beside(p, q, 28, 4) /\ p + q <= Len(w)
      <4>1. Beside(p, q, 28, 4)
        BY <1>25, <1>27 DEF Beside
      <4>2. p + q <= zr /\ Len(w) = zr
        BY <1>25, <1>35
      <4> QED BY <4>1, <4>2, Zenon
    <3> QED BY <1>25, <1>27, <1>36, <3>1 DEF OnlyAt
  <2>3. Same(w, p, b, 0, q)
    BY <1>28, <2>1, SameTwice
  <2> QED BY <2>2, <2>3, SameTwice
<1>44. Get(x, p) = index /\ x[p + 5] = g /\ Same(x, p + 5, name, 0, g)
  <2>1. Get(x, p) = index
    <3>1. Same(x, p + 0, b, 0 + 0, 4)
      <4>1. 0 + 4 <= q /\ p \in Int /\ 0 \in Int /\ q \in Int /\ 0 \in Nat /\ 4 \in Nat
        BY <1>3, <1>25, <1>27
      <4> QED BY <1>43, <4>1, SamePart, Zenon
    <3>2. p + 0 = p /\ 0 + 0 = 0
      BY <1>25
    <3>3. Same(x, p, b, 0, 4) /\ p \in Int /\ 0 \in Int
      BY <1>25, <3>1, <3>2
    <3>4. Get(x, p) = Get(b, 0)
      BY <3>3, SameGet
    <3> QED BY <1>23, <3>4
  <2>2. x[p + 5] = g
    <3>1. 4 \in 0 .. q - 1
      BY <1>3, <1>27
    <3>2. x[p + 4 + 1] = b[0 + 4 + 1]
      BY <1>43, <3>1 DEF Same
    <3>3. p + 4 + 1 = p + 5 /\ 0 + 4 + 1 = 5
      BY <1>25
    <3> QED BY <1>23, <3>2, <3>3
  <2>3. Same(x, p + 5, b, 5, g)
    <3>1. Same(x, p + 5, b, 0 + 5, g)
      <4>1. 5 + g <= q /\ p \in Int /\ 0 \in Int /\ q \in Int /\ 5 \in Nat /\ g \in Nat
        BY <1>3, <1>25, <1>27
      <4> QED BY <1>43, <4>1, SamePart, Zenon
    <3>2. 0 + 5 = 5
      OBVIOUS
    <3> QED BY <3>1, <3>2
  <2> QED BY <1>23, <2>1, <2>2, <2>3, SameTwice
<1>45. Get(x, v) = n + 1
  <2>1. Same(x, v, w, v, 4)
    <3>1. Beside(v, 4, 28, 4) /\ v + 4 <= Len(w) /\ 4 \in Nat
      <4>1. Beside(v, 4, 28, 4)
        BY <1>26 DEF Beside
      <4>2. v + 4 <= zr /\ Len(w) = zr
        BY <1>25, <1>35
      <4> QED BY <4>1, <4>2
    <3> QED BY <1>26, <1>36, <3>1 DEF OnlyAt
  <2> QED BY <1>26, <1>32, <2>1, SameGet
<1>46. t.variable_bytes = s.variable_bytes + 5 + Stored(name)
  BY <1>14 DEF e, vb, g
<1>47. Walk(x, t, Longer(st, n, t.variable_bytes), n + 1)
  <2>1. Same(x, t.variables_offset + 4, m, s.variables_offset + 4, s.variable_bytes)
    BY <1>41 DEF Kept
  <2>2. x[t.variables_offset + 4 + s.variable_bytes + 5] = g
    BY <1>18, <1>44 DEF p, v, vb
  <2>3. t.variable_bytes = s.variable_bytes + 5 + g
    BY <1>46 DEF g
  <2>4. Get(x, t.variables_offset) = n + 1
    BY <1>18, <1>45 DEF v
  <2>5. Walk(x, t, Longer(st, n, s.variable_bytes + 5 + g), n + 1)
    BY <1>1, <1>3, <1>13, <2>1, <2>2, <2>3, <2>4, WalkLonger
  <2> QED BY <2>3, <2>5
<1>48. Variables(x, t, m, s, st, n, name, index)
  <2>1. t.variables_offset + 4 + s.variable_bytes = p
    BY <1>18 DEF p, v, vb
  <2>2. Get(x, p) = index /\ x[p + 5] = Stored(name) /\ Same(x, p + 5, name, 0, Stored(name))
    BY <1>44 DEF g
  <2> QED BY <1>46, <1>47, <2>1, <2>2 DEF Variables
<1>49. File(x, t)
  BY <1>12, <1>24, <1>37, <1>42, <1>47 DEF File, Walks
<1>50. \A i \in 1 .. Len(s.entries) : Length(t, i) = Length(s, i)
  BY <1>6, <1>9, <1>17 DEF cnt
<1>51. Len(t.entries) = Len(s.entries)
  BY <1>6, <1>15 DEF cnt
<1> QED BY <1>41, <1>48, <1>49, <1>50, <1>51

-----------------------------------------------------------------------------
(***************************************************************************)
(* bom_relocate_trailer.                                                   *)
(***************************************************************************)

(* The loop of bom_relocate_trailer is a function of the entries done. *)
IsFollowLoop(f, m, e, d, n) ==
  f = [i \in 0 .. n |-> IF i = 0 THEN m ELSE Followed(f[i - 1], i - 1, e, d)]

(* The recursive function of EntriesFollowed is defined by its two equations. *)
LEMMA FollowLoopExists ==
  ASSUME NEW m, NEW e, NEW d, NEW N \in Nat
  PROVE  \E f : IsFollowLoop(f, m, e, d, N)
<1> DEFINE S == {n \in Nat : \E f : IsFollowLoop(f, m, e, d, n)}
           F(x, i) == Followed(x, i, e, d)
<1>1. 0 \in S
  <2> DEFINE f == [i \in 0 .. 0 |-> m]
  <2>1. IsFollowLoop(f, m, e, d, 0)
    BY DEF IsFollowLoop
  <2> QED BY <2>1
<1>2. ASSUME NEW n \in Nat, n \in S PROVE n + 1 \in S
  <2>1. PICK f : IsFollowLoop(f, m, e, d, n)
    BY <1>2
  <2> DEFINE g == [k \in 0 .. n + 1 |-> IF k \in 0 .. n THEN f[k] ELSE F(f[n], n)]
  <2>2. \A k \in 0 .. n : f[k] = IF k = 0 THEN m ELSE F(f[k - 1], k - 1)
    BY <2>1 DEF IsFollowLoop
  <2> HIDE DEF F
  <2>3. ASSUME NEW k \in 0 .. n + 1
        PROVE  g[k] = IF k = 0 THEN m ELSE F(g[k - 1], k - 1)
    <3>1. CASE k = 0
      BY <2>2, <3>1
    <3>2. CASE k \in 1 .. n
      <4>1. k \in 0 .. n /\ k - 1 \in 0 .. n /\ k # 0 /\ k - 1 \in 0 .. n + 1
        BY <3>2
      <4> QED BY <2>2, <4>1
    <3>3. CASE k = n + 1
      <4>1. k \notin 0 .. n /\ k - 1 \in 0 .. n /\ k # 0 /\ k - 1 \in 0 .. n + 1 /\ k - 1 = n
        BY <3>3
      <4> QED BY <4>1
    <3> QED BY <3>1, <3>2, <3>3
  <2>4. IsFollowLoop(g, m, e, d, n + 1)
    <3> DEFINE h == [k \in 0 .. n + 1 |-> IF k = 0 THEN m ELSE F(g[k - 1], k - 1)]
    <3>1. DOMAIN g = 0 .. n + 1 /\ DOMAIN h = 0 .. n + 1 /\ \A k \in 0 .. n + 1 : g[k] = h[k]
      BY <2>3
    <3>2. g = [k \in 0 .. n + 1 |-> g[k]] /\ h = [k \in 0 .. n + 1 |-> h[k]]
      OBVIOUS
    <3>3. g = h
      BY <3>1, <3>2
    <3> QED BY <3>3 DEF IsFollowLoop, F
  <2> HIDE DEF g
  <2> QED BY <2>4
<1> HIDE DEF S
<1>3. \A n \in Nat : n \in S
  BY <1>1, <1>2, Induction
<1> QED BY <1>3 DEF S

(* Where the address a of an entry with the length l points to afterwards. *)
Follow(a, l, e, d) == IF a >= e /\ (a # 0 \/ l # 0) THEN a - d ELSE a

(* After i turns the first i addresses have followed, and nothing else     *)
(* has changed.                                                            *)
FollowedUpTo(x, m, e, d, i) ==
  /\ x \in Seq(Byte) /\ Len(x) = Len(m)
  /\ \A j \in 0 .. Count(m) - 1 :
       IF j < i THEN Get(x, EntryAt(m, j)) = Follow(EntryAddress(m, j), EntryLength(m, j), e, d)
                ELSE Same(x, EntryAt(m, j), m, EntryAt(m, j), 4)
  /\ \A c \in Nat, n \in Nat :
       /\ c + n <= Len(m)
       /\ \A j \in 0 .. Count(m) - 1 : c + n <= EntryAt(m, j) \/ EntryAt(m, j) + 4 <= c
       => Same(x, c, m, c, n)

(* One turn of the loop lowers one address, or none, and leaves the others. *)
LEMMA FollowLoopStep ==
  ASSUME NEW m, IndexFits(m), 20 <= IndexOffset(m), NEW e, NEW d, NEW i \in 0 .. Count(m) - 1, NEW x,
         Follow(EntryAddress(m, i), EntryLength(m, i), e, d) \in Word32,
         FollowedUpTo(x, m, e, d, i)
  PROVE  FollowedUpTo(Followed(x, i, e, d), m, e, d, i + 1)
<1> DEFINE a == EntryAt(m, i)
           v == Follow(EntryAddress(m, i), EntryLength(m, i), e, d)
           y == Followed(x, i, e, d)
<1>1. /\ a \in Nat /\ a + 8 <= Len(m) /\ Len(m) \in Nat /\ Count(m) \in Nat
      /\ \A j \in 0 .. Count(m) - 1 :
           /\ EntryAt(m, j) \in Nat /\ EntryAt(m, j) + 8 <= Len(m)
           /\ j # i => EntryAt(m, j) + 8 <= a \/ a + 8 <= EntryAt(m, j)
  BY EntryPlaces DEF IndexFits
<1>13. \A j \in 0 .. Count(m) - 1 : 24 <= EntryAt(m, j)
  <2>1. IndexOffset(m) \in Nat /\ 24 <= IndexOffset(m) + 4
    BY DEF IndexFits
  <2>2. \A j \in 0 .. Count(m) - 1 : IndexOffset(m) + 4 <= EntryAt(m, j) /\ EntryAt(m, j) \in Nat
    BY EntryPlaces
  <2> QED BY <2>1, <2>2
<1>2. x \in Seq(Byte) /\ Len(x) = Len(m) /\ Same(x, a, m, a, 4)
  BY <1>1 DEF FollowedUpTo
<1>3. Get(x, a) = EntryAddress(m, i)
  BY <1>1, <1>2, SameGet DEF EntryAddress
<1>8. IndexOffset(x) = IndexOffset(m)
  <2>1. Same(x, 16, m, 16, 4)
    <3>1. 16 \in Nat /\ 4 \in Nat /\ 16 + 4 <= Len(m)
          /\ \A j \in 0 .. Count(m) - 1 : 16 + 4 <= EntryAt(m, j)
      BY <1>1, <1>13
    <3> QED BY <3>1 DEF FollowedUpTo
  <2> QED BY <2>1, SameGet DEF IndexOffset, IndexOffsetAt
<1>9. EntryAt(x, i) = a
  BY <1>8, Zenon DEF EntryAt
<1>10. Get(x, a + 4) = EntryLength(m, i)
  <2>1. Same(x, a + 4, m, a + 4, 4)
    <3> DEFINE b == a + 4
    <3>1. b \in Nat /\ 4 \in Nat /\ b + 4 <= Len(m)
          /\ \A j \in 0 .. Count(m) - 1 : b + 4 <= EntryAt(m, j) \/ EntryAt(m, j) + 4 <= b
      <4> HIDE DEF a
      <4> SUFFICES ASSUME NEW j \in 0 .. Count(m) - 1
                   PROVE  b + 4 <= EntryAt(m, j) \/ EntryAt(m, j) + 4 <= b
        BY <1>1
      <4>1. CASE j = i
        BY <1>1, <4>1 DEF a
      <4>2. CASE j # i
        BY <1>1, <4>2
      <4> QED BY <4>1, <4>2
    <3> HIDE DEF b
    <3>2. Same(x, b, m, b, 4)
      BY <3>1 DEF FollowedUpTo
    <3> QED BY <3>2 DEF b
  <2> QED BY <1>1, <2>1, SameGet DEF EntryLength
<1>11. EntryAddress(x, i) = EntryAddress(m, i) /\ EntryLength(x, i) = EntryLength(m, i)
  BY <1>3, <1>9, <1>10, Zenon DEF EntryAddress, EntryLength
<1> HIDE DEF v, a
<1>5. /\ y \in Seq(Byte) /\ Len(y) = Len(m) /\ Get(y, a) = v
      /\ \A c \in Nat, n \in Nat : c + n <= Len(m) /\ (c + n <= a \/ a + 4 <= c)
           => Same(y, c, x, c, n)
  <2>1. CASE EntryAddress(m, i) >= e /\ (EntryAddress(m, i) # 0 \/ EntryLength(m, i) # 0)
    <3>1. y = Put(x, a, Word(v))
      BY <1>9, <1>11, <2>1 DEF Followed, Follow, v
    <3>2. a + 4 <= Len(x) /\ v \in Word32
      BY <1>1, <1>2 DEF v
    <3> HIDE DEF y
    <3> QED BY <1>1, <1>2, <3>1, <3>2, PutWord
  <2>2. CASE ~(EntryAddress(m, i) >= e /\ (EntryAddress(m, i) # 0 \/ EntryLength(m, i) # 0))
    <3>1. y = x /\ v = EntryAddress(m, i)
      BY <1>11, <2>2 DEF Followed, Follow, v
    <3> HIDE DEF y
    <3> QED BY <1>2, <1>3, <3>1 DEF Same
  <2> QED BY <2>1, <2>2
<1> HIDE DEF y
<1>14. \A c \in Nat, n \in Nat : c + n <= Len(m) /\ (c + n <= a \/ a + 4 <= c) => Same(y, c, x, c, n)
  BY <1>5
<1>6. ASSUME NEW j \in 0 .. Count(m) - 1
      PROVE  IF j < i + 1 THEN Get(y, EntryAt(m, j)) = Follow(EntryAddress(m, j), EntryLength(m, j), e, d)
                          ELSE Same(y, EntryAt(m, j), m, EntryAt(m, j), 4)
  <2>1. CASE j = i
    <3>1. j < i + 1
      BY <2>1
    <3> QED BY <1>5, <2>1, <3>1 DEF a, v
  <2>2. CASE j # i
    <3>1. Same(y, EntryAt(m, j), x, EntryAt(m, j), 4)
      <4> DEFINE b == EntryAt(m, j)
      <4>1. b \in Nat /\ b + 8 <= Len(m) /\ (b + 8 <= a \/ a + 8 <= b)
        BY <1>1, <2>2
      <4> HIDE DEF b
      <4>2. b \in Nat /\ b + 4 <= Len(m) /\ 4 \in Nat /\ (b + 4 <= a \/ a + 4 <= b)
        BY <1>1, <4>1
      <4>3. Same(y, b, x, b, 4)
        BY <1>14, <4>2
      <4> QED BY <4>3 DEF b
    <3>2. CASE j < i
      <4>1. j < i + 1
        BY <3>2
      <4>2. Get(y, EntryAt(m, j)) = Get(x, EntryAt(m, j))
        BY <1>1, <3>1, SameGet
      <4>3. Get(x, EntryAt(m, j)) = Follow(EntryAddress(m, j), EntryLength(m, j), e, d)
        BY <3>2 DEF FollowedUpTo
      <4> QED BY <4>1, <4>2, <4>3
    <3>3. CASE ~(j < i)
      <4>1. ~(j < i + 1)
        BY <2>2, <3>3
      <4>2. Same(x, EntryAt(m, j), m, EntryAt(m, j), 4)
        BY <3>3 DEF FollowedUpTo
      <4>3. Same(y, EntryAt(m, j), m, EntryAt(m, j), 4)
        BY <3>1, <4>2, SameTwice
      <4> QED BY <4>1, <4>3
    <3> QED BY <3>2, <3>3
  <2> QED BY <2>1, <2>2
<1>7. ASSUME NEW c \in Nat, NEW n \in Nat, c + n <= Len(m),
             \A j \in 0 .. Count(m) - 1 : c + n <= EntryAt(m, j) \/ EntryAt(m, j) + 4 <= c
      PROVE  Same(y, c, m, c, n)
  <2>1. Same(x, c, m, c, n)
    BY <1>7 DEF FollowedUpTo
  <2>2. Same(y, c, x, c, n)
    BY <1>5, <1>7 DEF a
  <2> QED BY <2>1, <2>2, SameTwice
<1>12. FollowedUpTo(y, m, e, d, i + 1)
  BY <1>5, <1>6, <1>7 DEF FollowedUpTo
<1> QED BY <1>12 DEF y

(* So the loop of bom_relocate_trailer takes every block that moved down     *)
(* once.                                                                     *)
LEMMA EntriesFollowedAll ==
  ASSUME NEW m, IndexFits(m), 20 <= IndexOffset(m), NEW e, NEW d,
         \A i \in 0 .. Count(m) - 1 :
           Follow(EntryAddress(m, i), EntryLength(m, i), e, d) \in Word32
  PROVE  FollowedUpTo(EntriesFollowed(m, e, d)[Count(m)], m, e, d, Count(m))
<1> DEFINE N == Count(m)
           f == CHOOSE g : IsFollowLoop(g, m, e, d, N)
           S == {i \in Nat : i <= N => FollowedUpTo(f[i], m, e, d, i)}
<1>1. N \in Nat
  BY DEF IndexFits
<1>2. IsFollowLoop(f, m, e, d, N)
  BY <1>1, FollowLoopExists
<1>3. EntriesFollowed(m, e, d) = f
  BY DEF EntriesFollowed, IsFollowLoop
<1> HIDE DEF f
<1>4. \A i \in 0 .. N : f[i] = IF i = 0 THEN m ELSE Followed(f[i - 1], i - 1, e, d)
  BY <1>2 DEF IsFollowLoop
<1>5. 0 \in S
  <2>1. f[0] = m
    BY <1>1, <1>4
  <2>2. FollowedUpTo(m, m, e, d, 0)
    BY <1>1 DEF FollowedUpTo, IndexFits, Same
  <2> QED BY <2>1, <2>2
<1>6. ASSUME NEW i \in Nat, i \in S PROVE i + 1 \in S
  <2> SUFFICES ASSUME i + 1 <= N PROVE FollowedUpTo(f[i + 1], m, e, d, i + 1)
    OBVIOUS
  <2>1. i \in 0 .. N - 1 /\ i + 1 \in 0 .. N /\ i + 1 # 0 /\ i + 1 - 1 = i /\ i <= N
    BY <1>1
  <2>2. f[i + 1] = Followed(f[i], i, e, d)
    BY <1>4, <2>1
  <2>3. FollowedUpTo(f[i], m, e, d, i)
    BY <1>6, <2>1
  <2> QED BY <2>1, <2>2, <2>3, FollowLoopStep
<1> HIDE DEF S
<1>7. N \in S
  BY <1>1, <1>5, <1>6, Induction
<1> QED BY <1>1, <1>3, <1>7 DEF S

(* The sections of a layout are elsewhere. *)
Elsewhere(s, z, o, v, f, q) ==
  [s EXCEPT !.size = z, !.index_offset = o, !.variables_offset = v, !.freelist_offset = f,
            !.entries = q]

(* The fields of a layout whose sections are elsewhere. *)
LEMMA ElsewhereFields ==
  ASSUME NEW s \in Layout!Layouts, NEW z, NEW o, NEW v, NEW f, NEW q,
         NEW t, t = Elsewhere(s, z, o, v, f, q)
  PROVE  /\ t.size = z /\ t.index_offset = o /\ t.variables_offset = v /\ t.freelist_offset = f
         /\ t.entries = q /\ t.index_length = s.index_length /\ t.trailer_len = s.trailer_len
         /\ t.variable_bytes = s.variable_bytes /\ t.block_count = s.block_count
BY DEF Elsewhere, Layout!Layouts

FollowedEntries(s, e, d) ==
  [i \in DOMAIN s.entries |->
     IF Layout!MovesWithData(s, s.entries[i])
     THEN [address |-> s.entries[i].address - d, length |-> s.entries[i].length]
     ELSE s.entries[i]]

(* The entries of the relocated layout: the addresses follow the data. *)
LEMMA EntriesFollow ==
  ASSUME NEW s \in Layout!Layouts, NEW e, e = s.variables_offset + s.trailer_len, NEW d \in Int,
         NEW t, t.entries = FollowedEntries(s, e, d)
  PROVE  \A i \in 1 .. Len(s.entries) :
           /\ Address(t, i) = Follow(Address(s, i), Length(s, i), e, d)
           /\ Length(t, i) = Length(s, i)
<1> SUFFICES ASSUME NEW i \in 1 .. Len(s.entries)
             PROVE  /\ Address(t, i) = Follow(Address(s, i), Length(s, i), e, d)
                    /\ Length(t, i) = Length(s, i)
  OBVIOUS
<1> DEFINE b == s.entries[i]
<1>1. b \in Layout!Entries /\ i \in DOMAIN s.entries
  BY LayoutTypes, ElementOfSeq
<1>2. Layout!MovesWithData(s, b) <=> Address(s, i) >= e /\ (Address(s, i) # 0 \/ Length(s, i) # 0)
  <2>1. Layout!IsBlock(b) <=> Held(s, i)
    BY <1>1, HeldIsBlock
  <2>2. Layout!VariablesEnd(s) = e
    BY DEF Layout!VariablesEnd
  <2>3. Layout!MovesWithData(s, b) <=> Held(s, i) /\ Address(s, i) >= e
    BY <2>1, <2>2, Zenon DEF Layout!MovesWithData, Address
  <2> QED BY <2>3 DEF Held
<1>3. FollowedEntries(s, e, d)[i] = IF Layout!MovesWithData(s, b)
                                    THEN [address |-> b.address - d, length |-> b.length] ELSE b
  BY <1>1, Zenon DEF FollowedEntries
<1>4. CASE Layout!MovesWithData(s, b)
  <2>1. t.entries[i] = [address |-> b.address - d, length |-> b.length]
    BY <1>3, <1>4
  <2>2. Address(t, i) = b.address - d /\ Length(t, i) = b.length
    BY <2>1 DEF Address, Length
  <2>3. b.address = Address(s, i) /\ b.length = Length(s, i)
    BY DEF Address, Length
  <2> QED BY <1>2, <1>4, <2>2, <2>3 DEF Follow
<1>5. CASE ~Layout!MovesWithData(s, b)
  <2>1. t.entries[i] = b
    BY <1>3, <1>5
  <2>2. Address(t, i) = Address(s, i) /\ Length(t, i) = Length(s, i)
    BY <2>1, Zenon DEF Address, Length
  <2> QED BY <1>2, <1>5, <2>2 DEF Follow
<1> QED BY <1>4, <1>5

(* Where a relocation puts the sections: e is where the trailer ends now,  *)
(* d how far the data moves down, w and y where the variables and the      *)
(* index go.                                                               *)
RelocatesTo(t, s, e, d, w, y) ==
  /\ t.size = y + s.index_length /\ t.index_offset = y /\ t.variables_offset = w
  /\ t.freelist_offset = y + (s.freelist_offset - s.index_offset)
  /\ t.index_length = s.index_length /\ t.trailer_len = s.trailer_len
  /\ t.variable_bytes = s.variable_bytes /\ t.block_count = s.block_count
  /\ Len(t.entries) = Len(s.entries)
  /\ \A i \in 1 .. Len(s.entries) :
       /\ Address(t, i) = Follow(Address(s, i), Length(s, i), e, d)
       /\ Length(t, i) = Length(s, i)

(* The numbers of it. *)
Going(z, o, il, v, tl, fl, c, e, d, w, y) ==
  /\ z \in Nat /\ o \in Nat /\ il \in Nat /\ v \in Nat /\ tl \in Nat /\ fl \in Nat /\ c \in Nat
  /\ e \in Nat /\ d \in Int /\ w \in Nat /\ y \in Nat
  /\ e = v + tl /\ e < z /\ d = e - o /\ w = z - d /\ 32 <= o /\ 32 <= v /\ o < w
  /\ w + tl <= y /\ z <= y + il /\ o + il <= z /\ o + 4 <= c /\ c <= fl /\ fl + 20 = o + il

(* Where bom_relocate_trailer puts the sections, as numbers. *)
LEMMA RelocatedPlaces ==
  ASSUME NEW s, Layout!SoundLayout(s), NEW e, e = s.variables_offset + s.trailer_len, e < s.size,
         NEW d, d = e - s.index_offset, NEW w, w = s.size - d,
         NEW y, y = Layout!RoundUp(w + s.trailer_len),
         NEW t, t = Layout!RelocateTrailer(s)
  PROVE  /\ RelocatesTo(t, s, e, d, w, y) /\ t \in Layout!Layouts
         /\ Going(s.size, s.index_offset, s.index_length, s.variables_offset, s.trailer_len,
                  s.freelist_offset, Layout!IndexPoint(s), e, d, w, y)
<1> DEFINE z == s.size  o == s.index_offset  il == s.index_length  v == s.variables_offset
           tl == s.trailer_len  vb == s.variable_bytes  fl == s.freelist_offset
           c == Layout!IndexPoint(s)
<1>1. s \in Layout!Layouts /\ Numbers(z, o, il, v, tl, vb, fl, c)
  BY SoundSections, SoundNumbers
<1>2. t = Elsewhere(s, y + il, y, w, y + (fl - o), FollowedEntries(s, e, d))
  <2>1. ~(Layout!VariablesEnd(s) >= s.size) /\ Layout!VariablesEnd(s) = e
    <3>1. e \in Nat /\ z \in Nat /\ e < z
      <4> HIDE DEF z
      <4>1. z \in Nat /\ v \in Nat /\ tl \in Nat
        BY <1>1 DEF Numbers
      <4>2. e = v + tl
        OBVIOUS
      <4> HIDE DEF v, tl
      <4>3. e \in Nat
        BY <4>1, <4>2
      <4> QED BY <4>1, <4>3 DEF z
    <3>2. Layout!VariablesEnd(s) = e
      BY DEF Layout!VariablesEnd
    <3> HIDE DEF z
    <3>3. ~(e >= z)
      BY <3>1
    <3> QED BY <3>2, <3>3 DEF z
  <2> QED BY <2>1, Zenon DEF Layout!RelocateTrailer, Elsewhere, FollowedEntries
<1>3. t.size = y + il /\ t.index_offset = y /\ t.variables_offset = w
  BY <1>1, <1>2, ElsewhereFields
<1>4. t.freelist_offset = y + (fl - o) /\ t.entries = FollowedEntries(s, e, d) /\ t.index_length = il
  BY <1>1, <1>2, ElsewhereFields
<1>5. t.trailer_len = tl /\ t.variable_bytes = vb /\ t.block_count = s.block_count
  BY <1>1, <1>2, ElsewhereFields
<1>6. Layout!SoundLayout(t) /\ z <= t.size /\ t \in Layout!Layouts
  BY RelocateStays, SoundSections
<1>7. e = v + tl /\ e < z /\ d = e - o /\ w = z - d
  OBVIOUS
<1>8. y = Layout!RoundUp(w + tl)
  OBVIOUS
<1> HIDE DEF z, o, il, v, tl, vb, fl, c
<1>9. /\ z \in Nat /\ o \in Nat /\ il \in Nat /\ v \in Nat /\ tl \in Nat /\ fl \in Nat
      /\ c \in Nat /\ 32 <= o /\ o + il <= z /\ 32 <= v /\ v + tl <= z
      /\ o + 4 <= c /\ c <= fl /\ fl + 20 = o + il
  BY <1>1 DEF Numbers
<1>10. e \in Nat /\ d \in Int /\ w \in Nat /\ o < w /\ w + tl \in Nat
  BY <1>7, <1>9
<1>11. y \in Nat /\ w + tl <= y
  <2> DEFINE k == w + tl
  <2>1. k \in Nat
    BY <1>10
  <2> HIDE DEF k
  <2>2. Geo!RoundUp(k) \in Nat /\ k <= Geo!RoundUp(k)
    BY <2>1, Geo!RoundUpBounds
  <2>3. Geo!RoundUp(k) = Layout!RoundUp(k)
    BY DEF Geo!RoundUp, Layout!RoundUp, Geo!Alignment, Layout!Alignment
  <2>4. y = Layout!RoundUp(k)
    BY <1>8 DEF k
  <2>5. y \in Nat /\ k <= y
    BY <2>2, <2>3, <2>4
  <2> QED BY <2>5 DEF k
<1>12. z <= y + il
  BY <1>3, <1>6
<1>13. Going(z, o, il, v, tl, fl, c, e, d, w, y)
  BY <1>7, <1>9, <1>10, <1>11, <1>12, Zenon DEF Going
<1>14. \A i \in 1 .. Len(s.entries) :
         /\ Address(t, i) = Follow(Address(s, i), Length(s, i), e, d)
         /\ Length(t, i) = Length(s, i)
  BY <1>1, <1>4, <1>7, <1>10, EntriesFollow DEF v, tl
<1>15. Len(t.entries) = Len(s.entries)
  <2>1. t.entries = [i \in 1 .. Len(s.entries) |-> t.entries[i]] /\ Len(s.entries) \in Nat
    BY <1>1, <1>4, LayoutTypes DEF FollowedEntries
  <2>2. DOMAIN t.entries = 1 .. Len(s.entries)
    BY <2>1
  <2>3. DOMAIN t.entries = 1 .. Len(t.entries) /\ Len(t.entries) \in Nat
    BY <1>6, LayoutTypes
  <2> DEFINE a == Len(t.entries)  b == Len(s.entries)
  <2>4. a \in Nat /\ b \in Nat /\ 1 .. a = 1 .. b
    BY <2>1, <2>2, <2>3
  <2> HIDE DEF a, b
  <2>5. a = b
    <3>1. CASE a < b
      <4>1. b \in 1 .. b /\ b \notin 1 .. a
        BY <2>4, <3>1
      <4> QED BY <2>4, <4>1
    <3>2. CASE b < a
      <4>1. a \in 1 .. a /\ a \notin 1 .. b
        BY <2>4, <3>2
      <4> QED BY <2>4, <4>1
    <3> QED BY <2>4, <3>1, <3>2
  <2> QED BY <2>5 DEF a, b
<1>16. RelocatesTo(t, s, e, d, w, y)
  BY <1>3, <1>4, <1>5, <1>14, <1>15, Zenon DEF RelocatesTo, il, tl, vb, fl, o
<1> QED BY <1>6, <1>13, <1>16 DEF z, o, il, v, tl, vb, fl, c

(* Bytes that are copied from one memory into another. *)
LEMMA PutBytesOf ==
  ASSUME NEW x \in Seq(Byte), NEW m \in Seq(Byte), NEW a \in Nat, NEW b \in Nat, NEW n \in Nat,
         a + n <= Len(x), b + n <= Len(m), NEW y, y = Put(x, a, Bytes(m, b, n))
  PROVE  OnlyAt(y, x, a, n) /\ Same(y, a, m, b, n)
<1> DEFINE q == Bytes(m, b, n)
<1>1. Same(m, b, m, b, n)
  BY DEF Same
<1>2. q \in Seq(Byte) /\ Len(q) = n /\ \A k \in 1 .. n : q[k] = m[b + k]
  BY <1>1, SameBytes
<1>3. y = Put(x, a, q)
  OBVIOUS
<1> HIDE DEF q
<1>4. OnlyAt(y, x, a, n) /\ Same(y, a, q, 0, n)
  BY <1>2, <1>3, PutOnlyAt
<1>5. Same(q, 0, m, b, n)
  <2> SUFFICES ASSUME NEW k \in 0 .. n - 1 PROVE q[0 + k + 1] = m[b + k + 1]
    BY DEF Same
  <2>1. k + 1 \in 1 .. n /\ 0 + k + 1 = k + 1 /\ b + (k + 1) = b + k + 1
    OBVIOUS
  <2>2. q[k + 1] = m[b + (k + 1)]
    BY <1>2, <2>1
  <2> QED BY <2>1, <2>2
<1> QED BY <1>4, <1>5, SameTwice

(* The larger memory begins with what was in the smaller one. *)
LEMMA GrownBytes ==
  ASSUME NEW m \in Seq(Byte), NEW z \in Nat, Len(m) <= z, NEW junk \in Byte,
         NEW r, r = Grown(m, z, junk)
  PROVE  r \in Seq(Byte) /\ Len(r) = z /\ Same(r, 0, m, 0, Len(m))
<1> DEFINE l == Len(m)  d == z - l
<1>1. l \in Nat /\ d \in Nat
  BY LenProperties
<1>2. CASE d = 0
  <2>1. r = m /\ Len(m) = z
    BY <1>1, <1>2 DEF Grown
  <2> QED BY <2>1 DEF Same
<1>3. CASE d # 0
  <2> DEFINE t == [k \in 1 .. z - Len(m) |-> junk]
  <2>1. r = m \o t
    BY <1>1, <1>3 DEF Grown, MemoryResize
  <2>2. t \in Seq(Byte) /\ Len(t) = d
    BY <1>1, IsASeq
  <2> HIDE DEF t
  <2>3. Begins(r, m) /\ Len(r) = Len(m) + Len(t)
    BY <2>1, <2>2, JoinedBegins
  <2>4. r \in Seq(Byte) /\ Same(r, 0, m, 0, Len(m))
    BY <2>3 DEF Begins
  <2>5. Len(r) = z
    BY <1>1, <2>2, <2>3
  <2> QED BY <2>4, <2>5
<1> QED BY <1>2, <1>3

(* The copies of bom_relocate_trailer. *)
Copied(m, z, o, il, v, tl, e, w, y, junk) ==
  Put(Put(Put(Put(Grown(m, y + il, junk), o, Bytes(m, e, z - e)), w, Bytes(m, v, tl)),
          w + tl, Zeros(y - (w + tl))),
      y, Bytes(m, o, il))

(* What has been copied: the bytes in front of the index stay, the data    *)
(* moves down, and the variables and the index are behind it.              *)
CopiesOf(x, m, z, o, il, v, tl, e, d, w, y) ==
  /\ x \in Seq(Byte) /\ Len(x) = y + il
  /\ \A c \in Nat, n \in Nat : c + n <= o => Same(x, c, m, c, n)
  /\ \A c \in Nat, n \in Nat : e <= c /\ c + n <= z => Same(x, c - d, m, c, n)
  /\ Same(x, w, m, v, tl) /\ Same(x, y, m, o, il)

(* r here is the grown memory, from which the data is moved. *)
LEMMA CopiedBytes ==
  ASSUME NEW m \in Seq(Byte), NEW z, z = Len(m), NEW o, NEW il, NEW v, NEW tl, NEW fl, NEW ip,
         NEW e, NEW d, NEW w, NEW y, Going(z, o, il, v, tl, fl, ip, e, d, w, y),
         NEW junk \in Byte
  PROVE  CopiesOf(Copied(m, z, o, il, v, tl, e, w, y, junk), m, z, o, il, v, tl, e, d, w, y)
<1> DEFINE r == Grown(m, y + il, junk)
           a == Put(r, o, Bytes(m, e, z - e))
           b == Put(a, w, Bytes(m, v, tl))
           f == Put(b, w + tl, Zeros(y - (w + tl)))
           x == Put(f, y, Bytes(m, o, il))
           u == w + tl
           g == y - u
           k == z - e
<1>1. /\ z \in Nat /\ o \in Nat /\ il \in Nat /\ v \in Nat /\ tl \in Nat
      /\ e \in Nat /\ d \in Int /\ w \in Nat /\ y \in Nat
      /\ e = v + tl /\ e < z /\ d = e - o /\ w = z - d /\ o < w
      /\ w + tl <= y /\ z <= y + il /\ o + il <= z
  BY DEF Going
<1>2. u \in Nat /\ g \in Nat /\ k \in Nat /\ u = w + tl /\ u + g = y /\ o + k = w /\ e + k = z
      /\ y + il \in Nat
  BY <1>1
<1>3. r \in Seq(Byte) /\ Len(r) = y + il /\ Same(r, 0, m, 0, z)
  BY <1>1, <1>2, GrownBytes
<1>0. z = Len(m)
  OBVIOUS
<1> HIDE DEF r, g, k, u
<1>4. OnlyAt(a, r, o, k) /\ Same(a, o, m, e, k)
  <2>1. o + k <= Len(r) /\ e + k <= Len(m)
    <3>1. o + k <= y + il
      BY <1>1, <1>2
    <3> QED BY <1>0, <1>1, <1>2, <1>3, <3>1
  <2>2. a = Put(r, o, Bytes(m, e, k))
    BY DEF k
  <2> QED BY <1>1, <1>2, <1>3, <2>1, <2>2, PutBytesOf
<1> HIDE DEF a
<1>5. a \in Seq(Byte) /\ Len(a) = y + il
  BY <1>3, <1>4 DEF OnlyAt
<1>6. OnlyAt(b, a, w, tl) /\ Same(b, w, m, v, tl)
  <2>1. w + tl <= Len(a) /\ v + tl <= Len(m)
    <3>1. w + tl <= y + il
      BY <1>1
    <3> QED BY <1>0, <1>1, <1>5, <3>1
  <2> QED BY <1>1, <1>5, <2>1, PutBytesOf
<1> HIDE DEF b
<1>7. b \in Seq(Byte) /\ Len(b) = y + il
  BY <1>5, <1>6 DEF OnlyAt
<1>8. OnlyAt(f, b, u, g)
  <2> DEFINE q == Zeros(g)
  <2>1. q \in Seq(Byte) /\ Len(q) = g
    BY <1>2, ZerosAre
  <2>2. f = Put(b, u, q)
    BY DEF u, g
  <2>3. u + g <= Len(b)
    <3>1. u + g <= y + il
      BY <1>1, <1>2
    <3> QED BY <1>7, <3>1
  <2> HIDE DEF q, f
  <2> QED BY <1>2, <1>7, <2>1, <2>2, <2>3, PutOnlyAt
<1> HIDE DEF f
<1>9. f \in Seq(Byte) /\ Len(f) = y + il
  BY <1>7, <1>8 DEF OnlyAt
<1>10. OnlyAt(x, f, y, il) /\ Same(x, y, m, o, il)
  <2>1. y + il <= Len(f) /\ o + il <= Len(m)
    BY <1>0, <1>1, <1>2, <1>9
  <2> QED BY <1>1, <1>9, <2>1, PutBytesOf
<1> HIDE DEF x
<1>11. x \in Seq(Byte) /\ Len(x) = y + il
  BY <1>9, <1>10 DEF OnlyAt
<1>12. ASSUME NEW c \in Nat, NEW n \in Nat, c + n <= y + il,
              Beside(c, n, u, g), Beside(c, n, y, il)
       PROVE  Same(x, c, b, c, n)
  <2>1. Same(f, c, b, c, n)
    <3>1. c + n <= Len(b)
      BY <1>7, <1>12
    <3> QED BY <1>8, <1>12, <3>1 DEF OnlyAt
  <2>2. Same(x, c, f, c, n)
    <3>1. c + n <= Len(f)
      BY <1>9, <1>12
    <3> QED BY <1>10, <1>12, <3>1 DEF OnlyAt
  <2> QED BY <2>1, <2>2, SameTwice
<1>13. ASSUME NEW c \in Nat, NEW n \in Nat, c + n <= w
       PROVE  Same(x, c, a, c, n)
  <2>1. c + n <= y + il /\ Beside(c, n, u, g) /\ Beside(c, n, y, il) /\ Beside(c, n, w, tl)
    <3>1. w \in Nat /\ tl \in Nat /\ y \in Nat /\ il \in Nat /\ u = w + tl /\ w + tl <= y
      BY <1>1, <1>2, Zenon
    <3>2. c + n <= y + il /\ c + n <= u /\ c + n <= y
      BY <1>13, <3>1
    <3> QED BY <1>13, <3>2, Zenon DEF Beside
  <2>2. Same(x, c, b, c, n)
    BY <1>12, <2>1
  <2>3. Same(b, c, a, c, n)
    <3>1. c + n <= Len(a)
      BY <1>5, <2>1
    <3> QED BY <1>6, <2>1, <3>1 DEF OnlyAt
  <2> QED BY <2>2, <2>3, SameTwice
<1>14. Same(x, w, m, v, tl)
  <2>1. w + tl <= y + il /\ Beside(w, tl, u, g) /\ Beside(w, tl, y, il)
    BY <1>1, <1>2 DEF Beside
  <2>2. Same(x, w, b, w, tl)
    BY <1>1, <1>12, <2>1
  <2> QED BY <1>6, <2>2, SameTwice
<1>15. ASSUME NEW c \in Nat, NEW n \in Nat, c + n <= o
       PROVE  Same(x, c, m, c, n)
  <2>1. c + n <= w /\ Beside(c, n, o, k) /\ c + n <= y + il /\ c + n <= z
    <3>1. /\ w \in Nat /\ tl \in Nat /\ y \in Nat /\ il \in Nat /\ z \in Nat /\ o \in Nat
          /\ o < w /\ w + tl <= y /\ o + il <= z
      BY <1>1, Zenon
    <3>2. c + n <= w /\ c + n <= y + il /\ c + n <= z
      BY <1>15, <3>1
    <3> QED BY <1>15, <3>2, Zenon DEF Beside
  <2>2. Same(x, c, a, c, n)
    BY <1>13, <2>1
  <2>3. Same(a, c, r, c, n)
    <3>1. c + n <= Len(r)
      BY <1>3, <2>1
    <3> QED BY <1>4, <2>1, <3>1 DEF OnlyAt
  <2>4. Same(r, c, m, c, n)
    <3>1. Same(r, 0 + c, m, 0 + c, n)
      <4>1. 0 \in Int /\ z \in Int
        BY <1>1
      <4> QED BY <1>3, <2>1, <4>1, SamePart, Zenon
    <3>2. 0 + c = c
      OBVIOUS
    <3> QED BY <3>1, <3>2
  <2>5. Same(a, c, m, c, n)
    BY <2>3, <2>4, SameTwice
  <2> QED BY <2>2, <2>5, SameTwice
<1>16. ASSUME NEW c \in Nat, NEW n \in Nat, e <= c, c + n <= z
       PROVE  Same(x, c - d, m, c, n)
  <2> DEFINE j == c - e
  <2>1. j \in Nat /\ c = e + j /\ c - d = o + j /\ o + j \in Nat /\ j + n <= k /\ o + j + n <= w
    <3>1. /\ z \in Nat /\ e \in Nat /\ o \in Nat /\ d \in Int /\ k \in Nat /\ w \in Nat
          /\ d = e - o /\ e + k = z /\ o + k = w
      BY <1>1, <1>2, Zenon
    <3>2. j \in Nat /\ c = e + j
      BY <1>16, <3>1
    <3> HIDE DEF j
    <3>3. j + n <= k
      BY <1>16, <3>1, <3>2
    <3>4. c - d = o + j /\ o + j \in Nat
      BY <3>1, <3>2
    <3>5. o + j + n <= w
      BY <3>1, <3>2, <3>3
    <3> QED BY <3>2, <3>3, <3>4, <3>5, Zenon
  <2> HIDE DEF j
  <2>2. Same(a, o + j, m, e + j, n)
    <3>1. o \in Int /\ e \in Int /\ k \in Int
      BY <1>1, <1>2
    <3> QED BY <1>4, <2>1, <3>1, SamePart, Zenon
  <2>3. Same(x, o + j, a, o + j, n)
    BY <1>13, <2>1
  <2>4. Same(x, o + j, m, e + j, n)
    BY <2>2, <2>3, SameTwice
  <2> QED BY <2>1, <2>4
<1>17. CopiesOf(x, m, z, o, il, v, tl, e, d, w, y)
  BY <1>10, <1>11, <1>14, <1>15, <1>16 DEF CopiesOf
<1>18. x = Copied(m, z, o, il, v, tl, e, w, y, junk)
  BY DEF x, f, b, a, r, Copied
<1> QED BY <1>17, <1>18

(* The same with the offsets of the sections in the header. *)
HeadOf(h, m, z, o, il, v, tl, e, d, w, y) ==
  /\ h \in Seq(Byte) /\ Len(h) = y + il /\ Get(h, 16) = y /\ Get(h, 24) = w
  /\ Same(h, 0, m, 0, 16) /\ Same(h, 20, m, 20, 4) /\ Same(h, 28, m, 28, 4)
  /\ \A c \in Nat, n \in Nat : 32 <= c /\ c + n <= o => Same(h, c, m, c, n)
  /\ \A c \in Nat, n \in Nat : e <= c /\ c + n <= z => Same(h, c - d, m, c, n)
  /\ Same(h, w, m, v, tl) /\ Same(h, y, m, o, il)

(* The two offsets in the header are stored over the copied sections. *)
LEMMA HeaderWritten ==
  ASSUME NEW m, NEW z, NEW o, NEW il, NEW v, NEW tl, NEW fl, NEW ip,
         NEW e, NEW d, NEW w, NEW y, Going(z, o, il, v, tl, fl, ip, e, d, w, y),
         NEW x, CopiesOf(x, m, z, o, il, v, tl, e, d, w, y), w \in Word32, y \in Word32,
         NEW h, h = Put(Put(x, 24, Word(w)), 16, Word(y))
  PROVE  HeadOf(h, m, z, o, il, v, tl, e, d, w, y)
<1> DEFINE g == Put(x, 24, Word(w))  p == 24  q == 16
<1>1. /\ z \in Nat /\ o \in Nat /\ il \in Nat /\ v \in Nat /\ tl \in Nat
      /\ e \in Nat /\ d \in Int /\ w \in Nat /\ y \in Nat
      /\ e = v + tl /\ e < z /\ d = e - o /\ w = z - d /\ o < w /\ 32 <= o
      /\ w + tl <= y /\ z <= y + il /\ o + il <= z
  BY DEF Going
<1>2. x \in Seq(Byte) /\ Len(x) = y + il
  BY DEF CopiesOf
<1>3. OnlyAt(g, x, p, 4) /\ Get(g, p) = w
  <2>1. p \in Nat /\ p + 4 <= Len(x)
    BY <1>1, <1>2
  <2>2. g = Put(x, p, Word(w))
    OBVIOUS
  <2> HIDE DEF p, g
  <2> QED BY <1>2, <2>1, <2>2, WordOnlyAt
<1>4. g \in Seq(Byte) /\ Len(g) = y + il
  BY <1>2, <1>3 DEF OnlyAt
<1>5. OnlyAt(h, g, q, 4) /\ Get(h, q) = y
  <2>1. q \in Nat /\ q + 4 <= Len(g)
    BY <1>1, <1>4
  <2>2. h = Put(g, q, Word(y))
    OBVIOUS
  <2> HIDE DEF q, g
  <2> QED BY <1>4, <2>1, <2>2, WordOnlyAt
<1> HIDE DEF g
<1>6. h \in Seq(Byte) /\ Len(h) = y + il
  BY <1>4, <1>5 DEF OnlyAt
<1>7. ASSUME NEW c \in Nat, NEW n \in Nat, c + n <= y + il, Beside(c, n, p, 4), Beside(c, n, q, 4)
      PROVE  Same(h, c, x, c, n)
  <2> HIDE DEF p, q
  <2>1. Same(g, c, x, c, n)
    <3>1. c + n <= Len(x)
      BY <1>2, <1>7
    <3> QED BY <1>3, <1>7, <3>1 DEF OnlyAt
  <2>2. Same(h, c, g, c, n)
    <3>1. c + n <= Len(g)
      BY <1>4, <1>7
    <3> QED BY <1>5, <1>7, <3>1 DEF OnlyAt
  <2> QED BY <2>1, <2>2, SameTwice
<1>8. Get(h, p) = w
  <2>1. Same(h, p, g, p, 4)
    <3> DEFINE f == 4
    <3>1. p + f <= y + il /\ Beside(p, f, q, 4) /\ p \in Nat /\ f \in Nat
      BY <1>1 DEF Beside
    <3> HIDE DEF p, q, f
    <3>2. p + f <= Len(g)
      BY <1>4, <3>1
    <3>3. Same(h, p, g, p, f)
      BY <1>5, <3>1, <3>2 DEF OnlyAt
    <3> QED BY <3>3 DEF f
  <2>2. p \in Int
    OBVIOUS
  <2> HIDE DEF p
  <2> QED BY <1>3, <2>1, <2>2, SameGet
<1>9. ASSUME NEW c \in Nat, NEW n \in Nat, c + n <= o, Beside(c, n, p, 4), Beside(c, n, q, 4)
      PROVE  Same(h, c, m, c, n)
  <2>1. c + n <= y + il
    BY <1>1, <1>9
  <2> HIDE DEF p, q
  <2>2. Same(x, c, m, c, n)
    BY <1>9 DEF CopiesOf
  <2>3. Same(h, c, x, c, n)
    BY <1>7, <1>9, <2>1
  <2> QED BY <2>2, <2>3, SameTwice
<1>10. Same(h, 0, m, 0, 16) /\ Same(h, 20, m, 20, 4) /\ Same(h, 28, m, 28, 4)
  <2> DEFINE i == 0  j == 20  k == 28  b == 4  f == 16
  <2>1. /\ i \in Nat /\ j \in Nat /\ k \in Nat /\ b \in Nat /\ f \in Nat
        /\ i + f <= o /\ j + b <= o /\ k + b <= o
        /\ Beside(i, f, p, 4) /\ Beside(i, f, q, 4) /\ Beside(j, b, p, 4) /\ Beside(j, b, q, 4)
        /\ Beside(k, b, p, 4) /\ Beside(k, b, q, 4)
    BY <1>1 DEF Beside
  <2> HIDE DEF p, q, i, j, k, b, f
  <2>2. Same(h, i, m, i, f) /\ Same(h, j, m, j, b) /\ Same(h, k, m, k, b)
    BY <1>9, <2>1
  <2> QED BY <2>2 DEF i, j, k, b, f
<1>11. \A c \in Nat, n \in Nat : 32 <= c /\ c + n <= o => Same(h, c, m, c, n)
  <2> SUFFICES ASSUME NEW c \in Nat, NEW n \in Nat, 32 <= c, c + n <= o PROVE Same(h, c, m, c, n)
    OBVIOUS
  <2>1. Beside(c, n, p, 4) /\ Beside(c, n, q, 4)
    BY DEF Beside
  <2> HIDE DEF p, q
  <2> QED BY <1>9, <2>1
<1>12. ASSUME NEW c \in Nat, NEW n \in Nat, e <= c, c + n <= z PROVE Same(h, c - d, m, c, n)
  <2> DEFINE b == c - d
  <2>1. b \in Nat /\ b + n <= y + il /\ Beside(b, n, p, 4) /\ Beside(b, n, q, 4)
    BY <1>1, <1>12 DEF Beside
  <2>2. Same(x, b, m, c, n)
    BY <1>12 DEF CopiesOf
  <2> HIDE DEF p, q, b
  <2>3. Same(h, b, x, b, n)
    BY <1>7, <2>1
  <2>4. Same(h, b, m, c, n)
    BY <2>2, <2>3, SameTwice
  <2> QED BY <2>4 DEF b
<1>13. Same(h, w, m, v, tl) /\ Same(h, y, m, o, il)
  <2>1. /\ w + tl <= y + il /\ Beside(w, tl, p, 4) /\ Beside(w, tl, q, 4)
        /\ y + il <= y + il /\ Beside(y, il, p, 4) /\ Beside(y, il, q, 4)
    BY <1>1 DEF Beside
  <2>2. Same(x, w, m, v, tl) /\ Same(x, y, m, o, il)
    BY DEF CopiesOf
  <2> HIDE DEF p, q
  <2>3. Same(h, w, x, w, tl) /\ Same(h, y, x, y, il)
    BY <1>1, <1>7, <2>1
  <2> QED BY <2>2, <2>3, SameTwice
<1> QED BY <1>5, <1>6, <1>8, <1>10, <1>11, <1>12, <1>13 DEF HeadOf

(* A block of the layout, wherever the sections are. *)
Lies(a, l, z, o, il, v, e) ==
  /\ a \in Nat /\ l \in Nat /\ a + l <= z /\ 32 <= a /\ (a # 0 \/ l # 0)
  /\ e <= a \/ (e <= o /\ (a + l <= v \/ o + il <= a))

(* It is at f afterwards: moved down with the data, or where it was. *)
Goes(f, a, l, z, o, e, d, w) ==
  /\ f \in Nat /\ 32 <= f /\ f + l <= w
  /\ \/ e <= a /\ a + l <= z /\ f = a - d
     \/ 32 <= a /\ a + l <= o /\ f = a

(* Where a block goes, as numbers: it stays, or moves down with the data. *)
LEMMA GoingNumbers ==
  ASSUME NEW z, NEW o, NEW il, NEW v, NEW tl, NEW fl, NEW ip,
         NEW e, NEW d, NEW w, NEW y, Going(z, o, il, v, tl, fl, ip, e, d, w, y),
         NEW a, NEW l, Lies(a, l, z, o, il, v, e)
  PROVE  Goes(Follow(a, l, e, d), a, l, z, o, e, d, w)
<1>0. /\ a \in Nat /\ l \in Nat /\ a + l <= z /\ 32 <= a /\ (a # 0 \/ l # 0)
      /\ e <= a \/ (e <= o /\ (a + l <= v \/ o + il <= a))
  BY DEF Lies
<1>1. /\ z \in Nat /\ o \in Nat /\ il \in Nat /\ v \in Nat /\ tl \in Nat
      /\ e \in Nat /\ d \in Int /\ w \in Nat /\ y \in Nat
      /\ e = v + tl /\ e < z /\ d = e - o /\ w = z - d /\ o < w /\ 32 <= o
      /\ w + tl <= y /\ z <= y + il /\ o + il <= z
  BY DEF Going
<1>2. e <= a \/ (e <= o /\ a + l <= o)
  BY <1>0, <1>1
<1> DEFINE f == Follow(a, l, e, d)
<1>3. CASE e <= a
  <2>1. f = a - d
    BY <1>0, <1>1, <1>3 DEF Follow
  <2> HIDE DEF f
  <2>2. f \in Nat /\ 32 <= f /\ f + l <= w
    BY <1>0, <1>1, <1>3, <2>1
  <2>3. /\ f \in Nat /\ 32 <= f /\ f + l <= w
        /\ \/ e <= a /\ a + l <= z /\ f = a - d
           \/ 32 <= a /\ a + l <= o /\ f = a
    BY <1>0, <1>3, <2>1, <2>2, Zenon
  <2>4. Goes(f, a, l, z, o, e, d, w)
    BY <2>3, Zenon DEF Goes
  <2> QED BY <2>4, Zenon DEF f
<1>4. CASE ~(e <= a)
  <2>1. f = a
    BY <1>0, <1>1, <1>4 DEF Follow
  <2> HIDE DEF f
  <2>2. f \in Nat /\ 32 <= f /\ f + l <= w /\ a + l <= o
    BY <1>0, <1>1, <1>2, <1>4, <2>1
  <2>3. /\ f \in Nat /\ 32 <= f /\ f + l <= w
        /\ \/ e <= a /\ a + l <= z /\ f = a - d
           \/ 32 <= a /\ a + l <= o /\ f = a
    BY <1>0, <2>1, <2>2, Zenon
  <2>4. Goes(f, a, l, z, o, e, d, w)
    BY <2>3, Zenon DEF Goes
  <2> QED BY <2>4, Zenon DEF f
<1> QED BY <1>3, <1>4

(* Where a relocation moves a block. *)
LEMMA BlockGoes ==
  ASSUME NEW s, Layout!SoundLayout(s), NEW i \in 1 .. Len(s.entries), Held(s, i),
         NEW z, z = s.size, NEW o, o = s.index_offset, NEW il, il = s.index_length,
         NEW v, v = s.variables_offset, NEW tl, tl = s.trailer_len, NEW fl, NEW ip,
         NEW e, NEW d, NEW w, NEW y, Going(z, o, il, v, tl, fl, ip, e, d, w, y)
  PROVE  /\ Address(s, i) \in Nat /\ Length(s, i) \in Nat
         /\ Goes(Follow(Address(s, i), Length(s, i), e, d), Address(s, i), Length(s, i), z, o, e, d, w)
<1> DEFINE a == Address(s, i)  l == Length(s, i)  b == s.entries[i]
<1>2. a \in Nat /\ l \in Nat /\ a + l <= z /\ 32 <= a
  BY SoundBlocks
<1>10. b \in Layout!Entries
  BY SoundBlocks
<1>3. a # 0 \/ l # 0
  BY DEF Held
<1>4. i \in DOMAIN s.entries /\ Layout!IsBlock(b)
  <2>1. i \in DOMAIN s.entries
    BY SoundSections, LayoutTypes
  <2> QED BY <1>10, <2>1, HeldIsBlock
<1>5. b.address = a /\ Layout!BlockEnd(b) = a + l
  BY DEF Address, Length, Layout!BlockEnd
<1>6. Layout!VariablesEnd(s) = e /\ Layout!IndexEnd(s) = o + il
  BY DEF Layout!VariablesEnd, Layout!IndexEnd, Going
<1>7. e <= a \/ (e <= o /\ (a + l <= v \/ o + il <= a))
  <2>1. CASE Layout!Fresh(s)
    <3>1. Layout!VariablesEnd(s) <= b.address
      BY <1>4, <2>1 DEF Layout!Fresh
    <3> QED BY <1>5, <1>6, <3>1
  <2>2. CASE Layout!Moved(s)
    <3>1. /\ Layout!VariablesEnd(s) <= o
          /\ Layout!BlockEnd(b) <= v \/ Layout!IndexEnd(s) <= b.address
      BY <1>4, <2>2 DEF Layout!Moved
    <3> QED BY <1>5, <1>6, <3>1
  <2> QED BY <2>1, <2>2 DEF Layout!SoundLayout
<1> HIDE DEF a, l
<1>8. Goes(Follow(a, l, e, d), a, l, z, o, e, d, w)
  <2>1. Lies(a, l, z, o, il, v, e)
    BY <1>2, <1>3, <1>7 DEF Lies
  <2> QED BY <2>1, GoingNumbers, Zenon
<1> QED BY <1>2, <1>8, Zenon DEF a, l

(* Parts of the relocated memory, as the loop over its index finds it. *)
Indexed(h, s, y, il) ==
  /\ IndexFits(h) /\ IndexOffset(h) = y /\ Count(h) = Len(s.entries)
  /\ 4 + 8 * Len(s.entries) <= il
  /\ \A j \in 0 .. Len(s.entries) - 1 :
       /\ EntryAt(h, j) = y + 4 + 8 * j
       /\ EntryAddress(h, j) = Address(s, j + 1) /\ EntryLength(h, j) = Length(s, j + 1)

(* The index of the copied file is the old one, in its new place. *)
LEMMA HeadIndex ==
  ASSUME NEW m, NEW s, Encodes(m, s), NEW z, NEW o, o = s.index_offset, NEW il, NEW v, NEW tl,
         NEW fl, NEW c, c = Layout!IndexPoint(s), NEW e, NEW d, NEW w, NEW y,
         Going(z, o, il, v, tl, fl, c, e, d, w, y), NEW h, HeadOf(h, m, z, o, il, v, tl, e, d, w, y)
  PROVE  Indexed(h, s, y, il)
<1> DEFINE N == Len(s.entries)
<1>1. s \in Layout!Layouts /\ N \in Nat
  BY LayoutTypes DEF Encodes
<1>2. c = o + 4 + 8 * N
  BY <1>1, PointIs
<1>3. /\ Get(m, o) = N
      /\ \A i \in 1 .. N : Get(m, Slot(s, i)) = Address(s, i) /\ Get(m, Slot(s, i) + 4) = Length(s, i)
  BY EncodesIndex
<1>4. \A i : Slot(s, i) = o + 4 + 8 * (i - 1)
  BY DEF Slot
<1>5. o \in Nat /\ il \in Nat /\ y \in Nat /\ c <= fl /\ fl \in Nat /\ fl + 20 = o + il
  BY DEF Going
<1>6. h \in Seq(Byte) /\ Len(h) = y + il /\ Get(h, 16) = y /\ Same(h, y, m, o, il)
  BY DEF HeadOf
<1>7. IndexOffset(h) = y
  BY <1>6 DEF IndexOffset, IndexOffsetAt
<1> HIDE DEF N
<1>8. 4 + 8 * N <= il
  BY <1>1, <1>2, <1>5
<1>9. \A a \in Nat : a + 4 <= il => Get(h, y + a) = Get(m, o + a)
  <2> SUFFICES ASSUME NEW a \in Nat, a + 4 <= il PROVE Get(h, y + a) = Get(m, o + a)
    OBVIOUS
  <2> DEFINE f == 4
  <2>1. f \in Nat /\ a + f <= il /\ y \in Int /\ o \in Int /\ il \in Int
    BY <1>5
  <2> HIDE DEF f
  <2>2. Same(h, y + a, m, o + a, f)
    BY <1>6, <2>1, SamePart
  <2>3. y + a \in Int /\ o + a \in Int
    BY <1>5
  <2> QED BY <2>2, <2>3, SameGet DEF f
<1>10. Count(h) = N
  <2>1. Get(h, y + 0) = Get(m, o + 0) /\ y + 0 = y /\ o + 0 = o
    BY <1>1, <1>5, <1>8, <1>9
  <2> QED BY <1>3, <1>7, <2>1 DEF Count
<1>11. IndexFits(h)
  <2>1. y + 4 + 8 * N <= Len(h)
    BY <1>1, <1>5, <1>6, <1>8
  <2> QED BY <1>1, <1>5, <1>6, <1>7, <1>10, <2>1 DEF IndexFits
<1>12. ASSUME NEW j \in 0 .. N - 1
       PROVE  /\ EntryAt(h, j) = y + 4 + 8 * j
              /\ EntryAddress(h, j) = Address(s, j + 1) /\ EntryLength(h, j) = Length(s, j + 1)
  <2> DEFINE a == 4 + 8 * j  b == 8 + 8 * j
  <2>1. /\ a \in Nat /\ a + 4 <= il /\ y + a = y + 4 + 8 * j /\ j + 1 \in 1 .. N
        /\ o + a = o + 4 + 8 * ((j + 1) - 1) /\ b \in Nat /\ b + 4 <= il
        /\ y + b = y + 4 + 8 * j + 4 /\ o + b = o + 4 + 8 * ((j + 1) - 1) + 4
    BY <1>1, <1>5, <1>8
  <2> HIDE DEF a, b
  <2>2. EntryAt(h, j) = y + 4 + 8 * j
    BY <1>7 DEF EntryAt, Layout!CountSize, Layout!EntrySize
  <2>3. Slot(s, j + 1) = o + a /\ Slot(s, j + 1) + 4 = o + b
    BY <1>4, <2>1
  <2>4. Get(h, y + a) = Address(s, j + 1) /\ Get(h, y + b) = Length(s, j + 1)
    BY <1>3, <1>9, <2>1, <2>3
  <2>5. EntryAt(h, j) = y + a /\ EntryAt(h, j) + 4 = y + b
    BY <2>1, <2>2
  <2> QED BY <2>2, <2>4, <2>5 DEF EntryAddress, EntryLength
<1> QED BY <1>7, <1>8, <1>10, <1>11, <1>12 DEF N, Indexed

(* What the loop leaves: x has the addresses of t, and else it is h. *)
Rewritten(x, h, t, N, y, il) ==
  /\ x \in Seq(Byte) /\ Len(x) = y + il
  /\ \A i \in 1 .. N : Get(x, Slot(t, i)) = Address(t, i)
  /\ \A i \in 1 .. N : Same(x, Slot(t, i) + 4, h, Slot(t, i) + 4, 4)
  /\ \A a \in Nat, n \in Nat : a + n <= y + 4 \/ (y + 4 + 8 * N <= a /\ a + n <= y + il)
                                 => Same(x, a, h, a, n)

(* The rewritten entries are those of the relocated layout. *)
LEMMA IndexRewritten ==
  ASSUME NEW h, IndexFits(h), NEW y \in Nat, 32 <= y, IndexOffset(h) = y, NEW il \in Nat, Len(h) = y + il,
         NEW N \in Nat, Count(h) = N, 4 + 8 * N <= il, NEW e, NEW d,
         NEW t, t.index_offset = y,
         \A j \in 0 .. N - 1 :
            /\ EntryAt(h, j) = y + 4 + 8 * j
            /\ Follow(EntryAddress(h, j), EntryLength(h, j), e, d) = Address(t, j + 1)
            /\ Address(t, j + 1) \in Word32
  PROVE  Rewritten(EntriesFollowed(h, e, d)[N], h, t, N, y, il)
<1> DEFINE x == EntriesFollowed(h, e, d)[N]
<1>1. FollowedUpTo(x, h, e, d, N)
  <2>1. \A j \in 0 .. Count(h) - 1 : Follow(EntryAddress(h, j), EntryLength(h, j), e, d) \in Word32
    OBVIOUS
  <2>2. 20 <= IndexOffset(h)
    OBVIOUS
  <2> QED BY <2>1, <2>2, EntriesFollowedAll
<1> HIDE DEF x
<1>2. /\ x \in Seq(Byte) /\ Len(x) = y + il
      /\ \A j \in 0 .. N - 1 : Get(x, EntryAt(h, j)) = Address(t, j + 1)
      /\ \A c \in Nat, n \in Nat :
           /\ c + n <= y + il
           /\ \A j \in 0 .. N - 1 : c + n <= EntryAt(h, j) \/ EntryAt(h, j) + 4 <= c
           => Same(x, c, h, c, n)
  <2>1. \A j \in 0 .. N - 1 : j < N
    OBVIOUS
  <2> QED BY <1>1, <2>1 DEF FollowedUpTo
<1>3. \A i : Slot(t, i) = y + 4 + 8 * (i - 1)
  BY DEF Slot
<1>4. \A i \in 1 .. N : i - 1 \in 0 .. N - 1 /\ (i - 1) + 1 = i /\ EntryAt(h, i - 1) = Slot(t, i)
  <2>1. \A i \in 1 .. N : i - 1 \in 0 .. N - 1 /\ (i - 1) + 1 = i
    OBVIOUS
  <2>2. \A i \in 1 .. N : EntryAt(h, i - 1) = y + 4 + 8 * (i - 1)
    BY <2>1
  <2> QED BY <1>3, <2>1, <2>2
<1>5. \A i \in 1 .. N : Get(x, Slot(t, i)) = Address(t, i)
  <2> SUFFICES ASSUME NEW i \in 1 .. N PROVE Get(x, Slot(t, i)) = Address(t, i)
    OBVIOUS
  <2>1. Get(x, EntryAt(h, i - 1)) = Address(t, (i - 1) + 1)
    BY <1>2, <1>4
  <2> QED BY <1>4, <2>1
<1>6. ASSUME NEW i \in 1 .. N PROVE Same(x, Slot(t, i) + 4, h, Slot(t, i) + 4, 4)
  <2> DEFINE c == Slot(t, i) + 4  n == 4
  <2>1. c = y + 8 + 8 * (i - 1) /\ n = 4
    BY <1>3
  <2> HIDE DEF c, n
  <2>2. c \in Nat /\ n \in Nat /\ c + n <= y + il
    BY <2>1
  <2>3. \A j \in 0 .. N - 1 : c + n <= EntryAt(h, j) \/ EntryAt(h, j) + 4 <= c
    <3> SUFFICES ASSUME NEW j \in 0 .. N - 1 PROVE c + n <= y + 4 + 8 * j \/ y + 4 + 8 * j + 4 <= c
      OBVIOUS
    <3>1. CASE j <= i - 1
      BY <2>1, <3>1
    <3>2. CASE j >= i
      BY <2>1, <3>2
    <3> QED BY <3>1, <3>2
  <2>4. Same(x, c, h, c, n)
    BY <1>2, <2>2, <2>3
  <2> QED BY <2>4 DEF c, n
<1>7. ASSUME NEW a \in Nat, NEW n \in Nat, a + n <= y + 4 \/ (y + 4 + 8 * N <= a /\ a + n <= y + il)
      PROVE  Same(x, a, h, a, n)
  <2>1. a + n <= y + il
    BY <1>7
  <2>2. \A j \in 0 .. N - 1 : a + n <= EntryAt(h, j) \/ EntryAt(h, j) + 4 <= a
    <3> SUFFICES ASSUME NEW j \in 0 .. N - 1 PROVE a + n <= y + 4 + 8 * j \/ y + 4 + 8 * j + 4 <= a
      OBVIOUS
    <3> QED BY <1>7
  <2> QED BY <1>2, <2>1, <2>2
<1>8. Rewritten(x, h, t, N, y, il)
  BY <1>2, <1>5, <1>6, <1>7 DEF Rewritten
<1> QED BY <1>8 DEF x

(* The relocated memory holds the relocated layout. *)
LEMMA RelocatedEncodes ==
  ASSUME NEW m, NEW s, Encodes(m, s), Layout!SoundLayout(s),
         NEW e, NEW d, NEW w, NEW y, NEW t, Layout!SoundLayout(t), Fit(t), RelocatesTo(t, s, e, d, w, y),
         NEW z, NEW o, o = s.index_offset, NEW il, il = s.index_length, NEW v, NEW tl, NEW fl,
         NEW c, c = Layout!IndexPoint(s), Going(z, o, il, v, tl, fl, c, e, d, w, y),
         NEW h, HeadOf(h, m, z, o, il, v, tl, e, d, w, y),
         NEW x, x = EntriesFollowed(h, e, d)[Count(h)]
  PROVE  /\ Rewritten(x, h, t, Len(s.entries), y, il) /\ 4 + 8 * Len(s.entries) <= il
         /\ Encodes(x, t)
<1> DEFINE N == Len(s.entries)
<1>1. s \in Layout!Layouts /\ N \in Nat /\ t \in Layout!Layouts
  BY SoundSections
<1>2. /\ IndexFits(h) /\ IndexOffset(h) = y /\ Count(h) = N /\ 4 + 8 * N <= il
      /\ \A j \in 0 .. N - 1 :
           /\ EntryAt(h, j) = y + 4 + 8 * j
           /\ EntryAddress(h, j) = Address(s, j + 1) /\ EntryLength(h, j) = Length(s, j + 1)
  <2>1. Indexed(h, s, y, il)
    BY HeadIndex, Zenon
  <2> QED BY <2>1 DEF Indexed
<1>3. /\ t.size = y + il /\ t.index_offset = y /\ t.variables_offset = w /\ t.index_length = il
      /\ t.trailer_len = s.trailer_len /\ t.block_count = s.block_count /\ Len(t.entries) = N
  BY DEF RelocatesTo
<1>4. \A i \in 1 .. N : /\ Address(t, i) = Follow(Address(s, i), Length(s, i), e, d)
                        /\ Length(t, i) = Length(s, i)
  BY DEF RelocatesTo
<1>5. \A i \in 1 .. N : Address(t, i) \in Word32
  BY <1>3, SoundWords DEF Fit
<1>6. /\ o \in Nat /\ il \in Nat /\ y \in Nat /\ o < w /\ 32 <= o /\ w + tl <= y /\ w \in Nat /\ tl \in Nat
  BY DEF Going
<1>7. h \in Seq(Byte) /\ Len(h) = y + il
  BY DEF HeadOf
<1>8. x = EntriesFollowed(h, e, d)[N]
  BY <1>2
<1> HIDE DEF N
<1>9. 32 <= y
  BY <1>6
<1>10. \A j \in 0 .. N - 1 :
         /\ EntryAt(h, j) = y + 4 + 8 * j
         /\ Follow(EntryAddress(h, j), EntryLength(h, j), e, d) = Address(t, j + 1)
         /\ Address(t, j + 1) \in Word32
  <2>1. \A j \in 0 .. N - 1 : j + 1 \in 1 .. N
    BY <1>1
  <2> QED BY <1>2, <1>4, <1>5, <2>1
<1>11. Rewritten(x, h, t, N, y, il)
  <2>1. Rewritten(EntriesFollowed(h, e, d)[N], h, t, N, y, il)
    BY <1>1, <1>2, <1>3, <1>6, <1>7, <1>9, <1>10, IndexRewritten, Zenon
  <2> QED BY <1>8, <2>1
<1>12. /\ x \in Seq(Byte) /\ Len(x) = y + il
       /\ \A a \in Nat, n \in Nat : a + n <= y + 4 => Same(x, a, h, a, n)
  BY <1>11 DEF Rewritten
<1>13. Get(x, 16) = y /\ Get(x, 24) = w /\ Get(x, y) = N
  <2> DEFINE i == 16  j == 24  f == 4
  <2>1. /\ i \in Nat /\ j \in Nat /\ f \in Nat /\ i + f <= y + 4 /\ j + f <= y + 4 /\ y + f <= y + 4
        /\ i \in Int /\ j \in Int /\ y \in Int
    BY <1>6, <1>9
  <2>2. Get(h, i) = y /\ Get(h, j) = w /\ Get(h, y) = N
    <3>1. Get(h, i) = y /\ Get(h, j) = w
      BY DEF HeadOf
    <3>2. Get(h, y) = N
      BY <1>2 DEF Count
    <3> QED BY <3>1, <3>2
  <2> HIDE DEF i, j, f
  <2>3. Same(x, i, h, i, f) /\ Same(x, j, h, j, f) /\ Same(x, y, h, y, f)
    BY <1>6, <1>12, <2>1
  <2>4. Get(x, i) = Get(h, i) /\ Get(x, j) = Get(h, j) /\ Get(x, y) = Get(h, y)
    BY <2>1, <2>3, SameGet DEF f
  <2> QED BY <2>2, <2>4 DEF i, j
<1>14. Same(x, 0, m, 0, 16) /\ Same(x, 20, m, 20, 4) /\ Same(x, 28, m, 28, 4)
  <2> DEFINE i == 0  j == 20  k == 28  f == 4  g == 16
  <2>1. /\ i \in Nat /\ j \in Nat /\ k \in Nat /\ f \in Nat /\ g \in Nat
        /\ i + g <= y + 4 /\ j + f <= y + 4 /\ k + f <= y + 4
    BY <1>6, <1>9
  <2>2. Same(h, i, m, i, g) /\ Same(h, j, m, j, f) /\ Same(h, k, m, k, f)
    BY DEF HeadOf
  <2> HIDE DEF i, j, k, f, g
  <2>3. Same(x, i, h, i, g) /\ Same(x, j, h, j, f) /\ Same(x, k, h, k, f)
    BY <1>12, <2>1
  <2>4. Same(x, i, m, i, g) /\ Same(x, j, m, j, f) /\ Same(x, k, m, k, f)
    BY <2>2, <2>3, SameTwice
  <2> QED BY <2>4 DEF i, j, k, f, g
<1>15. /\ Same(m, 0, Magic, 0, 8) /\ Get(m, 8) = 1 /\ Get(m, 12) = s.block_count
       /\ Get(m, 20) = s.index_length /\ Get(m, 28) = s.trailer_len
  BY DEF Encodes, VersionAt, BlockCountAt, IndexLength, IndexLengthAt, TrailerLength, TrailerLengthAt
<1>16. Same(x, 0, Magic, 0, 8) /\ Get(x, 8) = 1 /\ Get(x, 12) = s.block_count
  <2> DEFINE i == 0  j == 8  k == 12  f == 4  g == 16
  <2>1. /\ i \in Nat /\ j \in Nat /\ k \in Nat /\ f \in Nat /\ g \in Int /\ i \in Int
        /\ i + j <= g /\ j + f <= g /\ k + f <= g /\ i + i = i /\ i + j = j /\ i + k = k
        /\ j \in Int /\ k \in Int
    OBVIOUS
  <2>2. Same(x, i, m, i, g) /\ Same(m, i, Magic, i, j) /\ Get(m, j) = 1 /\ Get(m, k) = s.block_count
    BY <1>14, <1>15
  <2> HIDE DEF i, j, k, f, g
  <2>3. Same(x, i + i, m, i + i, j) /\ Same(x, i + j, m, i + j, f) /\ Same(x, i + k, m, i + k, f)
    BY <2>1, <2>2, SamePart
  <2>4. Same(x, i, m, i, j) /\ Same(x, j, m, j, f) /\ Same(x, k, m, k, f)
    BY <2>1, <2>3
  <2>5. Get(x, j) = Get(m, j) /\ Get(x, k) = Get(m, k)
    BY <2>1, <2>4, SameGet DEF f
  <2>6. Same(x, i, Magic, i, j)
    BY <2>2, <2>4, SameTwice
  <2>7. Same(x, i, Magic, i, j) /\ Get(x, j) = 1 /\ Get(x, k) = s.block_count
    BY <2>2, <2>5, <2>6
  <2> QED BY <2>7 DEF i, j, k
<1>17. Get(x, 20) = s.index_length /\ Get(x, 28) = s.trailer_len
  <2>1. 20 \in Int /\ 28 \in Int
    OBVIOUS
  <2>2. Get(x, 20) = Get(m, 20) /\ Get(x, 28) = Get(m, 28)
    BY <1>14, <2>1, SameGet
  <2> QED BY <1>15, <2>2
<1>18. \A i \in 1 .. N : Get(x, Slot(t, i)) = Address(t, i) /\ Get(x, Slot(t, i) + 4) = Length(t, i)
  <2> SUFFICES ASSUME NEW i \in 1 .. N
               PROVE  Get(x, Slot(t, i)) = Address(t, i) /\ Get(x, Slot(t, i) + 4) = Length(t, i)
    OBVIOUS
  <2>1. Get(x, Slot(t, i)) = Address(t, i) /\ Same(x, Slot(t, i) + 4, h, Slot(t, i) + 4, 4)
    BY <1>11 DEF Rewritten
  <2>2. Slot(t, i) = y + 4 + 8 * (i - 1)
    BY <1>3 DEF Slot
  <2>3. i - 1 \in 0 .. N - 1 /\ (i - 1) + 1 = i /\ Slot(t, i) + 4 \in Int
    BY <1>1, <1>6, <2>2
  <2>4. EntryAt(h, i - 1) = Slot(t, i) /\ EntryLength(h, i - 1) = Length(s, i)
    BY <1>2, <2>2, <2>3
  <2>5. Get(h, Slot(t, i) + 4) = Length(s, i)
    BY <2>4 DEF EntryLength
  <2>6. Get(x, Slot(t, i) + 4) = Get(h, Slot(t, i) + 4)
    BY <2>1, <2>3, SameGet
  <2> QED BY <1>4, <2>1, <2>5, <2>6
<1>19. 32 <= t.index_offset /\ Layout!IndexPoint(t) <= t.size
  <2>1. Layout!IndexPoint(t) = t.index_offset + 4 + 8 * Len(t.entries)
    BY <1>1, PointIs
  <2>2. Layout!IndexPoint(t) = y + 4 + 8 * N
    BY <1>3, <2>1
  <2>3. y + 4 + 8 * N <= y + il
    BY <1>1, <1>2, <1>6
  <2>4. Layout!IndexPoint(t) <= y + il
    BY <2>2, <2>3
  <2> QED BY <1>3, <1>9, <2>4
<1>20. Len(x) = t.size /\ Get(x, t.index_offset) = Len(t.entries)
  BY <1>3, <1>12, <1>13
<1>21. Get(x, 12) = t.block_count /\ Get(x, 16) = t.index_offset /\ Get(x, 20) = t.index_length
       /\ Get(x, 24) = t.variables_offset /\ Get(x, 28) = t.trailer_len
  BY <1>3, <1>13, <1>16, <1>17
<1>22. \A i \in 1 .. Len(t.entries) :
          Get(x, Slot(t, i)) = Address(t, i) /\ Get(x, Slot(t, i) + 4) = Length(t, i)
  BY <1>3, <1>18
<1>23. Encodes(x, t)
  BY <1>1, <1>12, <1>16, <1>19, <1>20, <1>21, <1>22, EncodesByWords, Zenon
<1> QED BY <1>2, <1>11, <1>23 DEF N

(* Blocks and variables are where the layout says. *)
LEMMA RelocatedCarried ==
  ASSUME NEW m, NEW s, Layout!SoundLayout(s),
         NEW e, NEW d, NEW w, NEW y, NEW t, RelocatesTo(t, s, e, d, w, y),
         NEW z, z = s.size, NEW o, o = s.index_offset, NEW il, il = s.index_length,
         NEW v, v = s.variables_offset, NEW tl, tl = s.trailer_len, NEW fl, NEW c,
         Going(z, o, il, v, tl, fl, c, e, d, w, y),
         NEW h, HeadOf(h, m, z, o, il, v, tl, e, d, w, y),
         NEW x, Rewritten(x, h, t, Len(s.entries), y, il)
  PROVE  Carried(x, t, m, s)
<1> DEFINE N == Len(s.entries)  vb == s.variable_bytes
<1>1. s \in Layout!Layouts /\ N \in Nat /\ vb \in Nat /\ 4 + vb <= tl
  BY SoundSections
<1>2. Len(t.entries) = N /\ t.variable_bytes = vb /\ t.variables_offset = w
  BY DEF RelocatesTo
<1>3. \A i \in 1 .. N : /\ Address(t, i) = Follow(Address(s, i), Length(s, i), e, d)
                        /\ Length(t, i) = Length(s, i) /\ Length(s, i) \in Nat
  BY <1>1, LayoutTypes DEF RelocatesTo
<1>4. /\ z \in Nat /\ o \in Nat /\ il \in Nat /\ v \in Nat /\ tl \in Nat
      /\ e \in Nat /\ d \in Int /\ w \in Nat /\ y \in Nat /\ w + tl <= y
      /\ e = v + tl /\ w = z - d /\ d = e - o /\ e < z
  BY DEF Going
<1>5. \A a \in Nat, n \in Nat : a + n <= y => Same(x, a, h, a, n)
  <2>1. \A a \in Nat, n \in Nat : a + n <= y => a + n <= y + 4
    BY <1>4
  <2> QED BY <2>1 DEF Rewritten
<1>6. ASSUME NEW i \in 1 .. N
      PROVE  /\ Held(t, i) <=> Held(s, i)
             /\ Same(x, Address(t, i), m, Address(s, i), Length(s, i))
  <2> DEFINE a == Address(s, i)  l == Length(s, i)  f == Address(t, i)
  <2>1. CASE Held(s, i)
    <3>1. a \in Nat /\ l \in Nat /\ Goes(Follow(a, l, e, d), a, l, z, o, e, d, w)
      BY <2>1, BlockGoes, Zenon
    <3>2. f = Follow(a, l, e, d)
      BY <1>3
    <3>3. /\ f \in Nat /\ 32 <= f /\ f + l <= w
          /\ \/ e <= a /\ a + l <= z /\ f = a - d
             \/ 32 <= a /\ a + l <= o /\ f = a
      <4> HIDE DEF f
      <4> QED BY <3>1, <3>2 DEF Goes
    <3>4. Held(t, i)
      <4>1. f # 0
        <5> HIDE DEF f
        <5> QED BY <3>3
      <4> QED BY <4>1 DEF Held
    <3> HIDE DEF a, l, f
    <3>5. Same(h, f, m, a, l)
      <4>1. CASE e <= a /\ a + l <= z /\ f = a - d
        <5>1. Same(h, a - d, m, a, l)
          BY <3>1, <4>1 DEF HeadOf
        <5> QED BY <4>1, <5>1
      <4>2. CASE 32 <= a /\ a + l <= o /\ f = a
        <5>1. Same(h, a, m, a, l)
          BY <3>1, <4>2 DEF HeadOf
        <5> QED BY <4>2, <5>1
      <4> QED BY <3>3, <4>1, <4>2
    <3>6. Same(x, f, h, f, l)
      <4>1. f + l <= y
        BY <1>4, <3>1, <3>3
      <4> QED BY <1>5, <3>1, <3>3, <4>1
    <3>7. Same(x, f, m, a, l)
      BY <3>5, <3>6, SameTwice
    <3> QED BY <2>1, <3>4, <3>7 DEF a, l, f
  <2>2. CASE ~Held(s, i)
    <3>1. a = 0 /\ l = 0
      BY <2>2 DEF Held
    <3>2. f = 0
      BY <1>3, <3>1 DEF Follow
    <3>3. ~Held(t, i)
      BY <1>3, <3>1, <3>2 DEF Held
    <3>4. Same(x, f, m, a, l)
      <4> HIDE DEF a, f, l
      <4> QED BY <3>1 DEF Same
    <3> QED BY <2>2, <3>3, <3>4
  <2> QED BY <2>1, <2>2
<1>12. vb \in Nat /\ 4 + vb <= tl
  BY <1>1
<1> HIDE DEF N, vb
<1>7. Same(x, w, m, v, tl)
  <2>1. Same(x, w, h, w, tl)
    BY <1>4, <1>5
  <2>2. Same(h, w, m, v, tl)
    BY DEF HeadOf
  <2> QED BY <2>1, <2>2, SameTwice
<1>8. Same(x, w, m, v, 4) /\ Same(x, w + 4, m, v + 4, vb)
  <2> DEFINE i == 0  f == 4
  <2>1. /\ i \in Nat /\ f \in Nat /\ i + f <= tl /\ f + vb <= tl /\ w + i = w /\ v + i = v
        /\ w \in Int /\ v \in Int /\ tl \in Int
    <3>1. i \in Nat /\ f \in Nat /\ i + f <= tl /\ f + vb <= tl
      <4>1. vb \in Nat /\ tl \in Nat /\ 4 + vb <= tl
        BY <1>4, <1>12, Zenon
      <4> QED BY <4>1
    <3>2. w \in Nat /\ v \in Nat /\ tl \in Nat
      BY <1>4, Zenon
    <3>3. w + i = w /\ v + i = v /\ w \in Int /\ v \in Int /\ tl \in Int
      BY <3>2
    <3> QED BY <3>1, <3>3, Zenon
  <2> HIDE DEF i, f
  <2>2. Same(x, w + i, m, v + i, f) /\ Same(x, w + f, m, v + f, vb)
    BY <1>1, <1>7, <2>1, SamePart
  <2>3. Same(x, w, m, v, f) /\ Same(x, w + f, m, v + f, vb)
    BY <2>1, <2>2
  <2> QED BY <2>3 DEF f
<1>9. \A i \in 1 .. N : Length(s, i) <= Length(t, i)
  BY <1>3
<1>10. N <= Len(t.entries) /\ vb <= t.variable_bytes
  BY <1>1, <1>2
<1>11. Kept(x, t, m, s)
  BY <1>2, <1>6, <1>8, <1>9, <1>10 DEF Kept, N, vb
<1> QED BY <1>2, <1>8, <1>11 DEF Carried

SpareIs(a, k, p, b, o, il, y, c, f) ==
  /\ a \in Nat /\ k \in Nat /\ a + k = il /\ y + a = p /\ o + a = c /\ p \in Nat
  /\ b + 20 - p = k /\ p + k <= y + il /\ f <= p

(* The unused part of the index goes with it, as numbers. *)
LEMMA SpareNumbers ==
  ASSUME NEW o \in Nat, NEW il \in Nat, NEW y \in Nat, NEW fl \in Nat, NEW N \in Nat,
         NEW c, c = o + 4 + 8 * N, c <= fl, fl + 20 = o + il,
         NEW p, p = y + 4 + 8 * N, NEW b, b = y + (fl - o)
  PROVE  SpareIs(4 + 8 * N, fl + 20 - c, p, b, o, il, y, c, y + 4 + 8 * N)
BY DEF SpareIs

(* The unused part of the index is still zero. *)
LEMMA RelocatedSpare ==
  ASSUME NEW m, NEW s, Spare(m, s), s \in Layout!Layouts, NEW e, NEW d, NEW w, NEW y,
         NEW t \in Layout!Layouts, RelocatesTo(t, s, e, d, w, y),
         NEW z, NEW o, o = s.index_offset, NEW il, NEW v, NEW tl, NEW fl, fl = s.freelist_offset,
         NEW c, c = Layout!IndexPoint(s),
         Going(z, o, il, v, tl, fl, c, e, d, w, y),
         NEW h, HeadOf(h, m, z, o, il, v, tl, e, d, w, y),
         NEW x, Rewritten(x, h, t, Len(s.entries), y, il)
  PROVE  Spare(x, t)
<1> DEFINE N == Len(s.entries)
           a == 4 + 8 * N
           k == fl + 20 - c
           p == Layout!IndexPoint(t)
           b == t.freelist_offset
<1>1. N \in Nat /\ c = o + 4 + 8 * N
  BY PointIs
<1>2. p = y + 4 + 8 * N
  <2>1. p = t.index_offset + 4 + 8 * Len(t.entries) /\ t.index_offset = y /\ Len(t.entries) = N
    BY PointIs DEF RelocatesTo
  <2> QED BY <2>1
<1>3. b = y + (fl - o)
  BY DEF RelocatesTo
<1>4. Zero(m, c, k)
  BY DEF Spare
<1>5. Same(h, y, m, o, il)
  BY DEF HeadOf
<1>6. \A i \in Nat, n \in Nat : y + 4 + 8 * N <= i /\ i + n <= y + il => Same(x, i, h, i, n)
  BY DEF Rewritten
<1>7. /\ o \in Nat /\ il \in Nat /\ y \in Nat /\ fl \in Nat /\ c <= fl /\ fl + 20 = o + il
  BY DEF Going
<1>8. Spare(x, t) <=> Zero(x, p, b + 20 - p)
  BY DEF Spare
<1> HIDE DEF N, p, b
<1>14. SpareIs(a, k, p, b, o, il, y, c, y + 4 + 8 * N)
  BY <1>1, <1>2, <1>3, <1>7, SpareNumbers, Zenon
<1> HIDE DEF a, k
<1>9. /\ a \in Nat /\ k \in Nat /\ a + k = il /\ y + a = p /\ o + a = c /\ p \in Nat
      /\ b + 20 - p = k /\ p + k <= y + il /\ y + 4 + 8 * N <= p
  BY <1>1, <1>2, <1>3, <1>14 DEF SpareIs
<1>10. Same(h, p, m, c, k)
  <2>1. y \in Int /\ o \in Int /\ il \in Int /\ a + k <= il
    BY <1>7, <1>9
  <2>2. Same(h, y + a, m, o + a, k)
    BY <1>5, <1>9, <2>1, SamePart
  <2> QED BY <1>9, <2>2
<1>11. Same(x, p, h, p, k)
  BY <1>6, <1>9
<1>12. Same(x, p, m, c, k)
  BY <1>10, <1>11, SameTwice
<1>13. Zero(x, p, k)
  BY <1>4, <1>12, ZeroSame
<1> QED BY <1>8, <1>9, <1>13

(* The steps of the code, with its numbers named. *)
Relocated(m, start, end, shift, variables, unaligned, index, length, from, taken, junk) ==
  LET size == index + length
      r  == Grown(m, size, junk)
      n  == Put(r, start, Bytes(r, end, Len(m) - end))
      v  == Put(n, variables, Bytes(m, from, taken))
      p  == Put(v, unaligned, Zeros(index - unaligned))
      ix == Put(p, index, Bytes(m, start, length))
      k  == IF size < Len(m) THEN MemoryResize(ix, size, junk) ELSE ix
      h  == Put(Put(k, VariablesAt, Word(variables)), IndexOffsetAt, Word(index))
  IN IF end >= Len(m) THEN m ELSE EntriesFollowed(h, end, shift)[Count(h)]

Reaches(m, z) == Len(m) = z

(* What is copied is read from the old memory or the grown one. *)
LEMMA GrownPart ==
  ASSUME NEW m \in Seq(Byte), NEW z, Reaches(m, z), NEW n \in Nat, z <= n, NEW junk \in Byte,
         NEW e \in Nat, NEW i \in Nat, e + i <= z
  PROVE  Bytes(Grown(m, n, junk), e, i) = Bytes(m, e, i)
<1> DEFINE b == Grown(m, n, junk)  a == 0
<1>0. Len(m) = z
  BY DEF Reaches
<1>1. z \in Nat /\ a \in Int /\ a + e = e /\ e + i <= n /\ e + i <= z
  BY <1>0, LenProperties
<1>2. b \in Seq(Byte) /\ Len(b) = n /\ Same(b, a, m, a, z)
  BY <1>0, <1>1, GrownBytes
<1> HIDE DEF b, a
<1>3. Same(b, a + e, m, a + e, i)
  <2>1. z \in Int
    BY <1>1
  <2> QED BY <1>1, <1>2, <2>1, SamePart
<1>4. Same(b, e, m, e, i)
  BY <1>1, <1>3
<1>5. e + i <= Len(b)
  BY <1>1, <1>2
<1>7. e + i <= Len(m)
  BY <1>0, <1>1
<1>8. Bytes(b, e, i) = Bytes(m, e, i)
  BY <1>2, <1>4, <1>5, <1>7, SameBytes
<1> QED BY <1>8 DEF b

(* bom_relocate_trailer, when there is data behind the variables, as these   *)
(* steps.                                                                    *)
LEMMA RelocateSteps ==
  ASSUME NEW m, NEW z, Len(m) = z, NEW o, IndexOffset(m) = o, NEW il, IndexLength(m) = il,
         NEW v, VariablesOffset(m) = v, NEW tl, TrailerLength(m) = tl, NEW fl, NEW c, NEW e, NEW d, NEW w, NEW y,
         Going(z, o, il, v, tl, fl, c, e, d, w, y), y = Layout!RoundUp(w + tl),
         m \in Seq(Byte), NEW junk \in Byte,
         NEW h, h = Put(Put(Copied(m, z, o, il, v, tl, e, w, y, junk), 24, Word(w)), 16, Word(y))
  PROVE  RelocateTrailer(m, junk) = EntriesFollowed(h, e, d)[Count(h)]
<1>1. /\ z \in Nat /\ o \in Nat /\ il \in Nat /\ v \in Nat /\ tl \in Nat
      /\ e \in Nat /\ d \in Int /\ w \in Nat /\ y \in Nat
      /\ e = v + tl /\ e < z /\ w = z - d /\ d = e - o /\ z <= y + il
  BY DEF Going
<1>2. v + tl = e /\ e - o = d /\ o + (z - e) = w /\ ~(e >= z) /\ ~(y + il < z)
  BY <1>1
<1>3. RelocateTrailer(m, junk)
        = Relocated(m, IndexOffset(m), VariablesOffset(m) + TrailerLength(m),
                    (VariablesOffset(m) + TrailerLength(m)) - IndexOffset(m),
                    IndexOffset(m) + (Len(m) - (VariablesOffset(m) + TrailerLength(m))),
                    IndexOffset(m) + (Len(m) - (VariablesOffset(m) + TrailerLength(m))) + TrailerLength(m),
                    Layout!RoundUp(IndexOffset(m) + (Len(m) - (VariablesOffset(m) + TrailerLength(m)))
                                     + TrailerLength(m)),
                    IndexLength(m), VariablesOffset(m), TrailerLength(m), junk)
  BY DEF RelocateTrailer, Relocated
<1>4. RelocateTrailer(m, junk) = Relocated(m, o, e, d, w, w + tl, y, il, v, tl, junk)
  <2>1. /\ IndexOffset(m) = o /\ VariablesOffset(m) + TrailerLength(m) = e
        /\ (VariablesOffset(m) + TrailerLength(m)) - IndexOffset(m) = d
        /\ IndexOffset(m) + (Len(m) - (VariablesOffset(m) + TrailerLength(m))) = w
    BY <1>2
  <2> QED BY <1>3, <2>1, Zenon
<1>5. Relocated(m, o, e, d, w, w + tl, y, il, v, tl, junk) = EntriesFollowed(h, e, d)[Count(h)]
  <2> DEFINE n == y + il  f == Len(m)
             q == Put(Put(Put(Put(Grown(m, n, junk), o, Bytes(m, e, f - e)), w, Bytes(m, v, tl)),
                          w + tl, Zeros(y - (w + tl))), y, Bytes(m, o, il))
             r == Put(Put(Put(Put(Grown(m, n, junk), o, Bytes(Grown(m, n, junk), e, f - e)), w, Bytes(m, v, tl)),
                          w + tl, Zeros(y - (w + tl))), y, Bytes(m, o, il))
             k == IF n < f THEN MemoryResize(r, n, junk) ELSE r
             u == Put(Put(k, 24, Word(w)), 16, Word(y))
  <2>1. Relocated(m, o, e, d, w, w + tl, y, il, v, tl, junk)
          = IF e >= f THEN m ELSE EntriesFollowed(u, e, d)[Count(u)]
    BY DEF Relocated, VariablesAt, IndexOffsetAt
  <2>2. Bytes(Grown(m, n, junk), e, f - e) = Bytes(m, e, z - e)
    <3> DEFINE i == z - e
    <3>1. n \in Nat /\ z <= n /\ i \in Nat /\ e + i <= z
      BY <1>1
    <3> HIDE DEF i, n
    <3>3. Bytes(Grown(m, n, junk), e, i) = Bytes(m, e, i)
      <4>1. Reaches(m, z)
        BY DEF Reaches
      <4>2. e \in Nat
        BY <1>1
      <4> QED BY <3>1, <4>1, <4>2, GrownPart
    <3> QED BY <3>3 DEF i, n
  <2>3. q = Copied(m, z, o, il, v, tl, e, w, y, junk)
    BY DEF Copied
  <2>4. r = q /\ f = z
    BY <2>2, Zenon
  <2>5. k = q
    <3> HIDE DEF r, q
    <3>1. ~(n < f)
      BY <1>2
    <3> HIDE DEF n, f
    <3> QED BY <2>4, <3>1
  <2> HIDE DEF k, r, q
  <2>6. u = h
    BY <2>3, <2>5
  <2> HIDE DEF u
  <2>7. ~(e >= f)
    BY <1>2
  <2> HIDE DEF f
  <2> QED BY <2>1, <2>6, <2>7
<1> QED BY <1>4, <1>5

(* bom_relocate_trailer. *)
LEMMA RelocateFile ==
  ASSUME NEW m, NEW s, File(m, s), NEW junk \in Byte,
         NEW t, t = Layout!RelocateTrailer(s), Fit(t),
         NEW x, x = RelocateTrailer(m, junk)
  PROVE  /\ Succeeds(x, t, m, s) /\ Len(t.entries) = Len(s.entries)
         /\ \A i \in 1 .. Len(s.entries) : Length(t, i) = Length(s, i)
<1> DEFINE z == s.size  o == s.index_offset  il == s.index_length  v == s.variables_offset
           tl == s.trailer_len  fl == s.freelist_offset  c == Layout!IndexPoint(s)
           e == v + tl  d == e - o  w == z - d  y == Layout!RoundUp(w + tl)
           g == Copied(m, z, o, il, v, tl, e, w, y, junk)
           h == Put(Put(g, 24, Word(w)), 16, Word(y))
<1>1. s \in Layout!Layouts /\ Layout!SoundLayout(s) /\ Encodes(m, s) /\ Spare(m, s)
  BY SoundSections DEF File
<1>2. /\ Len(m) = z /\ IndexOffset(m) = o /\ IndexLength(m) = il /\ VariablesOffset(m) = v
      /\ TrailerLength(m) = tl /\ m \in Seq(Byte)
  BY <1>1 DEF Encodes
<1>3. CASE e >= z
  <2>1. x = m
    BY <1>2, <1>3, Zenon DEF RelocateTrailer
  <2>2. t = s
    BY <1>3, Zenon DEF Layout!RelocateTrailer, Layout!VariablesEnd
  <2>3. Carried(m, s, m, s)
    BY <1>1, KeptSelf DEF Carried, Same
  <2> QED BY <2>1, <2>2, <2>3 DEF Succeeds
<1>4. CASE ~(e >= z)
  <2>1. e < z
    <3>1. z \in Nat /\ v \in Nat /\ tl \in Nat
      BY <1>1, SoundSections
    <3> HIDE DEF z, v, tl
    <3> QED BY <1>4, <3>1
  <2>2. Layout!SoundLayout(t) /\ t \in Layout!Layouts
    BY <1>1, RelocateStays, SoundSections
  <2>3. RelocatesTo(t, s, e, d, w, y) /\ Going(z, o, il, v, tl, fl, c, e, d, w, y)
    BY <1>1, <2>1, RelocatedPlaces
  <2>4. w \in Word32 /\ y \in Word32
    <3>1. t.variables_offset = w /\ t.index_offset = y
      BY <2>3, Zenon DEF RelocatesTo
    <3>2. t.variables_offset \in Word32 /\ t.index_offset \in Word32
      BY <2>2, SoundWords DEF Fit
    <3> QED BY <3>1, <3>2, Zenon
  <2>5. y = Layout!RoundUp(w + tl)
    OBVIOUS
  <2>6. x = EntriesFollowed(h, e, d)[Count(h)]
    <3> HIDE DEF z, o, il, v, tl, fl, c, e, d, w, y
    <3> QED BY <1>2, <2>3, <2>5, RelocateSteps DEF g, h
  <2>7. z = Len(m)
    BY <1>2
  <2>8. z = s.size /\ o = s.index_offset /\ il = s.index_length /\ v = s.variables_offset
        /\ tl = s.trailer_len /\ fl = s.freelist_offset /\ c = Layout!IndexPoint(s)
    OBVIOUS
  <2> HIDE DEF z, o, il, v, tl, fl, c, e, d, w, y
  <2>9. CopiesOf(g, m, z, o, il, v, tl, e, d, w, y)
    BY <1>2, <2>3, <2>7, CopiedBytes
  <2> HIDE DEF g
  <2>10. HeadOf(h, m, z, o, il, v, tl, e, d, w, y)
    BY <2>3, <2>4, <2>9, HeaderWritten
  <2> HIDE DEF h
  <2>11. Rewritten(x, h, t, Len(s.entries), y, il) /\ Encodes(x, t)
    BY <1>1, <2>2, <2>3, <2>6, <2>8, <2>10, RelocatedEncodes
  <2>12. Carried(x, t, m, s)
    BY <1>1, <2>3, <2>8, <2>10, <2>11, RelocatedCarried
  <2>13. Spare(x, t)
    BY <1>1, <2>2, <2>3, <2>8, <2>10, <2>11, RelocatedSpare
  <2>14. /\ t.variable_bytes = s.variable_bytes /\ Len(t.entries) = Len(s.entries)
         /\ \A i \in 1 .. Len(s.entries) : Length(t, i) = Length(s, i)
    BY <2>3 DEF RelocatesTo
  <2>15. Succeeds(x, t, m, s)
    BY <2>2, <2>11, <2>12, <2>13, <2>14, FileIs DEF Fit
  <2> QED BY <2>14, <2>15
<1> QED BY <1>3, <1>4

-----------------------------------------------------------------------------
(***************************************************************************)
(* The inductive invariant, action by action.                              *)
(***************************************************************************)

(* The invariant: the memory is a file, laid out as s, whose free list is   *)
(* where the history variable says.                                        *)
FileAt(m, f, s) == File(m, s) /\ s.freelist_offset = f

BytesInv == \E s : FileAt(mem, freelist, s)

(* The layout that the actions read from the bytes is the layout of the file. *)
LEMMA NowIs ==
  ASSUME NEW s, FileAt(mem, freelist, s)
  PROVE  Now = s
BY FileLayout, Zenon DEF Now, FileAt

(* What the constants of BomBytes are, in the terms used here. *)
LEMMA Inputs ==
  /\ \A data \in Contents : data \in Seq(Byte) /\ Len(data) \in Nat
  /\ \A name \in Names : name \in Seq(Byte) /\ Len(name) \in Nat
  /\ \A junk \in Junk : junk \in Byte
  /\ \A n \in FreeCounts : n \in Nat /\ n # 0
  /\ \A n \in ReserveCounts : n \in Nat
  /\ \A n \in Lengths : n \in Nat
<1>1. Seq(0..255) = Seq(Byte)
  BY DEF Byte
<1>2. \A name \in Seq(1..255) : name \in Seq(Byte)
  <2> SUFFICES ASSUME NEW name \in Seq(1..255) PROVE name \in Seq(Byte)
    OBVIOUS
  <2> DEFINE n == Len(name)
  <2>1. n \in Nat /\ name = [k \in 1 .. n |-> name[k]]
    BY LenProperties
  <2>2. \A k \in 1 .. n : name[k] \in 1..255
    BY ElementOfSeq
  <2>3. \A v \in 1..255 : v \in Byte
    BY DEF Byte
  <2> HIDE DEF n
  <2>4. name \in [1 .. n -> Byte]
    BY <2>1, <2>2, <2>3
  <2> QED BY <2>1, <2>4, SeqDef
<1>3. \A q \in Seq(Byte) : Len(q) \in Nat
  BY LenProperties
<1>4. /\ Contents \subseteq Seq(Byte) /\ Names \subseteq Seq(Byte) /\ Junk \subseteq Byte
  BY <1>1, <1>2, BytesAssumption DEF Byte
<1>5. FreeCounts \subseteq Nat \ {0} /\ ReserveCounts \subseteq Nat /\ Lengths \subseteq Nat
  BY BytesAssumption
<1> QED BY <1>3, <1>4, <1>5

(* A layout in bounds has a size of 32 bits. *)
LEMMA FitIs ==
  ASSUME NEW t, Layout!SoundLayout(t), Fits(t)
  PROVE  Fit(t)
BY SoundSections, FitsWord DEF Fit

(* What a step leaves behind. *)
Stepped(s, t) == FileAt(mem', freelist', t) /\ Fits(t) /\ Layout!SoundLayout(t)

(* A success that follows the free list is such a step. *)
LEMMA SuccessIs ==
  ASSUME NEW s, NEW t, Fits(t), freelist' = t.freelist_offset, Succeeds(mem', t, mem, s)
  PROVE  Stepped(s, t)
BY DEF Stepped, FileAt, Succeeds, File

(* What each action of BomBytes leaves, and of what was there: Reserve. *)
LEMMA ReserveStep ==
  ASSUME NEW s, FileAt(mem, freelist, s), NEW count \in ReserveCounts, Reserve(count),
         NEW t, t = Layout!IndexReserve(s, count)
  PROVE  Stepped(s, t) /\ Succeeds(mem', t, mem, s)
<1>1. Now = s
  BY NowIs
<1>2. PICK junk \in Junk : mem' = IndexReserve(mem, count, junk)
  BY Zenon DEF Reserve
<1>3. Fits(t) /\ freelist' = t.freelist_offset
  BY <1>1, Zenon DEF Reserve
<1>4. count \in Nat /\ junk \in Byte
  BY Inputs
<1>5. Layout!SoundLayout(s) /\ File(mem, s)
  BY DEF FileAt, File
<1>6. Fit(t)
  BY <1>3, <1>4, <1>5, ReserveStays, FitIs
<1>7. Succeeds(mem', t, mem, s)
  BY <1>2, <1>4, <1>5, <1>6, ReserveFile DEF Fit
<1> QED BY <1>3, <1>7, SuccessIs

(* AddBlock: the last block has the data, every other one what it had. *)
LEMMA AddStep ==
  ASSUME NEW s, FileAt(mem, freelist, s), NEW data \in Contents, AddBlock(data),
         NEW t, t = Layout!IndexAdd(s, Len(data))
  PROVE  /\ Stepped(s, t) /\ Succeeds(mem', t, mem, s) /\ Len(t.entries) = Len(s.entries) + 1
         /\ Address(t, Len(s.entries) + 1) # 0
         /\ Length(t, Len(s.entries) + 1) = Len(data)
         /\ Same(mem', Address(t, Len(s.entries) + 1), data, 0, Len(data))
         /\ \A i \in 1 .. Len(s.entries) : Length(t, i) = Length(s, i)
<1>1. Now = s
  BY NowIs
<1>2. PICK junk \in Junk : mem' = IndexAdd(mem, data, junk)
  BY Zenon DEF AddBlock
<1>3. Fits(t) /\ freelist' = t.freelist_offset
  BY <1>1, Zenon DEF AddBlock
<1>4. data \in Seq(Byte) /\ Len(data) \in Nat /\ junk \in Byte
  BY Inputs
<1>5. Layout!SoundLayout(s) /\ File(mem, s)
  BY DEF FileAt, File
<1>6. t.size \in Word32
  BY <1>3, <1>4, <1>5, AddStays, FitIs DEF Fit
<1>7. /\ Succeeds(mem', t, mem, s) /\ Len(t.entries) = Len(s.entries) + 1
      /\ Address(t, Len(s.entries) + 1) # 0
      /\ Length(t, Len(s.entries) + 1) = Len(data)
      /\ Same(mem', Address(t, Len(s.entries) + 1), data, 0, Len(data))
      /\ \A i \in 1 .. Len(s.entries) : Length(t, i) = Length(s, i)
  BY <1>2, <1>4, <1>5, <1>6, AddFile
<1>8. Stepped(s, t)
  BY <1>3, <1>7, SuccessIs
<1> QED BY <1>7, <1>8

(* AddFreeIndices: the new positions are vacant. *)
LEMMA FreeStep ==
  ASSUME NEW s, FileAt(mem, freelist, s), NEW n \in FreeCounts, AddFreeIndices(n),
         NEW t, t = Layout!FreeIndicesAdd(s, n)
  PROVE  /\ n = 1 \/ ~Layout!IndexFull(s, n)
         /\ Stepped(s, t) /\ Succeeds(mem', t, mem, s) /\ Len(t.entries) = Len(s.entries) + n
         /\ \A i \in Len(s.entries) + 1 .. Len(s.entries) + n : Address(t, i) = 0 /\ Length(t, i) = 0
         /\ \A i \in 1 .. Len(s.entries) : Length(t, i) = Length(s, i)
<1>1. Now = s
  BY NowIs
<1>2. PICK junk \in Junk : mem' = FreeIndicesAdd(mem, n, junk)
  BY Zenon DEF AddFreeIndices
<1>3. Fits(t) /\ freelist' = t.freelist_offset
  BY <1>1, Zenon DEF AddFreeIndices
<1>4. n \in Nat /\ junk \in Byte
  BY Inputs
<1>5. Layout!SoundLayout(s) /\ File(mem, s)
  BY DEF FileAt, File
<1>6. n = 1 \/ ~Layout!IndexFull(s, n)
  <2>1. n = 1 \/ ~IndexFull(mem, n)
    BY Zenon DEF AddFreeIndices
  <2>2. IndexFull(mem, n) <=> Layout!IndexFull(s, n)
    BY <1>4, <1>5, FullIsFull DEF File
  <2> QED BY <2>1, <2>2
<1>7. Fit(t)
  BY <1>3, <1>4, <1>5, <1>6, FreeStays, FitIs
<1>8. /\ Succeeds(mem', t, mem, s) /\ Len(t.entries) = Len(s.entries) + n
      /\ \A i \in Len(s.entries) + 1 .. Len(s.entries) + n : Address(t, i) = 0 /\ Length(t, i) = 0
      /\ \A i \in 1 .. Len(s.entries) : Length(t, i) = Length(s, i)
  BY <1>2, <1>4, <1>5, <1>6, <1>7, FreeFile
<1>9. Stepped(s, t)
  BY <1>3, <1>8, SuccessIs
<1> QED BY <1>6, <1>8, <1>9

(* A position of the code, from 0, is an entry of the layout, from 1. *)
LEMMA PositionIs ==
  ASSUME NEW s, FileAt(mem, freelist, s), NEW i \in Positions
  PROVE  /\ i + 1 \in 1 .. Len(s.entries) /\ i \in Nat /\ (i + 1) - 1 = i
         /\ EntryAddress(mem, i) = Address(s, i + 1) /\ EntryLength(mem, i) = Length(s, i + 1)
<1>1. Encodes(mem, s) /\ s \in Layout!Layouts
  BY SoundSections DEF FileAt, File
<1>2. Count(mem) = Len(s.entries) /\ Len(s.entries) \in Nat
  BY <1>1, LayoutTypes DEF Encodes
<1>3. i + 1 \in 1 .. Len(s.entries) /\ i \in Nat /\ (i + 1) - 1 = i
  BY <1>2 DEF Positions
<1> QED BY <1>1, <1>3 DEF Encodes

(* AppendToBlock: one block is longer, and begins with what was in it. *)
LEMMA AppendStep ==
  ASSUME NEW s, FileAt(mem, freelist, s), NEW i \in Positions, NEW n \in Lengths, AppendToBlock(i, n),
         NEW t, t = Layout!IndexAppend(s, i + 1, n)
  PROVE  /\ Stepped(s, t) /\ Succeeds(mem', t, mem, s) /\ Len(t.entries) = Len(s.entries)
         /\ Length(s, i + 1) > 0
         /\ \A j \in 1 .. Len(s.entries) : j # i + 1 => Length(t, j) = Length(s, j)
         /\ Length(t, i + 1) = Length(s, i + 1) + n
<1> DEFINE k == i + 1
<1>1. Now = s
  BY NowIs
<1>2. PICK junk \in Junk : mem' = IndexAppend(mem, i, n, junk)
  BY Zenon DEF AppendToBlock
<1>3. Fits(t) /\ freelist' = t.freelist_offset
  BY <1>1, Zenon DEF AppendToBlock
<1>4. n \in Nat /\ junk \in Byte
  BY Inputs
<1>5. Layout!SoundLayout(s) /\ File(mem, s)
  BY DEF FileAt, File
<1>6. k \in 1 .. Len(s.entries) /\ k - 1 = i /\ Length(s, k) > 0
  BY PositionIs, Zenon DEF AppendToBlock
<1> HIDE DEF k
<1>7. t = Layout!IndexAppend(s, k, n)
  BY DEF k
<1>8. Fit(t)
  BY <1>3, <1>4, <1>5, <1>6, <1>7, AppendStays, FitIs
<1>9. mem' = IndexAppend(mem, k - 1, n, junk)
  BY <1>2, <1>6
<1>10. /\ Succeeds(mem', t, mem, s) /\ Len(t.entries) = Len(s.entries)
       /\ \A j \in 1 .. Len(s.entries) : j # k => Length(t, j) = Length(s, j)
       /\ Length(t, k) = Length(s, k) + n
  BY <1>4, <1>5, <1>6, <1>7, <1>8, <1>9, AppendFile
<1>11. Stepped(s, t)
  BY <1>3, <1>10, SuccessIs
<1> QED BY <1>6, <1>10, <1>11 DEF k

(* StoreInBlock: one byte of one block is another. *)
LEMMA StoreStep ==
  ASSUME NEW s, FileAt(mem, freelist, s), NEW i \in Positions, NEW k, NEW byte \in Byte,
         StoreInBlock(i, k, byte)
  PROVE  /\ FileAt(mem', freelist', s) /\ k \in 0 .. Length(s, i + 1) - 1
         /\ OnlyAt(mem', mem, Address(s, i + 1) + k, 1)
         /\ mem'[Address(s, i + 1) + k + 1] = byte
         /\ Same(mem', s.variables_offset, mem, s.variables_offset, 4 + s.variable_bytes)
         /\ \A j \in 1 .. Len(s.entries) :
              j # i + 1 => Same(mem', Address(s, j), mem, Address(s, j), Length(s, j))
<1> DEFINE l == i + 1
<1>1. /\ l \in 1 .. Len(s.entries) /\ EntryAddress(mem, i) = Address(s, l)
      /\ EntryLength(mem, i) = Length(s, l)
  BY PositionIs
<1>2. k \in 0 .. Length(s, l) - 1 /\ mem' = Put(mem, Address(s, l) + k, << byte >>)
  BY <1>1, Zenon DEF StoreInBlock
<1>3. freelist' = freelist
  BY Zenon DEF StoreInBlock
<1>4. File(mem, s) /\ s.freelist_offset = freelist
  BY DEF FileAt
<1> HIDE DEF l
<1>5. /\ File(mem', s) /\ OnlyAt(mem', mem, Address(s, l) + k, 1)
      /\ mem'[Address(s, l) + k + 1] = byte
      /\ Same(mem', s.variables_offset, mem, s.variables_offset, 4 + s.variable_bytes)
      /\ \A j \in 1 .. Len(s.entries) :
           j # l => Same(mem', Address(s, j), mem, Address(s, j), Length(s, j))
  BY <1>1, <1>2, <1>4, StoreFile
<1> QED BY <1>2, <1>3, <1>4, <1>5 DEF l, FileAt

(* AddVariable: the variable is behind the others. *)
LEMMA VariableStep ==
  ASSUME NEW s, FileAt(mem, freelist, s), NEW name \in Names, NEW index \in Positions,
         AddVariable(name, index), NEW t, t = Layout!VariableAdd(s, Len(name)),
         NEW st, NEW n, Walk(mem, s, st, n)
  PROVE  /\ Stepped(s, t) /\ Kept(mem', t, mem, s)
         /\ Variables(mem', t, mem, s, st, n, name, index)
         /\ Len(t.entries) = Len(s.entries)
         /\ \A i \in 1 .. Len(s.entries) : Length(t, i) = Length(s, i)
<1>1. Now = s
  BY NowIs
<1>2. PICK junk \in Junk : mem' = VariableAdd(mem, name, index, junk)
  BY Zenon DEF AddVariable
<1>3. Fits(t) /\ freelist' = t.freelist_offset
  BY <1>1, Zenon DEF AddVariable
<1>4. name \in Seq(Byte) /\ Len(name) \in Nat /\ junk \in Byte
  BY Inputs
<1>5. Layout!SoundLayout(s) /\ File(mem, s)
  BY DEF FileAt, File
<1>6. Fit(t)
  BY <1>3, <1>4, <1>5, VariableStays, FitIs
<1>7. index \in Word32
  <2> DEFINE N == Len(s.entries)
  <2>1. N \in Word32
    BY <1>5, SoundWords DEF File
  <2>2. index \in Nat /\ index <= N
    <3>1. index + 1 \in 1 .. N /\ index \in Nat /\ N \in Nat
      BY <1>5, PositionIs, SoundSections
    <3> HIDE DEF N
    <3> QED BY <3>1
  <2> HIDE DEF N
  <2> QED BY <2>1, <2>2, WordLess
<1>8. /\ File(mem', t) /\ Kept(mem', t, mem, s) /\ Variables(mem', t, mem, s, st, n, name, index)
      /\ Len(t.entries) = Len(s.entries)
      /\ \A i \in 1 .. Len(s.entries) : Length(t, i) = Length(s, i)
  BY <1>2, <1>4, <1>5, <1>6, <1>7, VariableFile
<1>9. Stepped(s, t)
  BY <1>3, <1>8 DEF Stepped, FileAt, File
<1> QED BY <1>8, <1>9

(* Relocate: every block and variable is still there, wherever it is now. *)
LEMMA RelocateStep ==
  ASSUME NEW s, FileAt(mem, freelist, s), Relocate, NEW t, t = Layout!RelocateTrailer(s)
  PROVE  /\ Stepped(s, t) /\ Succeeds(mem', t, mem, s) /\ Len(t.entries) = Len(s.entries)
         /\ \A i \in 1 .. Len(s.entries) : Length(t, i) = Length(s, i)
<1>1. Now = s
  BY NowIs
<1>2. PICK junk \in Junk : mem' = RelocateTrailer(mem, junk)
  BY Zenon DEF Relocate
<1>3. Fits(t) /\ freelist' = t.freelist_offset
  BY <1>1, Zenon DEF Relocate
<1>4. junk \in Byte
  BY Inputs
<1>5. Layout!SoundLayout(s) /\ File(mem, s)
  BY DEF FileAt, File
<1>6. Fit(t)
  BY <1>3, <1>5, RelocateStays, FitIs
<1>7. /\ Succeeds(mem', t, mem, s) /\ Len(t.entries) = Len(s.entries)
      /\ \A i \in 1 .. Len(s.entries) : Length(t, i) = Length(s, i)
  BY <1>2, <1>4, <1>5, <1>6, RelocateFile
<1>8. Stepped(s, t)
  BY <1>3, <1>7, SuccessIs
<1> QED BY <1>7, <1>8

(* The memory is a file at first. *)
LEMMA InitFile == Init => FileAt(mem, freelist, Layout!EmptyLayout)
BY EmptyFile, Zenon DEF Init, FileAt

(* Every step, and a stutter. *)
LEMMA StepFile ==
  ASSUME NEW s, FileAt(mem, freelist, s), [Next]_vars
  PROVE  \E t : FileAt(mem', freelist', t)
<1>1. ASSUME NEW count \in ReserveCounts, Reserve(count) PROVE \E t : FileAt(mem', freelist', t)
  <2> DEFINE t == Layout!IndexReserve(s, count)
  <2>1. Stepped(s, t)
    BY <1>1, ReserveStep
  <2> QED BY <2>1 DEF Stepped
<1>2. ASSUME NEW data \in Contents, AddBlock(data) PROVE \E t : FileAt(mem', freelist', t)
  <2> DEFINE t == Layout!IndexAdd(s, Len(data))
  <2>1. Stepped(s, t)
    BY <1>2, AddStep
  <2> QED BY <2>1 DEF Stepped
<1>3. ASSUME NEW n \in FreeCounts, AddFreeIndices(n) PROVE \E t : FileAt(mem', freelist', t)
  <2> DEFINE t == Layout!FreeIndicesAdd(s, n)
  <2>1. Stepped(s, t)
    BY <1>3, FreeStep
  <2> QED BY <2>1 DEF Stepped
<1>4. ASSUME NEW i \in Positions, NEW n \in Lengths, AppendToBlock(i, n)
      PROVE  \E t : FileAt(mem', freelist', t)
  <2> DEFINE t == Layout!IndexAppend(s, i + 1, n)
  <2>1. Stepped(s, t)
    BY <1>4, AppendStep
  <2> QED BY <2>1 DEF Stepped
<1>5. ASSUME NEW i \in Positions, NEW k \in Edges(i), StoreInBlock(i, k, 0)
      PROVE  \E t : FileAt(mem', freelist', t)
  <2>1. 0 \in Byte
    BY DEF Byte
  <2>2. FileAt(mem', freelist', s)
    BY <1>5, <2>1, StoreStep
  <2> QED BY <2>2
<1>6. ASSUME NEW name \in Names, NEW i \in Positions, AddVariable(name, i)
      PROVE  \E t : FileAt(mem', freelist', t)
  <2> DEFINE t == Layout!VariableAdd(s, Len(name))
  <2>1. PICK n, st : Walk(mem, s, st, n)
    BY DEF FileAt, File, Walks
  <2>2. Stepped(s, t)
    BY <1>6, <2>1, VariableStep
  <2> QED BY <2>2 DEF Stepped
<1>7. ASSUME Relocate PROVE \E t : FileAt(mem', freelist', t)
  <2> DEFINE t == Layout!RelocateTrailer(s)
  <2>1. Stepped(s, t)
    BY <1>7, RelocateStep
  <2> QED BY <2>1 DEF Stepped
<1>8. ASSUME UNCHANGED vars PROVE \E t : FileAt(mem', freelist', t)
  BY <1>8 DEF vars
<1> QED BY <1>1, <1>2, <1>3, <1>4, <1>5, <1>6, <1>7, <1>8 DEF Next

(* The memory of a BOM is always a file. *)
THEOREM BytesInvariant == Spec => []BytesInv
<1>1. Init => BytesInv
  BY InitFile DEF BytesInv
<1>2. BytesInv /\ [Next]_vars => BytesInv'
  BY StepFile DEF BytesInv
<1> QED BY <1>1, <1>2, PTL DEF Spec

(* The invariant is strong enough: a file is well formed. *)
LEMMA FilesAreWellFormed == BytesInv => WellFormed
<1> SUFFICES ASSUME NEW s, FileAt(mem, freelist, s) PROVE WellFormed
  BY DEF BytesInv
<1>1. WellFormedAt(mem, freelist)
  BY FileWellFormed, Zenon DEF FileAt
<1> QED BY <1>1, Zenon DEF WellFormedAt, WellFormed, Positions

(* Whatever sequence of operations has written it, the library can load the  *)
(* file again: the header is right, no block lies outside the buffer, and the *)
(* free part of the index is zero (WellFormed).                              *)
THEOREM BytesWellFormed == Spec => []WellFormed
BY BytesInvariant, FilesAreWellFormed, PTL

-----------------------------------------------------------------------------
(***************************************************************************)
(* The geometry that BomBytes implements.                                  *)
(***************************************************************************)

(* The operations of the geometry are those on layouts. *)
LEMMA ReserveIsReserve == \A s, n : Geometry!IndexReserve(s, n) = Layout!IndexReserve(s, n)
BY DEF Geometry!IndexReserve, Layout!IndexReserve, Geometry!Resize, Layout!Resize,
       Geometry!Shift, Layout!Shift, Geometry!ReservePoint, Layout!ReservePoint,
       Geometry!IndexPoint, Layout!IndexPoint, Geometry!CountSize, Layout!CountSize,
       Geometry!EntrySize, Layout!EntrySize

(* Growth by an entry, and when. *)
LEMMA FullGrowIs ==
  ASSUME NEW s
  PROVE  /\ Geometry!GrowForAdd(s) = Layout!GrowForAdd(s)
         /\ \A n : Geometry!IndexFull(s, n) <=> Layout!IndexFull(s, n)
BY DEF Geometry!GrowForAdd, Layout!GrowForAdd, Geometry!Resize, Layout!Resize, Geometry!Shift,
       Layout!Shift, Geometry!IndexFull, Layout!IndexFull, Geometry!IndexPoint, Layout!IndexPoint,
       Geometry!CountSize, Layout!CountSize, Geometry!EntrySize, Layout!EntrySize

(* bom_index_add. *)
LEMMA AddIsAdd ==
  ASSUME NEW s, NEW n
  PROVE  Geometry!IndexAdd(s, n) = Layout!IndexAdd(s, n)
<1> DEFINE g == Layout!GrowForAdd(s)
           r == Layout!Resize(g, g.size, n)
           A(y) == [y EXCEPT !.entries = Append(y.entries, [address |-> g.size, length |-> n]),
                             !.block_count = Len(s.entries) + 1]
<1>1. Geometry!GrowForAdd(s) = g
  BY FullGrowIs
<1>2. Layout!IndexAdd(s, n) = A(r)
  BY DEF Layout!IndexAdd
<1>3. Geometry!IndexAdd(s, n) = A(Geometry!Resize(g, g.size, n))
  BY <1>1 DEF Geometry!IndexAdd
<1> HIDE DEF g, A
<1>4. Geometry!Resize(g, g.size, n) = r
  BY DEF Geometry!Resize, Layout!Resize, Geometry!Shift, Layout!Shift
<1> QED BY <1>2, <1>3, <1>4

(* Growth for n vacant entries. *)
LEMMA FreeGrowIs ==
  ASSUME NEW s, NEW n
  PROVE  Geometry!GrowForFree(s, n) = Layout!GrowForFree(s, n)
<1>1. Geometry!IndexFull(s, n) <=> Layout!IndexFull(s, n)
  BY FullGrowIs
<1>2. Geometry!IndexPoint(s) = Layout!IndexPoint(s) /\ Geometry!EntrySize = Layout!EntrySize
  BY DEF Geometry!IndexPoint, Layout!IndexPoint, Geometry!CountSize, Layout!CountSize,
         Geometry!EntrySize, Layout!EntrySize
<1> DEFINE p == Layout!IndexPoint(s)
           d == Layout!EntrySize
<1>3. Geometry!Resize(s, p, d) = Layout!Resize(s, p, d)
  BY DEF Geometry!Resize, Layout!Resize, Geometry!Shift, Layout!Shift
<1> HIDE DEF p, d
<1>4. Geometry!GrowForFree(s, n)
        = IF Geometry!IndexFull(s, n)
          THEN [Geometry!Resize(s, p, d) EXCEPT !.index_length = s.index_length + d * n]
          ELSE s
  BY <1>2, Zenon DEF Geometry!GrowForFree, p, d
<1>5. Layout!GrowForFree(s, n)
        = IF Layout!IndexFull(s, n)
          THEN [Layout!Resize(s, p, d) EXCEPT !.index_length = s.index_length + d * n]
          ELSE s
  BY Zenon DEF Layout!GrowForFree, p, d
<1> QED BY <1>1, <1>3, <1>4, <1>5, Zenon

(* bom_free_indices_add. *)
LEMMA FreeIsFree ==
  ASSUME NEW s, NEW n
  PROVE  Geometry!FreeIndicesAdd(s, n) = Layout!FreeIndicesAdd(s, n)
<1> DEFINE g == Layout!GrowForFree(s, n)
           A(y, v) == [y EXCEPT !.entries = y.entries \o [i \in 1..n |-> v]]
<1>1. Geometry!GrowForFree(s, n) = g
  BY FreeGrowIs
<1>2. Layout!FreeIndicesAdd(s, n) = A(g, Layout!Vacant)
  BY DEF Layout!FreeIndicesAdd
<1>3. Geometry!FreeIndicesAdd(s, n) = A(g, Geometry!Vacant)
  BY <1>1 DEF Geometry!FreeIndicesAdd
<1>4. Geometry!Vacant = Layout!Vacant
  BY DEF Geometry!Vacant, Layout!Vacant
<1> HIDE DEF g, A
<1> QED BY <1>2, <1>3, <1>4

(* bom_index_append. *)
LEMMA AppendIsAppend == \A s, i, n : Geometry!IndexAppend(s, i, n) = Layout!IndexAppend(s, i, n)
BY DEF Geometry!IndexAppend, Layout!IndexAppend, Geometry!Resize, Layout!Resize,
       Geometry!Shift, Layout!Shift, Geometry!BlockEnd, Layout!BlockEnd

(* bom_variable_add. *)
LEMMA VariableIsVariable == \A s, n : Geometry!VariableAdd(s, n) = Layout!VariableAdd(s, n)
BY DEF Geometry!VariableAdd, Layout!VariableAdd, Geometry!Resize, Layout!Resize,
       Geometry!Shift, Layout!Shift, Geometry!Padded, Layout!Padded,
       Geometry!VariableSize, Layout!VariableSize, Geometry!StoredSize, Layout!StoredSize,
       Geometry!CountSize, Layout!CountSize, Geometry!VariableHeaderSize, Layout!VariableHeaderSize

(* bom_relocate_trailer. *)
LEMMA RelocateIsRelocate == \A s : Geometry!RelocateTrailer(s) = Layout!RelocateTrailer(s)
BY DEF Geometry!RelocateTrailer, Layout!RelocateTrailer, Geometry!VariablesEnd, Layout!VariablesEnd,
       Geometry!RoundUp, Layout!RoundUp, Geometry!Alignment, Layout!Alignment,
       Geometry!MovesWithData, Layout!MovesWithData, Geometry!IsBlock, Layout!IsBlock,
       Geometry!Vacant, Layout!Vacant

(* bom_alloc_empty. *)
LEMMA EmptyIsEmpty == Geometry!EmptyLayout = Layout!EmptyLayout
BY DEF Geometry!EmptyLayout, Layout!EmptyLayout, Geometry!HeaderSize, Layout!HeaderSize,
       Geometry!CountSize, Layout!CountSize, Geometry!FreelistSize, Layout!FreelistSize

(* The layout that is read from the bytes, before and after a step. *)
LEMMA LayoutNow ==
  ASSUME NEW s, FileAt(mem, freelist, s)
  PROVE  LayoutOf(mem, freelist) = s
BY FileLayout, Zenon DEF FileAt

(* And after it. *)
LEMMA LayoutNext ==
  ASSUME NEW s, NEW t, Stepped(s, t)
  PROVE  LayoutOf(mem', freelist') = t /\ Geometry!Fits(t)
<1>1. LayoutOf(mem', freelist') = t
  BY FileLayout, Zenon DEF FileAt, Stepped
<1> QED BY <1>1 DEF Stepped, Fits, Geometry!Fits

(* Every step of the bytes is a careful step of the geometry. *)
LEMMA StepIsGeometry ==
  ASSUME NEW s, FileAt(mem, freelist, s), [Next]_vars
  PROVE  [Geometry!CarefulNext]_(LayoutOf(mem, freelist))
<1>0. LayoutOf(mem, freelist) = s /\ s \in Layout!Layouts
  BY LayoutNow, SoundSections DEF FileAt, File
<1>1. ASSUME NEW count \in ReserveCounts, Reserve(count) PROVE Geometry!CarefulNext
  <2> DEFINE t == Layout!IndexReserve(s, count)
  <2>1. LayoutOf(mem', freelist') = t /\ Geometry!Fits(t)
    BY <1>1, ReserveStep, LayoutNext
  <2>2. t = Geometry!IndexReserve(s, count)
    BY ReserveIsReserve
  <2>3. Geometry!Reserve(count)
    BY <1>0, <2>1, <2>2, Zenon DEF Geometry!Reserve
  <2> QED BY <2>3 DEF Geometry!CarefulNext
<1>2. ASSUME NEW data \in Contents, AddBlock(data) PROVE Geometry!CarefulNext
  <2> DEFINE t == Layout!IndexAdd(s, Len(data))
  <2>1. LayoutOf(mem', freelist') = t /\ Geometry!Fits(t)
    BY <1>2, AddStep, LayoutNext
  <2>2. t = Geometry!IndexAdd(s, Len(data))
    BY AddIsAdd
  <2>3. Geometry!AddBlock(Len(data))
    BY <1>0, <2>1, <2>2, Zenon DEF Geometry!AddBlock
  <2>4. Len(data) \in {Len(c) : c \in Contents} \cup Lengths
    OBVIOUS
  <2> QED BY <2>3, <2>4, Zenon DEF Geometry!CarefulNext
<1>3. ASSUME NEW n \in FreeCounts, AddFreeIndices(n) PROVE Geometry!CarefulNext
  <2> DEFINE t == Layout!FreeIndicesAdd(s, n)
  <2>0. Stepped(s, t) /\ (n = 1 \/ ~Layout!IndexFull(s, n))
    BY <1>3, FreeStep
  <2>1. LayoutOf(mem', freelist') = t /\ Geometry!Fits(t)
    BY <2>0, LayoutNext
  <2>2. t = Geometry!FreeIndicesAdd(s, n)
    BY FreeIsFree
  <2>3. Geometry!AddFreeIndices(n)
    BY <1>0, <2>1, <2>2, Zenon DEF Geometry!AddFreeIndices
  <2>4. n = 1 \/ ~Geometry!IndexFull(LayoutOf(mem, freelist), n)
    BY <1>0, <2>0, FullGrowIs
  <2> QED BY <2>3, <2>4, Zenon DEF Geometry!CarefulNext
<1>4. ASSUME NEW i \in Positions, NEW n \in Lengths, AppendToBlock(i, n)
      PROVE  Geometry!CarefulNext
  <2> DEFINE k == i + 1
             t == Layout!IndexAppend(s, k, n)
  <2>0. Stepped(s, t) /\ Length(s, k) > 0
    BY <1>4, AppendStep
  <2>1. LayoutOf(mem', freelist') = t /\ Geometry!Fits(t)
    BY <2>0, LayoutNext
  <2>2. t = Geometry!IndexAppend(s, k, n)
    BY AppendIsAppend
  <2>3. k \in DOMAIN s.entries /\ s.entries[k].length > 0
    BY <1>0, <2>0, PositionIs, LayoutTypes DEF Length
  <2>4. Geometry!IsBlock(s.entries[k])
    BY <2>3 DEF Geometry!IsBlock, Geometry!Vacant
  <2> HIDE DEF k
  <2>5. Geometry!AppendToBlock(k, n)
    BY <1>0, <2>1, <2>2, <2>3, <2>4, Zenon DEF Geometry!AppendToBlock
  <2>6. n \in {Len(c) : c \in Contents} \cup Lengths
    OBVIOUS
  <2>7. k \in DOMAIN LayoutOf(mem, freelist).entries /\ LayoutOf(mem, freelist).entries[k].length > 0
    BY <1>0, <2>3
  <2> QED BY <2>5, <2>6, <2>7, Zenon DEF Geometry!CarefulNext
<1>5. ASSUME NEW i \in Positions, NEW k \in Edges(i), StoreInBlock(i, k, 0)
      PROVE  UNCHANGED LayoutOf(mem, freelist)
  <2>1. 0 \in Byte
    BY DEF Byte
  <2>2. FileAt(mem', freelist', s)
    BY <1>5, <2>1, StoreStep
  <2>3. LayoutOf(mem', freelist') = s
    BY <2>2, FileLayout, Zenon DEF FileAt
  <2> QED BY <1>0, <2>3
<1>6. ASSUME NEW name \in Names, NEW i \in Positions, AddVariable(name, i)
      PROVE  Geometry!CarefulNext
  <2> DEFINE t == Layout!VariableAdd(s, Len(name))
  <2>0. PICK n, st : Walk(mem, s, st, n)
    BY DEF FileAt, File, Walks
  <2>1. LayoutOf(mem', freelist') = t /\ Geometry!Fits(t)
    BY <1>6, <2>0, VariableStep, LayoutNext
  <2>2. t = Geometry!VariableAdd(s, Len(name))
    BY VariableIsVariable
  <2>3. Geometry!AddVariable(Len(name))
    BY <1>0, <2>1, <2>2, Zenon DEF Geometry!AddVariable
  <2>4. Len(name) \in {Len(c) : c \in Names}
    OBVIOUS
  <2> QED BY <2>3, <2>4, Zenon DEF Geometry!CarefulNext
<1>7. ASSUME Relocate PROVE Geometry!CarefulNext
  <2> DEFINE t == Layout!RelocateTrailer(s)
  <2>1. LayoutOf(mem', freelist') = t /\ Geometry!Fits(t)
    BY <1>7, RelocateStep, LayoutNext
  <2>2. t = Geometry!RelocateTrailer(s)
    BY RelocateIsRelocate
  <2>3. Geometry!Relocate
    BY <1>0, <2>1, <2>2, Zenon DEF Geometry!Relocate
  <2> QED BY <2>3 DEF Geometry!CarefulNext
<1>8. ASSUME UNCHANGED vars PROVE UNCHANGED LayoutOf(mem, freelist)
  <2>1. mem' = mem /\ freelist' = freelist
    BY <1>8 DEF vars
  <2>2. LayoutOf(mem', freelist') = LayoutOf(mem, freelist)
    BY <2>1
  <2> QED BY <2>2
<1> QED BY <1>1, <1>2, <1>3, <1>4, <1>5, <1>6, <1>7, <1>8, Zenon DEF Next

(* The offsets and lengths that bom.c stores in the bytes are, after every   *)
(* operation, those of the geometry: the byte-level functions implement      *)
(* BomStore, within its careful calls.                                       *)
THEOREM BytesAreGeometry == Spec => BytesImplementGeometry
<1>1. Init => Geometry!Init
  <2>1. ASSUME Init PROVE LayoutOf(mem, freelist) = Layout!EmptyLayout
    BY <2>1, InitFile, LayoutNow
  <2> QED BY <2>1, EmptyIsEmpty DEF Geometry!Init
<1>2. BytesInv /\ [Next]_vars => [Geometry!CarefulNext]_(LayoutOf(mem, freelist))
  BY StepIsGeometry DEF BytesInv
<1> QED BY <1>1, <1>2, BytesInvariant, PTL DEF Spec, BytesImplementGeometry, Geometry!CarefulSpec

-----------------------------------------------------------------------------
(***************************************************************************)
(* The contents that BomBytes implements: blocks.                          *)
(***************************************************************************)

(* Sequences of the same length and the same elements. *)
LEMMA SameSeq ==
  ASSUME NEW q, IsSeq(q), NEW r, IsSeq(r), Len(q) = Len(r),
         \A i \in 1 .. Len(q) : q[i] = r[i]
  PROVE  q = r
<1> DEFINE S == ToSet(q) \cup ToSet(r)
<1>1. /\ Len(q) \in Nat /\ q \in [1 .. Len(q) -> ToSet(q)]
      /\ Len(r) \in Nat /\ r \in [1 .. Len(r) -> ToSet(r)]
  BY SeqOfItsElements, LenProperties DEF IsSeq
<1>2. q \in Seq(S) /\ r \in Seq(S)
  BY <1>1, SeqDef
<1> HIDE DEF S
<1> QED BY <1>2, SeqEqual, Zenon

(* A function over 1 .. n is a sequence. *)
LEMMA FunctionSeq ==
  ASSUME NEW n \in Nat, NEW f, f = [i \in 1 .. n |-> f[i]]
  PROVE  IsSeq(f) /\ Len(f) = n
<1> DEFINE S == {f[i] : i \in 1 .. n}
<1>1. f \in [1 .. n -> S]
  OBVIOUS
<1>2. f \in Seq(S)
  BY <1>1, SeqDef
<1>3. Len(f) = n
  BY <1>1, <1>2, LenProperties
<1> QED BY <1>2, <1>3, SeqOfItsElements

(* Block i of a memory that is laid out as s. *)
Content(m, s, i) ==
  [used |-> Held(s, i), data |-> Bytes(m, Address(s, i), Length(s, i))]

(* What bom_index_get finds in a file are the blocks of its layout. *)
LEMMA BlocksAre ==
  ASSUME NEW m, NEW s, File(m, s)
  PROVE  /\ IsSeq(BlocksOf(m)) /\ Len(BlocksOf(m)) = Len(s.entries) /\ Len(s.entries) \in Nat
         /\ DOMAIN BlocksOf(m) = 1 .. Len(s.entries)
         /\ \A i \in 1 .. Len(s.entries) : BlocksOf(m)[i] = Content(m, s, i)
<1> DEFINE N == Len(s.entries)  b == BlocksOf(m)
<1>1. Encodes(m, s) /\ s \in Layout!Layouts /\ N \in Nat
  BY SoundSections DEF File
<1>2. Count(m) = N /\ Len(m) = s.size
  BY <1>1 DEF Encodes
<1>3. /\ b = [i \in 1 .. N |-> b[i]] /\ DOMAIN b = 1 .. N
      /\ \A i \in 1 .. N : b[i] =
           [used |-> EntryAddress(m, i - 1) # 0 \/ EntryLength(m, i - 1) # 0,
            data |-> IF EntryAddress(m, i - 1) + EntryLength(m, i - 1) > Len(m)
                     THEN << >>
                     ELSE Bytes(m, EntryAddress(m, i - 1), EntryLength(m, i - 1))]
  BY <1>2, Zenon DEF BlocksOf
<1>4. IsSeq(b) /\ Len(b) = N
  <2> HIDE DEF N, b
  <2> QED BY <1>1, <1>3, FunctionSeq
<1>5. ASSUME NEW i \in 1 .. N PROVE b[i] = Content(m, s, i)
  <2>1. EntryAddress(m, i - 1) = Address(s, i) /\ EntryLength(m, i - 1) = Length(s, i)
    BY <1>1 DEF Encodes
  <2>2. ~(Address(s, i) + Length(s, i) > Len(m))
    <3> DEFINE a == Address(s, i)  l == Length(s, i)  z == s.size
    <3>1. a \in Nat /\ l \in Nat /\ a + l <= z /\ z \in Nat
      BY <1>1, SoundBlocks, SoundSections DEF File
    <3> HIDE DEF a, l, z
    <3>2. ~(a + l > z)
      BY <3>1
    <3> QED BY <1>2, <3>2, Zenon DEF a, l, z
  <2> QED BY <1>3, <2>1, <2>2, Zenon DEF Content, Held
<1> QED BY <1>1, <1>3, <1>4, <1>5, Zenon

(* A block that is kept with its length is read as it was. *)
KeptAt(x, t, m, s, i) ==
  /\ i \in 1 .. Len(s.entries) /\ i \in 1 .. Len(t.entries)
  /\ Held(t, i) <=> Held(s, i)
  /\ Length(t, i) = Length(s, i)
  /\ Same(x, Address(t, i), m, Address(s, i), Length(s, i))

SameContent(x, t, m, s, i) == Content(x, t, i) = Content(m, s, i)

(* Then its contents are what they were. *)
LEMMA ContentKept ==
  ASSUME NEW m, NEW s, File(m, s), NEW x, NEW t, File(x, t), NEW i, KeptAt(x, t, m, s, i)
  PROVE  SameContent(x, t, m, s, i)
<1>0. /\ i \in 1 .. Len(s.entries) /\ i \in 1 .. Len(t.entries)
      /\ Held(t, i) <=> Held(s, i)
      /\ Length(t, i) = Length(s, i)
      /\ Same(x, Address(t, i), m, Address(s, i), Length(s, i))
  BY DEF KeptAt
<1> DEFINE a == Address(s, i)  b == Address(t, i)  n == Length(s, i)
<1>1. m \in Seq(Byte) /\ x \in Seq(Byte)
  BY DEF File, Encodes
<1>2. a \in Nat /\ n \in Nat /\ a + n <= Len(m)
  BY <1>0, SoundBlocks DEF File, Encodes
<1>3. b \in Nat /\ b + n <= Len(x)
  BY <1>0, SoundBlocks DEF File, Encodes
<1>4. Same(x, b, m, a, n)
  BY <1>0
<1>5. Bytes(x, b, n) = Bytes(m, a, n)
  <2> HIDE DEF a, b, n
  <2> QED BY <1>1, <1>2, <1>3, <1>4, SameBytes
<1>6. Bytes(x, Address(t, i), Length(t, i)) = Bytes(m, Address(s, i), Length(s, i))
  BY <1>0, <1>5, Zenon
<1>7. Held(t, i) = Held(s, i)
  BY <1>0 DEF Held
<1> QED BY <1>6, <1>7, Zenon DEF Content, SameContent

(* Blocks that keep their lengths are read as they were. *)
SameLengths(t, s) == \A i \in 1 .. Len(s.entries) : Length(t, i) = Length(s, i)

(* Blocks that keep their lengths are found as they were. *)
LEMMA BlocksKept ==
  ASSUME NEW m, NEW s, File(m, s), NEW x, NEW t, File(x, t), Kept(x, t, m, s), SameLengths(t, s)
  PROVE  \A i \in 1 .. Len(s.entries) : BlocksOf(x)[i] = BlocksOf(m)[i]
<1>1. Len(s.entries) \in Nat /\ Len(t.entries) \in Nat /\ Len(s.entries) <= Len(t.entries)
  BY BlocksAre DEF Kept
<1> SUFFICES ASSUME NEW i \in 1 .. Len(s.entries) PROVE BlocksOf(x)[i] = BlocksOf(m)[i]
  OBVIOUS
<1>2. i \in 1 .. Len(t.entries)
  BY <1>1
<1>3. KeptAt(x, t, m, s, i)
  BY <1>2, Zenon DEF Kept, SameLengths, KeptAt
<1>4. SameContent(x, t, m, s, i)
  BY <1>3, ContentKept, Zenon
<1>5. BlocksOf(x)[i] = Content(x, t, i) /\ BlocksOf(m)[i] = Content(m, s, i)
  BY <1>2, BlocksAre
<1> QED BY <1>4, <1>5, Zenon DEF SameContent

(* If there are no others, the blocks are the same. *)
LEMMA BlocksSame ==
  ASSUME NEW m, NEW s, File(m, s), NEW x, NEW t, File(x, t), Kept(x, t, m, s), SameLengths(t, s),
         Len(t.entries) = Len(s.entries)
  PROVE  BlocksOf(x) = BlocksOf(m)
<1>1. \A i \in 1 .. Len(s.entries) : BlocksOf(x)[i] = BlocksOf(m)[i]
  BY BlocksKept
<1>2. IsSeq(BlocksOf(x)) /\ IsSeq(BlocksOf(m)) /\ Len(BlocksOf(x)) = Len(BlocksOf(m))
      /\ Len(BlocksOf(x)) = Len(s.entries)
  BY BlocksAre
<1> QED BY <1>1, <1>2, SameSeq, Zenon

-----------------------------------------------------------------------------
(***************************************************************************)
(* The contents that BomBytes implements: variables.                       *)
(***************************************************************************)

(* The variable that is stored at a. *)
VariableAt(m, a) == [name |-> Bytes(m, a + 5, m[a + 5]), index |-> Get(m, a)]

SameVariable(x, b, m, a) == VariableAt(x, b) = VariableAt(m, a)

(* A variable whose bytes are carried is read as it was. *)
LEMMA VariableSame ==
  ASSUME NEW m \in Seq(Byte), NEW x \in Seq(Byte), NEW a \in Nat, NEW b \in Nat, NEW g \in Nat,
         m[a + 5] = g, Same(x, b, m, a, 5 + g), a + 5 + g <= Len(m), b + 5 + g <= Len(x)
  PROVE  SameVariable(x, b, m, a)
<1>1. \A i \in 0 .. 5 + g - 1 : x[b + i + 1] = m[a + i + 1]
  BY DEF Same
<1>2. x[b + 5] = g
  <2> DEFINE k == 4
  <2>1. k \in 0 .. 5 + g - 1 /\ b + k + 1 = b + 5 /\ a + k + 1 = a + 5
    OBVIOUS
  <2> HIDE DEF k
  <2>2. x[b + k + 1] = m[a + k + 1]
    BY <1>1, <2>1
  <2> QED BY <2>1, <2>2
<1>3. Same(x, b, m, a, 4)
  BY <1>1 DEF Same
<1>4. Get(x, b) = Get(m, a)
  BY <1>3, SameGet
<1>5. Same(x, b + 5, m, a + 5, g)
  <2> SUFFICES ASSUME NEW k \in 0 .. g - 1 PROVE x[b + 5 + k + 1] = m[a + 5 + k + 1]
    BY DEF Same
  <2>1. 5 + k \in 0 .. 5 + g - 1 /\ b + (5 + k) + 1 = b + 5 + k + 1 /\ a + (5 + k) + 1 = a + 5 + k + 1
    OBVIOUS
  <2>2. x[b + (5 + k) + 1] = m[a + (5 + k) + 1]
    BY <1>1, <2>1
  <2> QED BY <2>1, <2>2
<1>6. Bytes(x, b + 5, g) = Bytes(m, a + 5, g)
  <2> DEFINE c == a + 5  d == b + 5
  <2>1. c \in Nat /\ d \in Nat /\ c + g <= Len(m) /\ d + g <= Len(x) /\ Same(x, d, m, c, g)
    BY <1>5
  <2> HIDE DEF c, d
  <2>2. Bytes(x, d, g) = Bytes(m, c, g)
    BY <2>1, SameBytes
  <2> QED BY <2>2 DEF c, d
<1> QED BY <1>2, <1>4, <1>6, Zenon DEF SameVariable, VariableAt

(* Where variable i of a walk starts. *)
Start(s, st, i) == s.variables_offset + 4 + st[i - 1]

(* The variables of a file are those of any walk over it. *)
LEMMA VariablesAre ==
  ASSUME NEW m, NEW s, File(m, s), NEW st, NEW n, Walk(m, s, st, n)
  PROVE  /\ IsSeq(VariablesOf(m)) /\ Len(VariablesOf(m)) = n /\ n \in Nat
         /\ \A i \in 1 .. n : VariablesOf(m)[i] = VariableAt(m, Start(s, st, i))
<1> DEFINE q == VariablesOf(m)
<1>1. s \in Layout!Layouts /\ m \in Seq(Byte) /\ VariablesOffset(m) = s.variables_offset
  BY DEF File, Encodes
<1>2. s.variables_offset + 4 + s.variable_bytes <= Len(m)
  <2> DEFINE v == s.variables_offset  vb == s.variable_bytes  tl == s.trailer_len  z == s.size
  <2>1. v \in Nat /\ vb \in Nat /\ tl \in Nat /\ z \in Nat /\ v + tl <= z /\ 4 + vb <= tl
    BY SoundNumbers DEF Numbers, File
  <2>2. Len(m) = z
    BY DEF File, Encodes
  <2> HIDE DEF v, vb, tl, z
  <2>3. v + 4 + vb <= z
    BY <2>1
  <2> QED BY <2>2, <2>3 DEF v, vb
<1>3. VariableCount(m) = n /\ \A i \in 0 .. n : VariableStart(m)[i] = s.variables_offset + 4 + st[i]
  BY <1>1, <1>2, WalkStarts
<1>4. n \in Nat
  BY DEF Walk
<1>5. /\ q = [i \in 1 .. n |-> q[i]]
      /\ \A i \in 1 .. n : q[i] =
           [name  |-> Bytes(m, VariableStart(m)[i - 1] + Layout!VariableHeaderSize,
                            m[VariableStart(m)[i - 1] + 5]),
            index |-> Get(m, VariableStart(m)[i - 1])]
  BY <1>3, Zenon DEF VariablesOf
<1>6. IsSeq(q) /\ Len(q) = n
  <2> HIDE DEF q
  <2> QED BY <1>4, <1>5, FunctionSeq
<1>7. ASSUME NEW i \in 1 .. n PROVE q[i] = VariableAt(m, Start(s, st, i))
  <2>1. i - 1 \in 0 .. n
    BY <1>4
  <2>2. VariableStart(m)[i - 1] = Start(s, st, i)
    BY <1>3, <2>1 DEF Start
  <2>3. Layout!VariableHeaderSize = 5
    BY DEF Layout!VariableHeaderSize
  <2> QED BY <1>5, <2>2, <2>3, Zenon DEF VariableAt
<1> QED BY <1>4, <1>6, <1>7

(* Variables whose bytes are kept are read as they were. *)
LEMMA VariablesKept ==
  ASSUME NEW m, NEW s, File(m, s), NEW x, NEW t, File(x, t),
         Same(x, t.variables_offset + 4, m, s.variables_offset + 4, s.variable_bytes),
         s.variable_bytes <= t.variable_bytes,
         NEW st, NEW n, Walk(m, s, st, n), NEW i \in 1 .. n
  PROVE  SameVariable(x, Start(t, st, i), m, Start(s, st, i))
<1> DEFINE v == s.variables_offset  w == t.variables_offset
           vb == s.variable_bytes  wb == t.variable_bytes
           y == s.size  z == t.size
           c == st[i - 1]  e == st[i]
           a == Start(s, st, i)  b == Start(t, st, i)
           g == m[v + 4 + c + 5]
<1>1. m \in Seq(Byte) /\ x \in Seq(Byte) /\ Len(m) = y /\ Len(x) = z
  BY DEF File, Encodes
<1>2. v \in Nat /\ vb \in Nat /\ y \in Nat /\ v + s.trailer_len <= y /\ 4 + vb <= s.trailer_len
      /\ s.trailer_len \in Nat
  BY SoundNumbers DEF Numbers, File
<1>3. w \in Nat /\ wb \in Nat /\ z \in Nat /\ w + t.trailer_len <= z /\ 4 + wb <= t.trailer_len
      /\ t.trailer_len \in Nat /\ vb <= wb
  BY SoundNumbers DEF Numbers, File
<1>4. v + 4 + vb <= y /\ w + 4 + vb <= z
  <2> DEFINE k == s.trailer_len  l == t.trailer_len
  <2>1. k \in Nat /\ l \in Nat /\ v + k <= y /\ 4 + vb <= k /\ w + l <= z /\ 4 + wb <= l
    BY <1>2, <1>3
  <2> HIDE DEF v, w, vb, wb, y, z, k, l
  <2> QED BY <1>2, <1>3, <2>1
<1>5. c \in Nat /\ e \in Nat /\ e <= vb /\ e = c + 5 + g /\ c + 5 <= e
  <2>1. /\ n \in Nat /\ st \in [0 .. n -> Nat] /\ st[n] = vb
        /\ e = c + 5 + g /\ e <= st[n] /\ c + 5 <= e
    BY DEF Walk
  <2>2. i - 1 \in 0 .. n /\ i \in 0 .. n
    BY <2>1
  <2> QED BY <2>1, <2>2
<1>6. a = v + 4 + c /\ b = w + 4 + c
  BY DEF Start
<1>7. Same(x, w + 4, m, v + 4, vb)
  OBVIOUS
<1>8. g \in Nat
  <2> DEFINE u == v + 4 + c + 5
  <2>1. g = m[u]
    OBVIOUS
  <2> HIDE DEF v, w, vb, wb, y, z, c, e, g
  <2>2. u \in 1 .. y
    BY <1>2, <1>4, <1>5
  <2>3. m[u] \in Byte
    <3> HIDE DEF u
    <3> QED BY <1>1, <2>2, ElementOfSeq
  <2> QED BY <2>1, <2>3 DEF Byte
<1>9. m[a + 5] = g
  BY <1>6
<1> HIDE DEF v, w, vb, wb, y, z, c, e, g, a, b
<1>10. c + (5 + g) <= vb /\ 5 + g \in Nat /\ v + 4 \in Int /\ w + 4 \in Int /\ vb \in Int
  BY <1>2, <1>3, <1>5, <1>8
<1>11. Same(x, w + 4 + c, m, v + 4 + c, 5 + g)
  BY <1>5, <1>7, <1>10, SamePart
<1>12. a \in Nat /\ b \in Nat /\ a + 5 + g <= y /\ b + 5 + g <= z
  BY <1>2, <1>3, <1>4, <1>5, <1>6, <1>8
<1>13. a + 5 + g <= Len(m) /\ b + 5 + g <= Len(x)
  BY <1>1, <1>12
<1>14. Same(x, b, m, a, 5 + g)
  BY <1>6, <1>11
<1>15. SameVariable(x, b, m, a)
  BY <1>1, <1>8, <1>9, <1>12, <1>13, <1>14, VariableSame
<1> QED BY <1>15 DEF a, b

(* The variables are the same when the bytes of their section are. *)
LEMMA SectionSame ==
  ASSUME NEW m, NEW s, File(m, s), NEW x, NEW t, File(x, t),
         t.variable_bytes = s.variable_bytes, Same(x, t.variables_offset, m, s.variables_offset, 4),
         Same(x, t.variables_offset + 4, m, s.variables_offset + 4, s.variable_bytes)
  PROVE  VariablesOf(x) = VariablesOf(m)
<1> DEFINE q == VariablesOf(m)  r == VariablesOf(x)
<1>1. PICK n, st : Walk(m, s, st, n)
  BY DEF File, Walks
<1>2. /\ File(x, t) /\ t.variable_bytes = s.variable_bytes
      /\ Same(x, t.variables_offset, m, s.variables_offset, 4)
      /\ Same(x, t.variables_offset + 4, m, s.variables_offset + 4, s.variable_bytes)
  OBVIOUS
<1>3. s \in Layout!Layouts /\ t \in Layout!Layouts
  BY <1>2 DEF File, Encodes
<1>4. Walk(x, t, st, n)
  BY <1>1, <1>2, <1>3, WalkSame
<1>5. /\ IsSeq(q) /\ Len(q) = n /\ n \in Nat
      /\ \A i \in 1 .. n : q[i] = VariableAt(m, Start(s, st, i))
  BY <1>1, VariablesAre
<1>6. /\ IsSeq(r) /\ Len(r) = n
      /\ \A i \in 1 .. n : r[i] = VariableAt(x, Start(t, st, i))
  BY <1>2, <1>4, VariablesAre
<1>7. s.variable_bytes <= t.variable_bytes
  <2>1. s.variable_bytes \in Nat
    BY <1>3, LayoutTypes
  <2> QED BY <1>2, <2>1
<1>8. \A i \in 1 .. n : SameVariable(x, Start(t, st, i), m, Start(s, st, i))
  BY <1>1, <1>2, <1>7, VariablesKept
<1>9. \A i \in 1 .. n : q[i] = r[i]
  BY <1>5, <1>6, <1>8 DEF SameVariable
<1> HIDE DEF q, r
<1>10. q = r
  BY <1>5, <1>6, <1>9, SameSeq
<1> QED BY <1>10 DEF q, r

(* An operation that leaves the variables alone. *)
LEMMA VariablesSame ==
  ASSUME NEW m, NEW s, File(m, s), NEW x, NEW t, Succeeds(x, t, m, s)
  PROVE  VariablesOf(x) = VariablesOf(m)
<1>1. /\ File(x, t) /\ t.variable_bytes = s.variable_bytes
      /\ Same(x, t.variables_offset, m, s.variables_offset, 4)
      /\ Same(x, t.variables_offset + 4, m, s.variables_offset + 4, s.variable_bytes)
  BY DEF Succeeds, Carried, Kept
<1> QED BY <1>1, SectionSame

(* Nothing is seen of a step that moves things only. *)
LEMMA StutterIs ==
  ASSUME NEW m, NEW s, File(m, s), NEW x, NEW t, Succeeds(x, t, m, s), SameLengths(t, s),
         Len(t.entries) = Len(s.entries)
  PROVE  BlocksOf(x) = BlocksOf(m) /\ VariablesOf(x) = VariablesOf(m)
<1>1. File(x, t) /\ Kept(x, t, m, s)
  BY DEF Succeeds, Carried
<1>2. BlocksOf(x) = BlocksOf(m)
  BY <1>1, BlocksSame
<1> QED BY <1>2, VariablesSame

(* The steps on blocks, as BlockStore has them, of memories. *)
LEMMA BlockAppended ==
  ASSUME NEW m, NEW s, File(m, s), NEW x, NEW t, File(x, t), Kept(x, t, m, s), SameLengths(t, s),
         NEW data \in Seq(Byte), NEW l, l = Len(s.entries) + 1, Len(t.entries) = l,
         Address(t, l) # 0, Length(t, l) = Len(data), Same(x, Address(t, l), data, 0, Len(data))
  PROVE  BlocksOf(x) = Append(BlocksOf(m), [used |-> TRUE, data |-> data])
<1> DEFINE b == BlocksOf(m)  c == BlocksOf(x)  e == [used |-> TRUE, data |-> data]
           N == Len(s.entries)  a == Append(b, e)  n == Len(data)  p == Address(t, l)
<1>1. IsSeq(b) /\ Len(b) = N /\ N \in Nat
  BY BlocksAre
<1>2. IsSeq(c) /\ Len(c) = l /\ \A i \in 1 .. l : c[i] = Content(x, t, i)
  BY BlocksAre
<1>3. \A i \in 1 .. N : c[i] = b[i]
  BY BlocksKept
<1>4. l = N + 1
  OBVIOUS
<1>5. l \in 1 .. l /\ l \in Nat
  BY <1>1, <1>4
<1>6. c[l] = e
  <2>1. x \in Seq(Byte) /\ p \in Nat /\ p + Length(t, l) <= Len(x) /\ n \in Nat /\ n <= Len(data)
    BY <1>5, SoundBlocks, LenProperties DEF File, Encodes
  <2>2. Length(t, l) = n /\ Same(x, p, data, 0, n) /\ Held(t, l) = TRUE
    BY DEF Held
  <2> DEFINE o == 0
  <2>3. p + n <= Len(x) /\ o + n <= Len(data) /\ o \in Nat /\ \A k \in 1 .. n : o + k = k
    BY <2>1, <2>2
  <2> HIDE DEF p, n
  <2>9. Same(x, p, data, o, n)
    BY <2>2
  <2> HIDE DEF o
  <2>4. Bytes(x, p, n) = Bytes(data, o, n)
    <3>1. x \in Seq(Byte) /\ p \in Nat /\ n \in Nat /\ o \in Nat /\ data \in Seq(Byte)
          /\ Same(x, p, data, o, n) /\ p + n <= Len(x) /\ o + n <= Len(data)
      BY <2>1, <2>3, <2>9, Zenon
    <3> QED BY <3>1, SameBytes
  <2>7. Bytes(data, o, n) = data
    <3>1. o + 1 = 1 /\ o + n = n
      BY <2>1 DEF o
    <3>2. SubSeq(data, 1, n) = data
      BY SubSeqFull, Zenon DEF n
    <3> QED BY <3>1, <3>2, Zenon DEF Bytes
  <2>8. Content(x, t, l) = [used |-> Held(t, l), data |-> Bytes(x, p, n)]
    BY <2>2, Zenon DEF Content, p
  <2> QED BY <1>2, <1>5, <2>2, <2>4, <2>7, <2>8, Zenon
<1> HIDE DEF b, c, e
<1>7. IsSeq(a) /\ Len(a) = Len(b) + 1 /\ a[Len(b) + 1] = e /\ \A j \in 1 .. Len(b) : a[j] = b[j]
  BY <1>1, Appended
<1> HIDE DEF a, N
<1>8. \A i \in 1 .. l : c[i] = a[i]
  <2> SUFFICES ASSUME NEW i \in 1 .. l PROVE c[i] = a[i]
    OBVIOUS
  <2>1. CASE i = l
    BY <1>1, <1>4, <1>6, <1>7, <2>1
  <2>2. CASE i # l
    <3>1. i \in 1 .. N
      BY <1>1, <1>4, <2>2
    <3> QED BY <1>1, <1>3, <1>7, <3>1
  <2> QED BY <2>1, <2>2
<1>9. Len(a) = l
  BY <1>1, <1>4, <1>7
<1>10. c = a
  BY <1>2, <1>7, <1>8, <1>9, SameSeq
<1> QED BY <1>10 DEF a, b, c, e

-----------------------------------------------------------------------------
(***************************************************************************)
(* The steps of BlockStore.                                                *)
(***************************************************************************)

Holes(n) == [i \in 1..n |-> Store!Hole]

(* bom_free_indices_add: holes are appended to the blocks. *)
LEMMA HolesAppended ==
  ASSUME NEW m, NEW s, File(m, s), NEW x, NEW t, File(x, t), Kept(x, t, m, s), SameLengths(t, s),
         NEW n \in Nat, NEW l, l = Len(s.entries) + n, Len(t.entries) = l,
         \A i \in Len(s.entries) + 1 .. l : Address(t, i) = 0 /\ Length(t, i) = 0
  PROVE  BlocksOf(x) = BlocksOf(m) \o Holes(n)
<1> DEFINE b == BlocksOf(m)  c == BlocksOf(x)  h == Holes(n)
           N == Len(s.entries)  a == b \o h
<1>1. IsSeq(b) /\ Len(b) = N /\ N \in Nat
  BY BlocksAre
<1>2. IsSeq(c) /\ Len(c) = l /\ \A i \in 1 .. l : c[i] = Content(x, t, i)
  BY BlocksAre
<1>3. \A i \in 1 .. N : c[i] = b[i]
  BY BlocksKept
<1>4. l = N + n
  OBVIOUS
<1>5. IsSeq(h) /\ Len(h) = n /\ \A i \in 1 .. n : h[i] = Store!Hole
  <2>1. h = [i \in 1 .. n |-> h[i]] /\ \A i \in 1 .. n : h[i] = Store!Hole
    BY DEF Holes
  <2> HIDE DEF h
  <2> QED BY <2>1, FunctionSeq
<1>6. ASSUME NEW i \in N + 1 .. l PROVE c[i] = Store!Hole
  <2>1. Address(t, i) = 0 /\ Length(t, i) = 0 /\ i \in 1 .. l
    BY <1>1, <1>4
  <2>2. x \in Seq(Byte)
    BY DEF File, Encodes
  <2>3. Bytes(x, 0, 0) = << >>
    BY <2>2 DEF Bytes
  <2>4. Held(t, i) = FALSE
    BY <2>1 DEF Held
  <2>5. Bytes(x, Address(t, i), Length(t, i)) = << >>
    BY <2>1, <2>3
  <2> QED BY <1>2, <2>1, <2>4, <2>5 DEF Content, Store!Hole
<1> HIDE DEF b, c, h
<1>7. /\ IsSeq(a) /\ Len(a) = Len(b) + Len(h)
      /\ \A j \in 1 .. Len(b) : a[j] = b[j]
      /\ \A j \in 1 .. Len(h) : a[Len(b) + j] = h[j]
  BY <1>1, <1>5, Concatenated
<1> HIDE DEF a, N
<1>8. \A i \in 1 .. l : c[i] = a[i]
  <2> SUFFICES ASSUME NEW i \in 1 .. l PROVE c[i] = a[i]
    OBVIOUS
  <2>1. CASE i > N
    <3>1. i - N \in 1 .. n /\ N + (i - N) = i /\ i \in N + 1 .. l
      BY <1>1, <1>4, <2>1
    <3>2. c[i] = Store!Hole
      BY <1>6, <3>1
    <3>3. a[N + (i - N)] = h[i - N] /\ h[i - N] = Store!Hole
      BY <1>1, <1>5, <1>7, <3>1
    <3> QED BY <3>1, <3>2, <3>3
  <2>2. CASE ~(i > N)
    <3>1. i \in 1 .. N
      BY <1>1, <1>4, <2>2
    <3> QED BY <1>1, <1>3, <1>7, <3>1
  <2> QED BY <2>1, <2>2
<1>9. Len(a) = l
  BY <1>1, <1>4, <1>5, <1>7
<1>10. c = a
  BY <1>2, <1>7, <1>8, <1>9, SameSeq
<1> QED BY <1>10 DEF a, b, c, h

(* A block that is longer begins with what was in it. *)
LongerAt(x, b, m, a, l, n) ==
  /\ m \in Seq(Byte) /\ x \in Seq(Byte) /\ a \in Nat /\ b \in Nat /\ l \in Nat /\ n \in Nat
  /\ Same(x, b, m, a, l) /\ a + l <= Len(m) /\ b + (l + n) <= Len(x)

Begun(x, b, m, a, l, n) ==
  /\ Len(Bytes(m, a, l)) = l /\ Len(Bytes(x, b, l + n)) = l + n
  /\ SubSeq(Bytes(x, b, l + n), 1, l) = Bytes(m, a, l)

(* The longer run begins with the shorter one. *)
LEMMA LongerBytes ==
  ASSUME NEW m, NEW x, NEW a, NEW b, NEW l, NEW n, LongerAt(x, b, m, a, l, n)
  PROVE  Begun(x, b, m, a, l, n)
<1>0. /\ m \in Seq(Byte) /\ x \in Seq(Byte) /\ a \in Nat /\ b \in Nat /\ l \in Nat /\ n \in Nat
      /\ Same(x, b, m, a, l) /\ a + l <= Len(m) /\ b + (l + n) <= Len(x)
  BY DEF LongerAt
<1> DEFINE w == Bytes(x, b, l + n)  q == Bytes(m, a, l)  y == SubSeq(w, 1, l)
<1>1. Len(m) \in Nat /\ Len(x) \in Nat
  BY <1>0, LenProperties
<1>2. b + l <= Len(x) /\ l + n \in Nat
  BY <1>0, <1>1
<1>3. /\ q \in Seq(Byte) /\ Len(q) = l /\ \A k \in 1 .. l : q[k] = m[a + k]
  BY <1>0, <1>2, SameBytes
<1>4. /\ w \in Seq(Byte) /\ Len(w) = l + n /\ \A k \in 1 .. l + n : w[k] = x[b + k]
  <2> DEFINE j == l + n
  <2>1. j \in Nat /\ b + j <= Len(x)
    BY <1>0, <1>2
  <2>2. Same(x, b, x, b, j)
    BY DEF Same
  <2> HIDE DEF j
  <2>3. Bytes(x, b, j) \in Seq(Byte) /\ Len(Bytes(x, b, j)) = j
        /\ \A k \in 1 .. j : Bytes(x, b, j)[k] = x[b + k]
    <3>1. x \in Seq(Byte) /\ b \in Nat
      BY <1>0
    <3> QED BY <2>1, <2>2, <3>1, SameBytes
  <2> QED BY <2>3 DEF j
<1> HIDE DEF w, q
<1>5. /\ y \in Seq(Byte) /\ Len(y) = l /\ \A k \in 1 .. l : y[k] = w[k]
  <2>1. \A k \in 1 .. l : w[k] \in Byte
    BY <1>0, <1>2, <1>4, ElementOfSeq
  <2>2. \A k \in 1 .. l : 1 + k - 1 = k
    OBVIOUS
  <2> QED BY <1>0, <1>4, <2>1, <2>2
<1>6. \A k \in 1 .. l : y[k] = q[k]
  <2> SUFFICES ASSUME NEW k \in 1 .. l PROVE y[k] = q[k]
    OBVIOUS
  <2>1. k - 1 \in 0 .. l - 1 /\ b + (k - 1) + 1 = b + k /\ a + (k - 1) + 1 = a + k
        /\ k \in 1 .. l + n
    BY <1>0
  <2>2. x[b + (k - 1) + 1] = m[a + (k - 1) + 1]
    BY <1>0, <2>1 DEF Same
  <2> QED BY <1>3, <1>4, <1>5, <2>1, <2>2
<1> HIDE DEF y
<1>7. y = q
  BY <1>3, <1>5, <1>6, SeqEqual
<1> QED BY <1>3, <1>4, <1>7 DEF w, q, y, Begun

Row(u, d) == [used |-> u, data |-> d]

(* c is b, but for the data of row k. *)
Differ(c, b, N, k, u, d, e) ==
  /\ b = [i \in 1 .. N |-> b[i]] /\ c = [i \in 1 .. N |-> c[i]]
  /\ k \in 1 .. N /\ \A i \in 1 .. N : i # k => c[i] = b[i]
  /\ b[k] = Row(u, d) /\ c[k] = Row(u, e)

RowIs(c, b, k, u, d, e) ==
  /\ c = [b EXCEPT ![k].data = e]
  /\ b[k].used = u /\ b[k].data = d /\ c[k].data = e

(* Then it is b with other data there. *)
LEMMA RowExcept ==
  ASSUME NEW N, NEW b, NEW c, NEW k, NEW u, NEW d, NEW e, Differ(c, b, N, k, u, d, e)
  PROVE  RowIs(c, b, k, u, d, e)
<1>0. /\ b = [i \in 1 .. N |-> b[i]] /\ c = [i \in 1 .. N |-> c[i]]
      /\ k \in 1 .. N /\ \A i \in 1 .. N : i # k => c[i] = b[i]
      /\ b[k] = Row(u, d) /\ c[k] = Row(u, e)
  BY DEF Differ
<1>1. b[k].used = u /\ b[k].data = d /\ c[k].data = e
  BY <1>0 DEF Row
<1>2. [b[k] EXCEPT !.data = e] = c[k]
  BY <1>0 DEF Row
<1>3. c = [b EXCEPT ![k] = c[k]]
  BY <1>0
<1>4. [b EXCEPT ![k].data = e] = [b EXCEPT ![k] = [b[k] EXCEPT !.data = e]]
  OBVIOUS
<1> QED BY <1>1, <1>2, <1>3, <1>4, Zenon DEF RowIs

(* The step Lengthen of BlockStore, on the contents b and c. *)
Lengthens(c, b, k, n) ==
  /\ k \in DOMAIN b /\ b[k].used
  /\ DOMAIN c = DOMAIN b
  /\ Len(c[k].data) = Len(b[k].data) + n
  /\ SubSeq(c[k].data, 1, Len(b[k].data)) = b[k].data
  /\ c = [b EXCEPT ![k].data = c[k].data]

(* bom_index_append: one block is longer and begins with what was in it. *)
LEMMA BlockLengthened ==
  ASSUME NEW m, NEW s, File(m, s), NEW x, NEW t, File(x, t), Kept(x, t, m, s),
         Len(t.entries) = Len(s.entries), NEW k \in 1 .. Len(s.entries), NEW n \in Nat,
         Length(s, k) > 0, Length(t, k) = Length(s, k) + n,
         \A j \in 1 .. Len(s.entries) : j # k => Length(t, j) = Length(s, j)
  PROVE  Lengthens(BlocksOf(x), BlocksOf(m), k, n)
<1> DEFINE b == BlocksOf(m)  c == BlocksOf(x)  N == Len(s.entries)
           p == Address(s, k)  q == Address(t, k)  l == Length(s, k)
           d == Bytes(m, p, l)  e == Bytes(x, q, l + n)
<1>1. DOMAIN b = 1 .. N /\ N \in Nat /\ \A i \in 1 .. N : b[i] = Content(m, s, i)
  BY BlocksAre
<1>2. DOMAIN c = 1 .. N /\ \A i \in 1 .. N : c[i] = Content(x, t, i)
  BY BlocksAre
<1>3. b = [i \in 1 .. N |-> b[i]] /\ c = [i \in 1 .. N |-> c[i]]
  BY <1>1, <1>2 DEF BlocksOf
<1>4. ASSUME NEW i \in 1 .. N, i # k PROVE c[i] = b[i]
  <2>1. KeptAt(x, t, m, s, i)
    BY <1>4, Zenon DEF Kept, KeptAt
  <2>2. SameContent(x, t, m, s, i)
    BY <2>1, ContentKept, Zenon
  <2> QED BY <1>1, <1>2, <2>2, Zenon DEF SameContent
<1>5. Held(s, k) = TRUE /\ Held(t, k) = TRUE
  <2>1. l \in Nat /\ l > 0
    BY SoundBlocks DEF File
  <2>2. Held(s, k)
    <3> DEFINE z == l # 0
    <3>1. z
      BY <2>1
    <3> QED BY <3>1, Zenon DEF Held
  <2>3. Held(t, k)
    BY <2>2, Zenon DEF Kept
  <2> QED BY <2>2, <2>3 DEF Held
<1>6. b[k] = Row(TRUE, d)
  BY <1>1, <1>5, Zenon DEF Content, Row
<1>7. c[k] = Row(TRUE, e)
  BY <1>2, <1>5, Zenon DEF Content, Row
<1>8. /\ Len(d) = l /\ Len(e) = l + n /\ SubSeq(e, 1, l) = d
  <2>1. m \in Seq(Byte) /\ x \in Seq(Byte)
    BY DEF File, Encodes
  <2>2. p \in Nat /\ l \in Nat /\ p + l <= Len(m)
    BY SoundBlocks DEF File, Encodes
  <2>3. q \in Nat /\ q + (l + n) <= Len(x)
    <3>1. q \in Nat /\ q + Length(t, k) <= Len(x)
      BY SoundBlocks DEF File, Encodes
    <3> QED BY <3>1
  <2>4. Same(x, q, m, p, l)
    BY DEF Kept
  <2> HIDE DEF p, q, l
  <2>5. LongerAt(x, q, m, p, l, n)
    BY <2>1, <2>2, <2>3, <2>4, Zenon DEF LongerAt
  <2>6. Begun(x, q, m, p, l, n)
    BY <2>5, LongerBytes, Zenon
  <2> QED BY <2>6, Zenon DEF Begun
<1> HIDE DEF b, c, d, e, l, N
<1>9. /\ c = [b EXCEPT ![k].data = e]
      /\ b[k].used = TRUE /\ b[k].data = d /\ c[k].data = e
  <2>1. k \in 1 .. N
    BY DEF N
  <2>2. \A i \in 1 .. N : i # k => c[i] = b[i]
    BY <1>4
  <2>3. Differ(c, b, N, k, TRUE, d, e)
    BY <1>3, <1>6, <1>7, <2>1, <2>2, Zenon DEF Differ
  <2>4. RowIs(c, b, k, TRUE, d, e)
    BY <2>3, RowExcept, Zenon
  <2> QED BY <2>4, Zenon DEF RowIs
<1>10. k \in DOMAIN b /\ DOMAIN c = DOMAIN b
  BY <1>1, <1>2 DEF N
<1>11. Lengthens(c, b, k, n)
  BY <1>8, <1>9, <1>10, Zenon DEF Lengthens
<1> QED BY <1>11 DEF b, c

(* The step Overwrite of BlockStore, on the contents b and c. *)
Overwrites(c, b, k, j) ==
  /\ k \in DOMAIN b /\ j \in DOMAIN b[k].data
  /\ DOMAIN c = DOMAIN b
  /\ DOMAIN c[k].data = DOMAIN b[k].data
  /\ c = [b EXCEPT ![k].data[j] = c[k].data[j]]

(* A byte of a run is stored. *)
LEMMA ByteStored ==
  ASSUME NEW m \in Seq(Byte), NEW x \in Seq(Byte), NEW p \in Nat, NEW l \in Nat, NEW o \in 0 .. l - 1,
         Len(x) = Len(m), p + l <= Len(m), OnlyAt(x, m, p + o, 1)
  PROVE  /\ DOMAIN Bytes(m, p, l) = 1 .. l /\ DOMAIN Bytes(x, p, l) = 1 .. l
         /\ o + 1 \in 1 .. l
         /\ Bytes(x, p, l) = [Bytes(m, p, l) EXCEPT ![o + 1] = Bytes(x, p, l)[o + 1]]
<1> DEFINE d == Bytes(m, p, l)  e == Bytes(x, p, l)
<1>1. Len(m) \in Nat
  BY LenProperties
<1>2. d \in Seq(Byte) /\ Len(d) = l /\ \A j \in 1 .. l : d[j] = m[p + j]
  <2>1. Same(m, p, m, p, l)
    BY DEF Same
  <2>2. m \in Seq(Byte) /\ p \in Nat /\ l \in Nat /\ p + l <= Len(m)
    OBVIOUS
  <2>3. /\ Bytes(m, p, l) \in Seq(Byte) /\ Len(Bytes(m, p, l)) = l
        /\ \A j \in 1 .. l : Bytes(m, p, l)[j] = m[p + j]
    BY <2>1, <2>2, SameBytes
  <2> QED BY <2>3
<1>3. e \in Seq(Byte) /\ Len(e) = l /\ \A j \in 1 .. l : e[j] = x[p + j]
  <2>1. Same(x, p, x, p, l)
    BY DEF Same
  <2>2. p + l <= Len(x)
    OBVIOUS
  <2> QED BY <2>1, <2>2, SameBytes
<1> HIDE DEF d, e
<1>4. ASSUME NEW j \in 1 .. l, j # o + 1 PROVE e[j] = d[j]
  <2> DEFINE c == p + j - 1  z == Len(m)
  <2>1. c \in Nat /\ 1 \in Nat /\ c + 1 <= z
    BY <1>1
  <2>2. Beside(c, 1, p + o, 1)
    BY <1>4 DEF Beside
  <2>3. \A cc \in Nat, kk \in Nat : cc + kk <= Len(m) /\ Beside(cc, kk, p + o, 1) => Same(x, cc, m, cc, kk)
    BY DEF OnlyAt
  <2>6. c + 0 + 1 = p + j
    OBVIOUS
  <2> HIDE DEF c
  <2>4. Same(x, c, m, c, 1)
    BY <2>1, <2>2, <2>3
  <2>5. x[c + 0 + 1] = m[c + 0 + 1]
    BY <2>4 DEF Same
  <2> QED BY <1>2, <1>3, <2>5, <2>6
<1>5. o + 1 \in 1 .. l
  OBVIOUS
<1>6. DOMAIN d = 1 .. l /\ DOMAIN e = 1 .. l /\ d = [j \in 1 .. l |-> d[j]] /\ e = [j \in 1 .. l |-> e[j]]
  BY <1>2, <1>3, LenProperties
<1> DEFINE h == o + 1
<1>7. h \in 1 .. l /\ \A j \in 1 .. l : j # h => e[j] = d[j]
  BY <1>4, <1>5
<1> HIDE DEF h
<1>8. e = [d EXCEPT ![h] = e[h]]
  BY <1>6, <1>7
<1> QED BY <1>6, <1>7, <1>8 DEF d, e, h

(* A store through the pointer of bom_index_get: one byte of one block. *)
LEMMA BlockOverwritten ==
  ASSUME NEW m, NEW s, File(m, s), NEW x, File(x, s), NEW k \in 1 .. Len(s.entries),
         NEW o \in 0 .. Length(s, k) - 1, OnlyAt(x, m, Address(s, k) + o, 1),
         \A j \in 1 .. Len(s.entries) : j # k => Same(x, Address(s, j), m, Address(s, j), Length(s, j))
  PROVE  Overwrites(BlocksOf(x), BlocksOf(m), k, o + 1)
<1> DEFINE b == BlocksOf(m)  c == BlocksOf(x)  N == Len(s.entries)
           p == Address(s, k)  l == Length(s, k)  h == o + 1
           d == Bytes(m, p, l)  e == Bytes(x, p, l)
<1>1. DOMAIN b = 1 .. N /\ N \in Nat /\ \A i \in 1 .. N : b[i] = Content(m, s, i)
  BY BlocksAre
<1>2. DOMAIN c = 1 .. N /\ \A i \in 1 .. N : c[i] = Content(x, s, i)
  BY BlocksAre
<1>3. b = [i \in 1 .. N |-> b[i]] /\ c = [i \in 1 .. N |-> c[i]]
  BY <1>1, <1>2 DEF BlocksOf
<1>4. ASSUME NEW i \in 1 .. N, i # k PROVE c[i] = b[i]
  <2>1. KeptAt(x, s, m, s, i)
    BY <1>4, Zenon DEF KeptAt
  <2>2. SameContent(x, s, m, s, i)
    BY <2>1, ContentKept, Zenon
  <2> QED BY <1>1, <1>2, <2>2, Zenon DEF SameContent
<1>6. b[k] = Row(Held(s, k), d)
  BY <1>1, Zenon DEF Content, Row
<1>7. c[k] = Row(Held(s, k), e)
  BY <1>2, Zenon DEF Content, Row
<1>8. /\ DOMAIN d = 1 .. l /\ DOMAIN e = 1 .. l /\ h \in 1 .. l
      /\ e = [d EXCEPT ![h] = e[h]]
  <2>1. m \in Seq(Byte) /\ x \in Seq(Byte) /\ Len(x) = Len(m)
    BY DEF OnlyAt
  <2>2. p \in Nat /\ l \in Nat /\ p + l <= Len(m)
    BY SoundBlocks DEF File, Encodes
  <2>3. OnlyAt(x, m, p + o, 1) /\ o \in 0 .. l - 1
    OBVIOUS
  <2> HIDE DEF p, l
  <2>4. /\ DOMAIN Bytes(m, p, l) = 1 .. l /\ DOMAIN Bytes(x, p, l) = 1 .. l
        /\ o + 1 \in 1 .. l
        /\ Bytes(x, p, l) = [Bytes(m, p, l) EXCEPT ![o + 1] = Bytes(x, p, l)[o + 1]]
    BY <2>1, <2>2, <2>3, ByteStored
  <2> QED BY <2>4
<1>11. o + 1 = h
  OBVIOUS
<1> HIDE DEF b, c, d, e, l, N, h
<1>9. /\ c = [b EXCEPT ![k].data = e]
      /\ b[k].data = d /\ c[k].data = e
  <2>1. k \in 1 .. N
    BY DEF N
  <2>2. \A i \in 1 .. N : i # k => c[i] = b[i]
    BY <1>4
  <2>3. Differ(c, b, N, k, Held(s, k), d, e)
    BY <1>3, <1>6, <1>7, <2>1, <2>2, Zenon DEF Differ
  <2>4. RowIs(c, b, k, Held(s, k), d, e)
    BY <2>3, RowExcept, Zenon
  <2> QED BY <2>4, Zenon DEF RowIs
<1>10. k \in DOMAIN b /\ DOMAIN c = DOMAIN b
  BY <1>1, <1>2 DEF N
<1>12. [b EXCEPT ![k].data[h] = e[h]] = [b EXCEPT ![k].data = [b[k].data EXCEPT ![h] = e[h]]]
  OBVIOUS
<1>13. c = [b EXCEPT ![k].data[h] = c[k].data[h]]
  BY <1>8, <1>9, <1>12, Zenon
<1>14. h \in DOMAIN b[k].data /\ DOMAIN c[k].data = DOMAIN b[k].data
  BY <1>8, <1>9, Zenon
<1>15. Overwrites(c, b, k, h)
  BY <1>10, <1>13, <1>14, Zenon DEF Overwrites
<1> QED BY <1>15 DEF b, c, h

(* The new variable is read as the code stored it, when the length of its   *)
(* name fits into a byte.                                                   *)
NewVariable(x, a, name, index) ==
  /\ Get(x, a) = index /\ x[a + 5] = Len(name) /\ Same(x, a + 5, name, 0, Len(name))
  /\ a \in Nat /\ a + 5 + Len(name) <= Len(x)

(* Then it is read back with its name and its index. *)
LEMMA NewVariableIs ==
  ASSUME NEW x \in Seq(Byte), NEW a, NEW name \in Seq(Byte), NEW index, NewVariable(x, a, name, index)
  PROVE  VariableAt(x, a) = [name |-> name, index |-> index]
<1> DEFINE n == Len(name)  o == 0  b == a + 5  w == Bytes(x, b, n)
<1>1. n \in Nat /\ o \in Nat /\ o + n <= Len(name)
  BY LenProperties
<1>2. Get(x, a) = index /\ x[b] = n /\ b \in Nat /\ b + n <= Len(x) /\ Same(x, b, name, o, n)
  BY DEF NewVariable
<1>6. \A k \in 1 .. n : o + k = k
  BY <1>1
<1> HIDE DEF b, o, n
<1>3. /\ w = Bytes(name, o, n) /\ Bytes(name, o, n) \in Seq(Byte)
      /\ Len(Bytes(name, o, n)) = n /\ \A k \in 1 .. n : Bytes(name, o, n)[k] = name[o + k]
  BY <1>1, <1>2, SameBytes
<1> HIDE DEF w
<1>4. w \in Seq(Byte) /\ Len(w) = n /\ \A k \in 1 .. n : w[k] = name[k]
  BY <1>3, <1>6
<1>7. n = Len(name)
  BY DEF n
<1>5. w = name
  BY <1>4, <1>7, SeqEqual
<1>8. Bytes(x, a + 5, x[a + 5]) = name /\ Get(x, a) = index
  BY <1>2, <1>5, Zenon DEF b, w
<1> QED BY <1>8, Zenon DEF VariableAt

(* bom_variable_add: the variable is appended to those that are found. *)
LEMMA VariableAppended ==
  ASSUME NEW m, NEW s, File(m, s), NEW x, NEW t, File(x, t), Kept(x, t, m, s),
         NEW st, NEW n, Walk(m, s, st, n), NEW name \in Seq(Byte), NEW index, Len(name) < 256,
         Variables(x, t, m, s, st, n, name, index)
  PROVE  VariablesOf(x) = Append(VariablesOf(m), [name |-> name, index |-> index])
<1> DEFINE q == VariablesOf(m)  r == VariablesOf(x)  e == [name |-> name, index |-> index]
           l == n + 1  su == Longer(st, n, t.variable_bytes)  a == Append(q, e)
           v == t.variables_offset  vb == s.variable_bytes  g == Len(name)
           at == v + 4 + vb
<1>1. IsSeq(q) /\ Len(q) = n /\ n \in Nat /\ \A i \in 1 .. n : q[i] = VariableAt(m, Start(s, st, i))
  BY VariablesAre
<1>2. Walk(x, t, su, l)
  BY DEF Variables
<1>3. IsSeq(r) /\ Len(r) = l /\ \A i \in 1 .. l : r[i] = VariableAt(x, Start(t, su, i))
  BY <1>2, VariablesAre
<1>4. l \in Nat /\ \A i \in 1 .. l : /\ i - 1 \in 0 .. n /\ (i \in 1 .. n \/ i = l)
                                    /\ su[i - 1] = st[i - 1]
  <2>1. \A i \in 1 .. l : i - 1 \in 0 .. n + 1 /\ i - 1 <= n /\ (i \in 1 .. n \/ i = l) /\ i - 1 \in 0 .. n
    BY <1>1
  <2>2. \A j \in 0 .. n + 1 : j <= n => su[j] = st[j]
    BY DEF Longer
  <2>3. \A i \in 1 .. l : su[i - 1] = st[i - 1]
    BY <2>1, <2>2
  <2>4. l \in Nat
    BY <1>1
  <2> QED BY <2>1, <2>3, <2>4
<1>5. \A i \in 1 .. l : Start(t, su, i) = Start(t, st, i)
  BY <1>4 DEF Start
<1>6. /\ Same(x, t.variables_offset + 4, m, s.variables_offset + 4, s.variable_bytes)
      /\ s.variable_bytes <= t.variable_bytes
  BY DEF Kept
<1>7. \A i \in 1 .. n : SameVariable(x, Start(t, st, i), m, Start(s, st, i))
  BY <1>6, VariablesKept
<1>8. ASSUME NEW i \in 1 .. n PROVE r[i] = q[i]
  <2>1. i \in 1 .. l
    BY <1>1
  <2>2. r[i] = VariableAt(x, Start(t, st, i)) /\ q[i] = VariableAt(m, Start(s, st, i))
    BY <1>1, <1>3, <1>5, <2>1
  <2> QED BY <1>7, <2>2, Zenon DEF SameVariable
<1>9. g \in Nat /\ Stored(name) = g
  <2>1. g \in Nat /\ g < 256
    BY LenProperties
  <2> HIDE DEF g
  <2>2. g % 256 = g
    BY <2>1
  <2> QED BY <2>1, <2>2 DEF Stored, g
<1>10. x \in Seq(Byte) /\ m \in Seq(Byte)
  BY DEF File, Encodes
<1>11. at + 5 + g <= Len(x) /\ at \in Nat
  <2> DEFINE z == t.size  tl == t.trailer_len  wb == t.variable_bytes
  <2>1. v \in Nat /\ wb \in Nat /\ tl \in Nat /\ z \in Nat /\ v + tl <= z /\ 4 + wb <= tl
    BY SoundNumbers DEF Numbers, File
  <2>2. vb \in Nat
    BY SoundNumbers DEF Numbers, File
  <2>3. wb = vb + 5 + g
    BY <1>9 DEF Variables
  <2>4. Len(x) = z
    BY DEF File, Encodes
  <2> HIDE DEF v, vb, wb, tl, z, g
  <2>5. at + 5 + g <= z /\ at \in Nat
    BY <1>9, <2>1, <2>2, <2>3
  <2> QED BY <2>4, <2>5
<1>12. NewVariable(x, at, name, index)
  <2>1. /\ Get(x, at) = index /\ x[at + 5] = Stored(name)
        /\ Same(x, at + 5, name, 0, Stored(name))
    BY DEF Variables
  <2> HIDE DEF at
  <2> QED BY <1>9, <1>11, <2>1 DEF NewVariable
<1>13. Start(t, su, l) = at
  <2>1. l - 1 = n /\ st[n] = vb /\ l \in 1 .. l
    BY <1>1, <1>4 DEF Walk
  <2>2. su[l - 1] = vb
    BY <1>4, <2>1
  <2> QED BY <2>2 DEF Start
<1>14. r[l] = e
  <2>1. l \in 1 .. l
    BY <1>1
  <2>2. r[l] = VariableAt(x, at)
    BY <1>3, <1>13, <2>1
  <2> HIDE DEF at
  <2> QED BY <1>10, <1>12, <2>2, NewVariableIs
<1> HIDE DEF q, r, e
<1>15. IsSeq(a) /\ Len(a) = Len(q) + 1 /\ a[Len(q) + 1] = e /\ \A j \in 1 .. Len(q) : a[j] = q[j]
  BY <1>1, Appended
<1> HIDE DEF a
<1>16. Len(a) = l
  BY <1>1, <1>15
<1>17. \A i \in 1 .. l : r[i] = a[i]
  <2> SUFFICES ASSUME NEW i \in 1 .. l PROVE r[i] = a[i]
    OBVIOUS
  <2>1. CASE i = l
    BY <1>1, <1>14, <1>15, <2>1
  <2>2. CASE i # l
    <3>1. i \in 1 .. n
      BY <1>4, <2>2
    <3> QED BY <1>1, <1>8, <1>15, <3>1
  <2> QED BY <2>1, <2>2
<1>18. r = a
  BY <1>3, <1>15, <1>16, <1>17, SameSeq
<1> QED BY <1>18 DEF q, r, a, e

(* bom_index_reserve changes no length. *)
LEMMA ReserveLengths ==
  ASSUME NEW s \in Layout!Layouts, NEW n \in Nat, NEW t, t = Layout!IndexReserve(s, n)
  PROVE  Len(t.entries) = Len(s.entries) /\ SameLengths(t, s)
<1> DEFINE p == Layout!ReservePoint(s)  d == Layout!EntrySize * n  r == Layout!Resize(s, p, d)
<1>1. p \in Nat /\ d \in Nat
  BY PointIs DEF Layout!ReservePoint, Layout!EntrySize
<1>2. t = [r EXCEPT !.index_length = s.index_length + d]
  BY DEF Layout!IndexReserve
<1> HIDE DEF p, d
<1>3. r \in Layout!Layouts /\ Len(r.entries) = Len(s.entries) /\ \A i \in 1 .. Len(s.entries) : Length(r, i) = Length(s, i)
  BY <1>1, ResizedFields
<1> HIDE DEF r
<1>4. t.entries = r.entries
  BY <1>2, <1>3 DEF Layout!Layouts
<1> QED BY <1>3, <1>4, Zenon DEF SameLengths, Length

(* Every step of the bytes is a step of the contents, or is not seen there. *)
ShortNames == \A name \in Names : Len(name) < 256

(* Every step of the bytes is a step of the contents, or is not seen there. *)
LEMMA StepIsStore ==
  ASSUME NEW s, FileAt(mem, freelist, s), [Next]_vars, ShortNames
  PROVE  \/ Store!Next
         \/ BlocksOf(mem)' = BlocksOf(mem) /\ VariablesOf(mem)' = VariablesOf(mem)
<1> DEFINE Seen == BlocksOf(mem)' = BlocksOf(mem) /\ VariablesOf(mem)' = VariablesOf(mem)
<1>0. File(mem, s) /\ s \in Layout!Layouts
  BY DEF FileAt, File, Encodes
<1>1. ASSUME NEW count \in ReserveCounts, Reserve(count) PROVE Seen
  <2> DEFINE t == Layout!IndexReserve(s, count)
  <2>1. Succeeds(mem', t, mem, s)
    BY <1>1, ReserveStep
  <2>2. Len(t.entries) = Len(s.entries) /\ SameLengths(t, s)
    BY <1>0, Inputs, ReserveLengths
  <2> HIDE DEF t
  <2> QED BY <1>0, <2>1, <2>2, StutterIs
<1>2. ASSUME NEW data \in Contents, AddBlock(data) PROVE Store!AddBlock(data)
  <2> DEFINE t == Layout!IndexAdd(s, Len(data))  l == Len(s.entries) + 1
  <2>1. /\ Succeeds(mem', t, mem, s) /\ Len(t.entries) = l
        /\ Address(t, l) # 0 /\ Length(t, l) = Len(data)
        /\ Same(mem', Address(t, l), data, 0, Len(data))
        /\ \A i \in 1 .. Len(s.entries) : Length(t, i) = Length(s, i)
    BY <1>2, AddStep
  <2> HIDE DEF t
  <2>2. VariablesOf(mem') = VariablesOf(mem)
    BY <1>0, <2>1, VariablesSame
  <2>3. File(mem', t) /\ Kept(mem', t, mem, s) /\ SameLengths(t, s) /\ data \in Seq(Byte)
    BY <2>1, Inputs DEF Succeeds, Carried, SameLengths
  <2>4. l = Len(s.entries) + 1
    OBVIOUS
  <2> HIDE DEF l
  <2>5. BlocksOf(mem') = Append(BlocksOf(mem), [used |-> TRUE, data |-> data])
    BY <1>0, <2>1, <2>3, <2>4, BlockAppended
  <2> QED BY <2>2, <2>5, Zenon DEF Store!AddBlock
<1>3. ASSUME NEW n \in FreeCounts, AddFreeIndices(n) PROVE Store!AddHoles(n)
  <2> DEFINE t == Layout!FreeIndicesAdd(s, n)  l == Len(s.entries) + n
  <2>1. /\ Succeeds(mem', t, mem, s) /\ Len(t.entries) = l
        /\ \A i \in Len(s.entries) + 1 .. l : Address(t, i) = 0 /\ Length(t, i) = 0
        /\ \A i \in 1 .. Len(s.entries) : Length(t, i) = Length(s, i)
    BY <1>3, FreeStep
  <2> HIDE DEF t
  <2>2. VariablesOf(mem') = VariablesOf(mem)
    BY <1>0, <2>1, VariablesSame
  <2>3. File(mem', t) /\ Kept(mem', t, mem, s) /\ SameLengths(t, s) /\ n \in Nat
    BY <2>1, Inputs DEF Succeeds, Carried, SameLengths
  <2>4. l = Len(s.entries) + n
    OBVIOUS
  <2> HIDE DEF l
  <2>5. BlocksOf(mem') = BlocksOf(mem) \o Holes(n)
    BY <1>0, <2>1, <2>3, <2>4, HolesAppended
  <2> QED BY <2>2, <2>5, Zenon DEF Store!AddHoles, Holes
<1>4. ASSUME NEW i \in Positions, NEW n \in Lengths, AppendToBlock(i, n)
      PROVE  Store!Next
  <2> DEFINE k == i + 1  t == Layout!IndexAppend(s, k, n)
  <2>1. /\ Succeeds(mem', t, mem, s) /\ Len(t.entries) = Len(s.entries) /\ Length(s, k) > 0
        /\ \A j \in 1 .. Len(s.entries) : j # k => Length(t, j) = Length(s, j)
        /\ Length(t, k) = Length(s, k) + n
    BY <1>4, AppendStep
  <2>2. k \in 1 .. Len(s.entries) /\ n \in Nat
    BY PositionIs, Inputs
  <2> HIDE DEF t, k
  <2>3. VariablesOf(mem') = VariablesOf(mem)
    BY <1>0, <2>1, VariablesSame
  <2>4. File(mem', t) /\ Kept(mem', t, mem, s)
    BY <2>1 DEF Succeeds, Carried
  <2>5. Lengthens(BlocksOf(mem'), BlocksOf(mem), k, n)
    BY <1>0, <2>1, <2>2, <2>4, BlockLengthened
  <2>6. k \in DOMAIN BlocksOf(mem) /\ Store!Lengthen(k, n)
    BY <2>3, <2>5, Zenon DEF Store!Lengthen, Lengthens
  <2> QED BY <2>6, Zenon DEF Store!Next
<1>5. ASSUME NEW i \in Positions, NEW j \in Edges(i), StoreInBlock(i, j, 0)
      PROVE  Store!Next
  <2> DEFINE k == i + 1  h == j + 1
  <2>1. 0 \in Byte
    BY DEF Byte
  <2>2. /\ FileAt(mem', freelist', s) /\ j \in 0 .. Length(s, k) - 1
        /\ OnlyAt(mem', mem, Address(s, k) + j, 1)
        /\ Same(mem', s.variables_offset, mem, s.variables_offset, 4 + s.variable_bytes)
        /\ \A l \in 1 .. Len(s.entries) :
             l # k => Same(mem', Address(s, l), mem, Address(s, l), Length(s, l))
    BY <1>5, <2>1, StoreStep
  <2>3. k \in 1 .. Len(s.entries)
    BY PositionIs
  <2>4. File(mem', s)
    BY <2>2 DEF FileAt
  <2>9. h = j + 1
    OBVIOUS
  <2> HIDE DEF k, h
  <2>5. Overwrites(BlocksOf(mem'), BlocksOf(mem), k, j + 1)
    BY <1>0, <2>2, <2>3, <2>4, BlockOverwritten
  <2>7. VariablesOf(mem') = VariablesOf(mem)
    <3> DEFINE v == s.variables_offset  vb == s.variable_bytes
    <3>1. v \in Int /\ vb \in Nat /\ v + 0 = v
      BY <1>0, LayoutTypes
    <3>2. Same(mem', v, mem, v, 4 + vb)
      BY <2>2
    <3> HIDE DEF v, vb
    <3>3. 4 + vb \in Int /\ 0 + 4 <= 4 + vb /\ 4 + vb <= 4 + vb /\ 0 \in Nat /\ 4 \in Nat
      BY <3>1
    <3>4. Same(mem', v + 4, mem, v + 4, vb)
      BY <3>1, <3>2, <3>3, SamePart
    <3>5. Same(mem', v + 0, mem, v + 0, 4)
      BY <3>1, <3>2, <3>3, SamePart
    <3>6. Same(mem', v, mem, v, 4)
      BY <3>1, <3>5
    <3> QED BY <1>0, <2>4, <3>4, <3>6, SectionSame DEF v, vb
  <2>8. k \in DOMAIN BlocksOf(mem) /\ h \in DOMAIN BlocksOf(mem)[k].data /\ Store!Overwrite(k, h)
    BY <2>5, <2>7, <2>9, Zenon DEF Store!Overwrite, Overwrites
  <2> QED BY <2>8, Zenon DEF Store!Next
<1>6. ASSUME NEW name \in Names, NEW i \in Positions, AddVariable(name, i)
      PROVE  Store!Next
  <2> DEFINE t == Layout!VariableAdd(s, Len(name))
  <2>1. PICK n, st : Walk(mem, s, st, n)
    BY <1>0 DEF File, Walks
  <2>2. /\ Stepped(s, t) /\ Kept(mem', t, mem, s)
        /\ Variables(mem', t, mem, s, st, n, name, i)
        /\ Len(t.entries) = Len(s.entries)
        /\ \A j \in 1 .. Len(s.entries) : Length(t, j) = Length(s, j)
    BY <1>6, <2>1, VariableStep
  <2> HIDE DEF t
  <2>3. File(mem', t) /\ SameLengths(t, s)
    BY <2>2 DEF Stepped, FileAt, SameLengths
  <2>4. BlocksOf(mem') = BlocksOf(mem)
    BY <1>0, <2>2, <2>3, BlocksSame
  <2>5. name \in Seq(Byte) /\ Len(name) < 256
    BY Inputs DEF ShortNames
  <2>6. VariablesOf(mem') = Append(VariablesOf(mem), [name |-> name, index |-> i])
    BY <1>0, <2>1, <2>2, <2>3, <2>5, VariableAppended
  <2>7. Store!AddVariable(name, i)
    BY <2>4, <2>6, Zenon DEF Store!AddVariable
  <2>8. i \in 0 .. Len(BlocksOf(mem)) - 1
    <3>1. Len(BlocksOf(mem)) = Len(s.entries)
      BY <1>0, BlocksAre
    <3>2. Count(mem) = Len(s.entries)
      BY <1>0 DEF File, Encodes
    <3> QED BY <3>1, <3>2, Zenon DEF Positions
  <2> QED BY <2>7, <2>8, Zenon DEF Store!Next
<1>7. ASSUME Relocate PROVE Seen
  <2> DEFINE t == Layout!RelocateTrailer(s)
  <2>1. /\ Succeeds(mem', t, mem, s) /\ Len(t.entries) = Len(s.entries)
        /\ \A i \in 1 .. Len(s.entries) : Length(t, i) = Length(s, i)
    BY <1>7, RelocateStep
  <2> HIDE DEF t
  <2>2. SameLengths(t, s)
    BY <2>1 DEF SameLengths
  <2> QED BY <1>0, <2>1, <2>2, StutterIs
<1>8. ASSUME UNCHANGED vars PROVE Seen
  BY <1>8, Zenon DEF vars
<1>9. ASSUME Seen PROVE \/ Store!Next
                        \/ BlocksOf(mem)' = BlocksOf(mem) /\ VariablesOf(mem)' = VariablesOf(mem)
  BY <1>9
<1> HIDE DEF Seen
<1> QED BY <1>1, <1>2, <1>3, <1>4, <1>5, <1>6, <1>7, <1>8, <1>9 DEF Next, Store!Next

(* There is nothing in the file at first. *)
LEMMA InitIsStore == Init => Store!Init
<1> SUFFICES ASSUME Init PROVE Store!Init
  OBVIOUS
<1> DEFINE s == Layout!EmptyLayout  b == BlocksOf(mem)  q == VariablesOf(mem)
<1>1. File(mem, s)
  BY InitFile DEF FileAt
<1>2. IsSeq(b) /\ Len(b) = Len(s.entries)
  BY <1>1, BlocksAre
<1>3. Len(s.entries) = 0 /\ s.variable_bytes = 0
  BY DEF Layout!EmptyLayout
<1>4. PICK n, st : Walk(mem, s, st, n)
  BY <1>1 DEF File, Walks
<1>5. IsSeq(q) /\ Len(q) = n
  BY <1>1, <1>4, VariablesAre
<1>6. n = 0
  <2>1. n \in Nat /\ st[n] = s.variable_bytes /\ \A i \in 1 .. n : 5 * i <= st[i]
    BY <1>4 DEF Walk
  <2>2. CASE n > 0
    <3>1. n \in 1 .. n
      BY <2>1, <2>2
    <3>2. 5 * n <= 0
      BY <1>3, <2>1, <3>1
    <3> QED BY <2>1, <2>2, <3>2
  <2> QED BY <2>1, <2>2
<1> HIDE DEF b, q, s
<1>7. b = << >> /\ q = << >>
  <2>1. \A S : \A y \in Seq(S) : Len(y) = 0 => y = << >>
    OBVIOUS
  <2> QED BY <1>2, <1>3, <1>5, <1>6, <2>1 DEF IsSeq
<1> QED BY <1>7, Zenon DEF Store!Init, b, q

(* The bytes implement the contents. *)
THEOREM BytesAreBlocks ==
  ASSUME ShortNames
  PROVE  Spec => BytesImplementBlocks
<1>1. Init => Store!Init
  BY InitIsStore
<1>2. BytesInv /\ [Next]_vars => [Store!Next]_(<< BlocksOf(mem), VariablesOf(mem) >>)
  <2> SUFFICES ASSUME NEW s, FileAt(mem, freelist, s), [Next]_vars
               PROVE  [Store!Next]_(<< BlocksOf(mem), VariablesOf(mem) >>)
    BY Zenon DEF BytesInv
  <2> QED BY StepIsStore, Zenon
<1> QED BY <1>1, <1>2, BytesInvariant, PTL DEF Spec, BytesImplementBlocks, Store!Spec, Store!vars
==============================================================================
