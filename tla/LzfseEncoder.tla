---------------------------- MODULE LzfseEncoder ----------------------------
(***************************************************************************)
(* The encoder of LZFSE (lzfse_encode_base.c): the search for matches, one *)
(* position of the source at a time, and the matches and literals it keeps *)
(* until a block is written.                                               *)
(*                                                                         *)
(* An encoder is a record. Positions count from base, which translating    *)
(* moves forward. i is the position it looks at, end the end of what it    *)
(* may look at, literal the first byte that no match covers; pending, the  *)
(* match it holds back; matches and literals, the triples and bytes of the *)
(* block to come; table, earlier positions and their four bytes for each   *)
(* hash; out, the blocks written, used bytes in all; reach, how far stores *)
(* to the destination went; filled and read, how far copies of literals    *)
(* went, in the table of literals and in the source as a whole; status,    *)
(* "ok" or why it gave up: "dst" has no room, or the "tables" have none.   *)
(***************************************************************************)
EXTENDS LzfseBlock

CONSTANTS
  HashX(_),            \* hashX: the line of four bytes
  Hashes,              \* the values of HashX
  HashWidth,           \* 4: positions on a line
  GoodMatch,           \* 40: a match so long is not held back
  BacklogFactor,       \* 8: literals are pushed when more than 8 MaxL wait
  MatchLengthFactor,   \* 100: no match is longer than 100 MaxM, not counting
                       \* what it takes in backwards
  MatchesPerBlock      \* 10000

LiteralsPerBlock == 4 * MatchesPerBlock
MaxL == MaxValue("l")
MaxM == MaxValue("m")
MaxD == MaxValue("d")

InvalidPos == -4 * MaxD
None == [pos |-> 0, ref |-> 0, length |-> 0]

Least2(a, b) == IF a <= b THEN a ELSE b
Greatest(S) == CHOOSE x \in S : \A y \in S : x >= y

(* n bytes from position p on *)
BytesFrom(src, fe, p, n) == SubSeq(src, fe.base + p + 1, fe.base + p + n)
SameByte(src, fe, p, q) == src[fe.base + p + 1] = src[fe.base + q + 1]

(* lzfse_encode_init, with the ends lzfse_encode_buffer sets. *)
LzfseStart(end, dstSize) ==
  [base |-> 0, i |-> 0, end |-> end, literal |-> 0, pending |-> None,
   table |-> [h \in Hashes |-> [k \in 1 .. HashWidth |->
                                  [pos |-> InvalidPos, value |-> <<0, 0, 0, 0>>]]],
   matches |-> << >>, literals |-> << >>,
   out |-> << >>, used |-> 0, dstEnd |-> dstSize, reach |-> 0, filled |-> 0, read |-> 0,
   status |-> "ok"]

(***************************************************************************)
(* The back end.                                                           *)
(***************************************************************************)
Triple(L, M, D) == [L |-> L, M |-> M, D |-> D]

(* lzfse_push_match cuts literals into parts of MaxL, which go alone, and  *)
(* the match into parts of MaxM, the first with the literals that are left.*)
Split(L, M, D) ==
  LET alone == IF L = 0 THEN 0 ELSE (L - 1) \div MaxL
      full  == IF M = 0 THEN 0 ELSE (M - 1) \div MaxM
      left  == L - alone * MaxL
  IN [i \in 1 .. alone |-> Triple(MaxL, 0, 1)]
       \o [i \in 1 .. full |-> Triple(IF i = 1 THEN left ELSE 0, MaxM, D)]
       \o IF L = 0 /\ M = 0 THEN << >>
          ELSE <<Triple(IF full = 0 THEN left ELSE 0, M - full * MaxM, D)>>

(* lzfse_push_lmd takes a part only where 8 matches and 16 literals more   *)
(* stay free.                                                              *)
PartFits(fe, triples, i) ==
  /\ Len(fe.matches) + i + 8 <= MatchesPerBlock
  /\ Len(fe.literals) + SumOf([j \in DOMAIN triples |-> triples[j].L], i) + 16
       <= LiteralsPerBlock

(* The literals of a part at position p are copied by 16 bytes, at least   *)
(* once, but where the source is about to end.                             *)
LiteralCopy(fe, p, L) ==
  IF p + L + 16 > fe.end THEN L ELSE IF L = 0 THEN 16 ELSE 16 * ((L + 15) \div 16)

(* The encoder after the copies of the parts that fit. *)
Copied(fe, triples) ==
  LET fits == {i \in DOMAIN triples : \A j \in 1 .. i : PartFits(fe, triples, j)}
      Lits(i) == SumOf([j \in DOMAIN triples |-> triples[j].L], i - 1)
      At(i) == fe.literal + SumOf([j \in DOMAIN triples |-> triples[j].L + triples[j].M], i - 1)
      n(i) == LiteralCopy(fe, At(i), triples[i].L)
  IN [fe EXCEPT !.filled = Greatest({@} \cup {Len(fe.literals) + Lits(i) + n(i) : i \in fits}),
                !.read = Greatest({@} \cup {fe.base + At(i) + n(i) : i \in fits})]

(* lzfse_push_match: all the parts, or an encoder as it was. *)
PushMatch(src, fe, m) ==
  LET L == m.pos - fe.literal
      triples == Split(L, m.length, m.pos - m.ref)
      copied == Copied(fe, triples)
  IN IF \E i \in DOMAIN triples : ~PartFits(fe, triples, i)
     THEN [copied EXCEPT !.status = "tables"]
     ELSE [copied EXCEPT !.matches = @ \o triples,
                         !.literals = @ \o BytesFrom(src, fe, fe.literal, L),
                         !.literal = m.pos + m.length]

(* What becomes of the encoder when b is what EncodeBlock made. *)
WithBlock(fe, b) ==
  LET touched == [fe EXCEPT !.reach = Greatest({@, b.reach})]
  IN IF ~b.ok THEN [touched EXCEPT !.status = "dst"]
     ELSE [touched EXCEPT !.out = Append(@, b.block), !.used = @ + b.size,
                          !.matches = << >>, !.literals = << >>]

(* lzfse_encode_matches as its callers see it: the block is out and the    *)
(* tables are empty, or nothing has changed.                               *)
EncodeMatches(fe) ==
  IF fe.matches = << >> /\ fe.literals = << >> THEN fe
  ELSE WithBlock(fe, EncodeBlock(fe.matches, fe.literals, fe.used, fe.dstEnd))

PushedAgain(src, m, pushed, written) ==
  IF pushed.status = "ok" THEN pushed
  ELSE IF written.status # "ok" THEN written
  ELSE PushMatch(src, written, m)

(* lzfse_backend_match: when the tables are full the block is written and  *)
(* the match pushed again.                                                 *)
BackendMatch(src, fe, m) ==
  LET pushed == PushMatch(src, fe, m)
  IN PushedAgain(src, m, pushed, EncodeMatches([pushed EXCEPT !.status = "ok"]))

(* lzfse_backend_literals *)
BackendLiterals(src, fe, n) ==
  BackendMatch(src, fe, [pos |-> fe.literal + n, ref |-> fe.literal + n - 1, length |-> 0])

(***************************************************************************)
(* The front end.                                                          *)
(***************************************************************************)
(* How long the bytes at fe.i and at ref, the first four of which are the  *)
(* same, stay the same: compared by eight, and not up to the very end.     *)
MatchLength(src, fe, ref) ==
  LET over(k) == 4 + 8 * k >= fe.end - fe.i - 8
      same(k) == Greatest({n \in 0 .. 8 : \A j \in 0 .. n - 1 :
                             SameByte(src, fe, fe.i + 4 + 8 * k + j, ref + 4 + 8 * k + j)})
      k == CHOOSE k \in 0 .. Len(src) :
             /\ over(k) \/ same(k) < 8
             /\ \A j \in 0 .. k - 1 : ~over(j) /\ same(j) = 8
  IN 4 + 8 * k + IF over(k) THEN 0 ELSE same(k)

(* The longest match at a position, of equally long ones the latest.       *)
BestMatch(src, fe) ==
  LET v == BytesFrom(src, fe, fe.i, 4)
      candidates == {e.pos : e \in {e \in {fe.table[HashX(v)][k] : k \in 1 .. HashWidth} :
                                      e.value = v /\ e.pos + MaxD >= fe.i}}
  IN IF candidates = {} THEN [None EXCEPT !.pos = fe.i]
     ELSE LET ref == Greatest({r \in candidates : \A s \in candidates :
                                 MatchLength(src, fe, s) <= MatchLength(src, fe, r)})
          IN [pos |-> fe.i, ref |-> ref,
              length |-> Least2(MatchLength(src, fe, ref), MatchLengthFactor * MaxM)]

(* ... and with the literals before it that it can take in. *)
Expanded(src, fe, m) ==
  LET b == Greatest({n \in 0 .. m.pos - fe.literal :
                       \A j \in 1 .. n : m.ref - j >= 0 /\ SameByte(src, fe, m.pos - j, m.ref - j)})
  IN [pos |-> m.pos - b, ref |-> m.ref - b, length |-> m.length + b]

Hold(fe, m) == IF fe.status = "ok" THEN [fe EXCEPT !.pending = m] ELSE fe

(* No match here: do not lag too far behind. *)
Lagging(src, fe) ==
  IF fe.i - fe.literal <= BacklogFactor * MaxL THEN fe
  ELSE IF fe.pending.length > 0 THEN Hold(BackendMatch(src, fe, fe.pending), None)
  ELSE BackendLiterals(src, fe, MaxL)

(* A match: emitted, held back, or weighed against the one held back. *)
Weighed(src, fe, m) ==
  LET p == fe.pending
  IN IF m.length >= GoodMatch THEN Hold(BackendMatch(src, fe, m), None)
     ELSE IF p.length = 0 THEN Hold(fe, m)
     ELSE IF p.pos + p.length <= m.pos THEN Hold(BackendMatch(src, fe, p), m)
     ELSE Hold(BackendMatch(src, fe, IF m.length > p.length THEN m ELSE p), None)

(* What the encoder is after a choice, the position in the table. *)
Entered(fe, v, after) ==
  IF after.status # "ok" THEN after
  ELSE [after EXCEPT !.i = @ + 1,
          !.table[HashX(v)] = <<[pos |-> fe.i, value |-> v]>> \o SubSeq(@, 1, HashWidth - 1)]

(* One turn of lzfse_encode_base. *)
LzfsePosition(src, fe) ==
  LET m == BestMatch(src, fe)
  IN Entered(fe, BytesFrom(src, fe, fe.i, 4),
             IF fe.i < fe.literal THEN fe
             ELSE IF m.length = 0 THEN Lagging(src, fe)
             ELSE Weighed(src, fe, Expanded(src, fe, m)))

LzfseMore(fe) == fe.status = "ok" /\ fe.i < fe.end - 8

(* mutant: the match held back stays where it was *)
TranslateButPending(fe, delta) ==
  [fe EXCEPT !.base = @ + delta, !.end = @ - delta, !.i = @ - delta, !.literal = @ - delta,
     !.table = [h \in Hashes |-> [k \in 1 .. HashWidth |->
                  [@[h][k] EXCEPT !.pos = Greatest({@ - delta, InvalidPos})]]]]

(* lzfse_encode_translate *)
Translate(fe, delta) ==
  [fe EXCEPT !.base = @ + delta, !.end = @ - delta, !.i = @ - delta, !.literal = @ - delta,
     !.pending.pos = @ - delta, !.pending.ref = @ - delta,
     !.table = [h \in Hashes |-> [k \in 1 .. HashWidth |->
                  [@[h][k] EXCEPT !.pos = Greatest({@ - delta, InvalidPos})]]]]

(* lzfse_encode_finish: the match held back, the literals behind it, the   *)
(* last block, and the marker at the end. Each step is left out if one     *)
(* before it failed.                                                       *)
PendingOut(src, fe) ==
  IF fe.pending.length > 0 THEN Hold(BackendMatch(src, fe, fe.pending), None) ELSE fe
LiteralsOut(src, fe) ==
  IF fe.status # "ok" \/ fe.literal >= fe.end THEN fe
  ELSE BackendLiterals(src, fe, fe.end - fe.literal)
BlockOut(fe) == IF fe.status # "ok" THEN fe ELSE EncodeMatches(fe)
MarkerOut(fe) ==
  IF fe.status # "ok" THEN fe
  ELSE IF fe.used + 4 > fe.dstEnd THEN [fe EXCEPT !.status = "dst"]
  ELSE [fe EXCEPT !.out = Append(@, [magic |-> "bvx$"]), !.used = @ + 4]

LzfseFinish(src, fe) == MarkerOut(BlockOut(LiteralsOut(src, PendingOut(src, fe))))
=============================================================================
