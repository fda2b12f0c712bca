--------------------------------- MODULE Lzvn ---------------------------------
(***************************************************************************)
(* The LZVN codec (lzvn_encode_base.c, lzvn_decode_base.c), one position   *)
(* of the source and one instruction of the stream at a time.              *)
(*                                                                         *)
(* An encoder is a record: current, the position it looks at; literal, the *)
(* first byte it has not emitted; pending, the match it holds back; dPrev, *)
(* the distance emitted last; table, four earlier positions and their four *)
(* bytes for each hash; out, the bytes emitted; end, where the stream has  *)
(* to stop (dst_end); full, set when a piece had no room; reach and read,  *)
(* how far its wide stores and loads went. Positions count from 0.         *)
(***************************************************************************)
EXTENDS LzvnOpcodes, SequencesExt

CONSTANTS HashValues,         \* 2^14: lines of the table
          MaxLiteralBacklog,  \* 400: literals are emitted when so many wait
          LzvnMargin          \* 8: bytes at the end that no match may start in

ASSUME LzvnAssumption == HashValues >= 1 /\ MaxLiteralBacklog >= MaxRun /\ LzvnMargin >= 8

SetMin(S) == CHOOSE x \in S : \A y \in S : x <= y
SetMax(S) == CHOOSE x \in S : \A y \in S : x >= y

(* The n bytes at position i, and the byte at position i. *)
Bytes(src, i, n) == SubSeq(src, i + 1, i + n)
ByteAt(src, i) == src[i + 1]

(***************************************************************************)
(* Matching.                                                               *)
(***************************************************************************)
(* trailing_zero_bytes of the difference: the common first bytes of two    *)
(* four-byte values.                                                       *)
Common(v, w) == SetMax({n \in 0 .. 4 : SubSeq(v, 1, n) = SubSeq(w, 1, n)})

Hash3(v) ==
  LET i == v[1] + 256 * v[2] + 65536 * v[3] IN (i + (65 * i) \div 4096) % HashValues

NoMatch == [begin |-> 0, end |-> 0, M |-> 0, D |-> 0, K |-> 0]

(* The end of a match of four bytes at i and i - D: the loop goes on, four *)
(* bytes at a time, until they differ or the source is nearly over.        *)
ForwardEnd(src, i, D) ==
  LET over(k) == i + 4 * k + 4 >= Len(src)
      same(k) == Common(Bytes(src, i + 4 * k, 4), Bytes(src, i + 4 * k - D, 4))
      k == SetMin({j \in 1 .. Len(src) : over(j) \/ same(j) < 4})
  IN i + 4 * k + IF over(k) THEN 0 ELSE same(k)

(* How many literals before i a match with ref can take in. *)
Backwards(src, literal, i, ref) ==
  SetMax({b \in 0 .. Lesser(ref, i - literal) :
            \A j \in 1 .. b : ByteAt(src, i - j) = ByteAt(src, ref - j)})

(* lzvn_find_matchN: the match of the current position with ref, of which  *)
(* n bytes are known to be the same.                                       *)
FindMatch(src, vn, ref, n) ==
  LET i == vn.current   D == i - ref
      begin == i - Backwards(src, vn.literal, i, ref)
      end == IF n < 4 THEN i + n ELSE ForwardEnd(src, i, D)
  IN IF n < 3 \/ D <= 0 \/ D > MaxDistance THEN NoMatch
     ELSE [begin |-> begin, end |-> end, M |-> end - begin, D |-> D,
           K |-> end - begin - IF D < 1536 THEN 2 ELSE 3]

(* UPDATE *)
BetterOf(best, m) ==
  IF m.M # 0 /\ (m.K > best.K \/ (m.K = best.K /\ m.end > best.end + 1)) THEN m ELSE best

(* The best match at the current position: the four of the table, then the *)
(* distance emitted last, which costs less.                                *)
Incoming(src, vn) ==
  LET v == Bytes(src, vn.current, 4)
      line == vn.table[Hash3(v)]
      ref == vn.current - vn.dPrev
      again == IF vn.dPrev = 0 THEN NoMatch
               ELSE FindMatch(src, vn, ref, Common(v, Bytes(src, ref, 4)))
      candidates == [k \in 1 .. 4 |-> FindMatch(src, vn, line[k].pos, Common(v, line[k].value))]
                      \o <<[again EXCEPT !.K = again.M - 1]>>
  IN FoldLeft(BetterOf, NoMatch, candidates)

(***************************************************************************)
(* Emitting. Each piece is tested against the end of the destination; what *)
(* was written before one that does not fit is abandoned.                  *)
(***************************************************************************)
BytesOf(pieces) == FlattenSeq([i \in DOMAIN pieces |-> pieces[i].bytes])

StartOf(vn, pieces, i) == Len(vn.out) + Len(BytesOf(SubSeq(pieces, 1, i - 1)))

HasRoom(vn, pieces, i) == StartOf(vn, pieces, i) + pieces[i].room < vn.end

AppendPieces(vn, pieces, read, emitted) ==
  LET ok == {i \in DOMAIN pieces : \A j \in 1 .. i : HasRoom(vn, pieces, j)}
      reach == {StartOf(vn, pieces, i) + pieces[i].reach : i \in ok}
      touched == [vn EXCEPT !.reach = SetMax(reach \cup {@}), !.read = SetMax({@, read})]
  IN IF ok # DOMAIN pieces THEN [touched EXCEPT !.full = TRUE]
     ELSE [touched EXCEPT !.out = @ \o BytesOf(pieces), !.literal = emitted.literal,
                          !.dPrev = emitted.dPrev]

(* lzvn_emit_match. Literals are read 8 bytes at a time, so up to 7 bytes  *)
(* behind them are read.                                                   *)
EmitMatch(src, vn, m) ==
  LET lits == Bytes(src, vn.literal, m.begin - vn.literal)
  IN AppendPieces(vn, Emit(lits, m.M, m.D, vn.dPrev), m.begin + 7,
              [literal |-> m.end, dPrev |-> m.D])

(* lzvn_emit_literal *)
EmitLiterals(src, vn, n) ==
  AppendPieces(vn, EmitLiteral(Bytes(src, vn.literal, n)), vn.literal + n,
           [literal |-> vn.literal + n, dPrev |-> vn.dPrev])

(***************************************************************************)
(* The encoder.                                                            *)
(***************************************************************************)
(* The state lzvn_encode_partial sets up, with the table of lzvn_init_table. *)
LzvnStart(src, dstSize) ==
  LET entry == [pos |-> 0, value |-> IF Len(src) >= 4 THEN Bytes(src, 0, 4) ELSE << >>]
  IN [current |-> 0, literal |-> 0, pending |-> NoMatch, dPrev |-> 0,
      table |-> [h \in 0 .. HashValues - 1 |-> [k \in 1 .. 4 |-> entry]],
      out |-> << >>, end |-> dstSize - 8, full |-> FALSE, reach |-> 0, read |-> 0]

(* The choice lzvn_encode makes at a position: the encoder after it, before *)
(* the position enters the table.                                          *)
Chosen(src, vn) ==
  LET m == Incoming(src, vn)   p == vn.pending
      Holding(e, q) == IF e.full THEN e ELSE [e EXCEPT !.pending = q]
  IN CASE vn.current < vn.literal -> vn
       [] vn.current >= vn.literal /\ m.M = 0 ->
            IF vn.current - vn.literal < MaxLiteralBacklog THEN vn
            ELSE IF p.M # 0 THEN Holding(EmitMatch(src, vn, p), NoMatch)
            ELSE EmitLiterals(src, vn, MaxRun)
       [] vn.current >= vn.literal /\ m.M # 0 /\ p.M = 0 -> Holding(vn, m)
       [] OTHER ->
            IF p.end <= m.begin THEN Holding(EmitMatch(src, vn, p), m)
            ELSE Holding(EmitMatch(src, vn, IF m.K > p.K THEN m ELSE p), NoMatch)

(* One turn of lzvn_encode. The position enters the table only if nothing  *)
(* was refused.                                                            *)
LzvnPosition(src, vn) ==
  LET v == Bytes(src, vn.current, 4)   h == Hash3(v)   e == Chosen(src, vn)
  IN IF e.full THEN e
     ELSE [e EXCEPT !.table[h] = <<[pos |-> vn.current, value |-> v]>> \o SubSeq(@, 1, 3),
                    !.current = @ + 1]

LzvnMore(src, vn) == ~vn.full /\ vn.current < Len(src) - LzvnMargin

(* The end of lzvn_encode_partial: the rest as literals, the pending match *)
(* included, then the end of the stream.                                   *)
LzvnFinish(src, vn) ==
  LET e == EmitLiterals(src, vn, Len(src) - vn.literal)
  IN [e EXCEPT !.out = @ \o <<6, 0, 0, 0, 0, 0, 0, 0>>,
               !.reach = SetMax({@, Len(e.out) + 8})]

(***************************************************************************)
(* The decoder. A decoder is a record: src, out; pos, the next byte of src;*)
(* end and dstEnd, the limits; D, the last distance; good, what it will    *)
(* return; state: "going", "eos", or "stopped"; reach and read, how far    *)
(* its stores to out and its loads from src went, the next opcode included.*)
(***************************************************************************)
LzvnOpen(src, pos, end, out, dstEnd) ==
  [src |-> src, pos |-> pos, end |-> end, out |-> out, dstEnd |-> dstEnd, D |-> 0,
   good |-> [pos |-> pos, out |-> out], reach |-> Len(out), read |-> pos,
   state |-> IF pos >= end \/ Len(out) >= dstEnd THEN "stopped" ELSE "going"]

(* M bytes from a distance D, one at a time: the copy may overlap itself.  *)
CopyMatch(out, M, D) ==
  out \o [i \in 1 .. M |-> out[Len(out) - D + 1 + ((i - 1) % D)]]

WithDistance == {"sml_d", "med_d", "lrg_d"}
WithMatch == WithDistance \cup {"pre_d"}

(* The bytes the copies of an instruction store, of the literals and of    *)
(* the match: words, of 4 or of 8 bytes, where so much room is left in the *)
(* destination (and for literals in the source, too), else no byte more    *)
(* than is asked for, and none that has no room.                           *)
LiteralStores(op, srcLeft, dstLeft) ==
  IF op.kind \in WithMatch /\ dstLeft >= 4 /\ srcLeft >= 4 THEN 4
  ELSE IF op.kind \notin WithMatch /\ dstLeft >= op.L + 7 /\ srcLeft >= op.L + 7
  THEN 8 * ((op.L + 7) \div 8)
  ELSE Lesser(op.L, dstLeft)

MatchStores(M, D, dstLeft) ==
  IF dstLeft >= M + 7 /\ D >= 8 THEN 8 * ((M + 7) \div 8) ELSE Lesser(M, dstLeft)

(* One instruction of lzvn_decode. Every instruction but the marker needs  *)
(* a byte behind it. What does not fit in the destination is cut there.    *)
LzvnInstruction(dec) ==
  LET left == dec.end - dec.pos
      byte(k) == IF left > k THEN ByteAt(dec.src, dec.pos + k) ELSE 0
      op == Unpacked(byte(0), byte(1), byte(2))
      D == IF op.kind \in WithDistance THEN op.D ELSE dec.D
      lits == dec.out \o Bytes(dec.src, dec.pos + op.len, op.L)
      out == IF op.M = 0 THEN lits ELSE CopyMatch(lits, op.M, D)
      n == LiteralStores(op, left - op.len, dec.dstEnd - Len(dec.out))
      copied == [dec EXCEPT !.reach = SetMax({@, Len(dec.out) + n}),
                            !.read = SetMax({@, dec.pos + op.len + n})]
      moved == [copied EXCEPT !.reach =
                  SetMax({@, Len(lits) + MatchStores(op.M, D, dec.dstEnd - Len(lits))})]
      Stop(d, good) == [d EXCEPT !.state = "stopped", !.good = good]
      here == [pos |-> dec.pos, out |-> dec.out]
  IN IF op.kind = "udef" \/ (op.kind = "eos" /\ left < 8) THEN Stop(dec, dec.good)
     ELSE IF op.kind = "eos"
     THEN [dec EXCEPT !.state = "eos", !.good = [here EXCEPT !.pos = @ + 8]]
     ELSE IF left <= op.len + op.L THEN Stop(dec, here)
     ELSE IF Len(lits) > dec.dstEnd
     THEN Stop(copied, [pos |-> dec.pos + op.len + dec.dstEnd - Len(dec.out),
                        out |-> SubSeq(lits, 1, dec.dstEnd)])
     ELSE IF op.kind \in WithMatch /\ D \notin 1 .. Len(lits) THEN Stop(copied, here)
     ELSE IF Len(out) > dec.dstEnd
     THEN Stop(moved, [pos |-> dec.pos + op.len + op.L, out |-> SubSeq(out, 1, dec.dstEnd)])
     ELSE [moved EXCEPT !.pos = @ + op.len + op.L, !.D = D, !.out = out, !.good = here,
                        !.read = SetMax({@, dec.pos + op.len + op.L + 1})]
=============================================================================
