---------------------------- MODULE LzfseDecoder ----------------------------
(***************************************************************************)
(* The decoder of LZFSE streams (lzfse_decode_base.c), as it runs for one  *)
(* call of lzfse_decode_buffer: block by block, and in a block one run of  *)
(* raw bytes, one instruction of LZVN or one triple at a time.             *)
(*                                                                         *)
(* A stream is a sequence of blocks. A decoder is a record: stream; given, *)
(* how many of its bytes it was given, and room, the bytes it may write;   *)
(* at, the byte it has come to, and next, the block to begin there; inside,*)
(* the state within a block; out, what it wrote; reach, how far its wide   *)
(* copies went; status, "going" or why it stopped.                         *)
(***************************************************************************)
EXTENDS LzfseEncoder, Lzvn

CONSTANT CopyMargin   \* 32: wide copies keep so far from the end

EndOfStream == [magic |-> "bvx$"]
RawBlock(bytes, nRaw) == [magic |-> "bvx-", bytes |-> bytes, raw |-> nRaw]
LzvnBlock(payload, nRaw) == [magic |-> "bvxn", payload |-> payload, raw |-> nRaw]

(* The bytes of the header of a block, and of the whole block. *)
HeaderBytes(b) ==
  CASE b.magic = "bvx$" -> 4
    [] b.magic = "bvx-" -> 8
    [] b.magic = "bvxn" -> 12
    [] b.magic = "bvx2" -> HeaderSize(b)
BlockBytes(b) ==
  HeaderBytes(b) + CASE b.magic = "bvx$" -> 0
                     [] b.magic = "bvx-" -> Len(b.bytes)
                     [] b.magic = "bvxn" -> Len(b.payload)
                     [] b.magic = "bvx2" -> PayloadSize(b)

StreamBytes(stream) == SumOf([j \in DOMAIN stream |-> BlockBytes(stream[j])], Len(stream))

NoBlock == [kind |-> "none"]

DecoderStart(stream, given, room) ==
  [stream |-> stream, given |-> given, room |-> room, next |-> 1, at |-> 0,
   inside |-> NoBlock, out |-> << >>, reach |-> 0, status |-> "going"]

Stopped(dec, why) == [dec EXCEPT !.status = why]

(***************************************************************************)
(* The beginning of a block.                                               *)
(***************************************************************************)
(* lzvn_decode gets what there is of the payload, and room for n_raw_bytes. *)
BeginLzvn(dec, b) ==
  LET start == dec.at + 12
  IN [dec EXCEPT !.at = start, !.next = @ + 1,
        !.inside = [kind |-> "lzvn", nPayload |-> Len(b.payload), nRaw |-> b.raw,
                    lzvn |-> LzvnOpen(b.payload, 0, Lesser(Len(b.payload), dec.given - start),
                                      dec.out, Lesser(dec.room, Len(dec.out) + b.raw))]]

(* The header and the whole block have to be there. Literals are decoded   *)
(* at once; the stream of triples is opened.                               *)
BeginCompressed(dec, b) ==
  LET table == DecodeFreqTable(b.freqBits)
      start == dec.at + HeaderSize(b)
      literals == DecodeLiterals(b, table.freq, start)
      in == InInit(b.lmdBits, b.lmdHeld, 0)
  IN IF ~table.ok THEN Stopped(dec, "error")
     ELSE IF dec.at + BlockBytes(b) > dec.given THEN Stopped(dec, "src_empty")
     ELSE IF ~HeaderOk(b, table.freq, LiteralsPerBlock, MatchesPerBlock) \/ literals.in.error \/ in.error
     THEN Stopped(dec, "error")
     ELSE [dec EXCEPT !.at = start + BytesIn(b.literalBits), !.next = @ + 1,
             !.inside = [kind |-> "lmd", literals |-> literals.literals, used |-> 0,
                         left |-> b.nMatches, D |-> -1, states |-> b.lmdStates,
                         in |-> [in EXCEPT !.below = @ + start + BytesIn(b.literalBits)],
                         payload |-> BytesIn(b.lmdBits),
                         tables |-> [l |-> ValueTable("l", table.freq),
                                     m |-> ValueTable("m", table.freq),
                                     d |-> ValueTable("d", table.freq)],
                         overflow |-> literals.in.overflow]]

(* The case LZFSE_NO_BLOCK_MAGIC of lzfse_decode. *)
BeginBlock(dec) ==
  LET b == dec.stream[dec.next]   left == dec.given - dec.at
  IN IF left < 4 THEN Stopped(dec, "src_empty")
     ELSE IF b.magic = "bvx$" THEN [Stopped(dec, "ok") EXCEPT !.at = @ + 4]
     ELSE IF left < HeaderBytes(b) THEN Stopped(dec, "src_empty")
     ELSE CASE b.magic = "bvx-" -> [dec EXCEPT !.at = @ + 8, !.next = @ + 1,
                                      !.inside = [kind |-> "raw", left |-> b.raw, used |-> 0]]
            [] b.magic = "bvxn" -> BeginLzvn(dec, b)
            [] b.magic = "bvx2" -> BeginCompressed(dec, b)

(***************************************************************************)
(* Inside a block.                                                         *)
(***************************************************************************)
(* mutant: the end of the room is not noticed *)
CopyRawForever(dec) ==
  LET raw == dec.inside
      n == Lesser(raw.left, Lesser(dec.given - dec.at, dec.room - Len(dec.out)))
      bytes == dec.stream[dec.next - 1].bytes
  IN IF raw.left = 0 THEN [dec EXCEPT !.inside = NoBlock]
     ELSE IF dec.given <= dec.at THEN Stopped(dec, "src_empty")
     ELSE [dec EXCEPT !.at = @ + n, !.out = @ \o SubSeq(bytes, raw.used + 1, raw.used + n),
             !.inside.left = @ - n, !.inside.used = @ + n]

(* Raw bytes: as many as are left, are given and have room. *)
CopyRaw(dec) ==
  LET raw == dec.inside
      n == Lesser(raw.left, Lesser(dec.given - dec.at, dec.room - Len(dec.out)))
      bytes == dec.stream[dec.next - 1].bytes
  IN IF raw.left = 0 THEN [dec EXCEPT !.inside = NoBlock]
     ELSE IF dec.given <= dec.at THEN Stopped(dec, "src_empty")
     ELSE IF dec.room <= Len(dec.out) THEN Stopped(dec, "dst_full")
     ELSE [dec EXCEPT !.at = @ + n, !.out = @ \o SubSeq(bytes, raw.used + 1, raw.used + n),
             !.inside.left = @ - n, !.inside.used = @ + n]

(* An instruction of LZVN; when lzvn_decode is back, what became of the    *)
(* payload and of the bytes it stands for.                                 *)
RunLzvn(dec) ==
  LET z == dec.inside   run == z.lzvn
      nPayload == z.nPayload - run.good.pos
      nRaw == z.nRaw - (Len(run.good.out) - Len(dec.out))
      eos == run.state = "eos"
      moved == [dec EXCEPT !.at = @ + run.good.pos, !.out = run.good.out]
  IN IF z.nPayload > 0 /\ dec.given <= dec.at THEN Stopped(dec, "src_empty")
     ELSE IF run.state = "going" THEN [dec EXCEPT !.inside.lzvn = LzvnInstruction(run)]
     ELSE IF nPayload < 0 \/ nRaw < 0 THEN Stopped(dec, "error")
     ELSE IF nPayload = 0 /\ nRaw = 0 /\ eos THEN [moved EXCEPT !.inside = NoBlock]
     ELSE IF nPayload = 0 \/ nRaw = 0 \/ eos THEN Stopped(moved, "error")
     ELSE Stopped(moved, "dst_full")

(* copy: n bytes, eight at a time and at least once *)
Wide(n) == IF n = 0 THEN 8 ELSE 8 * ((n + 7) \div 8)

(* lzfse_decode_lmd: the next triple, its literals and its match. Copies   *)
(* are wide unless the end of the destination is near, and what does not   *)
(* fit is cut there.                                                       *)
RunTriple(dec) ==
  LET z == dec.inside   t == DecodeTriple(z.states, z.in, z.tables)
      D == IF t.D # 0 THEN t.D ELSE z.D
      lits == dec.out \o SubSeq(z.literals, z.used + 1, z.used + t.L)
      out == IF t.M = 0 THEN lits ELSE CopyMatch(lits, t.M, D)
      wide == Len(out) + CopyMargin <= dec.room
      reach == {Len(dec.out) + Wide(t.L),
                Len(lits) + IF D >= 8 \/ D >= t.M THEN Wide(t.M) ELSE t.M}
  IN IF z.left = 0 THEN [dec EXCEPT !.at = @ + z.payload, !.inside = NoBlock]
     ELSE IF t.in.error \/ z.used + t.L >= LiteralsPerBlock + 64 \/ D \notin 1 .. Len(lits)
     THEN Stopped(dec, "error")
     ELSE IF Len(out) > dec.room
     THEN Stopped([dec EXCEPT !.out = SubSeq(out, 1, dec.room)], "dst_full")
     ELSE [dec EXCEPT !.out = out, !.reach = SetMax({@, Len(out)} \cup IF wide THEN reach ELSE {}),
             !.inside = [z EXCEPT !.used = @ + t.L, !.left = @ - 1, !.D = D,
                           !.states = t.states, !.in = t.in]]

(* One turn of lzfse_decode. *)
DecodeTurn(dec) ==
  CASE dec.inside.kind = "none" -> BeginBlock(dec)
    [] dec.inside.kind = "raw"  -> CopyRaw(dec)
    [] dec.inside.kind = "lzvn" -> RunLzvn(dec)
    [] dec.inside.kind = "lmd"  -> RunTriple(dec)

(* lzfse_decode_buffer: what it returns. *)
DecodedSize(dec) ==
  CASE dec.status = "dst_full" -> dec.room
    [] dec.status = "ok"       -> Len(dec.out)
    [] OTHER                   -> 0
=============================================================================
