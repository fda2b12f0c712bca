----------------------------- MODULE Compression -----------------------------
(***************************************************************************)
(* lzfse_encode_buffer and lzfse_decode_buffer (lzfse_encode.c,            *)
(* lzfse_decode.c): a source is compressed into a destination of some size *)
(* by the method its size asks for, then the stream, or its first bytes,   *)
(* is decoded into some room.                                              *)
(***************************************************************************)
EXTENDS LzfseDecoder

CONSTANTS
  Sources, Destinations,  \* the sources, and the sizes of a destination
  Rooms, Cuts,            \* the bytes the decoder may write, and those of the
                          \* stream it is not given
  MinSize,                \* 8: LZVN_ENCODE_MIN_SRC_SIZE, LZVN_ENCODE_MIN_DST_SIZE
  LzvnThreshold,          \* 4096: smaller sources are left to LZVN
  HugeSize,               \* 0xffffffff: so large a source is cut into chunks
  ChunkSize,              \* 262144
  MaxUncompressed         \* INT32_MAX: so large a source is never stored raw

ASSUME CompressionAssumption ==
  /\ MinSize >= 8 /\ LzvnThreshold > 8 /\ HugeSize > LzvnThreshold
  /\ 2 * ChunkSize <= HugeSize /\ ChunkSize > 8 /\ MaxUncompressed <= HugeSize

VARIABLES
  phase,        \* "start", "lzvn", "lzfse", "compressed", "decoding" or "done"
  source,       \* src_buffer
  dstSize,      \* dst_size of the encoder
  chunk,        \* of a huge source: "first", "middle" or "last"
  left,         \* src_size: less the chunks that are done
  encoder,      \* the state of the encoder that runs
  stream,       \* the blocks in the destination
  written,      \* what lzfse_encode_buffer returned
  decoder,      \* the state of the decoder
  decoded,      \* what lzfse_decode_buffer returned
  clock         \* ticks with each step, even if the step changes nothing

results == <<phase, source, dstSize, chunk, left, encoder, stream, written, decoder, decoded>>
vars == <<results, clock>>

Init ==
  /\ phase = "start" /\ source \in Sources /\ dstSize \in Destinations
  /\ chunk = "last" /\ left = Len(source) /\ encoder = << >> /\ stream = << >> /\ written = 0
  /\ decoder = << >> /\ decoded = 0 /\ clock = 0

Compressed(blocks, size) ==
  /\ phase' = "compressed" /\ stream' = blocks /\ written' = size
  /\ UNCHANGED <<source, dstSize, chunk, left, decoder, decoded>>

(* mutant: the marker at the end is not counted *)
TryUncompressedNoMarker ==
  IF Len(source) + 8 <= dstSize /\ Len(source) < MaxUncompressed
  THEN Compressed(<<RawBlock(source, left), EndOfStream>>, Len(source) + 12)
  ELSE Compressed(<< >>, 0)

(* try_uncompressed *)
TryUncompressed ==
  IF Len(source) + 12 <= dstSize /\ Len(source) < MaxUncompressed
  THEN Compressed(<<RawBlock(source, left), EndOfStream>>, Len(source) + 12)
  ELSE Compressed(<< >>, 0)

(* A source that is too small for LZVN, or a destination that is. *)
StoreRaw ==
  /\ phase = "start"
  /\ \/ Len(source) < MinSize
     \/ Len(source) < LzvnThreshold /\ dstSize - 16 < MinSize
  /\ TryUncompressed /\ UNCHANGED encoder

(***************************************************************************)
(* LZVN: a small source, in one block.                                     *)
(***************************************************************************)
StartLzvn ==
  /\ phase = "start" /\ Len(source) \in MinSize .. LzvnThreshold - 1
  /\ dstSize - 16 >= MinSize
  /\ phase' = "lzvn" /\ encoder' = LzvnStart(source, dstSize - 16)
  /\ UNCHANGED <<source, dstSize, chunk, left, stream, written, decoder, decoded>>

SearchLzvn ==
  /\ phase = "lzvn" /\ LzvnMore(source, encoder)
  /\ encoder' = LzvnPosition(source, encoder)
  /\ UNCHANGED <<phase, source, dstSize, chunk, left, stream, written, decoder, decoded>>

(* mutant: where LZVN fails nothing else is tried *)
FinishLzvnOnly ==
  /\ phase = "lzvn" /\ ~LzvnMore(source, encoder)
  /\ LET vn == LzvnFinish(source, encoder)   size == Len(vn.out)
     IN /\ encoder' = vn
        /\ IF vn.literal # Len(source) THEN Compressed(<< >>, 0)
           ELSE Compressed(<<LzvnBlock(vn.out, Len(source)), EndOfStream>>, size + 16)

(* lzvn_encode_buffer is back: with all of the source encoded, or with 0. *)
FinishLzvn ==
  /\ phase = "lzvn" /\ ~LzvnMore(source, encoder)
  /\ LET vn == LzvnFinish(source, encoder)   size == Len(vn.out)
     IN /\ encoder' = vn
        /\ IF vn.literal # Len(source) \/ size >= Len(source) THEN TryUncompressed
           ELSE Compressed(<<LzvnBlock(vn.out, Len(source)), EndOfStream>>, size + 16)

(***************************************************************************)
(* LZFSE: the source as a whole, or one chunk after the other.             *)
(***************************************************************************)
StartLzfse ==
  /\ phase = "start" /\ Len(source) >= LzvnThreshold /\ phase' = "lzfse"
  /\ IF Len(source) >= HugeSize
     THEN encoder' = LzfseStart(ChunkSize, dstSize) /\ chunk' = "first"
     ELSE encoder' = LzfseStart(Len(source), dstSize) /\ chunk' = "last"
  /\ UNCHANGED <<source, dstSize, left, stream, written, decoder, decoded>>

SearchLzfse ==
  /\ phase = "lzfse" /\ LzfseMore(encoder)
  /\ encoder' = LzfsePosition(source, encoder)
  /\ UNCHANGED <<phase, source, dstSize, chunk, left, stream, written, decoder, decoded>>

(* A chunk is done. All but the first are moved to where the first was;    *)
(* then comes another full chunk, or what is left.                         *)
NextChunk ==
  /\ phase = "lzfse" /\ encoder.status = "ok" /\ ~LzfseMore(encoder) /\ chunk # "last"
  /\ LET fe == IF chunk = "middle" THEN Translate(encoder, ChunkSize) ELSE encoder
         more == left - ChunkSize >= ChunkSize
     IN /\ chunk' = IF more THEN "middle" ELSE "last"
        /\ encoder' = [fe EXCEPT !.end = IF more THEN 2 * ChunkSize ELSE left]
  /\ left' = left - ChunkSize
  /\ UNCHANGED <<phase, source, dstSize, stream, written, decoder, decoded>>

FinishLzfse ==
  /\ phase = "lzfse"
  /\ encoder.status # "ok" \/ (~LzfseMore(encoder) /\ chunk = "last")
  /\ LET fe == IF encoder.status = "ok" THEN LzfseFinish(source, encoder) ELSE encoder
     IN /\ encoder' = fe
        /\ IF fe.status = "ok" THEN Compressed(fe.out, fe.used) ELSE TryUncompressed

(***************************************************************************)
(* Decoding.                                                               *)
(***************************************************************************)
(* lzfse_decode_buffer is given the stream, or less of it. *)
OpenDecoder ==
  /\ phase = "compressed" /\ written # 0 /\ phase' = "decoding"
  /\ \E room \in Rooms, cut \in Cuts :
       /\ cut <= written
       /\ decoder' = DecoderStart(stream, written - cut, room)
  /\ UNCHANGED <<source, dstSize, chunk, left, encoder, stream, written, decoded>>

Decode ==
  /\ phase = "decoding" /\ decoder.status = "going"
  /\ decoder' = DecodeTurn(decoder)
  /\ UNCHANGED <<phase, source, dstSize, chunk, left, encoder, stream, written, decoded>>

CloseDecoder ==
  /\ phase = "decoding" /\ decoder.status # "going"
  /\ phase' = "done" /\ decoded' = DecodedSize(decoder)
  /\ UNCHANGED <<source, dstSize, chunk, left, encoder, stream, written, decoder>>

Finished == phase = "done" \/ (phase = "compressed" /\ written = 0)

(* The call has returned. *)
Returned == Finished /\ UNCHANGED results

Tick == clock' = 1 - clock

Next ==
  /\ \/ StoreRaw \/ StartLzvn \/ SearchLzvn \/ FinishLzvn
     \/ StartLzfse \/ SearchLzfse \/ NextChunk \/ FinishLzfse
     \/ OpenDecoder \/ Decode \/ CloseDecoder \/ Returned
  /\ Tick

(* One thread runs each call, and never stands still but in a loop. *)
Spec == Init /\ [][Next]_vars /\ WF_clock(Tick)

(***************************************************************************)
(* Properties.                                                             *)
(***************************************************************************)
(* The encoder is that of the phase, and the decoder only runs over a      *)
(* stream that lzfse_encode_buffer returned.                               *)
TypeOK ==
  /\ phase \in {"start", "lzvn", "lzfse", "compressed", "decoding", "done"}
  /\ source \in Sources /\ dstSize \in Destinations
  /\ chunk \in {"first", "middle", "last"} /\ left \in 0 .. Len(source)
  /\ phase = "lzvn" => encoder.current \in 0 .. Len(source) /\ encoder.literal <= Len(source)
  /\ phase = "lzfse" => /\ encoder.status \in {"ok", "dst", "tables"}
                        /\ encoder.base + encoder.literal <= Len(source)
                        /\ Len(encoder.matches) <= MatchesPerBlock
  /\ written \in 0 .. dstSize
  /\ phase \in {"decoding", "done"} =>
       /\ decoder.at <= decoder.given /\ Len(decoder.out) <= decoder.room
       /\ decoder.status \in {"going", "ok", "src_empty", "dst_full", "error"}

(* n bytes at position p of the source are those at a distance D before. *)
Repeats(p, n, D) == D \in 1 .. p /\ SubSeq(source, p + 1, p + n) = SubSeq(source, p - D + 1, p - D + n)

(* What a search remembers stays true while it goes on, and when a chunk   *)
(* has moved: the match held back is one, covers no byte that is already   *)
(* emitted, and each position of the table still has its bytes.            *)
MemoryTrue ==
  /\ phase = "lzvn" /\ ~encoder.full =>
       /\ encoder.pending.M # 0 =>
            /\ encoder.pending.begin >= encoder.literal /\ encoder.pending.end <= Len(source)
            /\ Repeats(encoder.pending.begin, encoder.pending.M, encoder.pending.D)
       /\ \A h \in DOMAIN encoder.table : \A k \in 1 .. 4 :
            encoder.table[h][k].value = Bytes(source, encoder.table[h][k].pos, 4)
  /\ phase = "lzfse" /\ encoder.status = "ok" =>
       /\ encoder.pending.length > 0 =>
            /\ encoder.pending.pos >= encoder.literal
            /\ encoder.pending.pos + encoder.pending.length <= encoder.end
            /\ Repeats(encoder.base + encoder.pending.pos, encoder.pending.length,
                       encoder.pending.pos - encoder.pending.ref)
       /\ \A h \in Hashes : \A k \in 1 .. HashWidth :
            LET e == encoder.table[h][k]
            IN e.pos > InvalidPos => e.value = BytesFrom(source, encoder, e.pos, 4)

(* The triples and literals that wait for a block say, in their order, the *)
(* bytes of the source between the blocks written and the first literal:   *)
(* no byte is lost or doubled where a match is cut, dropped for another or *)
(* pushed again after a block.                                             *)
WaitingSaysSource ==
  phase = "lzfse" /\ encoder.status = "ok" =>
    LET ms == encoder.matches
        first == SumOf([j \in DOMAIN encoder.out |-> encoder.out[j].raw], Len(encoder.out))
        At(i) == first + SumOf([j \in DOMAIN ms |-> ms[j].L + ms[j].M], i)
        Lit(i) == SumOf([j \in DOMAIN ms |-> ms[j].L], i)
    IN /\ At(Len(ms)) = encoder.base + encoder.literal
       /\ Lit(Len(ms)) = Len(encoder.literals)
       /\ \A i \in DOMAIN ms :
            /\ SubSeq(encoder.literals, Lit(i - 1) + 1, Lit(i))
                 = SubSeq(source, At(i - 1) + 1, At(i - 1) + ms[i].L)
            /\ ms[i].M > 0 => Repeats(At(i - 1) + ms[i].L, ms[i].M, ms[i].D)

(* The copies by whole words, of both encoders and both decoders, store    *)
(* nothing behind the end of a destination or of the table of literals and *)
(* read nothing behind the end of a source; and no accumulator of bits is  *)
(* asked for more than it has.                                             *)
StoresStayInside ==
  /\ encoder # << >> =>
       /\ encoder.read <= Len(source)
       /\ IF Len(source) < LzvnThreshold THEN encoder.reach + 16 <= dstSize
          ELSE encoder.reach <= dstSize /\ encoder.filled <= LiteralsPerBlock
  /\ phase = "compressed" => \A j \in DOMAIN stream :
                               stream[j].magic = "bvx2" => ~stream[j].overflow
  /\ phase = "decoding" =>
       /\ decoder.reach <= decoder.room
       /\ decoder.inside.kind = "lzvn" =>
            /\ decoder.inside.lzvn.reach <= decoder.inside.lzvn.dstEnd
            /\ decoder.inside.lzvn.read <= decoder.inside.lzvn.end
       /\ decoder.inside.kind = "lmd" => ~decoder.inside.in.overflow /\ ~decoder.inside.overflow

(* Once their block is written the tables have room for any match: the     *)
(* encoder fails only for want of room in the destination.                 *)
TablesSuffice == phase = "lzfse" => encoder.status # "tables"

(* No search is wrong about what it has seen, and none loses a byte of it. *)
SearchHolds == MemoryTrue /\ WaitingSaysSource

(* No buffer, accumulator or table is ever too small for what it is given. *)
NothingOverruns == StoresStayInside /\ TablesSuffice

(* Whatever the methods make of a source, twelve bytes more are enough. *)
NeverRefused ==
  phase = "compressed" /\ dstSize >= Len(source) + 12 /\ Len(source) < MaxUncompressed
    => written # 0

(* The decoder writes the source, or the first bytes of it, and nothing    *)
(* else: all of it when it has the whole stream and the room, and as many  *)
(* bytes as there is room for. A stream that is cut is not taken for a     *)
(* whole one; within a block of LZVN it looks like want of room.           *)
DecodesBack ==
  /\ phase \in {"decoding", "done"} =>
       IsPrefix(decoder.out, source) /\ decoder.status # "error"
  /\ phase = "done" =>
       /\ decoder.given = written =>
            /\ decoded = Len(decoder.out) /\ decoded = Lesser(Len(source), decoder.room)
            /\ decoder.status = IF Len(source) <= decoder.room THEN "ok" ELSE "dst_full"
       /\ decoder.given < written /\ decoded # 0 =>
            decoder.status = "dst_full"
              /\ (decoder.room <= Len(source) \/ stream[1].magic = "bvxn")

(* Each call comes to its end. *)
Ends == <>Finished
=============================================================================
