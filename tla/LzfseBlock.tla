------------------------------ MODULE LzfseBlock ------------------------------
(***************************************************************************)
(* A compressed block of LZFSE (lzfse_encode_base.c, lzfse_decode_base.c,  *)
(* lzfse_internal.h): literals and triples L, M, D as two streams of bits  *)
(* behind a header that has the frequencies of their symbols. A triple     *)
(* copies L literals and then M bytes from a distance D.                   *)
(***************************************************************************)
EXTENDS Fse, SequencesExt, FiniteSets

CONSTANTS
  Extra,          \* l_extra_bits, m_extra_bits, d_extra_bits: by "l", "m", "d"
  States,         \* the numbers of states: by "l", "m", "d" and "lit"
  LiteralSymbols, \* 256
  FixedHeader     \* 32: the bytes of a header in front of its frequencies

WordBytes == AccumBits \div 8   \* 8: what one store of an accumulator writes

Values == {"l", "m", "d"}

ASSUME BlockAssumption ==
  /\ \A k \in Values : States[k] \in {2 ^ b : b \in 1 .. 10} /\ Len(Extra[k]) <= States[k]
  /\ States["lit"] \in {2 ^ b : b \in 1 .. 10} /\ LiteralSymbols <= States["lit"]

(***************************************************************************)
(* Values. A symbol stands for 2 ^ extra values from its base on.          *)
(***************************************************************************)
Base(k) == [s \in DOMAIN Extra[k] |-> SumOf([r \in DOMAIN Extra[k] |-> 2 ^ Extra[k][r]], s - 1)]
MaxValue(k) == SumOf([r \in DOMAIN Extra[k] |-> 2 ^ Extra[k][r]], Len(Extra[k])) - 1

(* l_base_from_value, m_base_from_value, d_base_from_value *)
SymbolOf(k, v) == CHOOSE s \in DOMAIN Extra[k] : v \in Base(k)[s] .. Base(k)[s] + 2 ^ Extra[k][s] - 1

(***************************************************************************)
(* The header. A frequency is coded by 2 to 14 bits; where the first 0     *)
(* stands tells how many.                                                  *)
(***************************************************************************)
FreqCode(v) ==
  CASE v \in 0 .. 1   -> BitsOf(2 * v, 2)
    [] v \in 2 .. 3   -> BitsOf(4 * (v - 2) + 1, 3)
    [] v \in 4 .. 7   -> BitsOf(8 * (v - 4) + 3, 5)
    [] v \in 8 .. 23  -> BitsOf(16 * (v - 8) + 7, 8)
    [] OTHER          -> BitsOf(16 * (v - 24) + 15, 14)

(* lzfse_decode_v1_freq_value: the value and its length, given the bits    *)
(* from here on as a number.                                               *)
FreqValue(b) ==
  CASE b % 2 = 0  -> [value |-> (b \div 2) % 2, nbits |-> 2]
    [] b % 4 = 1  -> [value |-> 2 + ((b \div 4) % 2), nbits |-> 3]
    [] b % 8 = 3  -> [value |-> 4 + ((b \div 8) % 4), nbits |-> 5]
    [] b % 16 = 7 -> [value |-> 8 + ((b \div 16) % 16), nbits |-> 8]
    [] OTHER      -> [value |-> 24 + ((b \div 16) % 1024), nbits |-> 14]

Kinds == <<"l", "m", "d", "lit">>
SymbolCount(k) == IF k = "lit" THEN LiteralSymbols ELSE Len(Extra[k])
TotalSymbols == SumOf([j \in 1 .. 4 |-> SymbolCount(Kinds[j])], 4)

(* lzfse_encode_v1_freq_table: the tables one after the other, filled up   *)
(* to a whole byte.                                                        *)
FreqTable(freq) ==
  LET code == FlattenSeq([j \in 1 .. 4 |->
                FlattenSeq([s \in DOMAIN freq[Kinds[j]] |-> FreqCode(freq[Kinds[j]][s])])])
  IN OutFinish([bits |-> code, held |-> Len(code), overflow |-> FALSE]).bits

(* lzfse_decode_v1: the frequencies in the bits of a header, which they    *)
(* have to use up but for less than a byte.                                *)
DecodeFreqTable(bits) ==
  LET read[j \in Nat] ==
        IF j = 0 THEN [at |-> 0, values |-> << >>, ok |-> TRUE]
        ELSE LET r == read[j - 1]
                 next == SubSeq(bits, r.at + 1, IF r.at + 14 < Len(bits) THEN r.at + 14 ELSE Len(bits))
                 f == FreqValue(ValueOf(next))
             IN [at |-> r.at + f.nbits, values |-> Append(r.values, f.value),
                 ok |-> r.ok /\ r.at + f.nbits <= Len(bits)]
      all == read[TotalSymbols]
      Part(j) == LET first == SumOf([i \in 1 .. 4 |-> SymbolCount(Kinds[i])], j - 1)
                 IN SubSeq(all.values, first + 1, first + SymbolCount(Kinds[j]))
  IN [ok |-> all.ok /\ Len(bits) - all.at < 8,
      freq |-> [l |-> Part(1), m |-> Part(2), d |-> Part(3), lit |-> Part(4)]]

FullHeader == FixedHeader + 2 * TotalSymbols

(***************************************************************************)
(* Encoding.                                                               *)
(***************************************************************************)
Occurrences(symbols, n) ==
  [s \in 1 .. n |-> Cardinality({i \in DOMAIN symbols : symbols[i] = s})]

(* Zeros up to a multiple of four: there are four streams of literals. *)
PadLiterals(literals) == literals \o [i \in 1 .. (4 - (Len(literals) % 4)) % 4 |-> 0]

(* A distance that repeats the one before is stored as 0. *)
DistanceCodes(matches) ==
  [i \in DOMAIN matches |->
     IF i > 1 /\ matches[i].D = matches[i - 1].D THEN 0 ELSE matches[i].D]

(* What is behind it when a loop begins, and whether its accumulator held. *)
Flushed(out) == (Len(out.bits) - out.held) \div 8

(* mutant: the accumulator is flushed every other time *)
EncodeLiteralsFlushingLess(literals, table) ==
  LET n == Len(literals) \div 4
      done[j \in Nat] ==
        IF j = 0 THEN [states |-> <<0, 0, 0, 0>>, out |-> OutInit, last |-> 0]
        ELSE LET p == done[j - 1]
                 lit(r) == literals[4 * (n - j) + r] + 1
                 d == FseEncode(p.states[4], p.out, table, lit(4))
                 c == FseEncode(p.states[3], d.out, table, lit(3))
                 b == FseEncode(p.states[2], c.out, table, lit(2))
                 a == FseEncode(p.states[1], b.out, table, lit(1))
             IN [states |-> <<a.state, b.state, c.state, d.state>>,
                 out |-> IF j % 2 = 0 THEN OutFlush(a.out) ELSE a.out, last |-> Flushed(p.out)]
  IN done[n]

(* The literals from the last four to the first, flushed after each four. *)
EncodeLiterals(literals, table) ==
  LET n == Len(literals) \div 4
      done[j \in Nat] ==
        IF j = 0 THEN [states |-> <<0, 0, 0, 0>>, out |-> OutInit, last |-> 0]
        ELSE LET p == done[j - 1]
                 lit(r) == literals[4 * (n - j) + r] + 1
                 d == FseEncode(p.states[4], p.out, table, lit(4))
                 c == FseEncode(p.states[3], d.out, table, lit(3))
                 b == FseEncode(p.states[2], c.out, table, lit(2))
                 a == FseEncode(p.states[1], b.out, table, lit(1))
             IN [states |-> <<a.state, b.state, c.state, d.state>>,
                 out |-> OutFlush(a.out), last |-> Flushed(p.out)]
  IN done[n]

(* A value: its extra bits, then its symbol. *)
EncodeValue(k, state, out, table, v) ==
  LET s == SymbolOf(k, v)
  IN FseEncode(state, OutPush(out, Extra[k][s], v - Base(k)[s]), table, s)

(* The triples from the last to the first, D, M and L of each, behind a    *)
(* word of zeros.                                                          *)
EncodeTriples(triples, tables) ==
  LET n == Len(triples)
      padding == OutFlush(OutPush(OutInit, AccumBits, 0))
      done[j \in Nat] ==
        IF j = 0 THEN [states |-> [l |-> 0, m |-> 0, d |-> 0], out |-> padding, last |-> WordBytes]
        ELSE LET p == done[j - 1]   t == triples[n - j + 1]
                 d == EncodeValue("d", p.states["d"], p.out, tables["d"], t.D)
                 m == EncodeValue("m", p.states["m"], d.out, tables["m"], t.M)
                 l == EncodeValue("l", p.states["l"], m.out, tables["l"], t.L)
             IN [states |-> [l |-> l.state, m |-> m.state, d |-> d.state],
                 out |-> OutFlush(l.out), last |-> Flushed(p.out)]
  IN done[n]

Refused(reach) == [ok |-> FALSE, reach |-> reach]

(* The frequencies of the symbols in a block, and the tables for them. *)
Frequencies(triples, lits) ==
  LET Count(k, symbols) == NormalizeFreq(Occurrences(symbols, SymbolCount(k)), States[k])
  IN [l |-> Count("l", [i \in DOMAIN triples |-> SymbolOf("l", triples[i].L)]),
      m |-> Count("m", [i \in DOMAIN triples |-> SymbolOf("m", triples[i].M)]),
      d |-> Count("d", [i \in DOMAIN triples |-> SymbolOf("d", triples[i].D)]),
      lit |-> Count("lit", [i \in DOMAIN lits |-> lits[i] + 1])]
Tables(freq) ==
  LET Table(k) == InitEncoderTable(freq[k], States[k])
  IN [l |-> Table("l"), m |-> Table("m"), d |-> Table("d"), lit |-> Table("lit")]

(* The block at used, its header and the streams l and t of literals and   *)
(* triples, if there is room for them.                                     *)
WrittenBlock(triples, lits, freqBits, l, t, used, dstEnd) ==
  LET litStart == used + FixedHeader + BytesIn(freqBits)
      litOut == OutFinish(l.out)
      lmdStart == litStart + BytesIn(litOut.bits)
      lmdOut == OutFinish(t.out)
      litReach == litStart + Flushed(l.out) + WordBytes
      lmdReach == lmdStart + Flushed(t.out) + WordBytes
  IN IF used + FullHeader > dstEnd THEN Refused(0)
     ELSE IF lits # << >> /\ litStart + l.last + 2 * WordBytes > dstEnd THEN Refused(litStart)
     ELSE IF lmdStart + WordBytes > dstEnd THEN Refused(litReach)
     ELSE IF triples # << >> /\ lmdStart + t.last + 2 * WordBytes > dstEnd THEN Refused(litReach)
     ELSE [ok |-> TRUE, reach |-> IF litReach > lmdReach THEN litReach ELSE lmdReach,
           size |-> lmdStart + BytesIn(lmdOut.bits) - used,
           block |-> [magic |-> "bvx2",
                      raw |-> SumOf([i \in DOMAIN triples |-> triples[i].L + triples[i].M],
                                    Len(triples)),
                      freqBits |-> freqBits, nLiterals |-> Len(lits), nMatches |-> Len(triples),
                      literalBits |-> litOut.bits, literalHeld |-> litOut.held,
                      literalStates |-> l.states,
                      lmdBits |-> lmdOut.bits, lmdHeld |-> lmdOut.held, lmdStates |-> t.states,
                      overflow |-> litOut.overflow \/ lmdOut.overflow]]

CodedBlock(triples, lits, freq, tables, used, dstEnd) ==
  WrittenBlock(triples, lits, FreqTable(freq), EncodeLiterals(lits, tables["lit"]),
               EncodeTriples(triples, tables), used, dstEnd)

CountedBlock(triples, lits, freq, used, dstEnd) ==
  CodedBlock(triples, lits, freq, Tables(freq), used, dstEnd)

(* lzfse_encode_matches: the block of some matches and literals written at *)
(* used, or a refusal. Each store of an accumulator writes a whole word.   *)
EncodeBlock(matches, literals, used, dstEnd) ==
  LET lits == PadLiterals(literals)
      codes == DistanceCodes(matches)
      triples == [i \in DOMAIN matches |-> [matches[i] EXCEPT !.D = codes[i]]]
  IN CountedBlock(triples, lits, Frequencies(triples, lits), used, dstEnd)

(***************************************************************************)
(* Decoding.                                                               *)
(***************************************************************************)
HeaderSize(block) == FixedHeader + BytesIn(block.freqBits)
PayloadSize(block) == BytesIn(block.literalBits) + BytesIn(block.lmdBits)

(* lzfse_check_block_header_v1 *)
HeaderOk(block, freq, maxLiterals, maxMatches) ==
  /\ block.nLiterals <= maxLiterals /\ block.nMatches <= maxMatches
  /\ \A r \in 1 .. 4 : block.literalStates[r] < States["lit"]
  /\ \A k \in Values : block.lmdStates[k] < States[k]
  /\ \A k \in DOMAIN freq : SumOf(freq[k], Len(freq[k])) <= States[k]

(* The literals of a block, four at a time; start is where its payload is. *)
DecodeLiterals(block, freq, start) ==
  LET table == InitDecoderTable(freq["lit"], States["lit"])
      done[j \in Nat] ==
        IF j = 0 THEN [states |-> block.literalStates, literals |-> << >>,
                       in |-> InInit(block.literalBits, block.literalHeld, start)]
        ELSE LET p == done[j - 1]
                 a == FseDecode(p.states[1], InFlush(p.in), table)
                 b == FseDecode(p.states[2], a.in, table)
                 c == FseDecode(p.states[3], b.in, table)
                 d == FseDecode(p.states[4], c.in, table)
             IN IF p.in.error THEN p
                ELSE [states |-> <<a.state, b.state, c.state, d.state>>, in |-> d.in,
                      literals |-> p.literals
                        \o <<a.symbol - 1, b.symbol - 1, c.symbol - 1, d.symbol - 1>>]
  IN done[block.nLiterals \div 4]

ValueTable(k, freq) == InitValueDecoderTable(freq[k], States[k], Extra[k], Base(k))

(* One turn of the loop of lzfse_decode_lmd: the next triple of a stream.  *)
DecodeTriple(states, in, tables) ==
  LET l == FseValueDecode(states["l"], InFlush(in), tables["l"])
      m == FseValueDecode(states["m"], l.in, tables["m"])
      d == FseValueDecode(states["d"], m.in, tables["d"])
  IN [L |-> l.value, M |-> m.value, D |-> d.value, in |-> d.in,
      states |-> [l |-> l.state, m |-> m.state, d |-> d.state]]
=============================================================================
