--------------------------------- MODULE Fse ---------------------------------
(***************************************************************************)
(* Finite state entropy coding (lzfse_fse.c, lzfse_fse.h): how occurrences *)
(* become frequencies, the coder tables made from frequencies, one step of *)
(* the encoder and of the decoder, and the streams of bits between them.   *)
(* A table of symbols is a sequence, symbol s at index s + 1; states are   *)
(* numbered from 0 as in the code. A stream is the sequence of its bits in *)
(* the order they are written; it is read from its end.                    *)
(***************************************************************************)
EXTENDS Integers, Sequences

CONSTANTS HighBits,   \* 31: the precision of a frequency before it is rounded
          AccumBits   \* 64: the bits of an accumulator (FSE_IOSTREAM_64)

ASSUME FseAssumption == HighBits \in 1 .. 31 /\ AccumBits \in {8 * b : b \in 2 .. 8}

Least(S) == CHOOSE x \in S : \A y \in S : x <= y


(* The sum of the first n entries of a table. *)
SumOf(t, n) ==
  LET sum[j \in Nat] == IF j = 0 THEN 0 ELSE sum[j - 1] + t[j] IN sum[n]

(* 31 - __builtin_clz(n) *)
Log2(n) == CHOOSE k \in 0 .. 24 : 2 ^ k <= n /\ n < 2 ^ (k + 1)

(***************************************************************************)
(* Frequencies.                                                            *)
(***************************************************************************)

(* Each count in proportion, rounded, and at least 1 for a used symbol.    *)
Rescaled(t, nstates) ==
  LET count == SumOf(t, Len(t))
      step  == IF count = 0 THEN 0 ELSE 2 ^ HighBits \div count
      shift == HighBits - 1 - Log2(nstates)
  IN [i \in DOMAIN t |->
        LET f == ((t[i] * step) \div 2 ^ shift + 1) \div 2
        IN IF f = 0 /\ t[i] # 0 THEN 1 ELSE f]

(* fse_adjust_freqs: rounds over the symbols, each taking (freq - 1) / 8,  *)
(* then / 4, / 2 and / 1, until the overrun is gone.                       *)
AdjustFreqs(freq, overrun) ==
  LET n == Len(freq)
      after[j \in Nat] ==
        IF j = 0 THEN [freq |-> freq, overrun |-> overrun]
        ELSE LET a == after[j - 1]
                 s == 1 + ((j - 1) % n)
                 cut == Least({(a.freq[s] - 1) \div 2 ^ (3 - (j - 1) \div n), a.overrun})
             IN IF a.freq[s] > 1
                THEN [freq |-> [a.freq EXCEPT ![s] = @ - cut], overrun |-> a.overrun - cut]
                ELSE a
  IN after[4 * n].freq

(* fse_normalize_freq: what rounding left over goes to the first of the    *)
(* most frequent symbols, which also pays for a small overrun.             *)
NormalizeFreq(t, nstates) ==
  LET freq == Rescaled(t, nstates)
      remaining == nstates - SumOf(freq, Len(freq))
      top == Least({s \in DOMAIN freq : \A r \in DOMAIN freq : freq[r] <= freq[s]})
  IN IF -remaining < freq[top] \div 4
     THEN [freq EXCEPT ![top] = @ + remaining]
     ELSE AdjustFreqs(freq, -remaining)

(***************************************************************************)
(* Tables. A symbol of frequency f owns f consecutive states; k is the     *)
(* shift that brings f into nstates .. 2 * nstates - 1.                    *)
(***************************************************************************)
Shift(f, nstates) == Log2(nstates) - Log2(f)

(* One entry of fse_init_encoder_table. A symbol that owns every state has *)
(* k = 0 and never needs delta1.                                           *)
EncoderEntry(freq, s, nstates) ==
  LET f == freq[s]   offset == SumOf(freq, s - 1)   k == Shift(f, nstates)
  IN [s0 |-> f * 2 ^ k - nstates,
      k  |-> k,
      delta0 |-> offset - f + nstates \div 2 ^ k,
      delta1 |-> IF k = 0 THEN 0 ELSE offset - f + nstates \div 2 ^ (k - 1)]

InitEncoderTable(freq, nstates) ==
  [s \in {r \in DOMAIN freq : freq[r] # 0} |-> EncoderEntry(freq, s, nstates)]

(* fse_init_decoder_table: the entry of the j-th state of symbol s. *)
DecoderEntry(freq, s, j, nstates) ==
  LET f == freq[s]   k == Shift(f, nstates)   j0 == (2 * nstates) \div 2 ^ k - f
  IN IF j < j0
     THEN [symbol |-> s, k |-> k, delta |-> (f + j) * 2 ^ k - nstates]
     ELSE [symbol |-> s, k |-> k - 1, delta |-> (j - j0) * 2 ^ (k - 1)]

InitDecoderTable(freq, nstates) ==
  [state \in 0 .. SumOf(freq, Len(freq)) - 1 |->
     LET s == Least({r \in DOMAIN freq : state < SumOf(freq, r)})
     IN DecoderEntry(freq, s, state - SumOf(freq, s - 1), nstates)]

(* fse_init_value_decoder_table: the entries of the decoder table with the *)
(* extra bits and the base of the symbol's values added.                   *)
InitValueDecoderTable(freq, nstates, vbits, vbase) ==
  LET plain == InitDecoderTable(freq, nstates)
  IN [state \in DOMAIN plain |->
        LET e == plain[state]
        IN [total_bits |-> e.k + vbits[e.symbol], value_bits |-> vbits[e.symbol],
            delta |-> e.delta, vbase |-> vbase[e.symbol]]]

(***************************************************************************)
(* Streams. An output stream holds its bits and how many of them are still *)
(* in the accumulator; an input stream also how many bytes lie below the   *)
(* ones it has loaded. "overflow" is a broken assertion of the code.       *)
(***************************************************************************)
BitsOf(v, n) == [j \in 1 .. n |-> (v \div 2 ^ (j - 1)) % 2]
ValueOf(bits) ==
  LET value[j \in Nat] == IF j = 0 THEN 0 ELSE value[j - 1] + bits[j] * 2 ^ (j - 1)
  IN value[Len(bits)]

OutInit == [bits |-> << >>, held |-> 0, overflow |-> FALSE]

OutPush(out, n, v) ==
  [bits |-> out.bits \o BitsOf(v, n), held |-> out.held + n,
   overflow |-> out.overflow \/ out.held + n > AccumBits]

OutFlush(out) == [out EXCEPT !.held = @ % 8]

(* Zeros up to a whole byte; held becomes minus their number, -7 .. 0. *)
OutFinish(out) ==
  LET pad == (8 - (out.held % 8)) % 8
  IN [out EXCEPT !.bits = @ \o BitsOf(0, pad), !.held = -pad]

BytesIn(bits) == Len(bits) \div 8

InitError == [error |-> TRUE]

(* fse_in_checked_init64, n the held of the finished output stream and     *)
(* below the bytes between the start of the buffer and the payload.        *)
InInit(bits, n, below) ==
  LET load == IF n = 0 THEN AccumBits \div 8 - 1 ELSE AccumBits \div 8
      left == below + BytesIn(bits) - load
      held == IF n = 0 THEN AccumBits - 8 ELSE AccumBits + n
  IN IF left < 0 \/ held < AccumBits - 8 \/ held >= AccumBits
     THEN InitError
     ELSE [bits |-> SubSeq(bits, 1, Len(bits) + n), held |-> held, below |-> left,
           error |-> FALSE, overflow |-> FALSE]

(* fse_in_checked_flush64: whole bytes until AccumBits - 8 or more are held. *)
InFlush(in) ==
  LET load == (AccumBits - 1 - in.held) \div 8
  IN IF in.below < load THEN [in EXCEPT !.error = TRUE]
     ELSE [in EXCEPT !.held = @ + 8 * load, !.below = @ - load]

(* The n bits pulled, the last ones of the stream, and the stream after. *)
Pulled(in, n) == ValueOf(SubSeq(in.bits, Len(in.bits) - n + 1, Len(in.bits)))
InPull(in, n) ==
  [in EXCEPT !.bits = SubSeq(@, 1, Len(@) - n), !.held = @ - n,
             !.overflow = @ \/ n > in.held]

(***************************************************************************)
(* One symbol. A coder is a record of a state and a stream.                *)
(***************************************************************************)
FseEncode(state, out, table, symbol) ==
  LET e == table[symbol]
      hi == state >= e.s0
      nbits == IF hi THEN e.k ELSE e.k - 1
  IN [state |-> (IF hi THEN e.delta0 ELSE e.delta1) + state \div 2 ^ nbits,
      out   |-> OutPush(out, nbits, state % 2 ^ nbits)]

FseDecode(state, in, table) ==
  LET e == table[state]
  IN [state |-> e.delta + Pulled(in, e.k), in |-> InPull(in, e.k), symbol |-> e.symbol]

FseValueDecode(state, in, table) ==
  LET e == table[state]   both == Pulled(in, e.total_bits)
  IN [state |-> e.delta + both \div 2 ^ e.value_bits,
      in    |-> InPull(in, e.total_bits),
      value |-> e.vbase + (both % 2 ^ e.value_bits)]
=============================================================================
