----------------------------- MODULE LzvnOpcodes -----------------------------
(***************************************************************************)
(* The instructions of LZVN (lzvn_encode_base.c, lzvn_decode_base.c): how  *)
(* literals and matches are cut into instructions and packed into bytes,   *)
(* and what the decoder reads in each first byte. An instruction copies L  *)
(* literals that follow it and then M bytes from a distance D.             *)
(*                                                                         *)
(* A piece is one turn of the loops of emit: the bytes of its instruction, *)
(* its literals, the room its capacity test asks for, and reach, how far   *)
(* behind its start its stores go. The copies are wider than what they     *)
(* copy, so reach may exceed the length.                                   *)
(***************************************************************************)
EXTENDS Integers, Sequences

CONSTANTS MaxRun,       \* 271: the longest run of one literal or match instruction
          MaxDistance   \* 0xffff: LZVN_ENCODE_MAX_DISTANCE

ASSUME OpcodeAssumption == MaxRun \in 16 .. 271 /\ MaxDistance \in 1 .. 65535

Lesser(a, b) == IF a <= b THEN a ELSE b

(***************************************************************************)
(* Cutting n into runs of at most MaxRun while more than 15 are left.      *)
(***************************************************************************)
LongRuns(n) == (n + MaxRun - 16) \div MaxRun
LongRun(n, i) == Lesser(MaxRun, n - (i - 1) * MaxRun)
ShortRun(n) == IF n % MaxRun > 15 THEN 0 ELSE n % MaxRun

(***************************************************************************)
(* The opcodes. x is the length of the match less 3.                       *)
(***************************************************************************)
LiteralCode(n) == IF n > 15 THEN <<224, n - 16>> ELSE <<224 + n>>
MatchCode(n)   == IF n > 15 THEN <<240, n - 16>> ELSE <<240 + n>>
PreviousDistance(L, x) == IF L = 0 THEN <<240 + x + 3>> ELSE <<64 * L + 8 * x + 6>>
SmallDistance(L, x, D) == <<D \div 256 + 64 * L + 8 * x, D % 256>>
LargeDistance(L, x, D) == <<64 * L + 8 * x + 7, D % 256, D \div 256>>
MediumDistance(L, x, D) ==
  <<160 + x \div 4 + 8 * L, 4 * (D % 64) + (x % 4), D \div 64>>

(* mutant: the first match is cut as if it had no literals *)
FirstMatchUncut(L, M) == Lesser(M, 10)

(* The length of the match that goes with L literals: the 3 bits of x must *)
(* not make the first byte a code with another meaning.                    *)
FirstMatch(L, M) == Lesser(M, 10 - 2 * L)

(* How emit packs L < 4 literals and a match, and how much of the match is *)
(* left for instructions without a distance.                               *)
Packed(L, M, D, Dprev) ==
  LET x == FirstMatch(L, M) - 3   rest == M - FirstMatch(L, M)
  IN CASE D = Dprev  -> [code |-> PreviousDistance(L, x), rest |-> rest]
       [] D # Dprev /\ D < 1536 -> [code |-> SmallDistance(L, x, D), rest |-> rest]
       [] D # Dprev /\ D >= 1536 /\ (D >= 16384 \/ rest = 0 \/ M > 34)
                     -> [code |-> LargeDistance(L, x, D), rest |-> rest]
       [] OTHER      -> [code |-> MediumDistance(L, M - 3, D), rest |-> 0]

(***************************************************************************)
(* Pieces. copy64 copies by 8 bytes, a match takes its literals with one   *)
(* store of 4 bytes.                                                       *)
(***************************************************************************)
Piece(code, lits, room, reach) ==
  [bytes |-> code \o lits, room |-> room, reach |-> Len(code) + reach]

LiteralPiece(lits, wide) ==
  Piece(LiteralCode(Len(lits)), lits, Len(lits) + 10,
        IF wide THEN 8 * ((Len(lits) + 7) \div 8) ELSE Len(lits))

LongLiterals(lits, wide) ==
  [i \in 1 .. LongRuns(Len(lits)) |->
     LET from == (i - 1) * MaxRun
     IN LiteralPiece(SubSeq(lits, from + 1, from + LongRun(Len(lits), i)), wide)]

LastLiterals(lits) == SubSeq(lits, Len(lits) - ShortRun(Len(lits)) + 1, Len(lits))

MatchRest(n) ==
  [i \in 1 .. LongRuns(n) |-> Piece(MatchCode(LongRun(n, i)), << >>, 2, 0)]
    \o IF ShortRun(n) = 0 THEN << >> ELSE <<Piece(MatchCode(ShortRun(n)), << >>, 1, 0)>>

(* emit_literal *)
EmitLiteral(lits) ==
  LongLiterals(lits, FALSE)
    \o IF LastLiterals(lits) = << >> THEN << >>
       ELSE <<LiteralPiece(LastLiterals(lits), FALSE)>>

(* emit *)
Emit(lits, M, D, Dprev) ==
  LET last   == LastLiterals(lits)
      apart  == Len(last) > 3
      packed == Packed(IF apart THEN 0 ELSE Len(last), M, D, Dprev)
  IN LongLiterals(lits, TRUE)
       \o (IF apart THEN <<LiteralPiece(last, TRUE)>> ELSE << >>)
       \o <<Piece(packed.code, IF apart THEN << >> ELSE last, 8, 4)>>
       \o MatchRest(packed.rest)

(***************************************************************************)
(* What the decoder makes of a first byte b and the two bytes c, d after   *)
(* it: the kind of the instruction, its length without literals, L, M, and *)
(* the distance, 0 when it is that of the instruction before.              *)
(***************************************************************************)
Undefined == {30, 38, 46, 54, 62} \cup 112 .. 127 \cup 208 .. 223

Instruction(kind, len, L, M, D) == [kind |-> kind, len |-> len, L |-> L, M |-> M, D |-> D]

Unpacked(b, c, d) ==
  CASE b = 6          -> Instruction("eos", 8, 0, 0, 0)
    [] b \in {14, 22} -> Instruction("nop", 1, 0, 0, 0)
    [] b \in Undefined -> Instruction("udef", 0, 0, 0, 0)
    [] b \in 160 .. 191 ->
         Instruction("med_d", 3, (b \div 8) % 4, 4 * (b % 8) + (c % 4) + 3, c \div 4 + 64 * d)
    [] b = 224        -> Instruction("lrg_l", 2, c + 16, 0, 0)
    [] b \in 225 .. 239 -> Instruction("sml_l", 1, b % 16, 0, 0)
    [] b = 240        -> Instruction("lrg_m", 2, 0, c + 16, 0)
    [] b \in 241 .. 255 -> Instruction("sml_m", 1, 0, b % 16, 0)
    [] b % 8 = 7 /\ b < 208 /\ b \notin Undefined /\ b \notin 160 .. 191 ->
         Instruction("lrg_d", 3, b \div 64, ((b \div 8) % 8) + 3, c + 256 * d)
    [] b % 8 = 6 /\ b \in 64 .. 207 /\ b \notin Undefined /\ b \notin 160 .. 191 ->
         Instruction("pre_d", 1, b \div 64, ((b \div 8) % 8) + 3, 0)
    [] OTHER ->
         Instruction("sml_d", 2, b \div 64, ((b \div 8) % 8) + 3, 256 * (b % 8) + c)
=============================================================================
