---------------------------- MODULE MCCompression ----------------------------
(* Small alphabets, tables and blocks for TLC; the steps of the coder are  *)
(* checked over all of their inputs first.                                 *)
EXTENDS Compression

MCExtra == [k \in Values |-> CASE k = "l" -> <<0, 0, 1, 2>>
                               [] k = "m" -> <<0, 0, 0, 0, 1, 3>>
                               [] k = "d" -> <<0, 0, 1, 1, 2, 2, 2, 2>>]
MCStates == [k \in Values \cup {"lit"} |-> IF k = "lit" THEN 16 ELSE 8]
MCHashX(v) == (v[1] + 3 * v[2] + v[3] + 5 * v[4]) % 3
MCHashes == 0 .. 2

(* The coder over every table of three symbols: the frequencies fill the   *)
(* states, and an encoded symbol is decoded, to the state before it.       *)
Counted == [1 .. 3 -> 0 .. 6]
FseInverse ==
  \A t \in Counted :
    LET f == NormalizeFreq(t, 8)
        e == InitEncoderTable(f, 8)
        d == InitDecoderTable(f, 8)
    IN /\ SumOf(f, 3) = 8 /\ \A s \in 1 .. 3 : t[s] # 0 => f[s] > 0
       /\ \A s \in DOMAIN e, state \in 0 .. 7 :
            LET c == FseEncode(state, OutInit, e, s)
            IN /\ d[c.state].symbol = s /\ d[c.state].k = Len(c.out.bits)
               /\ d[c.state].delta + ValueOf(c.out.bits) = state
ASSUME FseInverse

(* Every frequency is read as it was coded, whatever follows it. *)
FreqInverse ==
  \A v \in 0 .. 1047 :
    LET c == FreqCode(v)   f == FreqValue(ValueOf(c \o <<1, 0, 1, 1, 1>>))
    IN f = [value |-> v, nbits |-> Len(c)]
ASSUME FreqInverse

(* Words that repeat at once or after a change, and one that does not. *)
A == <<1, 2, 3, 4, 5>>
B == <<1, 2, 3, 4, 6, 1>>
C == <<7, 7, 7, 7, 7, 7, 7>>
D == <<0, 5, 1, 6, 2, 7, 3, 0, 4, 1, 5, 2, 6, 3>>
E == <<1, 2, 3, 4, 5, 1, 2, 3, 4, 5, 0, 2, 3, 4, 5, 0, 2, 3, 4, 5, 0>>
F == D \o <<0, 2, 4, 6, 1, 3, 5, 7>>

MCSources == {<<1, 2, 3>>, E, E \o A \o A, F \o A \o A, F \o F \o F, C \o C \o C \o C \o C,
              C \o C \o C \o C \o C \o C \o C \o C, C \o C \o C \o C \o C \o C \o C \o E}
  \cup {a \o b : a \in {A, B, C}, b \in {A, B, C, D}}
  \cup {a \o b \o a \o C : a \in {A, B, D}, b \in {C, D}}
  \cup {a \o b \o a \o b \o c \o a \o e : a \in {A, C}, b \in {B, D}, c \in {C, D}, e \in {D, F}}
=============================================================================
