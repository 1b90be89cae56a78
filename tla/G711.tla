-------------------------------- MODULE G711 --------------------------------
(***************************************************************************)
(* The G.711 tables of the conference mixer (internal/media/mixer.go): how *)
(* a participant's byte becomes a linear sample, and a mixed sample the    *)
(* byte that the others get.  int16 arithmetic wraps, as in Go.            *)
(*                                                                         *)
(* The samples walk up from silence to full scale, of either sign.         *)
(***************************************************************************)
EXTENDS Integers, FiniteSetsExt

CONSTANT Stride  \* step of the walk; 1 checks every sample

ASSUME StrideAssumption == Stride \in Nat \ {0}

VARIABLES law, sign, level

g711Vars == <<law, sign, level>>

Bit(x, i) == (x \div 2^i) % 2
Wrapped(x) == ((x + 32768) % 65536) - 32768  \* int16(x)
Magnitude(x) == IF x < 0 THEN -x ELSE x

\* x ^ 0x55
AlternateBits(x) == x + MapThenSumSet(LAMBDA i : 2^i * (1 - 2 * Bit(x, i)), {0, 2, 4, 6})

Clamp(x) == IF x > 32767 THEN 32767 ELSE IF x < -32768 THEN -32768 ELSE x

DecodeUlaw(u) ==
  LET v == (255 - u) % 128
      magnitude == (2 * (v % 16) + 33) * 2^(v \div 16) - 33
  IN IF u < 128 THEN -magnitude ELSE magnitude

DecodeAlaw(a) ==
  LET v == AlternateBits(a) % 128
      exponent == v \div 16
      magnitude == IF exponent = 0 THEN 16 * (v % 16) + 8
                   ELSE (16 * (v % 16) + 264) * 2^(exponent - 1)
  IN IF AlternateBits(a) >= 128 THEN magnitude ELSE -magnitude

\* -sample, which is itself for -32768.
Absolute(x) == IF x < 0 THEN Wrapped(-x) ELSE x

\* Mutant: a clip that leaves no room for the bias.
UnclippedUlaw(x) == x

ClippedUlaw(x) == IF x > 32635 THEN 32635 ELSE x
ClippedAlaw(x) == IF x > 4095 THEN 4095 ELSE x

EncodeUlaw(x) ==
  LET biased == Wrapped(ClippedUlaw(Absolute(x)) + 132)
      exponent == Max({0} \union {e \in 1 .. 7 : Bit(biased, e + 7) = 1})
      mantissa == (biased \div 2^(exponent + 3)) % 16
  IN 255 - ((IF x < 0 THEN 128 ELSE 0) + 16 * exponent + mantissa)

EncodeAlaw(x) ==
  LET clipped == ClippedAlaw(Absolute(x))
      exponent == IF clipped < 256 THEN 0
                  ELSE Min({e \in 1 .. 7 : clipped < 2^(e + 9) \/ e = 7})
      mantissa == IF exponent = 0 THEN (clipped \div 16) % 256
                  ELSE (clipped \div 2^(exponent + 3)) % 16
      code == AlternateBits(16 * exponent + mantissa)
  IN IF x < 0 THEN (code + 128) % 256 ELSE code

Decode(l, b) == IF l = "ulaw" THEN DecodeUlaw(b) ELSE DecodeAlaw(b)
Encode(l, x) == IF l = "ulaw" THEN EncodeUlaw(x) ELSE EncodeAlaw(x)

\* mixCycle: what a participant gets is the sum of the others who spoke in this
\* tick.  spoken[q] is the byte of q, in its own law.
MixFor(p, spoken, laws) == MapThenSumSet(LAMBDA q : Decode(laws[q], spoken[q]), DOMAIN spoken \ {p})

\* What a listener hears of the mix x, clipped and in its law.
Heard(l, x) == Decode(l, Encode(l, Clamp(x)))

G711Init == law \in {"ulaw", "alaw"} /\ sign \in {1, -1} /\ level = 0

Louder ==
  /\ level + Stride <= 40000
  /\ level' = level + Stride
  /\ UNCHANGED <<law, sign>>

G711Next == Louder
G711Spec == G711Init /\ [][G711Next]_g711Vars

\* In u-law a louder mix is not heard as a quieter one, clipped or not: except
\* -32768, whose magnitude is not an int16 and which is heard as silence.
LouderStaysLouder ==
  [][law = "ulaw" /\ Clamp(sign * level') > -32768 =>
       Magnitude(Heard(law, sign * level')) >= Magnitude(Heard(law, sign * level))]_g711Vars

\* "This 'decode, mix, encode' approach ensures each participant hears all other
\* participants" (Mixer): when one speaks, a listener of the same law hears what
\* was said.
SpeechSurvives ==
  level <= 255 => Heard(law, MixFor(2, <<level>>, <<law, law>>)) = Decode(law, level)

=============================================================================
