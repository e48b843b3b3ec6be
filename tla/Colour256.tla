----------------------------- MODULE Colour256 -----------------------------
(***************************************************************************)
(* Map256Colour (src/source/SoftTerm.cpp): the 256-entry indexed colour    *)
(* table used by SGR 38;5;N and 48;5;N.  A colour is <<alpha, r, g, b>>;   *)
(* every channel is a uint8_t, so each is kept modulo 256.                 *)
(***************************************************************************)
EXTENDS Naturals

Explicit(r, g, b) == <<"explicit", r % 256, g % 256, b % 256>>

\* One bit of the 16 system colours' index.
Bit(c, k) == (c \div k) % 2 = 1

\* The cube's non-linear level: 0..3 stay, 4 and 5 become 5 and 7.
CubeLevel(v) == IF v >= 4 THEN v + v - 3 ELSE v

\* Mutation of GreyStep, for the mutation runs: an off-by-one in the
\* steepening.
GreyStepOffByOne(v) == IF v >= 16 THEN v + v - 17 ELSE v

\* The grey ramp's step: 0..15 stay, 16..23 grow twice as fast.
GreyStep(v) == IF v >= 16 THEN v + v - 15 ELSE v

\* Mutation of Map256Colour, for the mutation runs: no substitution for
\* index 8.
Map256ColourNoSubstitution(c) ==
    CASE c = 7 -> Explicit(192, 192, 192)
      [] c = 4 -> Explicit(0, 0, 160)
      [] c < 16 ->
            LET hi == IF Bit(c, 8) THEN 255 ELSE 127
            IN  Explicit(IF Bit(c, 1) THEN hi ELSE 0, IF Bit(c, 2) THEN hi ELSE 0,
                         IF Bit(c, 4) THEN hi ELSE 0)
      [] c < 232 ->
            LET d == c - 16
            IN  Explicit(CubeLevel(d \div 36) * 32, CubeLevel((d \div 6) % 6) * 32,
                         CubeLevel(d % 6) * 32)
      [] OTHER -> LET s == GreyStep(c - 232) IN Explicit(s * 8, s * 8, s * 8)

Map256Colour(c) ==
    CASE c = 7 -> Explicit(192, 192, 192)
      [] c = 4 -> Explicit(0, 0, 160)
      [] c < 16 ->
            LET k  == IF c = 8 THEN 7 ELSE c
                hi == IF Bit(k, 8) THEN 255 ELSE 127
            IN  Explicit(IF Bit(k, 1) THEN hi ELSE 0,
                         IF Bit(k, 2) THEN hi ELSE 0,
                         IF Bit(k, 4) THEN hi ELSE 0)
      [] c < 232 ->
            LET d == c - 16
            IN  Explicit(CubeLevel(d \div 36) * 32,
                         CubeLevel((d \div 6) % 6) * 32,
                         CubeLevel(d % 6) * 32)
      [] OTHER -> LET s == GreyStep(c - 232) IN Explicit(s * 8, s * 8, s * 8)
=============================================================================
