---------------------------- MODULE RandomNumbers ----------------------------
(***************************************************************************)
(* math.random (lmathlib.c): the generator on words of 2 * HALF bits, and  *)
(* the same on pairs of halves, for builds without a type of 64 bits; the  *)
(* type of a half may have EXTRA bits more.                                *)
(***************************************************************************)
EXTENDS Integers, FiniteSets, Bitwise

CONSTANTS
  HALF,                \* 32
  EXTRA,
  ROT1, SHIFT, ROT2,   \* 7, 17 and 45
  FIGS                 \* bits of the mantissa of a float

RandomConstants ==
  /\ HALF \in Nat \ {0} /\ EXTRA \in Nat /\ FIGS \in 1 .. 2 * HALF
  /\ ROT1 \in 1 .. HALF - 1 /\ SHIFT \in 1 .. HALF - 1 /\ ROT2 \in HALF + 1 .. 2 * HALF - 1

Rand64 == 0 .. 4 ^ HALF - 1

-----------------------------------------------------------------------------
(* Words *)

trim64(x) == x % 4 ^ HALF
rotl(x, n) == trim64(x * 2 ^ n) + x \div 2 ^ (2 * HALF - n)
nextrand(s) ==
  LET state2 == s[3] ^^ s[1]
      state3 == s[4] ^^ s[2]
  IN  [result |-> trim64(rotl(trim64(s[2] * 5), ROT1) * 9),
       state |-> <<s[1] ^^ state3, s[2] ^^ state2, state2 ^^ trim64(s[2] * 2 ^ SHIFT), rotl(state3, ROT2)>>]
(* the numerator of the float, over 2^FIGS                                 *)
I2d(x) == x \div 2 ^ (2 * HALF - FIGS)

-----------------------------------------------------------------------------
(* Pairs of halves *)

trim32(x) == x % 2 ^ HALF
Uint32(x) == x % 2 ^ (HALF + EXTRA)
packI(h, l) == [h |-> Uint32(h), l |-> Uint32(l)]
Ishl(i, n) == packI(Uint32(i.h * 2 ^ n) | (trim32(i.l) \div 2 ^ (HALF - n)), i.l * 2 ^ n)
Ixor(i1, i2) == [h |-> i1.h ^^ i2.h, l |-> i1.l ^^ i2.l]

(* The carry is found without trimming.                                    *)
FaultyIadd(i1, i2) ==
  LET result == packI(i1.h + i2.h, i1.l + i2.l)
  IN  IF result.l < i1.l THEN packI(result.h + 1, result.l) ELSE result

Iadd(i1, i2) ==
  LET result == packI(i1.h + i2.h, i1.l + i2.l)
  IN  IF trim32(result.l) < trim32(i1.l) THEN packI(result.h + 1, result.l) ELSE result

times5(i) == Iadd(Ishl(i, 2), i)
times9(i) == Iadd(Ishl(i, 3), i)
rotl_halves(i, n) ==
  packI(Uint32(i.h * 2 ^ n) | (trim32(i.l) \div 2 ^ (HALF - n)),
        (trim32(i.h) \div 2 ^ (HALF - n)) | Uint32(i.l * 2 ^ n))
rotl1(i, m) ==
  LET n == 2 * HALF - m
  IN  packI((trim32(i.h) \div 2 ^ n) | Uint32(i.l * 2 ^ (HALF - n)),
            Uint32(i.h * 2 ^ (HALF - n)) | (trim32(i.l) \div 2 ^ n))
nextrand_halves(s) ==
  LET s2 == Ixor(s[3], s[1])
      s3 == Ixor(s[4], s[2])
  IN  [result |-> times9(rotl_halves(times5(s[2]), ROT1)),
       state |-> <<Ixor(s[1], s3), Ixor(s[2], s2), Ixor(s2, Ishl(s[2], SHIFT)), rotl1(s3, ROT2)>>]
I2d_halves(x) ==
  IF FIGS <= HALF THEN trim32(x.h) \div 2 ^ (HALF - FIGS)
  ELSE trim32(x.h) * 2 ^ (FIGS - HALF) + trim32(x.l) \div 2 ^ (2 * HALF - FIGS)
I2UInt(x) == trim32(x.h) * 2 ^ HALF + trim32(x.l)
Int2I(n) == packI(n \div 2 ^ HALF, n)

-----------------------------------------------------------------------------
(* Random integers of an interval.  Integers have 2 * HALF bits.           *)

(* The word is reduced modulo the size of the interval.                    *)
Faultyproject(ran, n) == {ran % (n + 1)}

(* No result: the next random word is tried.  In lim, the bits below the   *)
(* highest one of n are set.                                               *)
project(ran, n) ==
  IF n & (n + 1) = 0 THEN {ran & n}
  ELSE LET l1 == n | (n \div 2)
           l2 == l1 | (l1 \div 4)
           l4 == l2 | (l2 \div 16)
           l8 == l4 | (l4 \div 256)
           lim == l8 | (l8 \div 65536)
       IN  {ran & lim} \cap 0 .. n

Signed(u) == IF u >= 4 ^ HALF \div 2 THEN u - 4 ^ HALF ELSE u
math_random(rv, low, up) == {Signed(trim64(p + low)) : p \in project(rv, trim64(up - low))}

-----------------------------------------------------------------------------
(* math.random gives integers of its interval only, all equally likely,    *)
(* also when the size of the interval is beyond the largest integer.       *)
UniformWithin(low, up) ==
  LET drawn(v) == Cardinality({rv \in Rand64 : v \in math_random(rv, low, up)})
  IN  /\ \A rv \in Rand64 : math_random(rv, low, up) \subseteq low .. up
      /\ drawn(low) > 0 /\ \A v \in low .. up : drawn(v) = drawn(low)

(* The generator on halves yields what the generator on words yields.      *)
GenerateTheSame(s) ==
  LET words == [i \in 1 .. 4 |-> I2UInt(s[i])]
      next == nextrand(words)
      nexth == nextrand_halves(s)
  IN  /\ I2UInt(nexth.result) = next.result /\ I2d_halves(nexth.result) = I2d(next.result)
      /\ \A i \in 1 .. 4 : I2UInt(nexth.state[i]) = next.state[i] /\ I2UInt(Int2I(words[i])) = words[i]
=============================================================================
