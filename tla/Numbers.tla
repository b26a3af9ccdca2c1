------------------------------- MODULE Numbers -------------------------------
(***************************************************************************)
(* Integers and floats (lvm.c, lobject.c, lmathlib.c, lbaselib.c):         *)
(* conversions, comparisons, integer arithmetic, numerals, loops' limits.  *)
(* Integers have NBITS bits and wrap.  A float is a multiple of 1/2,       *)
(* written in halves, with NBM bits of mantissa and rounding to the        *)
(* nearest; INF and NAN are beyond the others.  Zeros have no sign.        *)
(* A value is [t |-> "int" | "flt" | "str", n |-> ...]; a numeral in a     *)
(* string stands for the number it denotes.  A conversion yields the set   *)
(* of its result: empty when it fails.                                     *)
(***************************************************************************)
EXTENDS Integers, Sequences, FiniteSets

CONSTANTS
  NBITS,        \* bits of an integer
  NBM,          \* bits of the mantissa of a float
  MAXEXP        \* largest exponent of a float, in halves

NumbersConstants == NBITS \in Nat \ {0, 1} /\ NBM \in Nat \ {0} /\ MAXEXP \in Nat \ {0}

LUA_MAXINTEGER == 2 ^ (NBITS - 1) - 1
LUA_MININTEGER == -(2 ^ (NBITS - 1))
LuaInteger == LUA_MININTEGER .. LUA_MAXINTEGER
l_castS2U(i) == i % 2 ^ NBITS
l_castU2S(u) == IF u > LUA_MAXINTEGER THEN u - 2 ^ NBITS ELSE u
Wrap(x) == l_castU2S(x % 2 ^ NBITS)

Magnitude(x) == IF x < 0 THEN -x ELSE x
Quotient(m, n) ==
  LET q == Magnitude(m) \div Magnitude(n) IN IF (m < 0) = (n < 0) THEN q ELSE -q
Remainder(m, n) == m - n * Quotient(m, n)

MAXFLOAT == (2 ^ NBM - 1) * 2 ^ MAXEXP
INF == 2 ^ (NBM + MAXEXP + 2)
NAN == INF + 1
FiniteFloats == LET ms == {k * 2 ^ e : k \in 0 .. 2 ^ NBM - 1, e \in 0 .. MAXEXP} IN ms \cup {-k : k \in ms}
LuaFloat == FiniteFloats \cup {INF, -INF, NAN}

(* The nearest float; of two, the one with an even mantissa.               *)
Rounded(x) ==
  LET below == CHOOSE f \in FiniteFloats : f <= x /\ \A g \in FiniteFloats : g <= x => g <= f
      above == CHOOSE f \in FiniteFloats : f >= x /\ \A g \in FiniteFloats : g >= x => f <= g
      gap == above - below
  IN  IF Magnitude(x) >= MAXFLOAT + 2 ^ (MAXEXP - 1) THEN IF x > 0 THEN INF ELSE -INF
      ELSE IF Magnitude(x) > MAXFLOAT THEN IF x > 0 THEN MAXFLOAT ELSE -MAXFLOAT
      ELSE IF below = above \/ 2 * (x - below) < gap
                \/ (2 * (x - below) = gap /\ (below \div gap) % 2 = 0) THEN below ELSE above

luai_numlt(a, b) == a # NAN /\ b # NAN /\ a < b
luai_numle(a, b) == a # NAN /\ b # NAN /\ a <= b
luai_numadd(a, b) ==
  IF NAN \in {a, b} \/ {a, b} = {INF, -INF} THEN NAN
  ELSE IF {a, b} \cap {INF, -INF} # {} THEN CHOOSE s \in {a, b} : s \in {INF, -INF}
  ELSE Rounded(a + b)
l_floor(f) == IF f \in {INF, -INF, NAN} THEN f ELSE (f \div 2) * 2
cast_num(i) == Rounded(2 * i)
lua_numbertointeger(f) ==
  IF luai_numle(2 * LUA_MININTEGER, f) /\ luai_numlt(f, -2 * LUA_MININTEGER) THEN {f \div 2} ELSE {}

(* fmod with the correction of luai_nummod.                                *)
luaV_modf(a, b) ==
  IF NAN \in {a, b} \/ a \in {INF, -INF} \/ b = 0 THEN NAN
  ELSE LET m == IF b \in {INF, -INF} THEN a ELSE Remainder(a, b)
       IN  IF (m > 0 /\ b < 0) \/ (m < 0 /\ b > 0) THEN luai_numadd(m, b) ELSE m

-----------------------------------------------------------------------------
(* Conversions *)

ttisinteger(v) == v.t = "int"
ttisfloat(v) == v.t = "flt"
l_strton(v) == IF v.t = "str" THEN v.n ELSE {}

luaV_flttointeger(n, mode) ==
  LET f == l_floor(n)
  IN  IF n = f /\ n # NAN THEN lua_numbertointeger(f)
      ELSE CASE mode = "F2Ieq" -> {}
             [] mode = "F2Iceil" -> lua_numbertointeger(luai_numadd(f, 2))
             [] mode = "F2Ifloor" -> lua_numbertointeger(f)
luaV_tointegerns(v, mode) ==
  CASE v.t = "flt" -> luaV_flttointeger(v.n, mode) [] v.t = "int" -> {v.n} [] OTHER -> {}
luaV_tointeger(v, mode) ==
  IF l_strton(v) = {} THEN luaV_tointegerns(v, mode)
  ELSE UNION {luaV_tointegerns(w, mode) : w \in l_strton(v)}
tonumberns(v) == CASE v.t = "flt" -> {v.n} [] v.t = "int" -> {cast_num(v.n)} [] OTHER -> {}
luaV_tonumber_(v) == tonumberns(v) \cup UNION {tonumberns(w) : w \in l_strton(v)}

-----------------------------------------------------------------------------
(* Comparisons *)

MAXINTFITSF == 2 ^ NBM
l_intfitsf(i) == NBITS - 1 <= NBM \/ (MAXINTFITSF + l_castS2U(i)) % 2 ^ NBITS <= 2 * MAXINTFITSF

(* Comparing as floats although the integer may not fit.                   *)
FaultyLTintfloat(i, f) == luai_numlt(cast_num(i), f)

LTintfloat(i, f) ==
  IF l_intfitsf(i) THEN luai_numlt(cast_num(i), f)
  ELSE LET fi == luaV_flttointeger(f, "F2Iceil")
       IN  IF fi = {} THEN luai_numlt(0, f) ELSE \A c \in fi : i < c

LEintfloat(i, f) ==
  IF l_intfitsf(i) THEN luai_numle(cast_num(i), f)
  ELSE LET fi == luaV_flttointeger(f, "F2Ifloor")
       IN  IF fi = {} THEN luai_numlt(0, f) ELSE \A c \in fi : i <= c

LTfloatint(f, i) ==
  IF l_intfitsf(i) THEN luai_numlt(f, cast_num(i))
  ELSE LET fi == luaV_flttointeger(f, "F2Ifloor")
       IN  IF fi = {} THEN luai_numlt(f, 0) ELSE \A c \in fi : c < i

LEfloatint(f, i) ==
  IF l_intfitsf(i) THEN luai_numle(f, cast_num(i))
  ELSE LET fi == luaV_flttointeger(f, "F2Iceil")
       IN  IF fi = {} THEN luai_numlt(f, 0) ELSE \A c \in fi : c <= i

LTnum(l, r) ==
  IF ttisinteger(l) THEN IF ttisinteger(r) THEN l.n < r.n ELSE LTintfloat(l.n, r.n)
  ELSE IF ttisfloat(r) THEN luai_numlt(l.n, r.n) ELSE LTfloatint(l.n, r.n)
LEnum(l, r) ==
  IF ttisinteger(l) THEN IF ttisinteger(r) THEN l.n <= r.n ELSE LEintfloat(l.n, r.n)
  ELSE IF ttisfloat(r) THEN luai_numle(l.n, r.n) ELSE LEfloatint(l.n, r.n)

(* luaV_equalobj on numbers                                                *)
EqualNumbers(l, r) ==
  IF l.t = r.t THEN l.n = r.n /\ ~(ttisfloat(l) /\ l.n = NAN)
  ELSE luaV_tointegerns(l, "F2Ieq") \cap luaV_tointegerns(r, "F2Ieq") # {}

-----------------------------------------------------------------------------
(* Integer arithmetic.  Division by zero is an error.                      *)

luaV_idiv(m, n) ==
  IF n = 0 THEN {} ELSE IF n = -1 THEN {Wrap(-m)}
  ELSE IF (m < 0) # (n < 0) /\ Remainder(m, n) # 0 THEN {Quotient(m, n) - 1} ELSE {Quotient(m, n)}

(* The case -1, where C may overflow, has no test.                         *)
FaultyluaV_mod(m, n) ==
  IF n = 0 THEN {} ELSE LET r == Remainder(m, n) IN IF r # 0 THEN {r + n} ELSE {r}

luaV_mod(m, n) ==
  IF n = 0 THEN {} ELSE IF n = -1 THEN {0}
  ELSE LET r == Remainder(m, n) IN IF r # 0 /\ (r < 0) # (n < 0) THEN {r + n} ELSE {r}

luaV_shiftl(x, y) ==
  IF y < 0 THEN IF y <= -NBITS THEN 0 ELSE l_castU2S(l_castS2U(x) \div 2 ^ (-y))
  ELSE IF y >= NBITS THEN 0 ELSE Wrap(l_castS2U(x) * 2 ^ y)
luaV_shiftr(x, y) == luaV_shiftl(x, Wrap(-y))

math_abs(n) == IF n < 0 THEN Wrap(-n) ELSE n
math_fmod(m, d) == IF d = 0 THEN {} ELSE IF d = -1 THEN {0} ELSE {Remainder(m, d)}
math_ult(a, b) == l_castS2U(a) < l_castS2U(b)

(* math.floor, math.ceil and the integral part of math.modf, of a float.   *)
pushnumint(d) ==
  IF lua_numbertointeger(d) # {} THEN {[t |-> "int", n |-> i] : i \in lua_numbertointeger(d)}
  ELSE {[t |-> "flt", n |-> d]}
l_ceil(f) == IF l_floor(f) = f THEN f ELSE Rounded(l_floor(f) + 2)
math_floor(f) == pushnumint(l_floor(f))
math_ceil(f) == pushnumint(l_ceil(f))
math_modf(f) == pushnumint(IF luai_numlt(f, 0) THEN l_ceil(f) ELSE l_floor(f))

-----------------------------------------------------------------------------
(* Numerals: a sign, a base and the values of the digits.                  *)

MAXBY10 == LUA_MAXINTEGER \div 10
MAXLASTD == LUA_MAXINTEGER % 10

(* The limit of the last digit does not depend on the sign.                *)
Faultyl_str2int(neg, hex, digits) ==
  LET base == IF hex THEN 16 ELSE 10
      a[i \in 0 .. Len(digits)] == IF i = 0 THEN 0 ELSE a[i - 1] * base + digits[i]
      overflow == ~hex /\ a[Len(digits)] > LUA_MAXINTEGER + 1
  IN  IF digits = <<>> \/ overflow THEN {} ELSE {Wrap(IF neg THEN -a[Len(digits)] ELSE a[Len(digits)])}

l_str2int(neg, hex, digits) ==
  LET sign == IF neg THEN 1 ELSE 0
      a[i \in 0 .. Len(digits)] ==        \* -1 after an overflow
        IF i = 0 THEN 0
        ELSE IF hex THEN (a[i - 1] * 16 + digits[i]) % 2 ^ NBITS
        ELSE IF a[i - 1] = -1
                  \/ (a[i - 1] >= MAXBY10 /\ (a[i - 1] > MAXBY10 \/ digits[i] > MAXLASTD + sign)) THEN -1
        ELSE a[i - 1] * 10 + digits[i]
  IN  IF digits = <<>> \/ a[Len(digits)] = -1 THEN {}
      ELSE {l_castU2S(IF neg THEN (-a[Len(digits)]) % 2 ^ NBITS ELSE a[Len(digits)])}

b_str2int(neg, base, digits) ==
  LET n[i \in 0 .. Len(digits)] == IF i = 0 THEN 0 ELSE (n[i - 1] * base + digits[i]) % 2 ^ NBITS
  IN  IF digits = <<>> \/ \E i \in DOMAIN digits : digits[i] >= base THEN {}
      ELSE {l_castU2S(IF neg THEN (-n[Len(digits)]) % 2 ^ NBITS ELSE n[Len(digits)])}

(* What the digits denote; strtod rounds it.                               *)
ValueOf(neg, base, digits) ==
  LET d[i \in 0 .. Len(digits)] == IF i = 0 THEN 0 ELSE d[i - 1] * base + digits[i]
  IN  IF neg THEN -d[Len(digits)] ELSE d[Len(digits)]
luaO_str2num(neg, hex, digits) ==
  IF l_str2int(neg, hex, digits) # {} THEN {[t |-> "int", n |-> i] : i \in l_str2int(neg, hex, digits)}
  ELSE IF digits = <<>> THEN {} ELSE {[t |-> "flt", n |-> Rounded(2 * ValueOf(neg, IF hex THEN 16 ELSE 10, digits))]}

-----------------------------------------------------------------------------
(* Strings.  strcoll compares the runs between zeros, by an order in which *)
(* the characters of Ignored do not count.                                 *)

CONSTANT Ignored
Collated(s) == SelectSeq(s, LAMBDA c : c \notin Ignored)
strcoll(s, t) ==
  LET a == Collated(s)
      b == Collated(t)
      differ == {k \in 1 .. Len(a) : IF k > Len(b) THEN TRUE ELSE a[k] # b[k]}
      first == CHOOSE k \in differ : \A l \in differ : k <= l
  IN  IF differ = {} THEN IF Len(a) = Len(b) THEN 0 ELSE -1
      ELSE IF first > Len(b) THEN 1 ELSE IF b[first] < a[first] THEN 1 ELSE -1

FirstZero(s) == CHOOSE k \in 0 .. Len(s) : (IF k = Len(s) THEN TRUE ELSE s[k + 1] = 0) /\ \A l \in 1 .. k : s[l] # 0
Run(s, i) == LET rest == SubSeq(s, i, Len(s)) IN SubSeq(rest, 1, FirstZero(rest))

(* The runs before i1 and i2 are equal.                                    *)
l_strcmp(s1, s2) ==
  LET comparing[i1 \in 1 .. Len(s1) + 1, i2 \in 1 .. Len(s2) + 1] ==
        LET temp == strcoll(Run(s1, i1), Run(s2, i2))
            z1 == i1 + Len(Run(s1, i1))
            z2 == i2 + Len(Run(s2, i2))
        IN  IF temp # 0 THEN temp
            ELSE IF z2 > Len(s2) THEN IF z1 > Len(s1) THEN 0 ELSE 1
            ELSE IF z1 > Len(s1) THEN -1
            ELSE comparing[z1 + 1, z2 + 1]
  IN  comparing[1, 1]
=============================================================================
