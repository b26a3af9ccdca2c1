--------------------------- MODULE NumberSemantics ---------------------------
(***************************************************************************)
(* What conversions, comparisons and arithmetic mean: the values, exactly. *)
(***************************************************************************)
EXTENDS Numbers

(* The value of a number, in halves.                                       *)
Exactly(v) == IF ttisinteger(v) THEN 2 * v.n ELSE v.n
Denoted(v) == IF v.t = "str" THEN {Exactly(w) : w \in v.n} ELSE {Exactly(v)}

(* An integer and a float compare as the real numbers they are.            *)
ComparesExactly(l, r) ==
  LET x == Exactly(l)
      y == Exactly(r)
  IN  /\ LTnum(l, r) <=> luai_numlt(x, y)
      /\ LEnum(l, r) <=> luai_numle(x, y)
      /\ EqualNumbers(l, r) <=> x = y /\ x # NAN

Floored(a, b) ==
  LET r == a % Magnitude(b) IN IF b < 0 /\ r # 0 THEN r + b ELSE r

(* Quotients are floors and fit the modulus, which has the divisor's sign; *)
(* math.fmod's remainder has the dividend's; nothing leaves the integers   *)
(* but by wrapping around.                                                 *)
DividesExactly(m, n) ==
  /\ luaV_mod(m, n) = IF n = 0 THEN {} ELSE {Floored(m, n)}
  /\ luaV_idiv(m, n) = IF n = 0 THEN {} ELSE {Wrap(Quotient(m - Floored(m, n), n))}
  /\ \A q \in luaV_idiv(m, n), r \in luaV_mod(m, n) : Wrap(q * n + r) = m
  /\ \A r \in math_fmod(m, n) :
       Magnitude(r) < Magnitude(n) /\ (r = 0 \/ (r < 0) = (m < 0)) /\ (m - r) % Magnitude(n) = 0
  /\ luaV_idiv(m, n) \cup luaV_mod(m, n) \cup math_fmod(m, n) \subseteq LuaInteger
  /\ math_ult(m, n) <=> IF (m < 0) = (n < 0) THEN m < n ELSE n < 0
ModulusOfFloats(a, b) ==
  luaV_modf(a, b) =
    IF NAN \in {a, b} \/ a \in {INF, -INF} \/ b = 0 THEN NAN
    ELSE IF b \in {INF, -INF} THEN IF a = 0 \/ (a < 0) = (b < 0) THEN a ELSE b
    ELSE Rounded(Floored(a, b))

Bit(x, i) == IF i \in 0 .. NBITS - 1 THEN (l_castS2U(x) \div 2 ^ i) % 2 ELSE 0
ShiftsBits(x, y) ==
  \A i \in 0 .. NBITS - 1 : Bit(luaV_shiftl(x, y), i) = Bit(x, i - y) /\ Bit(luaV_shiftr(x, y), i) = Bit(x, i + y)

(* A rounded float is an integer if it fits one; else it stays a float.    *)
RoundsExactly(f) ==
  LET rounded(x) ==
        {IF f \notin {INF, -INF, NAN} /\ x \in LuaInteger THEN [t |-> "int", n |-> x]
         ELSE [t |-> "flt", n |-> IF f \in {INF, -INF, NAN} THEN f ELSE 2 * x]}
      fl == f \div 2
      ce == -((-f) \div 2)
  IN  /\ math_floor(f) = rounded(fl)
      /\ math_ceil(f) = rounded(ce)
      /\ math_modf(f) = rounded(IF f < 0 THEN ce ELSE fl)

(* A decimal numeral is the integer it denotes if there is one, else the   *)
(* float nearest to it; others wrap around.                                *)
KeepsItsValue(neg, digits) ==
  LET v == ValueOf(neg, 10, digits)
  IN  digits # <<>> =>
        /\ (\A i \in DOMAIN digits : digits[i] < 10) =>
             luaO_str2num(neg, FALSE, digits) =
               {IF v \in LuaInteger THEN [t |-> "int", n |-> v] ELSE [t |-> "flt", n |-> Rounded(2 * v)]}
        /\ luaO_str2num(neg, TRUE, digits) = {[t |-> "int", n |-> Wrap(ValueOf(neg, 16, digits))]}
        /\ \A base \in {2, 10, 16} :
             b_str2int(neg, base, digits) =
               IF \A i \in DOMAIN digits : digits[i] < base THEN {Wrap(ValueOf(neg, base, digits))} ELSE {}

(* Strings are totally ordered, by their runs between zeros; if all        *)
(* characters count, equal strings are the same.                           *)
OrdersStrings(s, t) ==
  LET before(x, y) == l_strcmp(x, y) <= 0
      cut(x) == Run(x, 1)
      rest(x) == SubSeq(x, Len(cut(x)) + 2, Len(x))
  IN  /\ l_strcmp(s, t) = -l_strcmp(t, s)
      /\ Ignored = {} => (l_strcmp(s, t) = 0 <=> s = t)
      /\ strcoll(cut(s), cut(t)) # 0 => l_strcmp(s, t) = strcoll(cut(s), cut(t))
      /\ cut(s) # s /\ cut(t) # t /\ strcoll(cut(s), cut(t)) = 0 => l_strcmp(s, t) = l_strcmp(rest(s), rest(t))
      /\ cut(s) = s /\ cut(t) # t /\ strcoll(s, cut(t)) = 0 => l_strcmp(s, t) = -1

-----------------------------------------------------------------------------
(***************************************************************************)
(* All integers and floats of the width, numerals of up to three digits,   *)
(* strings with and without zeros, and states of the random generator.     *)
(***************************************************************************)

Few == INSTANCE RandomNumbers WITH HALF <- 2, EXTRA <- 0, ROT1 <- 1, SHIFT <- 1, ROT2 <- 3, FIGS <- 3
Wide == INSTANCE RandomNumbers WITH HALF <- 8, EXTRA <- 0, ROT1 <- 3, SHIFT <- 5, ROT2 <- 11, FIGS <- 11
Wider == INSTANCE RandomNumbers WITH HALF <- 8, EXTRA <- 3, ROT1 <- 3, SHIFT <- 5, ROT2 <- 11, FIGS <- 7

Integers_ == {[t |-> "int", n |-> i] : i \in LuaInteger}
Values == Integers_ \cup {[t |-> "flt", n |-> f] : f \in LuaFloat}
Strings_ == UNION {[1 .. n -> 0 .. 2] : n \in 0 .. 3}
Numerals == [1 .. 1 -> 0 .. 15] \cup [1 .. 2 -> 0 .. 15] \cup [1 .. 3 -> {0, 1, 2, 9}] \cup {<<>>}
Intervals == {i \in (-8 .. 7) \X (-8 .. 7) : i[1] <= i[2]}
Words == {[h |-> h, l |-> l] : h \in {0, 255, 171, 264, 84}, l \in {0, 255, 90, 384, 1}}
FewWords == {[h |-> 0, l |-> 1], [h |-> 171, l |-> 90]}
Halved(w) == [h |-> w.h % 256, l |-> w.l % 256]

(* An operation gives its exact result, for every other operand.           *)
ValueIsExact(v) ==
  /\ \A r \in Values : ComparesExactly(v, r)
  /\ v.t = "int" => \A n \in LuaInteger : DividesExactly(v.n, n) /\ ShiftsBits(v.n, n)
  /\ v.t = "flt" => RoundsExactly(v.n) /\ \A b \in LuaFloat : ModulusOfFloats(v.n, b)
NumeralIsExact(digits) == \A negative \in BOOLEAN : KeepsItsValue(negative, digits)
StringIsOrdered(s) == \A r \in Strings_ : OrdersStrings(s, r)

(* Both forms of the generator agree, whatever its state.                  *)
GeneratorsAgree(w) ==
  \A w2 \in Words, w3 \in FewWords :
    LET state == <<w, w2, w3, w3>>
    IN  Wider!GenerateTheSame(state) /\ Wide!GenerateTheSame([i \in 1 .. 4 |-> Halved(state[i])])
=============================================================================
