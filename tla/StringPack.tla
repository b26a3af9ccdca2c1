------------------------------ MODULE StringPack ------------------------------
(***************************************************************************)
(* Positions in strings and string.pack, packsize, unpack (lstrlib.c).     *)
(*                                                                         *)
(* A byte has NB bits and an integer SZINT bytes; Sizeof has the sizes of  *)
(* the other C types by option, and at "!" the native alignment.  A format *)
(* is a sequence of characters.  A value is [t |-> "int", n |-> ...] or,   *)
(* with its bytes, [t |-> "str" | "flt", s |-> ...].                       *)
(***************************************************************************)
EXTENDS Integers, SequencesExt, FiniteSetsExt

CONSTANTS NB, SZINT, MAXINTSIZE, MAX_SIZE, Sizeof, NativeLittle

StringPackConstants ==
  /\ {NB, SZINT, MAXINTSIZE, MAX_SIZE} \subseteq Nat \ {0} /\ SZINT <= MAXINTSIZE /\ NativeLittle \in BOOLEAN
  /\ DOMAIN Sizeof = {"b", "h", "i", "l", "j", "T", "f", "n", "d", "!"} /\ Sizeof["j"] = SZINT

Bits(size) == 2 ^ (NB * size)
LuaInteger == -(Bits(SZINT) \div 2) .. Bits(SZINT) \div 2 - 1
l_castU2S(u) == IF u \in LuaInteger THEN u ELSE u - Bits(SZINT)
MC == Bits(1) - 1
Zeros(n) == [i \in 1 .. n |-> 0]

posrelatI(pos, len) == IF pos > 0 THEN pos ELSE IF pos = 0 \/ pos < -len THEN 1 ELSE len + pos + 1
getendpos(pos, len) == IF pos > len THEN len ELSE IF pos >= 0 THEN pos ELSE IF pos < -len THEN 0 ELSE len + pos + 1
str_sub(s, i, j) == LET start == posrelatI(i, Len(s))
                        end == getendpos(j, Len(s))
                    IN  IF start <= end THEN SubSeq(s, start, end) ELSE <<>>

-----------------------------------------------------------------------------
Digits == ("0" :> 0) @@ ("1" :> 1) @@ ("2" :> 2) @@ ("3" :> 3) @@ ("4" :> 4) @@ ("5" :> 5) @@ ("6" :> 6) @@ ("7" :> 7) @@ ("8" :> 8) @@ ("9" :> 9)
digit(fmt, p) == p <= Len(fmt) /\ fmt[p] \in DOMAIN Digits
Missing == -1
RECURSIVE Numeral(_, _, _)
Numeral(fmt, p, a) == IF digit(fmt, p) /\ a <= (MAX_SIZE - 9) \div 10 THEN Numeral(fmt, p + 1, a * 10 + Digits[fmt[p]]) ELSE [v |-> a, p |-> p]
getnum(fmt, p, df) == IF digit(fmt, p) THEN Numeral(fmt, p + 1, Digits[fmt[p]]) ELSE [v |-> df, p |-> p]

Header == [islittle |-> NativeLittle, maxalign |-> 1]
Option(h, p, k, size) == [h |-> h, p |-> p, k |-> k, size |-> size, pad |-> 0, error |-> ""]
Error(o, e) == [o EXCEPT !.error = e]
getnumlimit(h, fmt, p, k, df) ==
  LET sz == getnum(fmt, p, df)
      o == Option(h, sz.p, k, sz.v)
  IN  IF sz.v \notin 1 .. MAXINTSIZE THEN Error(o, "integral size out of limits") ELSE o

getoption(h, fmt, p) ==
  LET opt == fmt[p]
      sized(k) == Option(h, p + 1, k, Sizeof[CASE opt = "B" -> "b" [] opt = "H" -> "h" [] opt = "L" -> "l" [] opt = "J" -> "j" [] OTHER -> opt])
      nop(g) == Option(g, p + 1, "Knop", 0)
      chars == getnum(fmt, p + 1, Missing)
      max == getnumlimit(h, fmt, p + 1, "Knop", Sizeof["!"])
  IN  CASE opt \in {"b", "h", "l", "j"} -> sized("Kint")
        [] opt \in {"B", "H", "L", "J", "T"} -> sized("Kuint")
        [] opt \in {"f", "n", "d"} -> sized("Kfloat")
        [] opt = "i" -> getnumlimit(h, fmt, p + 1, "Kint", Sizeof["i"])
        [] opt = "I" -> getnumlimit(h, fmt, p + 1, "Kuint", Sizeof["i"])
        [] opt = "s" -> getnumlimit(h, fmt, p + 1, "Kstring", Sizeof["T"])
        [] opt = "c" -> IF chars.v = Missing THEN Error(nop(h), "missing size") ELSE Option(h, chars.p, "Kchar", chars.v)
        [] opt = "z" -> Option(h, p + 1, "Kzstr", 0)
        [] opt = "x" -> Option(h, p + 1, "Kpadding", 1)
        [] opt = "X" -> Option(h, p + 1, "Kpaddalign", 0)
        [] opt = " " -> nop(h)
        [] opt = "<" -> nop([h EXCEPT !.islittle = TRUE])
        [] opt = ">" -> nop([h EXCEPT !.islittle = FALSE])
        [] opt = "=" -> nop([h EXCEPT !.islittle = NativeLittle])
        [] opt = "!" -> [max EXCEPT !.h.maxalign = max.size, !.size = 0]
        [] OTHER -> Error(nop(h), "invalid format option")

ispow2(n) == \E e \in 0 .. n : n = 2 ^ e
(* What follows is aligned as if the string began here.                    *)
FaultyPadding(total, align) == align - 1

Padding(total, align) == (align - (total % align)) % align

getdetails(h, total, fmt, p) ==
  LET o == getoption(h, fmt, p)
      following == getoption(o.h, fmt, o.p)
      aligner == o.k = "Kpaddalign"
      align == IF aligner THEN following.size ELSE o.size
      used == IF align > o.h.maxalign THEN o.h.maxalign ELSE align
      next == IF aligner THEN [o EXCEPT !.p = following.p] ELSE o
  IN  IF o.error # "" THEN o
      ELSE IF aligner /\ o.p > Len(fmt) THEN Error(o, "invalid next option for option 'X'")
      ELSE IF aligner /\ following.error # "" THEN following
      ELSE IF aligner /\ (following.k = "Kchar" \/ align = 0) THEN Error(o, "invalid next option for option 'X'")
      ELSE IF align <= 1 \/ o.k = "Kchar" THEN next
      ELSE IF ~ispow2(used) THEN Error(o, "format asks for alignment not power of 2")
      ELSE [next EXCEPT !.pad = Padding(total, used)]

(* The bytes beyond an integer's own are always zero.                      *)
Faultypackint(n, little, size) ==
  LET bytes == [i \in 1 .. size |-> IF i <= SZINT THEN ((n % Bits(SZINT)) \div Bits(i - 1)) % Bits(1) ELSE 0]
  IN  IF little THEN bytes ELSE Reverse(bytes)

packint(n, little, size) ==
  LET bytes == [i \in 1 .. size |-> IF i <= SZINT THEN ((n % Bits(SZINT)) \div Bits(i - 1)) % Bits(1) ELSE IF n < 0 THEN MC ELSE 0]
  IN  IF little THEN bytes ELSE Reverse(bytes)

copywithendian(bytes, little) == IF little = NativeLittle THEN bytes ELSE Reverse(bytes)

(* The bytes of argument v for option o, or <<>> and what is wrong.        *)
Packed(o, v) ==
  LET wrong(e) == [bytes |-> <<>>, error |-> e]
      right(b) == [bytes |-> b, error |-> ""]
      unsigned == v.n % Bits(SZINT)
  IN  CASE o.k = "Kint" -> IF o.size < SZINT /\ ~(-(Bits(o.size) \div 2) <= v.n /\ v.n < Bits(o.size) \div 2) THEN wrong("integer overflow")
                           ELSE right(packint(v.n, o.h.islittle, o.size))
        [] o.k = "Kuint" -> IF o.size < SZINT /\ unsigned >= Bits(o.size) THEN wrong("unsigned overflow")
                            ELSE right(packint(unsigned, o.h.islittle, o.size))
        [] o.k = "Kfloat" -> right(copywithendian(v.s, o.h.islittle))
        [] o.k = "Kchar" -> IF Len(v.s) > o.size THEN wrong("string longer than given size") ELSE right(v.s \o Zeros(o.size - Len(v.s)))
        [] o.k = "Kstring" -> IF o.size < SZINT /\ Len(v.s) >= Bits(o.size) THEN wrong("string length does not fit")
                              ELSE right(packint(Len(v.s), o.h.islittle, o.size) \o v.s)
        [] o.k = "Kzstr" -> IF 0 \in ToSet(v.s) THEN wrong("string contains zeros") ELSE right(Append(v.s, 0))
Takes(k) == k \notin {"Kpadding", "Kpaddalign", "Knop"}

Result(bytes, error) == [bytes |-> bytes, error |-> error]
RECURSIVE Pack(_, _, _, _, _)
Pack(h, fmt, p, args, out) ==
  LET o == getdetails(h, Len(out), fmt, p)
      padded == out \o Zeros(o.pad)
      item == Packed(o, args[1])
  IN  IF p > Len(fmt) THEN Result(out, "")
      ELSE IF o.error # "" THEN Result(out, o.error)
      ELSE IF o.size + o.pad > MAX_SIZE - Len(out) THEN Result(out, "result too long")
      ELSE IF ~Takes(o.k) THEN Pack(o.h, fmt, o.p, args, padded \o IF o.k = "Kpadding" THEN <<0>> ELSE <<>>)
      ELSE IF args = <<>> THEN Result(out, "argument expected")
      ELSE IF item.error # "" THEN Result(out, item.error)
      ELSE Pack(o.h, fmt, o.p, Tail(args), padded \o item.bytes)
str_pack(fmt, args) == Pack(Header, fmt, 1, args, <<>>)

RECURSIVE Size(_, _, _, _)
Size(h, fmt, p, total) ==
  LET o == getdetails(h, total, fmt, p)
  IN  IF p > Len(fmt) THEN total
      ELSE IF o.error # "" \/ o.k \in {"Kstring", "Kzstr"} \/ total > Bits(SZINT) \div 2 - 1 - o.size - o.pad THEN Missing
      ELSE Size(o.h, fmt, o.p, total + o.size + o.pad)
str_packsize(fmt) == Size(Header, fmt, 1, 0)

(* The bytes that do not fit an integer are dropped unseen.                *)
Faultyunpackint(bytes, little, size, issigned) ==
  LET At(i) == bytes[IF little THEN i ELSE size + 1 - i]
      limit == IF size <= SZINT THEN size ELSE SZINT
      res == FoldLeft(LAMBDA r, i : r * Bits(1) + At(i), 0, Reverse([i \in 1 .. limit |-> i]))
  IN  <<l_castU2S(res)>>

(* One integer, or none when the bytes do not fit one.                     *)
unpackint(bytes, little, size, issigned) ==
  LET At(i) == bytes[IF little THEN i ELSE size + 1 - i]
      limit == IF size <= SZINT THEN size ELSE SZINT
      res == FoldLeft(LAMBDA r, i : r * Bits(1) + At(i), 0, Reverse([i \in 1 .. limit |-> i]))
      sign == Bits(size) \div 2
      flipped == IF res >= sign THEN res - sign ELSE res + sign
      rest == IF ~issigned \/ l_castU2S(res) >= 0 THEN 0 ELSE MC
  IN  IF size < SZINT /\ issigned THEN <<l_castU2S((flipped - sign) % Bits(SZINT))>>
      ELSE IF \E i \in limit + 1 .. size : At(i) # rest THEN <<>>
      ELSE <<l_castU2S(res)>>

(* The value at pos of data (from 0) for option o and where it ends.       *)
Unpacked(o, data, pos) ==
  LET wrong(e) == [v |-> <<>>, pos |-> pos, error |-> e]
      gives(v, to) == [v |-> <<v>>, pos |-> to, error |-> ""]
      bytes == SubSeq(data, pos + 1, pos + o.size)
      int == unpackint(bytes, o.h.islittle, o.size, o.k = "Kint")
      len == int[1] % Bits(SZINT)
  IN  CASE o.k \in {"Kint", "Kuint"} -> IF int = <<>> THEN wrong("integer does not fit") ELSE gives([t |-> "int", n |-> int[1]], pos + o.size)
        [] o.k = "Kfloat" -> gives([t |-> "flt", s |-> copywithendian(bytes, o.h.islittle)], pos + o.size)
        [] o.k = "Kchar" -> gives([t |-> "str", s |-> bytes], pos + o.size)
        [] o.k = "Kstring" -> IF int = <<>> THEN wrong("integer does not fit")
                              ELSE IF len > Len(data) - pos - o.size THEN wrong("data string too short")
                              ELSE gives([t |-> "str", s |-> SubSeq(data, pos + o.size + 1, pos + o.size + len)], pos + o.size + len)
        [] o.k = "Kzstr" -> IF 0 \notin ToSet(SubSeq(data, pos + 1, Len(data))) THEN wrong("unfinished string")
                            ELSE LET l == Min({k \in 0 .. Len(data) - pos - 1 : data[pos + k + 1] = 0})
                                 IN  gives([t |-> "str", s |-> SubSeq(data, pos + 1, pos + l)], pos + l + 1)
RECURSIVE Unpack(_, _, _, _, _, _)
Unpack(h, fmt, p, data, pos, values) ==
  LET o == getdetails(h, pos, fmt, p)
      item == Unpacked(o, data, pos + o.pad)
      Stop(e) == [values |-> values, pos |-> pos + 1, error |-> e]
  IN  IF p > Len(fmt) THEN Stop("")
      ELSE IF o.error # "" THEN Stop(o.error)
      ELSE IF o.pad + o.size > Len(data) - pos THEN Stop("data string too short")
      ELSE IF ~Takes(o.k) THEN Unpack(o.h, fmt, o.p, data, pos + o.pad + o.size, values)
      ELSE IF item.error # "" THEN Stop(item.error)
      ELSE Unpack(o.h, fmt, o.p, data, item.pos, values \o item.v)
str_unpack(fmt, data, i) ==
  LET pos == posrelatI(i, Len(data)) - 1
  IN  IF pos > Len(data) THEN [values |-> <<>>, pos |-> 1, error |-> "initial position out of string"]
      ELSE Unpack(Header, fmt, 1, data, pos, <<>>)

-----------------------------------------------------------------------------
(* What the formats of string.pack mean.  A format is a sequence of items: *)
(* its text, its kind, the size it names and the value it is given.        *)

Aligned(it) == it.kind \in {"int", "uint", "flt", "string", "alignto"}
Variable(it) == it.kind \in {"string", "zstr"}
HasValue(it) == it.kind \in {"int", "uint", "flt", "char", "string", "zstr"}

(* The digits of a number, least significant first.                        *)
DigitsOf(x, size) == [i \in 1 .. size |-> (x \div Bits(i - 1)) % Bits(1)]
Ordered(bytes, little) == IF little THEN bytes ELSE Reverse(bytes)
Fits(it) ==
  LET n == it.v.n
      len == Len(it.v.s)
  IN  CASE it.kind = "int" -> -(Bits(it.size) \div 2) <= n /\ n < Bits(it.size) \div 2
        [] it.kind = "uint" -> n % Bits(SZINT) < Bits(it.size)
        [] it.kind = "string" -> len < Bits(it.size)
        [] it.kind = "char" -> len <= it.size
        [] it.kind = "zstr" -> \A i \in 1 .. len : it.v.s[i] # 0
        [] OTHER -> TRUE
Content(it, little) ==
  CASE it.kind = "int" -> Ordered(DigitsOf(it.v.n % Bits(it.size), it.size), little)
    [] it.kind = "uint" -> Ordered(DigitsOf(it.v.n % Bits(SZINT), it.size), little)
    [] it.kind = "flt" -> Ordered(it.v.s, little = NativeLittle)
    [] it.kind = "char" -> it.v.s \o Zeros(it.size - Len(it.v.s))
    [] it.kind = "string" -> Ordered(DigitsOf(Len(it.v.s), it.size), little) \o it.v.s
    [] it.kind = "zstr" -> it.v.s \o <<0>>
    [] it.kind = "pad" -> <<0>>
    [] OTHER -> <<>>

Nothing == [bytes |-> <<>>, little |-> NativeLittle, max |-> 1, values |-> <<>>, legal |-> TRUE, starts |-> <<>>]
(* An item begins at the next multiple of its alignment.                   *)
Laid(m, it) ==
  LET align == IF Aligned(it) THEN Min({it.size, m.max}) ELSE 1
      start == CHOOSE i \in Len(m.bytes) .. Len(m.bytes) + align - 1 : i % align = 0
      content == Content(it, m.little)
      value == IF it.kind = "char" THEN [it.v EXCEPT !.s = content] ELSE it.v
  IN  IF ~m.legal \/ align \notin {1, 2, 4, 8, 16} \/ ~Fits(it) THEN [m EXCEPT !.legal = FALSE]
      ELSE [m EXCEPT !.bytes = @ \o Zeros(start - Len(@)) \o content,
                     !.values = IF HasValue(it) THEN Append(@, value) ELSE @,
                     !.little = IF it.kind = "little" THEN TRUE ELSE IF it.kind = "big" THEN FALSE ELSE @,
                     !.max = IF it.kind = "max" THEN it.size ELSE @]
Format(items) == FlattenSeq([i \in DOMAIN items |-> items[i].text])
Arguments(items) == LET given == SelectSeq(items, HasValue) IN [i \in DOMAIN given |-> given[i].v]

(* A pack is rejected exactly when a value does not fit or an alignment is *)
(* no power of 2; else it has the bytes the format means, packsize tells   *)
(* their number, and unpacking gives every value back and ends at the end, *)
(* and refuses a string that was cut (str_pack, str_packsize, str_unpack). *)
PacksWhatItMeans(items) ==
  \E m \in {FoldLeft(Laid, Nothing, items)} : \E packed \in {str_pack(Format(items), Arguments(items))} :
    IF ~m.legal \/ Len(m.bytes) > MAX_SIZE THEN packed.error # ""
    ELSE /\ packed = Result(m.bytes, "")
         /\ str_packsize(Format(items)) = IF \E i \in DOMAIN items : Variable(items[i]) THEN Missing ELSE Len(m.bytes)
         /\ str_unpack(Format(items), m.bytes, 1) = [values |-> m.values, pos |-> Len(m.bytes) + 1, error |-> ""]
         /\ m.bytes # <<>> => str_unpack(Format(items), Front(m.bytes), 1).error # ""

(* The bytes of an integer of any size and order give the integer they     *)
(* mean, and none when that is no Lua integer (unpackint).                 *)
BytesMeanInteger(bytes) ==
  LET size == Len(bytes)
      u == FoldRight(LAMBDA d, acc : d + Bits(1) * acc, bytes, 0)
      s == IF u >= Bits(size) \div 2 THEN u - Bits(size) ELSE u
  IN  \A little \in BOOLEAN :
        \E stored \in {Ordered(bytes, little)} :
          /\ unpackint(stored, little, size, TRUE) = IF s \in LuaInteger THEN <<s>> ELSE <<>>
          /\ unpackint(stored, little, size, FALSE) = IF u < Bits(SZINT) THEN <<l_castU2S(u)>> ELSE <<>>

(* A slice has exactly the positions between its bounds, wherever they     *)
(* are, counted from either end (posrelatI, getendpos, str_sub).           *)
SlicesString(s, i, j) ==
  LET From(p) == IF p < 0 THEN Len(s) + 1 + p ELSE p
  IN  str_sub(s, i, j) = LET at == SetToSortSeq({k \in DOMAIN s : From(i) <= k /\ k <= From(j)}, <) IN [k \in DOMAIN at |-> s[at[k]]]

-----------------------------------------------------------------------------
(* Options of every kind and size with values that fit and that do not,    *)
(* after every two options of byte order and alignment.                    *)

Item(text, kind, size, n, s) ==
  [text |-> text, kind |-> kind, size |-> size,
   v |-> CASE kind \in {"int", "uint"} -> [t |-> "int", n |-> n]
           [] kind = "flt" -> [t |-> "flt", s |-> s]
           [] OTHER -> [t |-> "str", s |-> s]]
Integral(text, kind, size, n) == Item(text, kind, size, n, <<>>)
Text(text, kind, size, s) == Item(text, kind, size, 0, s)

Items ==
  {Integral(<<"i", d[1]>>, "int", d[2], n) : d \in {<<"1", 1>>, <<"2", 2>>, <<"3", 3>>, <<"4", 4>>}, n \in {-32, -5, -4, -1, 0, 3, 4, 31}}
    \cup {Integral(<<"I", d[1]>>, "uint", d[2], n) : d \in {<<"1", 1>>, <<"3", 3>>, <<"4", 4>>}, n \in {-32, -1, 7, 8, 31}}
    \cup {Integral(<<"b">>, "int", 1, 3), Integral(<<"J">>, "uint", 2, -2), Integral(<<"l">>, "int", 2, -6),
          Text(<<"f">>, "flt", 2, <<1, 2>>), Text(<<"d">>, "flt", 4, <<1, 2, 3, 4>>),
          Text(<<"c", "0">>, "char", 0, <<>>), Text(<<"c", "3">>, "char", 3, <<5, 0>>), Text(<<"c", "1", "0">>, "char", 10, <<5>>),
          Text(<<"c", "2">>, "char", 2, <<1, 1, 1>>), Text(<<"c", "2", "9">>, "char", 29, <<1, 1, 1>>),
          Text(<<"s", "1">>, "string", 1, <<7, 0, 7>>), Text(<<"s">>, "string", 2, <<1>>), Text(<<"s", "4">>, "string", 4, <<1>>),
          Text(<<"s", "1">>, "string", 1, Zeros(8)), Text(<<"z">>, "zstr", 0, <<2, 1>>), Text(<<"z">>, "zstr", 0, <<2, 0>>),
          Text(<<"x">>, "pad", 0, <<>>), Text(<<"X", "i", "2">>, "alignto", 2, <<>>), Text(<<"X", "d">>, "alignto", 4, <<>>),
          Text(<<" ">>, "nop", 0, <<>>)}
Config ==
  {Text(<<"<">>, "little", 0, <<>>), Text(<<">">>, "big", 0, <<>>), Text(<<"=">>, IF NativeLittle THEN "little" ELSE "big", 0, <<>>),
   Text(<<"!">>, "max", 4, <<>>), Text(<<"!", "2">>, "max", 2, <<>>), Text(<<"!", "3">>, "max", 3, <<>>)}
ByteStrings == UNION {[1 .. n -> 0 .. 7] : n \in 1 .. 4}

FormatPacks(config) == \A x, y \in Items : PacksWhatItMeans(config \o <<x, y, x>>)
=============================================================================
