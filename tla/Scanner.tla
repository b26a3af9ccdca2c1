------------------------------- MODULE Scanner -------------------------------
(***************************************************************************)
(* The lexical analyser (llex.c).  A scanner ls reads characters from its  *)
(* stream one ahead: current is the next one.  What it saves of the token  *)
(* is in buff, whose room is size; h is the set of the strings it made.    *)
(* An error stops it: nothing changes any more once err is set.            *)
(*                                                                         *)
(* Characters are their codes; a token has a name or the code of its only  *)
(* character, and the text or string it stands for.                        *)
(***************************************************************************)
EXTENDS Streams

CONSTANTS LUA_MINBUFFER, MAX_SIZE, INT_MAX, UCHAR_MAX, UTF8LIMIT
ScannerConstants == {LUA_MINBUFFER, MAX_SIZE, INT_MAX, UCHAR_MAX, UTF8LIMIT} \subseteq Nat \ {0}

LF == 10
CR == 13
QUOTES == {34, 39}
BACKSLASH == 92
DOT == 46
MINUS == 45
EQUALS == 61
OPEN == 91
CLOSE == 93
Decimal == 48 .. 57
Hexa == Decimal \cup (65 .. 70) \cup (97 .. 102)
lisdigit(c) == c \in Decimal
lisxdigit(c) == c \in Hexa
lislalpha(c) == c \in (65 .. 90) \cup (97 .. 122) \cup {95}
lislalnum(c) == lislalpha(c) \/ lisdigit(c)
lisspace(c) == c \in (9 .. 13) \cup {32}
currIsNewline(ls) == ls.current \in {LF, CR}
luaO_hexavalue(c) == IF lisdigit(c) THEN c - 48 ELSE IF c < 97 THEN c - 55 ELSE c - 87

(* Reserved words: those of the texts of the model.                        *)
Reserved == {<<105, 102>>, <<100, 111>>}     \* if, do
(* Tokens of more than one character are above all characters.             *)
TK_IDIV == 256
TK_CONCAT == 257
TK_DOTS == 258
TK_EQ == 259
TK_GE == 260
TK_LE == 261
TK_NE == 262
TK_SHL == 263
TK_SHR == 264
TK_DBCOLON == 265
TK_EOS == 266
TK_FLT == 267
TK_INT == 268
TK_NAME == 269
TK_STRING == 270
TK_RESERVED == 271
Token(name, text) == [token |-> name, text |-> text]
NoToken == Token(TK_EOS, <<>>)

Failed(ls) == ls.err # ""
lexerror(ls, msg) == IF Failed(ls) THEN ls ELSE [ls EXCEPT !.err = msg]
next(ls) == LET g == zgetc(ls.z)
            IN  IF Failed(ls) THEN ls ELSE [ls EXCEPT !.z = g.z, !.current = g.c]
save(ls, c) ==
  IF Failed(ls) THEN ls
  ELSE IF Len(ls.buff) + 1 <= ls.size THEN [ls EXCEPT !.buff = Append(@, c)]
  ELSE IF ls.size >= MAX_SIZE \div 2 THEN lexerror(ls, "lexical element too long")
  ELSE [ls EXCEPT !.buff = Append(@, c), !.size = 2 * @]
save_and_next(ls) == next(save(ls, ls.current))
luaZ_resetbuffer(ls) == IF Failed(ls) THEN ls ELSE [ls EXCEPT !.buff = <<>>]
luaZ_buffremove(ls, n) == IF Failed(ls) THEN ls ELSE [ls EXCEPT !.buff = SubSeq(@, 1, Len(@) - n)]
luaX_newstring(ls, s) == IF Failed(ls) THEN ls ELSE [ls EXCEPT !.h = @ \cup {s}]

(* Only equal characters do not make one line break of two.                *)
Faultyinclinenumber(ls) ==
  LET n == next(ls) IN [n EXCEPT !.linenumber = @ + 1]

inclinenumber(ls) ==
  LET n == next(ls)
      m == IF currIsNewline(n) /\ n.current # ls.current THEN next(n) ELSE n
  IN  IF Failed(ls) THEN ls
      ELSE IF ls.linenumber + 1 >= INT_MAX THEN lexerror([m EXCEPT !.linenumber = @ + 1], "chunk has too many lines")
      ELSE [m EXCEPT !.linenumber = @ + 1]

luaX_setinput(z, firstchar) ==
  [z |-> z, current |-> firstchar, linenumber |-> 1, lastline |-> 1, buff |-> <<>>, size |-> LUA_MINBUFFER,
   t |-> Token(0, <<>>), lookahead |-> NoToken, h |-> {}, err |-> ""]

-----------------------------------------------------------------------------
(* Reading with a token gives the scanner and the token.                   *)
Reads(ls, token) == [ls |-> ls, token |-> token]

check_next2(ls, set) == IF ls.current \in set THEN save_and_next(ls) ELSE ls
RECURSIVE NumeralRest(_, _)
NumeralRest(ls, expo) ==
  IF Failed(ls) THEN ls
  ELSE IF ls.current \in expo THEN NumeralRest(check_next2(save_and_next(ls), {MINUS, 43}), expo)
  ELSE IF lisxdigit(ls.current) \/ ls.current = DOT THEN NumeralRest(save_and_next(ls), expo)
  ELSE ls

(* Whether a text is a number, and then one with a fraction or exponent.   *)
Mantissa(s, good) == s # <<>> /\ s # <<DOT>> /\ \E i \in 0 .. Len(s) :
  ToSet(SubSeq(s, 1, i)) \cup ToSet(SubSeq(s, i + 2, Len(s))) \subseteq good /\ (i < Len(s) => s[i + 1] = DOT)
Exponent(s) == LET digits == IF s # <<>> /\ s[1] \in {MINUS, 43} THEN Tail(s) ELSE s
               IN  digits # <<>> /\ ToSet(digits) \subseteq Decimal
Marked(s, expo) == {i \in DOMAIN s : s[i] \in expo}
IsNumeral(s, good, expo) ==
  Mantissa(s, good) \/ \E i \in Marked(s, expo) : Mantissa(SubSeq(s, 1, i - 1), good) /\ Exponent(SubSeq(s, i + 1, Len(s)))
Hexadecimal(s) == Len(s) >= 2 /\ s[1] = 48 /\ s[2] \in {120, 88}
luaO_str2num(s) ==
  LET hex == Hexadecimal(s)
      body == IF hex THEN SubSeq(s, 3, Len(s)) ELSE s
      expo == IF hex THEN {112, 80} ELSE {101, 69}
      good == IsNumeral(body, IF hex THEN Hexa ELSE Decimal, expo)
  IN  IF ~good THEN TK_EOS
      ELSE IF DOT \in ToSet(body) \/ Marked(body, expo) # {} THEN TK_FLT ELSE TK_INT

read_numeral(ls) ==
  LET first == save_and_next(ls)
      hex == ls.current = 48 /\ first.current \in {120, 88}
      rest == IF hex THEN NumeralRest(save_and_next(first), {112, 80}) ELSE NumeralRest(first, {101, 69})
      all == IF lislalpha(rest.current) THEN save_and_next(rest) ELSE rest
      kind == luaO_str2num(all.buff)
      done == save(all, 0)
  IN  IF kind = TK_EOS THEN Reads(lexerror(done, "malformed number"), NoToken)
      ELSE Reads(done, Token(kind, all.buff))

-----------------------------------------------------------------------------
(* Strings.                                                                *)

RECURSIVE skip_equals(_, _)
skip_equals(ls, n) == IF ls.current = EQUALS /\ ~Failed(ls) THEN skip_equals(save_and_next(ls), n + 1) ELSE [ls |-> ls, n |-> n]
skip_sep(ls) ==
  LET e == skip_equals(save_and_next(ls), 0)
  IN  [ls |-> e.ls, sep |-> IF e.ls.current = ls.current THEN e.n + 2 ELSE IF e.n = 0 THEN 1 ELSE 0]

(* A comment is not kept.                                                  *)
RECURSIVE LongBody(_, _, _)
LongBody(ls, sep, comment) ==
  LET s == skip_sep(ls)
      broken == inclinenumber(save(ls, LF))
  IN  CASE Failed(ls) -> ls
        [] ls.current = EOZ -> lexerror(ls, "unfinished long string")
        [] ls.current = CLOSE -> IF s.sep = sep THEN save_and_next(s.ls) ELSE LongBody(s.ls, sep, comment)
        [] currIsNewline(ls) -> LongBody(IF comment THEN luaZ_resetbuffer(broken) ELSE broken, sep, comment)
        [] OTHER -> LongBody(IF comment THEN next(ls) ELSE save_and_next(ls), sep, comment)
read_long_string(ls, sep, comment) ==
  LET opened == save_and_next(ls)
      body == LongBody(IF currIsNewline(opened) THEN inclinenumber(opened) ELSE opened, sep, comment)
      text == SubSeq(body.buff, sep + 1, Len(body.buff) - sep)
  IN  IF comment \/ Failed(body) THEN Reads(body, NoToken) ELSE Reads(luaX_newstring(body, text), Token(TK_STRING, text))

(* The character for the message is read though there is none.             *)
Faultyesccheck(ls, c, msg) == IF c THEN ls ELSE lexerror(save_and_next(ls), msg)

esccheck(ls, c, msg) ==
  IF c THEN ls ELSE lexerror(IF ls.current # EOZ THEN save_and_next(ls) ELSE ls, msg)

(* An escape gives the scanner and the value read; it has removed what it  *)
(* saved, up to the backslash.                                             *)
Value(ls, v) == [ls |-> ls, v |-> v]
gethexa(ls) == LET n == save_and_next(ls)
               IN  Value(esccheck(n, lisxdigit(n.current), "hexadecimal digit expected"), luaO_hexavalue(n.current))
readhexaesc(ls) ==
  LET a == gethexa(ls)
      b == gethexa(a.ls)
  IN  Value(luaZ_buffremove(b.ls, 2), 16 * a.v + b.v)

(* The digits after the first are not counted.                             *)
RECURSIVE FaultyMoreDigits(_, _, _)
FaultyMoreDigits(ls, r, i) ==
  LET n == save_and_next(ls)
      m == esccheck(n, r <= UTF8LIMIT \div 16, "UTF-8 value too large")
  IN  IF ~lisxdigit(n.current) THEN [ls |-> n, v |-> r, i |-> i]
      ELSE IF Failed(m) THEN [ls |-> m, v |-> r, i |-> i]
      ELSE FaultyMoreDigits(m, 16 * r + luaO_hexavalue(n.current), i)

RECURSIVE MoreDigits(_, _, _)
MoreDigits(ls, r, i) ==
  LET n == save_and_next(ls)
      m == esccheck(n, r <= UTF8LIMIT \div 16, "UTF-8 value too large")
  IN  IF ~lisxdigit(n.current) THEN [ls |-> n, v |-> r, i |-> i]
      ELSE IF Failed(m) THEN [ls |-> m, v |-> r, i |-> i]
      ELSE MoreDigits(m, 16 * r + luaO_hexavalue(n.current), i + 1)

readutf8esc(ls) ==
  LET u == save_and_next(ls)
      first == gethexa(esccheck(u, u.current = 123, "missing {"))
      r == MoreDigits(first.ls, first.v, 4)
  IN  Value(luaZ_buffremove(next(esccheck(r.ls, r.ls.current = 125, "missing }")), r.i), r.v)
(* UTF-8, at most 6 bytes.                                                 *)
RECURSIVE Continued(_, _)
Continued(x, mfb) == IF x <= mfb THEN <<x + (256 - 2 * (mfb + 1))>>
                     ELSE Append(Continued(x \div 64, mfb \div 2), 128 + (x % 64))
luaO_utf8esc(x) == IF x < 128 THEN <<x>> ELSE Append(Continued(x \div 64, 31), 128 + (x % 64))
utf8esc(ls) == LET r == readutf8esc(ls)
               IN  IF Failed(r.ls) THEN r.ls ELSE FoldLeft(save, r.ls, luaO_utf8esc(r.v))
RECURSIVE DecimalDigits(_, _, _)
DecimalDigits(ls, r, i) ==
  IF i < 3 /\ lisdigit(ls.current) THEN DecimalDigits(save_and_next(ls), 10 * r + ls.current - 48, i + 1)
  ELSE Value(luaZ_buffremove(esccheck(ls, r <= UCHAR_MAX, "decimal escape too large"), i), r)
readdecesc(ls) == DecimalDigits(ls, 0, 0)
RECURSIVE zap(_)
zap(ls) == IF Failed(ls) \/ ~lisspace(ls.current) THEN ls
           ELSE zap(IF currIsNewline(ls) THEN inclinenumber(ls) ELSE next(ls))

Simple == (97 :> 7) @@ (98 :> 8) @@ (102 :> 12) @@ (110 :> 10) @@ (114 :> 13) @@ (116 :> 9) @@ (118 :> 11)
          @@ (92 :> 92) @@ (34 :> 34) @@ (39 :> 39)
only_save(ls, c) == save(luaZ_buffremove(ls, 1), c)
read_save(ls, c) == only_save(next(ls), c)
Escape(ls) ==
  LET c == ls.current
      dec == readdecesc(esccheck(ls, lisdigit(c), "invalid escape sequence"))
  IN  CASE c \in DOMAIN Simple -> read_save(ls, Simple[c])
        [] c = 120 -> read_save(readhexaesc(ls).ls, readhexaesc(ls).v)
        [] c = 117 -> utf8esc(ls)
        [] c \in {LF, CR} -> only_save(inclinenumber(ls), LF)
        [] c = EOZ -> ls
        [] c = 122 -> zap(next(luaZ_buffremove(ls, 1)))
        [] OTHER -> only_save(dec.ls, dec.v)
RECURSIVE StringBody(_, _)
StringBody(ls, del) ==
  CASE Failed(ls) -> ls
    [] ls.current = del -> save_and_next(ls)
    [] ls.current = EOZ -> lexerror(ls, "unfinished string")
    [] currIsNewline(ls) -> lexerror(ls, "unfinished string")
    [] ls.current = BACKSLASH -> StringBody(Escape(save_and_next(ls)), del)
    [] OTHER -> StringBody(save_and_next(ls), del)
read_string(ls, del) ==
  LET body == StringBody(save_and_next(ls), del)
      text == SubSeq(body.buff, 2, Len(body.buff) - 1)
  IN  IF Failed(body) THEN Reads(body, NoToken) ELSE Reads(luaX_newstring(body, text), Token(TK_STRING, text))

-----------------------------------------------------------------------------
(* The next token.                                                         *)

RECURSIVE ShortComment(_)
ShortComment(ls) == IF currIsNewline(ls) \/ ls.current = EOZ THEN ls ELSE ShortComment(next(ls))
Comment(ls) ==
  LET s == skip_sep(ls)
      clean == luaZ_resetbuffer(s.ls)
  IN  IF ls.current # OPEN THEN ShortComment(ls)
      ELSE IF s.sep >= 2 THEN luaZ_resetbuffer(read_long_string(clean, s.sep, TRUE).ls)
      ELSE ShortComment(clean)

(* Operators: the tokens that begin with a character and another one.      *)
Longer == (61 :> {<<61, TK_EQ>>}) @@ (60 :> {<<61, TK_LE>>, <<60, TK_SHL>>}) @@ (62 :> {<<61, TK_GE>>, <<62, TK_SHR>>})
          @@ (47 :> {<<47, TK_IDIV>>}) @@ (126 :> {<<61, TK_NE>>}) @@ (58 :> {<<58, TK_DBCOLON>>})
Operator(ls) ==
  LET n == next(ls)
      longer == IF ls.current \in DOMAIN Longer THEN {l \in Longer[ls.current] : l[1] = n.current} ELSE {}
  IN  IF longer = {} THEN Reads(n, Token(ls.current, <<>>)) ELSE Reads(next(n), Token((CHOOSE l \in longer : TRUE)[2], <<>>))
Dots(ls) ==
  LET one == save_and_next(ls)
      two == next(one)
  IN  IF one.current = DOT
      THEN IF two.current = DOT THEN Reads(next(two), Token(TK_DOTS, <<>>)) ELSE Reads(two, Token(TK_CONCAT, <<>>))
      ELSE IF ~lisdigit(one.current) THEN Reads(one, Token(DOT, <<>>)) ELSE read_numeral(one)
RECURSIVE NameRest(_)
NameRest(ls) == IF lislalnum(ls.current) /\ ~Failed(ls) THEN NameRest(save_and_next(ls)) ELSE ls
Name(ls) ==
  LET n == NameRest(save_and_next(ls))
  IN  Reads(luaX_newstring(n, n.buff), Token(IF n.buff \in Reserved THEN TK_RESERVED ELSE TK_NAME, n.buff))
Bracket(ls) ==
  LET s == skip_sep(ls)
  IN  IF s.sep >= 2 THEN read_long_string(s.ls, s.sep, FALSE)
      ELSE IF s.sep = 0 THEN Reads(lexerror(s.ls, "invalid long string delimiter"), NoToken)
      ELSE Reads(s.ls, Token(OPEN, <<>>))

RECURSIVE Scan(_)
Scan(ls) ==
  LET c == ls.current
      n == next(ls)
  IN  CASE Failed(ls) \/ c = EOZ -> Reads(ls, NoToken)
        [] c \in {LF, CR} -> Scan(inclinenumber(ls))
        [] c \in {32, 12, 9, 11} -> Scan(n)
        [] c = MINUS -> IF n.current = MINUS THEN Scan(Comment(next(n))) ELSE Reads(n, Token(MINUS, <<>>))
        [] c = OPEN -> Bracket(ls)
        [] c \in QUOTES -> read_string(ls, c)
        [] c = DOT -> Dots(ls)
        [] lisdigit(c) -> read_numeral(ls)
        [] lislalpha(c) -> Name(ls)
        [] OTHER -> Operator(ls)
llex(ls) == Scan(luaZ_resetbuffer(ls))

luaX_next(ls) ==
  LET r == llex(ls)
  IN  IF ls.lookahead.token # TK_EOS
      THEN [ls EXCEPT !.lastline = ls.linenumber, !.t = ls.lookahead, !.lookahead = NoToken]
      ELSE [r.ls EXCEPT !.lastline = ls.linenumber, !.t = r.token]
luaX_lookahead(ls) == LET r == llex(ls) IN [r.ls EXCEPT !.lookahead = r.token]
=============================================================================
