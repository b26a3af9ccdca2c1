--------------------------- MODULE ScannerSemantics ---------------------------
(***************************************************************************)
(* What a text means, token by token, and how the scanner must find it.    *)
(***************************************************************************)
EXTENDS Scanner

Scanner0(pieces) == next(luaX_setinput(luaZ_init(pieces), 0))

(* All the tokens of the input, each with the line it ends on; ahead tells *)
(* at which tokens the parser looks at the next one first.                 *)
RECURSIVE AllTokens(_, _)
AllTokens(ls, ahead) ==
  LET r == luaX_next(ls)
      n == IF ahead # <<>> /\ Head(ahead) /\ ~Failed(r) /\ r.t # NoToken THEN luaX_lookahead(r) ELSE r
  IN  IF Failed(r) \/ r.t = NoToken THEN [ls |-> r, tokens |-> <<>>]
      ELSE LET rest == AllTokens(n, IF ahead = <<>> THEN <<>> ELSE Tail(ahead))
           IN  [ls |-> rest.ls, tokens |-> <<r.t>> \o rest.tokens]

(* The line breaks of a text: \n, \r, \n\r and \r\n are one each.          *)
RECURSIVE Breaks(_)
Breaks(s) ==
  IF s = <<>> THEN 0
  ELSE IF s[1] \notin {LF, CR} THEN Breaks(Tail(s))
  ELSE IF Len(s) > 1 /\ s[2] \in {LF, CR} \ {s[1]} THEN 1 + Breaks(Tail(Tail(s)))
  ELSE 1 + Breaks(Tail(s))

(* However the reader cuts a text, and wherever the parser looks ahead,    *)
(* the same tokens come of it, or the same error; no character is asked    *)
(* for after the end, and every line is counted, be it in a string, an     *)
(* escape or a comment.                                                    *)
CutsDoNotMatter(s) ==
  \E whole \in {AllTokens(Scanner0(<<s>>), <<>>)} :
    /\ ~whole.ls.z.past
    /\ ~Failed(whole.ls) => whole.ls.linenumber = 1 + Breaks(s)
    /\ \A n \in 1 .. Len(s) - 1 :
         \E cut \in {AllTokens(Scanner0(<<SubSeq(s, 1, n), SubSeq(s, n + 1, Len(s))>>), <<n = 1, TRUE, n = 2>>)} :
           /\ cut.ls.err = whole.ls.err /\ ~cut.ls.z.past
           /\ ~Failed(whole.ls) => cut.tokens = whole.tokens /\ cut.ls.linenumber = whole.ls.linenumber

(* Words with what they mean, apart from each other, are read as that; a   *)
(* word that means nothing is an error.  Equal strings are one.            *)
WordsAreRead(words, space) ==
  LET text == FlattenSeq([i \in DOMAIN words |-> words[i].text \o <<space>>])
      meant == FlattenSeq([i \in DOMAIN words |-> words[i].tokens])
      r == AllTokens(Scanner0(<<text>>), <<FALSE, TRUE, FALSE, TRUE>>)
  IN  IF \A i \in DOMAIN words : words[i].good
      THEN /\ ~Failed(r.ls) /\ r.tokens = meant
           /\ r.ls.h = {t.text : t \in {u \in ToSet(meant) : u.token \in {TK_NAME, TK_RESERVED, TK_STRING}}}
      ELSE Failed(r.ls)

(* UTF-8 read back.                                                        *)
RECURSIVE Decoded(_, _)
Decoded(x, rest) == IF rest = <<>> THEN x ELSE Decoded(64 * x + (Head(rest) % 64), Tail(rest))
Utf8IsRight(x) ==
  LET s == luaO_utf8esc(x)
      n == Len(s)
  IN  /\ IF n = 1 THEN s[1] = x /\ x < 128 ELSE Decoded(s[1] % 2 ^ (7 - n), Tail(s)) = x
      /\ n > 1 => s[1] \div 2 ^ (7 - n) = 2 ^ (n + 1) - 2 /\ \A i \in 2 .. n : s[i] \div 64 = 2
      /\ n = 2 => x >= 128
      /\ n > 2 => x >= 2 ^ (5 * n - 4)

(* lastline, the "line of last token 'consumed'" of llex.h:67, is the line *)
(* on which that token ended only if the parser did not look ahead.  If it *)
(* did, it is the line on which the token looked at ended (luaX_next after *)
(* luaX_lookahead), which may be a later one.                              *)
LastlineIsTold(s) ==
  LET consumed == luaX_next(Scanner0(<<s>>))
      plain == luaX_next(consumed)
      looked == luaX_lookahead(consumed)
  IN  Failed(consumed) \/ consumed.t = NoToken \/
        /\ Failed(plain) \/ plain.lastline = consumed.linenumber
        /\ Failed(looked) \/ luaX_next(looked).lastline = looked.linenumber
        /\ looked.linenumber >= consumed.linenumber

-----------------------------------------------------------------------------
(***************************************************************************)
(* Texts for the scanner: all short ones of the characters that matter,    *)
(* and words with the tokens they mean; characters of all sizes.           *)
(***************************************************************************)

Word(text, tokens) == [text |-> text, tokens |-> tokens, good |-> TRUE]
Broken(text) == [text |-> text, tokens |-> <<>>, good |-> FALSE]
Name_(s) == Word(s, <<Token(TK_NAME, s)>>)
(* Parts of a literal string and what they stand for.                      *)
Escapes == {<<<<98>>, <<98>>>>, <<<<92, 110>>, <<10>>>>, <<<<92, 120, 52, 49>>, <<65>>>>, <<<<92, 54, 53>>, <<65>>>>,
            <<<<92, 117, 123, 55, 70, 70, 125>>, <<223, 191>>>>, <<<<92, 117, 123, 48, 48, 48, 52, 49, 125>>, <<65>>>>,
            <<<<92, 122, 10, 13, 32>>, <<>>>>, <<<<92, 13, 10>>, <<10>>>>, <<<<92, 34>>, <<34>>>>, <<<<39>>, <<39>>>>}
BadEscapes == {<<92, 50, 53, 54>>, <<92, 120, 52, 103>>, <<92, 117, 123, 56, 48, 48, 48, 48, 48, 48, 48, 125>>,
               <<92, 117, 52>>, <<92, 113>>, <<10>>, <<92, 117, 123, 125>>}
Literal(parts) ==
  LET value == FlattenSeq([i \in DOMAIN parts |-> parts[i][2]])
  IN  Word(<<34>> \o FlattenSeq([i \in DOMAIN parts |-> parts[i][1]]) \o <<34>>, <<Token(TK_STRING, value)>>)
Literals == {Literal(p) : p \in UNION {[1 .. n -> Escapes] : n \in 0 .. 2}}
BadLiterals == {Broken(<<34, 98>> \o p \o <<98, 34>>) : p \in BadEscapes}
Words ==
  {Name_(<<97, 49>>), Word(<<105, 102>>, <<Token(TK_RESERVED, <<105, 102>>)>>),
   Word(<<51>>, <<Token(TK_INT, <<51>>)>>), Word(<<48, 120, 65, 101, 43>>, <<Token(TK_INT, <<48, 120, 65, 101>>), Token(43, <<>>)>>),
   Word(<<46, 53, 101, 43, 49>>, <<Token(TK_FLT, <<46, 53, 101, 43, 49>>)>>), Broken(<<51, 97, 122>>), Broken(<<49, 46, 46, 50>>),
   Word(<<60, 61, 61>>, <<Token(TK_LE, <<>>), Token(61, <<>>)>>), Word(<<46, 46, 46, 46>>, <<Token(TK_DOTS, <<>>), Token(46, <<>>)>>),
   Word(<<45, 62, 62>>, <<Token(45, <<>>), Token(TK_SHR, <<>>)>>),
   Word(<<91, 91, 10, 13, 13, 93, 93>>, <<Token(TK_STRING, <<10>>)>>),
   Word(<<91, 61, 91, 93, 93, 61, 61, 93, 61, 93>>, <<Token(TK_STRING, <<93, 93, 61, 61>>)>>), Broken(<<91, 61, 97>>),
   Word(<<91, 97>>, <<Token(91, <<>>), Token(TK_NAME, <<97>>)>>),
   Word(<<45, 45, 91, 61, 98, 10>>, <<>>), Word(<<45, 45, 91, 91, 10, 93, 93>>, <<>>), Word(<<45, 45, 97, 13>>, <<>>)}

Texts == UNION {[1 .. n -> {34, 92, 10, 13, 45, 91, 93, 122, 49, 117}] : n \in 1 .. 4}
Phrases == {<<w, space>> : w \in UNION {[1 .. n -> Words \cup BadLiterals] : n \in 1 .. 2}, space \in {32, 10}}
             \cup {<<<<w, Name_(<<97>>), w>>, 9>> : w \in Literals}
Characters == {0} \cup {2 ^ n + d : n \in 1 .. 30, d \in {-1, 0, 1}}
=============================================================================
