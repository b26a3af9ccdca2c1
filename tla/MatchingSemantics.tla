--------------------------- MODULE MatchingSemantics ---------------------------
(***************************************************************************)
(* What a pattern means.  A pattern is a sequence of items; from a position*)
(* of the subject each item can go on in several ways, in an order of      *)
(* preference, and the match is the first way through all of them.         *)
(*                                                                         *)
(* An item is <<"one", c, suffix>> for a character c or <<"set", negated,  *)
(* ranges, suffix>>, <<"class", c, suffix>>, <<"any", suffix>>, <<"(">>,   *)
(* <<")">>, <<"()">>, <<"back", d>>, <<"balance", b, e>>,                  *)
(* <<"frontier", negated, ranges>> or <<"$">>.                             *)
(***************************************************************************)
EXTENDS Matching

(* The text of a pattern; a range of one character is the character.       *)
Flat(ss) == FoldLeft(LAMBDA t, x : t \o x, <<>>, ss)
SetText(negated, ranges) ==
  <<"[">> \o (IF negated THEN <<"^">> ELSE <<>>)
          \o Flat([i \in DOMAIN ranges |-> IF ranges[i][1] = ranges[i][2] THEN <<ranges[i][1]>>
                                           ELSE <<ranges[i][1], "-", ranges[i][2]>>]) \o <<"]">>
ItemText(t) ==
  CASE t[1] = "one" -> <<t[2]>> \o t[3]
    [] t[1] = "set" -> SetText(t[2], t[3]) \o t[4]
    [] t[1] = "class" -> <<"%", t[2]>> \o t[3]
    [] t[1] = "any" -> <<".">> \o t[2]
    [] t[1] = "()" -> <<"(", ")">>
    [] t[1] = "back" -> <<"%", t[2]>>
    [] t[1] = "balance" -> <<"%", "b", t[2], t[3]>>
    [] t[1] = "frontier" -> <<"%", "f">> \o SetText(t[2], t[3])
    [] OTHER -> <<t[1]>>
PatternText(items) == Flat([i \in DOMAIN items |-> ItemText(items[i])])

Member(c, negated, ranges) ==
  negated # \E r \in Range(ranges) : Order[c] \in Order[r[1]] .. Order[r[2]]
Single(t) == t[1] \in {"one", "set", "class", "any"}
Suffix(t) == Last(t)
Accepts(t, c) ==
  CASE t[1] = "one" -> c = t[2]
    [] t[1] = "set" -> Member(c, t[2], t[3])
    [] t[1] = "class" -> match_class(c, t[2])
    [] t[1] = "any" -> TRUE

(* How often an item can be repeated from a position, and the numbers of   *)
(* repetitions in the order they are tried.                                *)
Most(t, src, s) ==
  Max({n \in 0 .. Len(src) + 1 - s : \A i \in s .. s + n - 1 : Accepts(t, src[i])})
Counts(t, most) ==
  CASE Suffix(t) = <<>> -> IF most > 0 THEN <<1>> ELSE <<>>
    [] Suffix(t) = <<"?">> -> IF most > 0 THEN <<1, 0>> ELSE <<0>>
    [] Suffix(t) = <<"*">> -> [i \in 1 .. most + 1 |-> most + 1 - i]
    [] Suffix(t) = <<"+">> -> [i \in 1 .. most |-> most + 1 - i]
    [] Suffix(t) = <<"-">> -> [i \in 1 .. most + 1 |-> i - 1]

(* The ends of a balanced text, at most one.                               *)
Occurrences(src, c, i, j) == Cardinality({k \in i .. j : src[k] = c})
BalancedEnds(src, s, b, e) ==
  LET level(j) == IF b = e THEN IF j = s THEN 1 ELSE 1 - Occurrences(src, e, s + 1, j)
                  ELSE Occurrences(src, b, s, j) - Occurrences(src, e, s, j)
      ends == {j \in s + 1 .. Len(src) : level(j) = 0}
  IN  IF At(src, s) # b \/ ends = {} THEN <<>> ELSE <<Min(ends)>>

Way(s, caps) == [s |-> s, caps |-> caps, err |-> "none"]
Error(what) == <<[s |-> NULL, caps |-> <<>>, err |-> what]>>
Open(caps) == {l \in DOMAIN caps : caps[l].len = CAP_UNFINISHED}

RECURSIVE Ways(_, _, _, _, _)
Ways(items, i, src, s, caps) ==
  LET t == items[i]
      next(end, cs) == Ways(items, i + 1, src, end, cs)
      counts == Counts(t, Most(t, src, s))
      ends == BalancedEnds(src, s, t[2], t[3])
      l == DigitValue(t[2])
      text == Slice(src, caps[l].init, caps[l].len)
      capture(len) == IF Len(caps) >= LUA_MAXCAPTURES THEN Error("too many captures")
                      ELSE next(s, Append(caps, [init |-> s, len |-> len]))
  IN  IF i > Len(items) THEN <<Way(s, caps)>>
      ELSE CASE Single(t) -> Flat([n \in DOMAIN counts |-> next(s + counts[n], caps)])
             [] t[1] = "(" -> capture(CAP_UNFINISHED)
             [] t[1] = "()" -> capture(CAP_POSITION)
             [] t[1] = ")" -> IF Open(caps) = {} THEN Error("invalid capture")
                              ELSE next(s, [caps EXCEPT ![Max(Open(caps))].len = s - caps[Max(Open(caps))].init])
             [] t[1] = "back" ->
                  IF l \notin DOMAIN caps \/ l \in Open(caps) THEN Error("invalid capture")
                  ELSE IF caps[l].len \in 0 .. Len(src) + 1 - s /\ text = Slice(src, s, caps[l].len)
                    THEN next(s + caps[l].len, caps)
                  ELSE <<>>
             [] t[1] = "balance" -> IF ends = <<>> THEN <<>> ELSE next(ends[1] + 1, caps)
             [] t[1] = "frontier" ->
                  IF Member(At(src, s), t[2], t[3]) /\ ~Member(At(src, s - 1), t[2], t[3]) THEN next(s, caps) ELSE <<>>
             [] t[1] = "$" ->
                  IF i = Len(items) THEN IF s = Len(src) + 1 THEN next(s, caps) ELSE <<>>
                  ELSE IF At(src, s) = "$" THEN next(s + 1, caps) ELSE <<>>

(* The first match from the given position on, counted from the end if     *)
(* negative.                                                               *)
MeansAt(items, src, s) ==
  LET ways == Ways(items, 1, src, s, <<>>) IN IF ways = <<>> THEN Way(NULL, <<>>) ELSE ways[1]
Means(items, src, anchored, pos) ==
  LET from == Max({1, IF pos < 0 THEN Len(src) + 1 + pos ELSE pos})
      starts == {s \in from .. Len(src) + 1 : (anchored => s = from) /\ MeansAt(items, src, s) # Way(NULL, <<>>)}
  IN  IF starts = {} THEN [at |-> 0, way |-> Way(NULL, <<>>)]
      ELSE [at |-> Min(starts), way |-> MeansAt(items, src, Min(starts))]

Captured(src, cap) == IF cap.len = CAP_POSITION THEN <<"pos", cap.init>> ELSE <<"str", Slice(src, cap.init, cap.len)>>
Captures(src, at, way) ==
  IF way.caps = <<>> THEN <<<<"str", SubSeq(src, at, way.s - 1)>>>>
  ELSE [i \in DOMAIN way.caps |-> Captured(src, way.caps[i])]

(* A pattern may also be refused as too complex, when the items that call  *)
(* the matcher again are as many as it may go deep.                        *)
Nests(t) == t[1] \in {"(", ")", "()"} \/ (Single(t) /\ Suffix(t) # <<>>)
Nesting(items) == Cardinality({i \in DOMAIN items : Nests(items[i])})

(* A parenthesis alone does not make a pattern for string.find.            *)
AsText(items) ==
  IF \A t \in Range(items) : t[1] = ")" \/ (t[1] = "one" /\ Suffix(t) = <<>>)
    THEN [i \in DOMAIN items |-> IF items[i][1] = ")" THEN <<"one", ")", <<>>>> ELSE items[i]]
    ELSE items

(* What string.match returns, and string.find.                             *)
MatchMeans(items, src, anchored, pos, find) ==
  LET m == Means(items, src, anchored, pos)
      captures == Captures(src, m.at, m.way)
      span == <<<<"pos", m.at>>, <<"pos", m.way.s - 1>>>>
  IN  IF m.way.err # "none" THEN [vs |-> <<>>, err |-> m.way.err]
      ELSE IF m.at = 0 THEN Values(<<>>)
      ELSE IF Open(m.way.caps) # {} THEN [vs |-> <<>>, err |-> "unfinished capture"]
      ELSE Values(IF ~find THEN captures ELSE span \o (IF m.way.caps = <<>> THEN <<>> ELSE captures))

FindsItsMeaning(items, src, anchored, pos) ==
  LET pat == (IF anchored THEN <<"^">> ELSE <<>>) \o PatternText(items)
  IN  \A find \in BOOLEAN : \E m \in {str_find_aux(src, pat, pos, find, FALSE)} :
        \/ m = MatchMeans(IF find /\ ~anchored THEN AsText(items) ELSE items, src, anchored, pos, find)
        \/ m.err = "too complex" /\ Nesting(items) >= MAXCCALLS

-----------------------------------------------------------------------------
(* Repeated matches and substitution *)

(* The matches from position s on: each is the first one that does not end *)
(* where the one before it did.                                            *)
RECURSIVE MatchesFrom(_, _, _, _)
MatchesFrom(items, src, s, last) ==
  IF s > Len(src) + 1 THEN <<>>
  ELSE LET w == MeansAt(items, src, s)
       IN  IF w.err # "none" THEN <<[at |-> s, way |-> w]>>
           ELSE IF w.s \in {NULL, last} THEN MatchesFrom(items, src, s + 1, last)
           ELSE <<[at |-> s, way |-> w]>> \o MatchesFrom(items, src, w.s, w.s)
AllMatches(items, src, anchored) ==
  LET all == MatchesFrom(items, src, 1, NULL)
  IN  IF ~anchored THEN all ELSE SelectSeq(all, LAMBDA m : m.at = 1 /\ m = all[1])

(* The pieces of a replacement string: a character, or the number of a     *)
(* capture, 0 for the whole match.                                         *)
ReplacementText(pieces) ==
  Flat([i \in DOMAIN pieces |-> IF pieces[i][1] = "%" THEN <<"%", <<"0", "1", "2">>[pieces[i][2] + 1]>> ELSE pieces[i]])
Piece(src, m, piece) ==
  CASE piece[1] # "%" -> piece
    [] piece[2] = 0 -> SubSeq(src, m.at, m.way.s - 1)
    [] OTHER -> Text1(Captures(src, m.at, m.way)[piece[2]])
BadPiece(src, m, piece) ==
  piece[1] = "%" /\ piece[2] > 0 /\ (piece[2] > Len(Captures(src, m.at, m.way)) \/ piece[2] \in Open(m.way.caps))

(* What stands for a match in the result; repl has the pieces of a string. *)
Substitute(src, m, repl) ==
  LET answer == Answer(repl, Captures(src, m.at, m.way))
  IN  IF repl.tr = "string" THEN Flat([i \in DOMAIN repl.pieces |-> Piece(src, m, repl.pieces[i])])
      ELSE IF answer[1] = "str" THEN answer[2] ELSE SubSeq(src, m.at, m.way.s - 1)
IsBad(src, m, repl) ==
  \/ m.way.err # "none"
  \/ IF repl.tr = "string" THEN \E i \in DOMAIN repl.pieces : BadPiece(src, m, repl.pieces[i])
     ELSE \/ IF repl.tr = "table" THEN 1 \in Open(m.way.caps) ELSE Open(m.way.caps) # {}
          \/ Answer(repl, Captures(src, m.at, m.way))[1] = "obj"

Replaced(src, ms, repl) ==
  LET add(r, m) == [from |-> m.way.s, out |-> r.out \o SubSeq(src, r.from, m.at - 1) \o Substitute(src, m, repl)]
      r == FoldLeft(add, [from |-> 1, out |-> <<>>], ms)
  IN  r.out \o SubSeq(src, r.from, Len(src))

SubstitutesItsMatches(items, src, anchored, repl, max) ==
  LET all == AllMatches(items, src, anchored)
      ms == SubSeq(all, 1, IF max < Len(all) THEN max ELSE Len(all))
      pat == (IF anchored THEN <<"^">> ELSE <<>>) \o PatternText(items)
      r == str_gsub(src, pat, IF repl.tr = "string" THEN [tr |-> "string", val |-> ReplacementText(repl.pieces)] ELSE repl, max)
      bad == \E m \in Range(ms) : IsBad(src, m, repl)
  IN  /\ r.ok
      /\ \/ r.err = "too complex" /\ Nesting(items) >= MAXCCALLS
         \/ bad /\ r.err # "none"
         \/ ~bad /\ r = [out |-> Replaced(src, ms, repl), n |-> Len(ms), err |-> "none", ok |-> TRUE]

(* The iterations of gmatch.                                               *)
RECURSIVE Iterations(_)
Iterations(gm) ==
  LET n == gmatch_aux(gm, gm.src)
  IN  IF n.r.err # "none" THEN <<n.r>> ELSE IF n.r.vs = <<>> THEN <<>> ELSE <<n.r>> \o Iterations(n.gm)

IteratesItsMatches(items, src) ==
  LET ms == AllMatches(items, src, FALSE)
      bad == {i \in DOMAIN ms : ms[i].way.err # "none" \/ Open(ms[i].way.caps) # {}}
      good == SubSeq(ms, 1, IF bad = {} THEN Len(ms) ELSE Min(bad) - 1)
      it == Iterations(gmatch(src, PatternText(items), 1))
      n == Len(good)
  IN  \/ \E r \in Range(it) : r.err = "too complex" /\ Nesting(items) >= MAXCCALLS
      \/ /\ SubSeq(it, 1, n) = [i \in DOMAIN good |-> Values(Captures(src, good[i].at, good[i].way))]
         /\ IF bad = {} THEN Len(it) = n ELSE Len(it) = n + 1 /\ it[n + 1].err # "none"

-----------------------------------------------------------------------------
(***************************************************************************)
(* Patterns: every one of two items, and longer ones of a few items that   *)
(* make the matcher backtrack.                                             *)
(***************************************************************************)

CONSTANT Size      \* items of a longer pattern, but one

Marks == {<<>>, <<"?">>, <<"*">>, <<"+">>, <<"-">>}
Items == {<<"one", "a", x>> : x \in Marks} \cup {<<"any", x>> : x \in Marks}
    \cup {<<"set", TRUE, <<<<"a", "a">>>>, x>> : x \in {<<>>, <<"*">>}} \cup {<<"set", FALSE, <<<<"a", "b">>>>, x>> : x \in {<<"-">>, <<"+">>}}
    \cup {<<"class", "D", <<"?">>>>, <<"one", "b", <<>>>>, <<"(">>, <<")">>, <<"()">>, <<"back", "1">>, <<"back", "2">>,
          <<"balance", "a", "b">>, <<"balance", "a", "a">>, <<"frontier", FALSE, <<<<"a", "a">>>>>>, <<"frontier", TRUE, <<<<"a", "b">>>>>>, <<"$">>}
Few == {<<"one", "a", <<"*">>>>, <<"any", <<"-">>>>, <<"any", <<"?">>>>, <<"(">>, <<")">>, <<"back", "1">>}
Subjects == {<<>>, <<"a">>, <<"b", "a">>, <<"a", "a", "b">>, <<"a", "b", "a", "b">>, <<"a", "1", "a">>}
Adjacent(p) == \E i \in 1 .. Len(p) - 1 : p[i] = <<"(">> /\ p[i + 1] = <<")">>
Rest(family) == IF family = "all" THEN {<<>>} \cup [1 .. 1 -> Items] ELSE [1 .. Size -> Few]
Patterns(f) == {p \in {<<f[2]>> \o q : q \in Rest(f[1])} : ~Adjacent(p)}
Families == ({"all"} \X Items) \cup ({"few"} \X Few)
Repls == {[tr |-> "string", pieces |-> <<<<"b">>, <<"%", 1>>, <<"%", 0>>>>],
          [tr |-> "string", pieces |-> <<<<"%", 2>>>>],
          [tr |-> "table", val |-> (<<"str", <<"a">>>> :> <<"str", <<"b", "b">>>>) @@ (<<"str", <<>>>> :> <<"false">>)],
          [tr |-> "function", val |-> (<<"str", <<"a">>>> :> <<"obj">>) @@ (<<"str", <<>>>> :> <<"str", <<"1">>>>)]}

(* The pattern finds, captures and replaces what it means.                 *)
PatternIsMatched(p) ==
  /\ \A src \in Subjects, anchored \in BOOLEAN, pos \in {1, -2, 3} : FindsItsMeaning(p, src, anchored, pos)
  /\ \A src \in Subjects :
       /\ IteratesItsMatches(p, src)
       /\ \A anchored \in BOOLEAN, repl \in Repls, max \in {1, 9} : SubstitutesItsMatches(p, src, anchored, repl, max)
=============================================================================
