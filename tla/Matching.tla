------------------------------- MODULE Matching -------------------------------
(***************************************************************************)
(* Pattern matching in the string library (lstrlib.c): find, match, gmatch *)
(* and gsub.                                                               *)
(*                                                                         *)
(* A string is a sequence of characters; positions count from 1, and one   *)
(* past the end reads as the null character.  The state ms of a match      *)
(* (MatchState) has the subject src, the pattern pat, how much deeper the  *)
(* matcher may go (matchdepth), the captures (their number is level), and  *)
(* the outcome: s, the end of the match or NULL, and err, the error that   *)
(* was raised, if any.                                                     *)
(***************************************************************************)
EXTENDS Integers, SequencesExt

CONSTANTS MAXCCALLS, LUA_MAXCAPTURES

MatchingConstants == {MAXCCALLS, LUA_MAXCAPTURES} \subseteq Nat \ {0}

NULL == 0
NUL == "nul"      \* the null character
CAP_UNFINISHED == -1
CAP_POSITION == -2

At(str, i) == IF i \in DOMAIN str THEN str[i] ELSE NUL
Slice(str, i, len) == SubSeq(str, i, i + len - 1)

(* The characters of the model, in their order: the null character, a      *)
(* blank, a digit, an upper-case and two lower-case letters, a parenthesis.*)
Order == [c \in {NUL, " ", "1", "A", "a", "b", ")"} |->
            CASE c = NUL -> 0 [] c = " " -> 32 [] c = ")" -> 41 [] c = "1" -> 49
              [] c = "A" -> 65 [] c = "a" -> 97 [] c = "b" -> 98]
Digits == {"0", "1", "2"}
DigitValue(c) == CASE c = "1" -> 1 [] c = "2" -> 2 [] OTHER -> 0

Found(ms, s) == [ms EXCEPT !.s = s]
Fails(ms) == Found(ms, NULL)
Raise(ms, what) == [ms EXCEPT !.s = NULL, !.err = what]
(* Another way may be tried.                                               *)
Backtracks(ms) == ms.s = NULL /\ ms.err = "none"

-----------------------------------------------------------------------------
(* Single characters *)

(* Where the item at p ends, or 0 for a malformed one.                     *)
RECURSIVE SetEnd(_, _)
SetEnd(pat, p) ==
  IF p > Len(pat) THEN 0
  ELSE LET q == IF pat[p] = "%" /\ p < Len(pat) THEN p + 2 ELSE p + 1
       IN  IF At(pat, q) = "]" THEN q + 1 ELSE SetEnd(pat, q)
classend(pat, p) ==
  CASE pat[p] = "%" -> IF p = Len(pat) THEN 0 ELSE p + 2
    [] pat[p] = "[" -> SetEnd(pat, IF At(pat, p + 1) = "^" THEN p + 2 ELSE p + 1)
    [] OTHER -> p + 1

match_class(c, cl) ==
  CASE cl = "a" -> c \in {"A", "a", "b"} [] cl = "d" -> c = "1" [] cl = "s" -> c = " "
    [] cl = "A" -> c \notin {"A", "a", "b"} [] cl = "D" -> c # "1" [] cl = "S" -> c # " "
    [] OTHER -> cl = c

(* The set from p to its bracket at ec.                                    *)
RECURSIVE InSet(_, _, _, _)
InSet(c, pat, p, ec) ==
  IF p >= ec THEN FALSE
  ELSE IF pat[p] = "%" THEN match_class(c, pat[p + 1]) \/ InSet(c, pat, p + 2, ec)
  ELSE IF pat[p + 1] = "-" /\ p + 2 < ec
    THEN (Order[pat[p]] <= Order[c] /\ Order[c] <= Order[pat[p + 2]]) \/ InSet(c, pat, p + 3, ec)
  ELSE pat[p] = c \/ InSet(c, pat, p + 1, ec)
matchbracketclass(c, pat, p, ec) ==
  IF pat[p + 1] = "^" THEN ~InSet(c, pat, p + 2, ec) ELSE InSet(c, pat, p + 1, ec)

singlematch(ms, s, p, ep) ==
  /\ s <= Len(ms.src)
  /\ LET c == ms.src[s]
     IN  CASE ms.pat[p] = "." -> TRUE
           [] ms.pat[p] = "%" -> match_class(c, ms.pat[p + 1])
           [] ms.pat[p] = "[" -> matchbracketclass(c, ms.pat, p, ep - 1)
           [] OTHER -> ms.pat[p] = c

(* The position after the end that balances the beginning at s, or NULL.   *)
RECURSIVE Balanced(_, _, _, _, _)
Balanced(src, s, b, e, cont) ==
  IF s > Len(src) THEN NULL
  ELSE IF src[s] = e THEN IF cont = 1 THEN s + 1 ELSE Balanced(src, s + 1, b, e, cont - 1)
  ELSE Balanced(src, s + 1, b, e, IF src[s] = b THEN cont + 1 ELSE cont)
matchbalance(ms, s, p) ==
  IF p >= Len(ms.pat) THEN Raise(ms, "malformed")
  ELSE IF At(ms.src, s) # ms.pat[p] THEN Fails(ms)
  ELSE Found(ms, Balanced(ms.src, s + 1, ms.pat[p], ms.pat[p + 1], 1))

-----------------------------------------------------------------------------
(* The matcher *)

RECURSIVE match(_, _, _), step(_, _, _), max_expand(_, _, _, _, _), min_expand(_, _, _, _)

(* With i repetitions, then with fewer.                                    *)
max_expand(ms, s, p, ep, i) ==
  LET r == match(ms, s + i, ep + 1)
  IN  IF Backtracks(r) /\ i > 0 THEN max_expand(r, s, p, ep, i - 1) ELSE r

RECURSIVE Repetitions(_, _, _, _)
Repetitions(ms, s, p, ep) == IF singlematch(ms, s, p, ep) THEN 1 + Repetitions(ms, s + 1, p, ep) ELSE 0

min_expand(ms, s, p, ep) ==
  LET r == match(ms, s, ep + 1)
  IN  IF Backtracks(r) /\ singlematch(r, s, p, ep) THEN min_expand(r, s + 1, p, ep) ELSE r

start_capture(ms, s, p, what) ==
  LET r == match([ms EXCEPT !.capture = Append(@, [init |-> s, len |-> what])], s, p)
  IN  IF Len(ms.capture) >= LUA_MAXCAPTURES THEN Raise(ms, "too many captures")
      ELSE IF Backtracks(r) THEN [r EXCEPT !.capture = Front(@)]
      ELSE r

Unfinished(ms) == {l \in DOMAIN ms.capture : ms.capture[l].len = CAP_UNFINISHED}
capture_to_close(ms) == Max(Unfinished(ms))

(* A capture that was closed on a way that failed stays closed.            *)
Faultyend_capture(ms, s, p) ==
  LET l == capture_to_close(ms)
  IN  IF Unfinished(ms) = {} THEN Raise(ms, "invalid capture")
      ELSE match([ms EXCEPT !.capture[l].len = s - ms.capture[l].init], s, p)

end_capture(ms, s, p) ==
  LET l == capture_to_close(ms)
      r == match([ms EXCEPT !.capture[l].len = s - ms.capture[l].init], s, p)
  IN  IF Unfinished(ms) = {} THEN Raise(ms, "invalid capture")
      ELSE IF Backtracks(r) THEN [r EXCEPT !.capture[l].len = CAP_UNFINISHED]
      ELSE r

(* A position never fits.                                                  *)
match_capture(ms, s, l) ==
  LET cap == ms.capture[l]
  IN  IF l \notin DOMAIN ms.capture \/ l \in Unfinished(ms) THEN Raise(ms, "invalid capture")
      ELSE IF /\ cap.len >= 0 /\ Len(ms.src) + 1 - s >= cap.len
              /\ Slice(ms.src, cap.init, cap.len) = Slice(ms.src, s, cap.len)
        THEN Found(ms, s + cap.len)
      ELSE Fails(ms)

(* %f                                                                      *)
frontier(ms, s, p) ==
  LET ep == classend(ms.pat, p)
      in(i) == matchbracketclass(At(ms.src, i), ms.pat, p, ep - 1)
  IN  IF At(ms.pat, p) # "[" \/ ep = 0 THEN Raise(ms, "malformed")
      ELSE IF ~in(s - 1) /\ in(s) THEN step(ms, s, ep) ELSE Fails(ms)

(* A character or a set, with its suffix, if any.                          *)
default(ms, s, p) ==
  LET ep == classend(ms.pat, p)
      suffix == At(ms.pat, ep)
      optional == match(ms, s + 1, ep + 1)
  IN  IF ep = 0 THEN Raise(ms, "malformed")
      ELSE IF ~singlematch(ms, s, p, ep)
        THEN IF suffix \in {"*", "?", "-"} THEN step(ms, s, ep + 1) ELSE Fails(ms)
      ELSE CASE suffix = "?" -> IF Backtracks(optional) THEN step(optional, s, ep + 1) ELSE optional
             [] suffix = "+" -> max_expand(ms, s + 1, p, ep, Repetitions(ms, s + 1, p, ep))
             [] suffix = "*" -> max_expand(ms, s, p, ep, Repetitions(ms, s, p, ep))
             [] suffix = "-" -> min_expand(ms, s, p, ep)
             [] OTHER -> step(ms, s + 1, ep)

(* The body of match, from its label init on.                              *)
step(ms, s, p) ==
  LET c == At(ms.pat, p)
      next == At(ms.pat, p + 1)
      balanced == matchbalance(ms, s, p + 2)
      captured == match_capture(ms, s, DigitValue(next))
  IN  CASE p > Len(ms.pat) -> Found(ms, s)
        [] c = "(" -> IF next = ")" THEN start_capture(ms, s, p + 2, CAP_POSITION)
                      ELSE start_capture(ms, s, p + 1, CAP_UNFINISHED)
        [] c = ")" -> end_capture(ms, s, p + 1)
        [] c = "$" /\ p = Len(ms.pat) -> IF s = Len(ms.src) + 1 THEN Found(ms, s) ELSE Fails(ms)
        [] c = "%" /\ next = "b" -> IF balanced.s = NULL THEN balanced ELSE step(balanced, balanced.s, p + 4)
        [] c = "%" /\ next = "f" -> frontier(ms, s, p + 2)
        [] c = "%" /\ next \in Digits ->
             IF captured.s = NULL THEN captured ELSE step(captured, captured.s, p + 2)
        [] OTHER -> default(ms, s, p)

match(ms, s, p) ==
  IF ms.matchdepth = 0 THEN Raise(ms, "too complex")
  ELSE LET r == step([ms EXCEPT !.matchdepth = @ - 1], s, p) IN [r EXCEPT !.matchdepth = @ + 1]

prepstate(src, pat) ==
  [src |-> src, pat |-> pat, matchdepth |-> MAXCCALLS, capture |-> <<>>, s |-> NULL, err |-> "none", ok |-> TRUE]
reprepstate(ms) == [ms EXCEPT !.capture = <<>>, !.ok = @ /\ ms.matchdepth = MAXCCALLS]

(* A match of the whole pattern at s.                                      *)
TryAt(ms, s) == match(reprepstate(ms), s, 1)

-----------------------------------------------------------------------------
(* Captures *)

push_onecapture(ms, i, s, e) ==
  IF i > Len(ms.capture) THEN <<"str", SubSeq(ms.src, s, e - 1)>>
  ELSE LET cap == ms.capture[i]
       IN  IF cap.len = CAP_POSITION THEN <<"pos", cap.init>> ELSE <<"str", Slice(ms.src, cap.init, cap.len)>>
BadCapture(ms, i) == (i > Len(ms.capture) /\ i # 1) \/ i \in Unfinished(ms)

push_captures(ms, s, e) ==
  [i \in 1 .. (IF ms.capture = <<>> THEN 1 ELSE Len(ms.capture)) |-> push_onecapture(ms, i, s, e)]

(* The state after a match whose captures were pushed.                     *)
Pushed(ms) == IF ms.s # NULL /\ Unfinished(ms) # {} THEN Raise(ms, "unfinished capture") ELSE ms

-----------------------------------------------------------------------------
(* Searching.  A result has the values vs, empty for none, and err.        *)

SPECIALS == {"^", "$", "*", "+", "?", ".", "(", "[", "%", "-"}
nospecials(pat) == Range(pat) \cap SPECIALS = {}

RECURSIVE lmemfind(_, _, _)
lmemfind(src, s, pat) ==
  IF Len(pat) > Len(src) + 1 - s THEN NULL
  ELSE IF Slice(src, s, Len(pat)) = pat THEN s
  ELSE lmemfind(src, s + 1, pat)

posrelatI(pos, len) ==
  IF pos > 0 THEN pos ELSE IF pos = 0 \/ pos < -len THEN 1 ELSE len + pos + 1

Anchored(pat) == At(pat, 1) = "^"
Unanchored(pat) == IF Anchored(pat) THEN Tail(pat) ELSE pat

RECURSIVE Search(_, _, _)
Search(ms, s, anchor) ==
  LET r == TryAt(ms, s)
  IN  IF Backtracks(r) /\ s <= Len(ms.src) /\ ~anchor THEN Search(r, s + 1, anchor) ELSE [ms |-> r, at |-> s]

Values(vs) == [vs |-> vs, err |-> "none"]
Outcome(ms, vs) == [vs |-> IF ms.s = NULL \/ ms.err # "none" THEN <<>> ELSE vs, err |-> ms.err]

str_find_aux(src, pat, pos, find, plain) ==
  LET init == posrelatI(pos, Len(src))
      found == lmemfind(src, init, pat)
      r == Search(prepstate(src, Unanchored(pat)), init, Anchored(pat))
      ms == Pushed(r.ms)
      captures == push_captures(ms, r.at, ms.s)
      span == <<<<"pos", r.at>>, <<"pos", ms.s - 1>>>>
  IN  IF init > Len(src) + 1 THEN Values(<<>>)
      ELSE IF find /\ (plain \/ nospecials(pat))
        THEN Values(IF found = NULL THEN <<>> ELSE <<<<"pos", found>>, <<"pos", found + Len(pat) - 1>>>>)
      ELSE Outcome(ms, IF ~find THEN captures ELSE IF ms.capture = <<>> THEN span ELSE span \o captures)

(* gmatch: a match may not end where the last one did.  Its state gm has   *)
(* the match state ms, the position src and lastmatch.                     *)
gmatch(src, pat, pos) ==
  LET init == posrelatI(pos, Len(src))
  IN  [ms |-> prepstate(src, pat), src |-> IF init > Len(src) + 1 THEN Len(src) + 2 ELSE init, lastmatch |-> NULL]

RECURSIVE gmatch_aux(_, _)
gmatch_aux(gm, s) ==
  LET r == TryAt(gm.ms, s)
      ms == Pushed(r)
  IN  IF s > Len(gm.ms.src) + 1 THEN [gm |-> gm, r |-> Values(<<>>)]
      ELSE IF r.err # "none" \/ (r.s # NULL /\ r.s # gm.lastmatch)
        THEN [gm |-> [gm EXCEPT !.ms = r, !.src = r.s, !.lastmatch = r.s],
              r |-> Outcome(ms, push_captures(ms, s, ms.s))]
      ELSE gmatch_aux([gm EXCEPT !.ms = r], s + 1)

-----------------------------------------------------------------------------
(* Substitution.  The state b has the match state, the position src,       *)
(* lastmatch, the number n of replacements, whether anything changed, and  *)
(* the text out.                                                           *)

Digit(n) == <<"1", "2", "3", "4", "5", "6", "7", "8", "9">>[n]
Text1(v) == IF v[1] = "pos" THEN <<Digit(v[2])>> ELSE v[2]

(* The replacement string from position i on, for a match from s to e.     *)
RECURSIVE add_s(_, _, _, _, _)
add_s(ms, news, i, s, e) ==
  LET c == At(news, i + 1)
      l == DigitValue(c)
      rest == add_s(ms, news, i + 2, s, e)
      prefixed(t) == [rest EXCEPT !.out = t \o @]
      plain == add_s(ms, news, i + 1, s, e)
  IN  IF i > Len(news) THEN [out |-> <<>>, err |-> "none"]
      ELSE IF news[i] # "%" THEN [plain EXCEPT !.out = <<news[i]>> \o @]
      ELSE IF c = "%" THEN prefixed(<<"%">>)
      ELSE IF c = "0" THEN prefixed(SubSeq(ms.src, s, e - 1))
      ELSE IF c \notin Digits \/ BadCapture(ms, l) THEN [out |-> <<>>, err |-> "invalid replacement"]
      ELSE prefixed(Text1(push_onecapture(ms, l, s, e)))

(* What a table or a function gives for a match: <<"str", s>>, or nothing, *)
(* which keeps the match, or another object, which is an error.            *)
Answer(repl, captures) ==
  LET key == IF repl.tr = "table" THEN captures[1] ELSE Last(captures)
  IN  IF key \in DOMAIN repl.val THEN repl.val[key] ELSE <<"nil">>

add_value(ms, s, e, repl) ==
  LET answer == Answer(repl, push_captures(ms, s, e))
      bad == IF repl.tr = "table" THEN BadCapture(ms, 1) ELSE Unfinished(ms) # {}
      added == add_s(ms, repl.val, 1, s, e)
  IN  IF repl.tr = "string" THEN [out |-> added.out, err |-> added.err, changed |-> TRUE]
      ELSE [out |-> IF answer[1] = "str" THEN answer[2] ELSE SubSeq(ms.src, s, e - 1),
            err |-> IF bad THEN "unfinished capture" ELSE IF answer[1] = "obj" THEN "invalid replacement" ELSE "none",
            changed |-> answer[1] = "str"]

(* The end of the last match is forgotten.                                 *)
Faultysubstitute(b, repl, max, anchor) ==
  LET r == TryAt(b.ms, b.src)
      v == add_value(r, b.src, r.s, repl)
  IN  IF b.n >= max THEN [b EXCEPT !.done = TRUE]
      ELSE IF r.err # "none" THEN [b EXCEPT !.err = r.err, !.done = TRUE]
      ELSE IF r.s # NULL /\ r.s # b.lastmatch
        THEN [b EXCEPT !.ms = r, !.n = @ + 1, !.changed = @ \/ v.changed, !.out = @ \o v.out, !.src = r.s,
                       !.lastmatch = IF r.s = b.src THEN r.s ELSE @, !.err = v.err, !.done = anchor \/ v.err # "none"]
      ELSE IF b.src <= Len(b.ms.src)
        THEN [b EXCEPT !.ms = r, !.out = Append(@, b.ms.src[b.src]), !.src = @ + 1, !.done = anchor]
      ELSE [b EXCEPT !.ms = r, !.done = TRUE]

(* One step of the loop of gsub.                                           *)
substitute(b, repl, max, anchor) ==
  LET r == TryAt(b.ms, b.src)
      v == add_value(r, b.src, r.s, repl)
      skipped == [b EXCEPT !.ms = r, !.out = Append(@, b.ms.src[b.src]), !.src = @ + 1, !.done = anchor]
  IN  IF b.n >= max THEN [b EXCEPT !.done = TRUE]
      ELSE IF r.err # "none" THEN [b EXCEPT !.err = r.err, !.done = TRUE]
      ELSE IF r.s # NULL /\ r.s # b.lastmatch
        THEN [b EXCEPT !.ms = r, !.n = @ + 1, !.changed = @ \/ v.changed, !.out = @ \o v.out, !.src = r.s,
                       !.lastmatch = r.s, !.err = v.err, !.done = anchor \/ v.err # "none"]
      ELSE IF b.src <= Len(b.ms.src) THEN skipped
      ELSE [b EXCEPT !.ms = r, !.done = TRUE]

RECURSIVE Substitutions(_, _, _, _)
Substitutions(b, repl, max, anchor) ==
  IF b.done THEN b ELSE Substitutions(substitute(b, repl, max, anchor), repl, max, anchor)

str_gsub(src, pat, repl, max) ==
  LET start == [ms |-> prepstate(src, Unanchored(pat)), src |-> 1, lastmatch |-> NULL, n |-> 0,
                changed |-> FALSE, out |-> <<>>, err |-> "none", done |-> FALSE]
      b == Substitutions(start, repl, max, Anchored(pat))
  IN  [out |-> IF b.changed THEN b.out \o SubSeq(src, b.src, Len(src)) ELSE src,
       n |-> b.n, err |-> b.err, ok |-> b.ms.ok]
=============================================================================
