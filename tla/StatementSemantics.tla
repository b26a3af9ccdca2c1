------------------------- MODULE StatementSemantics -------------------------
(***************************************************************************)
(* What statements mean, independently of the parser and the code: each    *)
(* execution of a local declaration creates new cells, functions capture   *)
(* the cells of their environment, a block closes its variables however it *)
(* is left, and a goto may not enter the scope of a local variable.        *)
(*                                                                         *)
(* A block is a sequence of statements <<kind, ...>>:                      *)
(*   <<"local", names, attribs, exps>>  <<"localfunction", name, ps, b>>   *)
(*   <<"assign", targets, exps>>        <<"callstat", call>>               *)
(*   <<"do", b>>  <<"while", e, b>>  <<"repeat", b, e>>                    *)
(*   <<"if", <<<<e, b>>, ...>>, else>>  (no else part: <<"none">>)         *)
(*   <<"for", name, e1, e2, b>>         <<"forin", names, exps, b>>        *)
(*   <<"goto", l>>  <<"label", l>>  <<"break">>  <<"return", exps>>        *)
(* and expressions are literals, names, sums, calls, <<"...">>,            *)
(* <<"field", e, n>>, <<"index", e, e>> and <<"function", ps, b>>.         *)
(***************************************************************************)
EXTENDS Closures

(* The text of a program *)

Word(w) == <<<<w>>>>
Parameter(n) == IF n = "..." THEN <<n>> ELSE <<"name", n>>
Names(ns) == FoldLeft(LAMBDA t, n : t \o (IF t = <<>> THEN <<>> ELSE Word(",")) \o <<Parameter(n)>>, <<>>, ns)

RECURSIVE Words(_), WordsOfAll(_), WordsOfBlock(_), WordsOfStatement(_)

WordsOfAll(ts) ==
  IF ts = <<>> THEN <<>>
  ELSE Words(Head(ts)) \o (IF Len(ts) = 1 THEN <<>> ELSE Word(",") \o WordsOfAll(Tail(ts)))

FunctionText(ps, b) == Word("(") \o Names(ps) \o Word(")") \o WordsOfBlock(b) \o Word("end")

Words(t) ==
  CASE t[1] = "lit" -> <<t[2]>>
    [] t[1] \in {"name", "..."} -> <<t>>
    [] t[1] = "bin" -> Words(t[3]) \o Word(t[2]) \o Words(t[4])
    [] t[1] = "call" -> Words(t[2]) \o Word("(") \o WordsOfAll(t[3]) \o Word(")")
    [] t[1] = "field" -> Words(t[2]) \o Word(".") \o <<<<"name", t[3]>>>>
    [] t[1] = "index" -> Words(t[2]) \o Word("[") \o Words(t[3]) \o Word("]")
    [] t[1] = "function" -> Word("function") \o FunctionText(t[2], t[3])

WordsOfBlock(b) == FoldLeft(LAMBDA t, s : t \o WordsOfStatement(s), <<>>, b)

Attribute(a) == IF a = "reg" THEN <<>> ELSE Word("<") \o <<<<"name", a>>>> \o Word(">")
Declared(names, attribs) ==
  FoldLeft(LAMBDA t, i : t \o (IF i = 1 THEN <<>> ELSE Word(",")) \o <<<<"name", names[i]>>>> \o Attribute(attribs[i]),
           <<>>, [i \in DOMAIN names |-> i])

WordsOfStatement(s) ==
  LET do(b) == Word("do") \o WordsOfBlock(b) \o Word("end")
      part(word, p) == Word(word) \o Words(p[1]) \o Word("then") \o WordsOfBlock(p[2])
      elseifs(ps) == FoldLeft(LAMBDA t, p : t \o part("elseif", p), <<>>, ps)
      label(l) == Word("::") \o <<<<"name", l>>>> \o Word("::")
  IN  CASE s[1] = "local" ->
             Word("local") \o Declared(s[2], s[3]) \o (IF s[4] = <<>> THEN <<>> ELSE Word("=") \o WordsOfAll(s[4]))
        [] s[1] = "localfunction" ->
             Word("local") \o Word("function") \o <<<<"name", s[2]>>>> \o FunctionText(s[3], s[4])
        [] s[1] = "assign" -> WordsOfAll(s[2]) \o Word("=") \o WordsOfAll(s[3])
        [] s[1] = "callstat" -> Words(s[2])
        [] s[1] = "do" -> do(s[2])
        [] s[1] = "while" -> Word("while") \o Words(s[2]) \o do(s[3])
        [] s[1] = "repeat" -> Word("repeat") \o WordsOfBlock(s[2]) \o Word("until") \o Words(s[3])
        [] s[1] = "if" ->
             part("if", s[2][1]) \o elseifs(Tail(s[2]))
               \o (IF s[3] = <<"none">> THEN <<>> ELSE Word("else") \o WordsOfBlock(s[3])) \o Word("end")
        [] s[1] = "for" ->
             Word("for") \o <<<<"name", s[2]>>>> \o Word("=") \o WordsOfAll(<<s[3], s[4]>>) \o do(s[5])
        [] s[1] = "forin" -> Word("for") \o Names(s[2]) \o Word("in") \o WordsOfAll(s[3]) \o do(s[4])
        [] s[1] = "goto" -> Word("goto") \o <<<<"name", s[2]>>>>
        [] s[1] = "label" -> label(s[2])
        [] s[1] = "return" -> Word("return") \o WordsOfAll(s[2])
        [] s[1] = "break" -> Word("break")

-----------------------------------------------------------------------------
(* Programs without meaning *)

IsLabel(s, l) == s[1] = "label" /\ s[2] = l
Declares(s) == s[1] \in {"local", "localfunction"}

(* Where a jump to l from statement i of block b lands: it goes to a label *)
(* of the block without entering the scope of a variable, unless nothing   *)
(* but labels follows in that scope.                                       *)
Enters(b, i, j, until) ==
  /\ \E d \in i + 1 .. j - 1 : Declares(b[d])
  /\ until \/ \E d \in j .. Len(b) : b[d][1] # "label"

RECURSIVE Jumps1(_), Pending(_, _), Wrong(_, _, _, _)

(* The labels, and "break", that a statement jumps to outside of it.       *)
Jumps1(s) ==
  CASE s[1] = "goto" -> {s[2]}
    [] s[1] = "break" -> {"break"}
    [] s[1] = "do" -> Pending(s[2], FALSE)
    [] s[1] = "while" -> Pending(s[3], FALSE) \ {"break"}
    [] s[1] = "repeat" -> Pending(s[2], TRUE) \ {"break"}
    [] s[1] = "if" -> UNION {Pending(p[2], FALSE) : p \in Range(s[2])}
                        \cup (IF s[3] = <<"none">> THEN {} ELSE Pending(s[3], FALSE))
    [] s[1] = "for" -> Pending(s[5], FALSE) \ {"break"}
    [] s[1] = "forin" -> Pending(s[4], FALSE) \ {"break"}
    [] OTHER -> {}
Pending(b, until) == (UNION {Jumps1(b[i]) : i \in DOMAIN b}) \ {b[j][2] : j \in {k \in DOMAIN b : b[k][1] = "label"}}

Blocks(s) ==
  CASE s[1] = "do" -> <<s[2]>> [] s[1] = "while" -> <<s[3]>> [] s[1] = "repeat" -> <<s[2]>>
    [] s[1] = "if" -> [i \in DOMAIN s[2] |-> s[2][i][2]] \o (IF s[3] = <<"none">> THEN <<>> ELSE <<s[3]>>)
    [] s[1] = "for" -> <<s[5]>> [] s[1] = "forin" -> <<s[4]>> [] OTHER -> <<>>

(* The functions written in a statement, as <<parameters, body>>.          *)
RECURSIVE FunctionsIn(_)
FunctionsIn(ts) ==
  UNION {CASE t[1] = "function" -> {<<t[2], t[3]>>} [] t[1] = "call" -> FunctionsIn(t[3])
           [] t[1] = "bin" -> FunctionsIn(<<t[3], t[4]>>) [] OTHER -> {} : t \in Range(ts)}
FunctionsOf(s) ==
  CASE s[1] = "callstat" -> FunctionsIn(<<s[2]>>) [] s[1] = "local" -> FunctionsIn(s[4])
    [] s[1] = "return" -> FunctionsIn(s[2]) [] s[1] \in {"assign", "forin"} -> FunctionsIn(s[3])
    [] s[1] = "localfunction" -> {<<s[3], s[4]>>} [] OTHER -> {}

Bound(s) == CASE s[1] = "for" -> {s[2]} [] s[1] = "forin" -> {s[2][1]} [] OTHER -> {}
Others(s) == IF s[1] = "forin" THEN Range(s[2]) \ {s[2][1]} ELSE {}
(* The read-only variables in scope after statement s.                     *)
ConstAfter(s, const) ==
  CASE s[1] = "local" ->
         (const \ Range(s[2])) \cup {s[2][i] : i \in {k \in DOMAIN s[2] : s[3][k] # "reg"}}
    [] s[1] = "localfunction" -> const \ {s[2]}
    [] OTHER -> const

(* labels: those declared before, in this block or around it               *)
Wrong(b, until, labels, const) ==
  \E i \in DOMAIN b :
    LET before == labels \cup {b[j][2] : j \in {k \in 1 .. i - 1 : b[k][1] = "label"}}
        readonly == FoldLeft(LAMBDA c, s : ConstAfter(s, c), const, SubSeq(b, 1, i - 1))
        inner == (readonly \ Others(b[i])) \cup Bound(b[i])
    IN  \/ \E l \in Jumps1(b[i]) : \E j \in i + 1 .. Len(b) :
             IsLabel(b[j], l) /\ l \notin before /\ Enters(b, i, j, until)
        \/ b[i][1] = "label" /\ b[i][2] \in before
        \/ b[i][1] = "assign" /\ \E t \in Range(b[i][2]) : t[1] = "name" /\ t[2] \in readonly
        \/ \E c \in Range(Blocks(b[i])) : Wrong(c, b[i][1] = "repeat", before, inner)
        \/ \E f \in FunctionsOf(b[i]) : Pending(f[2], FALSE) # {} \/ Wrong(f[2], FALSE, {}, readonly \ Range(f[1]))

IllFormed(b) == Wrong(b, FALSE, {}, {}) \/ Pending(b, FALSE) # {}

-----------------------------------------------------------------------------
(* Meaning.  A state s has the values of the cells in store, the events    *)
(* ev, the answers of the world and the functions kept by it, and          *)
(* whether the program halted; why a statement ended ("next", "return",    *)
(* "break" or "goto", with the label to) and the values vs it returned or  *)
(* an expression produced.  An environment maps names to cells, and "..."  *)
(* to values.                                                              *)

FunctionValue(ps, b, env) == <<"fun", ps, b, env>>

Cells(s, names, vs, env) ==
  LET value(i) == IF i <= Len(vs) THEN vs[i] ELSE Nil
      first == Len(s.store)
  IN  [s |-> [s EXCEPT !.store = @ \o [i \in DOMAIN names |-> value(i)]],
       env |-> [n \in Range(names) |-> first + Max({i \in DOMAIN names : names[i] = n})] @@ env]

RECURSIVE Meaning(_, _, _, _, _), Invoke(_, _, _), Evaluate(_, _, _), EvaluateAll(_, _, _),
          Execute(_, _, _), ExecuteIf(_, _, _, _), While(_, _, _), ForIn(_, _, _, _, _), ForNum(_, _, _, _, _)

World(s, event) ==
  LET callback(r, f) ==
        LET c == Invoke(r, f, <<>>)
        IN  IF r.halted \/ c.halted THEN [c EXCEPT !.halted = TRUE] ELSE [c EXCEPT !.ev = Append(@, <<"value", ShownAll(c.vs)>>)]
  IN  IF s.halted THEN s ELSE FoldLeft(callback, [s EXCEPT !.ev = Append(@, event)], s.kept)

Invoke(s, f, args) ==
  LET names == SelectSeq(f[2], LAMBDA n : n # "...")
      cs == Cells([s EXCEPT !.why = "next"], names, args, f[4])
      r == Meaning(f[3], 1, <<("..." :> SubSeq(args, Len(names) + 1, Len(args))) @@ cs.env>>, <<>>, cs.s)
      known == IF s.answers = <<>> THEN [s EXCEPT !.halted = TRUE, !.vs = <<>>]
               ELSE [World([s EXCEPT !.answers = Tail(@), !.kept = @ \o SelectSeq(args, IsFunction)],
                           <<"call", f, ShownAll(args)>>)
                       EXCEPT !.vs = <<Head(s.answers)>>]
  IN  IF s.halted THEN s
      ELSE IF IsFunction(f) THEN [r EXCEPT !.vs = IF r.why = "return" THEN @ ELSE <<>>, !.why = "next"]
      ELSE known

First(vs) == IF vs = <<>> THEN Nil ELSE vs[1]

(* The expressions for the table and the key of a variable.                *)
Place(t) == CASE t[1] = "field" -> <<t[2], <<"lit", Str(t[3])>>>>
              [] t[1] = "index" -> <<t[2], t[3]>>
              [] OTHER -> <<<<"lit", Nil>>, <<"lit", Nil>>>>

(* Each result has its values in vs.                                       *)
Evaluate(t, env, s) ==
  CASE s.halted -> s
    [] t[1] = "lit" -> [s EXCEPT !.vs = <<t[2]>>]
    [] t[1] = "name" -> [s EXCEPT !.vs = <<IF t[2] \in DOMAIN env THEN s.store[env[t[2]]]
                                           ELSE <<"at", <<"_ENV">>, Str(t[2])>>>>,
                                  !.ev = IF t[2] \in DOMAIN env THEN @
                                         ELSE Append(@, <<"at", <<"_ENV">>, Str(t[2])>>)]
    [] t[1] = "..." -> [s EXCEPT !.vs = env["..."]]
    [] t[1] = "function" -> [s EXCEPT !.vs = <<FunctionValue(t[2], t[3], env)>>]
    [] t[1] = "bin" ->
         LET x == Evaluate(t[3], env, s)
             y == Evaluate(t[4], env, x)
             r == Arith(t[2], First(x.vs), First(y.vs))
         IN  IF y.halted THEN y ELSE [y EXCEPT !.vs = <<r.v>>, !.ev = @ \o r.ev]
    [] t[1] \in {"field", "index"} ->
         LET x == EvaluateAll(Place(t), env, s)
             r == Field(x.vs[1], x.vs[2])
         IN  IF x.halted THEN x ELSE [x EXCEPT !.vs = <<r.v>>, !.ev = @ \o r.ev]
    [] t[1] = "call" ->
         LET f == Evaluate(t[2], env, s)
             args == EvaluateAll(t[3], env, f)
         IN  IF args.halted THEN args ELSE Invoke(args, First(f.vs), args.vs)

EvaluateAll(ts, env, s) ==
  IF ts = <<>> \/ s.halted THEN [s EXCEPT !.vs = <<>>]
  ELSE LET x == Evaluate(Head(ts), env, s)
           rest == EvaluateAll(Tail(ts), env, x)
       IN  IF Len(ts) = 1 THEN x ELSE [rest EXCEPT !.vs = <<First(x.vs)>> \o @]

(* The variables to be closed from statement j on, the last one first.     *)
RECURSIVE Closing(_, _, _)
Closing(s, tbc, j) ==
  LET t == Last(tbc)
      closed == IF IsFalse(t.v) THEN s ELSE [World(s, <<"close", Shown(t.v)>>) EXCEPT !.vs = s.vs, !.why = s.why]
  IN  IF tbc = <<>> \/ t.at < j THEN s ELSE Closing(closed, Front(tbc), j)

(* Block b from statement i on; envs are the environments before each of   *)
(* its statements, tbc its variables to be closed.                         *)
Meaning(b, i, envs, tbc, s) ==
  LET r == Execute(b[i], envs[i], s)
      known == {j \in DOMAIN b : IsLabel(b[j], r.s.to)}
      j == Min(known)
      on == [r.s EXCEPT !.why = "next"]
      tbc2 == IF b[i][1] = "local" /\ "close" \in Range(b[i][3])
                THEN Append(tbc, [at |-> i, v |-> r.s.store[r.env[b[i][2][Min({x \in DOMAIN b[i][3] : b[i][3][x] = "close"})]]]])
                ELSE tbc
  IN  IF s.halted THEN s
      ELSE IF i > Len(b) THEN Closing(s, tbc, 0)
      ELSE IF r.s.halted THEN r.s
      ELSE IF r.s.why = "next" THEN Meaning(b, i + 1, Append(SubSeq(envs, 1, i), r.env), tbc2, r.s)
      ELSE IF r.s.why = "goto" /\ known # {} /\ j <= i
        THEN Meaning(b, j, SubSeq(envs, 1, j), SelectSeq(tbc, LAMBDA t : t.at < j), Closing(on, tbc, j))
      ELSE IF r.s.why = "goto" /\ known # {}
        THEN Meaning(b, j, envs \o [x \in 1 .. j - i |-> envs[i]], tbc, on)
      ELSE Closing(r.s, tbc, 0)

Block(b, env, s) == Meaning(b, 1, <<env>>, <<>>, s)
Test(t, env, s) == Evaluate(t, env, s)
Holds(r) == ~IsFalse(First(r.vs))

(* A loop ends with a break, or with any other jump out of it.             *)
Again(s) == ~s.halted /\ s.why = "next"
Left(s) == IF s.why = "break" THEN [s EXCEPT !.why = "next"] ELSE s

While(st, env, s) ==
  LET c == Test(st[2], env, s)
      r == Block(st[3], env, c)
  IN  IF c.halted \/ ~Holds(c) THEN c ELSE IF Again(r) THEN While(st, env, r) ELSE Left(r)

(* The condition of a repeat sees the variables of the block.              *)
RECURSIVE Repeat(_, _, _)
Repeat(st, env, s) ==
  LET r == Block(Append(st[2], <<"until", st[3]>>), env, s)
  IN  IF r.halted THEN r
      ELSE IF r.why = "until" THEN [r EXCEPT !.why = "next"]
      ELSE IF Again(r) THEN Repeat(st, env, r) ELSE Left(r)

ForNum(st, env, s, n, limit) ==
  LET cs == Cells(s, <<st[2]>>, <<<<"int", n>>>>, env)
      r == Block(st[5], cs.env, cs.s)
  IN  IF s.halted \/ n > limit THEN s ELSE IF Again(r) THEN ForNum(st, env, r, n + 1, limit) ELSE Left(r)

ForIn(st, env, s, vs, control) ==
  LET c == Invoke(s, vs[1], <<vs[2], control>>)
      cs == Cells(c, st[2], c.vs, env)
      r == Block(st[4], cs.env, cs.s)
  IN  IF c.halted \/ First(c.vs) = Nil THEN c
      ELSE IF Again(r) THEN ForIn(st, env, r, vs, First(c.vs)) ELSE Left(r)

ExecuteIf(parts, else, env, s) ==
  LET c == Test(parts[1][1], env, s)
  IN  IF c.halted THEN c
      ELSE IF Holds(c) THEN Block(parts[1][2], env, c)
      ELSE IF Len(parts) = 1 THEN IF else = <<"none">> THEN c ELSE Block(else, env, c)
      ELSE ExecuteIf(Tail(parts), else, env, c)

(* Tables and keys of the variables are known before the assignment; the   *)
(* last variable is assigned first.                                        *)
RECURSIVE AssignAll(_, _, _, _, _)
AssignAll(ts, places, vs, env, s) ==
  LET n == Len(ts)
      t == ts[n]
      v == IF n <= Len(vs) THEN vs[n] ELSE Nil
      r == CASE t[1] # "name" -> [s EXCEPT !.ev = Append(@, <<"set", Shown(places[2 * n - 1]), Shown(places[2 * n]), Shown(v)>>)]
             [] t[2] \in DOMAIN env -> [s EXCEPT !.store[env[t[2]]] = v]
             [] OTHER -> [s EXCEPT !.ev = Append(@, <<"set", <<"_ENV">>, Str(t[2]), Shown(v)>>)]
  IN  IF ts = <<>> THEN s ELSE AssignAll(Front(ts), places, vs, env, r)

Execute(st, env, s) ==
  LET same(r) == [s |-> r, env |-> env]
      all == EvaluateAll(st[4], env, s)
      declared == Cells(all, st[2], all.vs, env)
      self == Cells(s, <<st[2]>>, <<Nil>>, env)
      places == EvaluateAll(FlattenSeq([i \in DOMAIN st[2] |-> Place(st[2][i])]), env, s)
      values == EvaluateAll(st[3], env, places)
      from == EvaluateAll(<<st[3], st[4]>>, env, s)
      iter == EvaluateAll(st[3], env, s)
      value(i) == IF i <= Len(iter.vs) THEN iter.vs[i] ELSE Nil
      closing == [at |-> 1, v |-> value(4)]
  IN  CASE st[1] = "local" -> IF all.halted THEN same(all) ELSE declared
        [] st[1] = "localfunction" ->
             [self EXCEPT !.s.store[self.env[st[2]]] = FunctionValue(st[3], st[4], self.env)]
        [] st[1] = "assign" -> same(IF values.halted THEN values ELSE AssignAll(st[2], places.vs, values.vs, env, values))
        [] st[1] = "callstat" -> same(Evaluate(st[2], env, s))
        [] st[1] = "do" -> same(Block(st[2], env, s))
        [] st[1] = "while" -> same(While(st, env, s))
        [] st[1] = "repeat" -> same(Repeat(st, env, s))
        [] st[1] = "until" ->
             same(LET c == Test(st[2], env, s) IN IF c.halted \/ ~Holds(c) THEN c ELSE [c EXCEPT !.why = "until"])
        [] st[1] = "if" -> same(ExecuteIf(st[2], st[3], env, s))
        [] st[1] = "for" -> same(IF from.halted THEN from ELSE ForNum(st, env, from, from.vs[1][2], from.vs[2][2]))
        [] st[1] = "forin" ->
             same(IF iter.halted THEN iter
                  ELSE Closing(ForIn(st, env, iter, <<value(1), value(2)>>, value(3)), <<closing>>, 0))
        [] st[1] = "goto" -> same([s EXCEPT !.why = "goto", !.to = st[2]])
        [] st[1] = "label" -> same(s)
        [] st[1] = "break" -> same([s EXCEPT !.why = "break"])
        [] st[1] = "return" ->
             same(LET r == EvaluateAll(st[2], env, s) IN IF r.halted THEN r ELSE [r EXCEPT !.why = "return"])

-----------------------------------------------------------------------------
(* A block that the parser rejects has no meaning, and the code of any     *)
(* other does what the block means.                                        *)

CONSTANT Frame     \* registers of a frame

BehavesAsMeant(b, answers) ==
  \E p \in {mainfunc(WordsOfBlock(b))} :
    IF p.err # "none" THEN IllFormed(b)
    ELSE /\ ~IllFormed(b) /\ p.ok /\ p.max < Frame
         /\ \E m \in {RunChunk(p, Frame, answers)} :
            \E s \in {Block(b, <<>>, [store |-> <<>>, ev |-> <<>>, answers |-> answers, kept |-> <<>>,
                                      halted |-> FALSE, why |-> "next", to |-> "", vs |-> <<>>])} :
              /\ m.ok /\ m.ev = s.ev /\ m.halted = s.halted
              /\ (~m.halted /\ s.why = "return" => ShownAll(m.values) = ShownAll(s.vs))
=============================================================================
