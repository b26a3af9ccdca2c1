------------------------- MODULE ExpressionSemantics -------------------------
(***************************************************************************)
(* What expressions mean, independently of the parser and the code: the    *)
(* value of a syntax tree and the events of its evaluation, in the order   *)
(* of the reference manual, and the text of the tree, with parentheses     *)
(* where the manual's precedences (3.4.8) ask for them.                    *)
(* A tree is a tuple <<kind, ...>>.                                        *)
(***************************************************************************)
EXTENDS Execution

Precedence(op) ==
  CASE op = "or" -> 1 [] op = "and" -> 2 [] op \in {"<", ">", "<=", ">=", "~=", "=="} -> 3
    [] op = "&" -> 6 [] op \in {"<<", ">>"} -> 7 [] op = ".." -> 8 [] op \in {"+", "-"} -> 9
    [] op \in {"*", "//"} -> 10
UnaryPrecedence == 11
Level(t) == CASE t[1] = "bin" -> Precedence(t[2]) [] t[1] = "un" -> UnaryPrecedence [] OTHER -> 12

RECURSIVE Text(_), TextOfAll(_)

Parenthesized(t) == <<<<"(">>>> \o Text(t) \o <<<<")">>>>
(* Text of an operand that must bind at least as tightly as level.         *)
Operand(t, level) == IF Level(t) >= level THEN Text(t) ELSE Parenthesized(t)
Prefix(t) == IF t[1] \in {"name", "field", "index", "call", "method"} THEN Text(t) ELSE Parenthesized(t)

TextOfAll(ts) ==
  IF ts = <<>> THEN <<>>
  ELSE Text(Head(ts)) \o (IF Len(ts) = 1 THEN <<>> ELSE <<<<",">>>> \o TextOfAll(Tail(ts)))

Text(t) ==
  CASE t[1] = "lit" -> <<t[2]>>
    [] t[1] = "name" -> <<t>>
    [] t[1] = "..." -> <<t>>
    [] t[1] = "paren" -> Parenthesized(t[2])
    [] t[1] = "un" -> <<<<t[2]>>>> \o Operand(t[3], UnaryPrecedence)
    [] t[1] = "bin" ->
         LET p == Precedence(t[2])
         IN  Operand(t[3], IF t[2] = ".." THEN p + 1 ELSE p) \o <<<<t[2]>>>>
               \o Operand(t[4], IF t[2] = ".." THEN p ELSE p + 1)
    [] t[1] = "field" -> Prefix(t[2]) \o <<<<".">>, <<"name", t[3]>>>>
    [] t[1] = "index" -> Prefix(t[2]) \o <<<<"[">>>> \o Text(t[3]) \o <<<<"]">>>>
    [] t[1] = "call" -> Prefix(t[2]) \o <<<<"(">>>> \o TextOfAll(t[3]) \o <<<<")">>>>
    [] t[1] = "method" ->
         Prefix(t[2]) \o <<<<":">>, <<"name", t[3]>>, <<"(">>>> \o TextOfAll(t[4]) \o <<<<")">>>>
    [] t[1] = "table" -> <<<<"{">>>> \o TextOfAll(t[2]) \o <<<<"}">>>>
    [] t[1] = "rec" -> <<<<"name", t[2]>>, <<"=">>>> \o Text(t[3])
    [] t[1] = "key" -> <<<<"[">>>> \o Text(t[2]) \o <<<<"]">>, <<"=">>>> \o Text(t[3])

-----------------------------------------------------------------------------
(* Values: v, and vs when all the values of the last expression count.     *)

Compare(op, x, y) ==
  LET not(r) == Result(Truth(r.v = False), r.ev)
  IN  CASE op = "<" -> Less(x, y) [] op = "<=" -> LessEqual(x, y)
        [] op = ">" -> Less(y, x) [] op = ">=" -> LessEqual(y, x)
        [] op = "==" -> Equal(x, y) [] op = "~=" -> not(Equal(x, y))

After(r, s) == Result(s.v, r.ev \o s.ev)

RECURSIVE Eval(_, _), EvalAll(_, _), EvalFields(_, _, _)

Binary(op, x, y) ==
  CASE op \in {"+", "-", "*", "//", "&", "<<", ">>"} -> Arith(op, x, y)
    [] op = ".." -> Concat(x, y)
    [] OTHER -> Compare(op, x, y)

Unary(op, x) ==
  CASE op = "not" -> Result(Truth(IsFalse(x)), <<>>)
    [] op = "#" -> Length(x)
    [] op = "-" -> Arith("unm", x, x)
    [] op = "~" -> Arith("~", x, x)

CallOf(f, args) == Result(Results(f, args), <<<<"call", f, args>>>>)

(* All the values of a call or of '...'; of other expressions, one.        *)
EvalMulti(t, env) ==
  CASE t[1] = "call" ->
         LET f == Eval(t[2], env)
             args == EvalAll(t[3], env)
         IN  After(f, After(args, CallOf(f.v, args.v)))
    [] t[1] = "method" ->
         LET o == Eval(t[2], env)
             f == Field(o.v, Str(t[3]))
             args == EvalAll(t[4], env)
         IN  After(o, After(f, After(args, CallOf(f.v, <<o.v>> \o args.v))))
    [] t[1] = "..." -> Result(env.varargs, <<>>)
    [] OTHER -> LET r == Eval(t, env) IN Result(<<r.v>>, r.ev)

EvalAll(ts, env) ==
  IF ts = <<>> THEN Result(<<>>, <<>>)
  ELSE IF Len(ts) = 1 THEN EvalMulti(ts[1], env)
  ELSE LET r == Eval(Head(ts), env)
           s == EvalAll(Tail(ts), env)
       IN  Result(<<r.v>> \o s.v, r.ev \o s.ev)

(* The items of a constructor, of which n are positional already.          *)
EvalFields(ts, env, n) ==
  IF ts = <<>> THEN Result(<<>>, <<>>)
  ELSE LET t == Head(ts)
           item == t[1] \notin {"rec", "key"}
           key == IF t[1] = "key" THEN Eval(t[2], env) ELSE Result(Str(t[2]), <<>>)
           r == IF item THEN IF Len(ts) = 1 THEN EvalMulti(t, env)
                             ELSE LET one == Eval(t, env) IN Result(<<one.v>>, one.ev)
                ELSE Eval(t[3], env)
           map == IF item THEN [k \in {<<"int", n + j>> : j \in 1 .. Len(r.v)} |-> r.v[k[2] - n]]
                  ELSE key.v :> r.v
           s == EvalFields(Tail(ts), env, IF item THEN n + 1 ELSE n)
       IN  Result(map @@ s.v, (IF item THEN <<>> ELSE key.ev) \o r.ev \o s.ev)

Eval(t, env) ==
  CASE t[1] = "lit" -> Result(t[2], <<>>)
    [] t[1] = "name" -> IF t[2] \in DOMAIN env.vars THEN Result(env.vars[t[2]], <<>>)
                        ELSE Field(env.globals, Str(t[2]))
    [] t[1] = "paren" -> Eval(t[2], env)
    [] t[1] = "un" -> LET x == Eval(t[3], env) IN After(x, Unary(t[2], x.v))
    [] t[1] = "bin" /\ t[2] \in {"and", "or"} ->
         LET x == Eval(t[3], env)
         IN  IF IsFalse(x.v) = (t[2] = "and") THEN x ELSE After(x, Eval(t[4], env))
    [] t[1] = "bin" ->
         LET x == Eval(t[3], env)
             y == Eval(t[4], env)
         IN  After(x, After(y, Binary(t[2], x.v, y.v)))
    [] t[1] = "field" -> LET x == Eval(t[2], env) IN After(x, Field(x.v, Str(t[3])))
    [] t[1] = "index" ->
         LET x == Eval(t[2], env)
             k == Eval(t[3], env)
         IN  After(x, After(k, Field(x.v, k.v)))
    [] t[1] = "table" -> LET r == EvalFields(t[2], env, 0) IN Result(<<"new", r.v>>, r.ev)
    [] OTHER -> LET r == EvalMulti(t, env) IN Result(IF r.v = <<>> THEN Nil ELSE r.v[1], r.ev)

-----------------------------------------------------------------------------
(* The parser and the machine on an expression.  The function has local    *)
(* variables a and b in registers 0 and 1, a constant c, an upvalue u and  *)
(* variable arguments.                                                     *)

CONSTANTS Registers, CValue

Function(tokens) ==
  LET variable(n, kind, reg) == [name |-> n, kind |-> kind, ridx |-> reg, val |-> CValue]
      upvalue(n) == [name |-> n, instack |-> TRUE, idx |-> 0, kind |-> "reg"]
  IN  WithActive([NewFunction(tokens, <<>>) EXCEPT
                    !.freereg = 2, !.created = 3, !.isvararg = TRUE,
                    !.actvar = <<variable("a", "reg", 0), variable("b", "reg", 1), variable("c", "ctc", 0)>>,
                    !.ups = <<upvalue("_ENV"), upvalue("u")>>], 3)

Environment(a, b, u) ==
  [vars |-> [a |-> a, b |-> b, c |-> CValue, u |-> u], globals |-> <<"_ENV">>,
   varargs |-> <<<<"arg1">>, <<"arg2">>>>]

Start(env) ==
  [pc |-> 1, R |-> [r \in 0 .. Registers |-> IF r = 0 THEN env.vars.a ELSE IF r = 1 THEN env.vars.b ELSE <<"old">>],
   up |-> (0 :> env.globals @@ 1 :> env.vars.u), varargs |-> env.varargs, top |-> 0, ev |-> <<>>,
   asize |-> [r \in 0 .. Registers |-> 0], ok |-> TRUE]

(* 'local x = e'                                                           *)
InNewLocal(tokens) == luaK_exp2nextreg(expr(Function(tokens)))

(* 'a = e'                                                                 *)
IntoLocal(tokens) == luaK_storevar(luaK_setoneret(expr(Function(tokens))), Expression("VLOCAL", 0))

(* 'u.x = e'                                                               *)
IntoField(tokens) ==
  LET var == fieldsel(With([Function(tokens) EXCEPT !.toks = <<<<".">>, <<"name", "x">>>> \o @],
                           Expression("VUPVAL", 1)))
  IN  luaK_storevar(luaK_setoneret(expr(var)), var.e)

(* 'if e then x = 1 else x = 2 end', x in register 2 (cond and             *)
(* test_then_block)                                                        *)
AsCondition(tokens) ==
  LET c == expr(Function(tokens))
      t == luaK_goiftrue(IF c.e.k = "VNIL" THEN [c EXCEPT !.e.k = "VFALSE"] ELSE c)
      then == luaK_jump(LoadNumber(t, 2, <<"int", 1>>))
      else == LoadNumber(luaK_patchtohere(then, t.e.f), 2, <<"int", 2>>)
  IN  luaK_patchtohere(else, Last1(then))

Executed(fs, env) == Run(fs.code, fs.k, Start(env))
SameLocals(m, env) == m.R[0] = env.vars.a /\ m.R[1] = env.vars.b
AllPatched(fs) == \A p \in DOMAIN fs.code : fs.code[p].op = "JMP" => fs.code[p].B # NO_JUMP
WellFormed(fs, reserved) == fs.ok /\ fs.freereg = reserved /\ fs.max < Registers /\ AllPatched(fs)

(* The code of an expression puts its value in the next register, does     *)
(* what the manual says in its order, and leaves the local variables and   *)
(* the stack of registers as they were.                                    *)
ComputesValue(t, env) ==
  \E fs \in {InNewLocal(Text(t))} : \E m \in {Executed(fs, env)} : \E r \in {Eval(t, env)} :
    WellFormed(fs, 3) /\ m.ok /\ m.R[2] = r.v /\ m.ev = r.ev /\ SameLocals(m, env)

(* Assigned to a local variable, the expression may still read it.         *)
AssignsLocal(t, env) ==
  \E fs \in {IntoLocal(Text(t))} : \E m \in {Executed(fs, env)} : \E r \in {Eval(t, env)} :
    WellFormed(fs, 2) /\ m.ok /\ m.R[0] = r.v /\ m.ev = r.ev /\ m.R[1] = env.vars.b

(* Assigned to a field, it may stay a constant.                            *)
AssignsField(t, env) ==
  \E fs \in {IntoField(Text(t))} : \E m \in {Executed(fs, env)} : \E r \in {Eval(t, env)} :
    /\ WellFormed(fs, 2) /\ m.ok /\ SameLocals(m, env)
    /\ m.ev = Append(r.ev, <<"set", env.vars.u, Str("x"), r.v>>)

(* Used as a condition, it selects the block.                              *)
Branches(t, env) ==
  \E fs \in {AsCondition(Text(t))} : \E m \in {Executed(fs, env)} : \E r \in {Eval(t, env)} :
    /\ WellFormed(fs, 2) /\ m.ok /\ SameLocals(m, env)
    /\ m.R[2] = <<"int", IF IsFalse(r.v) THEN 2 ELSE 1>> /\ m.ev = r.ev
=============================================================================
