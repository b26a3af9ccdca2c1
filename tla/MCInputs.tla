------------------------------ MODULE MCInputs ------------------------------
(***************************************************************************)
(* The functions of the program that compute a result from their input:    *)
(* the compiler and the libraries.  A behaviour picks a component and then *)
(* an input for it, and the properties compare the result with what the    *)
(* manual says of that input.  A sort, which asks its caller for the order *)
(* of elements, is the one that takes steps (Sort).                        *)
(***************************************************************************)
EXTENDS ExpressionSemantics, StatementSemantics, Sort

CONSTANTS
  Body,          \* statements of a loop, but one
  SizeA, SizeO   \* elements to sort with any answers, and with an order

VARIABLES kind, given
allvars == <<kind, given, vars>>

Sizes == [b |-> 1, h |-> 1, i |-> 2, l |-> 2, j |-> 2, T |-> 2, f |-> 2, n |-> 4, d |-> 4]
SizeofOption == [o \in DOMAIN Sizes \cup {"!"} |-> IF o = "!" THEN 4 ELSE Sizes[o]]

Match == INSTANCE MatchingSemantics WITH MAXCCALLS <- 4, LUA_MAXCAPTURES <- 2, Size <- 3
Num == INSTANCE NumberSemantics WITH NBITS <- 5, NBM <- 3, MAXEXP <- 4, Ignored <- {}
Chunk == INSTANCE Chunks WITH PAYLOAD <- 4, INSTRUCTION <- 2, INT <- 2, INTEGER <- 3, NUMBER <- 2,
                                  INT_MAX <- 31, MAX_SIZE <- 63, LUAI_MAXSHORTLEN <- 1
Scan == INSTANCE ScannerSemantics WITH LUA_MINBUFFER <- 4, MAX_SIZE <- 1000, INT_MAX <- 1000, UCHAR_MAX <- 255, UTF8LIMIT <- 2147483647
U8 == INSTANCE Utf8 WITH LUA_MINBUFFER <- 4, MAX_SIZE <- 1000, INT_MAX <- 1000, UCHAR_MAX <- 255, UTF8LIMIT <- 2147483647
Tab == INSTANCE TableLibrary WITH NBITS <- 4, NBM <- 3, MAXEXP <- 4, Ignored <- {}, Empty <- 99, INT_MAX <- 5, LUAI_MAXSTACK <- 6
Pack == INSTANCE StringPack WITH NB <- 3, SZINT <- 2, MAXINTSIZE <- 4, MAX_SIZE <- 31, Sizeof <- SizeofOption, NativeLittle <- TRUE

ASSUME Match!MatchingConstants /\ Chunk!ChunksConstants /\ Scan!ScannerConstants /\ U8!ScannerConstants /\ Pack!StringPackConstants /\ SortConstants

(* A table with a hole, and another one.                                   *)
ListWithHole == [k \in Tab!LuaInteger |-> IF k = 5 THEN 99 ELSE 100 + k]
AnotherList == [k \in Tab!LuaInteger |-> 300 + k]

-----------------------------------------------------------------------------
(* Expressions and programs for the compiler, in families that cross its   *)
(* operators, operands, statements and variables with each other.          *)
CValueInt == <<"int", 3>>

Lit(v) == <<"lit", v>>
N(n) == <<"name", n>>
Bin(op, x, y) == <<"bin", op, x, y>>
Un(op, x) == <<"un", op, x>>
Number(n) == Lit(<<"int", n>>)
Float(n) == Lit(<<"flt", n>>)
ThisCall(f, args) == <<"call", f, args>>

Small == {N("a"), N("u"), Lit(Nil), Lit(True), Number(1), Lit(Str("s")), ThisCall(N("b"), <<>>)}
Atoms == Small \cup
  {N("b"), N("c"), N("g"), Lit(False), Number(-3), Number(4), Number(20), Float(0), Float(2), <<"...">>,
   <<"paren", <<"...">>>>, <<"field", N("a"), "x">>, <<"field", N("u"), "x">>, <<"index", N("a"), N("b")>>,
   <<"index", N("u"), Number(1)>>, <<"method", N("a"), "x", <<N("b")>>>>, ThisCall(N("g"), <<N("a"), <<"...">>>>),
   <<"table", <<Number(1), Number(2), <<"rec", "x", N("a")>>, <<"...">>>>>>}
AllOps == BinOps
FewOps == {"+", "-", "<<", "..", "==", "<", "and", "or"}

(* One operator on atoms, and two operators on small ones.                 *)
Simple1(op) == {Bin(op, x, y) : x \in Atoms, y \in Atoms}
Unary1(op) == {Un(op, x) : x \in Atoms} \cup {Un(op, Un(o, x)) : o \in UnOps, x \in Small}
                \cup {Un(op, Bin(o, x, y)) : o \in FewOps, x \in Small, y \in Small}
Nested(op, o) == {Bin(op, Bin(o, x, y), z) : x \in Small, y \in Small, z \in Small}
                   \cup {Bin(op, x, Bin(o, y, z)) : x \in Small, y \in Small, z \in Small}
Constructors == {<<"table", <<x, y, z>>>> : x \in Small, y \in Atoms, z \in Small \cup {<<"...">>, <<"rec", "x", N("a")>>}}
                  \cup {<<"table", <<x, y, Number(1), Number(2), z>>>> : x \in Small, y \in {Number(1), <<"key", N("a"), Number(1)>>}, z \in Atoms}
                  \cup {ThisCall(x, <<y, z>>) : x \in Atoms \ {<<"...">>}, y \in Small, z \in Atoms}

Expressions(f) ==
  CASE f[1] = "binary" -> Simple1(f[2]) [] f[1] = "unary" -> Unary1(f[2])
    [] f[1] = "nested" -> Nested(f[2], f[3]) [] f[1] = "other" -> Constructors
ExpressionFamilies ==
  {<<"binary", op>> : op \in AllOps} \cup {<<"unary", op>> : op \in UnOps}
    \cup {<<"nested", op, o>> : op \in FewOps, o \in FewOps} \cup {<<"other">>}

Environments == {Environment(<<"int", 2>>, <<"obj">>, <<"flt", 3>>), Environment(<<"nil">>, <<"int", 1>>, <<"false">>)}

-----------------------------------------------------------------------------

T == ThisCall(N("t"), <<>>)
Give(x) == <<"callstat", ThisCall(N("f"), x)>>
AddOne == <<"assign", <<N("x")>>, <<Bin("+", N("x"), Number(1))>>>>
Getter == <<"function", <<>>, <<<<"return", <<N("x")>>>>>>>>
Setter == <<"function", <<>>, <<AddOne, <<"return", <<N("x")>>>>>>>>
LocalX(attrib, e) == <<"local", <<"x">>, <<attrib>>, <<e>>>>
Label == <<"label", "l">>
When(b) == <<"if", <<<<T, b>>>>, <<"none">>>>

SimpleStatements ==
  {LocalX("reg", Number(1)), LocalX("close", T), LocalX("const", Number(2)), Give(<<Getter>>), Give(<<Setter>>),
   Give(<<N("x")>>), AddOne, Label, When(<<<<"break">>>>), When(<<<<"goto", "l">>>>), When(<<<<"return", <<T>>>>>>)}

Loops(b) ==
  {<<"while", T, b>>, <<"repeat", b, N("x")>>, <<"repeat", b, T>>, <<"for", "x", Number(1), Number(2), b>>,
   <<"forin", <<"x", "y">>, <<T, T, T, T>>, b>>, <<"do", b>>, When(b),
   <<"if", <<<<T, b>>, <<T, b>>>>, b>>}

(* A loop with body b, before and after others of its kind.                *)
Looping(b) ==
  UNION {{<<st, Give(<<N("x")>>)>>, <<LocalX("reg", Number(1)), st, Give(<<N("x")>>), Label>>,
          <<LocalX("reg", Number(1)), Label, Give(<<N("x")>>), st>>} : st \in Loops(b)}

(* Assignments to several variables that are each other's tables and keys. *)
Targets == {N("x"), N("y"), N("u"), N("g"), <<"field", N("x"), "f">>, <<"field", N("u"), "f">>,
            <<"field", N("g"), "f">>, <<"index", N("x"), N("y")>>, <<"index", N("y"), Number(1)>>}
Sources == {<<N("x"), N("y")>>, <<N("y"), N("x"), T>>, <<T>>, <<N("u"), T>>, <<Number(1), Number(2), N("x")>>}
InFunction(b) ==
  <<<<"local", <<"u">>, <<"reg">>, <<T>>>>,
    <<"localfunction", "h", <<"x", "y">>, b>>,
    <<"callstat", ThisCall(N("h"), <<T, T>>)>>, Give(<<N("u")>>)>>
Assigning(first) ==
  {InFunction(<<<<"assign", ts, es>>, Give(<<N("x"), N("y"), N("u")>>)>>) :
     ts \in {<<first, t>> : t \in Targets} \cup {<<first, t, w>> : t \in Targets, w \in Targets}, es \in Sources}

(* Functions that capture, change and hand on variables of two levels,     *)
(* and return in every way.                                                *)
Inner == {<<>>, <<AddOne>>, <<<<"assign", <<N("x"), N("y")>>, <<N("y"), N("x")>>>>>>,
          <<LocalX("close", N("y"))>>, <<LocalX("reg", N("y")), Give(<<Setter>>)>>}
Returned == {<<>>, <<N("x")>>, <<N("x"), N("y")>>, <<<<"...">>>>, <<N("y"), <<"...">>>>, <<ThisCall(N("w"), <<<<"...">>>>)>>,
             <<ThisCall(N("h"), <<N("y")>>)>>, <<Setter, N("y")>>}
Calls == {<<Number(1)>>, <<N("x"), Setter, Number(3)>>, <<T, ThisCall(N("f"), <<>>)>>}
Functions2(b) ==
  {<<LocalX("reg", Number(1)), <<"local", <<"w">>, <<"reg">>, <<Setter>>>>,
     <<"localfunction", "h", <<"y">>, <<Give(<<<<"function", <<>>, <<AddOne, <<"return", <<N("x"), N("y")>>>>>>>>>>)>> \o b>>,
     <<"localfunction", "k", ps, b \o <<Give(<<N("x"), Getter>>), <<"return", r>>>>>>,
     <<"callstat", ThisCall(N("f"), <<ThisCall(N("k"), as), ThisCall(N("k"), as)>>)>>,
     <<"return", <<ThisCall(N("k"), as)>>>>>> :
   ps \in {<<"y", "...">>, <<"...">>, <<"x", "y", "...">>}, r \in Returned, as \in Calls}

ProgramsOf(f) ==
  CASE f[1] = "looping" -> UNION {Looping(f[2] \o <<s>>) : s \in SimpleStatements} \cup Looping(f[2])
    [] f[1] = "assigning" -> Assigning(f[2])
    [] f[1] = "functions" -> Functions2(f[2])

Object(n) == <<"obj", n>>
Answers == {<<Object(1), Object(2), Object(3), Nil, Object(4), Object(5), Nil, Object(6), Nil>>,
            <<Object(1), Nil, Object(2), Nil, Object(3)>>}

-----------------------------------------------------------------------------
(* The expression computes its value, in a new variable, assigned to a     *)
(* variable it may read, or to a field, and selects a block as a           *)
(* condition, with the effects and the order the manual asks for.          *)
ExpressionIsCompiled(x) ==
  \A env \in Environments :
    ComputesValue(x, env) /\ AssignsLocal(x, env) /\ AssignsField(x, env) /\ Branches(x, env)

(* The program does what its blocks mean, if the parser accepts it.        *)
ProgramIsCompiled(b) == \A answers \in Answers : BehavesAsMeant(b, answers)

Bodies == UNION {[1 .. n -> SimpleStatements] : n \in 0 .. Body}
ProgramFamilies ==
  ({"looping"} \X Bodies) \cup ({"assigning"} \X Targets) \cup ({"functions"} \X Inner)
-----------------------------------------------------------------------------
(* Any array without an order, which may answer anything, and all short    *)
(* arrays with one.                                                        *)
StartSort ==
  \/ sort(SizeA, [n \in 1 .. SizeA |-> n], FALSE)
  \/ \E n \in 0 .. SizeO : \E ranks \in [1 .. n -> 1 .. n] : sort(n, ranks, TRUE)

MCInit ==
  /\ given = <<>>
  /\ \/ kind = "start" /\ sort(0, <<>>, FALSE)
     \/ kind = "sort" /\ StartSort

PickFamily ==
  /\ kind = "start" /\ UNCHANGED vars
  /\ \/ kind' = "expressions" /\ given' \in ExpressionFamilies
     \/ kind' = "programs" /\ given' \in ProgramFamilies
     \/ kind' = "patterns" /\ given' \in Match!Families

PickExpression == kind = "expressions" /\ kind' = "expression" /\ given' \in Expressions(given) /\ UNCHANGED vars
PickProgram == kind = "programs" /\ kind' = "program" /\ given' \in ProgramsOf(given) /\ UNCHANGED vars
PickPattern == kind = "patterns" /\ kind' = "pattern" /\ given' \in Match!Patterns(given) /\ UNCHANGED vars

PickNumber ==
  /\ kind = "start" /\ UNCHANGED vars
  /\ \/ kind' = "value" /\ given' \in Num!Values
     \/ kind' = "numeral" /\ given' \in Num!Numerals
     \/ kind' = "order" /\ given' \in Num!Strings_
     \/ kind' = "interval" /\ given' \in Num!Intervals
     \/ kind' = "random" /\ given' \in Num!Words

PickChunk ==
  /\ kind = "start" /\ UNCHANGED vars
  /\ \/ \E f \in Chunk!Functions, strip, fixed \in BOOLEAN : kind' = "function" /\ given' = <<f, strip, fixed>>
     \/ \E n \in 1 .. 3 : \E b \in [1 .. n -> 0 .. Chunk!BASE - 1], limit \in {31, 63} : kind' = "varint" /\ given' = <<b, limit>>

PickText ==
  /\ kind = "start" /\ UNCHANGED vars
  /\ \/ kind' = "file" /\ given' \in Chunk!Files
     \/ kind' = "reader" /\ given' \in Chunk!Results
     \/ kind' = "text" /\ given' \in Scan!Texts
     \/ kind' = "phrase" /\ given' \in Scan!Phrases
     \/ kind' = "character" /\ given' \in Scan!Characters

PickLibrary ==
  /\ kind = "start" /\ UNCHANGED vars
  /\ \/ kind' = "code" /\ given' \in U8!Edges
     \/ kind' = "bytes" /\ given' \in U8!ByteStrings
     \/ kind' = "codes" /\ given' \in U8!Codings
     \/ kind' = "length" /\ given' \in Tab!LuaInteger
     \/ kind' = "range" /\ given' \in Tab!LuaInteger \X Tab!LuaInteger
     \/ kind' = "format" /\ given' \in Pack!Config \X Pack!Config
     \/ kind' = "packed" /\ given' \in Pack!ByteStrings
     \/ kind' = "slice" /\ given' \in (0 .. 3) \X (-6 .. 6) \X (-6 .. 6)

CompareElements == kind = "sort" /\ Next /\ UNCHANGED <<kind, given>>

MCNext ==
  \/ PickFamily \/ PickExpression \/ PickProgram \/ PickPattern \/ PickNumber \/ PickChunk \/ PickText \/ PickLibrary
  \/ CompareElements

MCSpec == MCInit /\ [][MCNext]_allvars /\ WF_allvars(CompareElements)
-----------------------------------------------------------------------------
(* The first properties are about the step that asks a question, which is  *)
(* answered as it is asked; only a sort takes steps of its own.            *)

(* Every expression computes its value, in a new variable, assigned to a   *)
(* variable it may read, or to a field, and selects the right block as a   *)
(* condition, with the effects and the order the manual asks for, and      *)
(* leaves registers and other variables alone: the whole of lcode.c's      *)
(* bookkeeping of pending jumps, registers and operands.                   *)
ExpressionsCompute == [][ kind' = "expression" => ExpressionIsCompiled(given') ]_allvars

(* Every program that the parser accepts does what its blocks mean, with   *)
(* one cell for each execution of a declaration, closed and shared as      *)
(* declared; and the parser rejects what jumps into a scope.               *)
BlocksBehave == [][ kind' = "program" => ProgramIsCompiled(given') ]_allvars

(* Finding, iterating and replacing (lstrlib.c) match a pattern as the     *)
(* manual defines it, with the captures of the match the manual says is    *)
(* chosen, through every repetition and backtracking.                      *)
MatchesMean == [][ kind' = "pattern" => Match!PatternIsMatched(given') ]_allvars

(* Numbers of both types are ordered, divided, shifted, rounded and read   *)
(* exactly, strings are ordered by their bytes, and math.random is uniform *)
(* within any interval and the same with 64-bit and with halved words.     *)
NumbersAreExact == [][
  /\ kind' = "value" => Num!ValueIsExact(given')
  /\ kind' = "numeral" => Num!NumeralIsExact(given')
  /\ kind' = "order" => Num!StringIsOrdered(given')
  /\ kind' = "interval" => Num!Few!UniformWithin(given'[1], given'[2])
  /\ kind' = "random" => Num!GeneratorsAgree(given')
  ]_allvars

(* What string.dump writes is loaded back, whole or stripped, copied or    *)
(* from a fixed buffer, with its strings shared; a chunk cut short or of   *)
(* another build is refused, and integers in it fit or are refused.        *)
ChunksComeBack == [][
  /\ kind' = "function" => Chunk!FunctionComesBack(given'[1], given'[2], given'[3])
  /\ kind' = "varint" => Chunk!VarintsAreExact(given'[1], given'[2])
  ]_allvars

(* A text has the tokens its characters mean, in whatever pieces the       *)
(* reader gives it, and files lose their marks and first comment only.     *)
TextsAreRead == [][
  /\ kind' = "file" => \A size \in {1, 2, 9} : Chunk!FileIsLoaded(given', size)
  /\ kind' = "reader" => Chunk!StreamIsInput(given')
  /\ kind' = "text" => Scan!CutsDoNotMatter(given') /\ Scan!LastlineIsTold(given')
  /\ kind' = "phrase" => Scan!WordsAreRead(given'[1], given'[2])
  /\ kind' = "character" => Scan!Utf8IsRight(given')
  ]_allvars

(* The UTF-8 library accepts the shortest sequence of each code and no     *)
(* other, and its positions agree; the table library moves every element   *)
(* once, whatever the overlap and the limits of the integers; what         *)
(* string.pack writes has the size that packsize says and is read back.    *)
LibrariesKeepData == [][
  /\ kind' = "code" => U8!CodeIsKept(given')
  /\ kind' = "bytes" => U8!BytesAreChecked(given')
  /\ kind' = "codes" => U8!PositionsAgree(given')
  /\ kind' = "length" => Tab!ShiftsElements(ListWithHole, given', 200)
  /\ kind' = "range" => Tab!MovesAtOnce(ListWithHole, AnotherList, given'[1], given'[2]) /\ Tab!VisitsRange(ListWithHole, given'[1], given'[2])
  /\ kind' = "format" => Pack!FormatPacks(given')
  /\ kind' = "packed" => Pack!BytesMeanInteger(given')
  /\ kind' = "slice" => Pack!SlicesString([k \in 1 .. given'[1] |-> k], given'[2], given'[3])
  ]_allvars

(* A sort ends, whatever the answers, if each comparison returns.          *)
SortEnds == kind = "sort" ~> Ended
=============================================================================
