----------------------------- MODULE Metamethods -----------------------------
(***************************************************************************)
(* Metamethods (ltm.c) and the accesses that use them (lvm.c, lapi.c).     *)
(*                                                                         *)
(* raw has the fields of the tables and metatable their metatables; the    *)
(* other objects have the metatable of their type.  flags[t] is what a     *)
(* table remembers of itself: the events for which it has no field.  A     *)
(* handler Fn is a function; what it does is the steps that follow.        *)
(***************************************************************************)
EXTENDS Integers, Sequences, FiniteSets

CONSTANTS
  Tables,              \* numbers above Nil
  TypeMetatable,       \* the metatable of each other object that has one
  Nil, Fn, Number,     \* other values
  Names,               \* the keys that are strings
  Values,              \* bound: what is stored in the field of each key
  MAXTAGLOOP
MetamethodsConstants ==
  /\ Tables \subseteq Nat /\ Nil \notin Tables /\ Cardinality({Nil, Fn, Number} \cup Tables) = Cardinality(Tables) + 3
  /\ \A o \in DOMAIN TypeMetatable : o \notin Tables /\ TypeMetatable[o] \in Tables
  /\ {"__index", "__newindex", "__eq"} \subseteq Names /\ Names \subseteq DOMAIN Values /\ MAXTAGLOOP \in Nat \ {0}

VARIABLES raw, metatable, flags
vars == <<raw, metatable, flags>>

Element == "1"       \* an index in the array part of each table
Keys == Names \cup {Element}
Cached == {"__index", "__newindex", "__eq"}
Objects == Tables \cup DOMAIN TypeMetatable

(* An access gives the flags and fields it leaves, its outcome, value and  *)
(* the call that it makes, if any.                                         *)
Access(r, fl, outcome, value, call) == [raw |-> r, flags |-> fl, outcome |-> outcome, value |-> value, call |-> call]
Gives(fl, v) == Access(raw, fl, "value", v, <<>>)
Calls(fl, arguments) == Access(raw, fl, "called", Number, arguments)
luaG_runerror(fl) == Access(raw, fl, "loop", Nil, <<>>)
luaG_typeerror(fl) == Access(raw, fl, "error", Nil, <<>>)

-----------------------------------------------------------------------------
Metatable(o) == IF o \in Tables THEN metatable[o]
                ELSE IF o \in DOMAIN TypeMetatable THEN TypeMetatable[o] ELSE Nil
luaT_gettmbyobj(o, event) == IF Metatable(o) = Nil THEN Nil ELSE raw[Metatable(o)][event]
luaT_gettm(fl, mt, event) ==
  LET tm == raw[mt][event]
  IN  [tm |-> tm, flags |-> IF tm = Nil THEN [fl EXCEPT ![mt] = @ \cup {event}] ELSE fl]
checknoTM(fl, mt, event) == mt = Nil \/ event \in fl[mt]
fasttm(fl, mt, event) == IF checknoTM(fl, mt, event) THEN [tm |-> Nil, flags |-> fl] ELSE luaT_gettm(fl, mt, event)

(* The table that has the handlers is forgotten, not the one that changed. *)
FaultyinvalidateTMcache(fl, t) == IF metatable[t] = Nil THEN fl ELSE [fl EXCEPT ![metatable[t]] = {}]

invalidateTMcache(fl, t) == [fl EXCEPT ![t] = {}]

-----------------------------------------------------------------------------
(* t[k].                                                                   *)

RECURSIVE GetLoop(_, _, _, _)
GetLoop(fl, t, k, loop) ==
  LET istable == t \in Tables
      look == IF istable THEN fasttm(fl, metatable[t], "__index") ELSE [tm |-> luaT_gettmbyobj(t, "__index"), flags |-> fl]
      tm == look.tm
  IN  IF loop = MAXTAGLOOP THEN luaG_runerror(fl)
      ELSE IF tm = Nil THEN IF istable THEN Gives(look.flags, Nil) ELSE luaG_typeerror(fl)
      ELSE IF tm = Fn THEN Calls(look.flags, <<t, k>>)
      ELSE IF tm \in Tables /\ raw[tm][k] # Nil THEN Gives(look.flags, raw[tm][k])
      ELSE GetLoop(look.flags, tm, k, loop + 1)
luaV_finishget(t, k) == GetLoop(flags, t, k, 0)
lua_gettable(t, k) == IF t \in Tables /\ raw[t][k] # Nil THEN Gives(flags, raw[t][k]) ELSE luaV_finishget(t, k)

-----------------------------------------------------------------------------
(* t[k] = v.                                                               *)

Stored(t, k, v) == [raw EXCEPT ![t][k] = v]
(* An element of the array part is written even if it is nil.              *)
FaultyHOK(fl, t, k) == raw[t][k] # Nil \/ k = Element

(* Whether luaH_pset has written: there is a value, or no handler is known *)
(* to be missed.                                                           *)
HOK(fl, t, k) == raw[t][k] # Nil \/ (k = Element /\ checknoTM(fl, metatable[t], "__newindex"))

Writes(fl, t, k, v) == Access(Stored(t, k, v), fl, "stored", v, <<>>)
RECURSIVE SetLoop(_, _, _, _, _)
SetLoop(fl, t, k, v, loop) ==
  LET istable == t \in Tables
      look == IF istable THEN fasttm(fl, metatable[t], "__newindex") ELSE [tm |-> luaT_gettmbyobj(t, "__newindex"), flags |-> fl]
      tm == look.tm
  IN  IF loop = MAXTAGLOOP THEN luaG_runerror(fl)
      ELSE IF tm = Nil THEN IF istable THEN Writes(invalidateTMcache(look.flags, t), t, k, v) ELSE luaG_typeerror(fl)
      ELSE IF tm = Fn THEN Calls(look.flags, <<t, k, v>>)
      ELSE IF tm \in Tables /\ HOK(look.flags, tm, k) THEN Writes(look.flags, tm, k, v)
      ELSE SetLoop(look.flags, tm, k, v, loop + 1)
luaV_finishset(t, k, v) == SetLoop(flags, t, k, v, 0)
lua_settable(t, k, v) == IF t \in Tables /\ HOK(flags, t, k) THEN Writes(flags, t, k, v) ELSE luaV_finishset(t, k, v)

(* Raw accesses; one by an index leaves the flags alone.                   *)
lua_rawset(t, k, v) == Writes(invalidateTMcache(flags, t), t, k, v)
lua_rawseti(t, v) == Writes(flags, t, Element, v)

-----------------------------------------------------------------------------
(* Equality, and operators with two operands.                              *)

(* The second operand is asked only if the first has no metatable.         *)
FaultyluaV_equalobj(t1, t2) ==
  LET first == fasttm(flags, Metatable(t1), "__eq")
  IN  IF t1 = t2 \/ {t1, t2} \cap Tables # {t1, t2} THEN Gives(flags, t1 = t2)
      ELSE IF first.tm # Nil THEN Calls(first.flags, <<t1, t2>>)
      ELSE Gives(first.flags, FALSE)

luaV_equalobj(t1, t2) ==
  LET first == fasttm(flags, Metatable(t1), "__eq")
      second == fasttm(first.flags, Metatable(t2), "__eq")
  IN  IF t1 = t2 \/ {t1, t2} \cap Tables # {t1, t2} THEN Gives(flags, t1 = t2)
      ELSE IF first.tm # Nil THEN Calls(first.flags, <<t1, t2>>)
      ELSE IF second.tm # Nil THEN Calls(second.flags, <<t1, t2>>)
      ELSE Gives(second.flags, FALSE)

callbinTM(p1, p2, event) ==
  IF luaT_gettmbyobj(p1, event) # Nil \/ luaT_gettmbyobj(p2, event) # Nil THEN Calls(flags, <<p1, p2>>) ELSE luaG_typeerror(flags)
luaT_trybinTM(p1, p2, event) == callbinTM(p1, p2, event)
(* The operands were exchanged for the instruction.                        *)
luaT_trybinassocTM(p1, p2, flip, event) == IF flip THEN luaT_trybinTM(p2, p1, event) ELSE luaT_trybinTM(p1, p2, event)
luaT_trybiniTM(p1, flip, event) == luaT_trybinassocTM(p1, Number, flip, event)
luaT_callorderTM(p1, p2, event) == callbinTM(p1, p2, event)
luaT_callorderiTM(p1, flip, event) == IF flip THEN luaT_callorderTM(Number, p1, event) ELSE luaT_callorderTM(p1, Number, event)

-----------------------------------------------------------------------------
Init == /\ raw = [t \in Tables |-> [k \in Keys |-> Nil]]
        /\ metatable = [t \in Tables |-> Nil]
        /\ flags = [t \in Tables |-> {}]
Leaves(a) == raw' = a.raw /\ flags' = a.flags /\ UNCHANGED metatable
Get == \E t \in Objects, k \in Keys : Leaves(lua_gettable(t, k))
Set == \E t \in Objects, k \in Keys : \E v \in Values[k] : Leaves(lua_settable(t, k, v))
RawSet == \E t \in Tables, k \in Keys : \E v \in Values[k] : Leaves(lua_rawset(t, k, v))
RawSetIndex == \E t \in Tables, v \in Values[Element] : Leaves(lua_rawseti(t, v))
Equal == \E t1, t2 \in Tables : Leaves(luaV_equalobj(t1, t2))
SetMetatable == \E t \in Tables, mt \in Tables \cup {Nil} : metatable' = [metatable EXCEPT ![t] = mt] /\ UNCHANGED <<raw, flags>>
Next == Get \/ Set \/ RawSet \/ RawSetIndex \/ Equal \/ SetMetatable
Spec == Init /\ [][Next]_vars

-----------------------------------------------------------------------------
(* What a table remembers to lack it does lack, whoever wrote to it        *)
(* (luaT_gettm, invalidateTMcache).                                        *)
AbsenceIsTrue == \A t \in Tables : \A e \in flags[t] : raw[t][e] = Nil

(* The objects an access goes through: from each to its handler.           *)
Chain(o, event) ==
  LET chain[i \in 0 .. MAXTAGLOOP] ==
        IF i = 0 THEN o
        ELSE LET h == luaT_gettmbyobj(chain[i - 1], event) IN IF h = Fn THEN Nil ELSE h
  IN  chain
Has(o, k) == o \in Tables /\ raw[o][k] # Nil
(* An access ends at the first object of the chain that has the key, or    *)
(* whose handler is a function or missing.  (What is written at an index   *)
(* may go one object further.)                                             *)
EndsAt(c, k, event) ==
  {i \in 0 .. MAXTAGLOOP : Has(c[i], k) \/ (i < MAXTAGLOOP /\ luaT_gettmbyobj(c[i], event) \in {Nil, Fn})}
Meant(a, o, k, event, args, found, lacking) ==
  LET c == Chain(o, event)
      ends == EndsAt(c, k, event)
      end == CHOOSE i \in ends : \A j \in ends : i <= j
      at == c[end]
      limit == c[MAXTAGLOOP]
  IN  IF ends = {}
      THEN \/ a.outcome = "loop" /\ a.raw = raw
           \/ /\ k = Element /\ limit \in Tables /\ luaT_gettmbyobj(limit, event) = Nil
              /\ [a EXCEPT !.flags = flags] = lacking[limit]
      ELSE IF Has(at, k) THEN [a EXCEPT !.flags = flags] = found[at]
      ELSE IF luaT_gettmbyobj(at, event) = Fn THEN a.outcome = "called" /\ a.call = <<at>> \o args /\ a.raw = raw
      ELSE IF at \in Tables THEN [a EXCEPT !.flags = flags] = lacking[at]
      ELSE a.outcome = "error" /\ a.raw = raw

(* Every access means what the fields and metatables say, whatever the     *)
(* tables remember: a handler is called if and only if there is one, and a *)
(* write goes where the chain of handlers ends (luaV_finishget,            *)
(* luaV_finishset, luaV_equalobj).                                         *)
AccessesMean ==
  /\ \A o \in Objects, k \in Keys :
       LET got == [t \in Tables |-> Access(raw, flags, "value", raw[t][k], <<>>)]
           put == [t \in Tables |-> Access([raw EXCEPT ![t][k] = Number], flags, "stored", Number, <<>>)]
       IN  /\ Meant(lua_gettable(o, k), o, k, "__index", <<k>>, got, got)
           /\ Meant(lua_settable(o, k, Number), o, k, "__newindex", <<k, Number>>, put, put)
  /\ \A t1, t2 \in Tables :
       LET handled == t1 # t2 /\ Fn \in {luaT_gettmbyobj(t1, "__eq"), luaT_gettmbyobj(t2, "__eq")}
       IN  luaV_equalobj(t1, t2).outcome = IF handled THEN "called" ELSE "value"
=============================================================================
