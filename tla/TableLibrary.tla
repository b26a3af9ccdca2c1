----------------------------- MODULE TableLibrary -----------------------------
(***************************************************************************)
(* table.insert, remove, move, concat, pack and unpack (ltablib.c).        *)
(*                                                                         *)
(* A table is a function on every integer; its length n is what its        *)
(* __len answers: any integer at all.  An operation yields the table it    *)
(* leaves, the values it returns and the error it raised.  Signed          *)
(* arithmetic that overflows has no meaning in C: an index out of range    *)
(* makes overflow true.                                                    *)
(***************************************************************************)
EXTENDS Numbers, SequencesExt

CONSTANTS Empty, INT_MAX, LUAI_MAXSTACK

TableLibraryConstants == NumbersConstants /\ INT_MAX \in 1 .. LUA_MAXINTEGER /\ LUAI_MAXSTACK \in Nat

Done(t) == [t |-> t, values |-> <<>>, error |-> "", overflow |-> FALSE]
luaL_error(r, e) == [r EXCEPT !.error = e]
lua_geti(r, i) == IF i \in LuaInteger THEN r.t[i] ELSE Empty
lua_seti(r, i, v) == IF i \in LuaInteger THEN [r EXCEPT !.t[i] = v] ELSE [r EXCEPT !.overflow = TRUE]
Copy(r, from, to) == [lua_seti(r, to, lua_geti(r, from)) EXCEPT !.overflow = @ \/ {from, to} \ LuaInteger # {}]
Up(from, to) == [k \in 1 .. IF to < from THEN 0 ELSE to - from + 1 |-> from + k - 1]
Down(from, to) == Reverse(Up(to, from))

(* at is <<>> when no position is given.                                   *)
tinsert(t, n, at, v) ==
  LET e == Wrap(n + 1)
      pos == IF at = <<>> THEN e ELSE at[1]
      moved == FoldLeft(LAMBDA r, i : Copy(r, i - 1, i), Done(t), Down(e, pos + 1))
  IN  IF at # <<>> /\ l_castS2U(pos - 1) >= l_castS2U(e) THEN luaL_error(Done(t), "position out of bounds")
      ELSE lua_seti(moved, pos, v)

(* One element too many is moved.                                          *)
Faultytremove(t, n, at) ==
  LET pos == IF at = <<>> THEN n ELSE at[1]
      moved == FoldLeft(LAMBDA r, i : Copy(r, i + 1, i), [Done(t) EXCEPT !.values = <<t[pos]>>], Up(pos, n))
  IN  IF pos # n /\ l_castS2U(pos - 1) > l_castS2U(n) THEN luaL_error(Done(t), "position out of bounds") ELSE moved

tremove(t, n, at) ==
  LET pos == IF at = <<>> THEN n ELSE at[1]
      moved == FoldLeft(LAMBDA r, i : Copy(r, i + 1, i), [Done(t) EXCEPT !.values = <<t[pos]>>], Up(pos, n - 1))
  IN  IF pos # n /\ l_castS2U(pos - 1) > l_castS2U(n) THEN luaL_error(Done(t), "position out of bounds")
      ELSE lua_seti(moved, IF pos < n THEN n ELSE pos, Empty)

(* The last element of the origin is taken for one beyond it.              *)
FaultyIncreasing(f, e, t, same) == t >= e \/ t <= f \/ ~same

Increasing(f, e, t, same) == t > e \/ t <= f \/ ~same

(* source and tt are the contents of the two tables, which may be one;     *)
(* equal is what __eq says of two that are not.                            *)
tmove(source, f, e, t, tt, one, equal) ==
  LET n == e - f + 1
      order == IF Increasing(f, e, t, one \/ equal) THEN Up(0, n - 1) ELSE Down(n - 1, 0)
      From(r) == IF one THEN r ELSE Done(source)
      Move(r, i) == [lua_seti(r, t + i, lua_geti(From(r), f + i)) EXCEPT !.overflow = @ \/ {f + i, t + i} \ LuaInteger # {}]
  IN  IF e < f THEN Done(tt)
      ELSE IF ~(f > 0 \/ e < LUA_MAXINTEGER + f) THEN luaL_error(Done(tt), "too many elements to move")
      ELSE IF t > LUA_MAXINTEGER - n + 1 THEN luaL_error(Done(tt), "destination wrap around")
      ELSE FoldLeft(Move, Done(tt), order)

addfield(r, i) == IF r.error # "" THEN r
                  ELSE IF lua_geti(r, i) = Empty THEN luaL_error(r, "invalid value")
                  ELSE [r EXCEPT !.values = Append(@, r.t[i])]
(* Separators are left out: one follows each field but the last.           *)
tconcat(t, i, last) ==
  LET most == FoldLeft(addfield, Done(t), Up(i, last - 1)) IN IF i <= last THEN addfield(most, last) ELSE most

tpack(t, vs) == FoldLeft(LAMBDA r, i : lua_seti(r, i, vs[i]), Done(t), Down(Len(vs), 1))
(* The count is compared after it was incremented.                         *)
FaultyCount(i, e) == Wrap(e - i + 1)

Count(i, e) == l_castS2U(e - i)

tunpack(t, i, e) ==
  IF i > e THEN Done(t)
  ELSE IF Count(i, e) >= INT_MAX \/ Count(i, e) + 1 > LUAI_MAXSTACK THEN luaL_error(Done(t), "too many results to unpack")
  ELSE [Done(t) EXCEPT !.values = Append([k \in 1 .. e - i |-> t[i + k - 1]], t[e])]

-----------------------------------------------------------------------------
Inserted(t, n, pos, v) == [k \in LuaInteger |-> IF k = pos THEN v ELSE IF k \in pos + 1 .. n + 1 THEN t[k - 1] ELSE t[k]]
Removed(t, n, pos) == [k \in LuaInteger |-> IF k \in pos .. n - 1 THEN t[k + 1] ELSE IF k = (IF pos = n + 1 THEN pos ELSE n) THEN Empty ELSE t[k]]
Moved(source, f, e, t, tt) == [k \in LuaInteger |-> IF k \in t .. t + e - f THEN source[f + k - t] ELSE tt[k]]
(* insert and remove shift the elements of a sequence by one, at exactly   *)
(* the positions they accept; with lengths no sequence has, they still     *)
(* end, and no index overflows (tinsert, tremove).                         *)
ShiftsElements(t, n, v) ==
  /\ \A at \in {<<>>} \cup {<<p>> : p \in LuaInteger} : ~tinsert(t, n, at, v).overflow /\ ~tremove(t, n, at).overflow
  /\ tinsert(t, n, <<>>, v).t = [t EXCEPT ![Wrap(n + 1)] = v]
  /\ tremove(t, n, <<>>).t = [t EXCEPT ![n] = Empty] /\ tremove(t, n, <<>>).values = <<t[n]>>
  /\ n \in 0 .. LUA_MAXINTEGER - 1 =>
       \A p \in LuaInteger :
         \E i \in {tinsert(t, n, <<p>>, v)}, r \in {tremove(t, n, <<p>>)} :
           /\ IF p \in 1 .. n + 1 THEN i.error = "" /\ i.t = Inserted(t, n, p, v) ELSE i.error # "" /\ i.t = t
           /\ IF p \in 1 .. n + 1 \/ p = n THEN r.error = "" /\ r.t = Removed(t, n, p) /\ r.values = <<t[p]>> ELSE r.error # "" /\ r.t = t

(* move copies a range as if all at once, wherever the ranges overlap and  *)
(* whatever __eq answers, or rejects exactly the ranges that do not fit    *)
(* the integers (tmove).                                                   *)
MovesAtOnce(source, other, f, e) ==
  \A t \in LuaInteger, one, equal \in BOOLEAN :
    \E tt \in {IF one THEN source ELSE other} : \E r \in {tmove(source, f, e, t, tt, one, equal)} :
      /\ ~r.overflow
      /\ IF e >= f /\ (e - f + 1 > LUA_MAXINTEGER \/ t + e - f > LUA_MAXINTEGER) THEN r.error # "" /\ r.t = tt
         ELSE r.error = "" /\ r.t = Moved(source, f, e, t, tt)

(* concat and unpack visit exactly the range they are given, up to the     *)
(* largest integer (tconcat, tunpack).                                     *)
VisitsRange(t, i, e) ==
  LET range == [k \in 1 .. IF e < i THEN 0 ELSE e - i + 1 |-> t[i + k - 1]] IN
  /\ \E c \in {tconcat(t, i, e)} : IF Empty \in {range[k] : k \in DOMAIN range} THEN c.error # "" ELSE c.error = "" /\ c.values = range
  /\ \E u \in {tunpack(t, i, e)} : IF Len(range) > INT_MAX \/ Len(range) > LUAI_MAXSTACK THEN u.error # "" ELSE u.error = "" /\ u.values = range
===============================================================================
