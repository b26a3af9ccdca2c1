------------------------------- MODULE Buffers -------------------------------
(***************************************************************************)
(* String buffers (lauxlib.c) and the external strings they become         *)
(* (lua_pushextlstring, luaS_newextlstr).                                  *)
(*                                                                         *)
(* A buffer B writes to its own array (b = InB) or, when it has grown, to  *)
(* a block of the allocator, which a box on the stack holds: a userdata    *)
(* with a finalizer that also closes it.  blocks has the contents of the   *)
(* blocks that are allocated.  Any allocation may fail: the error removes  *)
(* the values of the stack and closes the box.  A collection may run at    *)
(* any time.  bad tells that something not allocated was used or freed.    *)
(***************************************************************************)
EXTENDS Integers, SequencesExt, FiniteSetsExt

CONSTANTS
  LUAL_BUFFERSIZE, LUAI_MAXSHORTLEN, MAX_SIZE,
  Pieces,              \* the strings that are added
  MAXADDS              \* bound: additions to the buffer

BuffersConstants ==
  /\ {LUAL_BUFFERSIZE, LUAI_MAXSHORTLEN, MAX_SIZE, MAXADDS} \subseteq Nat \ {0}
  /\ IsFiniteSet(Pieces) /\ \A p \in Pieces : p \in Seq(Nat)

VARIABLES B, stack, box, tbc, blocks, result, added, phase, bad
vars == <<B, stack, box, tbc, blocks, result, added, phase, bad>>

InB == 0
None == 0            \* no block
NULL == <<>>
Placeholder == "placeholder"
Box == "box"
Value == "value"
NoBox == [block |-> None, bsize |-> 0, alive |-> FALSE]

(* State of the machine as a record, for what is done in several steps.    *)
Now == [B |-> B, stack |-> stack, box |-> box, tbc |-> tbc, blocks |-> blocks, result |-> result,
        failed |-> FALSE, bad |-> bad]
buffonstack(s) == s.B.b # InB
Free(s) == CHOOSE i \in 1 .. Cardinality(DOMAIN s.blocks) + 1 : i \notin DOMAIN s.blocks
lua_remove(s, idx) == [s EXCEPT !.stack = RemoveAt(@, Len(@) + 1 + idx)]
(* The box stays on top.                                                   *)
Faultylua_insert(s, idx) == s

lua_insert(s, idx) == [s EXCEPT !.stack = InsertAt(Front(@), Len(@) + 1 + idx, Last(@))]

push(s, v) == [s EXCEPT !.stack = Append(@, v)]

(* The allocator: a block that moves is freed.  fails says whether it      *)
(* finds no memory.                                                        *)
Contents(s, b) == IF b = None THEN <<>> ELSE s.blocks[b]
Cut(c, size) == IF Len(c) > size THEN SubSeq(c, 1, size) ELSE c
free(s, b) == IF b = None THEN s
              ELSE IF b \notin DOMAIN s.blocks THEN [s EXCEPT !.bad = TRUE]
              ELSE [s EXCEPT !.blocks = [i \in DOMAIN s.blocks \ {b} |-> s.blocks[i]]]
resizebox(s, newsize, fails) ==
  LET new == Free(s)
      moved == [s EXCEPT !.blocks = [i \in DOMAIN s.blocks \cup {new} |-> IF i = new THEN Cut(Contents(s, s.box.block), newsize) ELSE s.blocks[i]]]
  IN  IF s.failed \/ s.box.bsize = newsize THEN s
      ELSE IF newsize = 0 THEN [free(s, s.box.block) EXCEPT !.box.block = None, !.box.bsize = 0]
      ELSE IF fails THEN [s EXCEPT !.failed = TRUE]
      ELSE [free(moved, s.box.block) EXCEPT !.box.block = new, !.box.bsize = newsize]
boxgc(s) == resizebox(s, 0, FALSE)
newbox(s, fails) == IF fails THEN [s EXCEPT !.failed = TRUE] ELSE [push(s, Box) EXCEPT !.box = [NoBox EXCEPT !.alive = TRUE]]

(* No room is counted for the zero at the end.                             *)
Faultynewbuffsize(s, sz) == (s.B.size \div 2) * 3

(* Half as much again, if that is enough.                                  *)
newbuffsize(s, sz) ==
  LET newsize == (s.B.size \div 2) * 3
      least == Len(s.B.n) + sz + 1
  IN  IF newsize < least \/ newsize > MAX_SIZE THEN least ELSE newsize

(* A box that is there is made larger; else the one that is created takes  *)
(* the slot of the placeholder, boxidx from the top.                       *)
prepbuffsize(s, sz, boxidx, nobox, nomemory) ==
  LET newsize == newbuffsize(s, sz)
      created == lua_insert(newbox(lua_remove(s, boxidx), nobox), boxidx)
      boxed == IF buffonstack(s) THEN resizebox(s, newsize, nomemory)
               ELSE resizebox([created EXCEPT !.tbc = TRUE], newsize, nomemory)
  IN  IF s.B.size - Len(s.B.n) >= sz THEN s
      ELSE IF sz > MAX_SIZE - Len(s.B.n) - 1 THEN [s EXCEPT !.failed = TRUE]
      ELSE IF nobox /\ ~buffonstack(s) THEN [lua_remove(s, boxidx) EXCEPT !.failed = TRUE]
      ELSE IF boxed.failed THEN boxed
      ELSE [boxed EXCEPT !.blocks[boxed.box.block] = s.B.n, !.B.b = boxed.box.block, !.B.size = newsize]

(* What is written goes to memory that is allocated and large enough.      *)
luaL_addsize(s, p) ==
  IF s.failed THEN s
  ELSE IF ~buffonstack(s) THEN [s EXCEPT !.B.n = @ \o p, !.bad = @ \/ Len(s.B.n) + Len(p) > LUAL_BUFFERSIZE]
  ELSE IF s.B.b \notin DOMAIN s.blocks THEN [s EXCEPT !.bad = TRUE]
  ELSE [s EXCEPT !.blocks[s.B.b] = @ \o p, !.B.n = @ \o p, !.bad = @ \/ Len(s.B.n) + Len(p) > s.box.bsize]

-----------------------------------------------------------------------------
Pop(s) == [s EXCEPT !.stack = Front(@)]
luaL_addlstring(p, nobox, nomemory) == IF p = <<>> THEN Now ELSE luaL_addsize(prepbuffsize(Now, Len(p), -1, nobox, nomemory), p)
(* The value is above the box.                                             *)
luaL_addvalue(p, nobox, nomemory) ==
  LET s == luaL_addsize(prepbuffsize(push(Now, Value), Len(p), -2, nobox, nomemory), p)
  IN  IF s.failed THEN s ELSE Pop(s)

(* The string has the block or, if it is short, a copy; if there is no     *)
(* memory for it the block is freed at once.                               *)
luaS_newextlstr(s, block, len, nomemory) ==
  IF nomemory THEN [free(s, block) EXCEPT !.failed = TRUE]
  ELSE LET text == SubSeq(s.blocks[block], 1, len)
       IN  IF len <= LUAI_MAXSHORTLEN THEN [free(s, block) EXCEPT !.result = [text |-> text, block |-> None]]
           ELSE [s EXCEPT !.result = [text |-> text, block |-> block]]

(* The box still has what the string took.                                 *)
FaultyReleased(s) == s

Released(s) == [s EXCEPT !.box.block = None, !.box.bsize = 0]

lua_closeslot(s) == [boxgc(s) EXCEPT !.tbc = FALSE]
luaL_pushresult(noshrink, nostring) ==
  LET len == Len(B.n)
      shrunk == resizebox(Now, len + 1, noshrink)
      string == luaS_newextlstr(Released(shrunk), shrunk.box.block, len, nostring)
      plain == IF nostring THEN [Now EXCEPT !.failed = TRUE] ELSE [Now EXCEPT !.result = [text |-> B.n, block |-> None]]
  IN  IF ~buffonstack(Now) THEN IF plain.failed THEN plain ELSE lua_remove(push(plain, Value), -2)
      ELSE IF shrunk.failed THEN shrunk
      ELSE IF string.failed THEN string
      ELSE lua_remove(lua_closeslot(push(string, Value)), -2)

-----------------------------------------------------------------------------
(* An error closes the box, if it is to be closed, and empties the stack.  *)
Unwound(s) == LET closed == IF s.tbc THEN [boxgc([s EXCEPT !.failed = FALSE]) EXCEPT !.tbc = FALSE] ELSE s
              IN  [closed EXCEPT !.stack = <<>>]
Becomes(s, next) ==
  \E e \in {IF s.failed THEN Unwound(s) ELSE s} :
    /\ B' = e.B /\ stack' = e.stack /\ box' = e.box /\ tbc' = e.tbc /\ blocks' = e.blocks /\ result' = e.result /\ bad' = e.bad
    /\ phase' = IF s.failed THEN "failed" ELSE next

NoString == [text |-> <<>>, block |-> None]
luaL_buffinit ==
  /\ phase = "none" /\ phase' = "filling"
  /\ B' = [b |-> InB, n |-> <<>>, size |-> LUAL_BUFFERSIZE] /\ stack' = <<Placeholder>>
  /\ added' = <<>> /\ UNCHANGED <<box, tbc, blocks, result, bad>>
Add ==
  /\ phase = "filling" /\ Len(added) < MAXADDS
  /\ \E p \in Pieces, nobox, nomemory \in BOOLEAN :
       /\ Becomes(luaL_addlstring(p, nobox, nomemory), "filling") \/ Becomes(luaL_addvalue(p, nobox, nomemory), "filling")
       /\ added' = Append(added, p)
PushResult ==
  /\ phase = "filling" /\ UNCHANGED added
  /\ \E noshrink, nostring \in BOOLEAN : Becomes(luaL_pushresult(noshrink, nostring), "done")
(* A collection finds the box dead and calls its finalizer.                *)
CollectBox ==
  /\ Box \notin Range(stack) /\ box.alive
  /\ \E s \in {[boxgc(Now) EXCEPT !.box.alive = FALSE]} : Becomes(s, phase) /\ UNCHANGED added
(* The string is dropped, and a collection frees it.                       *)
CollectString ==
  /\ phase = "done" /\ stack' = <<>> /\ phase' = "none" /\ result' = NoString
  /\ \E s \in {free(Now, result.block)} : blocks' = s.blocks /\ bad' = s.bad
  /\ B' = [b |-> InB, n |-> <<>>, size |-> LUAL_BUFFERSIZE] /\ added' = <<>> /\ UNCHANGED <<box, tbc>>
Recover ==
  /\ phase = "failed" /\ phase' = "none" /\ added' = <<>>
  /\ B' = [b |-> InB, n |-> <<>>, size |-> LUAL_BUFFERSIZE]
  /\ UNCHANGED <<stack, box, tbc, blocks, result, bad>>
Init ==
  /\ B = [b |-> InB, n |-> <<>>, size |-> LUAL_BUFFERSIZE] /\ stack = <<>> /\ box = NoBox /\ tbc = FALSE
  /\ blocks = <<>> /\ result = NoString /\ added = <<>> /\ phase = "none" /\ bad = FALSE
Next == luaL_buffinit \/ Add \/ PushResult \/ CollectBox \/ CollectString \/ Recover
Spec == Init /\ [][Next]_vars

-----------------------------------------------------------------------------
(* Each block has exactly one owner that will free it, the box or the      *)
(* string, whatever failed; nothing is freed twice or used when it is not  *)
(* allocated, and no write goes past the end (resizebox, luaL_pushresult,  *)
(* luaS_newextlstr).                                                       *)
BlocksAreOwned ==
  /\ ~bad
  /\ DOMAIN blocks = {box.block, result.block} \ {None}
  /\ box.block # None => box.block # result.block
  /\ phase \in {"none", "failed"} => blocks = <<>>

(* The buffer has all that was added to it, its box or placeholder is on   *)
(* top of the stack, and the string is the whole of it.                    *)
BufferIsWhole ==
  /\ phase = "filling" =>
       /\ B.n = FlattenSeq(added) /\ Len(B.n) <= B.size
       /\ stack = <<IF B.b = InB THEN Placeholder ELSE Box>> /\ tbc = (B.b # InB)
       /\ B.b # InB => B.b = box.block /\ blocks[B.b] = B.n /\ B.size = box.bsize
  /\ phase = "done" => stack = <<Value>> /\ result.text = FlattenSeq(added) /\ ~tbc
       /\ (result.block # None => SubSeq(blocks[result.block], 1, Len(result.text)) = result.text)
=============================================================================
