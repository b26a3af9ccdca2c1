----------------------------- MODULE Coroutines -----------------------------
(***************************************************************************)
(* Calls, errors, to-be-closed variables and coroutines (ldo.c, lstate.c,  *)
(* lcorolib.c and the parts of lapi.c, lfunc.c and lvm.c they use).        *)
(*                                                                         *)
(* A thread has a chain of frames (CallInfo), which survives a yield, and  *)
(* the C stack that all threads share has the activations of the C         *)
(* functions of the runtime, which a yield or an error cuts off.  The      *)
(* program chooses what the running Lua or C function does next; all else  *)
(* follows.                                                                *)
(*                                                                         *)
(* A position in a stack is the number of its slots in use, one for the    *)
(* function of a frame and one for a to-be-closed variable: other values   *)
(* are left out.  Tail calls and hooks are left out as well.               *)
(*                                                                         *)
(* An activation is a record with its kind, its thread and                 *)
(*   exec     inc                       luaV_execute                       *)
(*   cfun     inc, cont                 a C function or a continuation     *)
(*   close    level, yy, for            luaF_close                         *)
(*   try      of, depth, saved, ...     luaD_rawrunprotected               *)
(*   caught   errfunc                   luaD_pcall after an error          *)
(*   reset                              luaE_resetthread                   *)
(*   handler                            luaG_errormsg                      *)
(*   unroll                             resume or unroll                   *)
(*   main                               the host program                   *)
(* where inc tells how the call was counted in nCcalls: 0, not at all; 1,  *)
(* as a C call; 2, as a non-yieldable C call (nyci).                       *)
(***************************************************************************)
EXTENDS Naturals, FiniteSets, SequencesExt

CONSTANTS
  Thread, MainThread,
  LUAI_MAXCCALLS,
  ErrorCCalls,     \* LUAI_MAXCCALLS / 10 * 11
  MaxStack,        \* bound of the model: slots before a thread stops calling
  Uses             \* bound of the model: what the program makes use of

ASSUME CoroutineConstants ==
  /\ MainThread \in Thread
  /\ LUAI_MAXCCALLS \in Nat /\ ErrorCCalls \in Nat /\ LUAI_MAXCCALLS < ErrorCCalls
  /\ MaxStack \in Nat
  /\ Uses \subseteq {"callk", "pcallk", "pcall", "handler", "meta", "toclose", "tbc",
                     "yieldk", "close", "exception", "kexception"}

VARIABLES
  ci,       \* ci[t]: the frames of t, without its base
  tbc,      \* tbc[t]: positions of the variables to be closed, and their frames
  status,   \* L->status
  body,     \* body[t]: t has a function to start with
  nC, nny,  \* the two parts of L->nCcalls
  errfunc,  \* L->errfunc: the frame that holds the message handler, or 0
  cs,       \* the C stack
  exc       \* an error being raised ("error"), or what is thrown

thread == <<ci, tbc, status, body, errfunc>>
counts == <<nC, nny>>
vars == <<ci, tbc, status, body, nC, nny, errfunc, cs, exc>>

Coroutine == Thread \ {MainThread}
cur == Last(cs)
L == cur.thread
top == Last(ci[L])

(* Position of the first free slot of t.                                   *)
TopOf(t) ==
  LET func == IF ci[t] = <<>> THEN 0 ELSE Last(ci[t]).func
  IN  1 + IF tbc[t] # <<>> /\ Last(tbc[t]).level > func THEN Last(tbc[t]).level ELSE func

(* prepCallInfo                                                            *)
Frame(isLua, fresh, func) ==
  [func |-> func, lua |-> isLua, fresh |-> fresh,
   k |-> FALSE,          \* it has a continuation
   ypcall |-> FALSE,     \* CIST_YPCALL
   recst |-> "ok",       \* CIST_RECST
   clsret |-> FALSE,     \* CIST_CLSRET
   olderr |-> 0, idx |-> 0,
   doing |-> "run"]      \* "close", "return": interrupted in that instruction

WithTop(t, f) == Append(Front(ci[t]), f)
yieldable == nny[L] = 0

Init ==
  /\ ci = [t \in Thread |-> <<>>]
  /\ tbc = [t \in Thread |-> <<>>]
  /\ status = [t \in Thread |-> "ok"]
  /\ body = [t \in Thread |-> t # MainThread]
  /\ nC = [t \in Thread |-> 0]
  /\ nny = [t \in Thread |-> IF t = MainThread THEN 1 ELSE 0]
  /\ errfunc = [t \in Thread |-> 0]
  /\ cs = << [kind |-> "main", thread |-> MainThread] >>
  /\ exc = "none"

-----------------------------------------------------------------------------
(* Calls through the C stack *)

Activation(isLua, inc) ==
  IF isLua THEN [kind |-> "exec", thread |-> L, inc |-> inc]
           ELSE [kind |-> "cfun", thread |-> L, inc |-> inc, cont |-> FALSE]

(* An error while an overflow is being handled overflows again.            *)
FaultyOverflow(c) == IF c = LUAI_MAXCCALLS THEN "error" ELSE "none"

(* luaE_checkcstack raises an error at the limit of C calls, lets it be    *)
(* handled beyond the limit, and only throws further on.                   *)
Overflow(c) ==
  IF c = LUAI_MAXCCALLS THEN "error" ELSE IF c >= ErrorCCalls THEN "err" ELSE "none"

(* ccall by the running thread, whose frames are 'frames', of a function   *)
(* at 'func', with C stack 'stack'.                                        *)
CCall(inc, isLua, func, frames, stack) ==
  LET over == Overflow(nC[L] + 1)
  IN  /\ nC' = [nC EXCEPT ![L] = @ + 1]
      /\ nny' = [nny EXCEPT ![L] = IF inc = 2 THEN @ + 1 ELSE @]
      /\ exc' = over
      /\ cs' = Append(stack, Activation(isLua, inc))
      /\ ci' = [ci EXCEPT ![L] =
                  IF over = "none" THEN Append(frames, Frame(isLua, TRUE, func)) ELSE frames]

(* The activation at the top of the C stack returns to the one below it.   *)
Uncount(inc) ==
  /\ nC' = [nC EXCEPT ![L] = IF inc > 0 THEN @ - 1 ELSE @]
  /\ nny' = [nny EXCEPT ![L] = IF inc = 2 THEN @ - 1 ELSE @]

Closing(t, level, yy, for) ==
  [kind |-> "close", thread |-> t, level |-> level, yy |-> yy, for |-> for]

Try(t, of, depth, n, level, old) ==
  [kind |-> "try", thread |-> t, of |-> of, depth |-> depth, nC |-> n[1], nny |-> n[2],
   level |-> level, errfunc |-> old]

Running == exc = "none"
HasRoom == TopOf(L) <= MaxStack

(* The host calls a Lua function in protected mode (docall of lua.c).      *)
StartMain ==
  /\ Running /\ cur.kind = "main"
  /\ CCall(2, TRUE, TopOf(L), ci[L],
           Append(cs, Try(L, "pcall", 0, <<nC[L], nny[L]>>, TopOf(L), errfunc[L])))
  /\ UNCHANGED <<tbc, status, body, errfunc>>

-----------------------------------------------------------------------------
(* What a Lua function may do *)

InLua == Running /\ cur.kind = "exec" /\ top.doing = "run"

OwnTbc(t) == {i \in 1 .. Len(tbc[t]) : tbc[t][i].level > Last(ci[t]).func}

(* OP_CALL of a Lua function: the same luaV_execute goes on with it.       *)
CallLua ==
  /\ InLua /\ HasRoom
  /\ ci' = [ci EXCEPT ![L] = Append(@, Frame(TRUE, FALSE, TopOf(L)))]
  /\ UNCHANGED <<tbc, status, body, counts, errfunc, cs, exc>>

(* OP_CALL of a C function: precallC.                                      *)
CallC ==
  /\ InLua /\ HasRoom
  /\ ci' = [ci EXCEPT ![L] = Append(@, Frame(FALSE, FALSE, TopOf(L)))]
  /\ cs' = Append(cs, Activation(FALSE, 0))
  /\ UNCHANGED <<tbc, status, body, counts, errfunc, exc>>

(* An operation that calls a metamethod: luaT_callTMres.                   *)
CallMeta ==
  /\ InLua /\ HasRoom /\ "meta" \in Uses
  /\ CCall(1, TRUE, TopOf(L), ci[L], cs)
  /\ UNCHANGED <<tbc, status, body, errfunc>>

NewTbc == tbc' = [tbc EXCEPT ![L] = Append(@, [level |-> TopOf(L), owner |-> top.func])]

(* OP_TBC                                                                  *)
DeclareTbc ==
  /\ InLua /\ HasRoom /\ "tbc" \in Uses
  /\ NewTbc
  /\ UNCHANGED <<ci, status, body, counts, errfunc, cs, exc>>

(* OP_CLOSE leaves a block: it closes the variables from 'idx' up.         *)
CloseBlock ==
  /\ InLua
  /\ \E i \in OwnTbc(L) :
       /\ ci' = [ci EXCEPT ![L] =
                   WithTop(L, [top EXCEPT !.doing = "close", !.idx = tbc[L][i].level])]
       /\ cs' = Append(cs, Closing(L, tbc[L][i].level, TRUE, "block"))
  /\ UNCHANGED <<tbc, status, body, counts, errfunc, exc>>

(* luaD_poscall in luaV_execute, which returns when the frame is fresh.    *)
PopLua ==
  /\ ci' = [ci EXCEPT ![L] = Front(@)]
  /\ IF top.fresh THEN Uncount(cur.inc) /\ cs' = Front(cs) ELSE UNCHANGED <<counts, cs>>

(* The variables of the function are not closed.                           *)
FaultyReturnLua ==
  /\ InLua
  /\ PopLua
  /\ UNCHANGED <<tbc, status, body, errfunc, exc>>

(* OP_RETURN                                                               *)
ReturnLua ==
  /\ InLua
  /\ IF OwnTbc(L) = {} THEN PopLua
     ELSE /\ ci' = [ci EXCEPT ![L] = WithTop(L, [top EXCEPT !.doing = "return"])]
          /\ cs' = Append(cs, Closing(L, top.func + 1, TRUE, "return"))
          /\ UNCHANGED counts
  /\ UNCHANGED <<tbc, status, body, errfunc, exc>>

(* luaV_finishOp: a luaV_execute that goes on with a frame interrupted in  *)
(* OP_CLOSE or OP_RETURN repeats the instruction.                          *)
RepeatClose ==
  /\ Running /\ cur.kind = "exec" /\ top.doing # "run"
  /\ cs' = Append(cs, IF top.doing = "close" THEN Closing(L, top.idx, TRUE, "block")
                                             ELSE Closing(L, top.func + 1, TRUE, "return"))
  /\ UNCHANGED <<thread, counts, exc>>

-----------------------------------------------------------------------------
(* What a C function or a continuation may do *)

InC == Running /\ cur.kind = "cfun" /\ ~top.ypcall /\ top.doing = "run"

(* The call does not save the continuation nor forbid yields.              *)
FaultyCallFromC(k, isLua) ==
  /\ InC /\ HasRoom /\ (k => "callk" \in Uses)
  /\ CCall(1, isLua, TopOf(L), ci[L], cs)
  /\ UNCHANGED <<tbc, status, body, errfunc>>

(* lua_callk, with a continuation if k.                                    *)
CallFromC(k, isLua) ==
  /\ InC /\ HasRoom /\ (k => "callk" \in Uses)
  /\ IF k /\ yieldable
       THEN CCall(1, isLua, TopOf(L), WithTop(L, [top EXCEPT !.k = TRUE]), cs)
       ELSE CCall(2, isLua, TopOf(L), ci[L], cs)
  /\ UNCHANGED <<tbc, status, body, errfunc>>

(* lua_pcallk as if every thread could yield.                              *)
FaultyPcallFromC(k, handler, isLua) ==
  /\ InC /\ HasRoom /\ (handler => "handler" \in Uses) /\ k /\ "pcallk" \in Uses
  /\ CCall(1, isLua, TopOf(L),
           WithTop(L, [top EXCEPT !.k = TRUE, !.ypcall = TRUE,
                                  !.olderr = errfunc[L], !.idx = TopOf(L)]), cs)
  /\ errfunc' = [errfunc EXCEPT ![L] = IF handler THEN top.func ELSE 0]
  /\ UNCHANGED <<tbc, status, body>>

(* lua_pcallk, with a continuation if k and a message handler if handler.  *)
(* Without a continuation, or where the thread cannot yield, luaD_pcall.   *)
PcallFromC(k, handler, isLua) ==
  /\ InC /\ HasRoom /\ (handler => "handler" \in Uses)
  /\ IF k THEN "pcallk" \in Uses ELSE "pcall" \in Uses
  /\ IF k /\ yieldable
       THEN CCall(1, isLua, TopOf(L),
                  WithTop(L, [top EXCEPT !.k = TRUE, !.ypcall = TRUE,
                                         !.olderr = errfunc[L], !.idx = TopOf(L)]), cs)
       ELSE CCall(2, isLua, TopOf(L), ci[L],
                  Append(cs, Try(L, "pcall", Len(ci[L]), <<nC[L], nny[L]>>, TopOf(L),
                                 errfunc[L])))
  /\ errfunc' = [errfunc EXCEPT ![L] = IF handler THEN top.func ELSE 0]
  /\ UNCHANGED <<tbc, status, body>>

(* The call of lua_pcallk returned without errors.                         *)
PcallkReturns ==
  /\ Running /\ cur.kind = "cfun" /\ top.ypcall
  /\ ci' = [ci EXCEPT ![L] = WithTop(L, [top EXCEPT !.ypcall = FALSE])]
  /\ errfunc' = [errfunc EXCEPT ![L] = top.olderr]
  /\ UNCHANGED <<tbc, status, body, counts, cs, exc>>

(* luaD_pcall returned without errors.                                     *)
PcallReturns ==
  /\ Running /\ cur.kind = "try" /\ cur.of = "pcall"
  /\ errfunc' = [errfunc EXCEPT ![L] = cur.errfunc]
  /\ cs' = Front(cs)
  /\ UNCHANGED <<ci, tbc, status, body, counts, exc>>

(* lua_toclose                                                             *)
ToClose ==
  /\ InC /\ HasRoom /\ "toclose" \in Uses
  /\ NewTbc
  /\ ci' = [ci EXCEPT ![L] = WithTop(L, [top EXCEPT !.clsret = TRUE])]
  /\ UNCHANGED <<status, body, counts, errfunc, cs, exc>>

(* luaD_poscall of a C frame that has variables to close: moveresults.     *)
CloseAndReturn(stack) ==
  /\ ci' = [ci EXCEPT ![L] = WithTop(L, [top EXCEPT !.doing = "return"])]
  /\ cs' = Append(stack, Closing(L, top.func, TRUE, "poscall"))

PopC ==
  /\ ci' = [ci EXCEPT ![L] = Front(@)]
  /\ IF cur.kind = "cfun" THEN Uncount(cur.inc) /\ cs' = Front(cs) ELSE UNCHANGED <<counts, cs>>

ReturnC ==
  /\ InC
  /\ IF top.clsret THEN CloseAndReturn(cs) /\ UNCHANGED counts ELSE PopC
  /\ UNCHANGED <<tbc, status, body, errfunc, exc>>

(* An error in a Lua or C function: luaG_runerror, lua_error.              *)
Error ==
  /\ InLua \/ InC
  /\ exc' = "error"
  /\ UNCHANGED <<thread, counts, cs>>

(* A C++ exception leaves a C function: precallC turns it into an error,   *)
(* but nothing does so around a continuation.                              *)
Exception ==
  /\ InC /\ (IF cur.cont THEN "kexception" ELSE "exception") \in Uses
  /\ exc' = IF cur.cont THEN "exception" ELSE "error"
  /\ UNCHANGED <<thread, counts, cs>>

(* lua_yieldk, with a continuation if k.                                   *)
Yield(k) ==
  /\ InC /\ (k => "yieldk" \in Uses)
  /\ IF yieldable
       THEN /\ status' = [status EXCEPT ![L] = "yield"]
            /\ ci' = [ci EXCEPT ![L] = WithTop(L, [top EXCEPT !.k = k])]
            /\ exc' = "yield"
       ELSE exc' = "error" /\ UNCHANGED <<status, ci>>
  /\ UNCHANGED <<tbc, body, counts, errfunc, cs>>

-----------------------------------------------------------------------------
(* luaF_close *)

(* Take the last variable off the list and call its __close method, on top *)
(* of the stack or right after the variable.                               *)
CloseNext ==
  /\ Running /\ cur.kind = "close"
  /\ tbc[L] # <<>> /\ Last(tbc[L]).level >= cur.level
  /\ tbc' = [tbc EXCEPT ![L] = Front(@)]
  /\ CCall(IF cur.yy THEN 1 ELSE 2, TRUE, Last(tbc[L]).level + 1, ci[L], cs)
  /\ UNCHANGED <<status, body, errfunc>>

NothingToClose ==
  /\ Running /\ cur.kind = "close"
  /\ tbc[L] # <<>> => Last(tbc[L]).level < cur.level

below == cs[Len(cs) - 1]

(* Back in OP_CLOSE, in OP_RETURN, in luaD_poscall.                        *)
BlockClosed ==
  /\ NothingToClose /\ cur.for = "block"
  /\ ci' = [ci EXCEPT ![L] = WithTop(L, [top EXCEPT !.doing = "run"])]
  /\ cs' = Front(cs)
  /\ UNCHANGED <<tbc, status, body, counts, errfunc, exc>>

FunctionClosed ==
  /\ NothingToClose /\ cur.for \in {"return", "poscall"}
  /\ ci' = [ci EXCEPT ![L] = Front(@)]
  /\ IF below.kind = "cfun" \/ (below.kind = "exec" /\ top.fresh)
       THEN Uncount(below.inc) /\ cs' = Front(Front(cs))
       ELSE UNCHANGED counts /\ cs' = Front(cs)
  /\ UNCHANGED <<tbc, status, body, errfunc, exc>>

Continuation(t) == [kind |-> "cfun", thread |-> t, inc |-> 0, cont |-> TRUE]

(* 'errfunc' is not restored.                                              *)
FaultyPcallkFinished(stack) ==
  /\ ci' = [ci EXCEPT ![L] = WithTop(L, [top EXCEPT !.recst = "ok", !.ypcall = FALSE])]
  /\ cs' = Append(stack, Continuation(L))
  /\ UNCHANGED errfunc

(* The end of finishpcallk, and the call to the continuation.              *)
PcallkFinished(stack) ==
  /\ ci' = [ci EXCEPT ![L] = WithTop(L, [top EXCEPT !.recst = "ok", !.ypcall = FALSE])]
  /\ errfunc' = [errfunc EXCEPT ![L] = top.olderr]
  /\ cs' = Append(stack, Continuation(L))

(* Back in finishpcallk.                                                   *)
PcallkClosed ==
  /\ NothingToClose /\ cur.for = "finishpcallk"
  /\ PcallkFinished(Front(cs))
  /\ UNCHANGED <<tbc, status, body, counts, exc>>

(* luaD_closeprotected returns to luaD_pcall or to luaE_resetthread.       *)
ProtectedClosed ==
  /\ NothingToClose /\ cur.for = "protected"
  /\ LET r == cs[Len(cs) - 2]
     IN  errfunc' = IF r.kind = "caught" THEN [errfunc EXCEPT ![L] = r.errfunc] ELSE errfunc
  /\ cs' = SubSeq(cs, 1, Len(cs) - 3)
  /\ UNCHANGED <<ci, tbc, status, body, counts, exc>>

-----------------------------------------------------------------------------
(* Coroutines *)

(* auxstatus, for a coroutine that is not the running one.                 *)
NotStarted(t) == status[t] = "ok" /\ ci[t] = <<>>
Suspended(t) == status[t] = "yield" \/ (NotStarted(t) /\ body[t])
DeadThread(t) == status[t] = "err" \/ (NotStarted(t) /\ ~body[t])

(* coroutine.create; the identity of a dead coroutine is used again.       *)
Create(co) ==
  /\ InC /\ co # L /\ DeadThread(co)
  /\ tbc' = [tbc EXCEPT ![co] = <<>>]
  /\ ci' = [ci EXCEPT ![co] = <<>>]
  /\ status' = [status EXCEPT ![co] = "ok"]
  /\ body' = [body EXCEPT ![co] = TRUE]
  /\ errfunc' = [errfunc EXCEPT ![co] = 0]
  /\ UNCHANGED <<counts, cs, exc>>

(* lua_resume on a coroutine that can be resumed, up to where resume has   *)
(* dealt with the function that yielded or is to start.                    *)
Resume(co) ==
  /\ InC /\ co # L /\ Suspended(co)
  /\ nC[L] < LUAI_MAXCCALLS
  /\ LET n == nC[L] + 1
         over == n = LUAI_MAXCCALLS
         base == cs \o << Try(co, "resume", 0, <<n, 0>>, 0, 0),
                          [kind |-> "unroll", thread |-> co] >>
         f == Last(ci[co])
     IN  /\ nC' = [nC EXCEPT ![co] = n] /\ nny' = [nny EXCEPT ![co] = 0]
         /\ status' = [status EXCEPT ![co] = "ok"]
         /\ body' = [body EXCEPT ![co] = FALSE]
         /\ \/ /\ status[co] = "ok"                   \* ccall of its body
               /\ ci' = [ci EXCEPT ![co] = IF over THEN <<>> ELSE << Frame(TRUE, TRUE, 1) >>]
               /\ cs' = IF over THEN base
                        ELSE Append(base, [kind |-> "exec", thread |-> co, inc |-> 0])
               /\ exc' = IF over THEN "error" ELSE "none"
            \/ /\ status[co] = "yield" /\ exc' = exc
               /\ \/ f.k /\ ci' = ci /\ cs' = Append(base, Continuation(co))
                  \/ /\ ~f.k /\ f.clsret
                     /\ ci' = [ci EXCEPT ![co] = WithTop(co, [f EXCEPT !.doing = "return"])]
                     /\ cs' = Append(base, Closing(co, f.func, TRUE, "poscall"))
                  \/ /\ ~f.k /\ ~f.clsret
                     /\ ci' = [ci EXCEPT ![co] = Front(@)]
                     /\ cs' = base
  /\ UNCHANGED <<tbc, errfunc>>

(* coroutine.close: luaE_resetthread; other coroutines are an error.       *)
CloseCoroutine(co) ==
  /\ InC /\ "close" \in Uses
  /\ IF co # L /\ (Suspended(co) \/ DeadThread(co))
       THEN /\ nC' = [nC EXCEPT ![co] = nC[L]] /\ nny' = [nny EXCEPT ![co] = 0]
            /\ ci' = [ci EXCEPT ![co] = <<>>]
            /\ status' = [status EXCEPT ![co] = "ok"]
            /\ body' = [body EXCEPT ![co] = FALSE]
            /\ cs' = cs \o << [kind |-> "reset", thread |-> co],
                              Try(co, "close", 0, <<nC[L], 0>>, 1, 0),
                              Closing(co, 1, FALSE, "protected") >>
            /\ exc' = exc
       ELSE exc' = "error" /\ UNCHANGED <<ci, status, body, counts, cs>>
  /\ UNCHANGED <<tbc, errfunc>>

(* The variables of the calls that failed are not closed.                  *)
FaultyUnrollPcallk == PcallkFinished(cs)

(* finishpcallk, up to luaF_close if there was an error.                   *)
UnrollPcallk ==
  IF top.recst = "ok" THEN PcallkFinished(cs)
  ELSE /\ cs' = Append(cs, Closing(L, top.idx, TRUE, "finishpcallk"))
       /\ UNCHANGED <<ci, errfunc>>

Unrolling == Running /\ cur.kind = "unroll"

(* finishCcall on the C frame at the top.                                  *)
FinishCcall ==
  /\ Unrolling /\ ci[L] # <<>> /\ ~top.lua
  /\ \/ top.clsret /\ CloseAndReturn(cs) /\ UNCHANGED errfunc
     \/ ~top.clsret /\ top.ypcall /\ UnrollPcallk
     \/ /\ ~top.clsret /\ ~top.ypcall
        /\ cs' = Append(cs, Continuation(L)) /\ UNCHANGED <<ci, errfunc>>
  /\ UNCHANGED <<tbc, status, body, counts, exc>>

(* unroll goes on with the Lua frame at the top.                           *)
FinishLua ==
  /\ Unrolling /\ ci[L] # <<>> /\ top.lua
  /\ cs' = Append(cs, [kind |-> "exec", thread |-> L, inc |-> 0])
  /\ UNCHANGED <<thread, counts, exc>>

(* The coroutine ends: lua_resume returns LUA_OK.                          *)
Finish ==
  /\ Unrolling /\ ci[L] = <<>>
  /\ cs' = SubSeq(cs, 1, Len(cs) - 2)
  /\ UNCHANGED <<thread, counts, exc>>

-----------------------------------------------------------------------------
(* Errors *)

(* The top of the stack where an error is raised: a __close method that    *)
(* could not be called is still there.                                     *)
ErrorTop ==
  IF below.kind = "close" /\ TopOf(L) <= below.level THEN below.level + 1 ELSE TopOf(L)

(* luaG_errormsg: the message handler, if there is one, is called first.   *)
(* Its own errors come back here.                                          *)
Raise ==
  /\ exc = "error"
  /\ IF errfunc[L] = 0
       THEN exc' = "err" /\ UNCHANGED <<ci, counts, cs>>
       ELSE CCall(2, TRUE, ErrorTop, ci[L],
                  Append(cs, [kind |-> "handler", thread |-> L]))
  /\ UNCHANGED <<tbc, status, body, errfunc>>

HandlerReturns ==
  /\ Running /\ cur.kind = "handler"
  /\ exc' = "err"
  /\ UNCHANGED <<thread, counts, cs>>

(* luaD_throw jumps to the last luaD_rawrunprotected.                      *)
Target == SelectLastInSeq(cs, LAMBDA r : r.kind = "try")
Catcher == cs[Target]

(* The count of non-yieldable calls is not restored.                       *)
FaultyCatch(of) ==
  /\ exc \in {"err", "yield", "exception"} /\ Catcher.of = of
  /\ nC' = [nC EXCEPT ![L] = Catcher.nC]
  /\ UNCHANGED nny

Catch(of) ==
  /\ exc \in {"err", "yield", "exception"} /\ Catcher.of = of
  /\ nC' = [nC EXCEPT ![L] = Catcher.nC]
  /\ nny' = [nny EXCEPT ![L] = Catcher.nny]

Protect(r) ==
  << Try(L, "close", r.depth, <<r.nC, r.nny>>, r.level, 0),
     Closing(L, r.level, FALSE, "protected") >>

(* luaD_pcall catches an error and closes the pending variables, in        *)
(* protected mode too (luaD_closeprotected).                               *)
CaughtByPcall ==
  /\ Catch("pcall")
  /\ ci' = [ci EXCEPT ![L] = SubSeq(@, 1, Catcher.depth)]
  /\ cs' = SubSeq(cs, 1, Target - 1) \o
             << [kind |-> "caught", thread |-> L, errfunc |-> Catcher.errfunc] >> \o
             Protect(Catcher)
  /\ exc' = "none"
  /\ UNCHANGED <<tbc, status, body, errfunc>>

(* luaD_closeprotected catches an error in a __close method and repeats.   *)
CaughtWhileClosing ==
  /\ Catch("close")
  /\ ci' = [ci EXCEPT ![L] = SubSeq(@, 1, Catcher.depth)]
  /\ cs' = SubSeq(cs, 1, Target - 1) \o Protect(Catcher)
  /\ exc' = "none"
  /\ UNCHANGED <<tbc, status, body, errfunc>>

(* findpcall                                                               *)
RecoverPoints == {j \in 1 .. Len(ci[L]) : ci[L][j].ypcall}

(* precover: go on from the innermost lua_pcallk under way.                *)
Recover ==
  /\ exc = "err" /\ Catch("resume") /\ RecoverPoints # {}
  /\ LET j == CHOOSE j \in RecoverPoints : \A i \in RecoverPoints : i <= j
     IN  ci' = [ci EXCEPT ![L] = Append(SubSeq(@, 1, j - 1), [@[j] EXCEPT !.recst = "err"])]
  /\ cs' = Append(SubSeq(cs, 1, Target), [kind |-> "unroll", thread |-> L])
  /\ exc' = "none"
  /\ UNCHANGED <<tbc, status, body, errfunc>>

(* The coroutine is not marked as dead.                                    *)
FaultyDie ==
  /\ exc = "err" /\ Catch("resume") /\ RecoverPoints = {}
  /\ cs' = SubSeq(cs, 1, Target - 1)
  /\ exc' = "none"
  /\ UNCHANGED thread

(* lua_resume returns with an error that nothing in the coroutine caught.  *)
Die ==
  /\ exc = "err" /\ Catch("resume") /\ RecoverPoints = {}
  /\ status' = [status EXCEPT ![L] = "err"]
  /\ cs' = SubSeq(cs, 1, Target - 1)
  /\ exc' = "none"
  /\ UNCHANGED <<ci, tbc, body, errfunc>>

(* lua_resume returns from a yield.  A C++ exception gets here with a      *)
(* status that is not an error status either.                              *)
Yielded ==
  /\ exc \in {"yield", "exception"} /\ Catch("resume")
  /\ cs' = SubSeq(cs, 1, Target - 1)
  /\ exc' = "none"
  /\ UNCHANGED <<ci, tbc, status, body, errfunc>>

-----------------------------------------------------------------------------
Program ==
  \/ StartMain
  \/ CallLua \/ CallC \/ CallMeta \/ DeclareTbc \/ CloseBlock \/ ReturnLua
  \/ \E k, isLua \in BOOLEAN : CallFromC(k, isLua)
  \/ \E k, handler, isLua \in BOOLEAN : PcallFromC(k, handler, isLua)
  \/ ToClose \/ ReturnC \/ Error \/ Exception
  \/ \E k \in BOOLEAN : Yield(k)
  \/ \E co \in Coroutine : Create(co) \/ Resume(co) \/ CloseCoroutine(co)

Machine ==
  \/ RepeatClose \/ PcallkReturns \/ PcallReturns
  \/ CloseNext \/ BlockClosed \/ FunctionClosed \/ PcallkClosed \/ ProtectedClosed
  \/ FinishCcall \/ FinishLua \/ Finish
  \/ Raise \/ HandlerReturns
  \/ CaughtByPcall \/ CaughtWhileClosing \/ Recover \/ Die \/ Yielded

Next == Program \/ Machine

Spec == Init /\ [][Next]_vars

-----------------------------------------------------------------------------
(* Properties *)

Frames(t) == {ci[t][i] : i \in 1 .. Len(ci[t])}
Activations(t) == {i \in 1 .. Len(cs) : cs[i].thread = t}

TypeOK ==
  /\ status \in [Thread -> {"ok", "yield", "err"}]
  /\ body \in [Thread -> BOOLEAN]
  /\ nC \in [Thread -> 0 .. ErrorCCalls] /\ nny \in [Thread -> 0 .. ErrorCCalls + 1]
  /\ errfunc \in [Thread -> Nat]
  /\ exc \in {"none", "error", "err", "yield", "exception"}
  /\ Len(cs) > 0 /\ cs[1].kind = "main"

(* No way out of a function forgets a to-be-closed variable: while it is   *)
(* pending, either its function has not returned, or something on the C    *)
(* stack is about to close it, or a protected call that goes on in its     *)
(* coroutine will do so, or its function's return will, or the coroutine   *)
(* died from an error and can be closed.                                   *)
NoneForgotten ==
  \A t \in Thread : \A v \in {tbc[t][i] : i \in 1 .. Len(tbc[t])} :
    \/ \E f \in Frames(t) : f.func = v.owner
    \/ \E i \in Activations(t) : cs[i].kind = "close" /\ cs[i].level <= v.level
    \/ \E f \in Frames(t) :
         /\ f.ypcall /\ f.recst # "ok"
         /\ f.idx <= v.level \/ (f.clsret /\ f.func <= v.level)
    \/ status[t] = "err"

Finishing == Unrolling /\ ci[L] # <<>> /\ ~top.lua

(* The assertion of finishCcall: a C function interrupted by a yield that  *)
(* was not returning has a continuation and the thread can yield again.    *)
CanContinue == Finishing /\ ~top.clsret => top.k /\ yieldable

(* lstate.h: CIST_CLSRET says that a function is closing its variables, so *)
(* that finishCcall may finish its return, and need not call its           *)
(* continuation nor finish its lua_pcallk.                                 *)
ClsretIsClosing == Finishing /\ top.clsret => top.doing = "return"

(* nCcalls of every thread on the C stack is what the stack says: the      *)
(* limit of C calls and the refusal to yield depend on it, after errors    *)
(* and yields as much as after returns.                                    *)
CCallsExact ==
  exc = "none" =>
    \A t \in Thread : Activations(t) # {} =>
      /\ nny[t] = (IF t = MainThread THEN 1 ELSE 0) +
                     Cardinality({i \in Activations(t) :
                       cs[i].kind \in {"exec", "cfun"} /\ cs[i].inc = 2})
      /\ (t = L) => nC[t] = Cardinality({i \in 1 .. Len(cs) :
                     \/ (cs[i].kind \in {"exec", "cfun"} /\ cs[i].inc > 0)
                     \/ cs[i].kind = "unroll"})

(* An error goes to the innermost protected call: luaD_throw prefers those *)
(* of luaD_pcall, and none of lua_pcallk may be inside one.                *)
InnermostCatches ==
  \A i \in 1 .. Len(cs) : cs[i].kind = "try" /\ cs[i].of # "resume" =>
    \A j \in 1 .. Len(ci[cs[i].thread]) :
      j > cs[i].depth => ~ci[cs[i].thread][j].ypcall

(* What coroutine.status takes for suspended or dead is not on the C       *)
(* stack, so that resuming, closing or collecting it is safe; and what it  *)
(* takes for normal is.                                                    *)
StatusIsTrue ==
  exc = "none" =>
    \A t \in Coroutine \ {L} : (Suspended(t) \/ DeadThread(t)) <=> (Activations(t) = {})

(* The assertion of luaG_errormsg: the slot that errfunc refers to still   *)
(* holds the message handler, no other frame having been put there.        *)
HandlerIsThere ==
  exc = "error" /\ errfunc[L] # 0 =>
    LET low == {f \in Frames(L) : f.func <= errfunc[L]}
    IN  low = {} \/ \E f \in low : f.func = errfunc[L] /\ ~f.lua

(* Once every protected call of a thread is over, however it ended, no     *)
(* message handler is left for the errors that come later.                 *)
HandlerIsRestored ==
  \A t \in Thread :
    \/ errfunc[t] = 0
    \/ \E f \in Frames(t) : f.ypcall
    \/ \E i \in Activations(t) : cs[i].kind = "caught" \/ (cs[i].kind = "try" /\ cs[i].of = "pcall")

(* The count of C calls stays within its limits, errors in error handling  *)
(* included, and is exact after every way out of a call (luaE_checkcstack).*)
CallsAreCounted == TypeOK /\ CCallsExact

(* An error goes to the innermost protected call, with its own handler,    *)
(* whichever of the two mechanisms made the calls (luaD_throw, recover).   *)
ErrorsAreCaught == InnermostCatches /\ HandlerIsRestored
=============================================================================
