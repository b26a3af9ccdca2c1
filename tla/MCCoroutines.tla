---------------------------- MODULE MCCoroutines ----------------------------
(* Three programs that make use of different operations: one of protected  *)
(* calls with handlers and continuations, one of variables to be closed,   *)
(* one of C functions in coroutines that mark slots to be closed and whose *)
(* __close methods yield and fail while they return.                       *)
EXTENDS Coroutines

VARIABLE program

ClosingUses == {"pcall", "toclose", "tbc", "yieldk", "close", "meta", "exception"}
Closes == INSTANCE Coroutines WITH Uses <- ClosingUses, LUAI_MAXCCALLS <- 3, ErrorCCalls <- 4, MaxStack <- 4

ReturningUses == {"toclose", "yieldk", "pcall", "close"}
Returns == INSTANCE Coroutines WITH Uses <- ReturningUses, LUAI_MAXCCALLS <- 4, ErrorCCalls <- 5, MaxStack <- 6

MCInit == Init /\ program \in {"protected", "closing", "returning"}
MCNext ==
  /\ UNCHANGED program
  /\ \/ program = "protected" /\ Next
     \/ program = "closing" /\ Closes!Next
     \/ program = "returning" /\ Returns!Next
MCSpec == MCInit /\ [][MCNext]_<<vars, program>>

(* A flag or a status is only looked at where it tells what the program    *)
(* is doing: a C function resumed with CIST_CLSRET was returning, which    *)
(* fails if one that marked a slot is interrupted in a call                *)
(* (Coroutines_tbcslot.cfg); a thread taken for suspended or dead is not   *)
(* on the C stack, which fails if a continuation lets a C++ exception out. *)
ClosingIsTold == program \in {"closing", "returning"} => ClsretIsClosing /\ StatusIsTrue
=============================================================================
