# Formal models of the Lua runtime

TLA+ modules, TLC configurations and machine-checked proofs for the runtime in
this repository: the Lua 5.5 core, forked for the Slu language. The modules
are translated from the C sources; a definition's comment names the function
it stands for, and `PROJECT.json` ("map") gives the lines.

How to run, from this directory:

    tlc -workers 2 -config MCInputs.cfg MCInputs
    tlapm IncrementalGCProofs.tla

## 1. The system

| Component | State it keeps | Operations | Interacts with |
|---|---|---|---|
| Incremental collector (`lgc.c`) | `gcstate`, `currentwhite`, the object lists `allgc`, `finobj`, `tobefnz`, the sweep pointer `sweepgc`, the gray lists, marks in each object | `luaC_newobj`, `luaC_barrier_`, `luaC_barrierback_`, `luaC_checkfinalizer`, `luaC_step`, `luaC_fullgc` | everything that stores a reference (barriers) or allocates (steps, emergency collections); calls back into the program for finalizers |
| Generational collector (`lgc.c`) | ages, borders of the sublists of `allgc`, `GCmajorminor` | `youngcollection`, `entergen`, `minor2inc` | the same, and the string table (`checkSizes`) |
| String table (`lstring.c`) | the chains of `tb->hash`, `size`, `nuse`; the cache of `luaS_new` | `internshrstr`, `luaS_resize`, `luaS_remove`, `luaS_clearcache` | the allocator, the sweep, resurrected strings |
| Functions and upvalues (`lfunc.c`) | list of open upvalues, list of to-be-closed variables of each thread | `luaF_findupval`, `luaF_close`, `luaF_newtbcupval` | stack reallocation (`ldo.c`), barriers, metamethod calls |
| Calls, errors, coroutines (`ldo.c`, `lstate.c`, `lcorolib.c`) | call-info list, stack, status, `nCcalls`, `nny`, `errorJmp` | `luaD_precall`, `luaD_poscall`, `luaD_pcall`, `lua_resume`, `lua_yieldk`, `lua_closethread` | VM, upvalues, collector |
| Tables (`ltable.c`) | array part, node part with `next` offsets and `lastfree` | `luaH_get*`, `luaH_newkey`, `rehash`, `luaH_next`, `luaH_getn` | collector (dead keys), VM |
| VM and metamethods (`lvm.c`, `ltm.c`) | frames, program counter | the opcodes | all of the above |
| Scanner, parser, code generator (`llex.c`, `lparser.c`, `lcode.c`) | token buffer, `FuncState`, jump lists, registers | one pass over the source | collector (anchoring), calls (protected parser) |
| Precompiled chunks (`ldump.c`, `lundump.c`) | table of strings already written or read | dump, load | scanner's streams |
| C API and auxiliary library (`lapi.c`, `lauxlib.c`) | the stack of the running function, the references of `luaL_ref`, buffers | `lua_*`, `luaL_*` | everything |
| Libraries (`l*lib.c`), interpreter (`lua.c`) | file handles, loaded modules, the random generator | library functions | the C API |

The runtime is single-threaded, and what makes it hard is a different kind of
interleaving: **any allocation may run a collector step, or a whole emergency
collection, in the middle of the function that allocates; a finalizer may run
any code at most allocation points; any error may leave any function by
`longjmp`**. The collector thus sees the heap between any two writes of the
program, and every function that allocates has to be correct at each of its
allocation points. The list of hazards in `PROJECT.json` names the places.

What makes each component correct:

* collector: nothing the program can still reach is freed, garbage goes in the
  end, finalizers see intact objects, and a full collection leaves nothing
  behind, wherever in a cycle it starts;
* string table: equal short strings are the same object, always;
* upvalues: a closure and the frame that created it see the same variable
  before and after it is closed; to-be-closed variables are closed exactly
  once, in reverse order, on every way out;
* coroutines: legal transitions of the status only; an error or yield never
  leaves the call chain, the C-stack count or the non-yieldable count wrong;
* tables: a finite map, whatever collides, with `next` visiting each key once;
* weak tables: an entry goes exactly when its weak key or value dies, and an
  ephemeron keeps its value only if its key is reachable by other means;
* stack: whatever moves it, every pointer into it follows;
* metamethods: what a table remembers to lack, it lacks;
* compiler: a program does what its source means, with the effects in the order of
  the manual, in the registers it was given;
* libraries: they compute what the manual says for every input, also at the
  ends of the integers and for callbacks that answer anything.

## 2. The modules

| Module | Models |
|---|---|
| **Memory** | |
| `Heap` | reachability in an object graph, with three lemmas; no state |
| `HeapContract` | what the program may rely on: the abstract specification of a garbage collector with barriers and finalizers |
| `IncrementalGC`, `MCIncrementalGC` | the incremental collector against an arbitrary program; implements `HeapContract` |
| `GenerationalGC`, `MCGenerationalGC` | the generational collector, the mode `lua.c` runs in, against the same program; implements `HeapContract` |
| `WeakTables` | marking and clearing of weak values, ephemerons and tables weak in both |
| `IncrementalGCProofs` | the proofs about the incremental collector, and that it implements `HeapContract` |
| `GenerationalGCProofs` | the proofs about the generational collector, with lemmas on the object lists and the pointers into them, and that it implements `HeapContract` |
| **Data** | |
| `StringTable` | the table of short strings and its cache, with both collector modes and failing allocations |
| `Table` | a table with its array and hash parts, its resizes, its length and a traversal |
| `StringTableProofs` | the proofs about the first |
| `MCTables` | instances of the two: a string table, a table, and a sequence that is asked for its length |
| `References`, `Buffers` | `luaL_ref`; string buffers and the external strings they become |
| `ReferencesProofs` | the proof about the first |
| **Control** | |
| `Coroutines`, `MCCoroutines` | calls through the C stack, protected calls, to-be-closed variables, yields and errors, in a program with coroutines |
| `CoroutinesStacks`, `CoroutinesProofs` | what the C stack and the frames of all threads look like, and what each way to change them does, with the actions that call, return and start to close variables; the other actions, and the theorems |
| `Stack` | the stack as an array that moves: frames, varargs, open upvalues, to-be-closed marks |
| `Metamethods` | accesses and operators with metamethods, and the cache of absent ones |
| `Numbers`, `NumberSemantics`, `NumericFor` | conversions, comparisons, integer arithmetic; what they mean; numeric loops |
| **Compiler** | |
| `Streams`, `Scanner`, `ScannerSemantics` | buffered input and its readers; tokens; what texts mean |
| `Code`, `CodeOperators`, `Parser` | code generation, its operators, and the parser |
| `Execution`, `Closures` | the virtual machine on one function, and on functions, calls and blocks |
| `ExpressionSemantics`, `StatementSemantics` | what programs mean, by their syntax |
| `Chunks` | dumping and loading precompiled chunks; what they are for |
| **Libraries** | |
| `Matching`, `MatchingSemantics` | patterns; what they mean |
| `StringPack` | slices, `string.pack` and its kin; what formats mean |
| `Utf8`, `TableLibrary`, `Sort`, `RandomNumbers` | the libraries of the same names |
| `SortProofs` | the proof about sorting |
| **Runs** | |
| `MCInputs` | the compiler and the libraries, on families of inputs |
| `MCMachines` | `Stack`, `NumericFor`, `Metamethods`, `Buffers`, `References`, `WeakTables` |

The modules meet at the collector: the string table, the tables and the two
collectors each see the others as "an allocation may run a collection here" and
"the program may do anything here that it could do", so each is checked against
every behaviour of its environment. The parts of the compiler are composed: `Parser`
extends the code generator, `Execution` runs what it produced, and the
properties compare whole compilations with the meaning of the source.
`Chunks` and `Scanner` read from `Streams`, and `TableLibrary` and `NumericFor` compute with
`Numbers`. `MCMachines` and `MCTables` put parts that do not interact side by side, and
a behaviour is one of one of them.

A module whose name ends with `Semantics` says what the manual says, without the
code's state: the value of a syntax tree, the ways through a pattern, the digits of
a packed integer. It ends with the inputs TLC enumerates. What is compared there is
the code's algorithm with an independent definition. `Chunks`, `StringPack` and `Utf8` do
the same at their end.

A definition whose name starts with `Faulty` is the definition that follows it
with a plausible bug. No behaviour uses it; `PROJECT.json` ("mutants") says
which property notices the bug.

### 2.1 `IncrementalGC`

State and code:

| Variable | Code |
|---|---|
| `refs` | the references in tables, closures, upvalues, stacks |
| `mt` | `g->mt`: metatables of the basic types, a root with no barrier |
| `color` | the white, black bits of `marked`; "white" is the current white, "otherwhite" the other, so that flipping `currentwhite` exchanges the names |
| `gcstate` | `g->gcstate` |
| `allgc`, `finobj`, `tobefnz` | the lists of the same names, as sets |
| `unswept` | what is still ahead of `g->sweepgc` |
| `gray`, `grayagain` | the gray lists |
| `finalizing` | the object whose `__gc` is running (`GCSTPGC` is set) |
| `user`, `emerg` | stages that `luaC_fullgc` has still to run |

Actions: the program's `New`, `Load`, `Store`, `SetUpvalue`, `ShareUpvalue`,
`Drop`, `SetGlobalMetatable` and `SetFinalizer`, each with the barrier the code
runs; the collector's `Restart`, `Propagate`, `EndPropagate`, `Atomic`, `Sweep`,
`NextSweep`, `CallFinalizer` and `EndCycle`, one for each case of `singlestep`;
`StartFull` and `EndStage` for `fullinc`. `Atomic` is one action because nothing
else runs during `atomic()`; the order of its parts (mark, clear weak values,
separate, mark what is to be finalized, clear again, flip) is the order in
which its operators are applied to one another.

Abstractions: an object holds a set of references, so a table that holds the
same value twice is not told from one that holds it once (both drop the
reference when the last one goes). A table is born weak or not: the code reads
`__mode` when it traverses the table. The metatable of a weak table is not
modelled. A list is a set: what the code takes from its front is here taken
from anywhere, which covers every order. The list `weak` is part of
`grayagain`: the code moves what it finds in either list the same way.

### 2.2 `GenerationalGC`

| Variable | Code |
|---|---|
| `refs` | as above |
| `color`, `age` | the bits of `marked`; one white is enough, as no dead object is left between collections |
| `allgc`, `finobj`, `tobefnz` | the lists, as sequences |
| `p` | `survival`, `old1`, `reallyold`, `firstold1` and the three pointers into `finobj` |
| `gray`, `grayagain` | the gray lists, as sets; `weak` is part of `grayagain` |
| `stage` | between collections (`minor`), in `callallpendingfinalizers` (`finish`), or in the incremental part of `fullgen` (`callfin`, `pause`) |
| `finalizing` | as above |

A young collection runs no code of the program before its finalizers, so
`YoungCollection` is one action: `markold`, the atomic phase, `sweepgen` on each
list, the pointers and `correctgraylists`. The hazard is what comes between two
of them: barriers change ages and colours, `luaC_checkfinalizer` takes an object
out of the list a pointer points into, `udata2finalize` puts one back at its
front, finalizers do all of this in the middle of `finishgencycle`, and a full or
emergency collection makes everything old at any of these points. `StartFull` and
`EndFull` are the halves of `fullgen` around the finalizers that the incremental part
may call; `Emergency` is the same without them. Each collection is a composition of
operators on the set of marked objects, in the order of the code.

A pointer is the object it designates; the end of a list is `NULL`. `minor2inc` does
not reset `firstold1`, which may then designate a freed object until `atomic2gen`
resets it; nothing reads it in between but the comparison in `checkpointer`, and
`MemoryIsConsistent` says so. An upvalue comes into a closure in three ways: new
(`luaF_initupvals`), from the function that creates the closure (`pushclosure`), or by
`lua_upvaluejoin`, from any other closure. The last one can join two old closures, and
its forward barrier marks what a closed upvalue holds without aging it; the constant
`Joins` says whether the program does so (section 6). Strings, metatables of the basic types, weak keys and open upvalues
are left out, and so is the shift to major collections (`checkminormajor`, which
`minormajor` 0 turns off) and `luaC_changemode`.

### 2.3 `StringTable`

| Variable | Code |
|---|---|
| `content` | the characters of each allocated short string |
| `chain`, `size`, `nuse` | `g->strt` |
| `color` | the mark of each string, as above |
| `held` | strings on the stack |
| `cache` | one row of `g->strcache` |
| `at`, `key`, `list`, `tried`, `cached` | where `internshrstr` or `luaS_resize` waits for memory, and its local variables |
| `missed` | strings `luaS_remove` did not find (the code would follow a null pointer) |

`internshrstr` and `luaS_resize` are split at their allocations, because an
allocation that fails runs a full collection there (`Emergency`). A chain is a
set: its order does not matter. What else is in the heap is left out; a
collection spares the strings the program holds and may spare others when it
is generational.

### 2.4 `Coroutines`

| Variable | Code |
|---|---|
| `ci` | the chain of `CallInfo` of each thread, which survives a yield; the fields of a frame are those of `callstatus` and `u2` |
| `tbc` | `L->tbclist`, as positions, with the function that declared each variable |
| `status`, `errfunc` | the fields of the same names |
| `body` | the function below the stack of a coroutine that has not started |
| `nC`, `nny` | the two halves of `L->nCcalls` |
| `cs` | the C stack: one activation for each C function of the runtime that can be cut off by a `longjmp` |
| `exc` | the exception in flight |

The running function, at the top of `cs`, chooses its next operation
(`Program`): a call with or without a continuation, a protected call, a
metamethod, a variable to close, a yield, an error, a resume, a return, the
closing of another coroutine. What the runtime does in between is `Machine`: an
interrupted close goes on, an error unwinds to the innermost catcher, a
recovered coroutine is unrolled frame by frame. The exceptions `error`
(the message handler has not run), `err` (it has, or must not), `yield` and
`exception` (a C++ exception of the host, when the core is compiled as C++)
differ in who catches them.

A position is the number of slots in use, one for each function and one for
each to-be-closed variable; other values have no influence on control, save one: the
`__close` method that `luaF_close` was about to call when the C stack overflowed is below
the message handler of that error (`ErrorTop`). An
operation that the program has no use for is switched off with `Uses`: `MCCoroutines`
has three programs, "protected" (protected calls, handlers, continuations),
"closing" (variables to be closed) and "returning" (C functions in coroutines with slots to
be closed, whose methods yield and fail while the function returns).

### 2.5 `Table`

| Variable | Code |
|---|---|
| `t` | the fields of `Table`: `array`; `alimit` with `real` (`isrealasize`); `node` with relative `next` links; `dummy`; `lastfree` |
| `resize` | where `luaH_resize` waits for memory, with the new hash part once it exists |
| `alive` | values not freed |
| `walk` | the key of a traversal with `next` and the entries it still owes a visit |

`luaH_resize` is split at its two allocations, where it may fail or a collection
may run (`Collect`); the rest of the module is sequential and one step for each
operation. `Get`, `Set`, `NewKey`, `Getn` and `NextKey` follow the code's search
paths: the hint and its bit trick, relative links, dead keys, the doubling and
binary searches. The counts of `rehash` are stated by what they count.
Strings and booleans as keys behave as objects that never die; float keys are
left out, those with integral values being turned into integers first.

### 2.6 `WeakTables`

`G` is the heap and the collector: the `mode`, `array` and `hash` of each table, the
`stack` of the running thread, `color`, and the lists `gray`, `grayagain`, `weak`,
`ephemeron`, `allweak`, `finobj`, `tobefnz`, as sequences with the newest first.
`propagatemark` visits one object; the program moves keys and values between visits
(`SetField`, `SetStack`, with `barrierback`); `atomic` is one operator that follows
the code's: it marks what is left, converges, clears values, separates and marks the
objects to be finalized, converges again, clears keys of both lists and the values of the
tables that appeared since. A dead key is told from an empty one, as `clearkey`
does. The mode of a table is fixed, and userdata have no user values.

### 2.7 `Stack`

`L` is the thread: `mem` holds the slots of the block in use, `ci` the frames, `openupval`
and `tbclist` the two lists into the stack, `delta` the distances of the second. A pointer
is a block and an offset; `luaD_reallocstack` makes a new block and corrects what
`relstack` and `correctstack` correct, and whatever touches a pointer of an older
block sets `bad`. So the model forgets a correction exactly as the code would. The
variables `base` and `trap` of `luaV_execute` are part of a frame. Opcodes that
may reallocate are actions: `OP_CALL`, `OP_TAILCALL`, `OP_VARARGPREP`, `OP_VARARG`,
`OP_CLOSURE`, `OP_TBC`, `OP_CLOSE`, `OP_RETURN` and the collector's step, which
shrinks the stack; and for a C function `lua_checkstack`, `lua_call` and its return.
An error unwinds to a `lua_pcall` at the bottom, closing variables on the way. `due`
holds the values that must arrive, and `lost` tells that they did not.

### 2.8 `Metamethods`

`raw` has the fields of each table, `metatable` and `flags` the members of `Table` with
these names. `lua_gettable`, `lua_settable`, `lua_rawset`, `lua_rawseti`, `lua_setmetatable`
and comparison follow `luaV_finishget`, `luaV_finishset` and `luaT_*`, with their loops
up to `MAXTAGLOOP`. A call of a handler is an outcome: what it does are the
steps that follow. `AccessesMean` compares the outcome of each access with the chain of
metatables as the manual describes it, without flags.

### 2.9 Numbers and loops

Integers have `NBITS` bits and wrap; floats are multiples of 1/2 with `NBM` bits of mantissa,
so that there are integers no float has and floats no integer has, on both ends; infinities
and NaN are separate. `LTnum` and its kin take the code's paths: by conversion if the
integer fits, by rounding the float otherwise. In `NumericFor`, `forprep` gives the initial
state and `OP_FORLOOP` of either kind of loop is the action, with the variables in the
code's places: `ra` is the counter of an integer loop.

### 2.10 Compiler and virtual machine

`fs` is the function under construction (`FuncState`): its `code`, its constants, registers,
local variables, blocks, labels, pending gotos and upvalues; the enclosing one is
`fs.prev`. An expression (`expdesc`) carries its kind, register or position, and the
heads of its two jump lists, which are threaded through the jump instructions, as in
the code. The parser takes tokens from `fs.toks`; a function of the
parser is an operator from `fs` to `fs`. An assertion of `lcode.c` that fails clears `ok`.

The machine of `Execution` has `pc`, registers, upvalues and `ev`, the events of the run: a
metamethod, an access to a foreign value or a call of a foreign function is an
event with its operands, and its result is a value of its own, so that any change of
order, operands or number of effects shows. `Closures` adds frames, open upvalues, cells,
variables to be closed and loops. The world's functions call every function they were
ever given, which makes shared cells visible.

`ExpressionSemantics` and `StatementSemantics` give the value, the events and the final
variables of a syntax tree with environments and cells, and its text.
`ExpressionIsCompiled` compiles an expression as the value of a new variable, as an
assigned value, as a field, as a condition and in further contexts, and compares;
`ProgramIsCompiled` does so for blocks, functions, loops, gotos and attribs, and says which programs
the parser must reject.

Left out: lines, syntax errors (tokens come from trees), and limits on registers
and sizes; float constants are integral.

### 2.11 Scanner, streams, chunks

A stream is cut into pieces by its reader in every way; `n` is the unsigned counter that goes
below zero at the end. `Scanner` reads one character ahead, into a buffer that grows, and
its results are compared for all cuts and with the tokens that words mean. `Chunks` writes a
function as `ldump.c` does, with alignment of arrays, strings saved once and variable-length
integers, and reads it back through a stream, copying or in place. In the run a byte has
8 values and a digit of such an integer 4; `loose` and `lost` tell that an object was not
anchored when a collection could run.

### 2.12 Libraries

`Matching` is `lstrlib.c`'s matcher with its captures and its recursion limit; its reference is the
first way through the items in the order of preference. `Sort` has one action per
comparison, with any answer or those of an order; `choosePivot` is any element of the middle
half. An element is named by where it was at first and has a rank, so that elements of the same rank
are told apart and none can be lost behind another; `calls` has what each active call of
`auxsort` has left to sort. `TableLibrary` has tables as functions on every integer of the width, and lengths that
no table has, because `__len` may answer them; signed overflow is recorded, and found not to
happen. `StringPack` packs bytes of `NB` bits. `Utf8` decodes real bytes, valid or not; what reads beyond the final zero is an outcome of its own (section 6). `RandomNumbers`
has the generator twice, with words and with halves that have bits to spare.

### 2.13 Buffers and references

`Buffers`: `B` is the `luaL_Buffer`, `stack` what it keeps on the stack, `box` the userdata, `blocks`
the memory that is allocated; every allocation may fail and every finalizer may run in
between. `References`: `t` is the table, with its list of free indices; `held` is what
callers believe.

## 3. What is checked

| Run | Question | Distinct states |
|---|---|---|
| `gc_heaps` | back barriers, weak values, finalizers and resurrection, an unguarded root, emergency and requested collections, strings held weakly; forward barriers of closures and closed upvalues, with an upvalue shared by two closures; against every interleaving; implementation of `HeapContract` | 2.8 million |
| `gc_live` | garbage is freed, with full collections of both kinds; emergency collections end, and requested ones if finalizers return (a table and a coroutine) | 327 thousand |
| `gen_heaps` | what `lua_checkmemory` asserts between young collections, what ages promise, no dangling reference; implementation of `HeapContract` | 721 thousand |
| `tables` | the string table, with changes of the collector's mode and any allocation failing but the shrinking one of a young collection; and a table that is a map and can be traversed through resizes, collections and failures; and the length of a sequence, found with a moving hint, by binary search, or by doubling an index up to the largest integer | 506 thousand |
| `co` | protected calls of both kinds, handlers and continuations, with yields and errors, up to the limit of C calls and beyond; to-be-closed variables whose methods yield, fail and declare more; closing from outside; C functions that close while they return | 4.2 million |
| `machines` | the stack that moves, numeric loops, the cache of metamethods, string buffers, references, weak tables | 0.9 million |
| `inputs` | compiler, scanner, chunks and libraries, on every member of families of inputs; sorting is safe and ends | 257 thousand |
| `gen_joined`, `str_shrinking`, `co_tbcslot`, `co_stalehandler`, `table_weak` | **violated**, see section 6 (`table_weak` and `str_shrinking` are instances of `MCTables`) | |

The properties and what they protect:

* `NoDangling` (both collectors): no use after free. `MarksAreSound`: tri-colour
  marking, gray lists and clean ends of cycles. `SweepIsSound`: the dead are out of
  reach and in the part that is still to be swept.
  `FullCollectionComplete`, `GarbageIsFreed`, `FullCollectionEnds`: garbage goes.
  `MemoryIsConsistent`, `OldAreFollowed`: what a young collection trusts.
* `ListsAreExact`, `Interned`, `HandedOutAreAlive`: a string is found, is one, and is alive when handed
  out. `NodesAreFound`, `ActsAsMap`, `LengthIsBoundary`, `WalkVisitsAllOnce`: a table is a
  finite map.
* `CallsAreCounted`: the counts of C calls and of non-yieldable calls are exact on every way out.
  `ErrorsAreCaught`: the innermost protected call catches, and its handler is
  restored. `NoneForgotten`: no variable that is to be closed is forgotten. `ClosingIsTold`: flags and status
  tell what a function is doing. `CanContinue`: an interrupted function has a continuation.
* `StackIsWhole`, `LoopsRunTheirRange`, `AccessesMean`, `BuffersAreOwned`, `ReferencesHold`,
  `EphemeronsConverge`, and those of `inputs`: see sections 2.6 to 2.13.

`EphemeronsConverge` and the properties of `inputs` but those of sorting are action properties: the first is
about the step that is the atomic phase, the others about the step that picks an
input, whose results are those of the code's operators on that input.

Bounds. `MaxRefs` bounds the references of the heap, so that the state space is
finite: 3 is enough for the classic lost-object schedule (a white object moved
from an unvisited holder to a visited one: stack, holder and target), and for two closures
that share an upvalue; a shared upvalue that also holds a value needs 4 and is outside the
bound. `GCSWEEPMAX` is 1 (20 in the code), which gives the finest interleaving of program
and sweep; `FullGCs` names which full
collections a run allows, `Heaps` which objects may exist together: each heap pairs the
kinds whose interaction matters (table and weak table, weak table and coroutine or
string, closure and upvalue). Three references are enough in `gen_heaps` for an object to
pass all ages and for an old object to hold a young one that holds another. The string table starts with 8 lists and needs 2, so
it shrinks twice and grows again; the hashes 5, 1 and 6 collide modulo 4 and 2.
Tables have integers of 5 bits, with the largest one as a key, arrays of
up to 8 elements and hash parts of up to 8 nodes, in which the keys 2, 5 and the
object collide in both sizes, and 3 and 15 in the smaller; one value suffices to
tell presence, which is what resizing and collisions could get wrong, and the weak
run has two. The sequence has integers of 6 bits, an array of 16 or a hash part of 8 nodes, and keys
where the searches for its length turn: 8, 9, 12 and 13 around the hint, the powers of 2, and 31,
the largest integer, with and without an element.

Two programs of `co` have 4 stack slots (a protected call, a variable, its method and a call
inside it) and 3 C calls (200 in the code); the "protected" one has 2 more while the
overflow is handled (20 in the code), the "closing" one has 1: the limit
and both stages beyond it are reached in every combination. With so few calls a
coroutine could not close the slots of a C function that returns, so "returning" has 4 C calls, 1 more for an overflow, and 6 slots; with
them a method that yields or fails in the middle finds another variable still pending. Two threads are enough for a
resume, a close and a refusal of either; what a third adds is one more activation in the
middle of the C stack.

In `machines`, the stack starts with 4 slots and may have 7, 15 in the handling of an overflow:
it grows, shrinks and overflows with 3 frames; distances between to-be-closed variables of
more than 2 need dummy nodes; 2 variables are open at a time. Loops have every initial value, limit and step
of 4 bits, floats, infinities and NaN included, strings and non-numbers. Two tables that may be each other's metatables
make chains and cycles of metamethods beyond the limit of 2 (2000 in the code); only one of
them is the handler of writes. Five additions
grow a buffer twice and make long and short strings; five references make the list of free
ones branch in every order. Two weak tables, four objects and a string are enough for an ephemeron
whose key is the value of another, in the other table, for chains visited in either
direction, and for resurrected keys; the program makes 2 writes in a cycle.

In `inputs`, integers have 4 to 6 bits and all of them occur; operands of instructions are so
small that each limit between an immediate, a constant and a register is crossed. Programs are
families: each operator with each kind of operands, nested once; each target; functions
that share, shadow and close variables; loops with two statements of every kind,
gotos, breaks and attribs included. Patterns are all pairs of 26 items and all sequences of four of
the six that backtrack most, on six subjects. Chunks have up to one nested function, with each
section empty or not, and are cut at every byte. Sorting with any answers has 7 elements, which
makes partitions of both kinds nest, and with an order all arrays of up to 5. Each property is broken by the mutant
listed with it, so the bounds reach the interesting case.

Fairness. `FairSpec` asks for weak fairness of the collector's steps and of a
finalizer's return. A program that allocates pays its debt by running steps
(`luaC_checkGC`), so the collector cannot be postponed for ever by a program that
keeps running; a program that stops allocating leaves garbage where it is, and
says nothing about the collector. Nothing is assumed of what the program does.
Weak fairness does not make every finalizer return, because each emergency collection in it
disables its return for a while; so the half of `FullCollectionEnds` about collections that the program
requested, which call finalizers, has the premise that those return (`FinalizersReturn`). Collections that a failed allocation
forced call none and need no such premise.
`SortEnds` assumes that each comparison returns (`WF` of `CompareElements`), and
nothing of its answers. The other modules are checked for safety only.

Deadlock is checked everywhere but in `inputs`, where a behaviour is over when its
input was picked: in `co`, whatever is on the C stack, the machine or the program can go on.

## 4. What is proved

| Module | Theorem | Property |
|---|---|---|
| `IncrementalGCProofs` | `TypeCorrect` | `TypeOK` |
| | `NothingDangles` | `NoDangling`: no use after free |
| | `MarkingIsSound` | `MarksAreSound`: tri-colour invariant, exact gray lists, cycles that end white |
| | `SweepingIsSound` | `SweepIsSound`: the dead are unreferenced and will be swept |
| | `FullCollectionsAreComplete` | `FullCollectionComplete`: a full collection leaves nothing but what is needed |
| | `CollectorImplementsContract` | `ImplementsContract`: every step is a step of `HeapContract` or not seen |
| `StringTableProofs` | `ListsStayExact` | `ListsAreExact`: every string is in the list of its hash, and counted |
| | `StringsAreInterned` | `Interned`: no contents exist twice |
| | `HandedOutStayAlive` | `HandedOutAreAlive`: what the program and the cache hold is alive |
| `GenerationalGCProofs` | `NothingInUseIsFreed` | `NoDangling`, in generational mode |
| | `MemoryStaysConsistent` | `MemoryIsConsistent`: what `lua_checkmemory` asserts |
| | `OldObjectsAreFollowed` | `OldAreFollowed`: old objects hide no young ones |
| | `GenerationalImplementsContract` | `ImplementsContract`, in generational mode |
| `CoroutinesProofs` | `CallsStayCounted` | `CallsAreCounted`: `nCcalls` is exact and within its limits |
| | `InterruptedCanContinue` | `CanContinue`: the assertions of `finishCcall` |
| | `InnermostCallCatches` | `InnermostCatches`, of `ErrorsAreCaught`: no `lua_pcallk` is skipped by an error |
| | `NoVariableForgotten` | `NoneForgotten`: every pending to-be-closed variable has something that will close it |
| | `ErrorsReachTheirHandler` | `ErrorsAreCaught`, of programs as `HandlersAlone` says: the innermost protected call catches, and no message handler outlives its protected call |
| `ReferencesProofs` | `ReferencesAlwaysHold` | `ReferencesHold`: a reference gives its object, no index is lost |
| `SortProofs` | `AnyArrayIsSorted` | `SortIsSafe`: sorting stays in the array and keeps its elements whatever the answers, and sorts with an order |

**The incremental collector**, for every set of objects, every assignment of kinds,
every `GCSWEEPMAX` and every bound, under the assumptions of `ConstantsAssumption`.
`NoDangling` is a statement
about paths and is not inductive. The inductive invariant `IInv` speaks of single
references instead: what an allocated object refers to is allocated, and is not
dead unless the object is; the dead are in the unswept part of `allgc`; while
marking, no black object refers to a white one and the gray objects are those of
the gray lists; in the sweep, the colours on either side of `sweepgc` differ. The
atomic phase is the hard step: its lemma shows that the marked set, being
closed under strong references, contains all that the surviving objects refer
to, weak tables after clearing included. `NoDangling` then follows because the
allocated objects that are not dead form a closed set that holds the roots
(lemma `ClosureLeast` of `Heap`).

`FullCollectionComplete` needs the other direction: nothing is marked, or survives,
that is not needed. `FullInv` says so of the cycle that a full collection
runs from its start (`Collecting`): while it marks, every object that is gray or black can be
reached by strong references from the roots and from the objects with finalizers; after
the atomic phase every object that is not dead can; and no program runs in between.
The start is the point of care: a full collection may find the collector in any phase, and its
first stage only finishes the cycle it finds, so `FullInv` says nothing of that one.

The implementation of `HeapContract` is a step simulation. Its mapping forgets colours, phases and
gray lists and joins the three lists of objects. A step of the program is a step of the contract
because what the program can name is reached without passing a dead object
(`HeldIsAccessible`); the atomic phase is the contract's `Collect`, which clears weak references
and picks what is to be finalized, because everything strongly reached is marked; a sweep
frees what no path leads to, because nothing dangles after it.

**The generational collector**, for every set of objects, every assignment of kinds and every
bound. The theorems assume `~Joins`, that the program does not call `lua_upvaluejoin`:
with it `OldAreFollowed` is false (`gen_joined`, section 6). Nothing else is assumed of the
program, its finalizers or the points where full and emergency collections come.
A young collection visits what is in the gray lists and the `old1` objects, and what it
reaches from there through young objects. It is right because of what the last collection and
the barriers since left behind, which is the invariant `IInv` (TLC checked it on the
instance of `gen_heaps` as well). Its parts, each with its name in the module:

* *ages by list* (`ListsAreLists`, `PointersInLists`, `Borders`): the three lists are disjoint
  and without repetitions; behind `survival`, `old1` and `reallyold`, and their likes in
  `finobj`, objects are at least so old; every `old1` object of `allgc` follows `firstold1`.
  The pointers may designate any object of the list, so each step that adds,
  moves or removes an object must show that it keeps what follows each pointer (the module
  begins with these facts: what `Kept`, `Without`, `Place`, `Part` and `FirstOutside` do to `From`,
  the part of a list that follows a pointer; `Kept` is recursive, and the facts about it
  rest on the least number where they could fail);
* *marks by age* (`YoungAreWhite`, `MarksFitAges`, `GrayAreGray`, `BlackIsDone`): white
  objects are the young ones; an old object is black, or gray and in exactly one gray list, as `touched1`,
  `old0` or a thread; what is black and `old0`, a closed upvalue that a barrier marked, refers to marked objects only;
* *references by age* (`OldHoldsNoYoung`): an `old` object refers to old ones, an `old1` or
  `touched2` object to no new one;
* *the rest* (`Types`, `EdgesAlive`, `FreeIsClean`, `NoAges`, `KindsInPlace`): references are to allocated objects, which
  gives `NoDangling`; in the incremental part of a full collection everything is new and white;
  upvalues are in `allgc` and only closures refer to them.

The hard step is the young collection. `YoungFacts` shows that an object that is marked before and not
visited is `old` or `old0`, black and no thread, so that it refers only to marked objects: nothing
it refers to is freed. `AgedHeap` shows that one
more age for everything re-establishes the marks and the references, and `YoungBorders` that each pointer, moved
one border on, cuts the new list right. `Swept` and `Separates` say what any collection does to the
references and lists, and are what the simulation of `HeapContract` needs.

**The string table**, for every set of strings, every hash function, every size and every
choice of failing allocations but one: the theorems assume `YoungShrinkSucceeds`, that the
shrinking allocation of a young collection does not fail. Without it they are false, as the
run `str_shrinking` shows (section 6). The inductive invariant adds to the three
properties where the strings are while the smaller table is being allocated (`Placed`: the
lists are those of the smaller size, `size` still the larger one), what `internshrstr` knows after its search
and uses after an allocation that may have run a collection (`CreatesNew`: the key is still not
in the table, and its list is still the right one), and that no emergency collection can start in between
(`ShrinkIsSafe`).

**Coroutines**, for every set of threads, every limit of C calls, every size of the stack and
every use of the API (`Uses`). All the statements compare something that an operation left
in a thread long ago (a count, the flags of a frame, the depth of a protected call) with the C stack, which a
yield or an error has cut since. So the inductive invariant `Inv1` first says what the C stack
looks like (`Ready`, in `CoroutinesStacks`):

* *who is on whom* (`Piled`, `Starts`, `Segments`, `Caught`): which kind of activation may be on which;
  the activations of a thread are together, and begin with a resume or a reset by
  a C function of another thread; something catches the errors of each;
* *who owns which frames* (`Fits`, `Framed`, `Inside`): there is a height for each activation,
  how many frames of its thread belong to it and to what is below; the frames between two heights fit the
  kind of the activation; those above a protected call or a non-yieldable call hold no
  `lua_pcallk` that could catch an error or be yielded across;
* *the frames of a thread* (`Chain`), also of those that are suspended: their functions are in
  order, and their flags go together;
* *the counts* (`Counted`): at each activation that is the last of its thread, the counts of the thread are
  those of the activations, and each protected call saved those of the activations below it;
* *what a yield leaves* (`Finishable`): a function that is not the last one of its thread is a Lua function,
  has a continuation or closes its variables, or a non-yieldable call is on it.

The heights are not in the state: the invariant says that there are some. Each operation of the
runtime is one of a few changes of the C stack (a push, a pop, a cut to an older
activation, another frame at the top, a thread that comes or goes), which
`CoroutinesStacks` shows to keep `Ready`. `Inv1` adds what is true between two steps
(`Settled`: no thread on the C stack counts as suspended or dead; `Tips`: what may be at the
top; `Raising` and `Faults`: who raises errors and where the message handler may be called) and has one
lemma for each action. What makes `Recover` right, for example, is that a coroutine whose error reaches
its resume has no protected call on the C stack above it, so that the frame with
the innermost `lua_pcallk` is the right one to go on with and no count refers to what was cut.

`NoneForgotten` needs more than `Inv1`: it is true of the closing of a block or of a
function only because of what will happen at its end, and an error in a `__close` method cuts
that off. The invariant `Inv2` therefore says less about the C stack and more about who is responsible
(`Owned`): a pending variable of a thread that is not dead belongs to a frame that has not
ended (`Carries`: that of its function, or that of the `lua_pcallk` which
`CIST_RECST` and `u2.funcidx` have made responsible), or to a
`luaF_close` of `luaD_closeprotected` that starts at or below its slot, which an error restarts
from the same slot (`Covered`). The other closings own nothing, their function still does. Each way to end a frame
must then show that it leaves no variable behind: a return, that `luaF_close` has emptied the list down to
the function (`Pending`: the list is in the order of the slots); an error, that
what it cuts is at or above the slot from which the call that catches it closes; a yield
and a resume, that no `luaD_closeprotected` is cut (`Passes`); the end of a coroutine by an error leaves its
variables to `coroutine.close`, the one case that `NoneForgotten` excepts.

`ErrorsAreCaught` is `InnermostCatches`, which follows from `Inv1`, and `HandlerIsRestored`: a thread that
has a message handler has a protected call that is not over. Nothing in that says whose
handler it is, so it is not inductive. `Inv3` (`Handled`) adds the handlers that are still to be put back: what each
protected call saved is no handler, or there is a protected call below
it, on the C stack (`InCatch`) or among the frames (`InPcall`). Each way out of a protected call must then find, in
what it saved, what those below it need. Two facts of `Inv1` make that work: a `lua_pcallk` that
returns or is finished has no `luaD_pcall` of its thread on the C stack, and what an error or a yield cuts off is no
protected call, except the one that catches.

The theorem has a hypothesis, `HandlersAlone`: a program that sets message handlers and makes protected calls
that can be yielded across (`lua_pcallk` in a coroutine) uses neither `coroutine.close` nor `lua_toclose`. It is needed, not a convenience:
`luaE_resetthread` drops the frames of a suspended `lua_pcallk` and leaves
`errfunc` as it is (the finding `co_stalehandler`), and so does `luaF_close` for
`luaD_poscall` when it is a slot of `lua_toclose` that makes `finishCcall` take an interrupted
`lua_pcallk` for a return (the finding `co_tbcslot`); with either, TLC finds
`HandlerIsRestored` violated. The run `co` obeys the hypothesis, and
`InnermostCallCatches` is the part of the property that is true of all programs.

**References**, for every set of objects and every bound. The property speaks of
what one finds by following the free list through the table, a recursive definition; the
invariant instead says that there is a sequence of distinct free indices from the head to 0. That
both are the same set is shown with the least number where they could differ.

**Sorting**, for arrays of every size, all ranks and every pivot that may be drawn (`SortConstants`: an
interval whose pivot is random has more than 4 elements, so that its middle half is
not empty). `SortIsSafe` says of an unfinished sort only where the pointers are, and of a finished one that
it is in order. What connects the two is `Placed`: two elements that are out of order lie together in an
interval that some call has left. A partition splits its interval at an element
that belongs there (`PartsAreNested`), a short interval is left in order (`TailIsNested`), and everything
in between only moves elements within the current interval (`Within`), which is apart from the others, so
that nothing changes for them (`WithinKeepsPlaces`). With an order, the pivot itself stops
the way forward and the elements already passed stop the way back: neither error is raised.
Without one, the bounds of the pointers follow from the checks before the errors alone. That the smaller part comes
first gives `CallsHalve`.

A constant's assumptions appear either as the module's `ASSUME` or as the hypothesis
of the theorem (`ReferencesConstants`, `SortConstants`), which the run that uses the module evaluates.

Model-checked only:

* liveness (`GarbageIsFreed`, `FullCollectionEnds`, `SortEnds`): out of the prover's reach;
* `CallsAreShallow`, which is a power of two, about which the provers know nothing: what is proved is
  that what a call has left is at least as large as all that its own calls have left, from which the
  logarithmic depth follows;
* `ClosingIsTold` of coroutines, buffers and loops, which declare no recursive operator, so
  that proofs can follow;
* `Table`, which uses a bitwise operator;
* the compiler, the virtual machine, the
  matcher, the scanner, chunks, `Stack`, `Metamethods` and `WeakTables`, which recurse over syntax,
  text or chains of objects: what they compute for every input is a matter of induction,
  which the prover cannot do.

## 5. Plan

Done: all modules of section 2, with the proofs of section 4.

Next, proofs:

1. `ClosingIsTold`, from `Inv2` and what `MCCoroutines` remembers of each variable.
2. The blocks of buffers, for every size of a buffer.

Then, what could still be modelled: hooks and the tracing of lines (`ldebug.c`, `ldo.c`);
`require` with its recursion and sentinel (`loadlib.c`); the life of a file handle between `close`,
`__gc` and `__close` (`liolib.c`); a change of a table's mode during a cycle; the shift from
minor to major collections; the arithmetic of the debt; float and string keys.

## 6. Findings

Each is a run that TLC finds violated; `PROJECT.json` ("findings") gives the lines.

* **A failed shrink in generational mode** (`str_shrinking`). `luaS_resize` moves the
  strings to the lists of the smaller table, then asks for the smaller vector.
  In an incremental step `gcstopem` is set and a failure only moves them back. A
  generational collection calls `checkSizes` without it (`finishgencycle`), so a
  failure runs an emergency collection while the strings are in lists that
  do not match `tb->size`, and `luaS_remove` does not find them. The comment of
  `luaS_resize` says that on failure the table keeps its size. It takes an
  allocator that fails to shrink a block.

* **Joined upvalues in generational mode** (`gen_joined`). `lua_upvaluejoin` may give an
  old closure a white closed upvalue. `luaC_barrier_` marks it, and `reallymarkobject` marks what a closed
  upvalue holds in turn; but only the upvalue itself becomes `old0`. What it holds is
  gray with the age `new`, against "young objects are kept white" in `lgc.h`. Stored in an old table
  before the next collection, it meets no barrier, since it is not white, and that
  collection makes it a white `survival` object: an `old` object points to a young one. Once the upvalue
  holds another value, the next young collection frees the object that the table still points to.
  Creating closures cannot do this, since a new closure is white. A userdata without user
  values marks its metatable in the same way and is not modelled.
* **A marked slot is taken for a return** (`co_tbcslot`). `lua_toclose` sets
  `CIST_CLSRET` when a C function marks a slot, not when it starts to close it. If
  the function then calls `lua_callk` and the callee yields, `finishCcall` finds
  the flag, takes the function for a returning one and finishes the return with whatever
  `u2.nres` holds: its continuation is never called.
* **A message handler that outlives its protected call** (`co_stalehandler`). When
  a coroutine suspended inside `xpcall` is closed, `luaE_resetthread` drops all
  its calls but leaves `L->errfunc`. If a `__close` method then fails,
  `luaG_errormsg` takes as the handler whatever is in that slot, which the call
  of the method has overwritten. `close_state`, which closes the main thread in
  `lua_close`, does the same and is not modelled.
* **A copy out of the collector's sight** (`table_weak`). When a resize shrinks the
  array, `luaH_resize` copies the vanishing entries into the new hash part and
  then allocates the new array. If that allocation has to run an emergency
  collection, and the table has weak values, the collector clears dead values from
  the table but does not know the copies; they go into the table, freed. The run
  `tables` has one value only, which the program holds while it stores it, so
  that the rest is checked without this.

Four disagreements have no run of their own.

* With `kexception` in the uses of the "closing" program, `StatusIsTrue` fails as well: a
  C++ exception that leaves a continuation inside a coroutine is caught by
  `luaD_rawrunprotected` with status -1, which `lua_resume` takes neither for an error
  nor for a yield, so that it does not mark the thread as dead. The "closing" program has
  exceptions in functions only, the "protected" one in continuations, where the
  counts and the handlers are right all the same.
* `luaD_growstack` says of a stack that is larger than the maximum that its thread "is
  handling a stack error" (`ldo.c:312-314`). A `lua_checkstack` that is refused leaves
  such a stack too, since the code below enlarges it whether an error is to be raised or not
  (`ldo.c:328-333`). Until a collection shrinks it, an overflow is reported as an error in a
  message handler. `Stack` does the same, and `SizeIsBounded` allows both.
* `utf8.offset` finds the end of a character of two bytes or more by looking at the byte
  after its second one (`lutf8lib.c:216-219`). If the character is cut after its first byte and
  that is the last byte of the string, the byte looked at is the one beyond the final zero. The comment
  "(cannot pass final '\0')" (`lutf8lib.c:201`) is about the loop before, which does not.
  `Utf8` has an outcome for it, and `OffsetsAreHeads` says that it is the outcome in this case and in no other.
* `lastline` is the "line of last token 'consumed'" (`llex.h:67`). After `luaX_lookahead`, which reads
  the next token without consuming it and may pass line ends, the token that is consumed next gets the line
  of the one that was looked at (`llex.c:570-585`). `LastlineIsTold` says which line it is in each case.

Two behaviours of the numeric loop are in its properties as the code has them, since the manual does not speak of
them: a float loop whose first value or limit is NaN runs once, and an integer loop with a negative
step and a NaN limit runs to the smallest integer.

## 7. Not modelled

Formatting of numbers, `string.format`, messages and other wording, type names and
names of variables in messages (a symbolic execution of bytecode in `ldebug.c`); hooks and
lines; syntax errors and the limits of the parser, which reads programs that are
syntactically right; argument checks of the libraries; `lua.c`, `loslib.c` and most of
`liolib.c` (pure I/O); the search of `loadlib.c` in the file system and dynamic linking;
`ltests.c`, which is test support, though its checks (`lua_checkmemory`) are the
source of several properties; the growth of vectors in `lmem.c`; creation and closing of the
global state. What is planned and not yet there is listed in section 5 and, with its
reason, in `PROJECT.json` ("components", "hazards").
