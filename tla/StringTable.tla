---------------------------- MODULE StringTable ----------------------------
(***************************************************************************)
(* The table of short strings (lstring.c) and the cache of luaS_new, with  *)
(* the collector that removes strings from it.  Creating a string and      *)
(* resizing the table both allocate memory, and an allocation that fails   *)
(* runs an emergency collection, which frees strings while the caller is   *)
(* in the middle of its work: that is why luaS_resize and internshrstr are *)
(* split here at each allocation.                                          *)
(*                                                                         *)
(* The order of a chain does not matter, so a chain is a set.  A string is *)
(* its identity and its contents; contents that hash alike share chains.   *)
(* The marking of strings is modelled by what it does: strings the program *)
(* holds are marked by the end of the atomic phase, others may be if they  *)
(* were held when the marking passed.                                      *)
(***************************************************************************)
EXTENDS Naturals, FiniteSets, Sequences

CONSTANTS
  Str,         \* identities of string objects
  Content,     \* contents of short strings
  Hash,        \* Hash[c]: luaS_hash of the contents c
  InitSize,    \* initial size of the table (MINSTRTABSIZE)
  MaxSize,     \* MAXSTRTB
  CacheLen,    \* STRCACHE_M
  memerrmsg,   \* the fixed string that fills the cache
  Modes,       \* bound of the model: collector modes the program uses
  Failures     \* bound of the model: which allocations may fail

ASSUME StringConstants ==
  /\ IsFiniteSet(Str) /\ Content # {}
  /\ Hash \in [Content -> Nat]
  /\ InitSize \in Nat \ {0} /\ MaxSize \in Nat /\ InitSize <= MaxSize
  /\ CacheLen \in Nat \ {0}
  /\ memerrmsg \notin Str
  /\ Modes \subseteq {"incremental", "generational"} /\ "incremental" \in Modes
  /\ Failures \subseteq {"grow", "create", "shrink", "young shrink"}

VARIABLES
  content,   \* content[s]: the contents of the allocated strings s
  chain,     \* tb->hash: chain[i] is the set of strings in list i
  size, nuse,
  color,     \* "white", "otherwhite" (dead once flipped), "black"
  held,      \* strings the program holds
  cache,     \* one row of g->strcache
  gckind, gcstate, unswept,
  at,        \* the allocation the running function waits for, if any
  key, list, \* in internshrstr: what to create, and in which list
  tried,     \* this allocation has already run an emergency collection
  cached,    \* internshrstr was called by luaS_new
  missed     \* strings that luaS_remove did not find in their list

table == <<content, chain, size, nuse>>
gc == <<gckind, gcstate, unswept>>
call == <<at, key, list, tried, cached>>
vars == <<content, chain, size, nuse, color, held, cache, gckind, gcstate,
          unswept, at, key, list, tried, cached, missed>>

Allocated == DOMAIN content
lmod(h, n) == h % n
HashOf(s) == Hash[content[s]]
Dead(s) == color[s] = "otherwhite"

Init ==
  /\ content = [s \in {} |-> CHOOSE c \in Content : TRUE]
  /\ chain = [i \in 0 .. MaxSize - 1 |-> {}]
  /\ size = InitSize /\ nuse = 0
  /\ color = [s \in Str |-> "white"]
  /\ held = {}
  /\ cache = [j \in 1 .. CacheLen |-> memerrmsg]
  /\ gckind = "incremental" /\ gcstate = "pause" /\ unswept = {}
  /\ at = "idle" /\ key = (CHOOSE c \in Content : TRUE) /\ list = 0 /\ tried = FALSE /\ cached = FALSE
  /\ missed = {}

-----------------------------------------------------------------------------
(* Operations on the table *)

(* The last list is forgotten.                                             *)
FaultyRehash(osize, nsize, ch) ==
  LET moved == UNION {ch[i] : i \in 0 .. osize - 2}
  IN  [i \in 0 .. MaxSize - 1 |-> {s \in moved : lmod(HashOf(s), nsize) = i}]

(* tablerehash moves the strings of the first osize lists to the lists     *)
(* they belong to in a table of size nsize.                                *)
Rehash(osize, nsize, ch) ==
  LET moved == UNION {ch[i] : i \in 0 .. osize - 1}
  IN  [i \in 0 .. MaxSize - 1 |-> {s \in moved : lmod(HashOf(s), nsize) = i}]

(* luaS_remove on every string of D: it searches the list that the hash    *)
(* and the present size give.                                              *)
Unlinked(D) ==
  [i \in 0 .. MaxSize - 1 |->
     {s \in chain[i] : s \notin D \/ lmod(HashOf(s), size) # i}]
NotFound(D) == {s \in D : s \notin chain[lmod(HashOf(s), size)]}

(* The strings of D are freed.                                             *)
Free(D) ==
  /\ missed' = missed \union NotFound(D)
  /\ nuse' = nuse - Cardinality(D)
  /\ content' = [s \in Allocated \ D |-> content[s]]

(* Entries that would be collected are kept.                               *)
FaultyClearCache(marked) == cache

(* luaS_clearcache, given the strings that are marked.                     *)
ClearCache(marked) ==
  [j \in 1 .. CacheLen |-> IF cache[j] \in marked THEN cache[j] ELSE memerrmsg]

-----------------------------------------------------------------------------
(* The program: internshrstr and luaS_new *)

(* Dead strings are not found.                                             *)
FaultyMatches(c) ==
  {s \in chain[lmod(Hash[c], size)] : content[s] = c /\ ~Dead(s)}

(* The strings that the search of internshrstr may stop at.                *)
Matches(c) == {s \in chain[lmod(Hash[c], size)] : content[s] = c}

(* The dead string is returned as it is.                                   *)
FaultyResurrect(s) == color

(* changewhite on a dead string.                                           *)
Resurrect(s) == [color EXCEPT ![s] = IF Dead(s) THEN "white" ELSE @]

(* luaS_new keeps what internshrstr returns as the first entry.            *)
Return(s, row, new) ==
  /\ held' = held \union {s}
  /\ cache' = IF new THEN [row EXCEPT ![1] = s] ELSE row

Hits(c) == {s \in {cache[j] : j \in 1 .. CacheLen} \ {memerrmsg} : content[s] = c}

(* luaS_new moves its entries one place before it creates the string.      *)
Shifted == [j \in 1 .. CacheLen |-> IF j = 1 THEN cache[1] ELSE cache[j - 1]]

(* luaS_new finds the string in its cache.                                 *)
CacheHit(c) ==
  /\ at = "idle"
  /\ \E s \in Hits(c) : held' = held \union {s}
  /\ UNCHANGED <<table, color, cache, gc, call, missed>>

(* The string exists: return it, alive again if it was dead.               *)
Reuse(c, new) ==
  /\ at = "idle" /\ (new => Hits(c) = {})
  /\ \E s \in Matches(c) :
       /\ color' = Resurrect(s)
       /\ Return(s, IF new THEN Shifted ELSE cache, new)
  /\ UNCHANGED <<table, gc, call, missed>>

(* The string does not exist: go on to create it, growing the table first  *)
(* if it is full.                                                          *)
StartCreate(c, new) ==
  /\ at = "idle" /\ (new => Hits(c) = {}) /\ Matches(c) = {}
  /\ at' = IF nuse >= size /\ size <= MaxSize \div 2 THEN "grow" ELSE "create"
  /\ key' = c /\ list' = lmod(Hash[c], size) /\ tried' = FALSE /\ cached' = new
  /\ cache' = IF new THEN Shifted ELSE cache
  /\ UNCHANGED <<table, color, held, gc, missed>>

(* The list found before the table grew is used.                           *)
FaultyGrown ==
  /\ at = "grow"
  /\ size' = 2 * size
  /\ chain' = Rehash(size, 2 * size, chain)
  /\ at' = "create" /\ tried' = FALSE
  /\ UNCHANGED <<content, nuse, color, held, cache, gc, key, list, cached, missed>>

(* luaS_resize to the double size succeeds.                                *)
Grown ==
  /\ at = "grow"
  /\ size' = 2 * size
  /\ chain' = Rehash(size, 2 * size, chain)
  /\ at' = "create" /\ list' = lmod(Hash[key], 2 * size) /\ tried' = FALSE
  /\ UNCHANGED <<content, nuse, color, held, cache, gc, key, cached, missed>>

(* It fails, after an emergency collection: the table keeps its size.      *)
NotGrown ==
  /\ at = "grow" /\ tried
  /\ at' = "create" /\ list' = lmod(Hash[key], size) /\ tried' = FALSE
  /\ UNCHANGED <<table, color, held, cache, gc, key, cached, missed>>

(* createstrobj succeeds: the new string is linked in 'list'.              *)
Created ==
  /\ at = "create"
  /\ \E s \in Str \ Allocated :
       /\ content' = [t \in Allocated \union {s} |-> IF t = s THEN key ELSE content[t]]
       /\ chain' = [chain EXCEPT ![list] = @ \union {s}]
       /\ color' = [color EXCEPT ![s] = "white"]
       /\ Return(s, cache, cached)
  /\ nuse' = nuse + 1
  /\ at' = "idle"
  /\ UNCHANGED <<size, gc, key, list, tried, cached, missed>>

(* createstrobj raises a memory error, after an emergency collection.      *)
NotCreated ==
  /\ at = "create" /\ tried
  /\ at' = "idle"
  /\ UNCHANGED <<table, color, held, cache, gc, key, list, tried, cached, missed>>

(* The program lets go of a string.                                        *)
Release(s) ==
  /\ at = "idle"
  /\ held' = held \ {s}
  /\ UNCHANGED <<table, color, cache, gc, call, missed>>

-----------------------------------------------------------------------------
(* The incremental collector *)

(* A cycle starts.                                                         *)
Restart ==
  /\ at = "idle" /\ gckind = "incremental" /\ gcstate = "pause"
  /\ gcstate' = "propagate"
  /\ UNCHANGED <<table, color, held, cache, gckind, unswept, call, missed>>

(* A string the program holds is marked.                                   *)
Mark(s) ==
  /\ at = "idle" /\ gckind = "incremental" /\ gcstate = "propagate"
  /\ color[s] = "white"
  /\ color' = [color EXCEPT ![s] = "black"]
  /\ UNCHANGED <<table, held, cache, gc, call, missed>>

(* atomic: all that is held is marked, the cache is cleared, the current   *)
(* white is flipped and the sweep starts.                                  *)
Atomic ==
  /\ at = "idle" /\ gckind = "incremental" /\ gcstate = "propagate"
  /\ LET marked == held \union {s \in Allocated : color[s] = "black"}
     IN  /\ cache' = ClearCache(marked)
         /\ color' = [s \in Str |-> IF s \in marked THEN "black"
                                    ELSE IF s \in Allocated THEN "otherwhite" ELSE "white"]
  /\ gcstate' = "sweep" /\ unswept' = Allocated
  /\ UNCHANGED <<table, held, gckind, call, missed>>

(* sweeplist on one string.                                                *)
Sweep(s) ==
  /\ at = "idle" /\ gckind = "incremental" /\ gcstate = "sweep"
  /\ unswept' = unswept \ {s}
  /\ color' = [color EXCEPT ![s] = "white"]
  /\ IF Dead(s) THEN Free({s}) /\ chain' = Unlinked({s})
               ELSE UNCHANGED <<content, chain, nuse, missed>>
  /\ UNCHANGED <<size, held, cache, gckind, gcstate, call>>

(* The table may shrink to nothing.                                        *)
FaultyTooBig(n) == n <= size \div 4

(* checkSizes: the table has too many lists for n strings.                 *)
TooBig(n) == n < size \div 4

(* checkSizes calls luaS_resize, which, before it asks for the smaller     *)
(* vector, empties the upper half of the present one.  An emergency        *)
(* collection may start there unless 'gcstopem' is set.                    *)
CheckSizes(n, ch, gcstopem) ==
  IF TooBig(n)
    THEN chain' = Rehash(size, size \div 2, ch) /\ at' = "shrink" /\ tried' = gcstopem
    ELSE chain' = ch /\ UNCHANGED <<at, tried>>

(* 'gcstopem' is not set.                                                  *)
FaultyEndSweep ==
  /\ at = "idle" /\ gckind = "incremental" /\ gcstate = "sweep" /\ unswept = {}
  /\ gcstate' = "pause"
  /\ CheckSizes(nuse, chain, FALSE)
  /\ UNCHANGED <<content, size, nuse, color, held, cache, gckind, unswept, key, list,
                 cached, missed>>

(* End of an incremental sweep: checkSizes, inside singlestep, which has   *)
(* set 'gcstopem'; then the pause.                                         *)
EndSweep ==
  /\ at = "idle" /\ gckind = "incremental" /\ gcstate = "sweep" /\ unswept = {}
  /\ gcstate' = "pause"
  /\ CheckSizes(nuse, chain, TRUE)
  /\ UNCHANGED <<content, size, nuse, color, held, cache, gckind, unswept, key, list,
                 cached, missed>>

(* The reallocation to the smaller size succeeds.                          *)
Shrunk ==
  /\ at = "shrink"
  /\ size' = size \div 2
  /\ at' = "idle" /\ tried' = FALSE
  /\ UNCHANGED <<content, chain, nuse, color, held, cache, gc, key, list, cached, missed>>

(* Bound of the model: which allocations fail; a young collection, too,    *)
(* may ask for a smaller table.                                            *)
MayFail ==
  IF at = "shrink" /\ gckind = "generational" THEN "young shrink" \in Failures
                                             ELSE at \in Failures

(* The strings stay where the smaller table had them.                      *)
FaultyNotShrunk ==
  /\ at = "shrink" /\ tried /\ MayFail
  /\ at' = "idle" /\ tried' = FALSE
  /\ UNCHANGED <<table, color, held, cache, gc, key, list, cached, missed>>

(* It fails: the strings go back to the lists of the present size.         *)
NotShrunk ==
  /\ at = "shrink" /\ tried /\ MayFail
  /\ chain' = Rehash(size \div 2, size, chain)
  /\ at' = "idle" /\ tried' = FALSE
  /\ UNCHANGED <<content, size, nuse, color, held, cache, gc, key, list, cached, missed>>

-----------------------------------------------------------------------------
(* Emergency collections and the generational mode *)

(* A full collection frees every string not held.                          *)
FullCollection ==
  /\ Free(Allocated \ held) /\ chain' = Unlinked(Allocated \ held)
  /\ cache' = ClearCache(held)
  /\ color' = [s \in Str |-> IF gckind = "generational" /\ s \in held
                              THEN "black" ELSE "white"]
  /\ gcstate' = "pause" /\ unswept' = {}

(* tryagain: the allocation failed and 'gcstopem' is not set.  In          *)
(* singlestep it is set ('tried' is TRUE from the start there); in a young *)
(* collection it is not.                                                   *)
Emergency ==
  /\ at # "idle" /\ MayFail /\ ~tried
  /\ FullCollection
  /\ tried' = TRUE
  /\ UNCHANGED <<size, held, gckind, at, key, list, cached>>

(* A collection in generational mode frees the strings of D and leaves     *)
(* those of 'old' black; then finishgencycle calls checkSizes.             *)
CollectGen(D, old) ==
  /\ Free(D)
  /\ cache' = ClearCache(Allocated \ D)
  /\ color' = [s \in Str |-> IF s \in old THEN "black" ELSE "white"]
  /\ CheckSizes(nuse - Cardinality(D), Unlinked(D), FALSE)
  /\ UNCHANGED <<size, held, key, list, cached>>

(* youngcollection frees young strings; which of those that nobody holds   *)
(* are spared, because an old object refers to them, and which survivors   *)
(* become old is left open.                                                *)
YoungCollection ==
  /\ at = "idle" /\ gckind = "generational"
  /\ \E D \in SUBSET {s \in Allocated \ held : color[s] = "white"} :
       \E old \in SUBSET (Allocated \ D) :
         /\ {s \in Allocated : color[s] = "black"} \subseteq old
         /\ CollectGen(D, old)
  /\ UNCHANGED gc

(* lua_gc(LUA_GCGEN), entergen, from the pause (it runs up to the pause    *)
(* first): a whole cycle, after which everything is old.                   *)
EnterGenerational ==
  /\ "generational" \in Modes
  /\ at = "idle" /\ gckind = "incremental" /\ gcstate = "pause"
  /\ gckind' = "generational"
  /\ CollectGen(Allocated \ held, held)
  /\ UNCHANGED <<gcstate, unswept>>

(* lua_gc(LUA_GCINC), minor2inc: the sweep makes everything white again.   *)
EnterIncremental ==
  /\ at = "idle" /\ gckind = "generational"
  /\ gckind' = "incremental" /\ gcstate' = "sweep" /\ unswept' = Allocated
  /\ UNCHANGED <<table, color, held, cache, call, missed>>

-----------------------------------------------------------------------------
Program ==
  \/ \E c \in Content : CacheHit(c)
  \/ \E c \in Content, new \in BOOLEAN : Reuse(c, new) \/ StartCreate(c, new)
  \/ Grown \/ NotGrown \/ Created \/ NotCreated
  \/ \E s \in held : Release(s)

Collector ==
  \/ Restart
  \/ \E s \in held : Mark(s)
  \/ Atomic
  \/ \E s \in unswept : Sweep(s)
  \/ EndSweep \/ Shrunk \/ NotShrunk
  \/ Emergency \/ YoungCollection \/ EnterGenerational \/ EnterIncremental

Next == Program \/ Collector

Spec == Init /\ [][Next]_vars

-----------------------------------------------------------------------------
(* Properties *)

TypeOK ==
  /\ Allocated \subseteq Str /\ \A s \in Allocated : content[s] \in Content
  /\ chain \in [0 .. MaxSize - 1 -> SUBSET Str]
  /\ size \in 1 .. MaxSize /\ nuse \in Nat
  /\ color \in [Str -> {"white", "otherwhite", "black"}]
  /\ held \subseteq Str /\ unswept \subseteq Str
  /\ cache \in [1 .. CacheLen -> Str \union {memerrmsg}]
  /\ gckind \in Modes /\ gcstate \in {"pause", "propagate", "sweep"}
  /\ at \in {"idle", "grow", "create", "shrink"}
  /\ key \in Content /\ list \in 0 .. MaxSize - 1
  /\ tried \in BOOLEAN /\ cached \in BOOLEAN /\ missed \subseteq Str

(* Short strings are compared by address (eqshrstr): there are never two   *)
(* strings with the same contents, not even a dead one that the sweep has  *)
(* not reached beside a new one.                                           *)
Interned == \A s, t \in Allocated : content[s] = content[t] => s = t

(* Every string is in the list of its hash, whatever failed on the way,    *)
(* except while a smaller table is being allocated; and the count that     *)
(* decides about growing and shrinking is exact.                           *)
InItsList ==
  /\ at # "shrink" =>
       \A i \in 0 .. MaxSize - 1 :
         chain[i] = {s \in Allocated : lmod(HashOf(s), size) = i}
  /\ nuse = Cardinality(Allocated)

(* What the program holds is allocated and will survive the sweep.         *)
HeldIsAlive == \A s \in held : s \in Allocated /\ ~Dead(s)

(* luaS_new never returns a string that was freed, or that the sweep under *)
(* way will free.                                                          *)
CacheIsAlive ==
  \A j \in 1 .. CacheLen :
    cache[j] # memerrmsg => cache[j] \in Allocated /\ ~Dead(cache[j])

(* luaS_remove always finds the string that is being freed in the list of  *)
(* its hash; otherwise its loop runs off the end of the list.              *)
FreesFindTheirString == missed = {}

(* The lists of the table hold exactly the allocated strings, each where   *)
(* lookups and frees search for it, at every size (luaS_resize).           *)
ListsAreExact == TypeOK /\ InItsList /\ FreesFindTheirString

(* A string the program gets, from the table or from the cache, is neither *)
(* freed nor about to be (internshrstr, luaS_new).                         *)
HandedOutAreAlive == HeldIsAlive /\ CacheIsAlive
=============================================================================
