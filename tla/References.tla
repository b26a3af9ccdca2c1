----------------------------- MODULE References -----------------------------
(***************************************************************************)
(* The reference system (lauxlib.c: luaL_ref, luaL_unref).                 *)
(*                                                                         *)
(* t is the table that holds the references: t[1] and the freed indices    *)
(* are a linked list of numbers that ends with 0.  held is what a caller   *)
(* knows: the references it has and the object of each.  Writing a new     *)
(* element of t may fail for lack of memory.                               *)
(***************************************************************************)
EXTENDS Integers, Sequences

CONSTANTS Referents, MAXREFS            \* MAXREFS bounds the table
ReferencesConstants == Referents \cap Int = {} /\ MAXREFS \in Nat \ {0}

VARIABLES t, held
vars == <<t, held>>

lua_rawlen == Len(t)
Initialized == t # <<>>
(* The list goes on where the last index freed was.                        *)
FaultyUnlinked(ref) == [t EXCEPT ![1] = ref]

Unlinked(ref) == [t EXCEPT ![1] = t[ref]]

luaL_ref(o) ==
  \E list \in {IF Initialized THEN t ELSE <<0>>} :
    LET ref == IF list[1] # 0 THEN list[1] ELSE Len(list) + 1
        next == IF list[1] # 0 THEN [Unlinked(ref) EXCEPT ![ref] = o] ELSE Append(list, o)
    IN  /\ ref <= MAXREFS
        /\ \/ t' = next /\ held' = [r \in DOMAIN held \cup {ref} |-> IF r = ref THEN o ELSE held[r]]
           \/ list[1] = 0 /\ t' = list /\ UNCHANGED held
luaL_unref(ref) ==
  /\ t' = [t EXCEPT ![ref] = t[1], ![1] = ref]
  /\ held' = [r \in DOMAIN held \ {ref} |-> held[r]]

Init == t = <<>> /\ held = <<>>
Next == (\E o \in Referents : luaL_ref(o)) \/ \E ref \in DOMAIN held : luaL_unref(ref)
Spec == Init /\ [][Next]_vars

-----------------------------------------------------------------------------
FreeList == LET at[n \in 1 .. MAXREFS + 1] == IF n = 1 THEN t[1] ELSE IF at[n - 1] \in 1 .. Len(t) THEN t[at[n - 1]] ELSE 0
            IN  {at[n] : n \in DOMAIN at} \ {0}
(* A reference gives its object until it is freed, whatever others were    *)
(* made and freed meanwhile, and every index of the table is held or can   *)
(* be used again (luaL_ref, luaL_unref).                                   *)
ReferencesHold ==
  Initialized =>
    /\ \A r \in DOMAIN held : t[r] = held[r]
    /\ FreeList \cap DOMAIN held = {}
    /\ DOMAIN t = {1} \cup DOMAIN held \cup FreeList
=============================================================================
