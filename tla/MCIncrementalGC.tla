-------------------------- MODULE MCIncrementalGC --------------------------
(* Small heaps for IncrementalGC: which kinds the dynamic objects have and *)
(* which of them may exist together.                                       *)
EXTENDS IncrementalGC, TLC

CONSTANTS main, reg, a, b, c, d, e, u   \* model values: the main thread, the registry, ...

FixedKinds == main :> "thread" @@ reg :> "table"

(* A table and a table with weak values: write barriers, finalizers,       *)
(* resurrection, clearing.  A string with the weak table: a weak value     *)
(* that is never cleared.  Two closures and an upvalue: forward barriers.  *)
ObjSmall == {main, reg, a, b, c, d, e, u}
KindSmall ==
  FixedKinds @@ a :> "table" @@ b :> "weak" @@ c :> "string"
    @@ d :> "closure" @@ e :> "closure" @@ u :> "upval"
HeapsSmall == {{main, reg, a, b}, {main, reg, b, c}, {main, reg, d, e, u}}

SymmetricClosures == Permutations({d, e})

(* A table and a coroutine.                                                *)
ObjFew == {main, reg, a, b}
KindFew == FixedKinds @@ a :> "table" @@ b :> "thread"
HeapsFew == {ObjFew}
=============================================================================
