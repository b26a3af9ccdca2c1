-------------------------- MODULE MCGenerationalGC --------------------------
(* Small heaps for GenerationalGC.                                         *)
EXTENDS GenerationalGC, TLC

CONSTANTS main, reg, t, w, c, d, u, co, null   \* model values

Objects == {main, reg, t, w, c, d, u, co}

Kinds1 ==
  main :> "thread" @@ reg :> "table" @@ t :> "table" @@ w :> "weak"
    @@ c :> "closure" @@ d :> "closure" @@ u :> "upval" @@ co :> "thread"

(* A table and a weak table: back barriers, finalizers, resurrection.      *)
(* A weak table and a coroutine: no barrier.                               *)
(* Two closures that share an upvalue: forward barriers.                   *)
SmallHeaps == {{main, reg, t, w}, {main, reg, w, co}, {main, reg, c, d, u}}

(* Room for them to be joined.                                             *)
JoinedHeap == {{main, reg, c, d, u}}

Symmetric == Permutations({c, d})
=============================================================================
