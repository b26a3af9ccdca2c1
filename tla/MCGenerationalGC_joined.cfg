CONSTANTS
  main = main
  reg = reg
  t = t
  w = w
  c = c
  d = d
  u = u
  co = co
  null = null
  NULL = null
  Joins = TRUE
  MainThread = main
  Registry = reg
  Obj <- Objects
  Kind <- Kinds1
  Heaps <- JoinedHeap
  MaxRefs = 5
SPECIFICATION Spec
INVARIANT OldHoldsNoYoung
SYMMETRY Symmetric
