CONSTANTS
  main = main
  reg = reg
  t = t
  w = w
  c = c
  d = d
  u = u
  co = co
  null = null
  NULL = null
  Joins = FALSE
  MainThread = main
  Registry = reg
  Obj <- Objects
  Kind <- Kinds1
  Heaps <- SmallHeaps
  MaxRefs = 3
SPECIFICATION Spec
INVARIANTS NoDangling MemoryIsConsistent OldAreFollowed
PROPERTY ImplementsContract
SYMMETRY Symmetric
