CONSTANTS
  main = main
  reg = reg
  a = a
  b = b
  c = c
  d = d
  e = e
  u = u
  MainThread = main
  Registry = reg
  Obj <- ObjFew
  Kind <- KindFew
  Heaps <- HeapsFew
  GCSWEEPMAX = 1
  MaxRefs = 2
  FullGCs = {"user", "emergency"}
SPECIFICATION FairSpec
PROPERTIES GarbageIsFreed FullCollectionEnds
