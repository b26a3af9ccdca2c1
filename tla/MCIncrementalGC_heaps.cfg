CONSTANTS
  main = main
  reg = reg
  a = a
  b = b
  c = c
  d = d
  e = e
  u = u
  MainThread = main
  Registry = reg
  Obj <- ObjSmall
  Kind <- KindSmall
  Heaps <- HeapsSmall
  GCSWEEPMAX = 1
  MaxRefs = 3
  FullGCs = {"emergency"}
SPECIFICATION Spec
INVARIANTS TypeOK NoDangling MarksAreSound SweepIsSound
  FullCollectionComplete
PROPERTY ImplementsContract
SYMMETRY SymmetricClosures
