SPECIFICATION MCSpec
CONSTANTS
  s1 = s1
  s2 = s2
  s3 = s3
  A = A
  B = B
  C = C
  Str = {s1}
  Content = {A}
  Hash <- HashABC
  InitSize = 2
  MaxSize = 2
  CacheLen = 2
  memerrmsg = memerrmsg
  Modes = {"incremental", "generational"}
  Failures = {}
  o1 = o1
  IntKey = {1, 2, 3, 4, 5}
  Object = {}
  Value = {x, y}
  nil = nil
  Bits = 5
  MAXASIZE = 8
  LIMFORLAST = 1
  WeakValues = TRUE
  InitSizes <- Sizes
  Structures = {"table"}
  Failing = FALSE
INVARIANT NoFreedValue
