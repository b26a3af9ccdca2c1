SPECIFICATION MCSpec
CONSTANTS
  s1 = s1
  s2 = s2
  s3 = s3
  A = A
  B = B
  C = C
  Str = {s1, s2, s3}
  Content = {A, B, C}
  Hash <- HashABC
  InitSize = 8
  MaxSize = 8
  CacheLen = 2
  memerrmsg = memerrmsg
  Modes = {"incremental", "generational"}
  Failures = {"grow", "create", "shrink", "young shrink"}
  o1 = o1
  IntKey = {1, 2, 3, 5, 15}
  Object = {o1}
  Value = {x}
  nil = nil
  Bits = 5
  MAXASIZE = 8
  LIMFORLAST = 1
  WeakValues = TRUE
  InitSizes <- Sizes
  Structures = {"strings"}
  Failing = FALSE
INVARIANT FreesFindTheirString
SYMMETRY Symmetric
