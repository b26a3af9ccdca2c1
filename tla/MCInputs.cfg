SPECIFICATION MCSpec
CHECK_DEADLOCK FALSE
CONSTANTS
  OFFSET_sC = 3
  MAXARG_C = 7
  OFFSET_sBx = 8
  MAXARG_Bx = 16
  MAXINDEXRK = 1
  MAXARG_B = 1
  MAXARG_vC = 2
  Width = 6
  MaxToStore = 2
  Registers = 12
  CValue <- CValueInt
  Frame = 20
  Body = 2
  SizeA = 7
  SizeO = 5
  RANLIMIT = 4
  IMBALANCE = 1
INVARIANTS
  SortIsSafe
  CallsAreShallow
PROPERTIES
  SortEnds
  ExpressionsCompute
  BlocksBehave
  MatchesMean
  NumbersAreExact
  ChunksComeBack
  TextsAreRead
  LibrariesKeepData
