SPECIFICATION MCSpec
CONSTANTS
  Referents = {obj1, obj2}
  MAXREFS = 5
INVARIANTS
  StackIsWhole
  LoopsRunTheirRange
  AccessesMean
  BuffersAreOwned
  ReferencesHold
PROPERTIES
  EphemeronsConverge
