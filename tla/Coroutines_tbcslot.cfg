SPECIFICATION Spec
CONSTANTS
  Thread = {main, co}
  MainThread = main
  LUAI_MAXCCALLS = 4
  ErrorCCalls = 5
  MaxStack = 4
  Uses = {"callk", "toclose"}
INVARIANTS
  ClsretIsClosing
