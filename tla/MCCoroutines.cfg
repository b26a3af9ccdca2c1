SPECIFICATION MCSpec
CONSTANTS
  Thread = {main, co}
  MainThread = main
  LUAI_MAXCCALLS = 3
  ErrorCCalls = 5
  MaxStack = 4
  Uses = {"callk", "pcallk", "pcall", "handler", "tbc", "yieldk", "kexception"}
INVARIANTS
  CallsAreCounted
  CanContinue
  ErrorsAreCaught
  NoneForgotten
  ClosingIsTold
