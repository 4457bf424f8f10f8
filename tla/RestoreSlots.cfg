\* Carried events are all read back from events[0].
CONSTANTS
  CtxModes = {"optimized"}
  Decls <- MCDecls
  WaitLists <- MCWaitLists
  ListSize = 2
  ScratchBytes = 32
  MaxWaits = 1
  Garbage = Garbage
  NULL = NULL
  None = None

SPECIFICATION Spec

\* A task stops after its last wait (or when its build is rejected).
CHECK_DEADLOCK FALSE

INVARIANT EventContextPreserved
