\* The COMPILE_ASSERT with & 0x7 admits contexts larger than the scratch.
CONSTANTS
  CtxModes = {"checked"}
  Decls <- MCDeclsChars
  WaitLists <- MCWaitListsChars
  ListSize = 4
  ScratchBytes = 16
  MaxWaits = 1
  Garbage = Garbage
  NULL = NULL
  None = None

SPECIFICATION Spec

\* A task stops after its last wait (or when its build is rejected).
CHECK_DEADLOCK FALSE

INVARIANT NoScratchOverflow
