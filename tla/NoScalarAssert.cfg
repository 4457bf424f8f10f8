\* A wait without scalars emits COMPILE_ASSERT(() < PDEVT_SCRATCH_BYTES).
CONSTANTS
  CtxModes = {"checked"}
  Decls <- MCDecls
  WaitLists <- MCWaitListsNoScalar
  ListSize = 4
  ScratchBytes = 1024
  MaxWaits = 1
  Garbage = Garbage
  NULL = NULL
  None = None

SPECIFICATION Spec

\* A task stops after its last wait (or when its build is rejected).
CHECK_DEADLOCK FALSE

INVARIANT FittingWaitCompiles
