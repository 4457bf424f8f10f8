\* The checked and optimized expansions run for two successive waits of a
\* task, with the default PDEVT_LIST_SIZE = 4; a wait carrying five events
\* overflows into next[].
CONSTANTS
  CtxModes = {"checked", "optimized"}
  Decls <- MCDecls
  WaitLists <- MCWaitLists
  ListSize = 4
  ScratchBytes = 32
  MaxWaits = 2
  Garbage = Garbage
  NULL = NULL
  None = None

SPECIFICATION FairSpec

\* A task stops after its last wait (or when its build is rejected).
CHECK_DEADLOCK FALSE

INVARIANTS
  TypeOK
  ScalarContextPreserved
  EventListFreedOnce
  SaveWithinList

PROPERTY
  WaitCompletes
