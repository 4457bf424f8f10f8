\* The START_FUNC line is buffered, so hoisted declarations precede it.
CONSTANTS
  CtxModes = {"optimized"}
  CtxNames <- MCCtxNames
  WaitLists <- MCWaitListsNone
  WaitCounts = {1}
  Tails = {FALSE}
  MaxLines = 3
  None = None

SPECIFICATION Spec


INVARIANT HoistedAfterStart
