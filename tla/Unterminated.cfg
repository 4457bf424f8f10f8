\* A function left open at end of file: in optimized mode its buffered lines never reach the output, and nothing is reported.
CONSTANTS
  CtxModes = {"optimized"}
  CtxNames <- MCCtxNames
  WaitLists <- MCWaitListsNone
  WaitCounts = {1}
  Tails = {FALSE}
  MaxLines = 3
  None = None

SPECIFICATION Spec


INVARIANT EveryLineAccounted
