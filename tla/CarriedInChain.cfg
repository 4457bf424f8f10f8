\* A wait list that carries inChain explicitly gets inChain appended again.
CONSTANTS
  CtxModes = {"checked"}
  CtxNames <- MCCtxNames
  WaitLists <- MCWaitListsCarried
  WaitCounts = {1}
  Tails = {FALSE}
  MaxLines = 4
  None = None

SPECIFICATION Spec


INVARIANT CarriedEventsMatchSpec
