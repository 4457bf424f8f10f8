\* main and ParseState together: the mode each of two command lines asks
\* for, over every file of up to 5 lines.
CONSTANTS
  CtxModes = {"checked", "optimized"}
  CtxNames <- MCCtxNames
  WaitLists <- MCWaitLists
  WaitCounts = {1, 2}
  Tails = {FALSE}
  MaxLines = 5
  None = None
  Tokens <- MCTokens
  MaxArgs = 3
  InputFiles <- MCInputFiles
  Dirs <- MCDirs
  ParseInt <- MCParseInt
  CommandLines <- MCCommandLines

SPECIFICATION TSpec

INVARIANTS
  ComposedTypeOK
  WaitAcceptedIffWellFormed
  ClosedLinesAccounted
  OutputInInputOrder
  HoistedOncePerDecl
  DeclsFollowCommandLine
