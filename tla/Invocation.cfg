\* Every command line of up to 4 arguments over help, debug, four input
\* paths, three -m values and five -v values, unknown options and a
\* positional argument.
CONSTANTS
  Tokens <- MCTokens
  MaxArgs = 4
  InputFiles <- MCInputFiles
  Dirs <- MCDirs
  ParseInt <- MCParseInt
  None = None

SPECIFICATION Spec


INVARIANTS
  TypeOK
  ConfigFromLastOccurrence
  UsageIffInvalid
  DiagnosticsRouted
