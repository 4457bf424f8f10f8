\* One -f option naming x.c or d.c/x.c.
CONSTANTS
  Tokens <- MCTokensFiles
  MaxArgs = 1
  InputFiles <- MCInputFiles
  Dirs <- MCDirs
  ParseInt <- MCParseInt
  None = None

SPECIFICATION Spec


\* Section 4.4 puts the output at <input-basename>_pp.c; processInputFile
\* also rewrites the ".c" of the directory d.c.
INVARIANT OutputBesideInput
