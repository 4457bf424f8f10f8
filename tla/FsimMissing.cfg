\* The FSim config does not exist; the script prints a message and goes on.
CONSTANTS
  Configs <- MCConfigs
  Fsims <- MCFsimMissing
  BinSizes = {0}
  None = None

SPECIFICATION Spec


\* The OCR config is left as it was or fully rewritten: RewriteConfig
\* truncates it and then raises NameError at the first size line.
PROPERTY
  AbsSpec
