\* Every L2 section order and four irregular layouts, two FSim configs and
\* a binary of size 0 or 0x1000.
CONSTANTS
  Configs <- MCConfigs
  Fsims <- MCFsimsAndMissing
  BinSizes = {0, 4096}
  None = None

SPECIFICATION Spec


INVARIANTS
  TypeOK
  L2Nested

PROPERTY
  AbsSpecWithFsim
