---------------------------- MODULE MCXeConfigFix ----------------------------
EXTENDS XeConfigFix

\* Sections in the generator's layout; the L1 sizes are 0x10000, 0x10000
\* and 0xF000, the values the rewrite replaces on L2 and neighborcount lines
\* are 0.
P0 == <<Header("MemPlatformInst0"), Key("start", 0), Key("size", 65536)>>
T0 == <<Header("MemTargetInst0"), Key("size", 65536)>>
A0 == <<Header("AllocatorInst0"), Key("size", 61440)>>
PD == <<Header("PolicydomainInst0"), Key("other", 0), Key("neighborcount", 0)>>
L2(h) == <<Header(h), Key("size", 0)>>

L2Names == {"MemPlatformInstForL2", "MemTargetInstForL2", "AllocatorInstForL2"}

\* The three L2 sections in every order.
Layouts ==
  {P0 \o L2(o[1]) \o T0 \o L2(o[2]) \o A0 \o L2(o[3]) \o PD : o \in SetToSeqs(L2Names)}

\* L1's size above its start; the start keeps its old value.
SizeFirst ==
  <<Header("MemPlatformInst0"), Key("size", 65536), Key("start", 0)>>
    \o T0 \o A0 \o PD

\* A second size in L1: the first is rewritten, ConfigParser reads the last.
TwoSizes == P0 \o <<Key("size", 32768)>> \o T0 \o A0 \o PD

\* An unlisted section right after a listed header inherits its section.
Inherit ==
  P0 \o <<Header("MemTargetInst0"), Header("Other"), Key("size", 4096)>>
    \o T0 \o A0 \o PD

\* No AllocatorInst0: ExtractValues raises.
NoAllocator == P0 \o T0 \o PD

MCConfigs == Layouts \cup {SizeFirst, TwoSizes, Inherit, NoAllocator}

\* cluster_count 2, block_count 4, sl2_size 1 (KiB), stack in IPM; and a
\* config without xe_ipm_stack.
MCFsims ==
  {[cc |-> 2, bc |-> 4, sl2 |-> 1, ipm |-> 1],
   [cc |-> 1, bc |-> 1, sl2 |-> 2, ipm |-> None]}

MCFsimsAndMissing == MCFsims \cup {None}

MCFsimMissing == {None}
=============================================================================
