----------------------------- MODULE XeConfigFix -----------------------------
(***************************************************************************)
(* The run of src/ocr/scripts/Configs/xe_config_fix.py once its arguments  *)
(* are parsed: ExtractValues and ExtractValuesFsim (lines 135-147), then   *)
(* RewriteConfig (lines 74-127), which truncates the OCR config and writes *)
(* it back one line at a time while a section code follows the headers.   *)
(* A NameError (a global ExtractValuesFsim never set) or a ConfigParser    *)
(* error ends the script with a traceback.                                 *)
(***************************************************************************)
EXTENDS XeConfig

CONSTANTS Configs, Fsims, BinSizes

VARIABLES
  orig,      \* the OCR config as the script found it
  fsim,      \* the FSim config's values, None when the file does not exist
  binsize,   \* long(binend, 16) - long(binstart, 16)
  vals,      \* platstart, platsize, tgtsize, allocsize
  fvals,     \* neighborcount and stackadd; None when never assigned
  m2,        \* global m2; None when never assigned
  file,      \* the OCR config file's content
  lines,     \* the lines readlines() returned and the loop has not reached
  section,   \* RewriteConfig's section
  pc         \* "start", "rewrite", "done" or "failed"

vars == <<orig, fsim, binsize, vals, fvals, m2, file, lines, section, pc>>

Init ==
  /\ orig \in Configs
  /\ fsim \in Fsims
  /\ binsize \in BinSizes
  /\ vals = None
  /\ fvals = None
  /\ m2 = None
  /\ file = orig
  /\ lines = <<>>
  /\ section = 0
  /\ pc = "start"

\* Mutant: the file is not truncated before it is written back.
StartNoTruncate ==
  /\ pc = "start"
  /\ \/ /\ ExtractValues(file) = None
        /\ pc' = "failed"
        /\ UNCHANGED <<vals, fvals, m2, file, lines, section>>
     \/ /\ ExtractValues(file) # None
        /\ vals' = ExtractValues(file)
        /\ fvals' = IF fsim = None THEN None
                    ELSE [n \in {"neighborcount", "stackadd"} |->
                            ExtractValuesFsim(fsim)[n]]
        /\ m2' = IF fsim = None THEN None ELSE ExtractValuesFsim(fsim).m2
        /\ lines' = file
        /\ file' = file
        /\ section' = 0
        /\ pc' = "rewrite"
  /\ UNCHANGED <<orig, fsim, binsize>>

\* Lines 135-148 with RewriteConfig's open, readlines, seek and truncate
\* (78-82).  A missing FSim config is reported and the script goes on.
Start ==
  /\ pc = "start"
  /\ \/ /\ ExtractValues(file) = None
        /\ pc' = "failed"
        /\ UNCHANGED <<vals, fvals, m2, file, lines, section>>
     \/ /\ ExtractValues(file) # None
        /\ vals' = ExtractValues(file)
        /\ fvals' = IF fsim = None THEN None
                    ELSE [n \in {"neighborcount", "stackadd"} |->
                            ExtractValuesFsim(fsim)[n]]
        /\ m2' = IF fsim = None THEN None ELSE ExtractValuesFsim(fsim).m2
        /\ lines' = file
        /\ file' = <<>>
        /\ section' = 0
        /\ pc' = "rewrite"
  /\ UNCHANGED <<orig, fsim, binsize>>

\* The tests of lines 98-124: does a key line in section s get a new value?
Rewrites(s, key) ==
  \/ s = 1 /\ key = "start"
  \/ s \in {1, 2, 10, 20, 100, 200} /\ key = "size"
  \/ s = 1000 /\ key = "neighborcount"

\* The value written.  Every rewrite but L1's start reads a global that
\* only ExtractValuesFsim assigns.
NewVal(s, key) ==
  CASE s = 1 /\ key = "start" -> vals.platstart + binsize
    [] s = 1 -> vals.platsize - binsize + fvals.stackadd - Reserve
    [] s = 10 -> vals.tgtsize - binsize + fvals.stackadd - Reserve
    [] s = 100 -> vals.allocsize - binsize + fvals.stackadd - Reserve
    [] s \in {2, 20, 200} -> m2
    [] s = 1000 -> fvals.neighborcount - 1

NeedsFsim(s, key) == ~(s = 1 /\ key = "start")

\* Mutant: the decrement after the L2 target size (line 113) is missing.
M2AfterNo20(s) == IF s = 2 THEN m2 - m2 \div 32 ELSE m2

\* Lines 105 and 113: m2 shrinks after the L2 platform and target sizes.
M2After(s) == IF s \in {2, 20} THEN m2 - m2 \div 32 ELSE m2

\* Mutant: the section is not reset after its size line.
SectionAfterNoReset(s, key) == s

\* Lines 102-124: section = 0 after every rewrite but the start line's.
SectionAfter(s, key) == IF Rewrites(s, key) /\ key # "start" THEN 0 ELSE s

\* One iteration of the loop at lines 83-127.
RewriteLine ==
  /\ pc = "rewrite"
  /\ lines # <<>>
  /\ LET l == Head(lines)
         s == IF l.hdr \in DOMAIN SectionCode THEN SectionCode[l.hdr] ELSE section
         nameError == Rewrites(s, l.key) /\ NeedsFsim(s, l.key) /\ fvals = None
     IN \/ /\ nameError
           /\ pc' = "failed"
           /\ UNCHANGED <<m2, file, lines, section>>
        \/ /\ ~nameError
           /\ file' = Append(file, IF Rewrites(s, l.key)
                                   THEN [l EXCEPT !.val = NewVal(s, l.key)]
                                   ELSE l)
           /\ m2' = IF Rewrites(s, l.key) THEN M2After(s) ELSE m2
           /\ section' = SectionAfter(s, l.key)
           /\ lines' = Tail(lines)
           /\ UNCHANGED pc
  /\ UNCHANGED <<orig, fsim, binsize, vals, fvals>>

\* The loop ends and the with block closes the file.
Close ==
  /\ pc = "rewrite"
  /\ lines = <<>>
  /\ pc' = "done"
  /\ UNCHANGED <<orig, fsim, binsize, vals, fvals, m2, file, lines, section>>

\* The script ends: after the with block, or with a traceback.
Exit == pc \in {"done", "failed"} /\ UNCHANGED vars

Next == Start \/ RewriteLine \/ Close \/ Exit

Spec == Init /\ [][Next]_vars

-----------------------------------------------------------------------------
(***************************************************************************)
(* Refinement: until the script has finished, an outside reader of the     *)
(* OCR config is owed the original file.                                   *)
(***************************************************************************)

absFile == IF pc \in {"start", "rewrite"} THEN orig ELSE file

Abs == INSTANCE XeConfigAbstract WITH file <- absFile

TypeOK ==
  /\ pc \in {"start", "rewrite", "done", "failed"}
  /\ section \in {0} \cup {SectionCode[h] : h \in DOMAIN SectionCode}
  /\ m2 \in Int \cup {None}
  /\ \A k \in DOMAIN file : file[k].key \in Keys /\ file[k].val \in Int
  /\ Len(file) + Len(lines) <= Len(orig)

\* RewriteConfig as seen from outside: the OCR config is either left as it
\* was or replaced, when the script ends, by the rewrite the loop's section
\* tracking, its m2 decrements and its arithmetic are meant to produce.
AbsSpec == Abs!Spec

\* The same, for the runs in which the FSim config exists: every step that
\* changes what an outside reader sees is the abstract rewrite.
AbsSpecWithFsim == Abs!Init /\ [][fsim # None => Abs!Rewrite]_Abs!avars

\* Issue #902 (lines 105, 113): when the three L2 sections come in the order
\* platform, target, allocator, the sizes written nest strictly: the
\* allocator's inside the target's inside the platform's.
L2SizeAfter(f, h) ==
  LET i == SelectInSeq(f, LAMBDA l : l.hdr = h)
      j == SelectInSeq(SubSeq(f, i, Len(f)), LAMBDA l : l.key = "size")
  IN f[i + j - 1].val

L2InOrder(f) ==
  LET at(h) == SelectInSeq(f, LAMBDA l : l.hdr = h)
  IN 0 < at("MemPlatformInstForL2")
     /\ at("MemPlatformInstForL2") < at("MemTargetInstForL2")
     /\ at("MemTargetInstForL2") < at("AllocatorInstForL2")

L2Nested ==
  pc = "done" /\ L2InOrder(orig) =>
    /\ L2SizeAfter(file, "AllocatorInstForL2") < L2SizeAfter(file, "MemTargetInstForL2")
    /\ L2SizeAfter(file, "MemTargetInstForL2") < L2SizeAfter(file, "MemPlatformInstForL2")

=============================================================================
