------------------------------ MODULE XeConfig ------------------------------
(***************************************************************************)
(* The data of src/ocr/scripts/Configs/xe_config_fix.py: the OCR config    *)
(* file, and the values the script reads from it and from the FSim config. *)
(*                                                                         *)
(* A line is a section header "[name]" or a key line "key = value".  The   *)
(* script tests lines by substring; the model names a line by what it      *)
(* contains: one of the section names the script looks for, or "Other";    *)
(* one of the keys it rewrites, or "other".  Numbers are integers: hex()   *)
(* and long(x, 16) are inverse on the values written, and the arithmetic   *)
(* between them is kept.  StripLeadingWhitespace is left out: a line has   *)
(* no indentation.                                                         *)
(***************************************************************************)
EXTENDS Integers, Sequences, SequencesExt

CONSTANT None

\* RewriteConfig: the section names and the code it gives each (lines 84-97).
SectionCode ==
  ("MemPlatformInst0" :> 1) @@ ("MemPlatformInstForL2" :> 2) @@
  ("MemTargetInst0" :> 10) @@ ("MemTargetInstForL2" :> 20) @@
  ("AllocatorInst0" :> 100) @@ ("AllocatorInstForL2" :> 200) @@
  ("PolicydomainInst0" :> 1000)

Headers == DOMAIN SectionCode \cup {"Other"}
Keys == {"start", "size", "neighborcount", "other"}

Header(h) == [hdr |-> h, key |-> "other", val |-> 0]
Key(k, v) == [hdr |-> "none", key |-> k, val |-> v]

\* The literals of the size arithmetic: 0x100 and 0x7000.
Reserve == 256
IpmStack == 28672

\* ConfigParser: a key line belongs to the last header above it, a header
\* repeated later adds to the same section, and the last value of a key
\* wins.  get() raises (NoSectionError, NoOptionError) when it has none.
HeaderOf(f, k) ==
  LET h == SelectLastInSeq(SubSeq(f, 1, k - 1), LAMBDA l : l.hdr # "none")
  IN IF h = 0 THEN "none" ELSE f[h].hdr

Get(f, s, key) ==
  LET ks == {k \in DOMAIN f : f[k].key = key /\ HeaderOf(f, k) = s}
  IN IF ks = {} THEN None ELSE f[Max(ks)].val

\* ExtractValues: the four globals, or None when a get() raises.
ExtractValues(f) ==
  LET v == [platstart |-> Get(f, "MemPlatformInst0", "start"),
            platsize  |-> Get(f, "MemPlatformInst0", "size"),
            tgtsize   |-> Get(f, "MemTargetInst0", "size"),
            allocsize |-> Get(f, "AllocatorInst0", "size")]
  IN IF \E n \in DOMAIN v : v[n] = None THEN None ELSE v

\* ExtractValuesFsim, over the FSim config's values [cc, bc, sl2, ipm]
\* (ipm None when TricksGlobal has no xe_ipm_stack).
ExtractValuesFsim(fs) ==
  [neighborcount |-> fs.bc * fs.cc,
   m2            |-> fs.sl2 * 1024,
   stackadd      |-> IF fs.ipm # None /\ fs.ipm > 0 THEN IpmStack ELSE 0]

=============================================================================
