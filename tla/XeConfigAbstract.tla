-------------------------- MODULE XeConfigAbstract --------------------------
(***************************************************************************)
(* What xe_config_fix.py promises (its "README First" comment, lines       *)
(* 12-15): the OCR config file is modified in a few fields, start and size *)
(* of the memory sections and the policy domain's neighbour count, from    *)
(* the binary's size and the FSim config.  Seen from outside, the file is  *)
(* either left as it was or replaced by its rewrite in one step.           *)
(*                                                                         *)
(* The rewrite is stated line by line, without the loop: the section a     *)
(* line is in is the last listed header above it, until the first line     *)
(* that closes it (a size line; neighborcount in the policy domain).       *)
(***************************************************************************)
EXTENDS XeConfig

CONSTANTS
  Configs,     \* the OCR config files the script may be given
  Fsims,       \* FSim configs, None when the file does not exist
  BinSizes     \* binend - binstart

VARIABLES orig, fsim, binsize, file

Closes(s, key) == key = IF s = 1000 THEN "neighborcount" ELSE "size"

SectionAt(f, k) ==
  LET h == SelectLastInSeq(SubSeq(f, 1, k), LAMBDA l : l.hdr \in DOMAIN SectionCode)
  IN IF h = 0 \/ \E j \in h + 1 .. k - 1 : Closes(SectionCode[f[h].hdr], f[j].key)
     THEN 0 ELSE SectionCode[f[h].hdr]

\* m2 shrinks by 1/32 after each L2 platform and target size (issue #902).
RECURSIVE Decayed(_, _)
Decayed(m, n) == IF n = 0 THEN m ELSE Decayed(m - m \div 32, n - 1)

L2Before(f, k) ==
  Cardinality({j \in 1 .. k - 1 : SectionAt(f, j) \in {2, 20} /\ f[j].key = "size"})

RewrittenLine(f, k, v, fv, b) ==
  LET s == SectionAt(f, k)
      key == f[k].key
      l1 == (1 :> v.platsize) @@ (10 :> v.tgtsize) @@ (100 :> v.allocsize)
  IN CASE s = 1 /\ key = "start" -> [f[k] EXCEPT !.val = v.platstart + b]
       [] s \in {1, 10, 100} /\ key = "size" ->
            [f[k] EXCEPT !.val = l1[s] - b + fv.stackadd - Reserve]
       [] s \in {2, 20, 200} /\ key = "size" ->
            [f[k] EXCEPT !.val = Decayed(fv.m2, L2Before(f, k))]
       [] s = 1000 /\ key = "neighborcount" ->
            [f[k] EXCEPT !.val = fv.neighborcount - 1]
       [] OTHER -> f[k]

Rewritten(f, v, fv, b) == [k \in DOMAIN f |-> RewrittenLine(f, k, v, fv, b)]

avars == <<orig, fsim, binsize, file>>

Init ==
  /\ orig \in Configs
  /\ fsim \in Fsims
  /\ binsize \in BinSizes
  /\ file = orig

Rewrite ==
  /\ file = orig
  /\ ExtractValues(orig) # None
  /\ fsim # None
  /\ file' = Rewritten(orig, ExtractValues(orig), ExtractValuesFsim(fsim), binsize)
  /\ UNCHANGED <<orig, fsim, binsize>>

Spec == Init /\ [][Rewrite]_avars

=============================================================================
