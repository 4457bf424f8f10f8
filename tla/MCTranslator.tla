---------------------------- MODULE MCTranslator ----------------------------
(***************************************************************************)
(* Instantiates Translator for TLC: the input file x.c, every file of up   *)
(* to 5 lines over MCParseState's names and wait lists, and two command    *)
(* lines that reach processInputFile, one in each context mode.            *)
(***************************************************************************)
EXTENDS Translator, MCParseState

XC == <<"x", ".", "c">>

FileX == [opt |-> "-f", arg |-> XC]
Optimized == [opt |-> "-m", arg |-> <<"optimized">>]
CtxCheck == [opt |-> "-m", arg |-> <<"ctxcheck">>]

MCTokens == {FileX, Optimized, CtxCheck}
MCInputFiles == {XC}
MCDirs == {<<>>}
MCParseInt == "0" :> 0

\* Two -m whose last one decides, in both orders.
MCCommandLines ==
  {<<Optimized, CtxCheck, FileX>>, <<CtxCheck, Optimized, FileX>>}
=============================================================================
