---------------------------- MODULE MCInvocation ----------------------------
EXTENDS Invocation

\* x.c; x.h (no ".c": the output name is the input's); d.c/x.c (".c" in
\* the directory); y.c, which does not exist.
XC == <<"x", ".", "c">>
XH == <<"x", ".", "h">>
DXC == <<"d", ".", "c", "/", "x", ".", "c">>
YC == <<"y", ".", "c">>

MCInputFiles == {XC, XH, DXC}
MCDirs == {<<>>, <<"d", ".", "c", "/">>}

MCParseInt == ("2" :> 2) @@ ("0" :> 0) @@ ("two" :> None)

MCTokens ==
       {[opt |-> o, arg |-> <<>>] : o \in {"-h", "-d", "bad", "pos"}}
  \cup {[opt |-> "-f", arg |-> p] : p \in {XC, XH, DXC, YC}}
  \cup {[opt |-> "-m", arg |-> a] :
          a \in {<<"optimized">>, <<"ctxcheck", "trace">>, <<"bogus">>}}
  \cup {[opt |-> "-v", arg |-> a] :
          a \in {<<"PDEVT_LIST_SIZE", "2">>, <<"PDEVT_LIST_SIZE", "0">>,
                 <<"NOPE", "2">>, <<"PDEVT_LIST_SIZE">>,
                 <<"PDEVT_LIST_SIZE", "two">>}}

\* Command lines that name an input file, in the current directory or in
\* one whose name has ".c" in it.
MCTokensFiles == {[opt |-> "-f", arg |-> p] : p \in {XC, DXC}}
=============================================================================
