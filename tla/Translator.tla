----------------------------- MODULE Translator -----------------------------
(***************************************************************************)
(* The whole run of src/ocr/scripts/mtParse/parser.py: main (module        *)
(* Invocation) parses the command line into gProcessMode, then            *)
(* processInputFile drives ParseState over the input file line by line     *)
(* and copies what it wrote to the output name.  The two components share *)
(* gProcessMode.ctxMode, which main sets and ParseState reads; the output  *)
(* file's content is ParseState's out when the loop ends.                  *)
(***************************************************************************)
EXTENDS ParseState

CONSTANTS
  Tokens, MaxArgs, InputFiles, Dirs, ParseInt,  \* as in Invocation
  CommandLines   \* the argv values the run starts from

VARIABLES argv, phase, opts, args, traceMode, macros, logged, inputName,
          debug, files, exitCode

Inv == INSTANCE Invocation

invVars == <<argv, phase, opts, args, traceMode, macros, logged, inputName,
             debug, files, exitCode>>
psVars == <<input, out, lineBuffer, inFunction, ctxVariables,
            indentIncrement, errors, status>>
allVars == <<ctxMode, invVars, psVars>>

TInit ==
  /\ argv \in CommandLines
  /\ Inv!Init
  /\ InitState

\* main up to processInputFile; ParseState does not exist yet.
Options ==
  /\ \/ Inv!GetOpt \/ Inv!HelpOption \/ Inv!DebugOption \/ Inv!FileOption
     \/ Inv!ModeOption \/ Inv!VarOption \/ Inv!EndOfOptions
  /\ UNCHANGED psVars

\* processInputFile's loop: state.parseLine(line, counter), or the end of
\* gInputFile; main's variables stay as they are.
Translate ==
  /\ phase = "process"
  /\ Next
  /\ UNCHANGED invVars

\* The loop has ended or raised: the temporary file holds what ParseState
\* wrote (the line buffer is lost), and it is copied.  The records the
\* translation logged: its DEBUG records and one ERROR per error line.
Copy ==
  /\ phase = "process"
  /\ status # "running"
  /\ Inv!CopyOutput(status = "done", out)
  /\ logged' = logged \o <<Inv!Emit(Inv!DEBUG)>>
                      \o [i \in 1..Cardinality(errors) |-> Inv!Emit(Inv!ERROR)]
  /\ phase' = "exit"
  /\ UNCHANGED <<argv, opts, args, ctxMode, traceMode, macros, inputName,
                 debug>>
  /\ UNCHANGED psVars

TNext ==
  \/ Options
  \/ Translate
  \/ Copy
  \/ Inv!Exit /\ UNCHANGED psVars

TSpec == TInit /\ [][TNext]_allVars

-----------------------------------------------------------------------------
(***************************************************************************)
(* Properties.                                                             *)
(***************************************************************************)

\* main's types, and ParseState's once gProcessMode.ctxMode is set.
ComposedTypeOK == Inv!TypeOK /\ (ctxMode # None => TypeOK)

\* Sections 3.1, 6 (output format, items 1 and 3) and 9 ("dual code
\* generation is an observable contract"): when main exits 0, every
\* declaration of a closed function that is not a logged duplicate is in
\* the output file in the form the command line's last context flag asks:
\* with ctxcheck (or none), in place with __context stripped; with
\* optimized, a placeholder in place and one hoisted copy.  The flag
\* travels through getopt, parseMode, validateMode, gProcessMode and
\* _startCallback's choice of buffering before _endCallback writes it.
DeclsFollowCommandLine ==
  phase = "exit" /\ exitCode = 0 =>
    LET o == files[Inv!OutName(inputName)]
        n(k, d) == Cardinality({i \in DOMAIN o : o[i] = Item(k, d)})
    IN \A d \in DOMAIN input :
         /\ input[d].kind = "ctx"
         /\ d \notin errors
         /\ Enclosing(d) # 0
         /\ Closed(Enclosing(d))
         => IF Inv!RefCtxMode = "optimized"
            THEN n("placeholder", d) = 1 /\ n("hoisted", d) = 1 /\ n("decl", d) = 0
            ELSE n("decl", d) = 1 /\ n("placeholder", d) = 0 /\ n("hoisted", d) = 0

=============================================================================
