----------------------------- MODULE Invocation -----------------------------
(***************************************************************************)
(* The command line and the file handling of                               *)
(* src/ocr/scripts/mtParse/parser.py: main's getopt loop, ProcessMode      *)
(* (parseMode, setVariable, validateMode) and processInputFile's           *)
(* temporary file and final copy, and the root logger's two handlers      *)
(* (lines 8-27) that every diagnostic of the script goes through.          *)
(*                                                                         *)
(* An argument is the list of its fields: the comma-separated flags of a   *)
(* -m value, the '='-separated fields of a -v value, the path components   *)
(* of a -f value.  The translation itself is module ParseState; here it    *)
(* either completes or raises (ParseState's status "crashed").             *)
(***************************************************************************)
EXTENDS Naturals, Sequences, SequencesExt

CONSTANTS
  Tokens,      \* argv elements: [opt, arg]; opt "bad" fails getopt, "pos" is
               \* a positional argument
  MaxArgs,     \* length bound of argv
  InputFiles,  \* paths of the files that exist (content "source")
  Dirs,        \* directories that exist, as path prefixes ending in "/"
  ParseInt,    \* int(): value strings -> Int, None when int() raises
  None

ASSUME MaxArgs \in Nat /\ <<>> \in Dirs

\* ProcessMode.__init__: the macros and their defaults.
DefaultMacros == [PDEVT_SCRATCH_BYTES |-> 1024, PDEVT_MERGE_SIZE |-> 4,
                  PDEVT_LIST_SIZE |-> 4]

\* os.path.dirname, kept with its trailing "/" (the prefix join adds back).
Dir(p) == LET s == SelectLastInSeq(p, LAMBDA c : c = "/") IN SubSeq(p, 1, s)

\* NamedTemporaryFile(dir=dirname(input), prefix='OCRRTPP_', suffix='.c').
TempName(p) == Dir(p) \o <<"OCRRTPP_", ".", "c">>

\* str.replace(old, new): every occurrence, left to right, not overlapping.
RECURSIVE Replace(_, _, _)
Replace(s, old, new) ==
  IF Len(s) < Len(old) THEN s
  ELSE IF SubSeq(s, 1, Len(old)) = old
       THEN new \o Replace(SubSeq(s, Len(old) + 1, Len(s)), old, new)
       ELSE <<Head(s)>> \o Replace(Tail(s), old, new)

\* gInputFileName.replace('.c', '_pp.c')
OutName(p) == Replace(p, <<".", "c">>, <<"_pp", ".", "c">>)

VARIABLES
  argv,        \* sys.argv[1:]
  phase,       \* "getopt", "opts", "checks", "process" or "exit"
  opts,        \* options getopt returned, not yet handled
  args,        \* positional arguments getopt returned
  ctxMode,     \* gProcessMode.ctxMode
  traceMode,   \* gProcessMode.traceMode
  macros,      \* gProcessMode.macros
  logged,      \* the log records emitted so far: [level, to], "to" the
               \* streams the handlers wrote it to
  inputName,   \* gInputFileName
  debug,       \* streamHandlerStdOut at DEBUG level
  files,       \* the file system: path -> content
  exitCode     \* None until main returns or raises

vars == <<argv, phase, opts, args, ctxMode, traceMode, macros, logged,
          inputName, debug, files, exitCode>>

\* The logging levels.
DEBUG == 10
INFO == 20
WARNING == 30
ERROR == 40

\* Mutant: the filter lets a record at highLevel through.
MyFilterLe(highLevel, levelno) == levelno <= highLevel

\* MyFilter.filter: a record passes when its level is below highLevel.
MyFilter(highLevel, levelno) == levelno < highLevel

\* The root logger (level DEBUG) hands a record to both handlers: stderr's
\* at WARNING, stdout's at INFO (DEBUG after -d) behind MyFilter(WARNING).
Handlers(levelno) ==
  {h \in {"stdout", "stderr"} :
     CASE h = "stderr" -> levelno >= WARNING
       [] h = "stdout" -> /\ levelno >= (IF debug THEN DEBUG ELSE INFO)
                          /\ MyFilter(WARNING, levelno)}

\* logging.getLogger().<level>(msg)
Emit(levelno) == [level |-> levelno, to |-> Handlers(levelno)]

\* raise Usage(...) inside main's try: message to stderr (by print, not
\* through the logger), return 2.
Usage ==
  /\ phase' = "exit"
  /\ exitCode' = 2
  /\ UNCHANGED <<argv, opts, args, ctxMode, traceMode, macros,
                 inputName, debug, files>>

Init ==
  /\ argv \in BoundedSeq(Tokens, MaxArgs)
  /\ phase = "getopt"
  /\ opts = <<>>
  /\ args = <<>>
  /\ ctxMode = None
  /\ traceMode = None
  /\ macros = DefaultMacros
  /\ logged = <<>>
  /\ inputName = None
  /\ debug = FALSE
  /\ files = [p \in InputFiles |-> "source"]
  /\ exitCode = None

\* main logs its start, then getopt.getopt: options up to the first
\* non-option argument, the rest are args; an unknown option there fails
\* the whole call.
GetOpt ==
  /\ phase = "getopt"
  /\ logged' = Append(logged, Emit(INFO))
  /\ LET stop == SelectInSeq(argv, LAMBDA t : t.opt = "pos")
         n == IF stop = 0 THEN Len(argv) ELSE stop - 1
     IN \/ /\ \E i \in 1..n : argv[i].opt = "bad"
           /\ Usage
        \/ /\ \A i \in 1..n : argv[i].opt # "bad"
           /\ opts' = SubSeq(argv, 1, n)
           /\ args' = SubSeq(argv, n + 1, Len(argv))
           /\ phase' = "opts"
           /\ UNCHANGED <<argv, ctxMode, traceMode, macros,
                          inputName, debug, files, exitCode>>

\* One iteration of the loop over opts handles Head(opts).
Handle(o) == phase = "opts" /\ opts # <<>> /\ Head(opts).opt = o
Consume == opts' = Tail(opts)

\* -h, --help, --full-help: the help text is raised as a Usage.
HelpOption == Handle("-h") /\ Usage /\ UNCHANGED logged

\* -d, --debug
DebugOption ==
  /\ Handle("-d")
  /\ Consume
  /\ debug' = TRUE
  /\ UNCHANGED <<argv, phase, args, ctxMode, traceMode, macros, logged,
                 inputName, files, exitCode>>

\* -f, --file: the last one wins.
FileOption ==
  /\ Handle("-f")
  /\ Consume
  /\ inputName' = Head(opts).arg
  /\ UNCHANGED <<argv, phase, args, ctxMode, traceMode, macros, logged,
                 debug, files, exitCode>>

\* _setCtxMode / _setTrace: warn when the mode was already set, then
\* override it.
SetMode(acc, field, val) ==
  [acc EXCEPT ![field] = val, !.warn = @ + (IF acc[field] # None THEN 1 ELSE 0)]

\* The warnings of one parseMode call, logged as they happen, also when a
\* later flag raises Usage.
Warnings(n) == [i \in 1..n |-> Emit(WARNING)]

\* Mutant: an unknown flag is taken as the context mode.
ParseModeStepUnknownKept(acc, flag) ==
  CASE acc.err -> acc
    [] flag = "optimized" -> SetMode(acc, "ctx", "optimized")
    [] flag = "ctxcheck" -> SetMode(acc, "ctx", "checked")
    [] flag = "trace" -> SetMode(acc, "trace", "on")
    [] OTHER -> [acc EXCEPT !.ctx = flag]

\* Mutant: the first context mode given is kept.
ParseModeStepFirstWins(acc, flag) ==
  CASE acc.err -> acc
    [] flag = "optimized" /\ acc.ctx = None -> SetMode(acc, "ctx", "optimized")
    [] flag = "ctxcheck" /\ acc.ctx = None -> SetMode(acc, "ctx", "checked")
    [] flag \in {"optimized", "ctxcheck"} -> SetMode(acc, "ctx", acc.ctx)
    [] flag = "trace" -> SetMode(acc, "trace", "on")
    [] OTHER -> [acc EXCEPT !.err = TRUE]

\* parseMode, one flag of s.split(','): an unknown flag raises Usage.
ParseModeStep(acc, flag) ==
  CASE acc.err -> acc
    [] flag = "optimized" -> SetMode(acc, "ctx", "optimized")
    [] flag = "ctxcheck" -> SetMode(acc, "ctx", "checked")
    [] flag = "trace" -> SetMode(acc, "trace", "on")
    [] OTHER -> [acc EXCEPT !.err = TRUE]

\* -m, --mode: gProcessMode.parseMode(a) over a.split(',').
ModeOption ==
  /\ Handle("-m")
  /\ LET r == FoldLeft(ParseModeStep,
                       [ctx |-> ctxMode, trace |-> traceMode, warn |-> 0,
                        err |-> FALSE],
                       Head(opts).arg)
     IN /\ logged' = logged \o Warnings(r.warn)
        /\ \/ /\ r.err
              /\ Usage
           \/ /\ ~r.err
              /\ Consume
              /\ ctxMode' = r.ctx
              /\ traceMode' = r.trace
              /\ UNCHANGED <<argv, phase, args, macros, inputName, debug,
                             files, exitCode>>

\* Mutant: setVariable ignores a name it does not know.
setVariableNoNameCheck(name, value) ==
  [n \in DOMAIN macros |-> IF n = name THEN value ELSE macros[n]]

\* ProcessMode.setVariable: the macros with name set, or None when the name
\* is not one of them (raise Usage).
setVariable(name, value) ==
  IF name \in DOMAIN macros THEN [macros EXCEPT ![name] = value] ELSE None

\* -v, --var: a.split('=') must give a name and an int() value; any value
\* int() accepts is stored.
VarOption ==
  /\ Handle("-v")
  /\ LET f == Head(opts).arg
         m == IF Len(f) = 2 /\ ParseInt[f[2]] # None
              THEN setVariable(f[1], ParseInt[f[2]]) ELSE None
     IN \/ /\ m = None
           /\ Usage /\ UNCHANGED logged
        \/ /\ m # None
           /\ Consume
           /\ macros' = m
           /\ UNCHANGED <<argv, phase, args, ctxMode, traceMode, logged,
                          inputName, debug, files, exitCode>>

\* Mutant: _fillDefaults sets every mode, also one given by -m.
FilledIgnoringValue(v, default) == default

\* _fillDefaults: a mode never set gets its default.
Filled(v, default) == IF v = None THEN default ELSE v

\* After the loop: extraneous arguments, a missing input file and a file
\* open() refuses are usage errors; then validateMode fills the defaults.
EndOfOptions ==
  /\ phase = "opts" /\ opts = <<>>
  /\ \/ /\ args # <<>> \/ inputName = None \/ inputName \notin DOMAIN files
        /\ Usage /\ UNCHANGED logged
     \/ /\ args = <<>> /\ inputName # None /\ inputName \in DOMAIN files
        /\ phase' = "process"
        /\ ctxMode' = Filled(ctxMode, "checked")
        /\ traceMode' = Filled(traceMode, "on")
        /\ UNCHANGED <<argv, opts, args, macros, logged, inputName, debug,
                       files, exitCode>>

\* The end of processInputFile: the with block closes the temporary file
\* (delete=False) holding content, and shutil.copy2 copies it to the
\* output name.  ok is FALSE when the translation loop raised.  An
\* exception (the translator's, or copy2's IOError when the output's
\* directory does not exist) leaves main uncaught: exit status 1.
CopyOutput(ok, content) ==
  LET tmp == TempName(inputName)
      out == OutName(inputName)
  IN \/ /\ ~ok
        /\ files' = (tmp :> content) @@ files
        /\ exitCode' = 1
     \/ /\ ok /\ Dir(out) \notin Dirs
        /\ files' = (tmp :> content) @@ files
        /\ exitCode' = 1
     \/ /\ ok /\ Dir(out) \in Dirs
        /\ files' = (out :> content) @@ (tmp :> content) @@ files
        /\ exitCode' = 0

\* processInputFile, with the translation (module ParseState) abstracted to
\* its outcome.  It logs DEBUG records on every line and, on the lines
\* that have them, ParseState's structural errors and its inChain warning.
processInputFile ==
  /\ phase = "process"
  /\ \E diag \in {<<>>, <<Emit(WARNING)>>, <<Emit(ERROR)>>} :
       logged' = logged \o <<Emit(DEBUG)>> \o diag
  /\ \E ok \in BOOLEAN : CopyOutput(ok, IF ok THEN "translated" ELSE "partial")
  /\ phase' = "exit"
  /\ UNCHANGED <<argv, opts, args, ctxMode, traceMode, macros,
                 inputName, debug>>

\* sys.exit(main()): once main has returned or raised, the process is gone;
\* the model stays in that state.
Exit == phase = "exit" /\ UNCHANGED vars

Next ==
  \/ GetOpt
  \/ HelpOption
  \/ DebugOption
  \/ FileOption
  \/ ModeOption
  \/ VarOption
  \/ EndOfOptions
  \/ processInputFile
  \/ Exit

Spec == Init /\ [][Next]_vars

-----------------------------------------------------------------------------
(***************************************************************************)
(* Reference definitions, from argv alone (spec.md sections 3.1 and 4.4).  *)
(***************************************************************************)

Opts(o) == SelectSeq(argv, LAMBDA t : t.opt = o)

\* Every flag of every -m option, in command-line order.
ModeFlags == FlattenSeq([i \in DOMAIN Opts("-m") |-> Opts("-m")[i].arg])

Count(s, S) == Cardinality({i \in DOMAIN s : s[i] \in S})

\* Section 3.1: the last context flag wins; "checked" by default.
RefCtxMode ==
  LET i == SelectLastInSeq(ModeFlags, LAMBDA f : f \in {"optimized", "ctxcheck"})
  IN IF i # 0 /\ ModeFlags[i] = "optimized" THEN "optimized" ELSE "checked"

\* Section 4.4: the last -v NAME=INT of a macro wins, else its default.
RefMacro(n) ==
  LET vs == Opts("-v")
      i == SelectLastInSeq(vs, LAMBDA t : t.arg[1] = n)
  IN IF i = 0 THEN DefaultMacros[n] ELSE ParseInt[vs[i].arg[2]]

\* Section 7: one warning per context or trace flag after the first.
RefWarnings ==
  LET c == Count(ModeFlags, {"optimized", "ctxcheck"})
      t == Count(ModeFlags, {"trace"})
  IN (IF c > 0 THEN c - 1 ELSE 0) + (IF t > 0 THEN t - 1 ELSE 0)

\* Section 4.4: the command lines that are not usage errors.
ValidArgv ==
  /\ \A i \in DOMAIN argv : argv[i].opt \in {"-d", "-f", "-m", "-v"}
  /\ \A f \in ToSet(ModeFlags) : f \in {"optimized", "ctxcheck", "trace"}
  /\ \A i \in DOMAIN Opts("-v") :
       LET a == Opts("-v")[i].arg
       IN Len(a) = 2 /\ a[1] \in DOMAIN DefaultMacros /\ ParseInt[a[2]] # None
  /\ Opts("-f") # <<>>
  /\ Last(Opts("-f")).arg \in InputFiles

-----------------------------------------------------------------------------
(***************************************************************************)
(* Properties.                                                             *)
(***************************************************************************)

TypeOK ==
  /\ argv \in Seq(Tokens) /\ Len(argv) <= MaxArgs
  /\ phase \in {"getopt", "opts", "process", "exit"}
  /\ ctxMode \in {None, "optimized", "checked"}
  /\ traceMode \in {None, "on"}
  /\ macros \in [DOMAIN DefaultMacros -> Int]
  /\ logged \in Seq([level : {DEBUG, INFO, WARNING, ERROR},
                     to : SUBSET {"stdout", "stderr"}])
  /\ debug \in BOOLEAN
  /\ exitCode \in {None, 0, 1, 2}

\* Sections 3.1, 4.4 and 7: when the file is about to be processed, the
\* mode configuration ProcessMode holds after the getopt loop, parseMode,
\* setVariable and validateMode is the one the whole command line
\* describes: the last context flag (or "checked"), trace on, each macro
\* from its last -v (or its default), one warning per repeated flag.
ConfigFromLastOccurrence ==
  phase = "process" =>
    /\ ctxMode = RefCtxMode
    /\ traceMode = "on"
    /\ \A n \in DOMAIN DefaultMacros : macros[n] = RefMacro(n)
    /\ Cardinality({i \in DOMAIN logged : logged[i].level = WARNING}) = RefWarnings

\* Sections 4.4 and 7: main returns 2 (a Usage raised anywhere in getopt,
\* the option loop or the checks after it) exactly for the command lines
\* section 4.4 rejects; every other one reaches processInputFile.
UsageIffInvalid == phase = "exit" => (exitCode = 2 <=> ~ValidArgv)

\* Section 7 and the comment of line 25: every record the script logs,
\* from main, parseMode or the translation, is written to one stream:
\* warnings and errors to stderr alone, the start message to stdout alone,
\* and a DEBUG record to stdout exactly when the command line has a -d;
\* otherwise it is dropped.
ExpectedStreams(levelno) ==
  CASE levelno >= WARNING -> {"stderr"}
    [] levelno = INFO \/ Opts("-d") # <<>> -> {"stdout"}
    [] OTHER -> {}

DiagnosticsRouted ==
  \A i \in DOMAIN logged : logged[i].to = ExpectedStreams(logged[i].level)

\* Section 4.4: the output is <input-basename>_pp.c beside the input, the
\* ".c" suffix of the name replaced.  processInputFile replaces every
\* ".c" of the path, the directories' included, so a translation that
\* succeeded must still land at that name.
SpecOutName(p) == SubSeq(p, 1, Len(p) - 2) \o <<"_pp", ".", "c">>

OutputBesideInput ==
  /\ phase = "exit"
  /\ inputName # None
  /\ Len(inputName) >= 2 /\ SubSeq(inputName, Len(inputName) - 1, Len(inputName)) = <<".", "c">>
  /\ TempName(inputName) \in DOMAIN files
  /\ files[TempName(inputName)] = "translated"
  => SpecOutName(inputName) \in DOMAIN files

=============================================================================
