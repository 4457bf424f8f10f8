# TLA+ models of the OCR source translators

This directory holds TLA+ models of the Python tools under `src/`. The models
are checked with TLC. The main subject is `src/ocr/scripts/mtParse/parser.py`,
the translator that turns `START_FUNC` / `__context` / `WAIT_EVT<N>` /
`END_FUNC` annotations in C source into continuation-passing code. Its
specification is `spec.md`.

## 1. Inventory

| Part | Source | What it does | Model |
|---|---|---|---|
| Invocation, options | `parser.py` `ProcessMode`, `main` (30-84, 496-577) | getopt loop, `-m` modes, `-v` macros, the checks after the loop | `Invocation` |
| Logger | `parser.py` `MyFilter`, handlers | routes log records to stdout/stderr | `Invocation` (`Handlers`, `Emit`, `logged`); `ParseState.errors` records which lines log an error |
| Line matcher | `ParseState.matchers` (112-124), `parseLine` (147-160) | tries five regexes in order; the first match calls its callback | `ParseState`: an input line is the matcher it hits |
| Function scope | `_startCallback`, `_endCallback` (163-207) | resets the symbol table; in optimized mode buffers the body and hoists declarations at `END_FUNC` | `ParseState` |
| Context variables | `_ctxVarCallback` (209-223), `CtxVar` (100-109) | records a declaration, rejects duplicates, strips `__context` or replaces it by a comment | `ParseState` |
| Wait classification | `_waitCallback` (228-286) | splits a wait list into awaited event, carried events and carried scalars, and rejects malformed lists | `WaitList` (used by `ParseState` and `WaitRuntime`) |
| Wait expansion | `_waitCallback` (287-348), `_addCtxEvents`, `_extractCtxEvents`, `_addCtxVars`, `_extractCtxVars` (350-462) | emits the save, ready test, blocking return, case label, restore and free | `WaitRuntime`: the emitted code is modelled as it runs |
| Output | `_writeLine` (465-480), `processInputFile` (483-492) | writes a line directly or into the line buffer; the temporary file and the copy to `*_pp.c` | `ParseState` (`WriteLine`, `Finish`); `Invocation` (`CopyOutput`, `processInputFile`); `Translator` (`Copy`) |
| XE config rewriter | `src/ocr/scripts/Configs/xe_config_fix.py` | reads values from the OCR and FSim configs, then rewrites `start`/`size`/`neighborcount` lines of the OCR config section by section, in place | `XeConfig`, `XeConfigFix`, refining `XeConfigAbstract` |
| Jenkins job table | `src/ocr/jenkins/ocr_regression.py` | static dictionaries | not modelled: no state, no operation |

**How the parts interact.** `processInputFile` feeds each line to `parseLine`.
The first matching callback runs with the state `ParseState` keeps between
lines:

- `inFunction`
- `lineBuffer`
- `ctxVariables`
- `indentIncrement`

`_waitCallback` reads the symbol table that `_startCallback` reset and
`_ctxVarCallback` filled. It then emits code whose run-time behaviour
depends on two things:

- the slot layout computed by `_addCtxEvents` must match the one computed by
  `_extractCtxEvents`;
- the scratch strides of `_addCtxVars` must match those of `_extractCtxVars`.

The two translators therefore meet at the classification (`WaitList`):

- `ParseState` decides which lines are written.
- `WaitRuntime` decides what those lines do when the translated task runs.

`main` (`Invocation`) fixes the mode and the macros before the first line is
read. `ParseState` and `WaitRuntime` take those as constants (`CtxModes`,
`ListSize`, `ScratchBytes`). In `Invocation` the translation is one step
that completes or raises. `Translator` composes the two: `main`'s options
set `ctxMode`, `ParseState` runs on the file with it, and `main` copies
what ParseState wrote. `xe_config_fix.py` is a separate script run at
build time; it shares no state with the translator.

## 2. Modules

### `WaitList` (pure algorithm)

- `ClassifyStep(tbl, acc, v)` is one iteration of the loop at lines 240-281:
  - it rejects a duplicate, an unknown name, or an event after a non-event;
  - it records whether `inChain` was seen (`inChainStatus`).
- `Classify` folds `ClassifyStep` over the list with `FoldLeft`. It then
  appends `inChain` when `inChainStatus = -1` (lines 283-286).
- Reference definitions sit beside it: `WellFormed`, `RefCarried` and
  `RefScalars`, which are spec section 3.4 stated declaratively.

### `ParseState` / `MCParseState`

**Variables.** Each variable maps to a field of the class:

| Variable | Code |
|---|---|
| `inFunction` | `None` or the line number of the open `START_FUNC` |
| `lineBuffer` | the line buffer |
| `ctxVariables` | name ↦ [is-event, declaring line] |
| `indentIncrement` | `indentIncrement` |
| `out` | output lines, each an item of kind and source line |
| `errors` | line numbers logged at error level |
| `status` | `running`, `done` or `crashed` |
| `ctxMode` | `gProcessMode.ctxMode`, fixed for the run, chosen from `CtxModes` |

**Actions.** Each action reads one abstract line and runs the whole callback,
including its `_writeLine`:

- `_startCallback`
- `_endCallback`: hoisting in a nondeterministic order (`HoistOrders`)
  stands for Python 2 dict iteration.
- `_ctxVarCallback`
- `_waitCallback`, with four outcomes:
  - the `N != 1` error;
  - a classification error;
  - the `TypeError` when `indentIncrement` is `None`;
  - the expansion.
- `NoMatch`: no matcher hits.
- `Finish`: end of input, copy.

**Abstractions.**

- Indentation and the literal output text are abstracted.
- A line with code after `WAIT_EVT1(...);` is a `wait` line with
  `tail = TRUE`.

### `WaitRuntime` / `MCWaitRuntime`

This module models the execution of the code that the expansion emits. One
task runs up to `MaxWaits` waits in sequence.

**Variables.**

| Variable | Code |
|---|---|
| `env` | the values of the task's context variables |
| `evtCtx` | the event list with its slots `events[]`/`next[]` |
| `scratch` | the scalar scratch area, by byte offset |
| `allocs`, `frees` | allocations and frees of event lists |
| `pc` | the statement being executed |
| `ctxMode` | the mode the code was emitted in, fixed for the run |

**Actions.** The actions follow the emitted template in order:

1. `StartWait`
2. `SetOutChain`
3. `SaveChecked` (checked mode)
4. `ReadyTest`
5. Then either:
   - fall through; or
   - `Block` (saves in optimized mode) → `Resume` (locals become
     `Garbage`) → `CaseLabel`. `Resume` enters at the line that
     `BlockedNextJump` (`__LINE__ + 4`) names in `BlockedTemplate`, the
     template's lines 309-316. If that line is not the case label, the
     dispatch matches no label and the task is `lost`.
6. `FallthroughBranch` / `BlockedBranch`

**Layout.** Slots and offsets come from the emitter's own loops:

- `SaveSlots` for `_addCtxEvents`;
- `RestoreSlots` for `_extractCtxEvents`: `evtCount` is never incremented, so
  every slot is 0;
- `Offsets` and `Stride` for `_addCtxVars`/`_extractCtxVars`;
- `Capacity` for the list `_addCtxEvents` allocates: the inline
  `events[PDEVT_LIST_SIZE]` plus the `(len(evts) - 4)` `next[]` slots the
  `ALLOCATE` placeholder at line 358 asks for, whatever `PDEVT_LIST_SIZE` is.

`CompileAssertHolds` is the `COMPILE_ASSERT` as emitted. A wait whose assert
fails is a rejected build.

### `Invocation` / `MCInvocation`

An argument is the list of its fields: the flags of a `-m` value, the
`NAME`/`INT` fields of a `-v` value, the path components of a `-f` value.
Unknown options are the token `bad`, a positional argument `pos`.

| Variable | Code |
|---|---|
| `argv` | `sys.argv[1:]` |
| `phase` | where `main` is: `getopt`, `opts` (the loop), `process`, `exit` |
| `opts`, `args` | what `getopt.getopt` returned; `opts` shrinks as the loop runs |
| `ctxMode`, `traceMode`, `macros` | `gProcessMode` |
| `logged` | every record logged so far, with the streams (`stdout`, `stderr`) it was written to |
| `inputName`, `debug` | `gInputFileName`, the stdout handler's level |
| `files` | the file system: path ↦ content |
| `exitCode` | `None`, then 0, 1 (uncaught exception) or 2 (`Usage`) |

**Actions.**

- `GetOpt`: stops at the first positional argument. An unknown option before
  it raises `Usage`.
- One action per option branch: `HelpOption`, `DebugOption`, `FileOption`,
  `ModeOption` and `VarOption`.
  - `ModeOption` folds `ParseModeStep` (with `SetMode` for
    `_setCtxMode`/`_setTrace`) over the flags.
  - `VarOption` applies `int()` (`ParseInt`) and `setVariable`, which
    returns `None` (raises `Usage`) for an unknown name.
  - `DebugOption` sets `debug`, the stdout handler's level.
- `EndOfOptions`: extraneous arguments, a missing or unreadable file, then
  `_fillDefaults` (`Filled`).
- `processInputFile`: the temporary file `OCRRTPP_.c` in the input's
  directory, then `copy2` to `OutName`. `OutName` is `str.replace` over the
  whole path (`Replace`). Three outcomes:
  - the translator raises;
  - the output's directory does not exist;
  - success.
- `Exit`: `main` has returned; the state no longer changes. With it
  deadlock checking stays on, so an option or phase no action handles
  would show as a deadlock.

**Logging.** All code logs through the root logger (level DEBUG), which
hands each record to its two handlers (lines 17-27). `Handlers(levelno)` is
the set of streams a record reaches: stderr at WARNING and above; stdout at
INFO and above (DEBUG after `-d`) when `MyFilter(WARNING)` lets it through.
`Emit` builds the record. Records are appended to `logged` by
`GetOpt` (the start message, line 504), by `ModeOption` (one WARNING per
repeated context or trace flag, also when a later flag of the same value
raises `Usage`), and by `processInputFile` (the translation's DEBUG
records, and possibly one of ParseState's errors or its inChain warning).
`Usage` messages are printed to stderr directly, not logged.

Reference definitions from `argv` alone (`RefCtxMode`, `RefMacro`,
`RefWarnings`, `ValidArgv`) state spec sections 3.1, 4.4 and 7.

### `Translator` / `MCTranslator` (composition)

`Translator` EXTENDS `ParseState` and takes `Invocation` as the instance
`Inv`. The two share `ctxMode` (`gProcessMode.ctxMode`). Every other
variable belongs to one of them (`invVars`, `psVars`).

- `TInit`: `argv` is one of `CommandLines`. `main` starts (`Inv!Init`) and
  ParseState is in its initial state (`InitState`).
- `Options`: one step of `main` up to `EndOfOptions`; ParseState's variables
  are unchanged.
- `Translate`: in phase `process`, one step of `ParseState`'s `Next` (a line,
  the end of the file, or the final stutter); `main`'s variables are
  unchanged.
- `Copy`: once ParseState is `done` or `crashed`, `Inv!CopyOutput` writes
  ParseState's `out` to the temporary file and copies it to the output
  name. The line buffer is lost. The translation's records are logged:
  a DEBUG record and one ERROR per error line.
- `Inv!Exit`: `main` has returned.

`Invocation.processInputFile` is `CopyOutput` with the translation
abstracted to its outcome, so the two modules share the copy step.

### `XeConfig`, `XeConfigFix`, `XeConfigAbstract` / `MCXeConfigFix`

A config line is a header (one of the seven section names the script
tests, or `Other`) or a key line (`start`, `size`, `neighborcount`, or
`other`) with an integer value.

- `XeConfig` holds the data: `SectionCode` (lines 84-97), ConfigParser's
  lookup (`HeaderOf`, `Get`: last header above, last value wins),
  `ExtractValues` and `ExtractValuesFsim`.
- `XeConfigFix` runs the script. Its variables are the globals, the file,
  the lines `readlines()` returned, `section` and `pc`. Its actions:
  - `Start`: extraction, then open, truncate and `section = 0`. A
    ConfigParser error ends it before the truncation.
  - `RewriteLine`: one loop iteration. It is one of two things:
    - a NameError when the line needs a global that the missing FSim
      config never set;
    - the append of the line, rewritten per `Rewrites`/`NewVal`, with
      `M2After` and `SectionAfter`.
  - `Close`: the `with` block ends.
- `XeConfigAbstract` is the script's promise (its header comment, lines
  12-15). The file is left as it was, or replaced in one step by
  `Rewritten(orig)`. `Rewritten` is stated line by line without the loop: a
  line's section is the last listed header above it, up to the line that
  closes it, and `m2` has shrunk once per earlier L2 platform or target
  size.
- The refinement mapping (`absFile`) shows an outside reader the original
  file until the script has ended, then the file.

## 3. Runs

Passing runs:

| Run | What it shows |
|---|---|
| `Translator.cfg` | `main` and `ParseState` composed. The mode comes from the command line, one in each mode. Over every file of up to 5 lines: a wait is accepted exactly when spec 3.4 calls its list well formed (`WaitAcceptedIffWellFormed`). Every line outside functions or in a function that `END_FUNC` closed reaches the output, or is logged as an error (`ClosedLinesAccounted`). The line buffer keeps input order (`OutputInInputOrder`). In optimized mode every declaration of a closed function is hoisted exactly once across functions (`HoistedOncePerDecl`), so a stale symbol table would show. When `main` exits 0, the output file holds every declaration of a closed function in the form the command line's last context flag asks: in place without `__context` for ctxcheck; a placeholder in place and one hoisted copy for optimized (`DeclsFollowCommandLine`, spec 3.1, 6 and 9). The type invariant `ComposedTypeOK` is `Invocation`'s, plus `ParseState`'s once the mode is set. |
| `WaitRuntime.cfg` | In both modes, over two successive waits, on the fall-through and the blocked-and-resumed paths: scalars come back with their values (`ScalarContextPreserved`). The event list is freed once per wait (`EventListFreedOnce`). No event is stored past the list the code allocates (`SaveWithinList`), at the default `PDEVT_LIST_SIZE` of 4 with five carried events. Under weak fairness every started wait completes (`WaitCompletes`): the `__LINE__ + 4` of the jump names the case label of the template. |
| `Invocation.cfg` | Over every command line of up to 4 arguments, `main` exits 2 exactly for the command lines spec 4.4 rejects (`UsageIffInvalid`). Otherwise it reaches `processInputFile` with the configuration the whole command line describes: the last context flag, each macro's last value, and one warning per repeated flag (`ConfigFromLastOccurrence`). Every record logged reaches exactly the stream section 7 and the comment of line 25 promise: warnings and errors stderr alone, the start message stdout alone, DEBUG records stdout exactly when the command line has `-d` (`DiagnosticsRouted`). |
| `XeConfigFix.cfg` | When the FSim config exists, the loop implements the one-step rewrite (`AbsSpecWithFsim`, the abstract `Rewrite` as an action property under the refinement mapping). This holds for all six L2 section orders and for four irregular layouts: size before start, two sizes, an unlisted section inheriting a listed one, and a missing section. In the canonical order the L2 sizes nest strictly (`L2Nested`, issue #902). |

Violation runs. Each checks one property that the spec (or, for
`xe_config_fix.py`, the script's own header) states. TLC finds it
violated, and the finding is recorded in `PROJECT.json`.

| Run (cfg) | Property | What the code does |
|---|---|---|
| `CarriedInChain` | `CarriedEventsMatchSpec` | `WAIT_EVT1(e, inChain)` carries `inChain` twice |
| `StartBuffered` | `HoistedAfterStart` | `START_FUNC` is buffered, so hoisted declarations precede it |
| `Unterminated` | `EveryLineAccounted` | in optimized mode, a function without `END_FUNC` loses its buffered body, and nothing is reported |
| `RestoreSlots` | `EventContextPreserved` | every carried event is restored from `events[0]` |
| `ScratchOverflow` | `NoScratchOverflow` | `& 0x7` in the assert lets 24 bytes into a 16-byte scratch |
| `NoScalarAssert` | `FittingWaitCompiles` | a wait without scalars emits `COMPILE_ASSERT(() < ...)` |
| `DirWithDotC` | `OutputBesideInput` | `d.c/x.c` is copied to `d_pp.c/x_pp.c`; the copy raises and no output is written |
| `FsimMissing` | `AbsSpec` | without the FSim config the OCR config is truncated, then the script dies with a NameError |

Every property of a passing run has a mutant in `PROJECT.json`. A mutant is a
plausible bug in the mapped definition, and TLC finds the property violated
under that run's configuration.

Divergences the model reaches but no run checks are recorded as hazards in
`PROJECT.json`. Among them:

- Outside a function, a `__context` line is translated against the stale
  table (line 209).
- A wait before the first `START_FUNC` raises `TypeError` (line 304).
- Hoisting follows Python 2 dict order (line 197).
- Code after `WAIT_EVT1(...);` on the same line is dropped (line 123; the
  model generates such lines when `Tails` contains `TRUE`).
- An input without `.c` is overwritten by its own translation (line 492).
- The temporary file is never removed (line 486).
- A repeated `-f` is accepted, the last one winning, where spec 4.4 says
  "exactly one" (line 543); `ValidArgv` follows the code.
- A `START_FUNC` or `END_FUNC` line with trailing text is an ordinary line
  (line 115).
- The `ALLOCATE` placeholder reserves `len(evts) - 4` overflow slots
  whatever `PDEVT_LIST_SIZE` is (line 358). `SaveWithinList` holds at the
  default 4; with `ListSize = 1` in `WaitRuntime.cfg`, TLC reports it
  violated.

## 4. Bounds

**Translator run.** Two command lines, `-m optimized -m ctxcheck -f x.c` and
`-m ctxcheck -m optimized -f x.c`. Only the last flag counts, so one is
checked and one optimized, and a first-wins or always-default bug changes
the mode. Each runs over up to 5 input lines of:

- `start`, `end` and `other` lines;
- `__context` lines declaring `e` or `a`, each as an event or a scalar;
- waits with `N = 1` over six lists, and one wait with `N = 2`. The six
  lists are chosen so that every classification outcome occurs: accepted,
  duplicate, event after non-event, unknown name, and `inChain` awaited,
  carried or absent.

Five lines are enough for two functions, a declaration in each and a wait.
This is the shortest input on which a stale table or a non-reset buffer
shows. The run explores about 3.3 million states in about a minute and a
half. The option space of `main` is explored by the Invocation run.

**WaitRuntime run.**

- `PDEVT_LIST_SIZE = 4`, the default, with one wait list carrying five
  events, so the save overflows into `next[]`. At other values the
  `ALLOCATE` placeholder's `- 4` is wrong (see the hazards).
- Two waits, so the state left by one wait is used by the next.
- Scalars of sizes 4 and 8, so strides differ from sizes.
- The violation runs use one wait and the smallest configuration that shows
  the divergence.

**Invocation run.** Up to 4 arguments over these tokens:

- help, debug, an unknown option and a positional argument;
- four paths: `x.c`, `x.h`, `d.c/x.c`, and a missing `y.c`;
- three `-m` values: one flag, two flags, an unknown flag;
- five `-v` values: good, zero, unknown name, missing value, and a value
  that `int()` rejects.

Four arguments are enough to repeat a mode and a macro after a file, and to
put an option after a positional argument, and to give `-d` before or after
a `-m` value that logs a warning. The run explores 295,933 distinct states.

**XeConfigFix run.**

- 10 layouts;
- two FSim configs (stack in IPM or not) and a missing one;
- binary sizes 0 and `0x1000`.

Every run is a single pass over at most 19 lines, so the bound is the set of
layouts, not a depth.

## 5. Fairness

`WaitRuntime.FairSpec` assumes weak fairness of `Next`. The emitted code is
sequential within one task. The only step that waits on something outside the
task is `Resume`. The code relies on the runtime re-entering a blocked task
once its event is satisfied; the comments at lines 292-295 and 315-317 say
so. The `Translator`, `Invocation` and `XeConfigFix` runs check only safety.
Each program stops: when `processInputFile` has copied its output or raised,
when `main` returns, or when the script ends. Each module has an `Exit`
action that leaves the final state unchanged, so these runs keep deadlock
checking on: a state where the program has not ended and no action applies
is reported. `WaitRuntime`'s cfgs disable deadlock checking, because its
task stops at the model's bound `MaxWaits`, not at the end of a program.

## 6. Not modelled, and the plan

**Not modelled:**

- the literal output text and indentation;
- type normalisation with tabs (line 212);
- the logger's formatter and message texts;
- `expandvars`/`expanduser` on the input name;
- argparse and `StripLeadingWhitespace` in `xe_config_fix.py`, and its
  branch for a missing OCR config, which prints and exits 0 without changing
  anything;
- `ocr_regression.py`, which is static tables.

**Plan for later work:**

1. An abstract specification of the translation, function by function:
   which declarations are hoisted and which waits are expanded. `ParseState`
   would refine it.
2. Extending `Translator` with `WaitRuntime`, so that a
   `-v PDEVT_LIST_SIZE=0` reaches the emitted code. `Translator` now
   composes `main` with `ParseState` only.
