----------------------------- MODULE WaitRuntime -----------------------------
(***************************************************************************)
(* What the code ParseState._waitCallback emits for a WAIT_EVT does when   *)
(* it runs (src/ocr/scripts/mtParse/parser.py, lines 287-462): the save   *)
(* of the context into _continuation, the ready test, the blocking return *)
(* to the scheduler and the resume at "case __LINE__:", and the restore.  *)
(*                                                                         *)
(* The emitted statements are taken from the emitter's own loops          *)
(* (_addCtxEvents, _extractCtxEvents, _addCtxVars, _extractCtxVars): the  *)
(* slots an event is stored into and read from, and the scratch offsets  *)
(* of the scalars, are computed as those loops compute them.  The host    *)
(* runtime is outside this repository; what the emitted code assumes of  *)
(* it (comments at lines 292-295 and 315-317) is stated where it is used. *)
(***************************************************************************)
EXTENDS Naturals, Sequences, SequencesExt, WaitList

CONSTANTS
  CtxModes,       \* values gProcessMode.ctxMode may hold after validateMode
  Decls,         \* the function's context variables: name -> [evt, size]
  WaitLists,     \* argument lists of the WAIT_EVT1 the function executes
  ListSize,      \* PDEVT_LIST_SIZE
  ScratchBytes,  \* PDEVT_SCRATCH_BYTES
  MaxWaits,      \* number of waits one task executes
  Garbage,       \* what an uninitialized or dead location holds
  NULL           \* the C null pointer

ASSUME CtxModes \subseteq {"optimized", "checked"}
ASSUME ListSize \in Int /\ ScratchBytes \in Nat /\ MaxWaits \in Nat

\* The symbol table _startCallback and _ctxVarCallback build.
SymTab == [x \in DOMAIN Decls \cup {InChain} |->
             [evt |-> IF x = InChain THEN TRUE ELSE Decls[x].evt]]

Names == DOMAIN SymTab

-----------------------------------------------------------------------------
(***************************************************************************)
(* The emitter's layout of a context.                                      *)
(***************************************************************************)

\* _addCtxEvents: events[0..PDEVT_LIST_SIZE-1], then next[0..]; evtMaxCount
\* becomes -1 once the inline array is full.
\* Mutant: the inline array is left one slot late (c > evtMaxCount).
SaveSlotStepLate(acc) ==
  IF acc.max > 0
  THEN LET c == acc.count + 1
           s == Append(acc.slots, <<"events", acc.count>>)
       IN IF c > acc.max THEN [count |-> 0, max |-> -1, slots |-> s]
                         ELSE [acc EXCEPT !.count = c, !.slots = s]
  ELSE [acc EXCEPT !.count = @ + 1, !.slots = Append(@, <<"next", acc.count>>)]

SaveSlotStep(acc) ==
  IF acc.max > 0
  THEN LET c == acc.count + 1
           s == Append(acc.slots, <<"events", acc.count>>)
       IN IF c >= acc.max THEN [count |-> 0, max |-> -1, slots |-> s]
                          ELSE [acc EXCEPT !.count = c, !.slots = s]
  ELSE [acc EXCEPT !.count = @ + 1, !.slots = Append(@, <<"next", acc.count>>)]

SaveSlots(k) ==
  FoldLeft(LAMBDA acc, i : SaveSlotStep(acc),
           [count |-> 0, max |-> ListSize, slots |-> <<>>], [i \in 1..k |-> i]).slots

\* _extractCtxEvents: slot for loop counter evtCount; the loop never
\* increments evtCount, so every event is read with evtCount = 0.
RestoreSlot(evtCount) ==
  IF evtCount < ListSize THEN <<"events", evtCount>>
  ELSE <<"next", evtCount - ListSize>>

RestoreSlots(k) == [i \in 1..k |-> RestoreSlot(0)]

\* The slots of the list _addCtxEvents allocates for k events: a
\* pdEventList_t, whose inline events[] holds PDEVT_LIST_SIZE events (the
\* runtime's type), and, when the events do not fit inline, the
\* (len(evts) - 4) next[] slots the ALLOCATE placeholder asks for.
Capacity(k) ==
  {<<"events", i>> : i \in 0..(ListSize - 1)} \cup
  {<<"next", j>> : j \in 0..(IF k > ListSize THEN k - 4 - 1 ELSE -1)}

\* ((sizeof(T) + 7) & ~0x7): the size rounded up to a multiple of 8.
Stride(size) == ((size + 7) \div 8) * 8

\* _addCtxVars / _extractCtxVars: the scratch offset of each scalar.
Offsets(vs) ==
  [i \in DOMAIN vs |-> FoldLeft(LAMBDA acc, x : acc + Stride(Decls[x].size),
                                0, SubSeq(vs, 1, i - 1))]

ScratchUse(vs) == FoldLeft(LAMBDA acc, x : acc + Stride(Decls[x].size), 0, vs)

\* COMPILE_ASSERT((t1+...+tn) < PDEVT_SCRATCH_BYTES), ti the term
\* ((sizeof(T) + 7) & 0x7); with no scalar the argument is "()", which is
\* not a C expression.
AssertTerm(size) == (size + 7) % 8

CompileAssertHolds(vs) ==
  /\ vs # <<>>
  /\ FoldLeft(LAMBDA acc, x : acc + AssertTerm(Decls[x].size), 0, vs) < ScratchBytes

-----------------------------------------------------------------------------

VARIABLES
  ctxMode,      \* gProcessMode.ctxMode the file was translated in
  pc,           \* where the task is in the emitted code
  wait,         \* the classified list of the wait being executed
  waits,        \* waits started so far
  env,          \* the task's variables
  before,       \* env when the wait started
  outChain,
  fallthrough,  \* _fallthrough
  evtCtx,       \* _continuation->evtCtx: None or [cap, slots]
  scratch,      \* _continuation->scratch: offset -> [val, len]
  allocs,       \* event lists allocated by this wait
  frees         \* event lists freed by this wait

vars == <<ctxMode, pc, wait, waits, env, before, outChain, fallthrough,
          evtCtx, scratch, allocs, frees>>

Awaited == wait.evts[1]

\* The value a read of a location yields.
ReadSlot(s) == IF evtCtx # None /\ s \in DOMAIN evtCtx.slots
               THEN evtCtx.slots[s] ELSE Garbage
ReadScratch(o) == IF o \in DOMAIN scratch THEN scratch[o].val ELSE Garbage

Init ==
  /\ ctxMode \in CtxModes
  /\ pc = "idle"
  /\ wait = None
  /\ waits = 0
  /\ env = [x \in Names |-> <<x, 0>>]
  /\ before = env
  /\ outChain = NULL
  /\ fallthrough = FALSE
  /\ evtCtx = None
  /\ scratch = [o \in {} |-> None]
  /\ allocs = 0
  /\ frees = 0

\* The task reaches a WAIT_EVT1 whose list the translator accepted; the
\* code before it gave every variable a fresh value.  The build fails
\* when the expansion's COMPILE_ASSERT does.
StartWait(list) ==
  LET c == Classify(SymTab, list) IN
  /\ pc \in {"idle", "done"}
  /\ waits < MaxWaits
  /\ c.err = ""
  /\ wait' = c
  /\ waits' = waits + 1
  /\ env' = [x \in Names |-> <<x, waits + 1>>]
  /\ before' = env'
  /\ allocs' = 0
  /\ frees' = 0
  /\ pc' = IF CompileAssertHolds(c.vars) THEN "outChain" ELSE "rejected"
  /\ UNCHANGED <<outChain, fallthrough, evtCtx, scratch>>

\* outChain = (pdEvent_t*)<awaited>;
SetOutChain ==
  /\ pc = "outChain"
  /\ outChain' = env[Awaited]
  /\ pc' = IF ctxMode = "checked" THEN "save" ELSE "test"
  /\ UNCHANGED <<wait, waits, env, before, fallthrough, evtCtx, scratch,
                 allocs, frees>>

\* The _addCtxEvents and _addCtxVars blocks into _continuation.
SaveContext ==
  LET k == Len(wait.evtVars)
      slots == SaveSlots(k)
      offs == Offsets(wait.vars)
  IN /\ evtCtx' = [cap |-> Capacity(k),
                   slots |-> [s \in ToSet(slots) |->
                                env[wait.evtVars[CHOOSE i \in 1..k : slots[i] = s]]]]
     /\ allocs' = allocs + 1
     /\ scratch' = [o \in DOMAIN scratch \cup ToSet(offs) |->
                      IF \E i \in DOMAIN offs : offs[i] = o
                      THEN LET i == CHOOSE i \in DOMAIN offs : offs[i] = o IN
                           [val |-> env[wait.vars[i]],
                            len |-> Stride(Decls[wait.vars[i]].size)]
                      ELSE scratch[o]]

\* Checked mode saves before the ready test (lines 291-297).
SaveChecked ==
  /\ pc = "save"
  /\ SaveContext
  /\ pc' = "test"
  /\ UNCHANGED <<wait, waits, env, before, outChain, fallthrough, frees>>

\* if(outChain->properties & PDEVT_IS_READY): either branch may be taken.
ReadyTest ==
  /\ pc = "test"
  /\ \/ /\ fallthrough' = TRUE
        /\ pc' = "case"
     \/ /\ pc' = "blocking"
        /\ UNCHANGED fallthrough
  /\ UNCHANGED <<wait, waits, env, before, outChain, evtCtx, scratch,
                 allocs, frees>>

\* The blocking branch: optimized mode saves here (lines 305-308), then
\* _blockedNextJump = __LINE__ + 4; goto blockedReturn;
Block ==
  /\ pc = "blocking"
  /\ IF ctxMode = "optimized" THEN SaveContext
     ELSE UNCHANGED <<evtCtx, scratch, allocs>>
  /\ pc' = "suspended"
  /\ UNCHANGED <<wait, waits, env, before, outChain, fallthrough, frees>>

\* The lines of the template at lines 309-316, one per emitted line: the
\* jump assignment, the goto, the else's brace, the end of the case
\* statement, the case label, and the three lines of its comment.
BlockedTemplate ==
  <<"jump", "goto", "brace", "endCase", "case", "comment", "comment", "comment">>

\* Mutant: _blockedNextJump = __LINE__ + 3.
BlockedNextJumpShort(line) == line + 3

\* _blockedNextJump = __LINE__ + 4; on the template's first line.
BlockedNextJump(line) == line + 4

\* The scheduler re-enters the task once the event is ready, through the
\* function's dispatch on _blockedNextJump (the START_FUNC macro, outside
\* this repository): it enters at the case label whose __LINE__ equals the
\* value, and no label matches any other value.  The activation's locals
\* are gone; the runtime sets outChain to the awaited event (comment at
\* lines 315-317) and _fallthrough to false; _continuation survives.
Resume ==
  LET target == BlockedNextJump(1) IN
  /\ pc = "suspended"
  /\ env' = [x \in Names |-> Garbage]
  /\ outChain' = before[Awaited]
  /\ fallthrough' = FALSE
  /\ pc' = IF target \in DOMAIN BlockedTemplate /\ BlockedTemplate[target] = "case"
           THEN "case" ELSE "lost"
  /\ UNCHANGED <<wait, waits, before, evtCtx, scratch, allocs, frees>>

\* _extractCtxEvents and _extractCtxVars into env.
\* Mutant: the scalar reads advance by ((sizeof(T) + 7) & 0x7).
RestoredMaskStride(e) ==
  LET k == Len(wait.evtVars)
      slots == RestoreSlots(k)
      offs == [i \in DOMAIN wait.vars |->
                 FoldLeft(LAMBDA acc, x : acc + AssertTerm(Decls[x].size),
                          0, SubSeq(wait.vars, 1, i - 1))]
  IN [x \in Names |->
        IF \E i \in 1..k : wait.evtVars[i] = x
        THEN ReadSlot(slots[CHOOSE i \in 1..k : wait.evtVars[i] = x])
        ELSE IF \E i \in DOMAIN offs : wait.vars[i] = x
        THEN ReadScratch(offs[CHOOSE i \in DOMAIN offs : wait.vars[i] = x])
        ELSE e[x]]

Restored(e) ==
  LET k == Len(wait.evtVars)
      slots == RestoreSlots(k)
      offs == Offsets(wait.vars)
  IN [x \in Names |->
        IF \E i \in 1..k : wait.evtVars[i] = x
        THEN ReadSlot(slots[CHOOSE i \in 1..k : wait.evtVars[i] = x])
        ELSE IF \E i \in DOMAIN offs : wait.vars[i] = x
        THEN ReadScratch(offs[CHOOSE i \in DOMAIN offs : wait.vars[i] = x])
        ELSE e[x]]

\* After the case label; checked mode restores unconditionally and
\* re-declares the awaited event as NULL (lines 320-326).
\* Mutant: the awaited event is re-declared with Python's None as value.
CaseLabelNone ==
  /\ pc = "case"
  /\ IF ctxMode = "checked"
     THEN env' = [Restored(env) EXCEPT ![Awaited] =
                    IF Awaited # InChain THEN None ELSE @]
     ELSE UNCHANGED env
  /\ pc' = "branch"
  /\ UNCHANGED <<wait, waits, before, outChain, fallthrough, evtCtx, scratch,
                 allocs, frees>>

CaseLabel ==
  /\ pc = "case"
  /\ IF ctxMode = "checked"
     THEN env' = [Restored(env) EXCEPT ![Awaited] =
                    IF Awaited # InChain THEN NULL ELSE @]
     ELSE UNCHANGED env
  /\ pc' = "branch"
  /\ UNCHANGED <<wait, waits, before, outChain, fallthrough, evtCtx, scratch,
                 allocs, frees>>

\* if(_fallthrough) { ... } else { ... } (lines 328-346).
\* Mutant: the fall-through branch of checked mode does not free evtCtx.
FallthroughBranchNoFree ==
  /\ pc = "branch"
  /\ fallthrough
  /\ IF ctxMode = "checked"
     THEN /\ outChain' = env[InChain]
          /\ UNCHANGED <<frees, evtCtx>>
     ELSE UNCHANGED <<frees, evtCtx, outChain>>
  /\ pc' = "done"
  /\ UNCHANGED <<wait, waits, env, before, fallthrough, scratch, allocs>>

FallthroughBranch ==
  /\ pc = "branch"
  /\ fallthrough
  /\ IF ctxMode = "checked"
     THEN /\ frees' = frees + 1
          /\ evtCtx' = None
          /\ outChain' = env[InChain]
     ELSE UNCHANGED <<frees, evtCtx, outChain>>
  /\ pc' = "done"
  /\ UNCHANGED <<wait, waits, env, before, fallthrough, scratch, allocs>>

\* The resumed path: optimized mode restores here, the awaited variable
\* takes outChain, and the event list is freed.
BlockedBranch ==
  /\ pc = "branch"
  /\ ~fallthrough
  /\ env' = [(IF ctxMode = "optimized" THEN Restored(env) ELSE env)
               EXCEPT ![Awaited] = outChain]
  /\ frees' = frees + 1
  /\ evtCtx' = None
  /\ pc' = "done"
  /\ UNCHANGED <<wait, waits, before, outChain, fallthrough, scratch, allocs>>

Next ==
  /\ UNCHANGED ctxMode
  /\ \/ \E list \in WaitLists : StartWait(list)
     \/ SetOutChain
     \/ SaveChecked
     \/ ReadyTest
     \/ Block
     \/ Resume
     \/ CaseLabel
     \/ FallthroughBranch
     \/ BlockedBranch

Spec == Init /\ [][Next]_vars

\* The emitted code is straight-line between suspension points, and the
\* runtime's scheduler re-enters a blocked task once its event is ready.
FairSpec == Spec /\ WF_vars(Next)

-----------------------------------------------------------------------------
(***************************************************************************)
(* Properties.                                                             *)
(***************************************************************************)

TypeOK ==
  /\ ctxMode \in CtxModes
  /\ pc \in {"idle", "rejected", "outChain", "save", "test", "blocking",
             "suspended", "lost", "case", "branch", "done"}
  /\ waits \in 0..MaxWaits
  /\ env \in [Names -> (Names \X (0..MaxWaits)) \cup {Garbage, NULL}]
  /\ fallthrough \in BOOLEAN
  /\ evtCtx = None \/ DOMAIN evtCtx.slots \subseteq {"events", "next"} \X Int
  /\ \A o \in DOMAIN scratch : o \in Nat /\ scratch[o].len \in Nat
  /\ allocs \in 0..1 /\ frees \in 0..1

\* Sections 3.2 and 4.3.2: every scalar listed in the wait holds, when the
\* wait completes, the value it had when the wait started, whether the
\* wait fell through or blocked and resumed (_addCtxVars/_extractCtxVars).
ScalarContextPreserved ==
  pc = "done" => \A x \in ToSet(wait.vars) : env[x] = before[x]

\* Section 5: the event list a wait allocates into _continuation->evtCtx is
\* freed exactly once by the time the wait completes, on either path.
EventListFreedOnce ==
  /\ frees <= allocs
  /\ pc = "done" => frees = allocs

\* Section 4.3.1: _addCtxEvents stores every carried event in a slot of the
\* list it allocated, inline or in the overflow array.
SaveWithinList ==
  evtCtx # None => DOMAIN evtCtx.slots \subseteq evtCtx.cap

\* Sections 3.2 and 8: every carried event (inChain included) holds its
\* value when the wait completes; the load sequence indexes the slots the
\* save wrote (_extractCtxEvents against _addCtxEvents).
EventContextPreserved ==
  pc = "done" => \A x \in ToSet(wait.evtVars) : env[x] = before[x]

\* Every wait the task starts completes: the value the blocking branch
\* stores in _blockedNextJump names the line of the template's
\* "case __LINE__:", so the re-entered task reaches the restore and leaves.
WaitCompletes == pc = "outChain" ~> pc = "done"

\* Section 4.3.2: a build the COMPILE_ASSERT accepts never stores scalars
\* past PDEVT_SCRATCH_BYTES.
NoScratchOverflow ==
  \A o \in DOMAIN scratch : o + scratch[o].len <= ScratchBytes

\* Section 4.3.2: the COMPILE_ASSERT rejects a wait only when its scalars
\* do not fit in PDEVT_SCRATCH_BYTES.
FittingWaitCompiles ==
  pc = "rejected" => ScratchUse(wait.vars) > ScratchBytes

=============================================================================
