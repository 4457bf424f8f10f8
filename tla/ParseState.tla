----------------------------- MODULE ParseState -----------------------------
(***************************************************************************)
(* The line-streaming translator of src/ocr/scripts/mtParse/parser.py:     *)
(* class ParseState, driven line by line by processInputFile.              *)
(*                                                                         *)
(* An input line is abstracted to the pattern it matches (ParseState.      *)
(* matchers) and the fields the callbacks use; an output line to the kind  *)
(* of text written and the input line it comes from.  The expansion of a  *)
(* WAIT_EVT is abstracted to the classification of its wait list; what    *)
(* the expansion does at run time is the subject of module WaitRuntime.   *)
(***************************************************************************)
EXTENDS Naturals, Sequences, SequencesExt, FiniteSets, WaitList

CONSTANTS
  CtxModes,     \* values gProcessMode.ctxMode may hold after validateMode
  CtxNames,    \* names a __context declaration may declare
  WaitLists,   \* argument lists a WAIT_EVT<N>(...) may carry
  WaitCounts,  \* values of N in WAIT_EVT<N>
  Tails,       \* whether code may follow "WAIT_EVT...;" on the same line
  MaxLines     \* length bound of the input file

ASSUME CtxModes \subseteq {"optimized", "checked"}
ASSUME WaitCounts \subseteq Nat /\ Tails \subseteq BOOLEAN /\ MaxLines \in Nat

\* Input lines, by the matcher they hit first (parseLine); "other" is no match.
Lines ==
       [kind : {"start", "end", "other"}]
  \cup [kind : {"ctx"}, name : CtxNames, evt : BOOLEAN]
  \cup [kind : {"wait"}, n : {1} \cap WaitCounts, vars : WaitLists, tail : Tails]
  \* a count other than 1 is rejected before the list is read (line 230)
  \cup [kind : {"wait"}, n : WaitCounts \ {1}, vars : {<<InChain>>}, tail : Tails]

VARIABLES
  ctxMode,       \* gProcessMode.ctxMode, fixed before the file is read
  input,         \* lines read so far; line i has lineNo i
  out,           \* lines written to outFile
  lineBuffer,    \* ParseState.lineBuffer: None or the buffered lines
  inFunction,    \* ParseState.inFunction: None or the START_FUNC lineNo
  ctxVariables,  \* ParseState.ctxVariables: name -> [evt, line]
  indentIncrement, \* None until a START_FUNC captured its indent
  errors,        \* lineNos logged at error level
  status         \* "running", "done" (file copied) or "crashed"

vars == <<ctxMode, input, out, lineBuffer, inFunction, ctxVariables,
          indentIncrement, errors, status>>

\* The indent string captured from a START_FUNC match (possibly empty).
Indent == "indent"

\* Output lines: the input line copied, a declaration with "__context"
\* stripped, the "Variable hoisted" comment, a hoisted declaration, or the
\* expansion of a wait with its classified lists.
Item(kind, src) == [kind |-> kind, src |-> src]
WaitItem(src, c) == [kind |-> "wait", src |-> src, awaited |-> c.evts[1],
                     evts |-> c.evtVars, vars |-> c.vars]

lineNo == Len(input) + 1

\* ParseState(outFile): the state before the first line.
InitState ==
  /\ input = <<>>
  /\ out = <<>>
  /\ lineBuffer = None
  /\ inFunction = None
  /\ ctxVariables = [n \in {} |-> None]
  /\ indentIncrement = None
  /\ errors = {}
  /\ status = "running"

\* gProcessMode.ctxMode is fixed before processInputFile constructs it.
Init == ctxMode \in CtxModes /\ InitState

\* parseLine reads the next line of gInputFile (processInputFile loop).
ReadLine(l) ==
  /\ status = "running"
  /\ Len(input) < MaxLines
  /\ input' = Append(input, l)

\* _writeLine: buffer `buffered` when a line buffer exists, else write `line`.
WriteLine(buf, line, buffered) ==
  IF buf = None
  THEN /\ out' = Append(out, line)
       /\ lineBuffer' = None
  ELSE /\ lineBuffer' = Append(buf, buffered)
       /\ UNCHANGED out

\* A callback that logs an error and returns False writes nothing.
LogError ==
  /\ errors' = errors \cup {lineNo}
  /\ UNCHANGED <<out, lineBuffer, inFunction, ctxVariables, indentIncrement,
                 status>>

\* parseLine when no matcher hits: the line is written or buffered.
NoMatch(l) ==
  /\ l.kind = "other"
  /\ ReadLine(l)
  /\ WriteLine(lineBuffer, Item("line", lineNo), Item("line", lineNo))
  /\ UNCHANGED <<inFunction, ctxVariables, indentIncrement, errors, status>>

\* Mutant: inFunction records the line number counted from 0.
_startCallbackOffByOne(l) ==
  /\ l.kind = "start"
  /\ ReadLine(l)
  /\ \/ /\ inFunction # None
        /\ LogError
     \/ /\ inFunction = None
        /\ inFunction' = lineNo - 1
        /\ indentIncrement' = Indent
        /\ ctxVariables' = [n \in {InChain} |-> [evt |-> TRUE, line |-> lineNo]]
        /\ WriteLine(IF ctxMode = "optimized" THEN <<>> ELSE None,
                     Item("line", lineNo), Item("line", lineNo))
        /\ UNCHANGED <<errors, status>>

_startCallback(l) ==
  /\ l.kind = "start"
  /\ ReadLine(l)
  /\ \/ /\ inFunction # None
        /\ LogError
     \/ /\ inFunction = None
        /\ inFunction' = lineNo
        /\ indentIncrement' = Indent
        /\ ctxVariables' = [n \in {InChain} |-> [evt |-> TRUE, line |-> lineNo]]
        /\ WriteLine(IF ctxMode = "optimized" THEN <<>> ELSE None,
                     Item("line", lineNo), Item("line", lineNo))
        /\ UNCHANGED <<errors, status>>

\* The hoisted declarations, in the order the dict iteration yields them.
Hoisted(order) == [i \in DOMAIN order |-> Item("hoisted", ctxVariables[order[i]].line)]

\* Mutant: the name <> 'inChain' test is dropped, inChain is hoisted too.
HoistOrdersWithInChain == SetToSeqs(DOMAIN ctxVariables)

\* Python 2 dict iteration order is unspecified: any order of the names.
HoistOrders == SetToSeqs(DOMAIN ctxVariables \ {InChain})

\* Mutant: the END_FUNC line is written only when a buffer is flushed.
_endCallbackFlushOnly(l) ==
  /\ l.kind = "end"
  /\ ReadLine(l)
  /\ \/ /\ lineBuffer # None
        /\ \E order \in HoistOrders :
             out' = out \o Hoisted(order) \o lineBuffer \o <<Item("line", lineNo)>>
     \/ /\ lineBuffer = None
        /\ UNCHANGED out
  /\ lineBuffer' = None
  /\ inFunction' = None
  /\ UNCHANGED <<ctxVariables, indentIncrement, errors, status>>

\* Mutant: the END_FUNC line is written before the buffered lines.
_endCallbackEndFirst(l) ==
  /\ l.kind = "end"
  /\ ReadLine(l)
  /\ \/ /\ lineBuffer # None
        /\ \E order \in HoistOrders :
             out' = out \o Hoisted(order) \o <<Item("line", lineNo)>> \o lineBuffer
     \/ /\ lineBuffer = None
        /\ out' = Append(out, Item("line", lineNo))
  /\ lineBuffer' = None
  /\ inFunction' = None
  /\ UNCHANGED <<ctxVariables, indentIncrement, errors, status>>

_endCallback(l) ==
  /\ l.kind = "end"
  /\ ReadLine(l)
  /\ \/ /\ lineBuffer # None
        /\ \E order \in HoistOrders :
             out' = out \o Hoisted(order) \o lineBuffer \o <<Item("line", lineNo)>>
     \/ /\ lineBuffer = None
        /\ out' = Append(out, Item("line", lineNo))
  /\ lineBuffer' = None
  /\ inFunction' = None
  /\ UNCHANGED <<ctxVariables, indentIncrement, errors, status>>

\* No check of inFunction: the callback also runs outside a function.
_ctxVarCallback(l) ==
  /\ l.kind = "ctx"
  /\ ReadLine(l)
  /\ \/ /\ l.name \in DOMAIN ctxVariables
        /\ LogError
     \/ /\ l.name \notin DOMAIN ctxVariables
        /\ ctxVariables' = ctxVariables @@ (l.name :> [evt |-> l.evt, line |-> lineNo])
        /\ WriteLine(lineBuffer, Item("decl", lineNo), Item("placeholder", lineNo))
        /\ UNCHANGED <<inFunction, indentIncrement, errors, status>>

_waitCallback(l) ==
  /\ l.kind = "wait"
  /\ ReadLine(l)
  /\ LET c == Classify(ctxVariables, l.vars) IN
     \/ /\ l.n # 1
        /\ LogError
     \/ /\ l.n = 1
        /\ c.err # ""
        /\ LogError
     \* self.curIndent + self.indentIncrement raises TypeError on None
     \/ /\ l.n = 1
        /\ c.err = ""
        /\ indentIncrement = None
        /\ status' = "crashed"
        /\ UNCHANGED <<out, lineBuffer, inFunction, ctxVariables,
                       indentIncrement, errors>>
     \* written with noIndent; code after the matched ';' is not kept
     \/ /\ l.n = 1
        /\ c.err = ""
        /\ indentIncrement # None
        /\ WriteLine(lineBuffer, WaitItem(lineNo, c), WaitItem(lineNo, c))
        /\ UNCHANGED <<inFunction, ctxVariables, indentIncrement, errors, status>>

\* processInputFile: the loop ends and the temporary file is copied.
Finish ==
  /\ status = "running"
  /\ status' = "done"
  /\ UNCHANGED <<input, out, lineBuffer, inFunction, ctxVariables,
                 indentIncrement, errors>>

\* processInputFile has copied the output, or the exception has ended the
\* script: nothing more happens.
Exit == status \in {"done", "crashed"} /\ UNCHANGED vars

Next ==
  /\ UNCHANGED ctxMode
  /\ \/ \E l \in Lines :
          \/ NoMatch(l)
          \/ _startCallback(l)
          \/ _endCallback(l)
          \/ _ctxVarCallback(l)
          \/ _waitCallback(l)
     \/ Finish
     \/ Exit

Spec == Init /\ [][Next]_vars

-----------------------------------------------------------------------------
(***************************************************************************)
(* Reference definitions, from the input alone (spec.md sections 3 and 4). *)
(***************************************************************************)

\* What has been emitted so far: written lines, then the buffered ones.
Written == out \o (IF lineBuffer = None THEN <<>> ELSE lineBuffer)

\* The START_FUNC line of the function line n lies in (0 when outside):
\* the first START_FUNC after the last END_FUNC before n.
Enclosing(n) ==
  LET lastEnd == Max({k \in 1..(n - 1) : input[k].kind = "end"} \cup {0})
      starts == {s \in (lastEnd + 1)..(n - 1) : input[s].kind = "start"}
  IN IF starts = {} THEN 0 ELSE Min(starts)

\* The function that starts at line s has been closed by an END_FUNC.
Closed(s) == \E m \in DOMAIN input : input[m].kind = "end" /\ Enclosing(m) = s

DeclsIn(s, w) == {d \in (s + 1)..(w - 1) : input[d].kind = "ctx"}
FirstDecl(x, s, w) == Min({d \in DeclsIn(s, w) : input[d].name = x})

\* The symbol table of the function starting at s, as seen at line w:
\* name -> is-event, inChain plus the first declaration of each name.
RefTable(s, w) ==
  [x \in {InChain} \cup {input[d].name : d \in DeclsIn(s, w)} |->
     IF x = InChain THEN TRUE ELSE input[FirstDecl(x, s, w)].evt]

-----------------------------------------------------------------------------
(***************************************************************************)
(* Properties.                                                             *)
(***************************************************************************)

TypeOK ==
  /\ ctxMode \in CtxModes
  /\ input \in Seq(Lines)
  /\ \A i \in DOMAIN out : out[i].src \in DOMAIN input
  /\ lineBuffer = None \/ \A i \in DOMAIN lineBuffer : lineBuffer[i].src \in DOMAIN input
  /\ inFunction \in {None} \cup DOMAIN input
  /\ \A x \in DOMAIN ctxVariables : ctxVariables[x].evt \in BOOLEAN /\ ctxVariables[x].line \in DOMAIN input
  /\ indentIncrement \in {None, Indent}
  /\ errors \subseteq DOMAIN input
  /\ status \in {"running", "done", "crashed"}

\* _waitCallback, with the symbol table _startCallback and _ctxVarCallback
\* build, accepts exactly the wait lists of section 3.4 inside a function:
\* a well-formed list is expanded once with the awaited event first, the
\* carried events and the scalars of the list; any other is an error and
\* is not expanded.
WaitAcceptedIffWellFormed ==
  \A w \in DOMAIN input :
    input[w].kind = "wait" /\ Enclosing(w) # 0 =>
      LET tbl == RefTable(Enclosing(w), w)
          vs == input[w].vars
          its == {i \in DOMAIN Written : Written[i].src = w}
      IN IF WellFormed(tbl, input[w].n, vs)
         THEN /\ w \notin errors
              /\ Cardinality(its) = 1
              /\ \A i \in its :
                   /\ Written[i].kind = "wait"
                   /\ Written[i].awaited = vs[1]
                   /\ ToSet(Written[i].evts) = ToSet(RefCarried(tbl, vs))
                   /\ Written[i].vars = RefScalars(tbl, vs)
         ELSE w \in errors /\ its = {}

\* Optimized mode (_endCallback flushing lineBuffer): once a function is
\* closed, each context variable it declared is hoisted exactly once,
\* across any number of functions; nothing else, and nothing in checked
\* mode, is ever hoisted.
HoistedOncePerDecl ==
  \A d \in DOMAIN input :
    Cardinality({i \in DOMAIN out : out[i] = Item("hoisted", d)}) =
      IF /\ ctxMode = "optimized"
         /\ input[d].kind = "ctx"
         /\ Enclosing(d) # 0
         /\ Closed(Enclosing(d))
         /\ input[d].name # InChain
         /\ FirstDecl(input[d].name, Enclosing(d), d + 1) = d
      THEN 1 ELSE 0

\* Through streaming, buffering and flushing (_writeLine, _endCallback),
\* every line other than a hoisted copy is written at most once and in
\* input order.
OutputInInputOrder ==
  LET body == SelectSeq(out, LAMBDA it : it.kind # "hoisted")
  IN \A i, j \in DOMAIN body : i < j => body[i].src < body[j].src

\* The expansion of a wait line keeps the line's text (what the WAIT_EVT
\* matcher leaves out is lost).
Represents(n) == input[n].kind = "wait" => ~input[n].tail

\* Sections 6 and 7: when the file has been translated, every input line is
\* in the output, or its handler logged an error.
EveryLineAccounted ==
  status = "done" =>
    \A n \in DOMAIN input :
      \/ n \in errors
      \/ \E i \in DOMAIN out : out[i].src = n /\ out[i].kind # "hoisted" /\ Represents(n)

\* The START_FUNC line that opens the function line n belongs to (0 when
\* outside any function).
Opener(n) == IF input[n].kind = "start" /\ Enclosing(n) = 0 THEN n ELSE Enclosing(n)

\* Sections 4.2 and 7: every line outside functions and every line of a
\* function that END_FUNC closed reaches the output (written directly, or
\* flushed from the line buffer with the hoisted declarations before it),
\* or its handler logged an error; across functions, whatever the mode.
ClosedLinesAccounted ==
  status = "done" =>
    \A n \in DOMAIN input :
      \/ Opener(n) # 0 /\ ~Closed(Opener(n))
      \/ n \in errors
      \/ \E i \in DOMAIN out : out[i].src = n /\ out[i].kind # "hoisted" /\ Represents(n)

\* Section 3.4: the carried events of an expansion are the list's events
\* after the awaited one, in order, then inChain only if the list omits it.
CarriedEventsMatchSpec ==
  \A i \in DOMAIN Written :
    Written[i].kind = "wait" /\ Enclosing(Written[i].src) # 0 =>
      Written[i].evts =
        RefCarried(RefTable(Enclosing(Written[i].src), Written[i].src),
                   input[Written[i].src].vars)

\* Sections 3.3 and 4.2: the START_FUNC line is emitted directly, never
\* buffered, so the hoisted declarations follow it.
HoistedAfterStart ==
  \A i \in DOMAIN out :
    out[i].kind = "hoisted" =>
      \E j \in 1..(i - 1) : out[j] = Item("line", Enclosing(out[i].src))

=============================================================================
