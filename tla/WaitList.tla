------------------------------ MODULE WaitList ------------------------------
(***************************************************************************)
(* Classification of the argument list of WAIT_EVT<N>(...) by             *)
(* ParseState._waitCallback (src/ocr/scripts/mtParse/parser.py), and the  *)
(* classification spec.md section 3.4 prescribes.  A symbol table maps    *)
(* each context variable name to a record whose field evt is CtxVar.isEvt.*)
(***************************************************************************)
EXTENDS Naturals, Sequences, SequencesExt

CONSTANT None    \* Python's None

\* The synthetic event chain entry created by _startCallback.
InChain == "inChain"

(***************************************************************************)
(* The classification loop of _waitCallback over the wait list, with       *)
(* numEvts = 1.  The accumulator holds the loop's locals; err is the       *)
(* error that made the callback return False ("" while none).             *)
(***************************************************************************)
ClassifyInit == [names |-> {}, numEvts |-> 1, evts |-> <<>>, evtVars |-> <<>>,
                 vars |-> <<>>, inChainStatus |-> -1, pastEvts |-> FALSE,
                 err |-> ""]

\* Mutant: an event listed after non-events is accepted (no pastEvts check).
ClassifyStepNoOrderCheck(tbl, acc, v) ==
  IF acc.err # "" THEN acc
  ELSE IF v \in acc.names THEN [acc EXCEPT !.err = "listed twice"]
  ELSE LET a == [acc EXCEPT !.names = @ \cup {v}] IN
  IF v \notin DOMAIN tbl THEN [a EXCEPT !.err = "not a context variable"]
  ELSE IF a.numEvts > 0 THEN
    IF ~tbl[v].evt THEN [a EXCEPT !.err = "not an event"]
    ELSE IF v = InChain /\ a.inChainStatus # -1
    THEN [a EXCEPT !.err = "listed twice in the event list"]
    ELSE [a EXCEPT !.numEvts = @ - 1, !.evts = Append(@, v),
                   !.inChainStatus = IF v = InChain THEN 1 ELSE @]
  ELSE IF tbl[v].evt
  THEN [a EXCEPT !.evtVars = Append(@, v)]
  ELSE [a EXCEPT !.pastEvts = TRUE, !.vars = Append(@, v)]

ClassifyStep(tbl, acc, v) ==
  IF acc.err # "" THEN acc
  ELSE IF v \in acc.names THEN [acc EXCEPT !.err = "listed twice"]
  ELSE LET a == [acc EXCEPT !.names = @ \cup {v}] IN
  IF v \notin DOMAIN tbl THEN [a EXCEPT !.err = "not a context variable"]
  ELSE IF a.numEvts > 0 THEN
    IF ~tbl[v].evt THEN [a EXCEPT !.err = "not an event"]
    ELSE IF v = InChain /\ a.inChainStatus # -1
    THEN [a EXCEPT !.err = "listed twice in the event list"]
    ELSE [a EXCEPT !.numEvts = @ - 1, !.evts = Append(@, v),
                   !.inChainStatus = IF v = InChain THEN 1 ELSE @]
  ELSE IF tbl[v].evt
  THEN IF a.pastEvts THEN [a EXCEPT !.err = "event after non-events"]
       ELSE [a EXCEPT !.evtVars = Append(@, v)]
  ELSE [a EXCEPT !.pastEvts = TRUE, !.vars = Append(@, v)]

\* After the loop: inChain is appended when inChainStatus is still -1
\* (self.ctxVariables.get('inChain', None) may be None).
Classify(tbl, names) ==
  LET c == FoldLeft(LAMBDA acc, v : ClassifyStep(tbl, acc, v), ClassifyInit, names)
  IN IF c.err = "" /\ c.inChainStatus = -1
     THEN [c EXCEPT !.evtVars = Append(@, IF InChain \in DOMAIN tbl
                                          THEN InChain ELSE None)]
     ELSE c

-----------------------------------------------------------------------------
(***************************************************************************)
(* Reference definitions from spec.md section 3.4 (tbl: name -> is-event).*)
(***************************************************************************)

\* Section 3.4: a wait list the translator must accept.
WellFormed(tbl, n, vs) ==
  /\ n = 1
  /\ Len(vs) >= 1
  /\ \A i, j \in DOMAIN vs : i # j => vs[i] # vs[j]
  /\ \A i \in DOMAIN vs : vs[i] \in DOMAIN tbl
  /\ tbl[vs[1]]
  /\ \A i, j \in 2..Len(vs) : i < j /\ ~tbl[vs[i]] => ~tbl[vs[j]]

\* Section 3.4: carried events, then inChain when the list omits it.
RefCarried(tbl, vs) ==
  SelectSeq(Tail(vs), LAMBDA x : tbl[x])
    \o (IF InChain \in ToSet(vs) THEN <<>> ELSE <<InChain>>)
RefScalars(tbl, vs) == SelectSeq(Tail(vs), LAMBDA x : ~tbl[x])

=============================================================================
