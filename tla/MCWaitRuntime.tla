---------------------------- MODULE MCWaitRuntime ----------------------------
(***************************************************************************)
(* Instantiates WaitRuntime for TLC.  A task function declares two events *)
(* and scalars of the sizes that matter to the 8-byte stride: 1, 4 and 8. *)
(***************************************************************************)
EXTENDS WaitRuntime

\* e1..e5: pdEvent_t*; i: int (4 bytes); p: a pointer (8 bytes).
MCDecls == [e1 |-> [evt |-> TRUE,  size |-> 8],
            e2 |-> [evt |-> TRUE,  size |-> 8],
            e3 |-> [evt |-> TRUE,  size |-> 8],
            e4 |-> [evt |-> TRUE,  size |-> 8],
            e5 |-> [evt |-> TRUE,  size |-> 8],
            i  |-> [evt |-> FALSE, size |-> 4],
            p  |-> [evt |-> FALSE, size |-> 8]]

\* Lists the translator accepts: one, two, three or five carried events
\* (the events after the awaited one, inChain appended or listed), no,
\* one or two scalars.  Five carried events overflow the default
\* PDEVT_LIST_SIZE of 4 into next[].
MCWaitLists == {
  <<"e1", "e2">>,
  <<"e1", "e2", "e3", "e4", "e5", "i">>,
  <<"inChain", "i">>,
  <<"e1", "p">>,
  <<"e1", "e2", "i", "p">>,
  <<"e1", "inChain", "e2", "i">>
}

\* c1, c2, c3: char (1 byte), for the scratch bound.
MCDeclsChars == [e1 |-> [evt |-> TRUE,  size |-> 8],
                 c1 |-> [evt |-> FALSE, size |-> 1],
                 c2 |-> [evt |-> FALSE, size |-> 1],
                 c3 |-> [evt |-> FALSE, size |-> 1]]

MCWaitListsChars == {<<"e1", "c1">>, <<"e1", "c1", "c2", "c3">>}

\* A wait without scalars.
MCWaitListsNoScalar == {<<"e1">>, <<"e1", "i">>}

=============================================================================
