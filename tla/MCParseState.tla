---------------------------- MODULE MCParseState ----------------------------
(***************************************************************************)
(* Instantiates ParseState for TLC: two declarable names, one event and    *)
(* one scalar being the interesting pair, and wait lists chosen to hit     *)
(* every branch of the classification loop of _waitCallback.              *)
(***************************************************************************)
EXTENDS ParseState

\* e: an event; a: a scalar (the cfg offers either type for each name).
MCCtxNames == {"e", "a"}

\* Well-formed lists, with and without inChain, and one list per error.
MCWaitLists == {
  <<"e">>,                     \* inChain appended as a carried event
  <<"inChain", "a">>,          \* awaited inChain, one scalar
  <<"e", "inChain", "a">>,     \* carried inChain, then a scalar
  <<"e", "a", "inChain">>,     \* event after a non-event
  <<"a">>,                     \* awaited name not an event
  <<"e", "e">>                 \* listed twice
}

\* Lists where inChain is carried explicitly.
MCWaitListsCarried == {<<"e", "inChain">>, <<"e">>}

\* Lists for the hoisting runs: no waits needed.
MCWaitListsNone == {<<"e">>}

=============================================================================
