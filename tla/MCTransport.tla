---------------------------- MODULE MCTransport ----------------------------
(***************************************************************************)
(* A small instance of Transport for TLC.                                  *)
(***************************************************************************)
EXTENDS Transport

\* One line; one followed by white space; two lines; a line that never ends, one of
\* them longer than the limit.
SmallReplies ==
    {<<"byte", "end">>, <<"byte", "end", "space">>, <<"byte", "end", "byte">>,
     <<"byte", "byte">>, <<"byte", "byte", "byte", "byte">>}
=============================================================================
