------------------------------ MODULE MCBotnet ------------------------------
(***************************************************************************)
(* Networks small enough for TLC: which bot may dial which, and how often  *)
(* a link may fail.                                                        *)
(***************************************************************************)
EXTENDS Botnet

\* Three bots in a ring
Ring3 == [dialable |-> {<<"a", "b">>, <<"b", "c">>, <<"c", "a">>}, patient |-> TRUE,
          dials |-> 3, breaks |-> 0, disconns |-> 0]

\* Three bots in a line, whose operators wait before they dial again
Line3 == [dialable |-> {<<"a", "b">>, <<"b", "c">>}, patient |-> TRUE,
          dials |-> 3, breaks |-> 1, disconns |-> 0]

\* Four bots in a line, dialled from both ends
Line4 == [dialable |-> {<<"a", "b">>, <<"b", "c">>, <<"d", "c">>}, patient |-> TRUE,
          dials |-> 3, breaks |-> 1, disconns |-> 0]

\* Three bots in a line, two of which dial each other in haste
Churn == [dialable |-> {<<"a", "b">>, <<"b", "a">>, <<"b", "c">>}, patient |-> FALSE,
          dials |-> 2, breaks |-> 1, disconns |-> 1]

FourWorlds == {Ring3, Line3, Line4, Churn}
=============================================================================
