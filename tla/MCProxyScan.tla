---------------------------- MODULE MCProxyScan ----------------------------
\* Instances of the proxy scanner for TLC.
EXTENDS ProxyScan

CONSTANTS a1, a2, p1, p2

OpenFirst == {<<a1, p1>>}

\* Two scans at once with nothing in their way; one at a time where connecting
\* fails; and one at a time where sockets fail too, and a connection may close.
CalmAndFaulty ==
    {[maxCount |-> 2, cacheSize |-> 1, foreign |-> {}, faults |-> {}],
     [maxCount |-> 1, cacheSize |-> 2, foreign |-> {}, faults |-> {"connect"}],
     [maxCount |-> 1, cacheSize |-> 2, foreign |-> {1}, faults |-> {"connect", "socket"}]}
=============================================================================
