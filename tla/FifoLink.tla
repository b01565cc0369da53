------------------------------ MODULE FifoLink ------------------------------
(***************************************************************************)
(* What the rest of OOMon relies on when it calls Remote::sendCommand: a   *)
(* link is a pair of reliable FIFO channels, one each way, that opens in a *)
(* fixed order and carries nothing before it is open.  Commands are        *)
(* numbered in the order they are issued; a link that ends simply stops.   *)
(***************************************************************************)
EXTENDS Naturals, Sequences

VARIABLES
    sent,       \* sent[x]: how many commands x has issued
    got,        \* got[x]: the commands x has processed, by number
    ready       \* ready[x]: x has opened the link

vars == <<sent, got, ready>>

Ends == {"client", "server"}
Other(x) == IF x = "client" THEN "server" ELSE "client"

Init ==
    /\ sent = [x \in Ends |-> 0]
    /\ got = [x \in Ends |-> <<>>]
    /\ ready = [x \in Ends |-> FALSE]

\* a command may be issued at any time, before the link is open too
Issue(x) ==
    /\ sent' = [sent EXCEPT ![x] = @ + 1]
    /\ UNCHANGED <<got, ready>>

\* the accepting end opens first
Open(x) ==
    /\ ~ready[x]
    /\ x = "client" => ready["server"]
    /\ ready' = [ready EXCEPT ![x] = TRUE]
    /\ UNCHANGED <<sent, got>>

Takes(x) ==
    /\ ready[x]
    /\ ready[Other(x)]
    /\ Len(got[x]) < sent[Other(x)]
    /\ got' = [got EXCEPT ![x] = Append(@, Len(@) + 1)]

\* the next command in line is processed
Deliver(x) == Takes(x) /\ UNCHANGED <<sent, ready>>

\* ... and answered with another
DeliverAndAnswer(x) ==
    /\ Takes(x)
    /\ sent' = [sent EXCEPT ![x] = @ + 1]
    /\ UNCHANGED ready

Next == \E x \in Ends :
            Issue(x) \/ Open(x) \/ Deliver(x) \/ DeliverAndAnswer(x)

Spec == Init /\ [][Next]_vars
=============================================================================
