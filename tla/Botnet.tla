------------------------------- MODULE Botnet -------------------------------
(***************************************************************************)
(* The network the bots make of their links: RemoteList::connections_ at   *)
(* every bot, the Links tree each Remote keeps of the bots behind it, and  *)
(* the BOTJOIN and BOTPART lines that keep those trees up to date.         *)
(*                                                                         *)
(* A link is known by the order in which it was dialled; each of its two   *)
(* ends is a Remote.  The exchange of versions, which moves nothing but    *)
(* the two ends' own stage, is left to RemoteLink: here the handshake is   *)
(* AUTH, AUTH, the client's burst, the server's burst.  A burst is written *)
(* in one piece and its lines are read one at a time.                      *)
(***************************************************************************)
EXTENDS Naturals, Sequences, FiniteSets, SequencesExt

CONSTANTS
    Bots,       \* the nicknames of the bots
    MaxDials,   \* how many links there may be (bound of the model)
    Worlds      \* what the operators and the network may do: records of
                \*   dialable   <<b, c>>: an operator of b may dial c
                \*   patient    do operators wait until both ends of the old
                \*              link are gone before they dial a bot again?
                \*   dials, breaks, disconns: how often .conn may be used, a
                \*              link may fail by itself and .disconn may be
                \*              used (bounds of the model)

ASSUME BoundsAssumption == MaxDials \in Nat
ASSUME WorldsAssumption ==
    Worlds \subseteq [dialable : SUBSET (Bots \X Bots), patient : BOOLEAN,
                     dials : 0 .. MaxDials, breaks : Nat, disconns : Nat]

VARIABLES
    world,      \* the one of Worlds this is
    links,      \* the links dialled so far: their two bots, and whether the
                \* connection has been accepted
    conns,      \* conns[b]: RemoteList::connections_, in its order
    stage,      \* stage[b][l]: Remote::stage_ of b's end of link l
    tree,       \* tree[b][l]: Remote::children_, its root and its edges
    sendQ,      \* sendQ[b][l]: Remote::sendQ_
    wire,       \* wire[b][l]: the lines written to b on l and not read yet
    breaks,     \* links that failed so far
    disconns    \* .disconn commands so far

state == <<links, conns, stage, tree, sendQ, wire, breaks, disconns>>
vars == <<world, state>>

LinkIds == 1 .. MaxDials
NoBot == "nobody"
NoTree == [root |-> NoBot, edges |-> <<>>]

\* A line: AUTH from its sender, BOTJOIN and BOTPART of "node" by "from", the
\* BOTJOIN without parameters ("SYNC"), ERROR
Line(cmd, from, node) == [cmd |-> cmd, from |-> from, node |-> node]

Init ==
    /\ world \in Worlds
    /\ links = <<>>
    /\ conns = [b \in Bots |-> <<>>]
    /\ stage = [b \in Bots |-> [l \in LinkIds |-> "INIT"]]
    /\ tree = [b \in Bots |-> [l \in LinkIds |-> NoTree]]
    /\ sendQ = [b \in Bots |-> [l \in LinkIds |-> <<>>]]
    /\ wire = [b \in Bots |-> [l \in LinkIds |-> <<>>]]
    /\ breaks = 0
    /\ disconns = 0

-----------------------------------------------------------------------------
(* Links trees: a root, and the edges below it in the order of getBotList   *)

\* v and everything linked below it by edges
Below(edges, v) ==
    LET reach[i \in 0 .. Cardinality(Bots)] ==
            IF i = 0 THEN {v}
            ELSE reach[i - 1] \union {e[2] : e \in {f \in edges : f[1] \in reach[i - 1]}}
    IN  reach[Cardinality(Bots)]

\* Links::exists
Nodes(t) == {t.root} \union {e[2] : e \in ToSet(t.edges)}

\* Links::Link: the last child of from; not linked if from is not in the tree
Grafted(t, from, node) ==
    LET branch == Below(ToSet(t.edges), from)
        last == Max({i \in 1 .. Len(t.edges) : t.edges[i][2] \in branch} \union {0})
    IN  IF from \in Nodes(t)
        THEN [t EXCEPT !.edges = InsertAt(@, last + 1, <<from, node>>)]
        ELSE t

\* A slip NoPhantom must notice: only the node itself goes
PrunedAlone(t, node) == [t EXCEPT !.edges = SelectSeq(@, LAMBDA e : e[2] # node)]

\* Links::Unlink: the node goes with its whole branch; the root never does
Pruned(t, node) ==
    LET gone == IF node = t.root THEN {} ELSE Below(ToSet(t.edges), node)
    IN  [t EXCEPT !.edges = SelectSeq(@, LAMBDA e : e[2] \notin gone)]

-----------------------------------------------------------------------------
(* The list of connections                                                 *)

Mine(b) == ToSet(conns[b])
Others(b, l) == Mine(b) \ {l}
Peer(b, l) == IF links[l].client = b THEN links[l].server ELSE links[l].client
IsServer(b, l) == links[l].server = b
Ready(b, l) == stage[b][l] = "READY"

\* findBot: the connections whose tree has the bot
Leading(b, bot) == {l \in Mine(b) : bot \in Nodes(tree[b][l])}
IsConnected(b, bot) == Leading(b, bot) # {}
FindBot(b, bot) == SelectSeq(conns[b], LAMBDA l : l \in Leading(b, bot))[1]

\* A slip ViewsAgree must notice: connections that are not READY are relayed too
BotNetUnready(b, skip) ==
    LET behind(l) == <<<<b, Peer(b, l)>>>> \o tree[b][l].edges
    IN  FlattenSeq([i \in 1 .. Len(conns[b]) |->
            LET l == conns[b][i]
            IN  IF l # skip THEN behind(l) ELSE <<>>])

\* getBotNet: what b has behind its READY connections other than skip
BotNet(b, skip) ==
    LET behind(l) == <<<<b, Peer(b, l)>>>> \o tree[b][l].edges
    IN  FlattenSeq([i \in 1 .. Len(conns[b]) |->
            LET l == conns[b][i]
            IN  IF l # skip /\ Ready(b, l) THEN behind(l) ELSE <<>>])

\* sendMyBotNet: those links, and the BOTJOIN without parameters
Burst(b, l) ==
    LET net == BotNet(b, l)
    IN  [i \in 1 .. Len(net) |-> Line("JOIN", net[i][1], net[i][2])]
            \o <<Line("SYNC", b, NoBot)>>

\* x hears what is written on l while it has its end
Hears(x, l) == l \in Mine(x)

\* b's own wires become mine, and the peers hear out[l] on each link l of b
Wires(b, mine, out) ==
    wire' = [x \in Bots |-> [l \in LinkIds |->
                IF x = b THEN mine[l]
                ELSE IF l \in Mine(b) /\ x = Peer(b, l) /\ Hears(x, l)
                     THEN wire[x][l] \o out[l]
                     ELSE wire[x][l]]]

\* sendBotJoin or sendBotPart to the connections in S: written or queued
Relayed(b, S, line) ==
    [l \in LinkIds |-> IF l \in S /\ Ready(b, l) THEN <<line>> ELSE <<>>]
Queued(b, S, line) ==
    [l \in LinkIds |-> IF l \in S /\ ~Ready(b, l) THEN Append(sendQ[b][l], line)
                                                  ELSE sendQ[b][l]]

\* b removes its end of l from connections_, its last words on it being last;
\* told: RemoteProcess sends a BOTPART to the other connections if l was READY
Removal(b, l, last, told) ==
    LET S == IF told /\ Ready(b, l) THEN Others(b, l) ELSE {}
        part == Line("PART", b, Peer(b, l))
    IN  /\ conns' = [conns EXCEPT ![b] = SelectSeq(@, LAMBDA k : k # l)]
        /\ stage' = [stage EXCEPT ![b][l] = "INIT"]
        /\ tree' = [tree EXCEPT ![b][l] = NoTree]
        /\ sendQ' = [sendQ EXCEPT ![b] = [Queued(b, S, part) EXCEPT ![l] = <<>>]]
        /\ Wires(b, [wire[b] EXCEPT ![l] = <<>>],
                 [Relayed(b, S, part) EXCEPT ![l] = last])
        /\ UNCHANGED links

Error == <<Line("ERROR", NoBot, NoBot)>>

-----------------------------------------------------------------------------
(* Commands of the operators, and the network's failures                   *)

\* Links that are still held by one of their bots, between b and c
Pending(b, c) ==
    {l \in Mine(b) \union Mine(c) : {links[l].client, links[l].server} = {b, c}}

\* cmdConn: refused only if the bot is already in a tree
Conn(b, c) ==
    /\ Len(links) < world.dials
    /\ <<b, c>> \in world.dialable
    /\ world.patient => Pending(b, c) = {}
    /\ ~IsConnected(b, c)
    /\ links' = Append(links, [client |-> b, server |-> c, up |-> FALSE])
    /\ conns' = [conns EXCEPT ![b] = Append(@, Len(links) + 1)]
    /\ UNCHANGED <<stage, tree, sendQ, wire, breaks, disconns>>

\* cmdDisconn: the first connection that leads to the bot is dropped, and the
\* other connections are not told
Disconn(b, c) ==
    /\ disconns < world.disconns
    /\ IsConnected(b, c)
    /\ Removal(b, FindBot(b, c), <<>>, FALSE)
    /\ disconns' = disconns + 1
    /\ UNCHANGED breaks

\* the connection is accepted, and the versions are exchanged: the server has
\* its end and the client's AUTH to read
Accept(l) ==
    /\ l \in 1 .. Len(links)
    /\ ~links[l].up
    /\ l \in Mine(links[l].client)
    /\ links' = [links EXCEPT ![l].up = TRUE]
    /\ conns' = [conns EXCEPT ![links[l].server] = Append(@, l)]
    /\ wire' = [wire EXCEPT ![links[l].server][l] =
                    <<Line("AUTH", links[l].client, NoBot)>>]
    /\ UNCHANGED <<stage, tree, sendQ, breaks, disconns>>

\* an end fails: the connection is refused or times out
Break(b, l) ==
    /\ breaks < world.breaks
    /\ l \in Mine(b)
    /\ Removal(b, l, Error, TRUE)
    /\ breaks' = breaks + 1
    /\ UNCHANGED disconns

\* postSelect finds the connection closed, or reset with lines unread
Closed(b, l) ==
    /\ l \in Mine(b)
    /\ links[l].up
    /\ l \notin Mine(Peer(b, l))
    /\ Removal(b, l, <<>>, TRUE)
    /\ UNCHANGED <<breaks, disconns>>

-----------------------------------------------------------------------------
(* The lines a bot reads                                                   *)

Reads(b, l, cmd) ==
    /\ l \in Mine(b)
    /\ wire[b][l] # <<>>
    /\ Head(wire[b][l]).cmd = cmd

Unread(b, l) == [wire[b] EXCEPT ![l] = Tail(@)]

\* onAuth: the tree has its root; the server answers, the client relays its
\* botnet and then the BOTJOIN without parameters
RecvAuth(b, l) ==
    /\ Reads(b, l, "AUTH")
    /\ stage[b][l] = "INIT"
    /\ stage' = [stage EXCEPT ![b][l] = "AUTHED"]
    /\ tree' = [tree EXCEPT ![b][l].root = Head(wire[b][l]).from]
    /\ LET answer == IF IsServer(b, l) THEN <<Line("AUTH", b, NoBot)>> ELSE Burst(b, l)
       IN  Wires(b, Unread(b, l), [k \in LinkIds |-> IF k = l THEN answer ELSE <<>>])
    /\ UNCHANGED <<links, conns, sendQ, breaks, disconns>>

\* onBotJoin without parameters: the new bot is announced on the other links;
\* the server relays its botnet; what was queued is flushed
RecvSync(b, l) ==
    /\ Reads(b, l, "SYNC")
    /\ stage' = [stage EXCEPT ![b][l] = "READY"]
    /\ LET join == Line("JOIN", b, Peer(b, l))
           answer == IF IsServer(b, l) THEN Burst(b, l) ELSE <<>>
       IN  /\ Wires(b, Unread(b, l),
                    [Relayed(b, Others(b, l), join) EXCEPT ![l] = answer \o sendQ[b][l]])
           /\ sendQ' = [sendQ EXCEPT ![b] =
                            [Queued(b, Others(b, l), join) EXCEPT ![l] = <<>>]]
    /\ UNCHANGED <<links, conns, tree, breaks, disconns>>

\* onBotJoin: a new bot is put in the tree and announced on the other links
RecvJoin(b, l) ==
    /\ Reads(b, l, "JOIN")
    /\ LET line == Head(wire[b][l])
       IN  /\ ~IsConnected(b, line.node)
           /\ tree' = [tree EXCEPT ![b][l] = Grafted(@, line.from, line.node)]
           /\ Wires(b, Unread(b, l), Relayed(b, Others(b, l), line))
           /\ sendQ' = [sendQ EXCEPT ![b] = Queued(b, Others(b, l), line)]
    /\ UNCHANGED <<links, conns, stage, breaks, disconns>>

\* A slip Forest must notice: the line is ignored, and the link stays
JoinIgnored(b, l) ==
    /\ Reads(b, l, "JOIN")
    /\ IsConnected(b, Head(wire[b][l]).node)
    /\ Wires(b, Unread(b, l), [k \in LinkIds |-> <<>>])
    /\ UNCHANGED <<links, conns, stage, tree, sendQ, breaks, disconns>>

\* ... but a bot that is in a tree already ends the link
RefuseJoin(b, l) ==
    /\ Reads(b, l, "JOIN")
    /\ IsConnected(b, Head(wire[b][l]).node)
    /\ Removal(b, l, Error, TRUE)
    /\ UNCHANGED <<breaks, disconns>>

\* A slip Settles must notice: the BOTPART also goes back where it came from
RecvPartEchoed(b, l) ==
    /\ Reads(b, l, "PART")
    /\ Ready(b, l)
    /\ LET line == Head(wire[b][l])
       IN  /\ tree' = [tree EXCEPT ![b][l] = Pruned(@, line.node)]
           /\ Wires(b, Unread(b, l), Relayed(b, Mine(b), line))
           /\ sendQ' = [sendQ EXCEPT ![b] = Queued(b, Mine(b), line)]
    /\ UNCHANGED <<links, conns, stage, breaks, disconns>>

\* onBotPart: taken out of this link's tree, and announced on the other links
\* whether it was there or not
RecvPart(b, l) ==
    /\ Reads(b, l, "PART")
    /\ Ready(b, l)
    /\ LET line == Head(wire[b][l])
       IN  /\ tree' = [tree EXCEPT ![b][l] = Pruned(@, line.node)]
           /\ Wires(b, Unread(b, l), Relayed(b, Others(b, l), line))
           /\ sendQ' = [sendQ EXCEPT ![b] = Queued(b, Others(b, l), line)]
    /\ UNCHANGED <<links, conns, stage, breaks, disconns>>

\* onError
RecvError(b, l) ==
    /\ Reads(b, l, "ERROR")
    /\ Removal(b, l, <<>>, TRUE)
    /\ UNCHANGED <<breaks, disconns>>

Recv(b, l) ==
    \/ RecvAuth(b, l) \/ RecvSync(b, l) \/ RecvJoin(b, l) \/ RefuseJoin(b, l)
    \/ RecvPart(b, l) \/ RecvError(b, l)

Next ==
    /\ \/ \E b, c \in Bots : Conn(b, c) \/ Disconn(b, c)
       \/ \E l \in LinkIds : Accept(l)
       \/ \E b \in Bots, l \in LinkIds : Break(b, l) \/ Closed(b, l) \/ Recv(b, l)
    /\ UNCHANGED world

Spec == Init /\ [][Next]_vars

\* The main loop serves its sockets: while something that was written is
\* unread, a link that was dialled is not accepted or a closed connection is
\* not noticed, some bot's loop goes on.  (Which socket it takes is left open.)
Serve ==
    \/ \E l \in LinkIds : Accept(l)
    \/ \E b \in Bots, l \in LinkIds : Closed(b, l) \/ Recv(b, l)

FairSpec == Spec /\ WF_state(Serve)

-----------------------------------------------------------------------------
(* Properties                                                              *)

\* A link both of whose ends are READY
Linked(l) ==
    LET c == links[l].client
        s == links[l].server
    IN  l \in Mine(c) /\ l \in Mine(s) /\ Ready(c, l) /\ Ready(s, l)

\* Nothing is in flight: every link is READY at both ends or gone from both
Quiet ==
    /\ \A b \in Bots : \A l \in LinkIds : wire[b][l] = <<>>
    /\ \A b \in Bots : \A l \in Mine(b) : Linked(l)

\* The bots that b can reach over the links in L, b included
Reach(b, L) ==
    LET edges == {<<links[l].client, links[l].server>> : l \in L}
    IN  Below(edges \union {<<e[2], e[1]>> : e \in edges}, b)

LinkedIds == {l \in 1 .. Len(links) : Linked(l)}
Component(b) == Reach(b, LinkedIds)

\* What .links shows at b, b itself excepted
Listed(b) == UNION {Nodes(tree[b][l]) : l \in Mine(b)}

\* Operators wait before they dial again, and links end by failing only
\* (.disconn does not tell the others, and what it leaves behind stays)
Steady == world.patient /\ world.disconns = 0

\* Once the network is quiet every bot lists exactly the bots it is linked
\* with, directly or not, however the links came up and failed meanwhile.
\* True of three bots: with more, a BOTJOIN may come before the one of the bot
\* it names as its way, which is then grafted nowhere.
ViewsAgree ==
    Quiet /\ Steady /\ Cardinality(UNION {{e[1], e[2]} : e \in world.dialable}) <= 3
        => \A b \in Bots : Listed(b) = Component(b) \ {b}

\* Once the network is quiet no bot lists one it has no route to: whatever
\* was relayed about a link that failed has been taken back everywhere.
\* (With four bots that may all dial one another it is not: a BOTJOIN that waited for
\* a handshake may be delivered after the BOTPART that takes it back.)
NoPhantom == Quiet /\ Steady => \A b \in Bots : Listed(b) \subseteq Component(b) \ {b}

\* Once the network is quiet its links are a forest: links dialled at the
\* same time from different ends of the network, each acceptable to the bots
\* at its ends, never close a ring (in which a BOTPART would go round for ever).
Forest == Quiet => \A l \in LinkedIds :
            links[l].server \notin Reach(links[l].client, LinkedIds \ {l})

\* The exchange of BOTJOIN and BOTPART always dies out.
Settles == <>[]Quiet
=============================================================================
