----------------------------- MODULE RemoteLink -----------------------------
(***************************************************************************)
(* One TCP link of the botnet: the two Remote objects at its ends (the bot *)
(* that dialled, "client", and the bot that accepted, "server"), the       *)
(* handshake of Remote::onRead .. Remote::onBotJoin, and the queue sendQ_  *)
(* that holds back ordinary commands until the link is READY.              *)
(*                                                                         *)
(* Lines are records: cmd is "VERSION", "AUTH", "JOIN" (a BOTJOIN with a   *)
(* node, written by sendMyBotNet), "SYNC" (the BOTJOIN without parameters  *)
(* that ends it), "ERROR", or "NORMAL": any command written by             *)
(* sendCommand with queue = true, numbered in the order the bot issued it. *)
(* Both bots run this program with compatible versions; a password, a host *)
(* mask or a duplicate bot may still be refused at either end.             *)
(***************************************************************************)
EXTENDS Naturals, Sequences

CONSTANTS
    MaxSends,   \* ordinary commands each bot issues (bound of the model)
    MaxBurst    \* BOTJOIN lines sendMyBotNet may write (bound of the model)

ASSUME BoundsAssumption == MaxSends \in Nat /\ MaxBurst \in Nat

VARIABLES
    phase,      \* the BotSock: not created, connecting, connected, destroyed
    stage,      \* Remote::stage_
    auth,       \* is "AUTH" still in Remote::commands?
    sendQ,      \* Remote::sendQ_
    wire,       \* wire[x]: the lines written to x that x has not read
    sent,       \* sent[x]: ordinary commands x has issued on this link
    got         \* got[x]: the ordinary commands x has processed, by number

vars == <<phase, stage, auth, sendQ, wire, sent, got>>

Sides == {"client", "server"}
Peer(x) == IF x = "client" THEN "server" ELSE "client"

Phases == {"none", "connecting", "open", "closed"}
Stages == {"INIT", "GOODVERSION", "AUTHED", "READY"}
Commands == {"VERSION", "AUTH", "JOIN", "SYNC", "ERROR", "NORMAL"}
Line == [cmd : Commands, num : Nat]
Ordinary == [cmd : {"NORMAL"}, num : Nat]

Control(c) == [cmd |-> c, num |-> 0]
Normal(k) == [cmd |-> "NORMAL", num |-> k]

\* Types; sendQ_ holds ordinary commands only, since the handshake, the botnet
\* burst and ERROR call sendCommand with queue = false
TypeOK ==
    /\ phase \in [Sides -> Phases]
    /\ stage \in [Sides -> Stages]
    /\ auth \in [Sides -> BOOLEAN]
    /\ sendQ \in [Sides -> Seq(Ordinary)]
    /\ wire \in [Sides -> Seq(Line)]
    /\ sent \in [Sides -> Nat]
    /\ got \in [Sides -> Seq(Nat)]

Init ==
    /\ phase = [x \in Sides |-> "none"]
    /\ stage = [x \in Sides |-> "INIT"]
    /\ auth = [x \in Sides |-> TRUE]
    /\ sendQ = [x \in Sides |-> <<>>]
    /\ wire = [x \in Sides |-> <<>>]
    /\ sent = [x \in Sides |-> 0]
    /\ got = [x \in Sides |-> <<>>]

-----------------------------------------------------------------------------
(* What x reads (tail of its own wire) and writes in one step.  A line     *)
(* written to a bot that has destroyed its socket is lost: the result of   *)
(* ::write is ignored and SIGPIPE is ignored.                              *)

Arrives(y, lines) == IF phase[y] = "closed" THEN <<>> ELSE wire[y] \o lines

\* x writes lines without reading one
Writes(x, lines) ==
    wire' = [wire EXCEPT ![Peer(x)] = Arrives(Peer(x), lines)]

\* x consumes its next line and writes lines
ReadsAndWrites(x, lines) ==
    wire' = [wire EXCEPT ![x] = Tail(@), ![Peer(x)] = Arrives(Peer(x), lines)]

\* the Remote is removed from connections_: its socket and queue are gone
Removed(x, lines) ==
    /\ phase' = [phase EXCEPT ![x] = "closed"]
    /\ sendQ' = [sendQ EXCEPT ![x] = <<>>]
    /\ wire' = [wire EXCEPT ![x] = <<>>,
                            ![Peer(x)] = Arrives(Peer(x), lines)]
    /\ UNCHANGED <<stage, auth, sent, got>>

\* the handler called sendError, which bypasses the queue, and returned false
Refuse(x) == Removed(x, <<Control("ERROR")>>)

\* A slip LinkComesUp must notice: nothing is written for an empty botnet
BurstUnlessEmpty(n) ==
    IF n = 0 THEN <<>> ELSE [i \in 1 .. n |-> Control("JOIN")] \o <<Control("SYNC")>>

\* sendMyBotNet: one BOTJOIN per known link, then BOTJOIN without parameters
Burst(n) == [i \in 1 .. n |-> Control("JOIN")] \o <<Control("SYNC")>>

-----------------------------------------------------------------------------
(* Connection set-up and tear-down                                         *)

\* RemoteList::connect: the object is created and listed before TCP connects
Dial ==
    /\ phase["client"] = "none"
    /\ phase' = [phase EXCEPT !["client"] = "connecting"]
    /\ UNCHANGED <<stage, auth, sendQ, wire, sent, got>>

\* BotSock::postSelect finds the socket writable: Remote::onConnect
ClientConnected ==
    /\ phase["client"] = "connecting"
    /\ phase' = [phase EXCEPT !["client"] = "open"]
    /\ Writes("client", <<Control("VERSION")>>)
    /\ UNCHANGED <<stage, auth, sendQ, sent, got>>

\* the connection is refused, or onConnect finds the host unauthorized
ClientConnectFails ==
    /\ phase["client"] = "connecting"
    /\ Removed("client", <<>>)

\* RemoteList::ListenProcess accepts; onConnect authorizes the host
Accept ==
    /\ phase["server"] = "none"
    /\ phase["client"] \in {"connecting", "open"}
    /\ phase' = [phase EXCEPT !["server"] = "open"]
    /\ UNCHANGED <<stage, auth, sendQ, wire, sent, got>>

\* ... or does not, and the socket is closed at once
AcceptRefused ==
    /\ phase["server"] = "none"
    /\ phase["client"] \in {"connecting", "open"}
    /\ Removed("server", <<>>)

\* postSelect reads end-of-file once every line has been read
Eof(x) ==
    /\ phase[x] = "open"
    /\ phase[Peer(x)] = "closed"
    /\ wire[x] = <<>>
    /\ Removed(x, <<>>)

\* the peer's reset discards what had not been read yet
ConnectionReset(x) ==
    /\ phase[x] = "open"
    /\ phase[Peer(x)] = "closed"
    /\ Removed(x, <<>>)

\* timeout_error: RemoteProcess sends an ERROR and removes the bot
Timeout(x) ==
    /\ phase[x] = "open"
    /\ Refuse(x)

\* cmdDisconn: findBot only sees a bot whose handle onAuth has set
Disconn(x) ==
    /\ phase[x] = "open"
    /\ stage[x] \in {"AUTHED", "READY"}
    /\ Removed(x, <<>>)

-----------------------------------------------------------------------------
(* Commands                                                                *)

\* Slips: commands are written once the peer is authenticated; a command that
\* must wait is put at the front of the queue; it replaces the queue
WritesNowOnceAuthed(x) ==
    IF stage[x] \in {"AUTHED", "READY"} THEN <<Normal(sent[x] + 1)>> ELSE <<>>
QueueAfterAtFront(x) == IF stage[x] = "READY" THEN sendQ[x]
                                              ELSE <<Normal(sent[x] + 1)>> \o sendQ[x]
QueueAfterReplaced(x) == IF stage[x] = "READY" THEN sendQ[x]
                                               ELSE <<Normal(sent[x] + 1)>>

\* sendCommand(..., queue = true): the lines x writes now for an ordinary
\* command, and its queue afterwards
WritesNow(x) == IF stage[x] = "READY" THEN <<Normal(sent[x] + 1)>> ELSE <<>>
QueueAfter(x) == IF stage[x] = "READY" THEN sendQ[x]
                                       ELSE Append(sendQ[x], Normal(sent[x] + 1))

Issues(x) ==
    /\ sent[x] < MaxSends
    /\ sent' = [sent EXCEPT ![x] = @ + 1]
    /\ sendQ' = [sendQ EXCEPT ![x] = QueueAfter(x)]

\* a client, another link or a timer makes x issue an ordinary command
SendCommand(x) ==
    /\ phase[x] \in {"connecting", "open"}
    /\ Issues(x)
    /\ Writes(x, WritesNow(x))
    /\ UNCHANGED <<phase, stage, auth, got>>

\* the next line x reads is a cmd
Reads(x, cmd) ==
    /\ phase[x] = "open"
    /\ wire[x] # <<>>
    /\ Head(wire[x]).cmd = cmd

\* onRead, STAGE_INIT, compatible version: the client answers with AUTH,
\* the server with its own version
RecvVersion(x) ==
    /\ Reads(x, "VERSION")
    /\ stage[x] = "INIT"
    /\ ReadsAndWrites(x, IF x = "client" THEN <<Control("AUTH")>>
                                         ELSE <<Control("VERSION")>>)
    /\ stage' = [stage EXCEPT ![x] = "GOODVERSION"]
    /\ UNCHANGED <<phase, auth, sendQ, sent, got>>

\* onRead, STAGE_INIT: another version, or not a version at all
RecvIncompatible(x) ==
    /\ \E c \in Commands : Reads(x, c)
    /\ stage[x] = "INIT"
    /\ Refuse(x)

\* Slips: the client's burst goes through the queue; the client takes the link
\* for READY when it has authenticated the server
RecvAuthBurstQueued(x) ==
    /\ Reads(x, "AUTH")
    /\ stage[x] # "INIT"
    /\ auth[x]
    /\ stage' = [stage EXCEPT ![x] = "AUTHED"]
    /\ auth' = [auth EXCEPT ![x] = FALSE]
    /\ ReadsAndWrites(x, IF x = "server" THEN <<Control("AUTH")>> ELSE <<>>)
    /\ sendQ' = IF x = "server" THEN sendQ ELSE [sendQ EXCEPT ![x] = @ \o Burst(0)]
    /\ UNCHANGED <<phase, sent, got>>
RecvAuthReady(x) ==
    /\ Reads(x, "AUTH")
    /\ stage[x] # "INIT"
    /\ auth[x]
    /\ stage' = [stage EXCEPT ![x] = IF x = "server" THEN "AUTHED" ELSE "READY"]
    /\ auth' = [auth EXCEPT ![x] = FALSE]
    /\ ReadsAndWrites(x, IF x = "server" THEN <<Control("AUTH")>> ELSE Burst(0))
    /\ UNCHANGED <<phase, sendQ, sent, got>>

\* onAuth, accepted: the server answers AUTH, the client relays its botnet
RecvAuth(x) ==
    /\ Reads(x, "AUTH")
    /\ stage[x] # "INIT"
    /\ auth[x]
    /\ stage' = [stage EXCEPT ![x] = "AUTHED"]
    /\ auth' = [auth EXCEPT ![x] = FALSE]
    /\ \/ x = "server" /\ ReadsAndWrites(x, <<Control("AUTH")>>)
       \/ /\ x = "client"
          /\ \E n \in 0 .. MaxBurst : ReadsAndWrites(x, Burst(n))
    /\ UNCHANGED <<phase, sendQ, sent, got>>

\* onBotJoin with a node: linked below the peer and relayed to other links
RecvJoin(x) ==
    /\ Reads(x, "JOIN")
    /\ stage[x] # "INIT"
    /\ ReadsAndWrites(x, <<>>)
    /\ UNCHANGED <<phase, stage, auth, sendQ, sent, got>>

\* onBotJoin without parameters: READY; the server relays its botnet; then
\* the queue is flushed
RecvSync(x) ==
    /\ Reads(x, "SYNC")
    /\ stage[x] # "INIT"
    /\ stage' = [stage EXCEPT ![x] = "READY"]
    /\ \/ x = "client" /\ ReadsAndWrites(x, sendQ[x])
       \/ /\ x = "server"
          /\ \E n \in 0 .. MaxBurst : ReadsAndWrites(x, Burst(n) \o sendQ[x])
    /\ sendQ' = [sendQ EXCEPT ![x] = <<>>]
    /\ UNCHANGED <<phase, auth, sent, got>>

\* an ordinary command is handled, without an answer on this link ...
RecvNormal(x) ==
    /\ Reads(x, "NORMAL")
    /\ stage[x] # "INIT"
    /\ got' = [got EXCEPT ![x] = Append(@, Head(wire[x]).num)]
    /\ ReadsAndWrites(x, <<>>)
    /\ UNCHANGED <<phase, stage, auth, sendQ, sent>>

\* ... or with one: a PONG, or the NOTICE a remote command answers
RecvNormalAnswered(x) ==
    /\ Reads(x, "NORMAL")
    /\ stage[x] # "INIT"
    /\ got' = [got EXCEPT ![x] = Append(@, Head(wire[x]).num)]
    /\ Issues(x)
    /\ ReadsAndWrites(x, WritesNow(x))
    /\ UNCHANGED <<phase, stage, auth>>

\* any handler after INIT may refuse its line: an unknown command (a second
\* version, AUTH once unregistered, BOTPART before READY), a wrong password,
\* a bot that is already connected, a syntax error
RecvRefused(x) ==
    /\ \E c \in Commands \ {"SYNC", "ERROR"} : Reads(x, c)
    /\ stage[x] # "INIT"
    /\ Refuse(x)

\* onError: log and return false
RecvError(x) ==
    /\ Reads(x, "ERROR")
    /\ stage[x] # "INIT"
    /\ Removed(x, <<>>)

\* one pass of BotSock::postSelect over a readable socket
Recv(x) ==
    \/ RecvVersion(x) \/ RecvIncompatible(x) \/ RecvAuth(x)
    \/ RecvJoin(x) \/ RecvSync(x)
    \/ RecvNormal(x) \/ RecvNormalAnswered(x)
    \/ RecvRefused(x) \/ RecvError(x)

Next ==
    \/ Dial \/ ClientConnected \/ ClientConnectFails
    \/ Accept \/ AcceptRefused
    \/ \E x \in Sides :
        \/ Eof(x) \/ ConnectionReset(x) \/ Timeout(x) \/ Disconn(x)
        \/ SendCommand(x) \/ Recv(x)

Spec == Init /\ [][Next]_vars

\* The main loop selects on every socket and calls postSelect on each pass:
\* a pending connection or a pending line is handled eventually.
Fairness ==
    /\ WF_vars(ClientConnected \/ ClientConnectFails)
    /\ WF_vars(Accept \/ AcceptRefused)
    /\ \A x \in Sides : WF_vars(Recv(x))

FairSpec == Spec /\ Fairness

-----------------------------------------------------------------------------
(* Properties                                                              *)

\* The stage at which a line may be read without being refused
StageFor(c) ==
    CASE c = "VERSION" -> {"INIT"}
      [] c = "AUTH" -> {"GOODVERSION"}
      [] c \in {"JOIN", "SYNC"} -> {"AUTHED"}
      [] c = "NORMAL" -> {"READY"}
      [] c = "ERROR" -> Stages

\* remote.h's comment on the stages: a line only ever meets the stage it is
\* meant for.  No ordinary command, written directly or flushed from sendQ_,
\* is read by a bot that has not yet been sent the whole botnet, and the
\* handshake between two correct bots never runs into parse's unknown command.
LinesMeetTheirStage ==
    \A x \in Sides :
        phase[x] = "open" /\ wire[x] # <<>>
            => stage[x] \in StageFor(Head(wire[x]).cmd)

\* READY at the dialling bot comes after READY at the accepting bot, and
\* neither is READY before both have authenticated each other.
ReadyInTurn ==
    /\ stage["client"] = "READY" => stage["server"] = "READY"
    /\ (\E x \in Sides : stage[x] = "READY") => \A y \in Sides : ~auth[y]

\* Seen from sendCommand, the link is a pair of FIFO channels that open in
\* turn: the commands a bot processes are exactly the first ones its peer
\* issued, in that order and once each, across the change from sendQ_ to
\* direct writes, and a command is only processed when both ends are READY.
Fifo == INSTANCE FifoLink WITH ready <- [x \in Sides |-> stage[x] = "READY"]
ImplementsFifo == Fifo!Spec

LinkEnded == \E x \in Sides : phase[x] = "closed"

\* The handshake cannot stall: once dialled, the link is READY at both ends
\* or one end has closed it.
LinkComesUp ==
    phase["client"] = "connecting"
        ~> (LinkEnded \/ \A x \in Sides : stage[x] = "READY")

\* A command issued at any moment of the handshake or after it is processed
\* by the peer unless the link ends.
CommandsArrive ==
    \A x \in Sides : \A k \in 1 .. MaxSends :
        sent[x] >= k ~> (LinkEnded \/ Len(got[Peer(x)]) >= k)

-----------------------------------------------------------------------------
(* The inductive invariant: the handshake is strictly alternating, so that *)
(* the pair of stages says what each wire holds, and the ordinary commands *)
(* on a wire and in a queue are numbered without a gap.                    *)

\* The pairs of stages the handshake goes through
Handshake ==
    <<stage["client"], stage["server"]>> \in
        {<<"INIT", "INIT">>, <<"INIT", "GOODVERSION">>,
         <<"GOODVERSION", "GOODVERSION">>, <<"GOODVERSION", "AUTHED">>,
         <<"AUTHED", "AUTHED">>, <<"AUTHED", "READY">>, <<"READY", "READY">>}

\* AUTH is registered until the peer has authenticated itself
AuthOnce == \A x \in Sides : auth[x] <=> stage[x] \in {"INIT", "GOODVERSION"}

\* Nothing is exchanged before the client's connection is made
NotYetOpen ==
    phase["client"] \in {"none", "connecting"} =>
        /\ stage["client"] = "INIT" /\ stage["server"] = "INIT"
        /\ wire["server"] = <<>>

\* A closed end holds nothing
Gone == \A x \in Sides : phase[x] = "closed" => wire[x] = <<>> /\ sendQ[x] = <<>>

\* The stages of both ends while a line c is on the wire to x
StagesNow(c, s) == stage["client"] = c /\ stage["server"] = s

OnServerWire(c) ==
    /\ c = "VERSION" => StagesNow("INIT", "INIT")
    /\ c = "AUTH" => StagesNow("GOODVERSION", "GOODVERSION")
    /\ c \in {"JOIN", "SYNC"} => StagesNow("AUTHED", "AUTHED")
    /\ c = "NORMAL" => StagesNow("READY", "READY")
    /\ c = "ERROR" => phase["client"] = "closed"

OnClientWire(c) ==
    /\ c = "VERSION" => StagesNow("INIT", "GOODVERSION")
    /\ c = "AUTH" => StagesNow("GOODVERSION", "AUTHED")
    /\ c \in {"JOIN", "SYNC"} => StagesNow("AUTHED", "READY")
    /\ c = "NORMAL" => stage["server"] = "READY"
    /\ c = "ERROR" => phase["server"] = "closed"

OnWire(x, c) == IF x = "server" THEN OnServerWire(c) ELSE OnClientWire(c)

SyncBefore(x, i) == \E j \in 1 .. i - 1 : wire[x][j].cmd = "SYNC"

\* Line i on the wire to x is in its place: only the BOTJOINs of a burst are
\* followed by another handshake line, an ordinary command is behind the end
\* of the burst if that has not been read, and its number follows those that
\* have been processed.
InPlace(x, i) ==
    /\ OnWire(x, wire[x][i].cmd)
    /\ \A j \in 1 .. i - 1 :
        wire[x][j].cmd = "JOIN" \/ wire[x][i].cmd \in {"NORMAL", "ERROR"}
    /\ wire[x][i].cmd = "NORMAL" =>
        /\ stage[x] # "READY" => SyncBefore(x, i)
        /\ stage[x] = "READY" => wire[x][i].num = Len(got[x]) + i
        /\ \A j \in 1 .. i - 1 :
            wire[x][j].cmd = "SYNC" => wire[x][i].num = Len(got[x]) + i - j
        /\ wire[x][i].num <= sent[Peer(x)]

\* While both ends are there and the peer is READY, the wire holds the
\* commands up to the last one issued; x is READY or has the end of the
\* burst still to read.
Complete(x) ==
    stage[Peer(x)] = "READY" /\ phase[x] # "closed" /\ phase[Peer(x)] # "closed" =>
        /\ stage[x] = "READY" => Len(wire[x]) + Len(got[x]) = sent[Peer(x)]
        /\ \A j \in 1 .. Len(wire[x]) :
            wire[x][j].cmd = "SYNC"
                => Len(wire[x]) - j + Len(got[x]) = sent[Peer(x)]

SyncOnItsWay(x) ==
    stage[Peer(x)] = "READY" =>
        \/ stage[x] = "READY" \/ phase[x] = "closed"
        \/ SyncBefore(x, Len(wire[x]) + 1)

\* The peer's queue holds every command it has issued, until it is READY
Queued(y) ==
    /\ stage[y] = "READY" => sendQ[y] = <<>>
    /\ stage[y] # "READY" /\ phase[y] # "closed" => Len(sendQ[y]) = sent[y]
    /\ \A i \in 1 .. Len(sendQ[y]) : sendQ[y][i].num = i

GotInOrder(x) ==
    /\ stage[Peer(x)] # "READY" => got[x] = <<>>
    /\ Len(got[x]) <= sent[Peer(x)]
    /\ \A i \in 1 .. Len(got[x]) : got[x][i] = i

\* The direction towards x
Channel(x) ==
    /\ \A i \in 1 .. Len(wire[x]) : InPlace(x, i)
    /\ Complete(x)
    /\ SyncOnItsWay(x)
    /\ Queued(Peer(x))
    /\ GotInOrder(x)

IInv ==
    /\ TypeOK /\ Handshake /\ AuthOnce /\ NotYetOpen /\ Gone
    /\ \A x \in Sides : Channel(x)
=============================================================================
