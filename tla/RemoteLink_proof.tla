-------------------------- MODULE RemoteLink_proof --------------------------
(***************************************************************************)
(* Proofs about one botnet link, for any number of commands and any length *)
(* of burst: the type invariant, the inductive invariant IInv, the stage   *)
(* discipline of the handshake, and the refinement of FifoLink.            *)
(***************************************************************************)
EXTENDS RemoteLink, SequenceTheorems, TLAPS

-----------------------------------------------------------------------------
(* Facts about lines and wires                                             *)

\* Each side has another one
LEMMA PeerFacts ==
    ASSUME NEW x \in Sides
    PROVE  /\ Peer(x) \in Sides
           /\ Peer(x) # x
           /\ Peer(Peer(x)) = x
           /\ Sides = {x, Peer(x)}
BY DEF Sides, Peer

\* The lines a bot writes are lines
LEMMA LineTypes ==
    /\ \A c \in Commands : /\ Control(c) \in Line /\ Control(c).cmd = c
                           /\ <<Control(c)>> \in Seq(Line)
    /\ \A k \in Nat : /\ Normal(k) \in Line /\ Normal(k) \in Ordinary
                      /\ Normal(k).cmd = "NORMAL" /\ Normal(k).num = k
    /\ \A s \in Seq(Ordinary) : s \in Seq(Line)
<1>1. Ordinary \subseteq Line
  BY DEF Ordinary, Line, Commands
<1>2. \A s \in Seq(Ordinary) : s \in Seq(Line)
  BY <1>1, SeqMonotonic
<1> QED
  BY <1>2 DEF Control, Normal, Line, Ordinary, Commands

\* A burst is n BOTJOIN lines and the empty BOTJOIN
LEMMA BurstFacts ==
    ASSUME NEW n \in Nat
    PROVE  /\ Burst(n) \in Seq(Line)
           /\ Len(Burst(n)) = n + 1
           /\ \A i \in 1 .. n : Burst(n)[i].cmd = "JOIN"
           /\ Burst(n)[n + 1].cmd = "SYNC"
<1> DEFINE joins == [i \in 1 .. n |-> Control("JOIN")]
           last == <<Control("SYNC")>>
<1>1. Control("JOIN") \in Line /\ Control("SYNC") \in Line
  BY LineTypes DEF Commands
<1>2. joins \in Seq(Line) /\ Len(joins) = n
  BY <1>1, IsASeq
<1>3. last \in Seq(Line) /\ Len(last) = 1 /\ last[1] = Control("SYNC")
  BY <1>1
<1>4. /\ joins \o last \in Seq(Line)
      /\ Len(joins \o last) = n + 1
      /\ \A i \in 1 .. n + 1 : (joins \o last)[i] =
                    IF i <= n THEN joins[i] ELSE last[i - n]
  <2> HIDE DEF joins, last
  <2>1. /\ joins \o last \in Seq(Line)
        /\ Len(joins \o last) = Len(joins) + Len(last)
        /\ \A i \in 1 .. Len(joins) + Len(last) : (joins \o last)[i] =
                     IF i <= Len(joins) THEN joins[i] ELSE last[i - Len(joins)]
    BY <1>2, <1>3, ConcatProperties, Zenon
  <2> QED BY <2>1, <1>2, <1>3
<1>5. Burst(n) = joins \o last
  BY DEF Burst
<1>6. \A i \in 1 .. n : joins[i].cmd = "JOIN"
  BY LineTypes DEF Commands
<1>7. last[1].cmd = "SYNC"
  BY <1>3, LineTypes DEF Commands
<1> QED
  <2> HIDE DEF joins, last
  <2> QED BY <1>4, <1>5, <1>6, <1>7

\* Lines written behind other lines
LEMMA ConcatLines ==
    ASSUME NEW s \in Seq(Line), NEW t \in Seq(Line)
    PROVE  /\ s \o t \in Seq(Line)
           /\ Len(s \o t) = Len(s) + Len(t)
           /\ \A i \in 1 .. Len(s) + Len(t) : (s \o t)[i] =
                 IF i <= Len(s) THEN s[i] ELSE t[i - Len(s)]
BY ConcatProperties

\* What is written to a bot arrives behind what it has not read, or is lost
LEMMA ArrivesFacts ==
    ASSUME TypeOK, NEW y \in Sides, NEW lines \in Seq(Line)
    PROVE  /\ Arrives(y, lines) \in Seq(Line)
           /\ phase[y] = "closed" => Arrives(y, lines) = <<>>
           /\ phase[y] # "closed" =>
                /\ Len(Arrives(y, lines)) = Len(wire[y]) + Len(lines)
                /\ \A i \in 1 .. Len(wire[y]) : Arrives(y, lines)[i] = wire[y][i]
                /\ \A i \in 1 .. Len(lines) :
                    Arrives(y, lines)[Len(wire[y]) + i] = lines[i]
<1>1. wire[y] \in Seq(Line)
  BY DEF TypeOK
<1>2. CASE phase[y] = "closed"
  BY <1>2, EmptySeq DEF Arrives
<1>3. CASE phase[y] # "closed"
  <2>1. Arrives(y, lines) = wire[y] \o lines
    BY <1>3 DEF Arrives
  <2>2. /\ wire[y] \o lines \in Seq(Line)
        /\ Len(wire[y] \o lines) = Len(wire[y]) + Len(lines)
        /\ \A i \in 1 .. Len(wire[y]) + Len(lines) : (wire[y] \o lines)[i] =
                     IF i <= Len(wire[y]) THEN wire[y][i] ELSE lines[i - Len(wire[y])]
    BY <1>1, ConcatProperties
  <2>3. Len(wire[y]) \in Nat /\ Len(lines) \in Nat
    BY <1>1, LenProperties
  <2>4. \A i \in 1 .. Len(wire[y]) : Arrives(y, lines)[i] = wire[y][i]
    BY <2>1, <2>2, <2>3
  <2>5. \A i \in 1 .. Len(lines) : Arrives(y, lines)[Len(wire[y]) + i] = lines[i]
    BY <2>1, <2>2, <2>3
  <2> QED BY <1>3, <2>1, <2>2, <2>4, <2>5
<1> QED BY <1>2, <1>3

\* The effect of each way of using the wires, line by line
LEMMA WritesFacts ==
    ASSUME TypeOK, NEW x \in Sides, NEW lines \in Seq(Line), Writes(x, lines)
    PROVE  /\ wire' \in [Sides -> Seq(Line)]
           /\ wire'[x] = wire[x]
           /\ wire'[Peer(x)] = Arrives(Peer(x), lines)
<1>1. Arrives(Peer(x), lines) \in Seq(Line)
  BY PeerFacts, ArrivesFacts
<1> QED BY <1>1, PeerFacts DEF Writes, TypeOK

LEMMA ReadsAndWritesFacts ==
    ASSUME TypeOK, NEW x \in Sides, NEW lines \in Seq(Line),
           wire[x] # <<>>, ReadsAndWrites(x, lines)
    PROVE  /\ wire' \in [Sides -> Seq(Line)]
           /\ Len(wire[x]) \in Nat \ {0}
           /\ Head(wire[x]) = wire[x][1]
           /\ Head(wire[x]) \in Line
           /\ Head(wire[x]).num \in Nat
           /\ wire'[x] = Tail(wire[x])
           /\ Len(wire'[x]) = Len(wire[x]) - 1
           /\ \A i \in 1 .. Len(wire'[x]) : wire'[x][i] = wire[x][i + 1]
           /\ wire'[Peer(x)] = Arrives(Peer(x), lines)
<1>1. Arrives(Peer(x), lines) \in Seq(Line)
  BY PeerFacts, ArrivesFacts
<1>2. wire[x] \in Seq(Line)
  BY DEF TypeOK
<1>3. /\ Tail(wire[x]) \in Seq(Line)
      /\ Len(Tail(wire[x])) = Len(wire[x]) - 1
      /\ \A i \in 1 .. Len(Tail(wire[x])) : Tail(wire[x])[i] = wire[x][i + 1]
  BY <1>2, HeadTailProperties
<1>4. Len(wire[x]) \in Nat \ {0}
  BY <1>2, EmptySeq
<1>5. Head(wire[x]) = wire[x][1] /\ Head(wire[x]) \in Line
  BY <1>2, <1>4, HeadTailProperties
<1>6. Head(wire[x]).num \in Nat
  BY <1>5 DEF Line
<1>7. wire'[x] = Tail(wire[x]) /\ wire'[Peer(x)] = Arrives(Peer(x), lines)
  BY PeerFacts DEF ReadsAndWrites, TypeOK
<1>8. wire' \in [Sides -> Seq(Line)]
  BY <1>1, <1>3, PeerFacts DEF ReadsAndWrites, TypeOK
<1> QED BY <1>3, <1>4, <1>5, <1>6, <1>7, <1>8

LEMMA RemovedFacts ==
    ASSUME TypeOK, NEW x \in Sides, NEW lines \in Seq(Line), Removed(x, lines)
    PROVE  /\ phase' = [phase EXCEPT ![x] = "closed"]
           /\ sendQ' = [sendQ EXCEPT ![x] = <<>>]
           /\ wire' \in [Sides -> Seq(Line)]
           /\ wire'[x] = <<>>
           /\ wire'[Peer(x)] = Arrives(Peer(x), lines)
           /\ UNCHANGED <<stage, auth, sent, got>>
<1>1. Arrives(Peer(x), lines) \in Seq(Line) /\ <<>> \in Seq(Line)
  BY PeerFacts, ArrivesFacts, EmptySeq
<1> QED BY <1>1, PeerFacts DEF Removed, TypeOK

\* Every way an end is closed is Removed, with or without an ERROR
Ends ==
    \/ ClientConnectFails \/ AcceptRefused
    \/ \E x \in Sides :
        \/ Eof(x) \/ ConnectionReset(x) \/ Timeout(x) \/ Disconn(x)
        \/ RecvIncompatible(x) \/ RecvRefused(x) \/ RecvError(x)

LEMMA EndsRemove ==
    ASSUME Ends
    PROVE  \E x \in Sides : \E lines \in Seq(Line) :
                /\ phase[x] # "closed"
                /\ Removed(x, lines)
                /\ Len(lines) <= 1
                /\ \A i \in 1 .. Len(lines) : lines[i].cmd = "ERROR"
<1> DEFINE Last(lines) ==
                /\ lines \in Seq(Line)
                /\ Len(lines) <= 1
                /\ \A i \in 1 .. Len(lines) : lines[i].cmd = "ERROR"
<1>0. Last(<<>>) /\ Last(<<Control("ERROR")>>)
  <2>1. <<>> \in Seq(Line) /\ Len(<<>>) = 0
    BY EmptySeq
  <2>2. <<Control("ERROR")>> \in Seq(Line) /\ Control("ERROR").cmd = "ERROR"
    BY LineTypes DEF Commands
  <2> QED BY <2>1, <2>2
<1> HIDE DEF Last
<1>1. ClientConnectFails => phase["client"] # "closed" /\ Removed("client", <<>>)
  BY DEF ClientConnectFails
<1>2. AcceptRefused => phase["server"] # "closed" /\ Removed("server", <<>>)
  BY DEF AcceptRefused
<1>3. ASSUME NEW x \in Sides,
             \/ Eof(x) \/ ConnectionReset(x) \/ Timeout(x) \/ Disconn(x)
             \/ RecvIncompatible(x) \/ RecvRefused(x) \/ RecvError(x)
      PROVE  \E lines : phase[x] # "closed" /\ Removed(x, lines) /\ Last(lines)
  BY <1>3, <1>0 DEF Eof, ConnectionReset, Timeout, Disconn, RecvIncompatible,
              RecvRefused, RecvError, Refuse, Reads
<1>4. \E x \in Sides : \E lines :
            phase[x] # "closed" /\ Removed(x, lines) /\ Last(lines)
  <2>1. "client" \in Sides /\ "server" \in Sides
    BY DEF Sides
  <2> QED BY <1>1, <1>2, <1>3, <1>0, <2>1, Zenon DEF Ends
<1> QED BY <1>4 DEF Last

\* Next, with the ways of ending gathered
LEMMA NextCases ==
    ASSUME [Next]_vars
    PROVE  \/ Dial \/ ClientConnected \/ Accept \/ Ends \/ UNCHANGED vars
           \/ \E x \in Sides :
                \/ SendCommand(x) \/ RecvVersion(x) \/ RecvAuth(x) \/ RecvJoin(x)
                \/ RecvSync(x) \/ RecvNormal(x) \/ RecvNormalAnswered(x)
BY DEF Next, Ends, Recv

-----------------------------------------------------------------------------
(* Type correctness                                                        *)

\* An ordinary command may be issued in any state
LEMMA IssuesFacts ==
    ASSUME TypeOK, NEW x \in Sides
    PROVE  /\ sent[x] \in Nat
           /\ WritesNow(x) \in Seq(Line)
           /\ QueueAfter(x) \in Seq(Ordinary)
           /\ stage[x] = "READY" =>
                /\ QueueAfter(x) = sendQ[x]
                /\ WritesNow(x) = <<Normal(sent[x] + 1)>>
                /\ Len(WritesNow(x)) = 1
                /\ WritesNow(x)[1] = Normal(sent[x] + 1)
           /\ stage[x] # "READY" =>
                /\ WritesNow(x) = <<>>
                /\ Len(QueueAfter(x)) = Len(sendQ[x]) + 1
                /\ \A i \in 1 .. Len(sendQ[x]) : QueueAfter(x)[i] = sendQ[x][i]
                /\ QueueAfter(x)[Len(sendQ[x]) + 1] = Normal(sent[x] + 1)
<1>1. sent[x] \in Nat /\ sendQ[x] \in Seq(Ordinary)
  BY DEF TypeOK
<1>2. Normal(sent[x] + 1) \in Line /\ Normal(sent[x] + 1) \in Ordinary
  BY <1>1, LineTypes
<1>3. CASE stage[x] = "READY"
  BY <1>1, <1>2, <1>3 DEF WritesNow, QueueAfter
<1>4. CASE stage[x] # "READY"
  <2>1. /\ QueueAfter(x) = Append(sendQ[x], Normal(sent[x] + 1))
        /\ WritesNow(x) = <<>>
    BY <1>4 DEF WritesNow, QueueAfter
  <2> QED BY <1>1, <1>2, <1>4, <2>1, AppendProperties, EmptySeq
<1> QED BY <1>3, <1>4

\* Every step preserves the types
LEMMA TypingStep ==
    ASSUME TypeOK, [Next]_vars
    PROVE  TypeOK'
<1>1. CASE Dial
  BY <1>1 DEF Dial, TypeOK, Sides, Phases
<1>2. CASE ClientConnected
  <2>1. <<Control("VERSION")>> \in Seq(Line) /\ "client" \in Sides
    BY LineTypes DEF Commands, Sides
  <2>2. wire' \in [Sides -> Seq(Line)]
    BY <1>2, <2>1, WritesFacts DEF ClientConnected
  <2> QED BY <1>2, <2>2 DEF TypeOK, ClientConnected, Phases
<1>3. CASE Accept
  BY <1>3 DEF Accept, TypeOK, Phases
<1>4. CASE Ends
  <2>1. PICK x \in Sides, lines \in Seq(Line) : Removed(x, lines)
    BY <1>4, EndsRemove
  <2>2. <<>> \in Seq(Ordinary)
    BY EmptySeq
  <2> QED BY <2>1, <2>2, RemovedFacts DEF TypeOK, Phases
<1>5. CASE UNCHANGED vars
  BY <1>5 DEF vars, TypeOK
<1>6. ASSUME NEW x \in Sides, SendCommand(x)
      PROVE  TypeOK'
  <2>1. WritesNow(x) \in Seq(Line) /\ Writes(x, WritesNow(x))
    BY <1>6, IssuesFacts DEF SendCommand
  <2>2. wire' \in [Sides -> Seq(Line)]
    BY <2>1, WritesFacts
  <2>3. sent' \in [Sides -> Nat] /\ sendQ' \in [Sides -> Seq(Ordinary)]
    BY <1>6, IssuesFacts DEF SendCommand, Issues, TypeOK
  <2> QED BY <1>6, <2>2, <2>3 DEF TypeOK, SendCommand
<1>7. ASSUME NEW x \in Sides, RecvVersion(x)
      PROVE  TypeOK'
  <2>1. wire[x] # <<>>
    BY <1>7 DEF RecvVersion, Reads
  <2>2. <<Control("AUTH")>> \in Seq(Line) /\ <<Control("VERSION")>> \in Seq(Line)
    BY LineTypes DEF Commands
  <2>3. PICK lines \in Seq(Line) : ReadsAndWrites(x, lines)
    BY <1>7, <2>2, Zenon DEF RecvVersion
  <2>4. wire' \in [Sides -> Seq(Line)]
    BY <2>1, <2>3, ReadsAndWritesFacts
  <2> QED BY <1>7, <2>4 DEF TypeOK, RecvVersion, Stages
<1>8. ASSUME NEW x \in Sides, RecvAuth(x)
      PROVE  TypeOK'
  <2>1. wire[x] # <<>>
    BY <1>8 DEF RecvAuth, Reads
  <2>2. <<Control("AUTH")>> \in Seq(Line)
    BY LineTypes DEF Commands
  <2>3. \A n \in 0 .. MaxBurst : Burst(n) \in Seq(Line)
    BY BurstFacts
  <2>4. PICK lines \in Seq(Line) : ReadsAndWrites(x, lines)
    BY <1>8, <2>2, <2>3, Zenon DEF RecvAuth
  <2>5. wire' \in [Sides -> Seq(Line)]
    BY <2>1, <2>4, ReadsAndWritesFacts
  <2> QED BY <1>8, <2>5 DEF TypeOK, RecvAuth, Stages
<1>9. ASSUME NEW x \in Sides, RecvJoin(x)
      PROVE  TypeOK'
  <2>1. wire[x] # <<>> /\ ReadsAndWrites(x, <<>>)
    BY <1>9 DEF RecvJoin, Reads
  <2>2. wire' \in [Sides -> Seq(Line)]
    BY <2>1, EmptySeq, ReadsAndWritesFacts
  <2> QED BY <1>9, <2>2 DEF TypeOK, RecvJoin
<1>10. ASSUME NEW x \in Sides, RecvSync(x)
       PROVE  TypeOK'
  <2>1. wire[x] # <<>>
    BY <1>10 DEF RecvSync, Reads
  <2>2. sendQ[x] \in Seq(Line)
    BY LineTypes DEF TypeOK
  <2>3. \A n \in 0 .. MaxBurst : Burst(n) \o sendQ[x] \in Seq(Line)
    BY <2>2, BurstFacts, ConcatProperties
  <2>4. PICK lines \in Seq(Line) : ReadsAndWrites(x, lines)
    BY <1>10, <2>2, <2>3, Zenon DEF RecvSync
  <2>5. wire' \in [Sides -> Seq(Line)]
    BY <2>1, <2>4, ReadsAndWritesFacts
  <2>6. <<>> \in Seq(Ordinary)
    BY EmptySeq
  <2> QED BY <1>10, <2>5, <2>6 DEF TypeOK, RecvSync, Stages
<1>11. ASSUME NEW x \in Sides, RecvNormal(x)
       PROVE  TypeOK'
  <2>1. wire[x] # <<>> /\ ReadsAndWrites(x, <<>>)
    BY <1>11 DEF RecvNormal, Reads
  <2>2. wire' \in [Sides -> Seq(Line)]
    BY <2>1, EmptySeq, ReadsAndWritesFacts
  <2>3. Head(wire[x]).num \in Nat
    BY <2>1, EmptySeq, ReadsAndWritesFacts
  <2>4. Append(got[x], Head(wire[x]).num) \in Seq(Nat)
    BY <2>3, AppendProperties DEF TypeOK
  <2> QED BY <1>11, <2>2, <2>4 DEF TypeOK, RecvNormal
<1>12. ASSUME NEW x \in Sides, RecvNormalAnswered(x)
       PROVE  TypeOK'
  <2>1. wire[x] # <<>> /\ ReadsAndWrites(x, WritesNow(x))
    BY <1>12 DEF RecvNormalAnswered, Reads
  <2>2. wire' \in [Sides -> Seq(Line)]
    BY <2>1, IssuesFacts, ReadsAndWritesFacts
  <2>3. Head(wire[x]).num \in Nat
    BY <2>1, IssuesFacts, ReadsAndWritesFacts
  <2>4. Append(got[x], Head(wire[x]).num) \in Seq(Nat)
    BY <2>3, AppendProperties DEF TypeOK
  <2>5. got' \in [Sides -> Seq(Nat)]
    BY <1>12, <2>4 DEF RecvNormalAnswered, TypeOK
  <2>6. sent' \in [Sides -> Nat] /\ sendQ' \in [Sides -> Seq(Ordinary)]
    BY <1>12, IssuesFacts DEF RecvNormalAnswered, Issues, TypeOK
  <2> QED BY <1>12, <2>2, <2>5, <2>6 DEF TypeOK, RecvNormalAnswered
<1> QED
  BY <1>1, <1>2, <1>3, <1>4, <1>5, <1>6, <1>7, <1>8, <1>9, <1>10, <1>11,
     <1>12, NextCases

\* sendQ_ only ever holds ordinary commands, and every variable has its type
THEOREM Typing == Spec => []TypeOK
<1>1. Init => TypeOK
  <2>1. \A S : <<>> \in Seq(S)
    BY EmptySeq
  <2> QED BY <2>1 DEF Init, TypeOK, Phases, Stages
<1>2. TypeOK /\ [Next]_vars => TypeOK'
  BY TypingStep
<1> QED BY <1>1, <1>2, PTL DEF Spec

-----------------------------------------------------------------------------
(* The inductive invariant                                                 *)

\* A direction that a step leaves alone keeps its invariant
LEMMA ChannelKept ==
    ASSUME NEW x \in Sides, Channel(x),
           UNCHANGED stage,
           \A z \in Sides : phase'[z] = "closed" <=> phase[z] = "closed",
           wire'[x] = wire[x], got'[x] = got[x],
           sent'[Peer(x)] = sent[Peer(x)], sendQ'[Peer(x)] = sendQ[Peer(x)]
    PROVE  Channel(x)'
<1>1. Peer(x) \in Sides /\ "client" \in Sides /\ "server" \in Sides
  BY PeerFacts DEF Sides
<1>2. ASSUME NEW i \in 1 .. Len(wire[x])
      PROVE  InPlace(x, i)'
  <2>1. InPlace(x, i)
    BY DEF Channel
  <2>2. SyncBefore(x, i)' <=> SyncBefore(x, i)
    BY DEF SyncBefore
  <2>3. OnWire(x, wire[x][i].cmd)' <=> OnWire(x, wire[x][i].cmd)
    BY <1>1 DEF OnWire, OnServerWire, OnClientWire, StagesNow
  <2> QED BY <2>1, <2>2, <2>3 DEF InPlace
<1>3. Complete(x)'
  BY <1>1 DEF Channel, Complete
<1>4. SyncOnItsWay(x)'
  BY <1>1 DEF Channel, SyncOnItsWay, SyncBefore
<1>5. Queued(Peer(x))'
  BY <1>1 DEF Channel, Queued
<1>6. GotInOrder(x)'
  BY DEF Channel, GotInOrder
<1> QED BY <1>2, <1>3, <1>4, <1>5, <1>6 DEF Channel

\* The end of a wire: what is left of it once an end is closed
LEMMA EndStep ==
    ASSUME IInv, TypeOK', NEW x \in Sides, NEW lines \in Seq(Line),
           phase[x] # "closed", Removed(x, lines),
           Len(lines) <= 1, \A i \in 1 .. Len(lines) : lines[i].cmd = "ERROR"
    PROVE  IInv'
<1>0. /\ TypeOK /\ Handshake /\ AuthOnce /\ NotYetOpen /\ Gone
      /\ \A z \in Sides : Channel(z)
  BY DEF IInv
<1>1. PICK y \in Sides :
        /\ y # x /\ Sides = {x, y} /\ Peer(x) = y /\ Peer(y) = x
        /\ (x = "client" /\ y = "server") \/ (x = "server" /\ y = "client")
  BY PeerFacts DEF Peer, Sides
<1>2. Len(lines) \in Nat
  BY LenProperties
<1>3. /\ phase' = [phase EXCEPT ![x] = "closed"]
      /\ sendQ' = [sendQ EXCEPT ![x] = <<>>]
      /\ wire'[x] = <<>> /\ wire'[y] = Arrives(y, lines)
      /\ UNCHANGED <<stage, auth, sent, got>>
  BY <1>0, <1>1, RemovedFacts
<1>4. /\ phase'[x] = "closed" /\ phase'[y] = phase[y]
      /\ sendQ'[x] = <<>> /\ sendQ'[y] = sendQ[y]
  BY <1>0, <1>1, <1>3 DEF TypeOK
<1>5. wire[x] \in Seq(Line) /\ wire[y] \in Seq(Line) /\ wire'[y] \in Seq(Line)
  BY <1>0, <1>1, <1>3 DEF TypeOK
<1>6. /\ Len(wire[y]) \in Nat /\ Len(wire'[y]) \in Nat
      /\ Len(wire'[x]) = 0 /\ Len(sendQ'[x]) = 0
  BY <1>3, <1>4, <1>5, LenProperties
<1>7. /\ phase[y] = "closed" => wire[y] = <<>> /\ wire'[y] = <<>>
      /\ \A i \in 1 .. Len(wire[y]) :
            i \in 1 .. Len(wire'[y]) /\ wire'[y][i] = wire[y][i]
      /\ \A i \in 1 .. Len(wire'[y]) :
            i \in 1 .. Len(wire[y]) \/ wire'[y][i].cmd = "ERROR"
  <2>1. /\ phase[y] = "closed" => Arrives(y, lines) = <<>>
        /\ phase[y] # "closed" =>
            /\ Len(Arrives(y, lines)) = Len(wire[y]) + Len(lines)
            /\ \A i \in 1 .. Len(wire[y]) : Arrives(y, lines)[i] = wire[y][i]
            /\ \A i \in 1 .. Len(lines) :
                Arrives(y, lines)[Len(wire[y]) + i] = lines[i]
    BY <1>0, ArrivesFacts, Zenon
  <2>2. phase[y] = "closed" => wire[y] = <<>> /\ Len(wire[y]) = 0
    BY <1>0 DEF Gone
  <2>3. CASE phase[y] = "closed"
    BY <2>1, <2>2, <2>3, <1>3
  <2>4. CASE phase[y] # "closed"
    <3>1. /\ Len(wire'[y]) = Len(wire[y]) + Len(lines)
          /\ \A i \in 1 .. Len(wire[y]) : wire'[y][i] = wire[y][i]
          /\ \A i \in 1 .. Len(lines) : wire'[y][Len(wire[y]) + i] = lines[i]
      BY <2>1, <2>4, <1>3
    <3>2. ASSUME NEW i \in 1 .. Len(wire'[y]), ~(i \in 1 .. Len(wire[y]))
          PROVE  wire'[y][i].cmd = "ERROR"
      <4>1. Len(wire'[y]) = Len(wire[y]) + Len(lines)
        BY <3>1
      <4>2. i \in Nat /\ i <= Len(wire'[y]) /\ i > Len(wire[y])
        BY <3>2, <1>6
      <4>3. 1 \in 1 .. Len(lines) /\ i = Len(wire[y]) + 1
        BY <4>1, <4>2, <1>2, <1>6
      <4> QED BY <4>3, <3>1
    <3> QED BY <2>4, <3>1, <3>2, <1>2, <1>6
  <2> QED BY <2>3, <2>4
<1>8. Handshake' /\ AuthOnce'
  BY <1>0, <1>3 DEF Handshake, AuthOnce
<1>9. NotYetOpen'
  BY <1>0, <1>1, <1>3, <1>4 DEF NotYetOpen
<1>10. Gone'
  BY <1>0, <1>1, <1>3, <1>4, <1>7 DEF Gone
<1>11. ASSUME NEW i \in 1 .. Len(wire'[y])
       PROVE  InPlace(y, i)'
  <2>1. CASE i \in 1 .. Len(wire[y])
    <3>1. InPlace(y, i)
      BY <2>1, <1>0 DEF Channel
    <3>2. \A j \in 1 .. i : j \in 1 .. Len(wire[y])
      BY <2>1, <1>6
    <3>3. wire'[y][i] = wire[y][i] /\ \A j \in 1 .. i - 1 : wire'[y][j] = wire[y][j]
      BY <3>2, <2>1, <1>7
    <3>4. SyncBefore(y, i) => SyncBefore(y, i)'
      BY <3>3 DEF SyncBefore
    <3>5. OnWire(y, wire[y][i].cmd) => OnWire(y, wire[y][i].cmd)'
      BY <3>3, <1>1, <1>3, <1>4 DEF OnWire, OnServerWire, OnClientWire, StagesNow
    <3> QED BY <3>1, <3>3, <3>4, <3>5, <1>1, <1>3 DEF InPlace
  <2>2. CASE i \notin 1 .. Len(wire[y])
    <3>1. wire'[y][i].cmd = "ERROR"
      BY <2>2, <1>7
    <3> QED BY <3>1, <1>1, <1>4 DEF InPlace, OnWire, OnServerWire, OnClientWire
  <2> QED BY <2>1, <2>2
<1>12. Channel(y)'
  <2>1. Complete(y)'
    BY <1>1, <1>4 DEF Complete
  <2>2. SyncOnItsWay(y)'
    <3>1. SyncBefore(y, Len(wire[y]) + 1) => SyncBefore(y, Len(wire[y]) + 1)'
      <4>1. \A n \in Nat : \A j \in 1 .. (n + 1) - 1 : j \in 1 .. n
        OBVIOUS
      <4>2. \A n \in Nat : \A j \in 1 .. n : j \in 1 .. (n + 1) - 1
        OBVIOUS
      <4> QED BY <4>1, <4>2, <1>6, <1>7 DEF SyncBefore
    <3> QED BY <3>1, <1>0, <1>1, <1>3, <1>4 DEF Channel, SyncOnItsWay
  <2>3. Queued(Peer(y))'
    BY <1>0, <1>1, <1>3, <1>4, <1>6 DEF Channel, Queued
  <2>4. GotInOrder(y)'
    BY <1>0, <1>1, <1>3 DEF Channel, GotInOrder
  <2> QED BY <1>11, <2>1, <2>2, <2>3, <2>4 DEF Channel
<1>13. Channel(x)'
  <2>1. \A i \in 1 .. Len(wire'[x]) : InPlace(x, i)'
    BY <1>6
  <2>2. Complete(x)' /\ SyncOnItsWay(x)'
    BY <1>1, <1>4 DEF Complete, SyncOnItsWay
  <2>3. Queued(Peer(x))' /\ GotInOrder(x)'
    BY <1>0, <1>1, <1>3, <1>4 DEF Channel, Queued, GotInOrder
  <2> QED BY <2>1, <2>2, <2>3 DEF Channel
<1> QED
  BY <1>1, <1>8, <1>9, <1>10, <1>12, <1>13 DEF IInv

\* The tail of a wire, line by line
LEMMA TailFacts ==
    ASSUME TypeOK, NEW x \in Sides, wire[x] # <<>>, wire'[x] = Tail(wire[x])
    PROVE  /\ Len(wire[x]) \in Nat \ {0}
           /\ 1 \in 1 .. Len(wire[x])
           /\ Head(wire[x]) = wire[x][1]
           /\ Len(wire'[x]) = Len(wire[x]) - 1
           /\ \A i \in 1 .. Len(wire'[x]) :
                /\ i \in Nat \ {0}
                /\ i + 1 \in 1 .. Len(wire[x])
                /\ wire'[x][i] = wire[x][i + 1]
           /\ \A i \in 1 .. Len(wire[x]) :
                i # 1 => i - 1 \in 1 .. Len(wire'[x]) /\ wire'[x][i - 1] = wire[x][i]
<1>1. wire[x] \in Seq(Line)
  BY DEF TypeOK
<1>2. /\ Len(wire'[x]) = Len(wire[x]) - 1
      /\ \A i \in 1 .. Len(wire'[x]) : wire'[x][i] = wire[x][i + 1]
  BY <1>1, HeadTailProperties
<1>3. Len(wire[x]) \in Nat \ {0} /\ 1 \in 1 .. Len(wire[x])
  BY <1>1, EmptySeq
<1>4. Head(wire[x]) = wire[x][1]
  BY <1>1, <1>3
<1>5. \A i \in 1 .. Len(wire'[x]) : i \in Nat \ {0} /\ i + 1 \in 1 .. Len(wire[x])
  BY <1>2, <1>3
<1>6. \A i \in 1 .. Len(wire[x]) :
        i # 1 => i - 1 \in 1 .. Len(wire'[x]) /\ (i - 1) + 1 = i
  BY <1>2, <1>3
<1> QED BY <1>2, <1>3, <1>4, <1>5, <1>6

\* Reading a BOTJOIN of the burst keeps the direction's invariant
LEMMA JoinRead ==
    ASSUME TypeOK, NEW x \in Sides, Channel(x),
           Reads(x, "JOIN"), wire'[x] = Tail(wire[x]),
           UNCHANGED <<phase, stage>>, got'[x] = got[x],
           sent'[Peer(x)] = sent[Peer(x)], sendQ'[Peer(x)] = sendQ[Peer(x)]
    PROVE  Channel(x)'
<1>1. wire[x] # <<>> /\ Head(wire[x]).cmd = "JOIN"
  BY DEF Reads
<1>2. /\ Len(wire[x]) \in Nat \ {0}
      /\ wire[x][1].cmd = "JOIN"
      /\ Len(wire'[x]) = Len(wire[x]) - 1
      /\ \A i \in 1 .. Len(wire'[x]) :
            /\ i \in Nat \ {0}
            /\ i + 1 \in 1 .. Len(wire[x])
            /\ wire'[x][i] = wire[x][i + 1]
      /\ \A i \in 1 .. Len(wire[x]) :
            i # 1 => i - 1 \in 1 .. Len(wire'[x]) /\ wire'[x][i - 1] = wire[x][i]
  BY <1>1, TailFacts
<1>3. stage[x] # "READY"
  <2>1. OnWire(x, "JOIN")
    BY <1>2 DEF Channel, InPlace
  <2> QED BY <2>1 DEF OnWire, OnServerWire, OnClientWire, StagesNow, Sides
<1>4. Len(got[x]) \in Nat
  BY LenProperties DEF TypeOK
<1>5. ASSUME NEW i \in 1 .. Len(wire'[x])
      PROVE  InPlace(x, i)'
  <2>1. InPlace(x, i + 1) /\ wire'[x][i] = wire[x][i + 1]
    BY <1>2 DEF Channel
  <2>2. \A j \in 1 .. i - 1 :
            j + 1 \in 1 .. (i + 1) - 1 /\ wire'[x][j] = wire[x][j + 1]
    BY <1>2
  <2>3. OnWire(x, wire[x][i].cmd)'
    BY <2>1 DEF InPlace, OnWire, OnServerWire, OnClientWire, StagesNow
  <2>4. SyncBefore(x, i + 1) => SyncBefore(x, i)'
    <3>1. ASSUME NEW j \in 1 .. (i + 1) - 1, wire[x][j].cmd = "SYNC"
          PROVE  j - 1 \in 1 .. i - 1 /\ wire'[x][j - 1].cmd = "SYNC"
      <4>1. j # 1
        BY <3>1, <1>2
      <4>2. j \in 1 .. Len(wire[x]) /\ j - 1 \in 1 .. i - 1
        BY <4>1, <1>2
      <4> QED BY <3>1, <4>1, <4>2, <1>2
    <3> QED BY <3>1 DEF SyncBefore
  <2>5. ASSUME NEW j \in 1 .. i - 1, wire'[x][j].cmd = "SYNC",
               wire'[x][i].cmd = "NORMAL"
        PROVE  wire'[x][i].num = Len(got[x]) + i - j
    <3>1. wire[x][i + 1].num = Len(got[x]) + (i + 1) - (j + 1)
      BY <2>1, <2>2, <2>5 DEF InPlace
    <3>2. \A p, q, r \in Nat : p + (q + 1) - (r + 1) = p + q - r
      OBVIOUS
    <3>3. Len(got[x]) \in Nat /\ i \in Nat /\ j \in Nat
      BY <1>2, <1>4
    <3> QED BY <3>1, <3>2, <3>3, <2>1
  <2> QED BY <2>1, <2>2, <2>3, <2>4, <2>5, <1>3 DEF InPlace
<1>6. Complete(x)'
  <2>1. ASSUME NEW j \in 1 .. Len(wire'[x])
        PROVE  Len(wire'[x]) - j = Len(wire[x]) - (j + 1)
    BY <1>2
  <2> QED BY <2>1, <1>2, <1>3 DEF Channel, Complete
<1>7. SyncOnItsWay(x)'
  <2>1. SyncBefore(x, Len(wire[x]) + 1) => SyncBefore(x, Len(wire[x]) + 1)'
    <3>1. \A n \in Nat : \A j \in 1 .. (n + 1) - 1 : j \in 1 .. n
      OBVIOUS
    <3>2. \A n \in Nat : \A j \in 1 .. n : j \in 1 .. (n + 1) - 1
      OBVIOUS
    <3>3. Len(wire'[x]) \in Nat
      BY <1>2
    <3> QED BY <3>1, <3>2, <3>3, <1>2 DEF SyncBefore
  <2> QED BY <2>1, PeerFacts DEF Channel, SyncOnItsWay
<1>8. Queued(Peer(x))' /\ GotInOrder(x)'
  BY PeerFacts DEF Channel, Queued, GotInOrder
<1> QED BY <1>5, <1>6, <1>7, <1>8 DEF Channel

\* Processing an ordinary command keeps the direction's invariant, and the
\* command is the next in line
LEMMA NormalRead ==
    ASSUME TypeOK, Handshake, NEW x \in Sides, Channel(x),
           Reads(x, "NORMAL"), wire'[x] = Tail(wire[x]),
           UNCHANGED <<phase, stage>>, got'[x] = Append(got[x], Head(wire[x]).num),
           sent'[Peer(x)] = sent[Peer(x)], sendQ'[Peer(x)] = sendQ[Peer(x)]
    PROVE  /\ Channel(x)'
           /\ stage[x] = "READY" /\ stage[Peer(x)] = "READY"
           /\ Head(wire[x]).num = Len(got[x]) + 1
           /\ Len(got[x]) < sent[Peer(x)]
<1>1. wire[x] # <<>> /\ Head(wire[x]).cmd = "NORMAL"
  BY DEF Reads
<1>2. /\ Len(wire[x]) \in Nat \ {0}
      /\ Head(wire[x]) = wire[x][1]
      /\ wire[x][1].cmd = "NORMAL"
      /\ Len(wire'[x]) = Len(wire[x]) - 1
      /\ \A i \in 1 .. Len(wire'[x]) :
            /\ i \in Nat \ {0}
            /\ i + 1 \in 1 .. Len(wire[x])
            /\ wire'[x][i] = wire[x][i + 1]
  BY <1>1, TailFacts
<1>3. InPlace(x, 1)
  BY <1>2 DEF Channel
<1>4. stage[x] = "READY" /\ stage[Peer(x)] = "READY"
  <2>1. ~SyncBefore(x, 1)
    BY DEF SyncBefore
  <2>2. stage[x] = "READY"
    BY <1>2, <1>3, <2>1 DEF InPlace
  <2>3. stage[Peer(x)] = "READY"
    BY <1>2, <1>3, <2>2
       DEF InPlace, OnWire, OnServerWire, OnClientWire, StagesNow, Sides, Peer
  <2> QED BY <2>2, <2>3
<1>5. /\ Len(got[x]) \in Nat /\ sent[Peer(x)] \in Nat
      /\ got[x] \in Seq(Nat) /\ Head(wire[x]).num \in Nat
  <2>1. wire[x] \in Seq(Line)
    BY DEF TypeOK
  <2>2. Head(wire[x]) \in Line
    BY <1>1, <2>1, HeadTailProperties
  <2>3. Head(wire[x]).num \in Nat
    BY <2>2 DEF Line
  <2> QED BY <2>3, PeerFacts, LenProperties DEF TypeOK
<1>6. Head(wire[x]).num = Len(got[x]) + 1 /\ Len(got[x]) < sent[Peer(x)]
  BY <1>2, <1>3, <1>4, <1>5 DEF InPlace
<1>7. /\ Len(got'[x]) = Len(got[x]) + 1
      /\ \A i \in 1 .. Len(got[x]) : got'[x][i] = got[x][i]
      /\ got'[x][Len(got[x]) + 1] = Len(got[x]) + 1
  BY <1>5, <1>6, AppendProperties
<1>8. \A i \in 1 .. Len(wire[x]) : wire[x][i].cmd # "SYNC"
  BY <1>4 DEF Channel, InPlace, OnWire, OnServerWire, OnClientWire, StagesNow,
              Sides, Peer
<1>9. ASSUME NEW i \in 1 .. Len(wire'[x])
      PROVE  InPlace(x, i)'
  <2>1. InPlace(x, i + 1) /\ wire'[x][i] = wire[x][i + 1]
    BY <1>2 DEF Channel
  <2>2. \A j \in 1 .. i - 1 :
            /\ j + 1 \in 1 .. (i + 1) - 1
            /\ wire'[x][j] = wire[x][j + 1]
            /\ wire'[x][j].cmd # "SYNC"
    BY <1>2, <1>8
  <2>3. OnWire(x, wire[x][i].cmd)'
    BY <2>1 DEF InPlace, OnWire, OnServerWire, OnClientWire, StagesNow
  <2>4. wire'[x][i].cmd = "NORMAL" => wire'[x][i].num = Len(got'[x]) + i
    <3>1. wire[x][i + 1].cmd = "NORMAL" => wire[x][i + 1].num = Len(got[x]) + (i + 1)
      BY <2>1, <1>4 DEF InPlace
    <3>2. Len(got'[x]) + i = Len(got[x]) + (i + 1)
      <4>1. \A p, q \in Nat : (p + 1) + q = p + (q + 1)
        OBVIOUS
      <4>2. Len(got'[x]) = Len(got[x]) + 1 /\ Len(got[x]) \in Nat /\ i \in Nat
        BY <1>2, <1>5, <1>7
      <4> QED BY <4>1, <4>2
    <3> QED BY <3>1, <3>2, <2>1
  <2> QED BY <2>1, <2>2, <2>3, <2>4, <1>4 DEF InPlace
<1>10. Complete(x)'
  <2>1. \A j \in 1 .. Len(wire'[x]) : wire'[x][j].cmd # "SYNC"
    BY <1>2, <1>8
  <2>2. Len(wire'[x]) + Len(got'[x]) = Len(wire[x]) + Len(got[x])
    <3>1. Len(wire'[x]) = Len(wire[x]) - 1 /\ Len(got'[x]) = Len(got[x]) + 1
      BY <1>2, <1>7
    <3>2. \A p, q \in Nat : (p - 1) + (q + 1) = p + q
      OBVIOUS
    <3>3. Len(wire[x]) \in Nat /\ Len(got[x]) \in Nat
      BY <1>2, <1>5
    <3> QED BY <3>1, <3>2, <3>3
  <2> QED BY <2>1, <2>2, <1>4 DEF Channel, Complete
<1>11. SyncOnItsWay(x)'
  BY <1>4 DEF SyncOnItsWay
<1>12. Queued(Peer(x))'
  BY PeerFacts DEF Channel, Queued
<1>13. GotInOrder(x)'
  <2>1. Len(got'[x]) <= sent'[Peer(x)]
    BY <1>5, <1>6, <1>7
  <2>2. ASSUME NEW i \in 1 .. Len(got'[x])
        PROVE  got'[x][i] = i
    <3>1. i \in 1 .. Len(got[x]) \/ i = Len(got[x]) + 1
      BY <1>5, <1>7
    <3> QED BY <3>1, <1>7 DEF Channel, GotInOrder
  <2> QED BY <2>1, <2>2, <1>4, PeerFacts DEF GotInOrder
<1> QED BY <1>4, <1>6, <1>9, <1>10, <1>11, <1>12, <1>13 DEF Channel

\* Issuing an ordinary command keeps the invariant of the direction it goes
LEMMA CommandIssued ==
    ASSUME TypeOK, Handshake, Gone, NEW x \in Sides, NEW y \in Sides,
           y = Peer(x), Channel(x), phase[y] # "closed",
           UNCHANGED <<phase, stage>>, got'[x] = got[x],
           wire'[x] = Arrives(x, WritesNow(y)),
           sent'[y] = sent[y] + 1, sendQ'[y] = QueueAfter(y)
    PROVE  Channel(x)'
<1>1. /\ wire[x] \in Seq(Line) /\ Len(wire[x]) \in Nat
      /\ sent[y] \in Nat /\ Len(got[x]) \in Nat
      /\ sendQ[y] \in Seq(Ordinary) /\ Len(sendQ[y]) \in Nat
      /\ \A i \in 1 .. Len(wire[x]) : wire[x][i].num \in Nat
  <2>1. wire[x] \in Seq(Line) /\ got[x] \in Seq(Nat) /\ sendQ[y] \in Seq(Ordinary)
    BY DEF TypeOK
  <2>2. \A i \in 1 .. Len(wire[x]) : wire[x][i] \in Line
    BY <2>1, ElementOfSeq
  <2>3. \A l \in Line : l.num \in Nat
    BY DEF Line
  <2>4. Len(wire[x]) \in Nat /\ Len(got[x]) \in Nat /\ Len(sendQ[y]) \in Nat
    BY <2>1, LenProperties
  <2>5. sent[y] \in Nat
    BY DEF TypeOK
  <2> QED BY <2>1, <2>2, <2>3, <2>4, <2>5
<1>2. GotInOrder(x)'
  BY <1>1 DEF Channel, GotInOrder
\* a line that was there stays in its place
<1>3. ASSUME NEW i \in 1 .. Len(wire[x]), wire'[x][i] = wire[x][i],
             \A j \in 1 .. i - 1 : wire'[x][j] = wire[x][j]
      PROVE  InPlace(x, i)'
  <2>1. InPlace(x, i)
    BY DEF Channel
  <2>2. SyncBefore(x, i) => SyncBefore(x, i)'
    BY <1>3 DEF SyncBefore
  <2>3. OnWire(x, wire[x][i].cmd)'
    BY <1>3, <2>1 DEF InPlace, OnWire, OnServerWire, OnClientWire, StagesNow
  <2>4. wire[x][i].num <= sent[y] => wire[x][i].num <= sent'[y]
    BY <1>1
  <2> QED BY <1>3, <2>1, <2>2, <2>3, <2>4 DEF InPlace
<1>4. CASE stage[y] # "READY"
  <2>1. /\ WritesNow(y) = <<>>
        /\ Len(QueueAfter(y)) = Len(sendQ[y]) + 1
        /\ \A i \in 1 .. Len(sendQ[y]) : QueueAfter(y)[i] = sendQ[y][i]
        /\ QueueAfter(y)[Len(sendQ[y]) + 1] = Normal(sent[y] + 1)
    BY <1>4, IssuesFacts
  <2>2. wire'[x] = wire[x]
    BY <2>1, <1>1, ConcatEmptySeq DEF Arrives, Gone
  <2>3. \A i \in 1 .. Len(wire'[x]) : InPlace(x, i)'
    BY <1>3, <2>2
  <2>4. Complete(x)' /\ SyncOnItsWay(x)'
    BY <1>4 DEF Complete, SyncOnItsWay
  <2>5. Queued(y)'
    <3>1. Len(sendQ[y]) = sent[y] /\ \A i \in 1 .. Len(sendQ[y]) : sendQ[y][i].num = i
      BY <1>4 DEF Channel, Queued
    <3>2. Len(sendQ'[y]) = sent'[y]
      BY <2>1, <3>1
    <3>3. ASSUME NEW i \in 1 .. Len(sendQ'[y])
          PROVE  sendQ'[y][i].num = i
      <4>1. i \in 1 .. Len(sendQ[y]) \/ i = Len(sendQ[y]) + 1
        BY <2>1, <1>1
      <4>2. Normal(sent[y] + 1).num = Len(sendQ[y]) + 1
        BY <3>1 DEF Normal
      <4> QED BY <4>1, <4>2, <2>1, <3>1
    <3> QED BY <3>2, <3>3, <1>4 DEF Queued
  <2> QED BY <1>2, <2>3, <2>4, <2>5 DEF Channel
<1>5. CASE stage[y] = "READY"
  <2>1. /\ sendQ'[y] = sendQ[y]
        /\ WritesNow(y) = <<Normal(sent[y] + 1)>>
        /\ WritesNow(y) \in Seq(Line)
        /\ Normal(sent[y] + 1).cmd = "NORMAL" /\ Normal(sent[y] + 1).num = sent[y] + 1
    <3>1. /\ sendQ'[y] = sendQ[y] /\ WritesNow(y) \in Seq(Line)
          /\ WritesNow(y) = <<Normal(sent[y] + 1)>>
      BY <1>5, IssuesFacts
    <3>2. Normal(sent[y] + 1).cmd = "NORMAL" /\ Normal(sent[y] + 1).num = sent[y] + 1
      BY DEF Normal
    <3> QED BY <3>1, <3>2
  <2>2. Queued(y)'
    BY <2>1, <1>5 DEF Channel, Queued
  <2>3. CASE phase[x] = "closed"
    <3>1. wire'[x] = <<>> /\ Len(wire'[x]) = 0
      BY <2>3, EmptySeq DEF Arrives
    <3>2. \A i \in 1 .. Len(wire'[x]) : InPlace(x, i)'
      BY <3>1
    <3> QED BY <1>2, <2>2, <2>3, <3>2 DEF Channel, Complete, SyncOnItsWay
  <2>4. CASE phase[x] # "closed"
    <3>1. /\ wire'[x] = Append(wire[x], Normal(sent[y] + 1))
          /\ Normal(sent[y] + 1) \in Line
      BY <1>1, <2>1, <2>4, LineTypes, AppendIsConcat DEF Arrives
    <3>2. /\ Len(wire'[x]) = Len(wire[x]) + 1
          /\ \A i \in 1 .. Len(wire[x]) : wire'[x][i] = wire[x][i]
          /\ wire'[x][Len(wire[x]) + 1] = Normal(sent[y] + 1)
      BY <1>1, <3>1, AppendProperties
    <3>3. /\ stage[x] = "READY" => Len(wire[x]) + Len(got[x]) = sent[y]
          /\ \A j \in 1 .. Len(wire[x]) :
                wire[x][j].cmd = "SYNC" => Len(wire[x]) - j + Len(got[x]) = sent[y]
      BY <1>5, <2>4 DEF Channel, Complete
    <3>4. stage[x] = "READY" \/ SyncBefore(x, Len(wire[x]) + 1)
      BY <1>5, <2>4 DEF Channel, SyncOnItsWay
    <3>5. SyncBefore(x, Len(wire[x]) + 1) =>
            SyncBefore(x, Len(wire[x]))' /\ \E j \in 1 .. Len(wire[x]) : wire[x][j].cmd = "SYNC"
      <4>1. \A n \in Nat : \A j \in 1 .. (n + 1) - 1 : j \in 1 .. n
        OBVIOUS
      <4>2. \A n \in Nat : \A j \in 1 .. n : j \in 1 .. (n + 1) - 1
        OBVIOUS
      <4> QED BY <4>1, <4>2, <1>1, <3>2 DEF SyncBefore
    <3>6. ASSUME NEW i \in 1 .. Len(wire[x])
          PROVE  InPlace(x, i)'
      <4>1. \A j \in 1 .. i - 1 : wire'[x][j] = wire[x][j]
        BY <1>1, <3>2
      <4> QED BY <4>1, <3>2, <1>3
    <3>7. ASSUME NEW i, i = Len(wire[x]) + 1
          PROVE  InPlace(x, i)'
      <4>1. wire'[x][i] = Normal(sent[y] + 1) /\ i = Len(wire'[x])
        BY <3>2, <3>7
      <4>2. OnWire(x, "NORMAL")'
        BY <1>5 DEF OnWire, OnServerWire, OnClientWire, StagesNow, Peer, Sides,
                    Handshake
      <4>3. stage[x] # "READY" => SyncBefore(x, i)'
        BY <3>4, <3>5, <4>1
      <4>4. stage[x] = "READY" => sent[y] + 1 = Len(got[x]) + i
        <5>1. \A p, q \in Nat : (p + q) + 1 = q + (p + 1)
          OBVIOUS
        <5> QED BY <5>1, <3>3, <3>7, <1>1
      <4>5. ASSUME NEW j \in 1 .. i - 1, wire'[x][j].cmd = "SYNC"
            PROVE  sent[y] + 1 = Len(got[x]) + i - j
        <5>1. j \in 1 .. Len(wire[x]) /\ j \in Nat
          BY <3>7, <1>1
        <5>2. Len(wire[x]) - j + Len(got[x]) = sent[y]
          BY <5>1, <4>5, <3>2, <3>3
        <5>3. PICK p \in Nat, q \in Nat : p = Len(wire[x]) /\ q = Len(got[x])
          BY <1>1
        <5>4. (p - j + q) + 1 = q + (p + 1) - j
          BY <5>1
        <5> QED BY <5>2, <5>3, <5>4, <3>7
      <4>6. sent[y] + 1 <= sent'[y]
        BY <1>1
      <4> QED BY <4>1, <4>2, <4>3, <4>4, <4>5, <4>6, <2>1 DEF InPlace
    <3>8. \A i \in 1 .. Len(wire'[x]) : InPlace(x, i)'
      <4>1. \A i \in 1 .. Len(wire'[x]) : i \in 1 .. Len(wire[x]) \/ i = Len(wire[x]) + 1
        BY <3>2, <1>1
      <4> QED BY <4>1, <3>6, <3>7
    <3>9. Complete(x)'
      <4>1. stage[x] = "READY" => Len(wire'[x]) + Len(got[x]) = sent'[y]
        <5>1. \A p, q \in Nat : (p + 1) + q = (p + q) + 1
          OBVIOUS
        <5> QED BY <5>1, <3>2, <3>3, <1>1, ZenonT(60)
      <4>2. ASSUME NEW j \in 1 .. Len(wire'[x]), wire'[x][j].cmd = "SYNC"
            PROVE  Len(wire'[x]) - j + Len(got[x]) = sent'[y]
        <5>1. j \in 1 .. Len(wire[x]) \/ j = Len(wire[x]) + 1
          BY <3>2, <1>1
        <5>2. j \in 1 .. Len(wire[x]) /\ j \in Nat
          BY <5>1, <4>2, <3>2, <2>1
        <5>3. Len(wire[x]) - j + Len(got[x]) = sent[y]
          BY <5>2, <4>2, <3>2, <3>3
        <5>4. PICK p \in Nat, q \in Nat : p = Len(wire[x]) /\ q = Len(got[x])
          BY <1>1
        <5>5. (p + 1) - j + q = (p - j + q) + 1
          BY <5>2
        <5> QED BY <5>3, <5>4, <5>5, <3>2
      <4> QED BY <4>1, <4>2 DEF Complete
    <3>10. SyncOnItsWay(x)'
      <4>1. SyncBefore(x, Len(wire[x]))' => SyncBefore(x, Len(wire[x]) + 1)'
        <5>1. \A n \in Nat : \A j \in 1 .. n - 1 : j \in 1 .. (n + 1) - 1
          OBVIOUS
        <5>2. Len(wire'[x]) \in Nat
          BY <3>2, <1>1
        <5> QED BY <5>1, <5>2 DEF SyncBefore
      <4> QED BY <4>1, <3>4, <3>5 DEF SyncOnItsWay
    <3> QED BY <1>2, <2>2, <3>8, <3>9, <3>10 DEF Channel
  <2> QED BY <2>3, <2>4
<1> QED BY <1>4, <1>5

\* While a bot has a handshake line to read, the other has nothing to read,
\* and only ordinary commands or an ERROR can be behind it
LEMMA ControlRead ==
    ASSUME IInv, NEW x \in Sides, NEW y \in Sides, y = Peer(x),
           NEW c \in {"VERSION", "AUTH", "SYNC"}, Reads(x, c)
    PROVE  /\ phase["client"] \notin {"none", "connecting"}
           /\ OnWire(x, c)
           /\ wire[y] = <<>>
           /\ \A i \in 2 .. Len(wire[x]) :
                wire[x][i].cmd \in {"NORMAL", "ERROR"} /\ OnWire(x, wire[x][i].cmd)
<1>0. TypeOK /\ NotYetOpen /\ \A z \in Sides : Channel(z)
  BY DEF IInv
<1>1. phase[x] = "open" /\ wire[x] # <<>> /\ Head(wire[x]).cmd = c
  BY DEF Reads
<1>2. wire[x] \in Seq(Line) /\ wire[y] \in Seq(Line)
  BY <1>0 DEF TypeOK
<1>3. Len(wire[x]) \in Nat \ {0} /\ wire[x][1].cmd = c
  <2>1. Len(wire[x]) \in Nat \ {0}
    BY <1>1, <1>2, EmptySeq
  <2>2. Head(wire[x]) = wire[x][1]
    BY <1>2, <2>1
  <2> QED BY <1>1, <2>1, <2>2
<1>4. OnWire(x, c)
  BY <1>0, <1>3 DEF Channel, InPlace
<1>5. wire[y] = <<>>
  <2>1. SUFFICES ASSUME wire[y] # <<>>
                 PROVE  FALSE
    OBVIOUS
  <2>2. Len(wire[y]) \in Nat \ {0}
    BY <1>2, <2>1, EmptySeq
  <2>3. wire[y][1].cmd \in Commands /\ OnWire(y, wire[y][1].cmd)
    <3>1. wire[y][1] \in Line
      BY <1>2, <2>2, ElementOfSeq
    <3>2. wire[y][1].cmd \in Commands
      BY <3>1 DEF Line
    <3> QED BY <3>2, <1>0, <2>2 DEF Channel, InPlace
  <2>4. CASE x = "server"
    BY <1>1, <1>4, <2>3, <2>4
       DEF OnWire, OnServerWire, OnClientWire, StagesNow, Commands, Peer
  <2>5. CASE x = "client"
    BY <1>1, <1>4, <2>3, <2>5
       DEF OnWire, OnServerWire, OnClientWire, StagesNow, Commands, Peer
  <2> QED BY <2>4, <2>5 DEF Sides
<1>6. ASSUME NEW i \in 2 .. Len(wire[x])
      PROVE  wire[x][i].cmd \in {"NORMAL", "ERROR"} /\ OnWire(x, wire[x][i].cmd)
  <2>1. i \in 1 .. Len(wire[x]) /\ 1 \in 1 .. i - 1
    BY <1>3
  <2> QED BY <1>0, <1>3, <2>1 DEF Channel, InPlace
<1>7. phase["client"] \notin {"none", "connecting"}
  BY <1>0, <1>1, <1>4
     DEF NotYetOpen, OnWire, OnServerWire, OnClientWire, StagesNow, Sides
<1> QED BY <1>4, <1>5, <1>6, <1>7

\* The answer to a handshake line is all there is on the peer's wire
LEMMA AnswerAlone ==
    ASSUME TypeOK, NEW x \in Sides, NEW lines \in Seq(Line),
           ReadsAndWrites(x, lines), wire[x] # <<>>, wire[Peer(x)] = <<>>
    PROVE  /\ wire'[x] = Tail(wire[x])
           /\ phase[Peer(x)] = "closed" => wire'[Peer(x)] = <<>>
           /\ phase[Peer(x)] # "closed" => wire'[Peer(x)] = lines
<1>1. /\ wire'[x] = Tail(wire[x])
      /\ wire'[Peer(x)] = Arrives(Peer(x), lines)
  BY ReadsAndWritesFacts
<1> QED BY <1>1, ConcatEmptySeq DEF Arrives

\* A VERSION or an AUTH line advances the handshake by one
LEMMA HandshakeStep ==
    ASSUME IInv, NEW x \in Sides, NEW y \in Sides, y = Peer(x),
           NEW c \in {"VERSION", "AUTH"}, Reads(x, c),
           NEW lines \in Seq(Line), ReadsAndWrites(x, lines),
           NEW new \in {"GOODVERSION", "AUTHED"},
           stage' = [stage EXCEPT ![x] = new],
           UNCHANGED <<phase, sendQ, sent, got>>,
           \A i \in 1 .. Len(lines) :
                /\ OnWire(y, lines[i].cmd)'
                /\ lines[i].cmd # "NORMAL"
                /\ \A j \in 1 .. i - 1 : lines[j].cmd = "JOIN"
    PROVE  NotYetOpen' /\ Gone' /\ \A z \in Sides : Channel(z)'
<1>0. TypeOK /\ NotYetOpen /\ Gone /\ \A z \in Sides : Channel(z)
  BY DEF IInv
<1>1. Sides = {x, y} /\ x # y /\ Peer(y) = x /\ Peer(x) = y
  BY PeerFacts
<1>2. /\ phase["client"] \notin {"none", "connecting"}
      /\ OnWire(x, c) /\ wire[y] = <<>>
      /\ \A i \in 2 .. Len(wire[x]) :
            wire[x][i].cmd \in {"NORMAL", "ERROR"} /\ OnWire(x, wire[x][i].cmd)
  BY ControlRead
<1>3. phase[x] = "open" /\ wire[x] # <<>>
  BY DEF Reads
<1>4. /\ wire'[x] = Tail(wire[x])
      /\ phase[y] = "closed" => wire'[y] = <<>>
      /\ phase[y] # "closed" => wire'[y] = lines
  BY <1>0, <1>2, <1>3, AnswerAlone
<1>5. /\ stage'[x] = new /\ stage'[y] = stage[y]
      /\ stage'[x] # "READY" /\ stage[x] # "READY" /\ stage[y] # "READY"
  <2>1. stage'[x] = new /\ stage'[y] = stage[y]
    BY <1>0, <1>1 DEF TypeOK
  <2> QED BY <1>2, <2>1
          DEF OnWire, OnServerWire, OnClientWire, StagesNow, Sides, Peer
<1>6. NotYetOpen'
  BY <1>2 DEF NotYetOpen
<1>7. Gone'
  BY <1>0, <1>1, <1>3, <1>4 DEF Gone
<1>8. Channel(x)'
  <2>1. ASSUME NEW i \in 1 .. Len(wire'[x])
        PROVE  InPlace(x, i)'
    <3>1. i + 1 \in 2 .. Len(wire[x]) /\ wire'[x][i] = wire[x][i + 1]
      <4>1. i + 1 \in 1 .. Len(wire[x]) /\ i \in Nat \ {0}
        BY <1>0, <1>3, <1>4, TailFacts
      <4>2. wire'[x][i] = wire[x][i + 1]
        BY <1>0, <1>3, <1>4, TailFacts
      <4>3. Len(wire[x]) \in Nat
        BY <1>0, LenProperties DEF TypeOK
      <4> QED BY <4>1, <4>2, <4>3
    <3>2. wire'[x][i].cmd = "ERROR" /\ OnWire(x, "ERROR")
      BY <3>1, <1>2, <1>5
         DEF OnWire, OnServerWire, OnClientWire, StagesNow, Sides, Peer
    <3> QED BY <3>2 DEF InPlace, OnWire, OnServerWire, OnClientWire
  <2>2. Complete(x)' /\ SyncOnItsWay(x)' /\ Queued(y)' /\ GotInOrder(x)'
    BY <1>0, <1>1, <1>5
       DEF Channel, Complete, SyncOnItsWay, Queued, GotInOrder
  <2> QED BY <2>1, <2>2, <1>1 DEF Channel
<1>9. Channel(y)'
  <2>1. \A i \in 1 .. Len(wire'[y]) : InPlace(y, i)'
    <3>1. CASE phase[y] = "closed"
      <4>1. Len(wire'[y]) = 0
        BY <3>1, <1>4
      <4> QED BY <4>1
    <3>2. CASE phase[y] # "closed"
      <4>1. wire'[y] = lines
        BY <3>2, <1>4
      <4> QED BY <4>1 DEF InPlace
    <3> QED BY <3>1, <3>2
  <2>2. Complete(y)' /\ SyncOnItsWay(y)' /\ Queued(x)' /\ GotInOrder(y)'
    BY <1>0, <1>1, <1>5
       DEF Channel, Complete, SyncOnItsWay, Queued, GotInOrder
  <2> QED BY <2>1, <2>2, <1>1 DEF Channel
<1> QED BY <1>1, <1>6, <1>7, <1>8, <1>9

LEMMA VersionStep ==
    ASSUME IInv, TypeOK', NEW x \in Sides, RecvVersion(x)
    PROVE  IInv'
<1>0. TypeOK /\ Handshake /\ AuthOnce
  BY DEF IInv
<1>1. PICK y \in Sides : y = Peer(x)
  BY PeerFacts
<1> DEFINE answer == IF x = "client" THEN "AUTH" ELSE "VERSION"
           lines == <<Control(answer)>>
<1>2. Reads(x, "VERSION") /\ ReadsAndWrites(x, lines)
  BY DEF RecvVersion
<1>3. /\ lines \in Seq(Line)
      /\ \A i \in 1 .. Len(lines) : lines[i].cmd = answer
      /\ \A i \in 1 .. Len(lines) : \A j \in 1 .. i - 1 : FALSE
  <2>1. answer \in Commands
    BY DEF Commands
  <2>2. Control(answer) \in Line /\ Control(answer).cmd = answer /\ lines \in Seq(Line)
    BY <2>1, LineTypes
  <2>3. \A i \in 1 .. Len(lines) : i = 1 /\ lines[i] = Control(answer)
    OBVIOUS
  <2> QED BY <2>2, <2>3
<1>4. OnWire(x, "VERSION")
  BY <1>1, <1>2, ControlRead
<1>5. stage' = [stage EXCEPT ![x] = "GOODVERSION"]
  BY DEF RecvVersion
<1>6. stage[x] = "INIT" /\ stage'[x] = "GOODVERSION" /\ stage'[y] = stage[y]
  BY <1>0, <1>1, <1>5, PeerFacts DEF RecvVersion, TypeOK
<1>7. OnWire(y, answer)'
  BY <1>1, <1>4, <1>6
     DEF OnWire, OnServerWire, OnClientWire, StagesNow, Sides, Peer
<1>8. UNCHANGED <<phase, auth, sendQ, sent, got>>
  BY DEF RecvVersion
<1>9. NotYetOpen' /\ Gone' /\ \A z \in Sides : Channel(z)'
  <2> HIDE DEF lines, answer
  <2>1. answer # "NORMAL"
    BY DEF answer
  <2>2. \A i \in 1 .. Len(lines) :
            /\ OnWire(y, lines[i].cmd)'
            /\ lines[i].cmd # "NORMAL"
            /\ \A j \in 1 .. i - 1 : lines[j].cmd = "JOIN"
    BY <1>3, <1>7, <2>1
  <2> QED BY <1>1, <1>2, <1>3, <1>5, <1>8, <2>2, HandshakeStep
<1>10. Handshake'
  BY <1>0, <1>1, <1>4, <1>6
     DEF Handshake, OnWire, OnServerWire, OnClientWire, StagesNow, Sides, Peer
<1>11. AuthOnce'
  BY <1>0, <1>1, <1>6, <1>8, PeerFacts DEF AuthOnce
<1> QED BY <1>9, <1>10, <1>11 DEF IInv

LEMMA AuthStep ==
    ASSUME IInv, TypeOK', NEW x \in Sides, RecvAuth(x)
    PROVE  IInv'
<1>0. TypeOK /\ Handshake /\ AuthOnce
  BY DEF IInv
<1>1. PICK y \in Sides : y = Peer(x)
  BY PeerFacts
<1>2. Reads(x, "AUTH")
  BY DEF RecvAuth
<1>3. OnWire(x, "AUTH")
  BY <1>1, <1>2, ControlRead
<1>4. stage' = [stage EXCEPT ![x] = "AUTHED"]
  BY DEF RecvAuth
<1>5. stage'[x] = "AUTHED" /\ stage'[y] = stage[y]
  BY <1>0, <1>1, <1>4, PeerFacts DEF TypeOK
<1>6. OnWire(y, IF x = "client" THEN "SYNC" ELSE "AUTH")'
  BY <1>1, <1>3, <1>5
     DEF OnWire, OnServerWire, OnClientWire, StagesNow, Sides, Peer
<1>7. UNCHANGED <<phase, sendQ, sent, got>>
  BY DEF RecvAuth
<1>8. NotYetOpen' /\ Gone' /\ \A z \in Sides : Channel(z)'
  <2>1. CASE x = "server"
    <3> DEFINE lines == <<Control("AUTH")>>
    <3>1. ReadsAndWrites(x, lines)
      BY <2>1 DEF RecvAuth
    <3>2. Control("AUTH").cmd = "AUTH" /\ lines \in Seq(Line)
      BY LineTypes DEF Commands
    <3>3. \A i \in 1 .. Len(lines) :
            lines[i].cmd = "AUTH" /\ \A j \in 1 .. i - 1 : FALSE
      BY <3>2
    <3>4. OnWire(y, "AUTH")'
      BY <2>1, <1>6
    <3> HIDE DEF lines
    <3>5. \A i \in 1 .. Len(lines) :
            /\ OnWire(y, lines[i].cmd)'
            /\ lines[i].cmd # "NORMAL"
            /\ \A j \in 1 .. i - 1 : lines[j].cmd = "JOIN"
      BY <3>3, <3>4
    <3> QED BY <1>1, <1>2, <1>4, <1>7, <3>1, <3>2, <3>5, HandshakeStep
  <2>2. CASE x = "client"
    <3>1. PICK n \in 0 .. MaxBurst : ReadsAndWrites(x, Burst(n))
      BY <2>2 DEF RecvAuth
    <3>2. n \in Nat
      BY <3>1
    <3>3. /\ Burst(n) \in Seq(Line)
          /\ Len(Burst(n)) = n + 1
          /\ \A i \in 1 .. n : Burst(n)[i].cmd = "JOIN"
          /\ Burst(n)[n + 1].cmd = "SYNC"
      BY <3>2, BurstFacts
    <3>4. OnWire(y, "SYNC")' /\ OnWire(y, "JOIN")'
      BY <2>2, <1>6 DEF OnWire, OnServerWire, OnClientWire
    <3>5. \A i \in 1 .. Len(Burst(n)) :
            /\ i \in 1 .. n \/ i = n + 1
            /\ \A j \in 1 .. i - 1 : j \in 1 .. n
      BY <3>2, <3>3
    <3>6. \A i \in 1 .. Len(Burst(n)) :
            /\ OnWire(y, Burst(n)[i].cmd)'
            /\ Burst(n)[i].cmd # "NORMAL"
            /\ \A j \in 1 .. i - 1 : Burst(n)[j].cmd = "JOIN"
      BY <3>3, <3>4, <3>5
    <3> QED BY <1>1, <1>2, <1>4, <1>7, <3>1, <3>3, <3>6, HandshakeStep
  <2> QED BY <2>1, <2>2 DEF Sides
<1>9. Handshake'
  BY <1>0, <1>1, <1>3, <1>5
     DEF Handshake, OnWire, OnServerWire, OnClientWire, StagesNow, Sides, Peer
<1>10. AuthOnce'
  <2>1. auth'[x] = FALSE /\ auth'[y] = auth[y]
    BY <1>0, <1>1, PeerFacts DEF RecvAuth, TypeOK
  <2> QED BY <1>0, <1>1, <1>5, <2>1, PeerFacts DEF AuthOnce
<1> QED BY <1>8, <1>9, <1>10 DEF IInv

\* The end of the client's burst makes the server READY: it relays its own
\* botnet and then the commands it held back
LEMMA ServerSyncStep ==
    ASSUME IInv, TypeOK', RecvSync("server")
    PROVE  IInv'
<1> DEFINE x == "server"
           y == "client"
<1>0. TypeOK /\ Handshake /\ AuthOnce /\ NotYetOpen /\ Gone /\ Channel(x) /\ Channel(y)
  BY DEF IInv, Sides
<1>1. /\ x \in Sides /\ y \in Sides /\ Sides = {x, y} /\ x # y
      /\ Peer(x) = y /\ Peer(y) = x
  BY DEF Sides, Peer
<1>2. Reads(x, "SYNC")
  BY DEF RecvSync
<1>3. /\ phase[y] \notin {"none", "connecting"}
      /\ OnWire(x, "SYNC") /\ wire[y] = <<>>
      /\ \A i \in 2 .. Len(wire[x]) :
            wire[x][i].cmd \in {"NORMAL", "ERROR"} /\ OnWire(x, wire[x][i].cmd)
  BY <1>1, <1>2, ControlRead
<1>4. phase[x] = "open" /\ wire[x] # <<>>
  BY <1>2 DEF Reads
<1>5. stage[x] = "AUTHED" /\ stage[y] = "AUTHED"
  BY <1>3 DEF OnWire, OnServerWire, StagesNow
<1>6. /\ stage'[x] = "READY" /\ stage'[y] = "AUTHED"
      /\ sendQ'[x] = <<>> /\ sendQ'[y] = sendQ[y]
      /\ UNCHANGED <<phase, auth, sent, got>>
  BY <1>0, <1>1, <1>5 DEF RecvSync, TypeOK
<1>7. PICK n \in 0 .. MaxBurst : ReadsAndWrites(x, Burst(n) \o sendQ[x])
  BY DEF RecvSync
<1> DEFINE lines == Burst(n) \o sendQ[x]
<1>8. /\ n \in Nat /\ Len(sendQ[x]) \in Nat /\ sendQ[x] \in Seq(Line)
      /\ sendQ[x] \in Seq(Ordinary)
      /\ \A i \in 1 .. Len(sendQ[x]) : sendQ[x][i].cmd = "NORMAL"
      /\ \A i \in 1 .. Len(sendQ[x]) : sendQ[x][i].num = i
      /\ Len(sendQ[x]) = sent[x] /\ sent[x] \in Nat
  <2>1. n \in Nat
    BY <1>7
  <2>2. sendQ[x] \in Seq(Ordinary) /\ sent[x] \in Nat
    BY <1>0, <1>1 DEF TypeOK
  <2>3. \A i \in 1 .. Len(sendQ[x]) : sendQ[x][i] \in Ordinary
    BY <2>2, ElementOfSeq
  <2>4. \A l \in Ordinary : l.cmd = "NORMAL"
    BY DEF Ordinary
  <2>5. Queued(x)
    BY <1>0, <1>1 DEF Channel
  <2> QED
    BY <2>1, <2>2, <2>3, <2>4, <2>5, <1>4, <1>5, LineTypes, LenProperties
       DEF Queued
<1>9. /\ Burst(n) \in Seq(Line)
      /\ Len(Burst(n)) = n + 1
      /\ \A i \in 1 .. n : Burst(n)[i].cmd = "JOIN"
      /\ Burst(n)[n + 1].cmd = "SYNC"
  BY <1>8, BurstFacts
<1>10. /\ lines \in Seq(Line)
       /\ Len(lines) = (n + 1) + Len(sendQ[x])
       /\ \A i \in 1 .. n : lines[i].cmd = "JOIN"
       /\ lines[n + 1].cmd = "SYNC"
       /\ \A i \in 1 .. Len(sendQ[x]) : lines[(n + 1) + i] = sendQ[x][i]
  <2>1. /\ lines \in Seq(Line)
        /\ Len(lines) = Len(Burst(n)) + Len(sendQ[x])
        /\ \A i \in 1 .. Len(Burst(n)) + Len(sendQ[x]) : lines[i] =
              IF i <= Len(Burst(n)) THEN Burst(n)[i] ELSE sendQ[x][i - Len(Burst(n))]
    BY <1>8, <1>9, ConcatLines, Zenon
  <2>2. \A i \in 1 .. n + 1 : lines[i] = Burst(n)[i]
    BY <1>8, <1>9, <2>1
  <2>3. ASSUME NEW i \in 1 .. Len(sendQ[x])
        PROVE  lines[(n + 1) + i] = sendQ[x][i]
    <3>1. /\ (n + 1) + i \in 1 .. (n + 1) + Len(sendQ[x])
          /\ ~((n + 1) + i <= n + 1) /\ ((n + 1) + i) - (n + 1) = i
      BY <1>8
    <3> QED BY <3>1, <1>9, <2>1
  <2>4. n + 1 \in 1 .. n + 1 /\ \A i \in 1 .. n : i \in 1 .. n + 1
    BY <1>8
  <2> QED BY <2>1, <2>2, <2>3, <2>4, <1>9
<1> HIDE DEF lines
<1>11. \A i \in 1 .. Len(lines) :
            \/ i \in 1 .. n \/ i = n + 1
            \/ \E k \in 1 .. Len(sendQ[x]) : i = (n + 1) + k
  <2>1. ASSUME NEW i \in 1 .. Len(lines), i \notin 1 .. n, i # n + 1
        PROVE  i - (n + 1) \in 1 .. Len(sendQ[x]) /\ i = (n + 1) + (i - (n + 1))
    BY <2>1, <1>8, <1>10
  <2> QED BY <2>1
<1>12. /\ wire'[x] = Tail(wire[x])
       /\ phase[y] = "closed" => wire'[y] = <<>>
       /\ phase[y] # "closed" => wire'[y] = lines
  BY <1>0, <1>1, <1>3, <1>4, <1>7, <1>10, AnswerAlone DEF lines
<1>13. Handshake' /\ NotYetOpen' /\ AuthOnce' /\ Gone'
  BY <1>0, <1>1, <1>3, <1>4, <1>5, <1>6, <1>12
     DEF Handshake, NotYetOpen, AuthOnce, Gone
<1>14. Channel(x)'
  <2>1. ASSUME NEW i \in 1 .. Len(wire'[x])
        PROVE  InPlace(x, i)'
    <3>1. i + 1 \in 2 .. Len(wire[x]) /\ wire'[x][i] = wire[x][i + 1]
      <4>1. i + 1 \in 1 .. Len(wire[x]) /\ i \in Nat \ {0}
        BY <1>0, <1>1, <1>4, <1>12, TailFacts
      <4>2. wire'[x][i] = wire[x][i + 1]
        BY <1>0, <1>1, <1>4, <1>12, TailFacts
      <4>3. Len(wire[x]) \in Nat
        BY <1>0, <1>1, LenProperties DEF TypeOK
      <4> QED BY <4>1, <4>2, <4>3
    <3>2. wire'[x][i].cmd = "ERROR" /\ OnWire(x, "ERROR")
      BY <3>1, <1>3, <1>5 DEF OnWire, OnServerWire, StagesNow
    <3> QED BY <3>2, <1>6 DEF InPlace, OnWire, OnServerWire
  <2>2. Complete(x)' /\ SyncOnItsWay(x)' /\ Queued(y)' /\ GotInOrder(x)'
    BY <1>0, <1>1, <1>5, <1>6
       DEF Channel, Complete, SyncOnItsWay, Queued, GotInOrder
  <2> QED BY <2>1, <2>2, <1>1 DEF Channel
<1>15. got[y] = <<>> /\ Len(got[y]) = 0
  BY <1>0, <1>1, <1>5 DEF Channel, GotInOrder
<1>16. Queued(x)' /\ GotInOrder(y)'
  <2>1. Len(sendQ'[x]) = 0
    BY <1>6
  <2>2. Queued(x)'
    BY <2>1, <1>6 DEF Queued
  <2>3. GotInOrder(y)'
    BY <1>1, <1>6, <1>8, <1>15 DEF GotInOrder
  <2> QED BY <2>2, <2>3
<1>17. Channel(y)'
  <2>1. CASE phase[y] = "closed"
    <3>1. Len(wire'[y]) = 0
      BY <2>1, <1>12
    <3>2. \A i \in 1 .. Len(wire'[y]) : InPlace(y, i)'
      BY <3>1
    <3>3. Complete(y)' /\ SyncOnItsWay(y)'
      BY <2>1, <1>6 DEF Complete, SyncOnItsWay
    <3> QED BY <3>2, <3>3, <1>1, <1>16 DEF Channel
  <2>2. CASE phase[y] # "closed"
    <3>1. wire'[y] = lines
      BY <2>2, <1>12
    <3>2. OnWire(y, "JOIN")' /\ OnWire(y, "SYNC")' /\ OnWire(y, "NORMAL")'
      BY <1>6 DEF OnWire, OnClientWire, StagesNow
    <3>3. \A j \in 1 .. Len(lines) : lines[j].cmd = "SYNC" => j = n + 1
      BY <1>8, <1>10, <1>11
    <3>4. ASSUME NEW i \in 1 .. n
          PROVE  InPlace(y, i)'
      <4>1. \A j \in 1 .. i - 1 : j \in 1 .. n
        BY <1>8
      <4> QED BY <4>1, <3>1, <3>2, <1>10 DEF InPlace
    <3>5. InPlace(y, n + 1)'
      <4>1. \A j \in 1 .. (n + 1) - 1 : j \in 1 .. n
        BY <1>8
      <4> QED BY <4>1, <3>1, <3>2, <1>10 DEF InPlace
    <3>6. ASSUME NEW i, NEW k \in 1 .. Len(sendQ[x]), i = (n + 1) + k
          PROVE  InPlace(y, i)'
      <4>1. /\ lines[i].cmd = "NORMAL" /\ lines[i].num = k
            /\ k \in Nat /\ k <= sent[x]
        BY <3>6, <1>8, <1>10
      <4>2. n + 1 \in 1 .. i - 1 /\ \A j \in 1 .. i - 1 : j \in 1 .. Len(lines)
        BY <3>6, <1>8, <1>10
      <4>3. SyncBefore(y, i)'
        BY <4>2, <3>1, <1>10 DEF SyncBefore
      <4>4. ASSUME NEW j \in 1 .. i - 1, lines[j].cmd = "SYNC"
            PROVE  k = 0 + i - j
        <5>1. j = n + 1
          BY <4>2, <4>4, <3>3
        <5> QED BY <5>1, <3>6, <4>1, <1>8
      <4> QED
        BY <4>1, <4>3, <4>4, <3>1, <3>2, <1>1, <1>6, <1>15 DEF InPlace
    <3>7. \A i \in 1 .. Len(wire'[y]) : InPlace(y, i)'
      BY <3>1, <3>4, <3>5, <3>6, <1>11
    <3>8. Complete(y)'
      <4>1. ASSUME NEW j \in 1 .. Len(lines), lines[j].cmd = "SYNC"
            PROVE  Len(lines) - j + 0 = sent[x]
        <5>1. j = n + 1
          BY <4>1, <3>3
        <5>2. PICK q \in Nat : q = Len(sendQ[x]) /\ q = sent[x]
          BY <1>8
        <5>3. ((n + 1) + q) - (n + 1) + 0 = q
          BY <1>8
        <5> QED BY <5>1, <5>2, <5>3, <1>10
      <4> QED BY <4>1, <3>1, <1>1, <1>6, <1>15 DEF Complete
    <3>9. SyncOnItsWay(y)'
      <4>1. n + 1 \in 1 .. (Len(lines) + 1) - 1
        BY <1>8, <1>10
      <4> QED BY <4>1, <3>1, <1>10 DEF SyncOnItsWay, SyncBefore
    <3> QED BY <3>7, <3>8, <3>9, <1>1, <1>16 DEF Channel
  <2> QED BY <2>1, <2>2
<1> QED BY <1>1, <1>13, <1>14, <1>17 DEF IInv

\* The end of the server's burst makes the client READY: the commands it held
\* back follow, and the next line it reads is the first command
LEMMA ClientSyncStep ==
    ASSUME IInv, TypeOK', RecvSync("client")
    PROVE  IInv'
<1> DEFINE x == "client"
           y == "server"
<1>0. TypeOK /\ Handshake /\ AuthOnce /\ NotYetOpen /\ Gone /\ Channel(x) /\ Channel(y)
  BY DEF IInv, Sides
<1>1. /\ x \in Sides /\ y \in Sides /\ Sides = {x, y} /\ x # y
      /\ Peer(x) = y /\ Peer(y) = x
  BY DEF Sides, Peer
<1>2. Reads(x, "SYNC")
  BY DEF RecvSync
<1>3. /\ phase[x] \notin {"none", "connecting"}
      /\ OnWire(x, "SYNC") /\ wire[y] = <<>>
      /\ \A i \in 2 .. Len(wire[x]) :
            wire[x][i].cmd \in {"NORMAL", "ERROR"} /\ OnWire(x, wire[x][i].cmd)
  BY <1>1, <1>2, ControlRead
<1>4. phase[x] = "open" /\ wire[x] # <<>> /\ Head(wire[x]).cmd = "SYNC"
  BY <1>2 DEF Reads
<1>5. stage[x] = "AUTHED" /\ stage[y] = "READY"
  BY <1>3 DEF OnWire, OnClientWire, StagesNow
<1>6. /\ stage'[x] = "READY" /\ stage'[y] = "READY"
      /\ sendQ'[x] = <<>> /\ sendQ'[y] = sendQ[y]
      /\ UNCHANGED <<phase, auth, sent, got>>
  BY <1>0, <1>1, <1>5 DEF RecvSync, TypeOK
<1>7. ReadsAndWrites(x, sendQ[x])
  BY DEF RecvSync
<1>8. /\ sendQ[x] \in Seq(Line) /\ Len(sendQ[x]) \in Nat
      /\ \A i \in 1 .. Len(sendQ[x]) : sendQ[x][i].cmd = "NORMAL"
      /\ \A i \in 1 .. Len(sendQ[x]) : sendQ[x][i].num = i
      /\ Len(sendQ[x]) = sent[x]
  <2>1. sendQ[x] \in Seq(Ordinary)
    BY <1>0, <1>1 DEF TypeOK
  <2>2. \A i \in 1 .. Len(sendQ[x]) : sendQ[x][i] \in Ordinary
    BY <2>1, ElementOfSeq
  <2>3. \A l \in Ordinary : l.cmd = "NORMAL"
    BY DEF Ordinary
  <2>4. Queued(x)
    BY <1>0, <1>1 DEF Channel
  <2> QED
    BY <2>1, <2>2, <2>3, <2>4, <1>4, <1>5, LineTypes, LenProperties DEF Queued
<1>9. /\ wire'[x] = Tail(wire[x])
      /\ phase[y] = "closed" => wire'[y] = <<>>
      /\ phase[y] # "closed" => wire'[y] = sendQ[x]
  BY <1>0, <1>1, <1>3, <1>4, <1>7, <1>8, AnswerAlone
<1>10. /\ Len(wire[x]) \in Nat \ {0}
       /\ 1 \in 1 .. Len(wire[x])
       /\ wire[x][1].cmd = "SYNC"
       /\ Len(wire'[x]) = Len(wire[x]) - 1
       /\ \A i \in 1 .. Len(wire'[x]) :
            /\ i \in Nat \ {0}
            /\ i + 1 \in 1 .. Len(wire[x])
            /\ wire'[x][i] = wire[x][i + 1]
  BY <1>0, <1>1, <1>4, <1>9, TailFacts
<1>11. Len(got[x]) \in Nat /\ got[y] = <<>> /\ Len(got[y]) = 0
  <2>1. Len(got[x]) \in Nat
    BY <1>0, <1>1, LenProperties DEF TypeOK
  <2> QED BY <2>1, <1>0, <1>1, <1>5 DEF Channel, GotInOrder
<1>12. Handshake' /\ NotYetOpen' /\ AuthOnce' /\ Gone'
  BY <1>0, <1>1, <1>3, <1>4, <1>5, <1>6, <1>9
     DEF Handshake, NotYetOpen, AuthOnce, Gone
<1>13. Channel(x)'
  <2>1. ASSUME NEW i \in 1 .. Len(wire'[x])
        PROVE  InPlace(x, i)'
    <3>1. /\ i + 1 \in 2 .. Len(wire[x]) /\ InPlace(x, i + 1)
          /\ wire'[x][i] = wire[x][i + 1]
      BY <1>0, <1>10 DEF Channel
    <3>2. wire'[x][i].cmd \in {"NORMAL", "ERROR"}
      BY <3>1, <1>3
    <3>3. OnWire(x, wire[x][i].cmd)'
      BY <3>1, <3>2, <1>3, <1>6 DEF OnWire, OnClientWire
    <3>4. ASSUME wire'[x][i].cmd = "NORMAL"
          PROVE  wire'[x][i].num = Len(got[x]) + i
      <4>1. 1 \in 1 .. (i + 1) - 1
        BY <1>10
      <4>2. wire[x][i + 1].num = Len(got[x]) + (i + 1) - 1
        BY <3>1, <3>4, <4>1, <1>10 DEF InPlace
      <4>3. \A p, q \in Nat : p + (q + 1) - 1 = p + q
        OBVIOUS
      <4> QED BY <4>2, <4>3, <3>1, <1>10, <1>11
    <3>5. ASSUME NEW j \in 1 .. i - 1
          PROVE  wire'[x][j].cmd # "SYNC"
      <4>1. j \in 1 .. Len(wire'[x])
        BY <1>10
      <4>2. j + 1 \in 2 .. Len(wire[x]) /\ wire'[x][j] = wire[x][j + 1]
        BY <4>1, <1>10
      <4> QED BY <4>2, <1>3
    <3>6. wire'[x][i].cmd = "NORMAL" => wire'[x][i].num <= sent[y]
      BY <3>1, <1>1 DEF InPlace
    <3> QED BY <3>2, <3>3, <3>4, <3>5, <3>6, <1>1, <1>6 DEF InPlace
  <2>2. Complete(x)'
    <3>1. ASSUME phase[y] # "closed"
          PROVE  Len(wire'[x]) + Len(got[x]) = sent[y]
      BY <3>1, <1>0, <1>1, <1>4, <1>5, <1>10 DEF Channel, Complete
    <3>2. \A j \in 1 .. Len(wire'[x]) : wire'[x][j].cmd # "SYNC"
      <4>1. ASSUME NEW j \in 1 .. Len(wire'[x])
            PROVE  j + 1 \in 2 .. Len(wire[x]) /\ wire'[x][j] = wire[x][j + 1]
        BY <1>10
      <4> QED BY <4>1, <1>3
    <3> QED BY <3>1, <3>2, <1>1, <1>6 DEF Complete
  <2>3. SyncOnItsWay(x)' /\ Queued(y)' /\ GotInOrder(x)'
    BY <1>0, <1>1, <1>5, <1>6
       DEF Channel, SyncOnItsWay, Queued, GotInOrder
  <2> QED BY <2>1, <2>2, <2>3, <1>1 DEF Channel
<1>14. Channel(y)'
  <2>1. ASSUME phase[y] # "closed", NEW i \in 1 .. Len(wire'[y])
        PROVE  InPlace(y, i)'
    <3>1. wire'[y][i].cmd = "NORMAL" /\ wire'[y][i].num = i /\ i <= sent[x]
      BY <2>1, <1>8, <1>9
    <3>2. OnWire(y, "NORMAL")'
      BY <1>6 DEF OnWire, OnServerWire, StagesNow
    <3>3. \A j \in 1 .. i - 1 : wire'[y][j].cmd = "NORMAL"
      BY <2>1, <1>8, <1>9
    <3> QED BY <3>1, <3>2, <3>3, <1>1, <1>6, <1>11 DEF InPlace
  <2>2. phase[y] = "closed" => \A i \in 1 .. Len(wire'[y]) : InPlace(y, i)'
    <3>1. phase[y] = "closed" => Len(wire'[y]) = 0
      BY <1>9
    <3> QED BY <3>1
  <2>3. Complete(y)'
    <3>1. ASSUME phase[y] # "closed"
          PROVE  /\ Len(wire'[y]) + 0 = sent[x]
                 /\ \A j \in 1 .. Len(wire'[y]) : wire'[y][j].cmd = "NORMAL"
      BY <3>1, <1>8, <1>9
    <3> QED BY <3>1, <1>1, <1>6, <1>11 DEF Complete
  <2>4. SyncOnItsWay(y)'
    BY <1>1, <1>6 DEF SyncOnItsWay
  <2>5. Queued(x)'
    <3>1. Len(sendQ'[x]) = 0
      BY <1>6
    <3> QED BY <3>1, <1>6 DEF Queued
  <2>6. GotInOrder(y)'
    BY <1>0, <1>1, <1>6, <1>11 DEF Channel, GotInOrder
  <2> QED BY <2>1, <2>2, <2>3, <2>4, <2>5, <2>6, <1>1 DEF Channel
<1> QED BY <1>1, <1>12, <1>13, <1>14 DEF IInv

\* The connection is set up: no line but the client's version is written
LEMMA SetUpStep ==
    ASSUME IInv, TypeOK', Dial \/ Accept \/ ClientConnected
    PROVE  IInv'
<1>0. /\ TypeOK /\ Handshake /\ AuthOnce /\ NotYetOpen /\ Gone
      /\ Channel("client") /\ Channel("server")
  BY DEF IInv, Sides
<1>1. /\ "client" \in Sides /\ "server" \in Sides /\ Sides = {"client", "server"}
      /\ Peer("client") = "server" /\ Peer("server") = "client"
  BY DEF Sides, Peer
<1>2. UNCHANGED <<stage, auth, sendQ, sent, got>>
  BY DEF Dial, Accept, ClientConnected
<1>3. \A z \in Sides : phase'[z] = "closed" <=> phase[z] = "closed"
  BY <1>0, <1>1 DEF Dial, Accept, ClientConnected, TypeOK
<1>4. Handshake' /\ AuthOnce'
  BY <1>0, <1>2 DEF Handshake, AuthOnce
<1>5. CASE Dial \/ Accept
  <2>1. UNCHANGED wire
    BY <1>5 DEF Dial, Accept
  <2>2. Channel("client")' /\ Channel("server")'
    BY <1>0, <1>1, <1>2, <1>3, <2>1, ChannelKept
  <2>3. NotYetOpen' /\ Gone'
    BY <1>0, <1>1, <1>2, <1>3, <1>5, <2>1
       DEF Dial, Accept, NotYetOpen, Gone, TypeOK
  <2> QED BY <1>1, <1>4, <2>2, <2>3 DEF IInv
<1>6. CASE ClientConnected
  <2> DEFINE lines == <<Control("VERSION")>>
  <2>1. /\ lines \in Seq(Line) /\ Len(lines) = 1
        /\ lines[1].cmd = "VERSION"
    BY LineTypes DEF Commands
  <2>2. /\ phase["client"] = "connecting" /\ phase'["client"] = "open"
        /\ Writes("client", lines)
    BY <1>0, <1>1, <1>6 DEF ClientConnected, TypeOK
  <2> HIDE DEF lines
  <2>3. /\ stage["client"] = "INIT" /\ stage["server"] = "INIT"
        /\ wire["server"] = <<>>
    BY <1>0, <2>2 DEF NotYetOpen
  <2>4. /\ wire'["client"] = wire["client"]
        /\ phase["server"] = "closed" => wire'["server"] = <<>>
        /\ phase["server"] # "closed" => wire'["server"] = lines
    <3>1. /\ wire'["client"] = wire["client"]
          /\ wire'["server"] = Arrives("server", lines)
      BY <1>0, <1>1, <2>1, <2>2, WritesFacts
    <3> QED BY <3>1, <2>1, <2>3, ConcatEmptySeq DEF Arrives
  <2>5. Channel("client")'
    BY <1>0, <1>1, <1>2, <1>3, <2>4, ChannelKept
  <2>6. Channel("server")'
    <3>1. ASSUME NEW i \in 1 .. Len(wire'["server"])
          PROVE  InPlace("server", i)'
      <4>1. phase["server"] # "closed"
        <5>1. phase["server"] = "closed" => Len(wire'["server"]) = 0
          BY <2>4
        <5> QED BY <5>1
      <4>2. wire'["server"] = lines
        BY <4>1, <2>4
      <4>3. i = 1
        BY <4>2, <2>1
      <4> QED BY <4>2, <4>3, <1>2, <2>1, <2>3
              DEF InPlace, OnWire, OnServerWire, StagesNow
    <3>2. /\ Complete("server")' /\ SyncOnItsWay("server")'
          /\ Queued("client")' /\ GotInOrder("server")'
      BY <1>0, <1>1, <1>2, <1>3, <2>3
         DEF Channel, Complete, SyncOnItsWay, Queued, GotInOrder
    <3> QED BY <3>1, <3>2, <1>1 DEF Channel
  <2>7. NotYetOpen' /\ Gone'
    BY <1>0, <1>1, <1>2, <1>3, <2>2, <2>4 DEF NotYetOpen, Gone
  <2> QED BY <1>1, <1>4, <2>5, <2>6, <2>7 DEF IInv
<1> QED BY <1>5, <1>6

\* An ordinary command is issued, and queued or written
LEMMA SendStep ==
    ASSUME IInv, TypeOK', NEW x \in Sides, SendCommand(x)
    PROVE  IInv'
<1>0. /\ TypeOK /\ Handshake /\ AuthOnce /\ NotYetOpen /\ Gone
      /\ \A z \in Sides : Channel(z)
  BY DEF IInv
<1>1. PICK y \in Sides :
        y = Peer(x) /\ x = Peer(y) /\ x # y /\ Sides = {x, y}
  BY PeerFacts
<1>2. /\ phase[x] \in {"connecting", "open"}
      /\ UNCHANGED <<phase, stage, auth, got>>
  BY DEF SendCommand
<1>3. /\ sent'[x] = sent[x] + 1 /\ sendQ'[x] = QueueAfter(x)
      /\ sent'[y] = sent[y] /\ sendQ'[y] = sendQ[y]
  BY <1>0, <1>1 DEF SendCommand, Issues, TypeOK
<1>4. wire'[x] = wire[x] /\ wire'[y] = Arrives(y, WritesNow(x))
  <2>1. WritesNow(x) \in Seq(Line) /\ Writes(x, WritesNow(x))
    BY <1>0, IssuesFacts DEF SendCommand
  <2> QED BY <2>1, <1>0, <1>1, WritesFacts
<1>5. Channel(x)'
  BY <1>0, <1>1, <1>2, <1>3, <1>4, ChannelKept
<1>6. Channel(y)'
  BY <1>0, <1>1, <1>2, <1>3, <1>4, CommandIssued
<1>7. Gone'
  BY <1>0, <1>1, <1>2, <1>3, <1>4 DEF Gone, Arrives
<1>8. NotYetOpen'
  <2>1. CASE stage[x] = "READY"
    BY <2>1, <1>0, <1>2, <1>1 DEF NotYetOpen, Sides
  <2>2. CASE stage[x] # "READY"
    <3>1. WritesNow(x) = <<>>
      BY <2>2, <1>0, IssuesFacts
    <3>2. wire[y] = <<>> => wire'[y] = <<>>
      BY <3>1, <1>4, EmptySeq, ConcatEmptySeq DEF Arrives
    <3> QED BY <3>2, <1>0, <1>1, <1>2, <1>4 DEF NotYetOpen, Sides
  <2> QED BY <2>1, <2>2
<1>9. Handshake' /\ AuthOnce'
  BY <1>0, <1>2 DEF Handshake, AuthOnce
<1> QED BY <1>1, <1>5, <1>6, <1>7, <1>8, <1>9 DEF IInv

\* What reading an ordinary line leaves: x's own direction is one line shorter
LEMMA ReadStep ==
    ASSUME IInv, NEW x \in Sides, NEW y \in Sides, y = Peer(x),
           NEW c \in {"JOIN", "NORMAL"}, Reads(x, c),
           NEW lines \in Seq(Line), ReadsAndWrites(x, lines),
           UNCHANGED <<phase, stage, auth>>,
           sendQ'[y] = sendQ[y]
    PROVE  /\ Handshake' /\ AuthOnce' /\ NotYetOpen' /\ Gone'
           /\ wire'[x] = Tail(wire[x])
           /\ wire'[y] = Arrives(y, lines)
           /\ lines = <<>> => wire'[y] = wire[y]
<1>0. /\ TypeOK /\ Handshake /\ AuthOnce /\ NotYetOpen /\ Gone
      /\ \A z \in Sides : Channel(z)
  BY DEF IInv
<1>1. Sides = {x, y} /\ x # y /\ wire[y] \in Seq(Line)
  BY <1>0, PeerFacts DEF TypeOK
<1>2. phase[x] = "open" /\ wire[x] # <<>>
  BY DEF Reads
<1>3. wire'[x] = Tail(wire[x]) /\ wire'[y] = Arrives(y, lines)
  BY <1>0, <1>2, ReadsAndWritesFacts
<1>4. lines = <<>> => wire'[y] = wire[y]
  BY <1>0, <1>1, <1>3, ConcatEmptySeq DEF Arrives, Gone
<1>5. phase["client"] \notin {"none", "connecting"}
  <2>1. Len(wire[x]) \in Nat \ {0} /\ wire[x][1].cmd = c
    <3>1. wire[x] \in Seq(Line)
      BY <1>0 DEF TypeOK
    <3>2. Len(wire[x]) \in Nat \ {0}
      BY <3>1, <1>2, EmptySeq
    <3>3. Head(wire[x]) = wire[x][1]
      BY <3>1, <3>2
    <3> QED BY <3>2, <3>3 DEF Reads
  <2>2. OnWire(x, c)
    BY <1>0, <2>1 DEF Channel, InPlace
  <2> QED
    BY <1>0, <1>2, <2>2
       DEF NotYetOpen, OnWire, OnServerWire, OnClientWire, StagesNow, Sides
<1>6. Handshake' /\ AuthOnce' /\ NotYetOpen'
  BY <1>0, <1>5 DEF Handshake, AuthOnce, NotYetOpen
<1>7. Gone'
  BY <1>0, <1>1, <1>2, <1>3 DEF Gone, Arrives
<1> QED BY <1>3, <1>4, <1>6, <1>7

LEMMA JoinStep ==
    ASSUME IInv, TypeOK', NEW x \in Sides, RecvJoin(x)
    PROVE  IInv'
<1>0. TypeOK /\ \A z \in Sides : Channel(z)
  BY DEF IInv
<1>1. PICK y \in Sides :
        y = Peer(x) /\ x = Peer(y) /\ x # y /\ Sides = {x, y}
  BY PeerFacts
<1>2. /\ Reads(x, "JOIN") /\ ReadsAndWrites(x, <<>>)
      /\ UNCHANGED <<phase, stage, auth, sendQ, sent, got>>
  BY DEF RecvJoin
<1>3. /\ Handshake' /\ AuthOnce' /\ NotYetOpen' /\ Gone'
      /\ wire'[x] = Tail(wire[x]) /\ wire'[y] = wire[y]
  <2>1. <<>> \in Seq(Line)
    BY EmptySeq
  <2> QED BY <2>1, <1>1, <1>2, ReadStep
<1>4. Channel(x)'
  BY <1>0, <1>2, <1>3, JoinRead
<1>5. Channel(y)'
  BY <1>0, <1>2, <1>3, ChannelKept
<1> QED BY <1>1, <1>3, <1>4, <1>5 DEF IInv

\* Processing a command, with or without an answer, keeps the invariant and
\* takes the next command of the peer
LEMMA NormalStep ==
    ASSUME IInv, TypeOK', NEW x \in Sides, RecvNormal(x) \/ RecvNormalAnswered(x)
    PROVE  /\ IInv'
           /\ stage[x] = "READY" /\ stage[Peer(x)] = "READY"
           /\ Head(wire[x]).num = Len(got[x]) + 1
           /\ Len(got[x]) < sent[Peer(x)]
<1>0. TypeOK /\ Handshake /\ Gone /\ \A z \in Sides : Channel(z)
  BY DEF IInv
<1>1. PICK y \in Sides :
        y = Peer(x) /\ x = Peer(y) /\ x # y /\ Sides = {x, y}
  BY PeerFacts
<1>2. /\ Reads(x, "NORMAL") /\ phase[x] = "open"
      /\ UNCHANGED <<phase, stage, auth>>
      /\ got'[x] = Append(got[x], Head(wire[x]).num) /\ got'[y] = got[y]
      /\ sent'[y] = sent[y] /\ sendQ'[y] = sendQ[y]
  BY <1>0, <1>1 DEF RecvNormal, RecvNormalAnswered, Issues, Reads, TypeOK
<1>3. PICK lines \in Seq(Line) :
        /\ ReadsAndWrites(x, lines)
        /\ RecvNormal(x) => lines = <<>>
        /\ ~RecvNormal(x) => lines = WritesNow(x)
  <2>1. <<>> \in Seq(Line) /\ WritesNow(x) \in Seq(Line)
    BY <1>0, EmptySeq, IssuesFacts
  <2> QED BY <2>1 DEF RecvNormal, RecvNormalAnswered
<1>4. /\ Handshake' /\ AuthOnce' /\ NotYetOpen' /\ Gone'
      /\ wire'[x] = Tail(wire[x])
      /\ wire'[y] = Arrives(y, lines)
      /\ lines = <<>> => wire'[y] = wire[y]
  BY <1>1, <1>2, <1>3, ReadStep
<1>5. /\ Channel(x)'
      /\ stage[x] = "READY" /\ stage[y] = "READY"
      /\ Head(wire[x]).num = Len(got[x]) + 1
      /\ Len(got[x]) < sent[y]
  BY <1>0, <1>1, <1>2, <1>4, NormalRead
<1>6. Channel(y)'
  <2>1. CASE RecvNormal(x)
    <3>1. sent'[x] = sent[x] /\ sendQ'[x] = sendQ[x]
      BY <2>1 DEF RecvNormal
    <3> QED BY <2>1, <3>1, <1>0, <1>1, <1>2, <1>3, <1>4, ChannelKept
  <2>2. CASE ~RecvNormal(x)
    <3>1. sent'[x] = sent[x] + 1 /\ sendQ'[x] = QueueAfter(x)
      BY <2>2, <1>0 DEF RecvNormalAnswered, Issues, TypeOK
    <3>2. wire'[y] = Arrives(y, WritesNow(x))
      BY <2>2, <1>3, <1>4
    <3> QED BY <3>1, <3>2, <1>0, <1>1, <1>2, CommandIssued
  <2> QED BY <2>1, <2>2
<1> QED BY <1>1, <1>4, <1>5, <1>6 DEF IInv

\* Every step preserves the inductive invariant
LEMMA InductiveStep ==
    ASSUME IInv, [Next]_vars
    PROVE  IInv'
<1>0. TypeOK'
  BY TypingStep DEF IInv
<1>1. CASE Dial \/ Accept \/ ClientConnected
  BY <1>0, <1>1, SetUpStep
<1>2. CASE Ends
  BY <1>0, <1>2, EndsRemove, EndStep
<1>3. CASE UNCHANGED vars
  BY <1>3 DEF vars, IInv, TypeOK, Handshake, AuthOnce, NotYetOpen, Gone, Channel,
              InPlace, Complete, SyncOnItsWay, Queued, GotInOrder, SyncBefore,
              OnWire, OnServerWire, OnClientWire, StagesNow
<1>4. ASSUME NEW x \in Sides,
             \/ SendCommand(x) \/ RecvVersion(x) \/ RecvAuth(x) \/ RecvJoin(x)
             \/ RecvSync(x) \/ RecvNormal(x) \/ RecvNormalAnswered(x)
      PROVE  IInv'
  BY <1>0, <1>4, SendStep, VersionStep, AuthStep, JoinStep, ServerSyncStep,
     ClientSyncStep, NormalStep DEF Sides
<1> QED BY <1>1, <1>2, <1>3, <1>4, NextCases

\* The inductive invariant holds: the pair of stages says what each wire
\* holds, and the commands in flight are numbered without a gap
THEOREM Invariance == Spec => []IInv
<1>1. Init => IInv
  <2> SUFFICES ASSUME Init
               PROVE  IInv
    OBVIOUS
  <2>1. TypeOK
    <3>1. \A S : <<>> \in Seq(S)
      BY EmptySeq
    <3> QED BY <3>1 DEF Init, TypeOK, Phases, Stages
  <2>2. /\ \A x \in Sides : /\ stage[x] = "INIT" /\ stage[Peer(x)] = "INIT"
                            /\ Len(wire[x]) = 0 /\ Len(sendQ[Peer(x)]) = 0
                            /\ got[x] = <<>> /\ Len(got[x]) = 0
                            /\ sent[Peer(x)] = 0
      /\ "client" \in Sides /\ "server" \in Sides
    BY PeerFacts DEF Init, Sides
  <2>3. ASSUME NEW x \in Sides
        PROVE  Channel(x)
    <3>1. \A i \in 1 .. Len(wire[x]) : InPlace(x, i)
      BY <2>2
    <3>2. Complete(x) /\ SyncOnItsWay(x)
      BY <2>2 DEF Complete, SyncOnItsWay
    <3>3. Queued(Peer(x)) /\ GotInOrder(x)
      <4>1. phase[Peer(x)] # "closed" => Len(sendQ[Peer(x)]) = sent[Peer(x)]
        BY <2>2
      <4>2. \A i \in 1 .. Len(sendQ[Peer(x)]) : FALSE
        BY <2>2
      <4>3. stage[Peer(x)] # "READY"
        BY <2>2
      <4>4. Len(got[x]) <= sent[Peer(x)] /\ \A i \in 1 .. Len(got[x]) : FALSE
        BY <2>2
      <4> QED BY <4>1, <4>2, <4>3, <4>4, <2>2 DEF Queued, GotInOrder
    <3> QED BY <3>1, <3>2, <3>3 DEF Channel
  <2>4. Handshake /\ AuthOnce /\ NotYetOpen /\ Gone
    BY <2>2 DEF Init, Handshake, AuthOnce, NotYetOpen, Gone
  <2> QED BY <2>1, <2>3, <2>4 DEF IInv
<1>2. IInv /\ [Next]_vars => IInv'
  BY InductiveStep
<1> QED BY <1>1, <1>2, PTL DEF Spec

-----------------------------------------------------------------------------
(* What follows from it                                                    *)

\* No line is ever read at a stage it is not meant for
THEOREM StageDiscipline == Spec => []LinesMeetTheirStage
<1>1. IInv => LinesMeetTheirStage
  <2> SUFFICES ASSUME IInv, NEW x \in Sides, phase[x] = "open", wire[x] # <<>>
               PROVE  stage[x] \in StageFor(Head(wire[x]).cmd)
    BY DEF LinesMeetTheirStage
  <2>1. TypeOK /\ Channel(x)
    BY DEF IInv
  <2>2. Head(wire[x]) = wire[x][1] /\ 1 \in 1 .. Len(wire[x]) /\ wire[x][1] \in Line
    <3>1. wire[x] \in Seq(Line)
      BY <2>1 DEF TypeOK
    <3>2. Len(wire[x]) \in Nat \ {0}
      BY <3>1, EmptySeq
    <3> QED BY <3>1, <3>2, ElementOfSeq
  <2>3. wire[x][1].cmd \in Commands /\ InPlace(x, 1) /\ ~SyncBefore(x, 1)
    BY <2>1, <2>2 DEF Channel, Line, SyncBefore
  <2>4. stage[x] \in Stages
    BY <2>1 DEF TypeOK
  <2> QED
    BY <2>2, <2>3, <2>4
       DEF InPlace, OnWire, OnServerWire, OnClientWire, StagesNow, StageFor,
           Commands, Sides
<1> QED BY <1>1, Invariance, PTL

\* The two ends become READY in a fixed order, after authenticating each other
THEOREM ReadyOrder == Spec => []ReadyInTurn
<1>1. IInv => ReadyInTurn
  BY DEF IInv, Handshake, AuthOnce, ReadyInTurn, Sides
<1> QED BY <1>1, Invariance, PTL

\* A link is a pair of FIFO channels that open in turn: every step is a step
\* of FifoLink or leaves what it shows alone
THEOREM Refinement == Spec => ImplementsFifo
<1> DEFINE R == [x \in Sides |-> stage[x] = "READY"]
<1>1. Init => Fifo!Init
  BY DEF Init, Fifo!Init, Fifo!Ends, Sides
<1>2. IInv /\ [Next]_vars => [Fifo!Next]_(Fifo!vars)
  <2> SUFFICES ASSUME IInv, [Next]_vars
               PROVE  [Fifo!Next]_(Fifo!vars)
    OBVIOUS
  <2>0. TypeOK /\ Handshake /\ TypeOK' /\ Handshake' /\ Sides = Fifo!Ends
    BY TypingStep, InductiveStep DEF IInv, Sides, Fifo!Ends
  <2>1. ASSUME UNCHANGED <<sent, got>>, UNCHANGED R
        PROVE  UNCHANGED Fifo!vars
    BY <2>1 DEF Fifo!vars
  <2>2. ASSUME UNCHANGED stage
        PROVE  UNCHANGED R
    BY <2>2
  <2>3. CASE Dial \/ Accept \/ ClientConnected
    BY <2>1, <2>2, <2>3 DEF Dial, Accept, ClientConnected
  <2>4. CASE Ends
    <3>1. UNCHANGED <<stage, sent, got>>
      BY <2>0, <2>4, EndsRemove, RemovedFacts
    <3> QED BY <2>1, <2>2, <3>1
  <2>5. CASE UNCHANGED vars
    BY <2>1, <2>2, <2>5 DEF vars
  <2>6. ASSUME NEW x \in Sides, SendCommand(x)
        PROVE  Fifo!Issue(x)
    <3>1. sent' = [sent EXCEPT ![x] = @ + 1] /\ UNCHANGED <<stage, got>>
      BY <2>6 DEF SendCommand, Issues
    <3> QED BY <3>1, <2>2 DEF Fifo!Issue
  <2>7. ASSUME NEW x \in Sides, RecvVersion(x) \/ RecvAuth(x)
        PROVE  UNCHANGED Fifo!vars
    <3>1. UNCHANGED <<sent, got>>
      BY <2>7 DEF RecvVersion, RecvAuth
    <3>2. stage[x] # "READY" /\ stage'[x] # "READY"
          /\ \A z \in Sides \ {x} : stage'[z] = stage[z]
      <4>1. PICK y \in Sides, c \in {"VERSION", "AUTH"} : y = Peer(x) /\ Reads(x, c)
        BY <2>7, PeerFacts DEF RecvVersion, RecvAuth
      <4>2. OnWire(x, c)
        BY <4>1, ControlRead
      <4> QED BY <2>0, <2>7, <4>1, <4>2
              DEF RecvVersion, RecvAuth, TypeOK,
                  OnWire, OnServerWire, OnClientWire, StagesNow, Sides
    <3> QED BY <2>1, <3>1, <3>2
  <2>8. ASSUME NEW x \in Sides, RecvJoin(x)
        PROVE  UNCHANGED Fifo!vars
    BY <2>1, <2>2, <2>8 DEF RecvJoin
  <2>9. ASSUME NEW x \in Sides, RecvSync(x)
        PROVE  Fifo!Open(x)
    <3>1. PICK y \in Sides : y = Peer(x)
      BY PeerFacts
    <3>2. OnWire(x, "SYNC")
      BY <2>9, <3>1, ControlRead DEF RecvSync
    <3>3. stage[x] # "READY" /\ (x = "client" => stage["server"] = "READY")
      BY <3>2 DEF OnWire, OnServerWire, OnClientWire, StagesNow, Sides
    <3>4. stage' = [stage EXCEPT ![x] = "READY"] /\ UNCHANGED <<sent, got>>
      BY <2>9 DEF RecvSync
    <3>5. R' = [R EXCEPT ![x] = TRUE]
      BY <2>0, <3>4 DEF TypeOK
    <3> QED BY <3>3, <3>4, <3>5 DEF Fifo!Open, Sides
  <2>10. ASSUME NEW x \in Sides, RecvNormal(x) \/ RecvNormalAnswered(x)
         PROVE  Fifo!Deliver(x) \/ Fifo!DeliverAndAnswer(x)
    <3>1. /\ stage[x] = "READY" /\ stage[Peer(x)] = "READY"
          /\ Head(wire[x]).num = Len(got[x]) + 1
          /\ Len(got[x]) < sent[Peer(x)]
      BY <2>0, <2>10, NormalStep
    <3>2. Peer(x) = Fifo!Other(x) /\ Peer(x) \in Sides
      BY PeerFacts DEF Peer, Fifo!Other
    <3>3. Fifo!Takes(x)
      BY <2>0, <2>10, <3>1, <3>2, ZenonT(60)
         DEF RecvNormal, RecvNormalAnswered, Fifo!Takes, TypeOK
    <3>4. UNCHANGED R
      BY <2>2, <2>10 DEF RecvNormal, RecvNormalAnswered
    <3>5. RecvNormal(x) => Fifo!Deliver(x)
      BY <3>3, <3>4 DEF RecvNormal, Fifo!Deliver
    <3>6. RecvNormalAnswered(x) => Fifo!DeliverAndAnswer(x)
      BY <3>3, <3>4 DEF RecvNormalAnswered, Issues, Fifo!DeliverAndAnswer
    <3> QED BY <2>10, <3>5, <3>6
  <2> QED
    BY <2>0, <2>3, <2>4, <2>5, <2>6, <2>7, <2>8, <2>9, <2>10, NextCases
       DEF Fifo!Next
<1> QED BY <1>1, <1>2, Invariance, PTL DEF Spec, ImplementsFifo, Fifo!Spec
=============================================================================
