----------------------------- MODULE IrcServer -----------------------------
(***************************************************************************)
(* The connection to the IRC server and what the bot learns over it: main's *)
(* loop that connects, backs off and connects again, the registration       *)
(* (NICK, 433, 001, OPER, 381), and the list of K-lines, loaded by STATS K  *)
(* and STATS k and kept up to date by the server's notices.  D-lines are    *)
(* another instance of the same class with the same handlers.               *)
(*                                                                          *)
(* TRACE, which 381 asks for as well, is the subject of UserHash: here it   *)
(* is a request and its end.  The server, its other operators and the       *)
(* network are external.                                                    *)
(***************************************************************************)
EXTENDS Integers, Sequences, SequencesExt, FiniteSets

CONSTANTS
  Worlds,            \* the behaviours' settings: see World below
  Masks,             \* what a K-line is for
  NickLength,        \* length of the configured nickname
  MaxLength,         \* 9, the length from which a nickname is rotated
  WaitCap            \* 120, the wait from which it is no longer doubled

\* trackPerm, trackTemp: TRACK_PERM_KLINES and TRACK_TEMP_KLINES.  taken: the
\* nicknames in use, by the number of changes that lead to them.  cookie: the
\* server's first line is a PING to be answered, else a notice.  The others
\* bound a behaviour: changes by other operators, commands, disconnections.
World == [trackPerm : BOOLEAN, trackTemp : BOOLEAN, taken : SUBSET Nat, cookie : BOOLEAN,
          changes : Nat, commands : Nat, drops : Nat]
Line == [mask : Masks, temp : BOOLEAN]

ASSUME WorldsAreWorlds ==
  \A w \in Worlds : /\ w.trackPerm \in BOOLEAN /\ w.trackTemp \in BOOLEAN
                    /\ w.cookie \in BOOLEAN /\ w.taken \subseteq Nat
                    /\ w.changes \in Nat /\ w.commands \in Nat /\ w.drops \in Nat
ASSUME LengthsAreLengths ==
  /\ NickLength \in Nat \ {0} /\ MaxLength \in Nat /\ NickLength <= MaxLength
  /\ WaitCap \in Nat \ {0}

VARIABLES
  world,
  sock,              \* "off", "connecting" or "open"
  partial,           \* the buffer holds the beginning of a line
  wait, left,        \* attemptWait, and the time to nextConnectAttempt
  nick,              \* myNick, as the number of changes since config.nickname
  oper,              \* amIAnOper
  getting,           \* gettingTrace, gettingKlines, gettingTempKlines
  klines,            \* KlineList
  inbox, outbox,     \* lines on their way to the bot, and to the server
  up,                \* the server can be reached
  srv,               \* the server's view of the connection: the state of the
                     \* registration, the nickname, and whether it is alive
  lines,             \* the server's K-lines
  used               \* history: changes, commands and disconnections so far
bot == <<sock, partial, wait, left, nick, oper, getting, klines>>
vars == <<world, bot, inbox, outbox, up, srv, lines, used>>

Gone == [reg |-> "none", nick |-> -1, ponged |-> FALSE, alive |-> FALSE]

Init ==
  /\ world \in Worlds
  /\ sock = "off" /\ partial = FALSE /\ wait = 1 /\ left = 0 /\ nick = 0 /\ oper = FALSE
  /\ getting = {} /\ klines = <<>> /\ inbox = <<>> /\ outbox = <<>>
  /\ up = TRUE /\ srv = Gone /\ lines = {}
  /\ used = [changes |-> 0, commands |-> 0, drops |-> 0]

Use(what) == /\ used[what] < world[what]
             /\ used' = [used EXCEPT ![what] = @ + 1]

-----------------------------------------------------------------------------
(* The main loop *)

\* connect() fails at once: no address, or no route.  nextConnectAttempt is set
\* from the wait before it is doubled.
ConnectFails ==
  /\ sock = "off" /\ left = 0 /\ ~up
  /\ left' = wait
  /\ wait' = IF wait < WaitCap THEN 2 * wait ELSE wait
  /\ UNCHANGED <<world, sock, partial, nick, oper, getting, klines, inbox, outbox, up, srv,
                 lines, used>>

\* connect() has begun: that is a success already, and the wait is reset.
Connect ==
  /\ sock = "off" /\ left = 0
  /\ sock' = "connecting" /\ left' = wait /\ wait' = 1
  /\ UNCHANGED <<world, partial, nick, oper, getting, klines, inbox, outbox, up, srv, lines,
                 used>>

Tick == /\ left > 0 /\ left' = left - 1
        /\ UNCHANGED <<world, sock, partial, wait, nick, oper, getting, klines, inbox, outbox,
                       up, srv, lines, used>>

\* BotSock::reset.  The line buffer keeps what it has.
Reset == /\ sock' = "off" /\ inbox' = <<>> /\ outbox' = <<>> /\ srv' = Gone

\* Slip: the nickname of the last connection is taken for the one asked for.
EstablishedOldNick ==
  /\ sock = "connecting" /\ up
  /\ sock' = "open" /\ oper' = FALSE
  /\ outbox' = <<[t |-> "NICK", nick |-> 0]>>
  /\ inbox' = <<[t |-> IF world.cookie THEN "PING" ELSE "notice"]>>
  /\ srv' = [Gone EXCEPT !.alive = TRUE]
  /\ UNCHANGED <<world, partial, wait, left, nick, getting, klines, up, lines, used>>

\* The socket is ready for writing: IRC::onConnect.
Established ==
  /\ sock = "connecting" /\ up
  /\ sock' = "open" /\ nick' = 0 /\ oper' = FALSE
  /\ outbox' = <<[t |-> "NICK", nick |-> 0]>>
  /\ inbox' = <<[t |-> IF world.cookie THEN "PING" ELSE "notice"]>>
  /\ srv' = [Gone EXCEPT !.alive = TRUE]
  /\ UNCHANGED <<world, partial, wait, left, getting, klines, up, lines, used>>

\* Refused, or timed out: postSelect returns false, or throws.
Refused == /\ sock = "connecting" /\ ~up /\ Reset
           /\ UNCHANGED <<world, partial, wait, left, nick, oper, getting, klines, up, lines,
                          used>>

\* The end of the connection is read, or nothing for longer than the timeout
\* (the server no longer answers the PINGs of postSelect): IRC::quit.
EndOfFile ==
  /\ sock = "open" /\ inbox # <<>> /\ Head(inbox).t = "EOF"
  /\ partial' = (partial \/ Head(inbox).partial)
  /\ Reset
  /\ UNCHANGED <<world, wait, left, nick, oper, getting, klines, up, lines, used>>
TimesOut ==
  /\ sock = "open" /\ inbox = <<>> /\ ~srv.alive
  /\ oper' = FALSE /\ Reset
  /\ UNCHANGED <<world, partial, wait, left, nick, getting, klines, up, lines, used>>

-----------------------------------------------------------------------------
(* What the bot reads *)

\* The line m comes first.  The first line of a connection that follows one
\* which ended within a line is appended to that line's beginning and lost.
Reads(t) == /\ sock = "open" /\ inbox # <<>> /\ Head(inbox).t = t /\ ~partial
            /\ inbox' = Tail(inbox)
            /\ UNCHANGED <<world, sock, partial, wait, left, up, srv, lines, used>>
Writes(commands) == outbox' = outbox \o commands

ReadGarbled ==
  /\ sock = "open" /\ inbox # <<>> /\ Head(inbox).t # "EOF" /\ partial
  /\ inbox' = Tail(inbox) /\ partial' = FALSE
  /\ UNCHANGED <<world, sock, wait, left, nick, oper, getting, klines, outbox, up, srv, lines,
                 used>>

ReadNotice == Reads("notice") /\ UNCHANGED <<nick, oper, getting, klines, outbox>>
ReadPing == /\ Reads("PING") /\ Writes(<<[t |-> "PONG"]>>)
            /\ UNCHANGED <<nick, oper, getting, klines>>

\* 001: what was learnt over the last connection is forgotten.
Read001 ==
  /\ Reads("001") /\ Writes(<<[t |-> "OPER"]>>)
  /\ klines' = <<>> /\ getting' = {}
  /\ UNCHANGED <<nick, oper>>

\* Slip: the nickname that was asked for is asked for again.
OtherNickSame(n) == n

\* Another nickname: one longer, or from MaxLength on its first letter last;
\* as many turns lead back to the nickname they began with.
OtherNick(n) == IF n + 1 < MaxLength - NickLength + MaxLength THEN n + 1
                ELSE MaxLength - NickLength

\* 433, sent to "*": before the registration.
Read433 ==
  LET other == OtherNick(Head(inbox).nick)
  IN  /\ Reads("433")
      /\ nick' = other /\ Writes(<<[t |-> "NICK", nick |-> other]>>)
      /\ UNCHANGED <<oper, getting, klines>>

\* NICK: the server, or services, gave someone a nickname.
ReadNick ==
  /\ Reads("NICK")
  /\ nick' = IF Head(inbox).from = nick THEN Head(inbox).nick ELSE nick
  /\ UNCHANGED <<oper, getting, klines, outbox>>

\* IRC::reloadKlines
ReloadKlines ==
  /\ klines' = <<>>
  /\ getting' = getting \cup (IF world.trackPerm THEN {"K"} ELSE {})
                         \cup (IF world.trackTemp THEN {"k"} ELSE {})
Stats(temp) == [t |-> "STATS", temp |-> temp]
StatsRequests == (IF world.trackPerm THEN <<Stats(FALSE)>> ELSE <<>>)
                 \o (IF world.trackTemp THEN <<Stats(TRUE)>> ELSE <<>>)

\* 381: IRC::trace, then the lists.
Read381 ==
  /\ Reads("381") /\ oper' = TRUE
  /\ klines' = <<>>
  /\ getting' = getting \cup {"T"} \cup (IF world.trackPerm THEN {"K"} ELSE {})
                         \cup (IF world.trackTemp THEN {"k"} ELSE {})
  /\ Writes(<<[t |-> "TRACE"]>> \o StatsRequests)
  /\ UNCHANGED nick

\* 216, one line of STATS; it counts whether or not STATS was asked for.
Read216 ==
  LET line == Head(inbox).line
  IN  /\ Reads("216")
      /\ klines' = IF IF line.temp THEN world.trackTemp ELSE world.trackPerm
                   THEN Append(klines, line) ELSE klines
      /\ UNCHANGED <<nick, oper, getting, outbox>>

\* 219, the end of STATS; 262, the end of TRACE.
Read219 == /\ Reads("219") /\ getting' = getting \ {IF Head(inbox).temp THEN "k" ELSE "K"}
           /\ UNCHANGED <<nick, oper, klines, outbox>>
Read262 == /\ Reads("262") /\ getting' = getting \ {"T"}
           /\ UNCHANGED <<nick, oper, klines, outbox>>

\* KlineList::parseAndAdd: permanent lines are added whatever is tracked.
ReadAdded ==
  LET line == Head(inbox).line
  IN  /\ Reads("added")
      /\ klines' = IF ~line.temp \/ world.trackTemp THEN Append(klines, line) ELSE klines
      /\ UNCHANGED <<nick, oper, getting, outbox>>

\* Slip: only the first entry is removed.
WithoutFirst(mask) ==
  LET k == {j \in DOMAIN klines : klines[j].mask = mask}
  IN  IF k = {} THEN klines
      ELSE RemoveAt(klines, CHOOSE j \in k : \A i \in k : j <= i)

\* The entries at the places given. (The list is searched and never indexed: the
\* order of its entries says nothing.)
Entries(places) ==
  LET order == SetToSeq(places) IN [i \in DOMAIN order |-> klines[order[i]]]

\* KlineList::Remove: every entry for the mask, whatever its kind.
Without(mask) == Entries({k \in DOMAIN klines : klines[k].mask # mask})

\* KlineList::parseAndRemove and onExpireNotice
ReadRemoved ==
  LET line == Head(inbox).line
  IN  /\ Reads("removed")
      /\ klines' = IF ~line.temp \/ world.trackTemp THEN Without(line.mask) ELSE klines
      /\ UNCHANGED <<nick, oper, getting, outbox>>
ReadExpired == /\ Reads("expired") /\ klines' = Without(Head(inbox).line.mask)
               /\ UNCHANGED <<nick, oper, getting, outbox>>

\* onClearTempKlines
ReadClearing ==
  /\ Reads("clearing")
  /\ IF world.trackTemp
     THEN ReloadKlines /\ Writes(StatsRequests)
     ELSE UNCHANGED <<klines, getting, outbox>>
  /\ UNCHANGED <<nick, oper>>

-----------------------------------------------------------------------------
(* Commands of the bot's operators *)

Command(commands) ==
  /\ sock = "open" /\ srv.reg = "oper" /\ Use("commands") /\ Writes(commands)
  /\ UNCHANGED <<world, sock, partial, wait, left, nick, oper, inbox, up, srv, lines>>

\* .kline: IRC::kline, with minutes or without.
Kline(line) == Command(<<[t |-> "KLINE", line |-> line]>>) /\ UNCHANGED <<klines, getting>>

\* .unkline: the mask is sent as it was typed, be it in the list or not.
Unkline(mask) == Command(<<[t |-> "UNKLINE", mask |-> mask]>>) /\ UNCHANGED <<klines, getting>>

\* .findk -remove: KlineList::findAndRemove asks the server to remove every line
\* found, among the permanent, the temporary ones, or both.  The list waits for the
\* server's notices.
FindAndRemove(masks, perms, temps) ==
  LET found == Entries({k \in DOMAIN klines : /\ klines[k].mask \in masks
                                              /\ IF klines[k].temp THEN temps ELSE perms})
  IN  /\ Command([k \in DOMAIN found |-> [t |-> "UNKLINE", mask |-> found[k].mask]])
      /\ UNCHANGED <<klines, getting>>

\* .reload klines
Reload == ReloadKlines /\ Command(StatsRequests)

-----------------------------------------------------------------------------
(* The server, its operators and the network: external *)

Answers(messages) == inbox' = inbox \o messages
Handles(t) == /\ sock = "open" /\ srv.alive /\ outbox # <<>> /\ Head(outbox).t = t
              /\ outbox' = Tail(outbox)
              /\ UNCHANGED <<world, bot, up, used>>
Tells(message) == IF srv.reg = "oper" THEN Answers(<<message>>) ELSE UNCHANGED inbox

Welcomed(s) == s.nick # -1 /\ (s.ponged \/ ~world.cookie)
Registers(s) ==
  IF Welcomed(s) THEN /\ srv' = [s EXCEPT !.reg = "user"]
                      /\ Answers(<<[t |-> "001"]>>)
  ELSE srv' = s /\ UNCHANGED inbox

HandleNick ==
  LET n == Head(outbox).nick
  IN  /\ Handles("NICK") /\ UNCHANGED lines
      /\ IF n \in world.taken
         THEN Answers(<<[t |-> "433", nick |-> n]>>) /\ UNCHANGED srv
         ELSE Registers([srv EXCEPT !.nick = n])
HandlePong ==
  /\ Handles("PONG") /\ UNCHANGED lines
  /\ IF srv.reg = "none" THEN Registers([srv EXCEPT !.ponged = TRUE])
     ELSE UNCHANGED <<srv, inbox>>
HandleOper == /\ Handles("OPER") /\ Answers(<<[t |-> "381"]>>)
              /\ srv' = [srv EXCEPT !.reg = "oper"] /\ UNCHANGED lines
HandleTrace == Handles("TRACE") /\ Answers(<<[t |-> "262"]>>) /\ UNCHANGED <<srv, lines>>
HandleStats ==
  LET temp == Head(outbox).temp
      listed == SetToSeq({l \in lines : l.temp = temp})
  IN  /\ Handles("STATS") /\ UNCHANGED <<srv, lines>>
      /\ Answers([k \in DOMAIN listed |-> [t |-> "216", line |-> listed[k]]]
                 \o <<[t |-> "219", temp |-> temp]>>)

\* The server has one line for a mask: a second one is turned down.
Free(mask) == \A l \in lines : l.mask # mask
HandleKline ==
  LET line == Head(outbox).line
  IN  /\ Handles("KLINE") /\ UNCHANGED srv
      /\ IF Free(line.mask)
         THEN lines' = lines \cup {line} /\ Tells([t |-> "added", line |-> line])
         ELSE UNCHANGED <<lines, inbox>>
HandleUnkline ==
  LET found == {l \in lines : l.mask = Head(outbox).mask}
  IN  /\ Handles("UNKLINE") /\ UNCHANGED srv
      /\ lines' = lines \ found
      /\ IF found = {} THEN UNCHANGED inbox
         ELSE Tells([t |-> "removed", line |-> CHOOSE l \in found : TRUE])

Change == /\ up /\ Use("changes") /\ UNCHANGED <<world, bot, outbox, up>>
TellsIfAlive(message) == IF srv.alive THEN Tells(message) ELSE UNCHANGED inbox
LineAdded(line) == /\ Change /\ Free(line.mask) /\ lines' = lines \cup {line}
                   /\ TellsIfAlive([t |-> "added", line |-> line]) /\ UNCHANGED srv
LineRemoved(line) == /\ Change /\ line \in lines /\ lines' = lines \ {line}
                     /\ TellsIfAlive([t |-> "removed", line |-> line]) /\ UNCHANGED srv
LineExpires(line) == /\ Change /\ line \in lines /\ line.temp /\ lines' = lines \ {line}
                     /\ TellsIfAlive([t |-> "expired", line |-> line]) /\ UNCHANGED srv
TempsCleared == /\ Change /\ lines' = {l \in lines : ~l.temp}
                /\ TellsIfAlive([t |-> "clearing"]) /\ UNCHANGED srv
NickGiven(n) == /\ Change /\ srv.alive /\ srv.reg # "none" /\ n # srv.nick /\ n \notin world.taken
                /\ Answers(<<[t |-> "NICK", from |-> srv.nick, nick |-> n]>>)
                /\ srv' = [srv EXCEPT !.nick = n] /\ UNCHANGED lines

\* The connection is closed, perhaps within a line, or dies unnoticed; the server
\* does so of itself with a client that does not register.
Closes(within) == /\ sock = "open" /\ srv.alive /\ srv' = [srv EXCEPT !.alive = FALSE]
                  /\ Answers(<<[t |-> "EOF", partial |-> within]>>)
                  /\ UNCHANGED <<world, bot, outbox, lines>>
Drop(within) == Closes(within) /\ Use("drops") /\ up' = FALSE
TurnAway == Closes(FALSE) /\ srv.reg = "none" /\ inbox = <<>> /\ outbox = <<>>
            /\ UNCHANGED <<used, up>>
Dies == /\ sock = "open" /\ srv.alive /\ Use("drops") /\ srv' = [srv EXCEPT !.alive = FALSE]
        /\ up' = FALSE /\ UNCHANGED <<world, bot, inbox, outbox, lines>>
Repair == ~up /\ up' = TRUE /\ UNCHANGED <<world, bot, inbox, outbox, srv, lines, used>>

-----------------------------------------------------------------------------
Loop == \/ ConnectFails \/ Connect \/ Tick \/ Established \/ Refused \/ EndOfFile \/ TimesOut
Read == \/ ReadGarbled \/ ReadNotice \/ ReadPing \/ Read001 \/ Read433 \/ ReadNick \/ Read381
        \/ Read216 \/ Read219 \/ Read262 \/ ReadAdded \/ ReadRemoved \/ ReadExpired
        \/ ReadClearing
Handle == \/ HandleNick \/ HandlePong \/ HandleOper \/ HandleTrace \/ HandleStats
          \/ HandleKline \/ HandleUnkline
Commands == \/ \E line \in Line : Kline(line)
            \/ \E masks \in SUBSET Masks \ {{}}, kinds \in SUBSET BOOLEAN \ {{}} :
                 FindAndRemove(masks, FALSE \in kinds, TRUE \in kinds)
            \/ \E mask \in Masks : Unkline(mask)
            \/ Reload
Others == \/ \E line \in Line : LineAdded(line) \/ LineRemoved(line) \/ LineExpires(line)
          \/ TempsCleared
          \/ \E n \in 0 .. MaxLength : NickGiven(n)
          \/ \E within \in BOOLEAN : Drop(within)
          \/ Dies
Next == Loop \/ Read \/ Handle \/ TurnAway \/ Repair \/ Commands \/ Others

\* The bot's loop goes on, the server answers what it is sent, turns away who does
\* not register, and comes back.
Fairness == /\ WF_vars(Loop) /\ WF_vars(Read) /\ WF_vars(Handle) /\ WF_vars(TurnAway)
            /\ WF_vars(Repair)
Spec == Init /\ [][Next]_vars /\ Fairness

-----------------------------------------------------------------------------
Quiet == /\ sock = "open" /\ srv.alive /\ inbox = <<>> /\ outbox = <<>>

\* Once nothing is under way, the lines listed are the server's lines of the kinds
\* that are tracked, whatever crossed with the loading of the list, and nothing is
\* still waited for.  (Permanent lines come by notice even if they are not tracked:
\* then the list may miss some of them, but has none the server does not have.)
LinesAgree ==
  Quiet /\ oper => /\ ToSet(klines) \subseteq lines
                   /\ world.trackTemp => {l \in lines : l.temp} \subseteq ToSet(klines)
                   /\ world.trackPerm => {l \in lines : ~l.temp} \subseteq ToSet(klines)
                   /\ getting = {}

\* Once nothing is under way, the bot goes by the nickname the server knows it by;
\* otherwise messages to it would not be taken for its own.
KnowsOwnNick == Quiet /\ srv.reg # "none" => nick = srv.nick

\* However often the connection is refused, closed within a line or dies, and
\* whichever nicknames are in use: the bot is an operator again in the end.
Recovers == []<>(oper /\ sock = "open" /\ srv.reg = "oper" /\ srv.alive)
=============================================================================
