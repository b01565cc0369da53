------------------------------ MODULE UserHash ------------------------------
(***************************************************************************)
(* The user hash: the bot's picture of the clients of its server, kept in  *)
(* four hash tables that are fed by two sources at once, the server's      *)
(* notices (connect, exit, nick change, oper) and the replies to TRACE,    *)
(* which arrive in one stream behind whatever the server had already sent. *)
(* The module also has what hangs on an entry: the clone check on connect, *)
(* the CTCP VERSION request with its timeout, and the count of clients     *)
(* whose growth raises an alarm.                                           *)
(***************************************************************************)
EXTENDS Integers, Sequences, SequencesExt, FiniteSets, FiniteSetsExt

CONSTANTS
  Conns,                \* the connections clients make to the server
  Nicks,                \* the nicknames
  NoIp,                 \* INADDR_NONE: the address is not known
  Subnet(_),            \* the class C net of an address; it picks the bucket
  Worlds,               \* the populations: see World below
  CloneMinCount, CloneMaxTime, CloneReportInterval,
  VersionTimeout, DeltaMax       \* the settings of those names

\* A world gives each connection a user, a host and an address (NoIp if the
\* notices do not show it), names the clients checkForSpoof turns away and
\* those the configuration exempts, says if TRACE shows addresses and if
\* CTCPVERSION_ENABLE is on, and bounds the events at the server and the ticks
\* of the clock.
World == [uh : [Conns -> Seq(STRING)], ip : [Conns -> STRING],
          spoofs : SUBSET Conns, friends : SUBSET Conns, traceIp : BOOLEAN,
          ctcp : BOOLEAN, maxEvents : Nat, maxTime : Nat]

ASSUME WorldsAreWorlds == \A w \in Worlds : w \in World
ASSUME SettingsArePositive ==
  CloneMinCount \in Nat /\ CloneMaxTime \in Nat \ {0}
  /\ CloneReportInterval \in Nat /\ VersionTimeout \in Nat /\ DeltaMax \in Int
ASSUME NickIsNoCommand == "TRACE" \notin Nicks
ASSUME ConnsAreFinite == IsFiniteSet(Conns)

VARIABLES
  world,                \* the population of this behaviour
  phase, nick, oper,    \* the server's truth about each connection
  out,                  \* what the bot has written and the server not served
  lines,                \* what the server has sent and the bot not read
  heap,                 \* the UserEntry objects, in the order of creation
  table,                \* the four hash tables: sequences of objects
  userCount, previous,  \* userCount, previousCount
  gettingTrace,         \* IRC::gettingTrace
  now,                  \* the clock
  events,               \* events at the server so far (bounded)
  \* History of the run, read by properties only:
  raced,                \* a connect or an exit was read during a TRACE
  overlapped,           \* a TRACE was asked for during a TRACE
  misled,               \* a client that was never added has exited
  joined,               \* clients added by notices since the last count
  answered,             \* clients whose VERSION reply has been read
  told                  \* host or net -> when a clone of it was last reported

server == <<phase, nick, oper>>
hash == <<heap, table, userCount, previous, gettingTrace>>
history == <<raced, overlapped, misled, joined, answered, told>>
vars == <<world, server, out, lines, hash, now, events, history>>

Tables == {"host", "domain", "user", "ip"}
Start == CloneMaxTime + 1        \* TRACE entries, of time 0, are never recent
Host(c) == world.uh[c][2]
Keys == {Host(c) : c \in Conns} \cup {Subnet(world.ip[c]) : c \in Conns}
          \cup {Subnet(NoIp)}
Online == {c \in Conns : phase[c] = "on"}

\* The bot has just become an operator (381) on a server with clients: the
\* hash is empty and the TRACE is on its way.
Init ==
  /\ world \in Worlds
  /\ phase \in [Conns -> {"new", "on"}]
  /\ nick \in [Conns -> Nicks \cup {"none"}]
  /\ \A c \in Conns : phase[c] = "new" <=> nick[c] = "none"
  /\ \A c, d \in Online : nick[c] = nick[d] => c = d
  /\ oper = [c \in Conns |-> FALSE]
  /\ out = <<"TRACE">> /\ lines = <<>> /\ heap = <<>>
  /\ table = [t \in Tables |-> <<>>]
  /\ userCount = 0 /\ previous = 0 /\ gettingTrace = TRUE
  /\ now = Start /\ events = 0
  /\ raced = FALSE /\ overlapped = FALSE /\ misled = FALSE
  /\ joined = 0 /\ answered = {}
  /\ told = [k \in Keys |-> 0]

-----------------------------------------------------------------------------
(* The server and its clients. *)

\* new and oper are what the line says besides: the nickname that replaces the
\* old one, the operator flag in a reply to TRACE.
Line(type, c, n) == [type |-> type, conn |-> c, nick |-> n, new |-> n, oper |-> FALSE]
Happens == events < world.maxEvents /\ events' = events + 1
ServerSide == UNCHANGED <<world, out, hash, now, history>>

\* A client registers with a nickname nobody uses; the server tells its opers.
Connect(c, n) ==
  /\ phase[c] = "new" /\ \A d \in Online : nick[d] # n
  /\ phase' = [phase EXCEPT ![c] = "on"]
  /\ nick' = [nick EXCEPT ![c] = n]
  /\ lines' = Append(lines, Line("connect", c, n))
  /\ Happens /\ UNCHANGED oper /\ ServerSide

Exit(c) ==
  /\ phase[c] = "on"
  /\ phase' = [phase EXCEPT ![c] = "gone"]
  /\ lines' = Append(lines, Line("exit", c, nick[c]))
  /\ Happens /\ UNCHANGED <<nick, oper>> /\ ServerSide

ChangeNick(c, n) ==
  /\ phase[c] = "on" /\ \A d \in Online : nick[d] # n
  /\ nick' = [nick EXCEPT ![c] = n]
  /\ lines' = Append(lines, [Line("nick", c, nick[c]) EXCEPT !.new = n])
  /\ Happens /\ UNCHANGED <<phase, oper>> /\ ServerSide

OperUp(c) ==
  /\ phase[c] = "on" /\ ~oper[c]
  /\ oper' = [oper EXCEPT ![c] = TRUE]
  /\ lines' = Append(lines, Line("oper", c, nick[c]))
  /\ Happens /\ UNCHANGED <<phase, nick>> /\ ServerSide

\* The server serves the bot's next command. TRACE lists every client and
\* ends; a VERSION request reaches whoever has the nickname now, and that
\* client answers it or does not. The order of the replies is the server's.
Serve ==
  /\ out # <<>>
  /\ out' = Tail(out)
  /\ IF Head(out) = "TRACE"
       THEN \E s \in SetToSeqs(Online) :
              lines' = lines
                \o [k \in DOMAIN s |->
                      [Line("user", s[k], nick[s[k]]) EXCEPT !.oper = oper[s[k]]]]
                \o <<Line("endtrace", "none", "none")>>
       ELSE \/ UNCHANGED lines
            \/ \E c \in Online : /\ nick[c] = Head(out)
                                 /\ lines' = Append(lines, Line("version", c, nick[c]))
  /\ UNCHANGED <<world, server, hash, now, events, history>>

-----------------------------------------------------------------------------
(* The tables. *)

\* UserEntry::matches: the nickname, the user and the host.
Matches(e, c, n) == e.nick = n /\ world.uh[e.conn] = world.uh[c]

\* Slip: only the head of the bucket is looked at.
FindUserAtHead(c, n) ==
  IF table["user"] # <<>> /\ Matches(heap[table["user"][1]], c, n)
    THEN table["user"][1] ELSE 0

\* UserHash::findUser: the first match in the user's bucket, or 0.
FindUser(c, n) ==
  LET found == {k \in DOMAIN table["user"] : Matches(heap[table["user"][k]], c, n)}
  IN  IF found = {} THEN 0 ELSE table["user"][Min(found)]

\* Slip: an entry without an address is looked for under the client's address.
AttemptsByAddress(t, c, n) ==
  LET loose == {k \in DOMAIN table[t] :
                  /\ world.uh[heap[table[t][k]].conn] = world.uh[c]
                  /\ t = "ip" => Subnet(heap[table[t][k]].ip) = Subnet(world.ip[c])}
  IN  <<{k \in loose : heap[table[t][k]].nick = n}, loose>>

\* removeFromHash and its fallbacks: the sets of places to try, in order. The
\* address table is tried in the bucket of the address, then in that of
\* INADDR_NONE; every table is tried with the nickname, then without.
Attempts(t, c, n) ==
  LET loose == {k \in DOMAIN table[t] :
                  world.uh[heap[table[t][k]].conn] = world.uh[c]}
      exact == {k \in loose : heap[table[t][k]].nick = n}
      In(S, ip) == {k \in S : Subnet(heap[table[t][k]].ip) = Subnet(ip)}
  IN  IF t # "ip" THEN <<exact, loose>>
      ELSE <<In(exact, world.ip[c]), In(exact, NoIp),
             In(loose, world.ip[c]), In(loose, NoIp)>>

Victim(t, c, n) ==
  LET hits == {i \in DOMAIN Attempts(t, c, n) : Attempts(t, c, n)[i] # {}}
  IN  IF hits = {} THEN 0 ELSE Min(Attempts(t, c, n)[Min(hits)])

Erased(t, c, n) ==
  IF Victim(t, c, n) = 0 THEN table[t] ELSE RemoveAt(table[t], Victim(t, c, n))

\* UserHash::remove: every table on its own; the count whatever they say. Each
\* erased entry is marked as disconnected.
RemoveUser(c, n) ==
  LET gone == {table[t][Victim(t, c, n)] : t \in {u \in Tables : Victim(u, c, n) # 0}}
  IN  /\ table' = [t \in Tables |-> Erased(t, c, n)]
      /\ heap' = [id \in DOMAIN heap |-> IF id \in gone
                    THEN [heap[id] EXCEPT !.connected = FALSE] ELSE heap[id]]
      /\ userCount' = userCount - 1

\* Slip: the tables stay.
ClearCounts == UNCHANGED <<table, heap>> /\ userCount' = 0 /\ previous' = 0

\* UserHash::clear
Clear == /\ table' = [t \in Tables |-> <<>>] /\ UNCHANGED heap
         /\ userCount' = 0 /\ previous' = 0

\* Slip: one clone too late.
DueLate(h, like) ==
  LET recent == {id \in like : now - h[id].at <= CloneMaxTime}
  IN  IF (\A id \in recent : h[id].report = 0) /\ Cardinality(recent) <= CloneMinCount
      THEN {} ELSE {id \in recent : h[id].report = 0}

\* The clones to report now among the entries of a key: those not reported of
\* the recent ones; none if these are too few and none of them was reported,
\* or if one was reported too lately.
Due(h, like) ==
  LET recent == {id \in like : now - h[id].at <= CloneMaxTime}
      reported == {id \in recent : h[id].report > 0}
      last == IF reported = {} THEN 0 ELSE Max({h[id].report : id \in reported})
  IN  IF \/ reported = {} /\ Cardinality(recent) < CloneMinCount
         \/ now - last < CloneReportInterval
      THEN {} ELSE recent \ reported

\* checkHostClones looks in the bucket of the host, checkIpClones in that of
\* the address, at the entries of the table with the new one.
HostClones(h, ids, c) == Due(h, {id \in ids : Host(h[id].conn) = Host(c)})
IpClones(h, ids, c) == Due(h, {id \in ids : Subnet(h[id].ip) = Subnet(world.ip[c])})

\* A client that has just connected and is not one of ours is checked: VERSION,
\* clones.
Checked(c, fromTrace) == ~fromTrace /\ c \notin world.friends
NewEntry(c, n, ip, fromTrace, isOper) ==
  [conn |-> c, nick |-> n, ip |-> ip, oper |-> isOper, report |-> 0,
   at |-> IF fromTrace THEN 0 ELSE now,
   versioned |-> IF Checked(c, fromTrace) /\ world.ctcp THEN now ELSE 0,
   connected |-> TRUE]
\* h has the new entry at its end.
NewClones(h, c, ip) ==
  IF ip = NoIp THEN HostClones(h, ToSet(Append(table["host"], Len(h))), c)
  ELSE IpClones(h, ToSet(Append(table["ip"], Len(h))), c)

\* UserHash::add: the entry goes to the end of all four tables.
Add(c, n, ip, fromTrace, isOper) ==
  LET h == Append(heap, NewEntry(c, n, ip, fromTrace, isOper))
      clones == IF Checked(c, fromTrace) THEN NewClones(h, c, ip) ELSE {}
  IN  /\ heap' = [i \in DOMAIN h |-> IF i \in clones
                    THEN [h[i] EXCEPT !.report = now] ELSE h[i]]
      /\ table' = [t \in Tables |-> Append(table[t], Len(h))]
      /\ userCount' = userCount + 1
      /\ out' = IF Checked(c, fromTrace) /\ world.ctcp THEN Append(out, n) ELSE out
      /\ told' = [k \in Keys |->
                    IF \E i \in clones : k \in {Host(h[i].conn), Subnet(h[i].ip)}
                      THEN now ELSE told[k]]

\* updateNick, updateOper: of the entry that is found, if one is.
UpdateNick(c, n, new) ==
  LET id == FindUser(c, n) IN IF id = 0 THEN heap ELSE [heap EXCEPT ![id].nick = new]
UpdateOper(c, n) ==
  LET id == FindUser(c, n) IN IF id = 0 THEN heap ELSE [heap EXCEPT ![id].oper = TRUE]

-----------------------------------------------------------------------------
(* What the bot does with the next line of the server. *)

Reads(type) == lines # <<>> /\ Head(lines).type = type /\ lines' = Tail(lines)
BotSide == UNCHANGED <<world, server, now, events>>
At == Head(lines).conn
AtNick == Head(lines).nick

OnConnect ==
  /\ Reads("connect")
  /\ raced' = (raced \/ gettingTrace)
  /\ IF At \in world.spoofs
       THEN UNCHANGED <<heap, table, userCount, out, told, joined>>
       ELSE Add(At, AtNick, world.ip[At], FALSE, FALSE) /\ joined' = joined + 1
  /\ UNCHANGED <<previous, gettingTrace, overlapped, misled, answered>> /\ BotSide

OnExit ==
  /\ Reads("exit")
  /\ RemoveUser(At, AtNick)
  /\ raced' = (raced \/ gettingTrace)
  /\ misled' = (misled \/ At \in world.spoofs)
  /\ UNCHANGED <<out, previous, gettingTrace, overlapped, joined, answered, told>>
  /\ BotSide

OnNick ==
  /\ Reads("nick")
  /\ heap' = UpdateNick(At, AtNick, Head(lines).new)
  /\ UNCHANGED <<out, table, userCount, previous, gettingTrace, history>> /\ BotSide

OnOper ==
  /\ Reads("oper")
  /\ heap' = UpdateOper(At, AtNick)
  /\ UNCHANGED <<out, table, userCount, previous, gettingTrace, history>> /\ BotSide

OnVersionReply ==
  /\ Reads("version")
  /\ LET id == FindUser(At, AtNick)
     IN  heap' = IF id = 0 THEN heap ELSE [heap EXCEPT ![id].versioned = 0]
  /\ answered' = answered \cup {At}
  /\ UNCHANGED <<out, table, userCount, previous, gettingTrace>>
  /\ UNCHANGED <<raced, overlapped, misled, joined, told>> /\ BotSide

\* A reply to TRACE counts only while a TRACE is thought to be running.
OnTraceUser ==
  /\ Reads("user")
  /\ IF ~gettingTrace \/ At \in world.spoofs
       THEN UNCHANGED <<heap, table, userCount, out, told>>
       ELSE Add(At, AtNick, IF world.traceIp THEN world.ip[At] ELSE NoIp, TRUE,
                Head(lines).oper)
  /\ UNCHANGED <<previous, gettingTrace, raced, overlapped, misled, joined, answered>>
  /\ BotSide

\* Slip: the replies are left to count as growth.
OnEndOfTraceNoReset ==
  /\ Reads("endtrace")
  /\ gettingTrace' = FALSE
  /\ joined' = IF gettingTrace THEN 0 ELSE joined
  /\ UNCHANGED <<previous, out, heap, table, userCount, raced, overlapped, misled>>
  /\ UNCHANGED <<answered, told>> /\ BotSide

OnEndOfTrace ==
  /\ Reads("endtrace")
  /\ gettingTrace' = FALSE
  /\ previous' = IF gettingTrace THEN userCount ELSE previous
  /\ joined' = IF gettingTrace THEN 0 ELSE joined
  /\ UNCHANGED <<out, heap, table, userCount, raced, overlapped, misled, answered, told>>
  /\ BotSide

\* IRC::trace, at 381 and on an operator's .reload users.
Trace ==
  /\ Clear
  /\ gettingTrace' = TRUE
  /\ out' = Append(out, "TRACE")
  /\ overlapped' = (overlapped \/ gettingTrace)
  /\ Happens
  /\ UNCHANGED <<world, server, lines, now>>
  /\ UNCHANGED <<raced, misled, joined, answered, told>>

\* checkVersionTimeout, every ten seconds: the action on those who are late.
Late(id) == heap[id].versioned > 0 /\ now - heap[id].versioned > VersionTimeout
CheckVersionTimeout ==
  /\ \E id \in ToSet(table["user"]) : Late(id)
  /\ heap' = [id \in DOMAIN heap |->
                IF id \in ToSet(table["user"]) /\ Late(id)
                  THEN [heap[id] EXCEPT !.versioned = 0] ELSE heap[id]]
  /\ UNCHANGED <<out, lines, table, userCount, previous, gettingTrace, history>>
  /\ BotSide

\* checkUserDelta, every ten seconds: the alarm, if the count grew too much.
Alarm == userCount - previous > DeltaMax
CheckUserDelta ==
  /\ previous # userCount \/ joined # 0
  /\ previous' = userCount /\ joined' = 0
  /\ UNCHANGED <<out, lines, heap, table, userCount, gettingTrace>>
  /\ UNCHANGED <<raced, overlapped, misled, answered, told>> /\ BotSide

Tick ==
  /\ now < Start + world.maxTime /\ now' = now + 1
  /\ UNCHANGED <<world, server, out, lines, hash, events, history>>

Read == \/ OnConnect \/ OnExit \/ OnNick \/ OnOper \/ OnVersionReply
        \/ OnTraceUser \/ OnEndOfTrace
Next ==
  \/ \E c \in Conns, n \in Nicks : Connect(c, n) \/ ChangeNick(c, n)
  \/ \E c \in Conns : Exit(c) \/ OperUp(c)
  \/ Serve \/ Read \/ Trace \/ CheckVersionTimeout \/ CheckUserDelta \/ Tick

Spec == Init /\ [][Next]_vars

-----------------------------------------------------------------------------
(* Properties. *)

\* The four tables are updated one by one, and each has its own fallbacks on
\* removal (userhash.cc:470-509). The three that are keyed by names hold the
\* same clients in the same order whatever happens. The fourth, keyed by the
\* address, does too, and no entry of it is marked as disconnected, unless
\* two entries are alike but for their addresses: after a connect or a second
\* TRACE has crossed a TRACE that shows none, or when a client that was turned
\* away exits, an exit takes one client out of three tables and another, or
\* none, out of the fourth.
NamesAgree == table["host"] = table["domain"] /\ table["host"] = table["user"]
AddressesAgree == /\ table["ip"] = table["host"]
                  /\ \A id \in ToSet(table["ip"]) : heap[id].connected
Undisturbed == ~overlapped /\ ~misled /\ ~raced
TablesAgree == NamesAgree /\ (Undisturbed => AddressesAgree)

Quiet == lines = <<>> /\ ~gettingTrace /\ "TRACE" \notin ToSet(out)
Known == Online \ world.spoofs

\* Once the bot has read what the server sent, each client that is online is
\* found by its nickname and address, whatever the order of connects, nick
\* changes and TRACE replies was; unless a second TRACE was begun within a
\* first, whose end then hides the second's replies. What is found is its own
\* entry, with the right operator flag, unless a connect crossed a TRACE: the
\* client is then there twice, a nick change renames one of the two, and the
\* other stands for whoever takes the nickname next.
EveryClientKnown ==
  Quiet /\ ~overlapped /\ ~misled =>
    \A c \in Known : LET id == FindUser(c, nick[c])
                     IN  /\ id # 0
                         /\ raced \/ (heap[id].conn = c /\ heap[id].oper = oper[c])

\* And it holds nobody else, nobody twice, and counts right, unless a connect
\* or an exit crossed a TRACE.
NoStrangers ==
  Quiet /\ Undisturbed =>
    /\ Len(table["user"]) = Cardinality(Known) /\ userCount = Cardinality(Known)
    /\ {heap[id].conn : id \in ToSet(table["user"])} = Known

\* The operators hear of clones: a client that arrived as one of CLONE_MIN_COUNT
\* or more unreported recent clients of its net (of its host, if its address is
\* not known) goes unreported only because a clone of that net or host was
\* reported less than CLONE_REPORT_INTERVAL before it came.
ClonesTold ==
  \A t \in {"host", "ip"} : \A id \in ToSet(table[t]) :
    LET y == heap[id]
        \* Those of y's kind that were there when y came, are there and unreported.
        with == {j \in ToSet(table[t]) :
                   /\ j <= id /\ heap[j].report = 0 /\ heap[j].at > 0
                   /\ y.at - heap[j].at <= CloneMaxTime
                   /\ IF t = "host" THEN Host(heap[j].conn) = Host(y.conn)
                      ELSE Subnet(heap[j].ip) = Subnet(y.ip)}
    IN  /\ t = "host" <=> y.ip = NoIp
        /\ y.at > 0 /\ y.report = 0 /\ y.conn \notin world.friends
        /\ Cardinality(with) >= CloneMinCount
        => y.at - told[IF t = "host" THEN Host(y.conn) ELSE Subnet(y.ip)]
             < CloneReportInterval

\* The alarm for a growing user count sounds only if more than DeltaMax
\* clients have connected since the last look. It is silent about a TRACE that
\* is complete; while one runs the count grows with its replies, and the alarm
\* may be false.
NoFalseAlarm ==
  [][CheckUserDelta /\ Alarm /\ ~gettingTrace => joined > DeltaMax]_vars

\* The action for a missing VERSION reply is never taken against a client whose
\* reply has been read, unless a stale twin of its entry took the reply.
OnlySilentPunished ==
  [][CheckVersionTimeout =>
       \A id \in ToSet(table["user"]) :
         Late(id) => heap[id].conn \notin answered \/ raced]_vars
=============================================================================
