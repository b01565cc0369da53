------------------------------ MODULE Sessions ------------------------------
(***************************************************************************)
(* The operators' sessions on DCC (dcc.cc, dcclist.cc), who they are by the *)
(* configuration (config.cc), what they may do (cmdparser.cc), what the     *)
(* bot remembers of them (watch.cc, userdb.cc), and the commands with which *)
(* they change traps and settings (module Settings).                        *)
(*                                                                          *)
(* What the sessions are sent is left out, and so are the commands that     *)
(* only send something.                                                     *)
(***************************************************************************)
EXTENDS Settings

CONSTANTS
  Slots,          \* the sessions there may be at a time
  Handles,        \* the handles of operators
  Watches,        \* what can be watched
  DefaultWatches, \* WatchSet::defaults
  Words,          \* the commands as they may be typed, abbreviated or not
  Commands,       \* the commands of which each of Words is the beginning
  ExactOnly,      \* the commands that must be typed in full
  Needs,          \* the flags a command needs
  Worlds          \* scenarios: who may ask for a session (a client is its user and
                  \* host, and its user and address), what operators may type, what
                  \* the network does, and whether the disk serves

ASSUME WorldsAssumption ==
  \A w \in Worlds : w.config \in w.configs /\ w.slots \subseteq Slots
\* The kinds of watches are finitely many, and none is called like a word for several.
ASSUME WatchesAssumption ==
  /\ IsFiniteSet(Watches) /\ DefaultWatches \subseteq Watches
  /\ Watches \cap {"ALL", "NONE", "DEFAULTS"} = {}
ASSUME LinesAssumption ==
  \A w \in Worlds : \A line \in w.watchLines : line \in Seq([sign : STRING, kind : STRING])
\* What is typed or in a file is cut into fields.
ASSUME TextsAssumption ==
  \A w \in Worlds : /\ \A line \in w.trapLines : IsTrapLine(line)
                    /\ \A line \in w.setLines : IsSetLine(line)
                    /\ AreLines(w.file)
\* .watch is for those who have authenticated themselves.
ASSUME NeedsAssumption == "AUTHED" \in Needs["WATCH"]

VARIABLES
  world,          \* the scenario
  running,        \* is the bot's process alive?
  config,         \* the O lines of the configuration in force
  sessions,       \* DCCList::listeners and connections
  records,        \* the user database: echo and watches of each handle
  typed           \* how many commands were typed (bound of the model)

desk == <<running, config, sessions, records, typed>>
vars == <<world, desk, kept>>

Off == "off"
NoRecord == <<>>

Session(client) ==
  [state |-> "listening", client |-> client, handle |-> "", flags |-> {},
   watches |-> DefaultWatches, echo |-> FALSE]

Init ==
  /\ world \in Worlds
  /\ running = TRUE
  /\ config = world.config
  /\ sessions = [s \in Slots |-> [state |-> Off]]
  /\ records = [h \in Handles |-> [echo |-> NoRecord, watches |-> NoRecord]]
  /\ typed = 0
  /\ InitSettings(world.file)

-----------------------------------------------------------------------------
(* Watches                                                                   *)

\* A word of .watch: a sign, and a kind of message, "ALL", "NONE" or "DEFAULTS"
Word(sign, kind) == [sign |-> sign, kind |-> kind]

\* One turn of WatchSet::set; a word that means nothing is passed over
WatchWord(set, word) ==
  CASE word = Word("", "NONE") \/ word = Word("-", "ALL") -> {}
    [] word.kind = "DEFAULTS" -> IF word.sign = "-" THEN set \ DefaultWatches
                                 ELSE IF word.sign = "+" THEN set \cup DefaultWatches
                                 ELSE DefaultWatches
    [] word.kind = "ALL" -> set \cup Watches
    [] word.kind \in Watches -> IF word.sign = "-" THEN set \ {word.kind} ELSE set \cup {word.kind}
    [] OTHER -> set

\* WatchSet::set
Watched(set, line) == FoldLeft(WatchWord, set, line)

\* Slip: only what is watched is named.
WatchNamesOn(set) ==
  LET names == SetToSeq(set) IN [i \in DOMAIN names |-> Word("+", names[i])]

\* getWatchNames, distinct: every kind with its sign
WatchNames(set) ==
  LET names == SetToSeq(Watches)
  IN  [i \in DOMAIN names |-> Word(IF names[i] \in set THEN "+" ELSE "-", names[i])]

-----------------------------------------------------------------------------
(* Who may do what                                                           *)

\* Slip: the flags are those of the handle's first O line.
AuthUserFirst(handle, userhost, password) ==
  LET Fits(i) == /\ config[i].handle = handle
                 /\ userhost \in config[i].hosts /\ config[i].password = password
  IN  {config[i] : i \in {i \in DOMAIN config :
         /\ config[i].handle = handle /\ \A j \in 1 .. i - 1 : config[j].handle # handle
         /\ \E j \in DOMAIN config : Fits(j)}}

\* Config::authUser: the handle's first O line whose mask and password fit, if any
AuthUser(handle, userhost, password) ==
  LET Fits(i) == /\ config[i].handle = handle
                 /\ userhost \in config[i].hosts /\ config[i].password = password
  IN  {config[i] : i \in {i \in DOMAIN config : Fits(i) /\ \A j \in 1 .. i - 1 : ~Fits(j)}}

\* Config::mayChat: under OPER_ONLY_DCC, those an O line covers
MayChat(client) ==
  world.operOnly => \E i \in DOMAIN config : {client.userhost, client.userip} \cap config[i].hosts # {}

\* CommandParser::parse: the command a word stands for: itself, or the only one it
\* abbreviates
Resolve(word) ==
  IF word \in Commands[word] THEN {word}
  ELSE LET partial == Commands[word] \ ExactOnly
       IN  IF Cardinality(partial) = 1 THEN partial ELSE {}

\* DCC::parse: session s has a command executed
Issues(s, command) ==
  /\ running
  /\ sessions[s].state = "open"
  /\ typed < world.commands
  /\ \E word \in Words : Resolve(word) = {command}
  /\ Needs[command] \subseteq sessions[s].flags
  /\ typed' = typed + 1
  /\ UNCHANGED world

-----------------------------------------------------------------------------
(* Sessions                                                                  *)

\* DCCList::listen, for a client that asked for a chat
Listen(s, client) ==
  /\ running
  /\ sessions[s].state = Off
  /\ MayChat(client)
  /\ sessions' = [sessions EXCEPT ![s] = Session(client)]
  /\ UNCHANGED <<world, running, config, records, typed, kept>>

\* ListenProcessor: the client connects; what the listener knew of it is copied
Accept(s) ==
  /\ running
  /\ sessions[s].state = "listening"
  /\ sessions' = [sessions EXCEPT ![s].state = "open"]
  /\ UNCHANGED <<world, running, config, records, typed, kept>>

\* ... or does not within a minute, or its session ends: .quit, the end of the
\* connection, or idle before it has authenticated itself
End(s) ==
  /\ running
  /\ sessions[s].state # Off
  /\ sessions' = [sessions EXCEPT ![s] = [state |-> Off]]
  /\ UNCHANGED <<world, running, config, records, typed, kept>>

\* UserDB: getEcho and getWatches of a handle that may have no record, setEcho and
\* setWatches, which replace it
GetEcho(handle, else) ==
  IF records[handle].echo = NoRecord THEN else ELSE records[handle].echo[1]
GetWatches(handle, else) ==
  IF records[handle].watches = NoRecord THEN else ELSE Watched(else, records[handle].watches)
SetEcho(handle, on) == records' = [records EXCEPT ![handle].echo = <<on>>]
SetWatches(handle, set) == records' = [records EXCEPT ![handle].watches = WatchNames(set)]

\* loadConfig: what the database has of the handle, if it can be read; the echo and
\* the watches are two reads, and either may fail
LoadConfig(session, echoRead, watchesRead) ==
  [session EXCEPT !.echo = IF echoRead THEN GetEcho(session.handle, @) ELSE @,
                  !.watches = IF watchesRead THEN GetWatches(session.handle, @) ELSE @]

Authorized(session, line) ==
  [session EXCEPT !.handle = line.handle, !.flags = line.flags \cup {"AUTHED"}]

\* cmdAuth: by user and host, else by user and address; a refusal changes nothing
CmdAuth(s, handle, password) ==
  LET client == sessions[s].client
      byHost == AuthUser(handle, client.userhost, password)
      found == IF byHost # {} THEN byHost ELSE AuthUser(handle, client.userip, password)
  IN  /\ Issues(s, "AUTH")
      /\ \/ found = {} /\ UNCHANGED sessions
         \/ \E line \in found : \E echoRead, watchesRead \in {TRUE, ~world.faulty} :
              sessions' = [sessions EXCEPT ![s] =
                  LoadConfig(Authorized(@, line), echoRead, watchesRead)]
      /\ UNCHANGED <<running, config, records, kept>>

Nobody == [s \in Slots |-> [state |-> Off]]

\* The process ends, and every session with it
Dies == running' = FALSE /\ sessions' = Nobody

\* cmdWatch: the session's set, and then its record.  If the record cannot be written
\* nothing catches the exception, and the bot ends.
CmdWatch(s, line) ==
  LET set == Watched(sessions[s].watches, line)
  IN  /\ Issues(s, "WATCH")
      /\ \/ /\ sessions' = [sessions EXCEPT ![s].watches = set]
            /\ SetWatches(sessions[s].handle, set)
            /\ UNCHANGED running
         \/ world.faulty /\ Dies /\ UNCHANGED records
      /\ UNCHANGED <<config, kept>>

\* cmdEcho: recorded for those who have authenticated themselves, if it can be
CmdEcho(s, on) ==
  /\ Issues(s, "ECHO")
  /\ sessions' = [sessions EXCEPT ![s].echo = on]
  /\ \/ /\ "AUTHED" \in sessions[s].flags
        /\ SetEcho(sessions[s].handle, on)
     \/ ("AUTHED" \notin sessions[s].flags \/ world.faulty) /\ UNCHANGED records
  /\ UNCHANGED <<running, config, kept>>

-----------------------------------------------------------------------------
(* Commands on what the bot keeps                                            *)

Masters(s) == "MASTER" \in sessions[s].flags

Trap(s, line) ==
  /\ Issues(s, "TRAP") /\ Masters(s)
  /\ CmdTrap(line, world.writable)
  /\ UNCHANGED <<running, config, sessions, records>>

Set(s, line) ==
  /\ Issues(s, "SET") /\ Masters(s)
  /\ CmdSet(line, world.writable)
  /\ UNCHANGED <<running, config, sessions, records>>

Save(s) == Issues(s, "SAVE") /\ CmdSave(world.writable) /\ UNCHANGED <<running, config, sessions, records>>
Load(s) == Issues(s, "LOAD") /\ CmdLoad /\ UNCHANGED <<running, config, sessions, records>>

\* Config::parse: a configuration is read as a whole, or it has an error
Parsed(new) == new # <<>>

\* reload: if the configuration can be parsed it takes the old one's place, and the
\* settings are loaded; the sessions stay as they are
Reload(new) ==
  IF Parsed(new) THEN config' = new /\ CmdLoad ELSE UNCHANGED <<config, kept>>

CmdReload(s) ==
  /\ Issues(s, "RELOAD")
  /\ \E new \in world.configs : Reload(new)
  /\ UNCHANGED <<running, sessions, records>>

CmdDie(s) == Issues(s, "DIE") /\ Dies /\ UNCHANGED <<config, records, kept>>

\* hangup: SIGHUP
Hangup ==
  /\ running
  /\ typed < world.commands /\ typed' = typed + 1
  /\ \E new \in world.configs : Reload(new)
  /\ UNCHANGED <<world, running, sessions, records>>

\* The process is killed
Crash ==
  /\ running /\ Dies
  /\ UNCHANGED <<world, config, records, typed, kept>>

\* main: the bot starts, if its configuration can be parsed
Start ==
  /\ ~running
  /\ typed < world.commands /\ typed' = typed + 1
  /\ running' = TRUE
  /\ config' \in {new \in world.configs : Parsed(new)}
  /\ Restart
  /\ UNCHANGED <<world, sessions, records>>

\* A client of the network does something a trap may match
Trapped(client) ==
  /\ running
  /\ typed < world.commands /\ typed' = typed + 1
  /\ Noticed(client)
  /\ UNCHANGED <<world, running, config, sessions, records>>

Next ==
  \/ \E s \in world.slots :
      \/ \E client \in world.clients : Listen(s, client)
      \/ Accept(s) \/ End(s)
      \/ \E handle \in Handles, password \in world.passwords : CmdAuth(s, handle, password)
      \/ \E line \in world.watchLines : CmdWatch(s, line)
      \/ \E on \in world.echoes : CmdEcho(s, on)
      \/ \E line \in world.trapLines : Trap(s, line)
      \/ \E line \in world.setLines : Set(s, line)
      \/ Save(s) \/ Load(s) \/ CmdReload(s) \/ CmdDie(s)
  \/ Hangup \/ Crash \/ Start
  \/ \E client \in world.offenders : Trapped(client)

Spec == Init /\ [][Next]_vars

-----------------------------------------------------------------------------
(* Properties                                                                *)

\* The flags a session has are those of one O line, of a configuration that was in
\* force, which covers the client, its user and host or its user and address, and
\* has the handle the session goes by: whatever it tried before and whichever of its
\* names fitted.
Entitled ==
  \A s \in Slots : sessions[s].state # Off /\ sessions[s].flags # {} =>
    \E c \in world.configs : \E i \in DOMAIN c :
      /\ c[i].handle = sessions[s].handle
      /\ {sessions[s].client.userhost, sessions[s].client.userip} \cap c[i].hosts # {}
      /\ sessions[s].flags = c[i].flags \cup {"AUTHED"}

\* An operator finds his watches again: when a session's watches change, by .watch or
\* by .auth, his record says the same, whatever the session that reads it watches.
Remembered ==
  [][\A s \in Slots :
        sessions[s].state = "open" /\ sessions'[s].state = "open"
          /\ sessions'[s].watches # sessions[s].watches
          => \A set \in SUBSET Watches :
                Watched(set, records'[sessions'[s].handle].watches) = sessions'[s].watches]_vars

\* SurvivesRestart, of the commands of this module
ChangesSurviveRestart == [][SurvivesRestart(world.writable)]_vars
=============================================================================
