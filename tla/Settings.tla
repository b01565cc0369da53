------------------------------ MODULE Settings ------------------------------
(***************************************************************************)
(* What the operators teach the bot: the traps (trap.cc, filter.cc), the    *)
(* settings (vars.cc, autoaction.cc) and the file both are kept in          *)
(* (config.cc).  A line of the file is read by the code that reads the      *)
(* commands .trap and .set, so both are records of one form here.           *)
(***************************************************************************)
EXTENDS Naturals, Sequences, SequencesExt, FiniteSets

CONSTANTS
  Fields,       \* the fields of a filter, in the order of Filter::Field
  Covers,       \* Covers[p]: the texts that pattern p matches
  Commas,       \* the glob patterns with a comma in them
  TrapActions,  \* what a trap may do
  Names,        \* the settings
  Starts,       \* Starts[w]: the settings whose name begins with word w
  AutoActions,  \* the settings that say what to do with an offender
  Valid,        \* Valid[n]: the words setting n takes
  Defaults,     \* Defaults[n]: its value when the bot starts
  Klines, Dlines \* the words of an automatic action that ban by mask, by address

ASSUME NamesAssumption ==
  /\ "AUTO_SAVE" \in Names /\ IsFiniteSet(Names)
  /\ AutoActions \subseteq Names
  /\ Names \subseteq DOMAIN Starts /\ \A n \in Names : n \in Starts[n]
  /\ \A w \in DOMAIN Starts : Starts[w] \subseteq Names
  /\ Commas \subseteq DOMAIN Covers
  /\ "REMOVE" \notin TrapActions
ASSUME DefaultsAssumption ==
  DOMAIN Defaults = Names /\ \A n \in Names : DOMAIN Defaults[n] = {"word", "servers", "duration"}
\* In place of a field's name where none is given
NoField == ""
\* Each field has a name, and one is for nick, user and host.
ASSUME FieldsAssumption ==
  /\ Len(Fields) \in Nat /\ DOMAIN Fields = 1 .. Len(Fields) /\ IsInjective(Fields)
  /\ NoField \notin ToSet(Fields) /\ "nuh" \in ToSet(Fields)

VARIABLES
  traps,        \* TrapList::traps, in the order of its keys
  settings,     \* the variables behind vars
  modified,     \* the settings that have been set
  file          \* the lines of the settings file

kept == <<traps, settings, modified, file>>

NoFile == <<[cmd |-> "absent"]>>
NoAt == <<"no servers given">>

\* A line of .trap and one of .set, from the keyboard or from the file
IsTrapLine(line) ==
  /\ line.cmd = "TRAP" /\ line.key \in Nat
  /\ Len(line.text) \in Nat \ {0} /\ DOMAIN line.text = 1 .. Len(line.text)
IsSetLine(line) ==
  /\ line.cmd = "SET" /\ line.name \in DOMAIN Starts
  /\ DOMAIN line.value = {"word", "servers", "duration"}
AreLines(lines) ==
  /\ Len(lines) \in Nat /\ DOMAIN lines = 1 .. Len(lines)
  /\ \A i \in DOMAIN lines : /\ lines[i].cmd = "TRAP" => IsTrapLine(lines[i])
                             /\ lines[i].cmd = "SET" => IsSetLine(lines[i])

\* The elements of a sequence at the places I, in their order
Picked(s, I) ==
  FoldLeft(LAMBDA part, i : IF i \in I THEN Append(part, s[i]) ELSE part, <<>>,
           [i \in DOMAIN s |-> i])

\* What the bot has in memory
Memory == [traps |-> traps, settings |-> settings, modified |-> modified]
Fresh == [traps |-> <<>>, settings |-> Defaults, modified |-> {}]

-----------------------------------------------------------------------------
(* Filters.  A text is a sequence of terms: a field's name, if one is given,  *)
(* and a pattern.                                                             *)

BadFilter == <<>>

\* grabPattern: a glob ends at a comma, and what follows has no "=": an unknown field
Grabbed(pattern) == pattern \in DOMAIN Covers \ Commas

\* parseFilter: "field=pattern,field=pattern".  A field given twice counts once.
ParseFilter(text) ==
  LET used == Picked(Fields, {j \in DOMAIN Fields : \E i \in DOMAIN text : text[i].field = Fields[j]})
      pattern(f) == text[Max({i \in DOMAIN text : text[i].field = f})].pattern
  IN  IF \E i \in DOMAIN text : \/ text[i].field \notin ToSet(Fields)
                                \/ ~Grabbed(text[i].pattern)
      THEN BadFilter
      ELSE [i \in DOMAIN used |-> [field |-> used[i], pattern |-> pattern(used[i])]]

\* Filter::Filter: a text without "=" is a pattern for nick, user and host.  An "=" is
\* looked for in all that follows, so that of a pattern and a reason with an "=" all
\* before it is taken for the name of a field, which none has.
FilterOf(text) ==
  IF \A i \in DOMAIN text : text[i].field = NoField
  THEN IF text[1].pattern \in DOMAIN Covers
       THEN <<[field |-> "nuh", pattern |-> text[1].pattern]>> ELSE BadFilter
  ELSE ParseFilter(text)

\* Filter::matches: of each field a client has one text or two
FilterMatches(filter, client) ==
  \A i \in DOMAIN filter : client[filter[i].field] \cap Covers[filter[i].pattern] # {}

-----------------------------------------------------------------------------
(* Traps                                                                     *)

\* Slip: the counts of a trap are reset whenever it is added again.
UpdateForgets(trap, action, timeout, reason) ==
  [trap EXCEPT !.action = action, !.timeout = timeout, !.reason = reason, !.count = 0]

\* Trap::update
Update(trap, action, timeout, reason) ==
  IF <<trap.action, trap.timeout, trap.reason>> = <<action, timeout, reason>> THEN trap
  ELSE [trap EXCEPT !.action = action, !.timeout = timeout, !.reason = reason, !.count = 0]

MaxKey(list) == IF list = <<>> THEN 0 ELSE list[Len(list)].key

\* TrapList::add: under a key only that key's traps are searched for the filter; a new
\* trap goes behind those of its key
AddTrap(list, line) ==
  LET filter == FilterOf(line.text)
      same == {i \in DOMAIN list : /\ list[i].filter = filter
                                   /\ line.key \in {0, list[i].key}}
      at == Min(same)
      key == IF line.key = 0 THEN MaxKey(list) + 100 ELSE line.key
      new == [key |-> key, action |-> line.verb, timeout |-> line.timeout,
              filter |-> filter, reason |-> line.reason, count |-> 0, loaded |-> TRUE]
  IN  IF same # {}
      THEN [list EXCEPT ![at] = [Update(list[at], line.verb, line.timeout, line.reason)
                                    EXCEPT !.loaded = TRUE]]
      ELSE InsertAt(list, Cardinality({i \in DOMAIN list : list[i].key <= key}) + 1, new)

\* TrapList::remove: every trap of a key, or the first whose filter reads so
RemoveKey(list, key) == Picked(list, {i \in DOMAIN list : list[i].key # key})
RemoveFilter(list, text) ==
  LET same == {i \in DOMAIN list : list[i].filter = text}
  IN  IF same = {} THEN list ELSE RemoveAt(list, Min(same))
RemoveTrap(list, line) ==
  IF line.key # 0 THEN RemoveKey(list, line.key) ELSE RemoveFilter(list, line.text)

\* TrapList::cmd: the list of traps after a line, and whether it was modified
TrapLine(list, line) ==
  IF line.verb = "REMOVE"
  THEN [list |-> RemoveTrap(list, line), done |-> RemoveTrap(list, line) # list]
  ELSE IF line.verb \in TrapActions /\ FilterOf(line.text) # BadFilter
       THEN [list |-> AddTrap(list, line), done |-> TRUE]
       ELSE [list |-> list, done |-> FALSE]

\* TrapList::match: the first trap that matches acts, and no other
Matched(list, client) ==
  LET hit == {i \in DOMAIN list : FilterMatches(list[i].filter, client)}
  IN  IF hit = {} THEN list ELSE [list EXCEPT ![Min(hit)].count = @ + 1]

-----------------------------------------------------------------------------
(* Settings.  A value has a word, and that of an automatic action servers    *)
(* and a duration.                                                           *)

\* setBoolean, setInteger, setString, and AutoAction::set of an action's first word
Accepted(name, value) == value.word \in Valid[name]

\* AutoAction::set: the servers of an action that is then refused stay
Assigned(name, old, value) ==
  LET servers == IF name \in AutoActions /\ value.servers # NoAt THEN value.servers
                                                                ELSE old.servers
  IN  IF Accepted(name, value)
      THEN [word |-> value.word, servers |-> servers, duration |-> value.duration]
      ELSE [old EXCEPT !.servers = servers]

\* getBoolean, getInteger, getString, AutoAction::get
Shown(value) ==
  [word |-> value.word,
   servers |-> IF value.word \in Klines /\ value.servers # <<>> THEN value.servers ELSE NoAt,
   duration |-> IF value.word \in Klines \cup Dlines THEN value.duration ELSE 0]

\* Vars::set: the settings that a word may stand for
Meant(word) == IF word \in Starts[word] THEN {word} ELSE Starts[word]

\* ... the only one, if it stands for one
Only(word) == CHOOSE n \in Meant(word) : TRUE

\* ... and memory after a line, and whether the setting was accepted
SetLine(m, line) ==
  LET name == Only(line.name)
      done == Cardinality(Meant(line.name)) = 1 /\ Accepted(name, line.value)
  IN  IF Cardinality(Meant(line.name)) # 1 THEN [memory |-> m, done |-> FALSE]
      ELSE [memory |-> [m EXCEPT !.settings[name] = Assigned(name, m.settings[name], line.value),
                                 !.modified = IF done THEN @ \cup {name} ELSE @],
            done |-> done]

AutoSave(s) == s["AUTO_SAVE"].word = "ON"

-----------------------------------------------------------------------------
(* The file                                                                  *)

\* Trap::getString, as TrapList::save asks for it: without the counts
TrapText(trap) ==
  [cmd |-> "TRAP", verb |-> trap.action, key |-> trap.key, timeout |-> trap.timeout,
   text |-> trap.filter, reason |-> trap.reason]
TrapLines(list) == [i \in DOMAIN list |-> TrapText(list[i])]

\* Vars::save: only what has been set
SetLines(m) ==
  LET names == SetToSeq(m.modified)
  IN  [i \in DOMAIN names |->
          [cmd |-> "SET", name |-> names[i], value |-> Shown(m.settings[names[i]])]]

\* Config::saveSettings
Saved(m) == TrapLines(m.traps) \o SetLines(m)

\* TrapList::preLoad
PreLoad(list) == [i \in DOMAIN list |-> [list[i] EXCEPT !.loaded = FALSE]]

\* TrapList::postLoad
PostLoad(list) == Picked(list, {i \in DOMAIN list : list[i].loaded})

\* One line of the file
ReadLine(m, line) ==
  IF line.cmd = "TRAP" THEN [m EXCEPT !.traps = TrapLine(m.traps, line).list]
  ELSE SetLine(m, line).memory

\* Config::loadSettings: the lines up to the first that is neither TRAP nor SET; the
\* settings that no line mentions stay as they are
Readable(lines) ==
  LET odd == {i \in DOMAIN lines : lines[i].cmd \notin {"TRAP", "SET"}}
  IN  IF odd = {} THEN lines ELSE SubSeq(lines, 1, Min(odd) - 1)
Loaded(m, lines) ==
  LET read == FoldLeft(ReadLine, [m EXCEPT !.traps = PreLoad(m.traps)], Readable(lines))
  IN  IF lines = NoFile THEN m ELSE [read EXCEPT !.traps = PostLoad(read.traps)]

-----------------------------------------------------------------------------
(* The commands                                                              *)

InitSettings(lines) ==
  /\ file = lines
  /\ traps = Loaded(Fresh, lines).traps
  /\ settings = Loaded(Fresh, lines).settings
  /\ modified = Loaded(Fresh, lines).modified

Becomes(m) == traps' = m.traps /\ settings' = m.settings /\ modified' = m.modified

\* The file after m was saved, or not, on a disk that may refuse
Written(m, saves, writable) == IF saves /\ writable THEN Saved(m) ELSE file

\* Slip: removing a trap does not save.
CmdTrapNoSave(line, writable) ==
  LET result == TrapLine(traps, line)
      m == [Memory EXCEPT !.traps = result.list]
  IN  /\ Becomes(m)
      /\ file' = Written(m, result.done /\ AutoSave(settings) /\ line.verb # "REMOVE", writable)

\* cmdTrap of a MASTER
CmdTrap(line, writable) ==
  LET result == TrapLine(traps, line)
      m == [Memory EXCEPT !.traps = result.list]
  IN  /\ Becomes(m)
      /\ file' = Written(m, result.done /\ AutoSave(settings), writable)

\* cmdSet of a MASTER
CmdSet(line, writable) ==
  LET result == SetLine(Memory, line)
  IN  /\ Becomes(result.memory)
      /\ file' = Written(result.memory, result.done /\ AutoSave(result.memory.settings), writable)

\* cmdSave
CmdSave(writable) == file' = Written(Memory, TRUE, writable) /\ UNCHANGED <<traps, settings, modified>>

\* cmdLoad, and reload after a change of configuration
CmdLoad == Becomes(Loaded(Memory, file)) /\ UNCHANGED file

\* The bot starts again
Restart == Becomes(Loaded(Fresh, file)) /\ UNCHANGED file

\* A client that no exemption and no O line covers comes to the notice of the traps
Noticed(client) == traps' = Matched(traps, client) /\ UNCHANGED <<settings, modified, file>>

-----------------------------------------------------------------------------
(* Properties                                                                *)

\* A trap without its counts, and a setting without its servers
TrapView(t) == [key |-> t.key, action |-> t.action, timeout |-> t.timeout,
                filter |-> t.filter, reason |-> t.reason]
View(m) == <<[i \in DOMAIN m.traps |-> TrapView(m.traps[i])],
             [n \in Names |->
                LET v == m.settings[n]
                IN  <<v.word, IF v.word \in Klines \cup Dlines THEN v.duration ELSE 0>>]>>

Reloadable(list) == \A i \in DOMAIN list : \A j \in DOMAIN list[i].filter :
                        list[i].filter[j].pattern \notin Commas

\* oomon.help of .load and .save: whatever is in memory, after a load the traps are
\* those of the file, and a trap that was in memory just so has kept its counts.
LoadAgrees ==
  LET after == Loaded(Memory, file).traps
      fresh == Loaded(Fresh, file).traps
  IN  file # NoFile =>
        /\ {TrapView(after[i]) : i \in DOMAIN after} = {TrapView(fresh[i]) : i \in DOMAIN fresh}
        /\ \A i \in DOMAIN after, j \in DOMAIN traps :
              TrapView(after[i]) = TrapView(traps[j]) => after[i].count = traps[j].count

\* oomon.help of AUTO_SAVE: a command that changes a trap or a setting while it is on
\* leaves a file from which the bot, started again, has the same traps in the same
\* order and the same settings.  (A glob with a comma is written so that it cannot be
\* read again, and the servers of a refused action are not written.)
SurvivesRestart(writable) ==
  View(Memory)' # View(Memory) /\ Memory' # Loaded(Memory, file) /\ AutoSave(settings)'
    /\ writable /\ Reloadable(traps')
      => View(Memory)' = View(Loaded(Fresh, file'))
=============================================================================
