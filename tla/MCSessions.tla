----------------------------- MODULE MCSessions -----------------------------
(***************************************************************************)
(* Four worlds for TLC: one master who teaches the bot traps and           *)
(* settings on good, edited and unwritable files, and two clients who come *)
(* and go under two handles.                                               *)
(***************************************************************************)
EXTENDS Sessions

MCFields == <<"nick", "nuh">>
MCCovers == [ann |-> {"ann"}, all |-> {"ann", "ann!a@h", "bob", "bob!b@h"}, comma |-> {"ann!a@h"}]

MCNames == {"AUTO_SAVE", "CLONE_ACTION", "CLONE_TIME"}
MCStarts == [AUTO_SAVE |-> {"AUTO_SAVE"}, CLONE_ACTION |-> {"CLONE_ACTION"},
             CLONE_TIME |-> {"CLONE_TIME"}, CLONE |-> {"CLONE_ACTION", "CLONE_TIME"}, CLONE_T |-> {"CLONE_TIME"}]
MCValid == [AUTO_SAVE |-> {"ON", "OFF"}, CLONE_ACTION |-> {"NOTHING", "KLINE", "DLINE_IP"},
            CLONE_TIME |-> {"5", "9"}]
Value(word, servers, duration) == [word |-> word, servers |-> servers, duration |-> duration]
MCDefaults == [AUTO_SAVE |-> Value("ON", <<>>, 0), CLONE_ACTION |-> Value("NOTHING", <<>>, 0),
               CLONE_TIME |-> Value("5", <<>>, 0)]

Line(verb, key, timeout, text, reason) ==
  [cmd |-> "TRAP", verb |-> verb, key |-> key, timeout |-> timeout, text |-> text, reason |-> reason]
SetTo(name, value) == [cmd |-> "SET", name |-> name, value |-> value]
Term(field, pattern) == [field |-> field, pattern |-> pattern]

Ann == <<Term("nick", "ann")>>
All == <<Term("nuh", "all")>>
TrapTexts == {
  Line("KILL", 0, 0, <<Term("", "all")>>, "out"),
  Line("KLINE", 5, 30, Ann, "bye"),
  Line("ECHO", 0, 0, Ann, ""),
  Line("KILL", 5, 0, <<Term("nuh", "all"), Term("nick", "ann")>>, "out"),
  Line("KILL", 0, 0, <<Term("", "comma")>>, "out"),
  Line("KILL", 0, 0, <<Term("all why", "ann")>>, "out"),  \* "all why=ann out"
  Line("BOGUS", 0, 0, Ann, "out"),
  Line("REMOVE", 5, 0, Ann, ""),
  Line("REMOVE", 0, 0, All, "")}
SetTexts == {
  SetTo("AUTO_SAVE", Value("OFF", NoAt, 0)), SetTo("AUTO_SAVE", Value("ON", NoAt, 0)),
  SetTo("CLONE_T", Value("9", NoAt, 0)), SetTo("CLONE", Value("9", NoAt, 0)),
  SetTo("CLONE_ACTION", Value("KLINE", <<"hub">>, 10)),
  SetTo("CLONE_ACTION", Value("BOGUS", <<"leaf">>, 10)),
  SetTo("CLONE_ACTION", Value("DLINE_IP", NoAt, 0))}

\* A file the bot wrote, and one somebody edited
Written1 == <<Line("KLINE", 5, 30, Ann, "bye"), SetTo("CLONE_TIME", Value("9", NoAt, 0))>>
Edited == <<Line("ECHO", 5, 0, Ann, ""), [cmd |-> "TARP"], Line("KILL", 7, 0, All, "out")>>

Near == [userhost |-> "a@near", userip |-> "a@1"]
Far == [userhost |-> "b@far", userip |-> "b@2"]
OLine(handle, hosts, password, flags) ==
  [handle |-> handle, hosts |-> hosts, password |-> password, flags |-> flags]
ManyLines == <<OLine("toast", {"a@near"}, "p", {"OPER", "MASTER"}),
               OLine("toast", {"a@near", "b@2"}, "q", {"OPER"}),
               OLine("jam", {"a@1"}, "p", {})>>
FewLines == <<OLine("toast", {"b@2"}, "q", {"OPER", "REMOTE"})>>
OneLine == <<OLine("toast", {"a@near"}, "p", {"OPER", "MASTER"})>>

MCNeeds == [AUTH |-> {}, ECHO |-> {}, WATCH |-> {"AUTHED"}, TRAP |-> {"OPER"}, TRACE |-> {"OPER"},
            SET |-> {"OPER"}, RELOAD |-> {"OPER"}, DIE |-> {"MASTER"}, DISCONN |-> {"MASTER"},
            SAVE |-> {"MASTER"}, LOAD |-> {"MASTER"}]
MCCommands == [w \in {"AUTH", "ECHO", "WATCH", "SET", "RELOAD", "DIE", "SAVE", "TRAP"} |-> {w}]
              @@ ("LO" :> {"LOAD"}) @@ ("TRA" :> {"TRAP", "TRACE"}) @@ ("DI" :> {"DIE", "DISCONN"})
MCWords == DOMAIN MCCommands

Teaching == [slots |-> {1}, clients |-> {Near}, config |-> OneLine, configs |-> {OneLine, <<>>}, operOnly |-> FALSE, faulty |-> FALSE,
             passwords |-> {"p"}, watchLines |-> {}, echoes |-> {}, trapLines |-> TrapTexts,
             setLines |-> SetTexts, offenders |-> {[nick |-> {"ann"}, nuh |-> {"ann!a@h"}]},
             commands |-> 6, writable |-> TRUE, file |-> Written1]
Edit == [Teaching EXCEPT !.file = Edited, !.commands = 5]
ReadOnly == [Teaching EXCEPT !.writable = FALSE, !.commands = 5, !.file = NoFile]

WatchTexts == {<<Word("-", "CHAT"), Word("+", "TRACES")>>, <<Word("+", "ALL")>>, <<Word("", "NONE")>>,
               <<Word("-", "DEFAULTS")>>, <<Word("+", "BOGUS"), Word("", "DEFAULTS")>>}
Coming == [slots |-> {1, 2}, clients |-> {Near, Far}, config |-> ManyLines, configs |-> {ManyLines, FewLines, <<>>}, operOnly |-> TRUE,
           faulty |-> TRUE, passwords |-> {"p", "q"}, watchLines |-> WatchTexts, echoes |-> BOOLEAN,
           trapLines |-> {}, setLines |-> {}, offenders |-> {}, commands |-> 5, writable |-> TRUE,
           file |-> NoFile]
FourWorlds == {Teaching, Edit, ReadOnly, Coming}
=============================================================================
