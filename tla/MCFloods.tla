------------------------------ MODULE MCFloods ------------------------------
EXTENDS Floods
S(nick, user, host, ip, channel, exempt, local) ==
  [nick |-> nick, user |-> user, host |-> host, ip |-> ip, channel |-> channel,
   exempt |-> exempt, oper |-> FALSE, local |-> local]
A == S("a", "u", "h", "1", "#x", FALSE, TRUE)
B == S("b", "v", "g", "2", "#x", FALSE, TRUE)
Friend == S("c", "w", "h", "1", "#x", TRUE, TRUE)     \* the host and address of A
Hidden == S("d", "t", "h", "none", "#x", FALSE, TRUE) \* the host of A, no address
Far == S("e", "v", "f", "3", "#x", FALSE, FALSE)
Other == S("a", "u", "h", "1", "#y", FALSE, TRUE)     \* A at another channel
Chief == [A EXCEPT !.nick = "f", !.oper = TRUE]       \* the user@host of A
W(kind, sources, maxCount, maxTime) ==
  [kind |-> kind, sources |-> sources, maxCount |-> maxCount, maxTime |-> maxTime]
MCWorlds ==
  {W(k, s, 2, 2) : k \in NoticeKinds \cup {"nick"}, s \in {{A, B}, {A, Friend}}}
  \cup {W("connect", {A, Hidden}, 2, 2), W("connect", {B, Friend, Hidden}, 2, 2),
        W("flood", {A, B}, 2, 2), W("flood", {A, Chief}, 2, 2), W("flood", {Friend, Far}, 2, 2),
        W("jupe", {A, Other}, 2, 2), W("jupe", {B, Friend}, 2, 2)}
  \* limits at their least
  \cup {W("notice", {A}, 0, 1), W("nick", {A}, 1, 1), W("jupe", {A}, 0, 0), W("flood", {A}, 0, 0),
        W("flood", {A}, 1, 0), W("flood", {A, B}, 2, -1)}
SpanWorlds == {W("flood", {A}, 3, 2)}
=============================================================================
