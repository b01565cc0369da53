------------------------------- MODULE Floods -------------------------------
(***************************************************************************)
(* The flood counters, fed by the server's notices about what its clients  *)
(* do: NoticeList (possible flooders, spambots, failed OPERs, too many     *)
(* connections, connects), FloodList (LINKS, TRACE, MOTD, INFO, STATS),    *)
(* the list of joiners of juped channels and the list of nick changes.     *)
(* Each keeps an entry per source with a count and the time of its last    *)
(* notice, lets old entries expire when the next notice comes, and takes   *)
(* an action when a count is reached.                                      *)
(*                                                                         *)
(* The lists share nothing but the clock, so a behaviour is about one.     *)
(***************************************************************************)
EXTENDS Integers, Sequences, SequencesExt, FiniteSets, FiniteSetsExt

CONSTANTS
  Worlds,               \* the behaviours' lists: see World below
  NoIp,                 \* INADDR_NONE
  T1Time, T2Time,       \* NICK_CHANGE_T1_TIME and NICK_CHANGE_T2_TIME
  Pause,                \* five seconds between two reports of a nick flood
  MaxNotices, MaxClock  \* bounds: notices since the counters were cleared, ticks

\* A source of notices: a nickname, a user and host, the address the bot knows,
\* the juped channel, if the list exempts it (by E and O lines, most lists as an
\* operator too), if it is an operator, if it is on the bot's server.
Source == [nick : STRING, user : STRING, host : STRING, ip : STRING \cup {NoIp},
           channel : STRING, exempt : BOOLEAN, oper : BOOLEAN, local : BOOLEAN]
NoticeKinds == {"notice", "toomany", "connect"}
Kinds == NoticeKinds \cup {"flood", "jupe", "nick"}

\* A list, its sources, its ..._MAX_COUNT and ..._MAX_TIME.
World == [kind : Kinds, sources : SUBSET Source, maxCount : Int, maxTime : Int]

\* The bounds are those of the settings. FloodList's have none.
ASSUME WorldsAreWorlds ==
  \A w \in Worlds :
    /\ w.kind \in Kinds /\ \A s \in w.sources : s \in Source
    /\ w.maxCount \in Int /\ w.maxTime \in Int
    /\ w.kind \in NoticeKinds => w.maxCount >= 0 /\ w.maxTime >= 1
    /\ w.kind = "jupe" => w.maxCount >= 0 /\ w.maxTime >= 0
    /\ w.kind = "nick" => w.maxCount >= 1
ASSUME TimesAssumption ==
  /\ T1Time \in Nat \ {0} /\ T2Time \in Nat \ {0} /\ Pause \in Nat
  /\ MaxNotices \in Nat /\ MaxClock \in Nat
\* A NoticeList asks the configuration about the user@host and nothing else.
ASSUME ExemptByUserHost ==
  \A w \in Worlds : w.kind \in NoticeKinds =>
    \A s, t \in w.sources : s.user = t.user /\ s.host = t.host => s.exempt = t.exempt

VARIABLES
  world,                \* the list, its sources and limits
  list,                 \* std::list of entries
  now,
  up,                   \* FALSE once the process has crashed
  past                  \* history: the notices since the counters were cleared,
                        \* each with its source and whether it led to an action
vars == <<world, list, now, up, past>>

Init == /\ world \in Worlds /\ list = <<>> /\ now = 0 /\ up = TRUE /\ past = <<>>

MaxCount == world.maxCount
MaxTime == world.maxTime

Noted(s, acted) ==
  past' = Append(past, [at |-> now, src |-> s, acted |-> acted])
Notice(s, kinds) ==
  up /\ world.kind \in kinds /\ s \in world.sources /\ Len(past) < MaxNotices
  /\ UNCHANGED <<world, now>>

\* Slip: clients of the bot's own server are not looked up.
ExemptIfFar(s) == s.exempt /\ ~s.local

\* What each list asks before it acts.
Exempt(s) == s.exempt

-----------------------------------------------------------------------------
(* NoticeList *)

\* The equality of entries: by user@host; by host alone (TooManyConnNoticeEntry
\* with TOOMANY_IGNORE_USERNAME); by address, or host if either has none.
SameKey(a, b) ==
  IF world.kind = "connect" /\ a.ip # NoIp /\ b.ip # NoIp THEN a.ip = b.ip
  ELSE /\ a.host = b.host
       /\ world.kind \in {"toomany", "connect"} \/ a.user = b.user
       /\ world.kind = "jupe" => a.channel = b.channel

Places(l, s) == {k \in DOMAIN l : SameKey(l[k].src, s)}

\* std::list::remove_if and erase: what is left, in its order, if the entries at
\* the places in keep stay.
Left(l, keep) ==
  LET left[i \in 0..Len(l)] ==
        IF i = 0 THEN <<>>
        ELSE IF i \in keep THEN Append(left[i - 1], l[i]) ELSE left[i - 1]
  IN  left[Len(l)]
Alive(l) == Left(l, {k \in DOMAIN l : now - l[k].last <= MaxTime})

Fresh(s, count) == [src |-> s, first |-> s, count |-> count, last |-> now, next |-> 0]

\* triggered: too many in too short a time, and the entry is not exempt.
Triggered(e) == ~Exempt(e.first) /\ e.count + 1 > MaxCount /\ now - e.last <= MaxTime

\* Slip: the count goes on after the action.
UpdatedGoesOn(e, s) == [e EXCEPT !.src = s, !.last = now, !.count = @ + 1]

\* NoticeEntry::update. The nickname, host and address follow the last notice;
\* the user@host, by which it is exempt or not, stays that of the first.
Updated(e, s) ==
  [e EXCEPT !.src = s, !.last = now, !.count = IF Triggered(e) THEN 0 ELSE @ + 1]

\* NoticeList::onNotice: expire, find, append or update.
OnNotice(s) ==
  LET l == Alive(list)
      k == Places(l, s)
  IN  /\ Notice(s, NoticeKinds)
      /\ list' = IF k = {} THEN Append(l, Fresh(s, 1))
                 ELSE [l EXCEPT ![Min(k)] = Updated(@, s)]
      /\ Noted(s, k # {} /\ Triggered(l[Min(k)]))
      /\ UNCHANGED up

-----------------------------------------------------------------------------
(* FloodList and JupeJoinList *)

\* Both walk the list once: the source's entry is counted, an old entry of
\* another is erased. The walk goes on from the erased element (erase(pos);
\* --pos), which is undefined: it works, or the process crashes.
Stale(e) == e.last + MaxTime < now
Walked(s, Count(_)) ==
  LET kept == Left(list, {k \in DOMAIN list : SameKey(list[k].src, s) \/ ~Stale(list[k])})
  IN  [k \in DOMAIN kept |-> IF SameKey(kept[k].src, s)
         THEN [kept[k] EXCEPT !.src = s, !.last = now, !.count = Count(kept[k])]
         ELSE kept[k]]
ErasesAnother(s) == \E k \in DOMAIN list : Stale(list[k]) /\ ~SameKey(list[k].src, s)
MayCrash(s) == up' \in IF ErasesAnother(s) THEN BOOLEAN ELSE {TRUE}

\* FloodList::onNotice and addFlood: an operator's notice is left out. A new entry
\* counts nothing, an old one starts again with one; from MAX_COUNT on each notice
\* of a local client is acted on.
FloodCount(e) == (IF Stale(e) THEN 0 ELSE e.count) + 1
AddFlood(s) ==
  LET k == Places(list, s)
  IN  /\ Notice(s, {"flood"}) /\ ~s.oper
      /\ list' = IF k = {} THEN Append(Walked(s, FloodCount), Fresh(s, 0))
                 ELSE Walked(s, FloodCount)
      /\ Noted(s, /\ k # {} /\ FloodCount(list[Min(k)]) >= MaxCount
                  /\ s.local /\ ~Exempt(s))
      /\ MayCrash(s)

\* Slip: the entry is judged before it is counted.
AddJupeBefore(s) ==
  LET k == Places(list, s)
      Count(e) == IF Stale(e) THEN 1 ELSE e.count + 1
  IN  /\ Notice(s, {"jupe"})
      /\ list' = IF k = {} THEN Append(Walked(s, Count), Fresh(s, 1)) ELSE Walked(s, Count)
      /\ Noted(s, ~Exempt(s) /\ k # {} /\ list[Min(k)].count > MaxCount)
      /\ MayCrash(s)

\* JupeJoinList::add and checkJupe: a new entry counts one; above MAX_COUNT
\* each notice is acted on.
JupeCount(e) == IF Stale(e) THEN 1 ELSE e.count + 1
AddJupe(s) ==
  LET k == Places(list, s)
      count == IF k = {} THEN 1 ELSE JupeCount(list[Min(k)])
  IN  /\ Notice(s, {"jupe"})
      /\ list' = IF k = {} THEN Append(Walked(s, JupeCount), Fresh(s, 1))
                 ELSE Walked(s, JupeCount)
      /\ Noted(s, ~Exempt(s) /\ count > MaxCount)
      /\ MayCrash(s)

-----------------------------------------------------------------------------
(* Nick changes *)

Ticks(e) == (now - e.last) \div T1Time

\* t1expired and t2expired: too old, or leaked away.
NickAlive(e) == now - e.last < T2Time /\ Ticks(e) < e.count

\* addToNickChangeList: the count leaks one for every T1 since the last change;
\* at most one report in five seconds.
AddNickChange(s) ==
  LET l == Left(list, {k \in DOMAIN list : NickAlive(list[k])})
      k == Places(l, s)
      e == l[Min(k)]
      count == e.count - Ticks(e) + 1
      floods == k # {} /\ count >= MaxCount /\ now >= e.next
  IN  /\ Notice(s, {"nick"})
      /\ list' = IF k = {} THEN Append(l, Fresh(s, 1))
                 ELSE [l EXCEPT ![Min(k)] =
                         [e EXCEPT !.src = s, !.count = count, !.last = now,
                                   !.next = IF floods THEN now + Pause ELSE e.next]]
      /\ Noted(s, floods /\ ~Exempt(s))
      /\ UNCHANGED up

-----------------------------------------------------------------------------
\* initFloodTables, on the server's welcome: all but the juped channels.
InitFloodTables ==
  /\ up /\ past # <<>> /\ world.kind # "jupe"
  /\ list' = <<>> /\ past' = <<>>
  /\ UNCHANGED <<world, now, up>>

Tick == up /\ now < MaxClock /\ now' = now + 1 /\ UNCHANGED <<world, list, up, past>>

Next == \/ \E s \in world.sources :
             OnNotice(s) \/ AddFlood(s) \/ AddJupe(s) \/ AddNickChange(s)
        \/ InitFloodTables \/ Tick
Spec == Init /\ [][Next]_vars

-----------------------------------------------------------------------------
(* Properties: what the lists hold, and what they did, against the notices. *)

\* The notices of s among the first n, and those of them that led up to the last:
\* the ones after the last break, which is a pause longer than gap, or an action
\* if that starts the count again.
Mine(n, s) == {i \in 1..n : SameKey(past[i].src, s)}
Breaks(i, j, gap) ==
  past[j].at - past[i].at > gap \/ (world.kind \in NoticeKinds /\ past[i].acted)
Streak(n, s, gap) ==
  LET mine == Mine(n, s)
  IN  {k \in mine : \A i, j \in mine :
         k <= i /\ i < j /\ mine \cap (i+1)..(j-1) = {} => ~Breaks(i, j, gap)}
Run(n, s, gap) == Cardinality(Streak(n, s, gap))

\* The key of connects is no equivalence when some addresses are unknown.
Clear == \A a, b, c \in world.sources : SameKey(a, b) /\ SameKey(b, c) => SameKey(a, c)
GapToCount == IF world.kind = "nick" THEN T2Time - 1 ELSE MaxTime
GapToTell == IF world.kind # "nick" THEN MaxTime
             ELSE IF T1Time < T2Time THEN T1Time - 1 ELSE T2Time - 1
Least == IF world.kind \in {"flood", "nick"} THEN MaxCount ELSE MaxCount + 1

\* More than MAX_COUNT; and no list but that of juped channels acts on a first notice.
Enough == IF MaxCount > 0 THEN MaxCount + 1 ELSE IF world.kind = "jupe" THEN 1 ELSE 2

\* What the help calls flooding. For a NoticeList ..._MAX_TIME is the longest pause
\* "that may pass between" two notices; for the others ..._MAX_TIME, and T2 of the
\* nick changes, is "the number of seconds during which" they are all sent.
Window == IF world.kind = "nick" THEN T2Time ELSE MaxTime
Burst(n, s) ==
  {k \in Streak(n, s, GapToTell) :
     world.kind \in NoticeKinds \/ past[n].at - past[k].at <= Window}

\* An action is taken only against a source that has sent the least number of
\* notices, none of them too long after the one before: entries that expired,
\* other sources' notices and earlier actions do not count. For a NoticeList this
\* is what the help says of ..._MAX_TIME; for FloodList, the juped channels and the
\* nick changes the help says more, which PunishedWithinTime states.
PunishedAfterStreak ==
  Clear => \A n \in DOMAIN past :
             past[n].acted => Run(n, past[n].src, GapToCount) >= Least

\* And a source that floods as the help has it is acted on at the last notice,
\* whatever came in between, unless it is exempt, not local (FloodList), or was
\* reported within the pause (nick changes).
FloodersPunished ==
  Clear => \A n \in DOMAIN past :
    LET s == past[n].src IN
    /\ \A t \in world.sources : SameKey(s, t) => ~t.exempt /\ t.local
    /\ Cardinality(Burst(n, s)) >= Enough
    => \/ past[n].acted
       \/ world.kind = "nick" /\ \E i \in Mine(n - 1, s) :
            past[i].acted /\ past[n].at - past[i].at < Pause

\* An exempt client is acted on only if one who is not shares its key: a
\* NoticeList judges the first user@host and names the last nickname. And no
\* operator is by FloodList, whoever shares its user@host.
ExemptSpared ==
  Clear => \A n \in DOMAIN past :
    /\ past[n].acted /\ past[n].src.exempt =>
         /\ world.kind \in {"toomany", "connect"}
         /\ \E t \in world.sources : SameKey(t, past[n].src) /\ ~t.exempt
    /\ past[n].acted /\ past[n].src.oper => world.kind # "flood"

\* What the help says of FloodList, of the juped channels and of the nick changes
\* (oomon.help:1426): ..._MAX_TIME is "the number of seconds during which a client
\* may issue the /INFO command INFO_FLOOD_MAX_COUNT times". The code measures the
\* pause since the last notice only.
PunishedWithinTime ==
  Clear => \A n \in DOMAIN past :
    past[n].acted /\ world.kind \notin NoticeKinds =>
      Cardinality({k \in Mine(n, past[n].src) : past[n].at - past[k].at <= Window}) >= Least

=============================================================================
