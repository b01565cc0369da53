# A TLA+ model of OOMon

OOMon is a bot for the operators of an IRC server. It watches the clients that
connect, scans them for open proxies, acts on clones, floods and traps, and
serves operators over DCC chats. Bots on several servers form a *botnet* over
TCP links. The program is one thread: `process()` in `main.cc` waits in
`select()` and then lets each component handle its sockets. What is hard is
therefore not shared memory but order: lines that cross on a link, links that
come up and fail while their news travels, notices that cross the answer to a
TRACE or STATS, answers that arrive after the state they were asked for has
changed, results kept for too long, counters with expiry, and files that are
merged into what is in memory.

## Inventory

| Component | State | Operations | Interacts with | Correct when | Module |
|---|---|---|---|---|---|
| `UserHash`, `UserEntry` (userhash.cc, userentry.cc) | four tables of the same clients, counts, report and VERSION times | add, remove, updateNick, updateOper, clear, clone checks, checkVersionTimeout, checkUserDelta | IRC, engine, scanner | the tables agree; whoever is online is known, once; clones are reported when due; alarms and punishments are true | `UserHash` |
| Reports (userhash.cc) | none of their own | .class, .domains, .nets, .multi and relatives, .clones, .seedrand | the tables | each client is counted once and with all it belongs with | `Reports` |
| `IRC` (irc.cc), main loop (main.cc) | socket, wait, nickname, oper state, STATS and TRACE in progress | connect, onConnect, onRead by numeric, quit | user hash, klines, engine | the bot knows what the server knows, and always comes back | `IrcServer` |
| `KlineList` (klines.cc) | permanent and temporary lines | Add, Remove, expire, reload | IRC | the list is the server's | `IrcServer` |
| Flood, jupe, notices (flood.cc, jupe.cc, notice.h, engine.cc) | an entry for each source | onNotice, add, expire, initFloodTables | engine, user hash | who floods is acted on, who does not is not, exempt clients are spared | `Floods` |
| Actions and masks (engine.cc, autoaction.cc, util.cc, pattern.cc) | none | doAction, klineMask, getDomain, glob matching | server | what is banned is the client it is about | `Masks` |
| Traps, filters, settings, their file (trap.cc, filter.cc, vars.cc, autoaction.cc, config.cc) | traps by key, values, modified flags, file | .trap, .set, .save, .load, match | sessions, user hash | what is saved is what is loaded | `Settings` |
| DCC, configuration, commands, watches, databases (dcc.cc, dcclist.cc, config.cc, cmdparser.cc, watch.cc, userdb.cc) | sessions, O lines, records | listen, accept, .auth, .watch, .echo, .reload, .die | settings | flags come from an O line that covers the client; watches are remembered | `Sessions` |
| `Remote` (remote.cc) | stage, registered commands, send queue, tree of bots behind the link | onConnect, onRead and a handler per command, sendCommand | its peer, `RemoteList`, DCC clients | the handshake neither stalls nor meets a wrong line; commands arrive once and in order | `RemoteLink` |
| `RemoteList`, `Links` (remotelist.cc, links.cc) | connections and their order | `.conn`, `.disconn`, relaying, findBot, getBotNet | every `Remote` | bots list each other rightly; no ring; the news dies out | `Botnet` |
| Proxy scanner (proxylist.cc, proxy.cc, socks4/5, http, httppost, wingate) | queue, running scans, cache of clean hosts | check, postSelect, addToCache | user hash, DNSBL, main loop | one scan per target, within the limit; open proxies are found and never cached; each scan ends | `ProxyScan` |
| DNSBL (dnsbl.cc, adnswrap.cc) | queries out, list of zones | check, checkZone, process, setZones | user hash, scanner | one verdict per client, against the zones of its time | `Dnsbl` |
| `BotSock` (botsock.cc) | connecting/connected, line buffer, timeout | connect, postSelect, read, reset | all of the above | no line lost or split; idle connections end | in its users |
| Services (services.cc) | report in progress, ISON poll | onXoNotice, check | IRC, user hash | reports are not mixed | - |
| Help, format, log, seedrand, mkpasswd | - | - | - | not a matter of state | - |

`PROJECT.json` lists the components with what each model leaves out, and the
hazards, each at its line, with the properties about them.

## What is modelled

### `UserHash`: the clients of the server

The server is part of the module: `phase`, `nick` and `oper` are its truth,
`lines` the one stream of notices and replies the bot reads, `out` what the bot
has written. There is one action per notice (`OnConnect`, `OnExit`, `OnNick`,
`OnOper`, `OnTraceUser`, `OnEndOfTrace`, `OnVersionReply`) and one for each thing
the bot does of itself (`Trace`, `CheckVersionTimeout`, `CheckUserDelta`).
`heap` are the `UserEntry` objects, `table[t]` the four hash tables as sequences
of objects: a bucket is the subsequence with one key, and what the code finds
first in a bucket it finds first here. `RemoveUser` has the four removals with
their different fallbacks; `Add` includes the clone check and the VERSION
request. The variables `raced`, `overlapped`, `misled`, `joined`, `answered` and
`told` are histories that only properties read: `raced` says a connect or exit
was read within a TRACE, `overlapped` that a TRACE was begun within a TRACE,
`misled` that a client the bot had turned away as spoofed has exited.

### `Reports`: what is printed from the tables

Each report is an operator over a sequence of clients and a hash function that
puts different names in one bucket. `Buckets` is a table; `PerBucket` the
loops that have a map for each bucket; `Window` the search of reportClones for
the most connections within fifteen seconds each. Clients only ever connect.

### `IrcServer`: connecting, registering, and the lists of bans

The main loop with `attemptWait` and `nextConnectAttempt`, `Established`
(`IRC::onConnect`), an action per line (`Read001`, `Read433`, `ReadNick`,
`Read381`, `Read216`, `Read219`, `Read262`, and the notices about K-lines), the
commands (`.kline`, `.unkline`, `.findk -remove`, `.reload klines`), and the ends of a
connection.
`partial` is the line buffer `BotSock::reset` keeps. A nickname is the number of
changes since the configured one. The server, the other operators and the
network are external actions. D-lines have the same class and handlers, and one
list is modelled.

### `Floods`: counters that expire

One list a behaviour: `NoticeList` with its three keys, `FloodList`,
`JupeJoinList` and the nick changes, with any count and time its settings permit
(zero for most, anything for `FloodList`). `flood.cc:94` and `jupe.cc:145` erase an
element and step back from the invalid iterator: `MayCrash` makes that a choice.
`FloodList::onNotice` leaves out operators, who are not counted; the other lists ask
for them when they act, which is part of `exempt`.
`past` is the history the properties judge the list against. What a flood is they
take from the help: for a `NoticeList` ..._MAX_TIME is the pause "that may pass
between" two notices (oomon.help:1165, 1345, 1736, 2053), for the other lists the time
"during which" the notices are sent (`Burst`). Who floods by that is acted on
(`FloodersPunished`). The converse holds of `NoticeList` only: the code measures
pauses in all of them, which is what `PunishedAfterStreak` says and where it parts with
the help (see the findings).

### `Masks`: who is banned

Operators only: domains, class C masks, K-line masks, the kinds of addresses, the
glob matcher, `doAction`, the traps' actions, and the masks for clones. Texts
are sequences of parts of names. The variables hold the case under study: a text and
a glob, an offender, or a pair of clones, which are two clients on one host
(`checkHostClones`), their addresses known or not, or in one class C net
(`checkIpClones`). SMatch calls itself with shorter masks, so that it is a function
from the places of the mask to the places of the text from where the rest matches
(`SMatchPlaces`); `Glob` is what a glob means, in the same form. Hosts are genuine
(`HostsAssumption`): a name that is an IPv4 address is the client's own, another has
a top level the bot knows and no characters of a mask, and the address is an IPv4
address if it is ever known. A name may have several addresses, and an address
several names or none: whether two clones share a name or a net is a condition
of what is said of their K-line.

### `Settings` and `Sessions`: what operators teach the bot

`Settings` has the traps in the order of their keys, the settings, which were
modified, and the file, whose lines are read by the code that reads the commands.
`Loaded` is `preLoad`, the lines, `postLoad`: traps are marked, updated, and swept.
`Sessions` extends it with the sessions (`Listen`, `Accept`, `End`), `.auth` over
O lines, the commands and the flags they need, reload by command and by SIGHUP,
the records of echo and watches, crashes and starts. A pattern is a name with
the set of texts it matches. `Filter` looks for a "=" in all that follows a trap's
action, so that a pattern without a field and a reason with a "=" make a filter with an
unknown field, and the trap is refused; in the text of such a line the field is
what stands before the "=". `loadConfig` reads the echo and the watches one after the
other, and either may fail.

### `RemoteLink`, `FifoLink`: one link

`RemoteLink` is a link between two bots that run this program: the dialling
one ("client") and the accepting one ("server"). `stage`, `auth` and `sendQ`
are `Remote::stage_`, whether AUTH is still registered, and `Remote::sendQ_`;
`wire[x]` is what has been written to x and not been read. There is one action
per handler: `ClientConnected` is `onConnect`, `RecvVersion` the first line in
`onRead`, `RecvAuth` `onAuth`, `RecvJoin` and `RecvSync` the two forms of
`onBotJoin`, `RecvNormal` any other command, `RecvRefused` any line whose
handler sends ERROR and returns false; `Eof`, `ConnectionReset`, `Timeout` and
`Disconn` are the ways a link ends. `sendCommand` with `queue = true` is
`WritesNow` and `QueueAfter`. Ordinary commands are numbered, and their contents
left out: what is said of them is order and delivery.

`FifoLink` is what the rest of the program relies on, a pair of FIFO channels
that open in turn. `ImplementsFifo` maps `RemoteLink` to it: a channel is open
at an end that is READY.

### `Botnet`: bots, links, and their trees

`Botnet` composes many links. `conns[b]` is `RemoteList::connections_` in its
order (findBot takes the first match), `tree[b][l]` the `Links` of a `Remote` as
its root and its edges in the order getBotList gives them. `RecvSync`, `RecvJoin`
and `RecvPart` tell the other links, writing or queueing as they are READY or
not; `Removal` is the BOTPART of RemoteProcess; `Disconn` removes a link without
it, as cmdDisconn does. The exchange of versions changes nothing but the two
ends' own stage and is left to `RemoteLink`.

A world's `patient` describes the operators, not the code: whether they wait
until both ends of the old link to a bot are gone before they dial it again. If
they do not, `ViewsAgree` fails: a BOTPART of the old link may reach other bots
after the BOTJOIN of the new one, and names only the bot.

### `ProxyScan`: the scanner

One pass of the main loop is `Select`, any number of `Check` and `Close`
(handlers of other connections, which check clients and close sockets), and
`ProxyList::postSelect` in its three parts: `Expire`, the starting of queued
scans (`StartScan`, `StartFails`, `NoSocket`), and `Process`. `at` says how far
the pass has come. A scan sits at its descriptor because the answer of
`select()` is kept by descriptor and may be stale when a descriptor is used
again. The bytes of the five protocols are abstracted to what a read leads to
(`Outcomes`). Time goes in ticks, and ages stop one past the limit they are
compared with. `world` holds what does not change while the bot runs: SCAN_MAX_COUNT,
SCAN_CACHE_SIZE, the descriptors of connections that may close, and the local
failures that occur. The other settings are constants.

### `Dnsbl`: the lookups before the scan

A check asks the zones one after the other; its query keeps the zones still to
be asked. `CheckZone` is the loop of `Dnsbl::checkZone`, `AnswerListed` and
`AnswerNotListed` are `Query::process`, `SetZones` is the change of the setting.
`listing` is what the zones would answer and never changes; `Flaky` are the zones
whose queries may be refused or fail. The branch of `Query::process` for ESRCH (libadns
knows no such query) is left out: a query is in the list from its submission to its
answer, and libadns has every one of these.

### How they compose

`Botnet` is made of links whose handshake `RemoteLink` has in full; `Sessions`
extends `Settings`. `UserHash` and `IrcServer` share the server's stream: the
first has TRACE and the clients, the second STATS and the bans, and each has the
other's request as a line without contents. `Dnsbl`'s verdict "clean" is
`ProxyScan`'s `Check`. `Reports` and `Masks` take the clients that `UserHash`
holds, `Floods` hands its offenders to `Masks`.

## What the runs check

| Run | Instance | Shows |
|---|---|---|
| users | 3 connections, 2 nicknames, five worlds: clones in one net over time; clones of one host without addresses; VERSION requests and their timeout; TRACE without addresses and four events; a spoofed client | `TablesAgree`, `EveryClientKnown`, `NoStrangers`, `ClonesTold`, `NoFalseAlarm`, `OnlySilentPunished` |
| irc | 2 masks, five worlds: both kinds of lines tracked, or one; nicknames in use, PING before registration, two disconnections | `LinesAgree`, `KnowsOwnNick`, and that the bot is an operator again in the end (`Recovers`) |
| floods | 21 worlds of one to three sources, five notices, seven ticks, limits of two and the least the settings permit (zero, and a negative time) | `PunishedAfterStreak`, `FloodersPunished`, `ExemptSpared` |
| flood_span | one flooder, a count of three, two ticks | a violation: see below |
| masks | texts up to four characters of two, globs up to five of five; 17 hosts, among them a name with two addresses and addresses with two names, 5 users, addresses known or not; users are cut at two characters (eight in the code) | `GlobMatches` against a reference that has none of SMatch's cases, `BansCover` |
| reports | up to 4 clients, names that share buckets, times around the limit | `ReportsAgree`, `ClonesFastest` against definitions over sets |
| desk | four worlds: a master's six commands; an edited file; a disk that cannot be written; two clients, two configurations, three O lines, a database that fails | `LoadAgrees`, `ChangesSurviveRestart`, `Entitled`, `Remembered` |
| link | 5 commands a side, bursts of 0 to 3 | `LinesMeetTheirStage`, `ReadyInTurn`, the refinement of `FifoLink`; the handshake ends and queued commands are flushed |
| net | a ring of three, lines of three and four, two bots that dial each other in haste beside a third; a failure each but in the ring | `ViewsAgree`, `NoPhantom`, `Forest`; the news dies out (`Settles`) |
| scan | 2 addresses, 2 probes; 2 scans at a time, a cache of one and no failures; 1 at a time, a cache of two and connects that fail; the same with sockets that run out and a connection that closes | `OneScanEach`, `CleanNotScanned`, `WithinLimit` in all three; scans end where sockets can be had (`ScansEnd`); open proxies are found and not cached where nothing fails (`OpenFound`, `OpenNotCached`) |
| dnsbl | 2 clients, 3 zones of which one is flaky, lists of 0, 2 and 3 zones | exactly one verdict, and none of "clean" against a zone that works |
| mask_domain | the masks run's instance | a violation: see below |

The largest are `net` (328,000 states), `floods` (1.5 million) and `users` (2.3 million).

### Findings

`mask_domain` ends in a violation of `TrapDomainCovers`. A trap with
KLINE_DOMAIN bans `"*@" + getDomain(host, true)`: the domain begins with a dot
(`*@.isp.com`), or for an address ends with one (`*@1.2.3.`), and there is no
star, so that the mask matches no client (trap.cc:282). `oomon.help:2660`
promises `*@*domain`, and the setting of the same name (autoaction.cc:300-308,
doAction) does put the star.

`flood_span` ends in a violation of `PunishedWithinTime`. `oomon.help:1426-1430` says
of INFO_FLOOD_MAX_TIME, and in the same words of LINKS, MOTD, TRACE, STATS and
JUPE_JOIN: "the number of seconds during which a client may issue the /INFO command
INFO_FLOOD_MAX_COUNT times". flood.cc:52 (and jupe.cc:127-137) compares it with the
pause since the last notice and goes on counting as long as no pause is longer: with a
count of 3 and a time of 2, notices at 0, 0, 1 and 3 are acted on, of which three
are in the last two seconds.

What else the models showed of the code is in the conditions of the properties
and in the hazards rather than in runs of its own:

- After `.disconn` no BOTPART is sent: bots behind other links go on listing the
  removed one (`Steady` in `Botnet` excludes it).
- With four bots, a BOTJOIN read before the BOTJOIN of its sender is lost to the
  tree, because the result of `Links::Link` is ignored (`ViewsAgree` is about three).
- With four bots that may all dial one another, a BOTJOIN that was queued for a
  handshake may be delivered after the BOTPART that took its link back, and go round:
  a bot may end up listing itself, for `isConnected` looks at the trees and not
  at the bot's own name. `NoPhantom` holds of the networks of `net`, not of every one.
- A BOTJOIN queued in a handshake may repeat one of the burst, and the peer drops
  the link.
- A scan that inherits the readable bit of a closed connection's descriptor ends
  at once and makes its host a clean one; so does one whose connect() fails at
  once (`OpenNotCached` asks for no such failure).
- A cache hit renews an entry, which may then never expire.
- A client that connects during a TRACE is in the tables twice, and the second
  entry outlives it (`raced`); a TRACE within a TRACE loses its replies
  (`overlapped`).
- A NoticeList judges the first user@host of an entry and acts on the last
  nickname: an exempt client may be acted on in the place of another
  (`ExemptSpared`).
- Globs with a comma in a trap cannot be read from the file again (`Reloadable`), and
  servers given with a refused action stay set but are not saved (`View`).
- A FloodList entry that is old when its next notice comes counts that one, where
  a new entry counts its first as none (flood.cc:52-58): with a count of 2 and a time
  of 2, notices at 0, 3 and 3 are acted on, though `oomon.help:1417-1419` permits two
  (`FloodersPunished` says who must be acted on, `PunishedAfterStreak` who may be).
- Two clones in one net with even the same address are banned by the host name of
  the second (engine.cc:248, for `oomon.help:968-970`): the first goes free if it has
  another name, as one has whose address did not resolve (`BansCover`).
- The masks for IPv6 hosts in klineMask and klineClones put the star before the
  net (`BansCover`).
- The K-line for two clones is worded from the second alone. If one name has two
  addresses in different nets and the ban is by the second's, it misses the first
  (the conditions in `BansCover`).

### Bounds

*users*: three clients are the fewest with two alike and a stranger; two
nicknames let one be taken over by another client. Three or four events at the
server with two ticks are enough for a client to come, be traced, change its
nickname, leave and return beside another. Clones count from two within two ticks, and the
interval between reports is two. `c1` and `c2` are alike in every world, so
that they, and the nicknames, are symmetric.
*irc*: two changes by others and one command cross the loading of the list at
every point; two disconnections let a second connection be garbled by the first
and be lost again; nicknames are rotated from length 3 on. The waits are cut at 4.
*floods*: limits of two notices and two ticks, so that five notices trip, reset
and trip again, and worlds with the least limits (a count of none, a time of
none or less); T1 = 2 and T2 = 7 let a nick count leak and expire.
*reports*: four clients make a window of three with one outside; one second a
connection stands for fifteen.
*desk*: six commands are teach, change, save or refuse, crash, start, load.
*link*: the handshake is a fixed sequence of lines, so that five commands a side
are enough to have some before, between and after all its steps; bursts
of zero, one and several lines are the cases `sendMyBotNet` has.
*net*: three bots are the fewest with news that is relayed, and a ring; four the
fewest with a link whose two ends both have bots behind them. Two dials of one
link and a failure let a link be replaced while the news of the old one is out.
*scan*: two probes of two addresses fill both slots, or the one, and leave scans
queued; a cache of one must give up entries, one of two could hold a target twice;
limits of one or two ticks let every timeout happen and be just missed.
*dnsbl*: the lists of zones have a flaky zone first and in the middle, and let
the setting change to fewer, more and other zones.

Deadlock is checked for the scanner and the lookups. Elsewhere
(`CHECK_DEADLOCK FALSE`) a behaviour really may stop: links that are closed,
a network whose dials are used up, a server without events left, a crashed
process, inputs that are exhausted.

### Fairness

The main loop calls the handlers of every socket in every pass and `select()`
returns within five seconds, so that a pending line, connection or end of file is
handled: weak fairness of the reading actions (`RemoteLink`), of `Serve` as a
whole (`Botnet`), of `Loop` and `Read` (`IrcServer`). Nothing is assumed of
operators, failures or clients; no fairness is put on `Timeout`, `Disconn`,
`Break`, `Drop` or `Dies`. Of the other side it is assumed that the network delivers what is
written to a connection that stays up, and in `IrcServer` that the server answers
what it is sent (`Handle`), turns away a client that does not register
(`TurnAway`) and comes back (`Repair`): without these no bot could recover.
In the scanner the steps of a pass are weakly fair and
`Select(1)` strongly: the clock goes on, however many passes happen within a
tick. `StartScan` needs weak fairness only, because where sockets can be had a pass
cannot go on to `Process` while a scan may be started. For the lookups every query is answered,
by a timeout of libadns if by nothing else. `UserHash`, `Floods` and `Sessions`
state safety only.

## What is proved

Every proof is for all values of the constants, from the named assumptions of the
modules: finite sets of addresses and probes, positive limits of the scanner, types of worlds.

`RemoteLink_proof` (for every `MaxSends` and `MaxBurst`): `Typing`,
`StageDiscipline`, `ReadyOrder`, and `Refinement`, the implementation of
`FifoLink`. None of them is inductive alone. That a line meets the right stage
follows from what is *behind* it and from what the other end has done, so
`IInv` says: the pair of stages is one of the seven the handshake goes through
(`Handshake`); each kind of line is on a wire only at one of those pairs
(`OnWire`); only the BOTJOINs of a burst are followed by another line of the
handshake (`InPlace`); the end of the burst is on the wire as long as its reader is not READY
(`SyncOnItsWay`); and the ordinary commands, those processed, those on the wire
and those in the queue, are numbered without a gap (`Complete`, `Queued`,
`GotInOrder`). The proof shows one direction at a time (`Channel`) and one lemma per
way an action moves the wires.

`ProxyScan_proof` (for any addresses, probes, limits, descriptors and failures):
`Typing`, `ScansApart`, `CleanLeftAlone`, `Limited`. The conjunction of the four
is inductive: that a target added to the cache has no scan elsewhere needs that
it was scanned once, and that needs that nothing is queued that is running. The
proof uses the finiteness of addresses, probes and descriptors, that
limits are positive, and that a descriptor is held by one connection, which is in
`TypeOK`. `OpenNeverClean` is about the behaviours `[][Calm]_vars`, in which no
`connect()` fails at once and no connection is closed between `select()` and the
use of its answer: then no open proxy is in the cache. Without `Calm` it is false, as
the findings say. The invariant adds that
`select()` reports only descriptors that are held (`ReadyHeld`) and that the scan
of an open proxy gets on before its timeouts are reached (`OpenOnTime`). `OpenNeverCleanAlone`
is `OpenNotCached`, the case without other connections and with a `connect()` that never
fails at once.

`Floods_proof` (for any sources, limits and times): `OnlyFloodersPunished`,
`EveryFlooderPunished`, `ExemptAreSpared`. The properties compare the list with the
history `past`, so the invariant says what an entry knows of it: the time of its
source's last notice, and a count that lies between the lengths of two streaks of
that source, the one that no pause interrupts and the one that only a pause long
enough to empty the entry does. The streaks have any length; that they grow by one
with each notice is shown by induction. It is assumed that a world has the counts
and times its settings permit (`WorldsAreWorlds`): for a `NoticeList` a count of zero
or more and a time of one or more, for the juped channels both zero or more, for
nick changes a count of one or more, for `FloodList` any; that T1 and T2 of the nick
changes are positive (`TimesAssumption`); and that whether a client is
exempt depends on its user@host (`ExemptByUserHost`), which is all that
`Config::isExempt` and `Config::isOper` are asked about by a `NoticeList`.

`Dnsbl_proof` (for any clients, zones, lists and failing lookups): `Verdict` and
`NoneSlips`. The invariant says that a client has one query or one verdict
(`OneAtATime`), and of every query that the zones passed over, those
of the list the check began with up to the one asked, are flaky or do not list the
client (`AskedInTurn`). The rest of a sequence of zones is what the lemmas about
`Rest` are for.

`UserHash_proof` (for any clients, nicknames, worlds and settings) has all
properties of the run. `AlarmTrue` comes from `Counting`, which ties
`userCount - previous` to the clients added since the last look unless a TRACE
runs; `NamesNeverPart` from the fact that the tables by host, domain and user add at
the end and remove the same object; `TypeInvariance` is the types, with the facts
that tables have no repetition and that their objects were created in order;
`ClonesHeard` adds that `told` is never before the report an entry remembers
(`ReportsKnown`), so that a client which goes unreported can only have been held
back by an earlier report.

`AnsweredAreSpared`, `ClientsKnown`, `TablesNeverPart` and `NobodyElse` speak of
moments at which nothing is under way, and are far from inductive. What is
inductive relates the hash to the lines it has not read: there is a *path of truths*
`h`, one for each line on its way and one more (`Path`), such that each line leads
from a truth to the next and the last is what the server knows now. The hash agrees
with the first one (`Own`: each entry is its client's, and while a TRACE is
answered nobody who is still to be listed has an entry), has from it who
answered VERSION (`Answered`), and holds everybody it names but those whom a reply
on its way will bring (`Awaited`). Replies to one TRACE are an unbroken block
(`Blocks`), and only one is on its way unless they overlap (`Lone`). An event lengthens the path at
its end, a line read shortens it at its beginning. `Followed` puts these
together, `Placed` adds the address table, whose removal has fallbacks
of its own. TLC checked the invariant on the users run's instance first, with the
path found by enumeration.

`IrcServer_proof` (for any masks, lengths of nicknames, settings, and numbers of
changes, commands and disconnections): `ListTrue` and `NickKnown`. Both speak of
moments at which nothing is under way, and such a property is far from inductive.
What is inductive is about the future: `Hears` says what a line makes of a belief (a
nickname and a set of lines), `Path` what all lines on their way make of it, and
`Agrees` says that the belief at the end of that path is what the server holds, but
for a nickname that is still asked for or turned down (`Asked`, `TurnedDown`) and for
kinds of lines that a request on its way, or one the bot will make when it reads
381 or that the temporary lines are cleared, will bring (`Pending`). `Welcome`
and `Waits` say that 001 and 381 come once and in turn, and that what the bot waits
for is on its way. A step of the bot shortens the path at its beginning
(`PathTail`), a step of the server lengthens it at its end (`PathCat`), and `.reload
klines` starts it from an empty list (`PathCleared`).

`Sessions_proof` (for any configurations, clients, passwords, words, commands,
filters, traps and settings): `OnlyEntitled`, `WatchesRemembered`, `LoadsAgree` and
`ChangesKept`. For the first the invariant adds
that the configuration in force is one of the world's, and says of every
session that its flags are none or those of an O line that covers its client and
has its handle. For the second it says that a session watches only kinds there are, and
that each record is empty or has the names of some set (`Recorded`). That reading
it makes this set, whatever was watched before, needs what `.watch` makes of a line: the fold over its words is unrolled one
word at a time (`WordByWord`), and a record names every kind once with its sign, so
that each word settles its own kind and no later word touches it. It is assumed
that kinds are finitely many and none is called ALL, NONE or DEFAULTS
(`WatchesAssumption`), and that `.watch` is for those who have authenticated
themselves (`NeedsAssumption`), as its registration says: only they have a record.

The invariant of what the bot keeps is `Keeping` (`KeptInOrder`): the traps are in
the order of their keys, no two of one key and filter, none has key 0
(`Fit`); each filter reads back as itself, or not at all if a pattern has a comma
(`IsFilter`: `FilterAgain` shows that of whatever `FilterOf` makes of a text); a
setting that was not set has the word and duration of its default, and one that was
set a word it accepts (`Tuned`); the file is lines. From it:

- `LoadsAgree`: a load is unrolled one line at a time (`LineByLine`). `Sofar` says of
  the list after k lines that its loaded traps are those of the k lines, and that the
  traps from before are there unless a line has replaced one, with their counts if it
  looks the same; then `postLoad` sweeps what is not loaded. This needs the file to
  give every trap its key and to name none twice (`Keyed`). The files the bot writes
  do (`SavedLines`), so it is asked of the one it found at first only. Of one that
  was edited otherwise the property is false: a TRAP without its key takes 100 more
  than the greatest in memory, and of two lines with one key and filter the first
  resets the counts of a trap in memory that looks like the second.
- `ChangesKept`: what is written of a memory is read back to one that looks the
  same (`RoundTrip`). The first induction goes through the lines of traps, each of which goes
  behind those before it because `Fit` has them in order and no two alike
  (`CopyStep`), the second through the settings, each of which is its own
  and only meaning and accepted (`RecoverStep`). The rest is that every action
  that changes how memory looks is a load, a start, or saves.

It is assumed that the settings are finitely many, each the beginning of
itself, that REMOVE is not an action of a trap, that defaults have the fields
of a value, that the fields of a filter have distinct names, and that typed and stored
lines are cut into fields (`NamesAssumption`, `DefaultsAssumption`,
`FieldsAssumption`, `TextsAssumption`).

`Masks_proof` (for any texts, patterns, users and genuine hosts): `MatcherRight` and
`BansCoverClients`. The state is one case at a time, so the invariant only says
which cases there are (`Studied`), and the work is about operators.

- `MatcherRight`: at every place of the mask, `SMatch` and `Glob` have the same places
  of the text (`PlacesRight`). The last place where they differ would be one
  call of SMatch over places where they agree, which the three cases refute: the mask is at
  its end (`CallAtTheEnd`), begins with characters (`CallLiteral`), or begins with a
  star (`CallStar`). `RunFits` says what `Glob` makes of a run of characters without a
  star. With two stars in a row the property is false: at the end of a mask they
  demand a character.
- `BansCoverClients`: a mask covers a name if it can be laid out on it (`Fits`), each
  star on a stretch and each other character on its like. A layout of the user and one
  of the host are joined at the "@" (`FitsJoin`); a star before an end of a
  name, or after a beginning of one, lays out on all of it (`IsEnd`, `IsStart`). Then there is one lemma per
  operator that cuts a name up (which end or beginning it leaves), one per
  piece of code that words a ban, and a case per kind of action. Two clones on one
  host share the name that is banned, and two in one net the beginning of their
  addresses; whether the ban for one pair is of the one kind or the other is told by
  cases, and where it is of a kind the two do not share nothing is claimed of the
  first. `HostsAssumption` is what keeps a genuine client from
  being taken for a spoof.

Facts about sequences and streaks of any length are proved by descent: a set of
numbers has a least element (`LeastOf`, from the library's well-foundedness of the
order of numbers), and the least counterexample is refuted.

## What is only model-checked

Liveness (`Recovers`, `LinkComesUp`, `CommandsArrive`, `Settles`, `ScansEnd`,
`OpenFound`, `EveryCheckAnswered`): fairness and ENABLED are out of the
prover's reach.

Of `Botnet` everything: `ViewsAgree`, `NoPhantom` and `Forest`. Trees are built by
folds over the edges of other trees, and the invariant behind them speaks of the
lines in flight on every path between two bots. The first two are not true
of every network (see the findings), so that there is no such theorem to prove.

Of `Reports` everything: the reports sort and filter sequences with library
operators of which the prover knows only their use on sequences it can write out.

## What is not modelled, and why

- Routed commands of the botnet (CHAT, COMMAND, BROADCAST, NOTICE) and what
  sessions are sent: `RemoteLink` has their order on a link, not their route.
  That a broadcast which skips a client two links away goes back and forth is a
  hazard no property covers.
- Services' reports (services.cc): several notices in a row paired by position;
  it needs the wording of the notices to be of interest.
- Listening sockets, their reopening on SIGHUP, and signals within a pass of the
  loop: what a handler does to a list somebody iterates over is undefined.
- Settings that change under the scanner.
- Cutting notices and the configuration file into fields, regular expressions
  (PCRE), dates, encryption of passwords, wording, formatting, help and log
  files: no state, or libraries.
- The build without libadns, which blocks in gethostbyname; gdbm and Berkeley DB
  below `BotDB`.
