----------------------------- MODULE ProxyScan -----------------------------
(***************************************************************************)
(* The open proxy scanner of OOMon: proxylist.cc, proxy.cc and the five    *)
(* scanners derived from Proxy (socks4, socks5, wingate, http, httppost).  *)
(*                                                                         *)
(* The monitor bot is one thread.  Every pass of the main loop (main.cc,   *)
(* process()) waits in select(), runs the handlers of its other            *)
(* connections, in which clients are checked and connections close, and    *)
(* then runs ProxyList::postSelect, which expires the cache, starts queued *)
(* scans while fewer than MaxCount run, and processes the running ones.    *)
(* `at' says how far the pass has come.  A scan is named by its target: an *)
(* address and a probe (a port with a protocol).  A scan sits at the       *)
(* descriptor of its socket, because the answer of select() is kept by     *)
(* descriptor.                                                             *)
(***************************************************************************)
EXTENDS Naturals, Sequences, FiniteSets, SequencesExt

CONSTANTS
    Addresses,    \* addresses of the clients of the IRC network
    Probes,       \* the ports and protocols a client is scanned for
    Open,         \* the targets that are open proxies and answer every scan
    Fds,          \* the descriptors of scans and of the connections that close
    CacheExpire,  \* SCAN_CACHE_EXPIRE, in ticks
    IdleMax,      \* PROXY_IDLE_MAX, in ticks
    ScanTimeout,  \* SCAN_TIMEOUT, in ticks
    Worlds        \* the circumstances the bot may run in: SCAN_MAX_COUNT,
                  \* SCAN_CACHE_SIZE, the descriptors its other connections hold
                  \* at first, and the local failures that occur

Targets == Addresses \X Probes

ASSUME FiniteAssumption == IsFiniteSet(Addresses) /\ IsFiniteSet(Probes)
ASSUME OpenAssumption == Open \subseteq Targets
ASSUME LimitsAssumption ==
    /\ CacheExpire \in Nat
    /\ IdleMax \in Nat \ {0}
    /\ ScanTimeout \in Nat \ {0}
\* With no more than maxCount scans running, a descriptor is free for the next.
ASSUME WorldsAssumption ==
    /\ IsFiniteSet(Fds) /\ Fds \subseteq Nat
    /\ \A w \in Worlds :
         /\ w.maxCount \in Nat \ {0}
         /\ w.cacheSize \in Nat \ {0}
         /\ w.foreign \subseteq Fds
         /\ w.faults \subseteq {"connect", "socket"}
         /\ Cardinality(Fds) >= w.maxCount + Cardinality(w.foreign)

VARIABLES
    world,     \* the circumstances of this run
    at,        \* how far the pass of the main loop has come
    ready,     \* descriptors the last select() reported: something to read,
               \* or a connection made
    foreign,   \* descriptors other connections hold
    queue,     \* queuedScans
    scan,      \* scanners: the scan at each descriptor
    cache,     \* safeHosts without its empty slots
    noticed    \* targets whose detection the last pass reported

vars == <<world, at, ready, foreign, queue, scan, cache, noticed>>

NoScan == [phase |-> "none"]
Scans == [target : Targets, phase : {"new", "connecting", "connected"},
          idle : 0 .. IdleMax + 1, life : 0 .. ScanTimeout]
Entries == [target : Targets, age : 0 .. CacheExpire + 1,
            since : 0 .. CacheExpire + 1]

Active == {f \in Fds : scan[f] # NoScan}

\* Slip: a connection keeps its descriptor open for a scan to take.
FreeWhileOpen == Fds \ Active

Free == Fds \ (Active \union foreign)
Queued == {queue[i] : i \in DOMAIN queue}
Running == {scan[f].target : f \in Active}
Clean == {e.target : e \in cache}

\* Slip: the queue is not searched.
IsRunning(t) == t \in Running

IsChecking(t) == t \in Running \/ t \in Queued

\* Slip: one scan too many.
FullAbove == Cardinality(Active) > world.maxCount

Full == Cardinality(Active) >= world.maxCount

AtMost(m, n) == IF m < n THEN m ELSE n

\* The caches addToCache may leave when T is added: a full cache gives up its
\* oldest entries, and entries of one age in any order.
CachesWith(T) ==
    LET all == cache \union {[target |-> t, age |-> 0, since |-> 0] : t \in T}
    IN  {kept \in SUBSET all :
           /\ Cardinality(kept) = AtMost(world.cacheSize, Cardinality(all))
           /\ \A k \in kept, d \in all \ kept : k.age <= d.age}

Init ==
    /\ world \in Worlds
    /\ at = "select"
    /\ ready = {}
    /\ foreign = world.foreign
    /\ queue = <<>>
    /\ scan = [f \in Fds |-> NoScan]
    /\ cache = {}
    /\ noticed = {}
-----------------------------------------------------------------------------
\* select() returns, d ticks later, with the descriptors that have something to
\* read or are connected now.  An open proxy answers within a pass.
Select(d) ==
    /\ at = "select"
    /\ \E r \in SUBSET (foreign \union Active) :
         /\ {f \in Active : scan[f].target \in Open} \subseteq r
         /\ ready' = r
    /\ scan' = [f \in Fds |->
         IF f \in Active
         THEN [scan[f] EXCEPT !.idle = AtMost(@ + d, IdleMax + 1),
                              !.life = AtMost(@ + d, ScanTimeout)]
         ELSE NoScan]
    /\ cache' = {[e EXCEPT !.age = AtMost(@ + d, CacheExpire + 1),
                           !.since = AtMost(@ + d, CacheExpire + 1)] : e \in cache}
    /\ at' = "handlers"
    /\ UNCHANGED <<world, foreign, queue, noticed>>

\* The targets at address a that are neither queued nor running.
Unchecked(a) == {t \in {a} \X Probes : ~IsChecking(t)}

\* Slip: the cache is not consulted.
CheckUncached(a) ==
    /\ at = "handlers"
    /\ \E new \in SetToSeqs(Unchecked(a)) : queue' = queue \o new
    /\ UNCHANGED <<world, at, ready, foreign, scan, cache, noticed>>

\* A handler checks a client at address a: the probes neither under way nor
\* known to be clean are queued, and each hit in the cache renews its entry.
Check(a) ==
    /\ at = "handlers"
    /\ \E new \in SetToSeqs(Unchecked(a) \ Clean) : queue' = queue \o new
    /\ cache' = {IF e.target \in Unchecked(a) THEN [e EXCEPT !.age = 0] ELSE e :
                 e \in cache}
    /\ UNCHANGED <<world, at, ready, foreign, scan, noticed>>

\* A handler reads the end of another connection and closes it: its descriptor
\* is free, and still set in the answer of select().
Close(f) ==
    /\ at = "handlers"
    /\ f \in foreign \intersect ready
    /\ foreign' = foreign \ {f}
    /\ UNCHANGED <<world, at, ready, queue, scan, cache, noticed>>

\* ProxyList::postSelect begins: expired entries leave the cache.
Expire ==
    /\ at = "handlers"
    /\ cache' = {e \in cache : e.age <= CacheExpire}
    /\ at' = "starting"
    /\ UNCHANGED <<world, ready, foreign, queue, scan, noticed>>

\* The next queued scan gets a socket, the lowest free descriptor.
StartScan ==
    /\ at = "starting"
    /\ queue # <<>>
    /\ ~Full
    /\ \E f \in Free :
         /\ \A g \in Free : f <= g
         /\ scan' = [scan EXCEPT ![f] = [target |-> Head(queue), phase |-> "new",
                                         idle |-> 0, life |-> 0]]
    /\ queue' = Tail(queue)
    /\ UNCHANGED <<world, at, ready, foreign, cache, noticed>>

\* connect() fails at once, which initiateCheck ignores: the scan is popped,
\* and its destructor takes the target for a clean one.
StartFails ==
    /\ "connect" \in world.faults
    /\ at = "starting"
    /\ queue # <<>>
    /\ ~Full
    /\ cache' \in CachesWith({Head(queue)})
    /\ queue' = Tail(queue)
    /\ UNCHANGED <<world, at, ready, foreign, scan, noticed>>

\* socket() fails: the scan stays at the front of the queue until the next pass.
NoSocket ==
    /\ "socket" \in world.faults
    /\ at = "starting"
    /\ queue # <<>>
    /\ ~Full
    /\ at' = "processing"
    /\ UNCHANGED <<world, ready, foreign, queue, scan, cache, noticed>>

\* What may happen at a scan whose socket has been seen by postSelect.  A read
\* from a socket that is only now connecting fails and ends the scan.
Outcomes(f) ==
    IF f \notin ready THEN {"waits"}
    ELSE IF scan[f].phase = "new" THEN {"ends"}
    ELSE IF scan[f].target \in Open
         THEN {IF scan[f].phase = "connecting" THEN "connects" ELSE "detects"}
    ELSE {IF scan[f].phase = "connecting" THEN "connects" ELSE "reads", "ends"}

\* The scan at f after outcome o, if it goes on: a read resets the idle time,
\* and the time allowed for the scan runs from its connection.
Advanced(f, o) ==
    CASE o = "connects" -> [scan[f] EXCEPT !.phase = "connected", !.life = 0]
      [] o = "reads"    -> [scan[f] EXCEPT !.idle = 0]
      [] OTHER          -> IF scan[f].phase = "new"
                           THEN [scan[f] EXCEPT !.phase = "connecting"]
                           ELSE scan[f]

\* Slips: the timeout strikes a tick early; the connection starts no clock.
TimedOutEarly(s) == s.idle >= IdleMax
NeverExpired(s) == FALSE

TimedOut(s) == s.idle > IdleMax
Expired(s) == s.phase = "connected" /\ s.life >= ScanTimeout

Ends(f, o) ==
    \/ o \in {"ends", "detects"}
    \/ TimedOut(Advanced(f, o))
    \/ Expired(Advanced(f, o))

\* Slip: detectedProxy_ is not looked at.
CachesAll(f, o) == Ends(f, o)

\* The destructor of a scan adds its target to the cache unless a proxy was
\* detected there.
Caches(f, o) == Ends(f, o) /\ o # "detects"

\* The scans that run are processed, and those that ended leave the list.
Process ==
    /\ at = "processing" \/ (at = "starting" /\ (queue = <<>> \/ Full))
    /\ \E out \in [Active -> {"waits", "connects", "reads", "ends", "detects"}] :
         /\ \A f \in Active : out[f] \in Outcomes(f)
         /\ scan' = [f \in Fds |->
              IF f \in Active /\ ~Ends(f, out[f]) THEN Advanced(f, out[f]) ELSE NoScan]
         /\ noticed' = {scan[f].target : f \in {g \in Active : out[g] = "detects"}}
         /\ cache' \in CachesWith({scan[f].target :
                f \in {g \in Active : Caches(g, out[g])}})
    /\ at' = "select"
    /\ ready' = {}
    /\ UNCHANGED <<world, foreign, queue>>

Next ==
    \/ Select(0)
    \/ Select(1)
    \/ \E a \in Addresses : Check(a)
    \/ \E f \in Fds : Close(f)
    \/ Expire
    \/ StartScan
    \/ StartFails
    \/ NoSocket
    \/ Process

Spec == Init /\ [][Next]_vars

\* The loop never stops and the clock goes on.
FairSpec ==
    /\ Spec
    /\ WF_vars(Select(0) \/ Select(1))
    /\ SF_vars(Select(1))
    /\ WF_vars(Expire)
    /\ WF_vars(StartScan)
    /\ WF_vars(Process)
-----------------------------------------------------------------------------
\* Types, and descriptors are held by one connection.
TypeOK ==
    /\ world \in Worlds
    /\ at \in {"select", "handlers", "starting", "processing"}
    /\ ready \in SUBSET Fds
    /\ foreign \in SUBSET world.foreign
    /\ queue \in Seq(Targets)
    /\ scan \in [Fds -> Scans \union {NoScan}]
    /\ cache \in SUBSET Entries
    /\ noticed \in SUBSET Targets
    /\ Active \intersect foreign = {}

\* A target is scanned once at a time: however often its client reconnects, it
\* is queued or running at most once (skipCheck, isChecking).
OneScanEach ==
    /\ \A i, j \in DOMAIN queue : queue[i] = queue[j] => i = j
    /\ \A f, g \in Active : scan[f].target = scan[g].target => f = g
    /\ Queued \intersect Running = {}

\* No target known to be clean waits for or undergoes a scan, and none takes two
\* slots of the cache ("so that clean hosts aren't scanned excessively").
CleanNotScanned ==
    /\ Clean \intersect (Queued \union Running) = {}
    /\ \A d, e \in cache : d.target = e.target => d = e

\* SCAN_MAX_COUNT limits the scans that run, whatever the queue holds.
WithinLimit == Cardinality(Active) <= world.maxCount

\* No connection of the bot gives its descriptor, still set in the answer of
\* select(), to a scan, and no connect() fails at once.
Undisturbed == world.foreign = {} /\ "connect" \notin world.faults

\* An undisturbed scanner never takes an open proxy that answers every scan for a
\* clean host.
OpenNotCached == Undisturbed => Clean \intersect Open = {}

\* Where sockets can be had every scan ends, even of a host that keeps sending,
\* and every queued one gets its turn, though others fail to connect.
ScansEnd ==
    \A t \in Targets :
        IsChecking(t) /\ "socket" \notin world.faults ~> ~IsChecking(t)

\* Where nothing fails, an open proxy that is to be scanned is detected and
\* reported.
OpenFound ==
    \A t \in Open :
        IsChecking(t) /\ Undisturbed /\ "socket" \notin world.faults ~> t \in noticed
=============================================================================
