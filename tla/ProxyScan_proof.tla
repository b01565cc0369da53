-------------------------- MODULE ProxyScan_proof --------------------------
(***************************************************************************)
(* Proofs about the proxy scanner, for any number of clients, probes and   *)
(* descriptors, any limits and any local failures: types, one scan of a    *)
(* target at a time, no scan of a cached target, and SCAN_MAX_COUNT; and,  *)
(* where no local failure ends a scan, that open proxies are not cached.   *)
(***************************************************************************)
EXTENDS ProxyScan, FiniteSetTheorems, SequenceTheorems, TLAPS

-----------------------------------------------------------------------------
(* Facts about the constants and the helpers                               *)

\* Targets and descriptors are finitely many
LEMMA Finite ==
    /\ IsFiniteSet(Targets)
    /\ IsFiniteSet(Fds)
    /\ CacheExpire \in Nat /\ IdleMax \in Nat
    /\ ScanTimeout \in Nat
<1>1. IsFiniteSet(Targets)
  BY FiniteAssumption, FS_Product DEF Targets
<1> QED
  BY <1>1, LimitsAssumption, WorldsAssumption

\* The circumstances of a run
LEMMA World ==
    ASSUME world \in Worlds
    PROVE  world.foreign \subseteq Fds /\ world.maxCount \in Nat \ {0}
BY WorldsAssumption

\* No step changes them
LEMMA WorldKept ==
    ASSUME [Next]_vars
    PROVE  world' = world
BY DEF Next, vars, Select, Check, Close, Expire, StartScan, StartFails, NoSocket, Process

\* A scan is not the absence of one
LEMMA ScanExists == NoScan \notin Scans /\ \A s \in Scans : s # NoScan
BY DEF NoScan, Scans

\* AtMost stays within its bound
LEMMA AtMostBound ==
    ASSUME NEW m \in Nat, NEW n \in Nat
    PROVE  AtMost(m, n) \in 0 .. n
BY DEF AtMost

\* What the first element and the rest of a queue are
LEMMA HeadAndTail ==
    ASSUME NEW S, NEW q \in Seq(S), q # <<>>
    PROVE  /\ Head(q) = q[1] /\ Head(q) \in S
           /\ 1 \in DOMAIN q
           /\ Tail(q) \in Seq(S)
           /\ \A i \in DOMAIN Tail(q) :
                i \in Nat /\ i >= 1 /\ i + 1 \in DOMAIN q /\ Tail(q)[i] = q[i + 1]
<1>1. Len(q) >= 1 /\ Len(q) \in Nat
  BY EmptySeq, LenProperties
<1>2. Tail(q) \in Seq(S) /\ Len(Tail(q)) = Len(q) - 1
  BY HeadTailProperties
<1>3. \A i \in 1 .. Len(q) - 1 : Tail(q)[i] = q[i + 1]
  BY <1>1
<1>4. DOMAIN q = 1 .. Len(q) /\ DOMAIN Tail(q) = 1 .. Len(q) - 1
  BY <1>1, <1>2, LenProperties
<1> QED
  BY <1>1, <1>2, <1>3, <1>4

\* addToCache leaves entries it had and entries it was given
LEMMA CachesWithFacts ==
    ASSUME TypeOK, NEW T \in SUBSET Targets, NEW c \in CachesWith(T)
    PROVE  /\ c \in SUBSET Entries
           /\ \A e \in c : e \in cache \/ e.target \in T
           /\ \A d, e \in c : d \notin cache /\ e \notin cache /\ d.target = e.target
                                => d = e
<1> DEFINE fresh == {[target |-> t, age |-> 0, since |-> 0] : t \in T}
<1>1. c \subseteq cache \union fresh
  BY DEF CachesWith
<1>2. fresh \subseteq Entries
  BY Finite DEF Entries
<1>3. \A e \in fresh : e.target \in T /\ e = [target |-> e.target, age |-> 0, since |-> 0]
  OBVIOUS
<1> QED
  BY <1>1, <1>2, <1>3 DEF TypeOK

\* The targets a client brings are queued in some order, each once
LEMMA NewScans ==
    ASSUME NEW S \in SUBSET Targets, NEW new \in SetToSeqs(S)
    PROVE  /\ new \in Seq(Targets)
           /\ \A i \in DOMAIN new : new[i] \in S
           /\ \A i, j \in DOMAIN new : new[i] = new[j] => i = j
<1>1. IsFiniteSet(S)
  BY Finite, FS_Subset
<1>2. Cardinality(S) \in Nat
  BY <1>1, FS_CardinalityType
<1>3. new \in [1 .. Cardinality(S) -> S]
  BY DEF SetToSeqs
<1>4. \A i, j \in 1 .. Cardinality(S) : i # j => new[i] # new[j]
  BY DEF SetToSeqs
<1>5. new \in Seq(Targets)
  BY <1>2, <1>3
<1> QED
  BY <1>3, <1>4, <1>5

\* postSelect leaves a scan at its descriptor or ends it
LEMMA AdvancedFacts ==
    ASSUME TypeOK, NEW f \in Active, NEW o
    PROVE  /\ Advanced(f, o) \in Scans
           /\ Advanced(f, o).target = scan[f].target
<1>1. scan[f] \in Scans
  BY DEF TypeOK, Active
<1>2. /\ [scan[f] EXCEPT !.phase = "connected", !.life = 0] \in Scans
      /\ [scan[f] EXCEPT !.idle = 0] \in Scans
      /\ [scan[f] EXCEPT !.phase = "connecting"] \in Scans
  <2>1. 0 \in 0 .. IdleMax + 1 /\ 0 \in 0 .. ScanTimeout
    BY Finite
  <2>2. [scan[f] EXCEPT !.phase = "connected", !.life = 0] \in Scans
    BY <1>1, <2>1, Zenon DEF Scans
  <2>3. [scan[f] EXCEPT !.idle = 0] \in Scans
    BY <1>1, <2>1 DEF Scans
  <2>4. [scan[f] EXCEPT !.phase = "connecting"] \in Scans
    BY <1>1 DEF Scans
  <2> QED
    BY <2>2, <2>3, <2>4
<1>3. /\ [scan[f] EXCEPT !.phase = "connected", !.life = 0].target = scan[f].target
      /\ [scan[f] EXCEPT !.idle = 0].target = scan[f].target
      /\ [scan[f] EXCEPT !.phase = "connecting"].target = scan[f].target
  BY <1>1 DEF Scans
<1>4. CASE o = "connects"
  BY <1>2, <1>3, <1>4 DEF Advanced
<1>5. CASE o = "reads"
  BY <1>2, <1>3, <1>5 DEF Advanced
<1>6. CASE o \notin {"connects", "reads"}
  BY <1>1, <1>2, <1>3, <1>6 DEF Advanced
<1> QED
  BY <1>4, <1>5, <1>6

\* Select and Process leave or end the scans they find, and start none
LEMMA ScansKept ==
    ASSUME TypeOK, Select(0) \/ Select(1) \/ Process
    PROVE  /\ scan' \in [Fds -> Scans \union {NoScan}]
           /\ Active' \subseteq Active
           /\ \A f \in Active' : scan'[f].target = scan[f].target
<1>1. ASSUME NEW d \in {0, 1}, Select(d)
      PROVE  /\ scan' \in [Fds -> Scans \union {NoScan}]
             /\ Active' \subseteq Active
             /\ \A f \in Active' : scan'[f].target = scan[f].target
  <2> DEFINE aged(f) == [scan[f] EXCEPT !.idle = AtMost(@ + d, IdleMax + 1),
                                        !.life = AtMost(@ + d, ScanTimeout)]
  <2>1. scan' = [f \in Fds |-> IF f \in Active THEN aged(f) ELSE NoScan]
    BY <1>1 DEF Select
  <2>2. ASSUME NEW f \in Active
        PROVE  aged(f) \in Scans /\ aged(f).target = scan[f].target
    <3>1. scan[f] \in Scans
      BY DEF TypeOK, Active
    <3>2. /\ scan[f].idle + d \in Nat /\ IdleMax + 1 \in Nat
          /\ scan[f].life + d \in Nat /\ ScanTimeout \in Nat
      BY <3>1, Finite DEF Scans
    <3>3. /\ AtMost(scan[f].idle + d, IdleMax + 1) \in 0 .. IdleMax + 1
          /\ AtMost(scan[f].life + d, ScanTimeout) \in 0 .. ScanTimeout
      BY <3>2, AtMostBound, Zenon
    <3> QED
      BY <3>1, <3>3 DEF Scans
  <2> HIDE DEF aged
  <2>3. Active' \subseteq Active
    BY <2>1 DEF Active
  <2> QED
    BY <2>1, <2>2, <2>3 DEF Active
<1>2. ASSUME Process
      PROVE  /\ scan' \in [Fds -> Scans \union {NoScan}]
             /\ Active' \subseteq Active
             /\ \A f \in Active' : scan'[f].target = scan[f].target
  <2>1. PICK out : scan' = [f \in Fds |->
              IF f \in Active /\ ~Ends(f, out[f]) THEN Advanced(f, out[f]) ELSE NoScan]
    BY <1>2 DEF Process
  <2>2. Active' \subseteq Active
    BY <2>1 DEF Active
  <2> QED
    BY <2>1, <2>2, AdvancedFacts DEF Active
<1> QED
  BY <1>1, <1>2

\* StartScan moves the head of the queue to a descriptor that was free
LEMMA ScanStarts ==
    ASSUME TypeOK, StartScan
    PROVE  \E f \in Fds \ (Active \union foreign) :
             /\ Active' = Active \union {f}
             /\ scan' \in [Fds -> Scans \union {NoScan}]
             /\ scan'[f].target = Head(queue)
             /\ \A g \in Active : scan'[g] = scan[g]
<1> DEFINE s == [target |-> Head(queue), phase |-> "new", idle |-> 0, life |-> 0]
<1>1. PICK f \in Free : scan' = [scan EXCEPT ![f] = s]
  BY DEF StartScan
<1>2. f \in Fds \ (Active \union foreign)
  BY DEF Free
<1>3. Head(queue) \in Targets
  BY HeadAndTail DEF TypeOK, StartScan
<1>4. s \in Scans /\ s.target = Head(queue)
  BY <1>3, Finite DEF Scans
<1> HIDE DEF s
<1>5. s # NoScan
  BY <1>4, ScanExists
<1>6. scan' \in [Fds -> Scans \union {NoScan}]
  BY <1>1, <1>4 DEF TypeOK
<1>7. scan'[f] = s /\ \A g \in Fds : g # f => scan'[g] = scan[g]
  BY <1>1, <1>2 DEF TypeOK
<1>8. Active' = Active \union {f}
  BY <1>2, <1>5, <1>7 DEF Active
<1> QED
  BY <1>2, <1>4, <1>6, <1>7, <1>8 DEF Active

-----------------------------------------------------------------------------
(* Types                                                                   *)

\* Every step keeps the types
LEMMA TypeStep ==
    ASSUME TypeOK, [Next]_vars
    PROVE  TypeOK'
<1> USE DEF TypeOK
<1>1. ASSUME Select(0) \/ Select(1)
      PROVE  TypeOK'
  <2>1. PICK d \in {0, 1} : Select(d)
    BY <1>1
  <2>2. scan' \in [Fds -> Scans \union {NoScan}] /\ Active' \subseteq Active
    BY <1>1, ScansKept
  <2>3. ready' \in SUBSET Fds
    BY <2>1, Finite, World DEF Select, Active
  <2>4. cache' \in SUBSET Entries
    <3>1. ASSUME NEW e \in cache
          PROVE  [e EXCEPT !.age = AtMost(@ + d, CacheExpire + 1),
                           !.since = AtMost(@ + d, CacheExpire + 1)] \in Entries
      <4>1. e \in Entries
        OBVIOUS
      <4>2. e.age + d \in Nat /\ e.since + d \in Nat /\ CacheExpire + 1 \in Nat
        BY <4>1, Finite DEF Entries
      <4>3. /\ AtMost(e.age + d, CacheExpire + 1) \in 0 .. CacheExpire + 1
            /\ AtMost(e.since + d, CacheExpire + 1) \in 0 .. CacheExpire + 1
        BY <4>2, AtMostBound, Zenon
      <4> QED
        BY <4>1, <4>3 DEF Entries
    <3> QED
      BY <2>1, <3>1 DEF Select
  <2> QED
    BY <2>1, <2>2, <2>3, <2>4 DEF Select
<1>2. ASSUME NEW a \in Addresses, Check(a)
      PROVE  TypeOK'
  <2>1. Unchecked(a) \ Clean \in SUBSET Targets
    BY DEF Unchecked, Targets
  <2>2. PICK new \in SetToSeqs(Unchecked(a) \ Clean) : queue' = queue \o new
    BY <1>2 DEF Check
  <2>3. queue' \in Seq(Targets)
    BY <2>1, <2>2, NewScans, ConcatProperties
  <2>4. cache' \in SUBSET Entries
    <3>1. \A e \in Entries : [e EXCEPT !.age = 0] \in Entries
      <4>1. 0 \in 0 .. CacheExpire + 1
        BY Finite
      <4> QED
        BY <4>1 DEF Entries
    <3>2. cache' = {IF e.target \in Unchecked(a) THEN [e EXCEPT !.age = 0] ELSE e :
                      e \in cache}
      BY <1>2 DEF Check
    <3> QED
      BY <3>1, <3>2
  <2> QED
    BY <1>2, <2>3, <2>4 DEF Check, Active
<1>3. ASSUME NEW f \in Fds, Close(f)
      PROVE  TypeOK'
  BY <1>3 DEF Close, Active
<1>4. ASSUME Expire
      PROVE  TypeOK'
  BY <1>4 DEF Expire, Active
<1>5. ASSUME StartScan
      PROVE  TypeOK'
  <2>1. queue' \in Seq(Targets)
    BY <1>5, HeadAndTail DEF StartScan
  <2>2. /\ scan' \in [Fds -> Scans \union {NoScan}]
        /\ Active' \intersect foreign = {}
    BY <1>5, ScanStarts
  <2> QED
    BY <1>5, <2>1, <2>2 DEF StartScan
<1>6. ASSUME StartFails
      PROVE  TypeOK'
  <2>1. queue' \in Seq(Targets) /\ Head(queue) \in Targets
    BY <1>6, HeadAndTail DEF StartFails
  <2>2. cache' \in SUBSET Entries
    BY <1>6, <2>1, CachesWithFacts DEF StartFails
  <2> QED
    BY <1>6, <2>1, <2>2 DEF StartFails, Active
<1>7. ASSUME NoSocket
      PROVE  TypeOK'
  BY <1>7 DEF NoSocket, Active
<1>8. ASSUME Process
      PROVE  TypeOK'
  <2>1. scan' \in [Fds -> Scans \union {NoScan}] /\ Active' \subseteq Active
    BY <1>8, ScansKept
  <2>2. \A f \in Active : scan[f].target \in Targets
    BY DEF Active, Scans
  <2>3. PICK out :
          /\ noticed' = {scan[f].target : f \in {g \in Active : out[g] = "detects"}}
          /\ cache' \in CachesWith({scan[f].target : f \in {g \in Active : Caches(g, out[g])}})
    BY <1>8 DEF Process
  <2>4. cache' \in SUBSET Entries
    <3>1. {scan[f].target : f \in {g \in Active : Caches(g, out[g])}} \in SUBSET Targets
      BY <2>2
    <3> QED
      BY <2>3, <3>1, CachesWithFacts
  <2>5. noticed' \in SUBSET Targets
    BY <2>2, <2>3
  <2> QED
    BY <1>8, <2>1, <2>4, <2>5 DEF Process
<1>9. ASSUME UNCHANGED vars
      PROVE  TypeOK'
  BY <1>9 DEF vars, Active
<1> QED
  BY <1>1, <1>2, <1>3, <1>4, <1>5, <1>6, <1>7, <1>8, <1>9 DEF Next

-----------------------------------------------------------------------------
(* One scan of a target at a time                                          *)

\* What is queued when a client's targets are appended
LEMMA Appended ==
    ASSUME TypeOK, NEW new \in Seq(Targets), queue' = queue \o new
    PROVE  \A i \in DOMAIN queue' :
             \/ i \in DOMAIN queue /\ queue'[i] = queue[i]
             \/ \E k \in DOMAIN new : i = Len(queue) + k /\ queue'[i] = new[k]
<1>1. /\ Len(queue \o new) = Len(queue) + Len(new)
      /\ \A i \in 1 .. Len(queue) + Len(new) : (queue \o new)[i] =
               IF i <= Len(queue) THEN queue[i] ELSE new[i - Len(queue)]
  BY ConcatProperties DEF TypeOK
<1>2. Len(queue) \in Nat /\ Len(new) \in Nat
  BY LenProperties DEF TypeOK
<1>3. /\ DOMAIN queue = 1 .. Len(queue) /\ DOMAIN new = 1 .. Len(new)
      /\ DOMAIN queue' = 1 .. Len(queue) + Len(new)
  BY <1>1, LenProperties, ConcatProperties DEF TypeOK
<1>4. ASSUME NEW i \in DOMAIN queue'
      PROVE  \/ i \in DOMAIN queue /\ queue'[i] = queue[i]
             \/ \E k \in DOMAIN new : i = Len(queue) + k /\ queue'[i] = new[k]
  <2>1. CASE i <= Len(queue)
    BY <1>1, <1>2, <1>3, <2>1
  <2>2. CASE ~(i <= Len(queue))
    <3>1. i - Len(queue) \in DOMAIN new /\ i = Len(queue) + (i - Len(queue))
      BY <1>2, <1>3, <2>2
    <3>2. queue'[i] = new[i - Len(queue)]
      BY <1>1, <1>2, <1>3, <2>2
    <3> QED
      BY <3>1, <3>2
  <2> QED
    BY <2>1, <2>2
<1> QED
  BY <1>4

\* What Check queues is neither queued nor running, and not clean
LEMMA CheckQueues ==
    ASSUME TypeOK, NEW a \in Addresses, Check(a)
    PROVE  \E new \in Seq(Targets) :
             /\ queue' = queue \o new
             /\ \A k \in DOMAIN new : new[k] \notin Queued \union Running \union Clean
             /\ \A k, l \in DOMAIN new : new[k] = new[l] => k = l
<1>1. Unchecked(a) \ Clean \in SUBSET Targets
  BY DEF Unchecked, Targets
<1>2. PICK new \in SetToSeqs(Unchecked(a) \ Clean) : queue' = queue \o new
  BY DEF Check
<1>3. /\ new \in Seq(Targets)
      /\ \A i \in DOMAIN new : new[i] \in Unchecked(a) \ Clean
      /\ \A i, j \in DOMAIN new : new[i] = new[j] => i = j
  BY <1>1, NewScans
<1> QED
  BY <1>2, <1>3 DEF Unchecked, IsChecking

\* When the queue and the scans are left alone, so is every fact about them
LEMMA SameScans ==
    ASSUME UNCHANGED <<queue, scan>>
    PROVE  /\ Queued' = Queued /\ Running' = Running /\ Active' = Active
           /\ OneScanEach' = OneScanEach
BY DEF Queued, Running, Active, OneScanEach

\* When scans are left or ended, no target starts to run
LEMMA FewerRunning ==
    ASSUME Active' \subseteq Active,
           \A f \in Active' : scan'[f].target = scan[f].target
    PROVE  Running' \subseteq Running
BY DEF Running

\* Every step keeps the scans apart
LEMMA OneScanStep ==
    ASSUME TypeOK, OneScanEach, [Next]_vars
    PROVE  OneScanEach'
<1>1. ASSUME Select(0) \/ Select(1) \/ Process
      PROVE  OneScanEach'
  <2>1. queue' = queue
    BY <1>1 DEF Select, Process
  <2>2. /\ Active' \subseteq Active
        /\ \A f \in Active' : scan'[f].target = scan[f].target
    BY <1>1, ScansKept
  <2>3. Queued' = Queued /\ Running' \subseteq Running
    BY <2>1, <2>2, FewerRunning DEF Queued
  <2> QED
    BY <2>1, <2>2, <2>3 DEF OneScanEach
<1>2. ASSUME NEW a \in Addresses, Check(a)
      PROVE  OneScanEach'
  <2>1. PICK new \in Seq(Targets) :
             /\ queue' = queue \o new
             /\ \A k \in DOMAIN new : new[k] \notin Queued \union Running \union Clean
             /\ \A k, l \in DOMAIN new : new[k] = new[l] => k = l
    BY <1>2, CheckQueues
  <2>2. \A i \in DOMAIN queue' :
             \/ i \in DOMAIN queue /\ queue'[i] = queue[i]
             \/ \E k \in DOMAIN new : i = Len(queue) + k /\ queue'[i] = new[k]
    BY <2>1, Appended
  <2>3. \A i \in DOMAIN queue : queue[i] \in Queued
    BY DEF Queued
  <2>4. \A i, j \in DOMAIN queue' : queue'[i] = queue'[j] => i = j
    BY <2>1, <2>2, <2>3 DEF OneScanEach
  <2>5. Running' = Running /\ Active' = Active /\ scan' = scan
    BY <1>2 DEF Check, Running, Active
  <2>6. Queued' \intersect Running' = {}
    BY <2>1, <2>2, <2>3, <2>5 DEF OneScanEach, Queued
  <2> QED
    BY <2>4, <2>5, <2>6 DEF OneScanEach
<1>3. ASSUME StartScan
      PROVE  OneScanEach'
  <2>1. PICK f \in Fds \ (Active \union foreign) :
             /\ Active' = Active \union {f}
             /\ scan'[f].target = Head(queue)
             /\ \A g \in Active : scan'[g] = scan[g]
    BY <1>3, ScanStarts
  <2>2. /\ queue # <<>> /\ queue' = Tail(queue)
    BY <1>3 DEF StartScan
  <2>3. /\ Head(queue) = queue[1] /\ 1 \in DOMAIN queue
        /\ \A i \in DOMAIN queue' :
             i \in Nat /\ i >= 1 /\ i + 1 \in DOMAIN queue /\ queue'[i] = queue[i + 1]
    BY <2>2, HeadAndTail DEF TypeOK
  <2>4. Head(queue) \notin Running
    BY <2>3 DEF OneScanEach, Queued
  <2>5. \A i \in DOMAIN queue' : queue'[i] # Head(queue) /\ queue'[i] \in Queued
    BY <2>3 DEF OneScanEach, Queued
  <2>6. Running' = Running \union {Head(queue)}
    BY <2>1 DEF Running
  <2>7. \A i, j \in DOMAIN queue' : queue'[i] = queue'[j] => i = j
    <3>1. ASSUME NEW i \in DOMAIN queue', NEW j \in DOMAIN queue', queue'[i] = queue'[j]
          PROVE  i = j
      <4>1. i + 1 = j + 1
        BY <2>3, <3>1 DEF OneScanEach
      <4> QED
        BY <2>3, <4>1
    <3> QED
      BY <3>1
  <2>8. \A g, h \in Active' : scan'[g].target = scan'[h].target => g = h
    BY <2>1, <2>4 DEF OneScanEach, Running
  <2> QED
    BY <2>5, <2>6, <2>7, <2>8 DEF OneScanEach, Queued
<1>4. ASSUME StartFails
      PROVE  OneScanEach'
  <2>1. queue # <<>> /\ queue' = Tail(queue) /\ scan' = scan
    BY <1>4 DEF StartFails
  <2>2. \A i \in DOMAIN queue' :
             i \in Nat /\ i >= 1 /\ i + 1 \in DOMAIN queue /\ queue'[i] = queue[i + 1]
    BY <2>1, HeadAndTail DEF TypeOK
  <2>3. \A i, j \in DOMAIN queue' : queue'[i] = queue'[j] => i = j
    <3>1. ASSUME NEW i \in DOMAIN queue', NEW j \in DOMAIN queue', queue'[i] = queue'[j]
          PROVE  i = j
      <4>1. i + 1 = j + 1
        BY <2>2, <3>1 DEF OneScanEach
      <4> QED
        BY <2>2, <4>1
    <3> QED
      BY <3>1
  <2>4. Queued' \subseteq Queued /\ Running' = Running /\ Active' = Active
    BY <2>1, <2>2 DEF Queued, Running, Active
  <2> QED
    BY <2>1, <2>3, <2>4 DEF OneScanEach
<1>5. ASSUME (\E f \in Fds : Close(f)) \/ Expire \/ NoSocket \/ UNCHANGED vars
      PROVE  OneScanEach'
  BY <1>5, SameScans DEF Close, Expire, NoSocket, vars
<1> QED
  BY <1>1, <1>2, <1>3, <1>4, <1>5 DEF Next

-----------------------------------------------------------------------------
(* No scan of a target known to be clean                                   *)

\* Adding targets that are not clean to a cache keeps its entries apart
LEMMA CacheGrows ==
    ASSUME TypeOK, CleanNotScanned, NEW T \in SUBSET Targets, T \intersect Clean = {},
           cache' \in CachesWith(T)
    PROVE  /\ Clean' \subseteq Clean \union T
           /\ \A d, e \in cache' : d.target = e.target => d = e
<1>1. /\ \A e \in cache' : e \in cache \/ e.target \in T
      /\ \A d, e \in cache' : d \notin cache /\ e \notin cache /\ d.target = e.target
                                => d = e
  BY CachesWithFacts
<1>2. \A e \in cache : e.target \in Clean
  BY DEF Clean
<1> QED
  BY <1>1, <1>2 DEF Clean, CleanNotScanned

\* Renewing or ageing entries leaves their targets
LEMMA CacheRenewed ==
    ASSUME TypeOK, CleanNotScanned,
           \/ Select(0) \/ Select(1)
           \/ \E a \in Addresses : Check(a)
    PROVE  /\ Clean' = Clean
           /\ \A d, e \in cache' : d.target = e.target => d = e
<1>1. \E F : /\ cache' = {F[e] : e \in cache}
              /\ \A e \in cache : F[e].target = e.target
  <2>1. ASSUME NEW d \in {0, 1}, Select(d)
        PROVE  \E F : /\ cache' = {F[e] : e \in cache}
                      /\ \A e \in cache : F[e].target = e.target
    <3> DEFINE F == [e \in cache |-> [e EXCEPT !.age = AtMost(@ + d, CacheExpire + 1),
                                    !.since = AtMost(@ + d, CacheExpire + 1)]]
    <3>1. cache' = {F[e] : e \in cache}
      BY <2>1 DEF Select
    <3>2. \A e \in cache : F[e].target = e.target
      BY DEF TypeOK, Entries
    <3> QED
      BY <3>1, <3>2
  <2>2. ASSUME NEW a \in Addresses, Check(a)
        PROVE  \E F : /\ cache' = {F[e] : e \in cache}
                      /\ \A e \in cache : F[e].target = e.target
    <3> DEFINE F == [e \in cache |->
                      IF e.target \in Unchecked(a) THEN [e EXCEPT !.age = 0] ELSE e]
    <3>1. cache' = {F[e] : e \in cache}
      BY <2>2 DEF Check
    <3>2. \A e \in cache : F[e].target = e.target
      BY DEF TypeOK, Entries
    <3> QED
      BY <3>1, <3>2
  <2> QED
    BY <2>1, <2>2
<1>2. PICK F : cache' = {F[e] : e \in cache} /\ \A e \in cache : F[e].target = e.target
  BY <1>1
<1> QED
  BY <1>2 DEF Clean, CleanNotScanned

\* The targets of scans that end no longer run
LEMMA EndedScans ==
    ASSUME TypeOK, OneScanEach, Process
    PROVE  \E T \in SUBSET Running :
             cache' \in CachesWith(T) /\ T \intersect Running' = {}
<1>1. PICK out :
        /\ scan' = [f \in Fds |->
             IF f \in Active /\ ~Ends(f, out[f]) THEN Advanced(f, out[f]) ELSE NoScan]
        /\ cache' \in CachesWith({scan[f].target : f \in {g \in Active : Caches(g, out[g])}})
  BY DEF Process
<1> DEFINE T == {scan[f].target : f \in {g \in Active : Caches(g, out[g])}}
<1>2. T \in SUBSET Running
  BY DEF Running
<1>3. ASSUME NEW f \in Active, Caches(f, out[f])
      PROVE  scan[f].target \notin Running'
  <2>1. f \notin Active'
    BY <1>1, <1>3 DEF Caches, Active
  <2>2. \A g \in Active' : g \in Active /\ scan'[g].target = scan[g].target
    BY ScansKept
  <2> QED
    BY <2>1, <2>2 DEF OneScanEach, Running
<1> QED
  BY <1>1, <1>2, <1>3

\* Every step keeps the clean targets out of the scans
LEMMA CleanStep ==
    ASSUME TypeOK, OneScanEach, CleanNotScanned, [Next]_vars
    PROVE  CleanNotScanned'
<1>1. ASSUME Select(0) \/ Select(1)
      PROVE  CleanNotScanned'
  <2>1. /\ Clean' = Clean
        /\ \A d, e \in cache' : d.target = e.target => d = e
    BY <1>1, CacheRenewed
  <2>2. Running' \subseteq Running
    BY <1>1, ScansKept, FewerRunning
  <2>3. Queued' = Queued
    BY <1>1 DEF Select, Queued
  <2> QED
    BY <2>1, <2>2, <2>3 DEF CleanNotScanned
<1>2. ASSUME NEW a \in Addresses, Check(a)
      PROVE  CleanNotScanned'
  <2>1. /\ Clean' = Clean
        /\ \A d, e \in cache' : d.target = e.target => d = e
    BY <1>2, CacheRenewed
  <2>2. PICK new \in Seq(Targets) :
             /\ queue' = queue \o new
             /\ \A k \in DOMAIN new : new[k] \notin Queued \union Running \union Clean
    BY <1>2, CheckQueues
  <2>3. Queued' \intersect Clean = {}
    BY <2>2, Appended DEF Queued, CleanNotScanned
  <2>4. Running' = Running
    BY <1>2 DEF Check, Running, Active
  <2> QED
    BY <2>1, <2>3, <2>4 DEF CleanNotScanned
<1>3. ASSUME StartScan
      PROVE  CleanNotScanned'
  <2>1. PICK f \in Fds \ (Active \union foreign) :
             /\ Active' = Active \union {f}
             /\ scan'[f].target = Head(queue)
             /\ \A g \in Active : scan'[g] = scan[g]
    BY <1>3, ScanStarts
  <2>2. queue # <<>> /\ queue' = Tail(queue) /\ cache' = cache
    BY <1>3 DEF StartScan
  <2>3. Head(queue) \in Queued /\ Queued' \subseteq Queued
    BY <2>2, HeadAndTail DEF TypeOK, Queued
  <2>4. Running' = Running \union {Head(queue)}
    BY <2>1 DEF Running
  <2>5. Clean' = Clean
    BY <2>2 DEF Clean
  <2> QED
    BY <2>2, <2>3, <2>4, <2>5 DEF CleanNotScanned
<1>4. ASSUME StartFails
      PROVE  CleanNotScanned'
  <2>1. queue # <<>> /\ queue' = Tail(queue) /\ scan' = scan
    BY <1>4 DEF StartFails
  <2>2. /\ Head(queue) = queue[1] /\ Head(queue) \in Targets /\ 1 \in DOMAIN queue
        /\ \A i \in DOMAIN queue' :
             i \in Nat /\ i >= 1 /\ i + 1 \in DOMAIN queue /\ queue'[i] = queue[i + 1]
    BY <2>1, HeadAndTail DEF TypeOK
  <2>3. Head(queue) \in Queued /\ Head(queue) \notin Running
    BY <2>2 DEF OneScanEach, Queued
  <2>4. Queued' \subseteq Queued \ {Head(queue)}
    BY <2>2 DEF OneScanEach, Queued
  <2>5. /\ Clean' \subseteq Clean \union {Head(queue)}
        /\ \A d, e \in cache' : d.target = e.target => d = e
    BY <1>4, <2>2, <2>3, CacheGrows DEF StartFails, CleanNotScanned
  <2>6. Running' = Running
    BY <2>1 DEF Running, Active
  <2> QED
    BY <2>3, <2>4, <2>5, <2>6 DEF CleanNotScanned
<1>5. ASSUME Process
      PROVE  CleanNotScanned'
  <2>1. PICK T \in SUBSET Running : cache' \in CachesWith(T) /\ T \intersect Running' = {}
    BY <1>5, EndedScans
  <2>2. Running \subseteq Targets
    BY DEF TypeOK, Active, Scans, Running
  <2>3. /\ Clean' \subseteq Clean \union T
        /\ \A d, e \in cache' : d.target = e.target => d = e
    BY <2>1, <2>2, CacheGrows DEF CleanNotScanned
  <2>4. Running' \subseteq Running
    BY <1>5, ScansKept, FewerRunning
  <2>5. Queued' = Queued
    BY <1>5 DEF Process, Queued
  <2> QED
    BY <2>1, <2>3, <2>4, <2>5 DEF CleanNotScanned, OneScanEach
<1>6. ASSUME Expire
      PROVE  CleanNotScanned'
  <2>1. cache' \subseteq cache /\ UNCHANGED <<queue, scan>>
    BY <1>6 DEF Expire
  <2> QED
    BY <2>1, SameScans DEF CleanNotScanned, Clean
<1>7. ASSUME (\E f \in Fds : Close(f)) \/ NoSocket \/ UNCHANGED vars
      PROVE  CleanNotScanned'
  <2>1. UNCHANGED <<queue, scan, cache>>
    BY <1>7 DEF Close, NoSocket, vars
  <2> QED
    BY <2>1, SameScans DEF CleanNotScanned, Clean
<1> QED
  BY <1>1, <1>2, <1>3, <1>4, <1>5, <1>6, <1>7 DEF Next

-----------------------------------------------------------------------------
(* SCAN_MAX_COUNT                                                          *)

\* Every step keeps the number of running scans within the limit
LEMMA LimitStep ==
    ASSUME TypeOK, WithinLimit, [Next]_vars
    PROVE  WithinLimit'
<1>1. IsFiniteSet(Active)
  BY Finite, FS_Subset DEF Active
<1>2. Cardinality(Active) \in Nat /\ world.maxCount \in Nat /\ world' = world
  BY <1>1, FS_CardinalityType, World, WorldKept DEF TypeOK
<1>3. ASSUME StartScan
      PROVE  WithinLimit'
  <2>1. PICK f \in Fds \ (Active \union foreign) : Active' = Active \union {f}
    BY <1>3, ScanStarts
  <2>2. Cardinality(Active') = Cardinality(Active) + 1
    BY <1>1, <2>1, FS_AddElement
  <2>3. Cardinality(Active) < world.maxCount
    BY <1>2, <1>3 DEF StartScan, Full
  <2> QED
    BY <1>2, <2>2, <2>3 DEF WithinLimit
<1>4. ASSUME Select(0) \/ Select(1) \/ Process
      PROVE  WithinLimit'
  <2>1. Active' \subseteq Active
    BY <1>4, ScansKept
  <2>2. Cardinality(Active') <= Cardinality(Active) /\ Cardinality(Active') \in Nat
    BY <1>1, <2>1, FS_Subset, FS_CardinalityType
  <2> QED
    BY <1>2, <2>2 DEF WithinLimit
<1>5. ASSUME \/ \E a \in Addresses : Check(a)
             \/ \E f \in Fds : Close(f)
             \/ Expire \/ StartFails \/ NoSocket \/ UNCHANGED vars
      PROVE  WithinLimit'
  <2>1. scan' = scan
    BY <1>5 DEF Check, Close, Expire, StartFails, NoSocket, vars
  <2>2. Active' = Active
    BY <2>1 DEF Active
  <2> QED
    BY <1>2, <2>2 DEF WithinLimit
<1> QED
  BY <1>3, <1>4, <1>5 DEF Next

-----------------------------------------------------------------------------
(* The theorems                                                            *)

\* The four invariants together are inductive: the scans of a target stay apart
\* only because clean targets are not queued anew, and a target that ends its
\* scan can become clean only because no other scan of it is left.
IInv == TypeOK /\ OneScanEach /\ CleanNotScanned /\ WithinLimit

\* The scanner begins with nothing queued, running or cached
LEMMA InitIInv == Init => IInv
<1> SUFFICES ASSUME Init PROVE IInv
  OBVIOUS
<1>1. Active = {}
  BY DEF Init, Active
<1>2. Queued = {} /\ Running = {} /\ Clean = {}
  BY <1>1 DEF Init, Queued, Running, Clean
<1>3. TypeOK
  BY <1>1, Finite, World DEF Init, TypeOK
<1>4. Cardinality(Active) = 0
  BY <1>1, FS_EmptySet
<1>5. WithinLimit
  BY <1>4, World DEF Init, WithinLimit
<1> QED
  BY <1>1, <1>2, <1>3, <1>5 DEF IInv, OneScanEach, CleanNotScanned, Init

\* The inductive invariant holds throughout, in every instance of the scanner
THEOREM Invariance == Spec => []IInv
<1>1. IInv /\ [Next]_vars => IInv'
  BY TypeStep, OneScanStep, CleanStep, LimitStep DEF IInv
<1> QED
  BY InitIInv, <1>1, PTL DEF Spec

\* Types: no descriptor serves a scan and another connection at once
THEOREM Typing == Spec => []TypeOK
BY Invariance, PTL DEF IInv

\* A target is queued or running at most once, however often clients are checked
THEOREM ScansApart == Spec => []OneScanEach
BY Invariance, PTL DEF IInv

\* A target known to be clean is not scanned, even when scans fail to start
THEOREM CleanLeftAlone == Spec => []CleanNotScanned
BY Invariance, PTL DEF IInv

\* No more than SCAN_MAX_COUNT scans run at once
THEOREM Limited == Spec => []WithinLimit
BY Invariance, PTL DEF IInv

-----------------------------------------------------------------------------
(* Open proxies are not cached                                             *)

\* What an open proxy's scan relies on: in the steps of the pass no connection
\* hands its descriptor, readable as select() left it, to a new scan, and no
\* connect() fails at once.
Calm == ~StartFails /\ \A f \in Fds : ~Close(f)

\* Descriptors that select() reported are held
ReadyHeld == ready \subseteq Active \union foreign

\* The scan of an open proxy at f is never late: it is looked at for the first
\* time before it can be read from, and at every time after that it is ready.
OnTime(f) ==
    /\ scan[f].phase = "new" => /\ scan[f].idle = 0 /\ f \notin ready
                                /\ at \in {"starting", "processing"}
    /\ scan[f].phase # "new" /\ at # "select" => f \in ready
    /\ scan[f].phase = "connecting" => scan[f].idle <= IF at = "select" THEN 0 ELSE 1
OpenOnTime == \A f \in Active : scan[f].target \in Open => OnTime(f)

OpenUnclean == Clean \intersect Open = {}

OpenInv == ReadyHeld /\ OpenOnTime /\ OpenUnclean

\* The types of a scan that runs
LEMMA ScanFacts ==
    ASSUME TypeOK, NEW f \in Active
    PROVE  /\ f \in Fds /\ scan[f] \in Scans /\ scan[f] # NoScan
           /\ scan[f].idle \in Nat /\ scan[f].life \in Nat
           /\ scan[f].phase \in {"new", "connecting", "connected"}
<1>1. f \in Fds /\ scan[f] \in Scans /\ scan[f] # NoScan
  BY DEF TypeOK, Active
<1> QED
  BY <1>1, Finite DEF Scans

\* What select() makes of a running scan
LEMMA SelectAges ==
    ASSUME TypeOK, NEW d \in {0, 1}, Select(d)
    PROVE  /\ Active' \subseteq Active
           /\ \A f \in Active' : /\ scan'[f].target = scan[f].target
                                 /\ scan'[f].phase = scan[f].phase
                                 /\ scan'[f].idle <= scan[f].idle + d
<1> DEFINE aged(f) == [scan[f] EXCEPT !.idle = AtMost(@ + d, IdleMax + 1),
                                      !.life = AtMost(@ + d, ScanTimeout)]
<1>1. scan' = [f \in Fds |-> IF f \in Active THEN aged(f) ELSE NoScan]
  BY DEF Select
<1>2. ASSUME NEW f \in Active
      PROVE  /\ aged(f).target = scan[f].target /\ aged(f).phase = scan[f].phase
             /\ aged(f).idle <= scan[f].idle + d
  <2>1. scan[f] \in Scans /\ scan[f].idle \in Nat
    BY ScanFacts
  <2>2. /\ aged(f).target = scan[f].target /\ aged(f).phase = scan[f].phase
        /\ aged(f).idle = AtMost(scan[f].idle + d, IdleMax + 1)
    BY <2>1 DEF Scans
  <2>3. AtMost(scan[f].idle + d, IdleMax + 1) <= scan[f].idle + d
    BY <2>1, Finite DEF AtMost
  <2> QED
    BY <2>2, <2>3
<1> HIDE DEF aged
<1>3. Active' \subseteq Active
  BY <1>1 DEF Active
<1> QED
  BY <1>1, <1>2, <1>3 DEF Active

\* An open proxy's scan that is on time goes on or detects the proxy
LEMMA OpenOutcome ==
    ASSUME TypeOK, NEW f \in Active, scan[f].target \in Open, OnTime(f),
           at # "select", NEW o \in Outcomes(f)
    PROVE  /\ ~Caches(f, o)
           /\ ~Ends(f, o) => /\ Advanced(f, o).phase # "new"
                             /\ Advanced(f, o).phase = "connecting" =>
                                  Advanced(f, o).idle = 0
<1>1. /\ scan[f] \in Scans /\ scan[f].idle \in Nat
      /\ scan[f].phase \in {"new", "connecting", "connected"}
  BY ScanFacts
<1>2. CASE scan[f].phase = "new"
  <2>1. o = "waits" /\ scan[f].idle = 0
    BY <1>2 DEF OnTime, Outcomes
  <2>2. Advanced(f, o) = [scan[f] EXCEPT !.phase = "connecting"]
    BY <1>2, <2>1 DEF Advanced
  <2>3. Advanced(f, o).phase = "connecting" /\ Advanced(f, o).idle = 0
    BY <1>1, <2>1, <2>2 DEF Scans
  <2>4. ~Ends(f, o)
    BY <2>1, <2>3, Finite DEF Ends, TimedOut, Expired
  <2> QED
    BY <2>3, <2>4 DEF Caches
<1>3. CASE scan[f].phase = "connecting"
  <2>1. o = "connects"
    BY <1>3 DEF OnTime, Outcomes
  <2>2. Advanced(f, o) = [scan[f] EXCEPT !.phase = "connected", !.life = 0]
    BY <2>1 DEF Advanced
  <2>3. /\ Advanced(f, o).phase = "connected" /\ Advanced(f, o).idle = scan[f].idle
        /\ Advanced(f, o).life = 0
    BY <1>1, <2>2 DEF Scans
  <2>4. scan[f].idle <= 1
    BY <1>1, <1>3 DEF OnTime
  <2>5. ~Ends(f, o)
    BY <1>1, <2>1, <2>3, <2>4, LimitsAssumption DEF Ends, TimedOut, Expired
  <2> QED
    BY <2>3, <2>5 DEF Caches
<1>4. CASE scan[f].phase = "connected"
  <2>1. o = "detects"
    BY <1>4 DEF OnTime, Outcomes
  <2> QED
    BY <2>1 DEF Caches, Ends
<1> QED
  BY <1>1, <1>2, <1>3, <1>4

\* In a calm pass no open proxy becomes a clean host
LEMMA OpenStep ==
    ASSUME TypeOK, CleanNotScanned, OpenInv, [Next]_vars, [Calm]_vars
    PROVE  OpenInv'
<1> USE DEF OpenInv
<1>1. ASSUME NEW d \in {0, 1}, Select(d)
      PROVE  OpenInv'
  <2>1. /\ Active' \subseteq Active
        /\ \A f \in Active' : /\ scan'[f].target = scan[f].target
                              /\ scan'[f].phase = scan[f].phase
                              /\ scan'[f].idle <= scan[f].idle + d
    BY <1>1, SelectAges
  <2>2. /\ at = "select" /\ at' = "handlers" /\ foreign' = foreign
        /\ ready' \subseteq foreign \union Active
        /\ \A f \in Active : scan[f].target \in Open => f \in ready'
    BY <1>1 DEF Select
  <2>3. Active' = Active
    <3>1. scan' \in [Fds -> Scans \union {NoScan}]
      BY <1>1, ScansKept
    <3>2. \A f \in Active : scan'[f] = [scan[f] EXCEPT !.idle = AtMost(@ + d, IdleMax + 1),
                                            !.life = AtMost(@ + d, ScanTimeout)]
      BY <1>1 DEF Select, Active
    <3>3. \A f \in Active : scan'[f].phase = scan[f].phase
      BY <3>2, ScanFacts DEF Scans
    <3>4. \A f \in Active : scan'[f].phase # "none"
      BY <3>3, ScanFacts
    <3> QED
      BY <2>1, <3>4 DEF Active, NoScan
  <2>4. ReadyHeld'
    BY <2>2, <2>3 DEF ReadyHeld
  <2>5. OpenOnTime'
    <3> SUFFICES ASSUME NEW f \in Active', scan'[f].target \in Open
                 PROVE  OnTime(f)'
      BY DEF OpenOnTime
    <3>1. f \in Active /\ scan[f].target \in Open /\ OnTime(f) /\ f \in ready'
      BY <2>1, <2>2 DEF OpenOnTime
    <3>2. scan[f].phase # "new"
      BY <2>2, <3>1 DEF OnTime
    <3>3. scan'[f].phase = "connecting" => scan'[f].idle <= 1
      <4> HAVE scan'[f].phase = "connecting"
      <4>1. scan[f].idle <= 0 /\ scan[f].idle \in Nat
        BY <2>1, <2>2, <3>1, ScanFacts DEF OnTime
      <4>2. scan'[f].idle <= 0 + d
        BY <2>1, <4>1
      <4>3. f \in Active' /\ scan' \in [Fds -> Scans \union {NoScan}]
        BY <1>1, ScansKept
      <4>4. scan'[f].idle \in Nat
        BY <4>3, Finite DEF Active, Scans
      <4> QED
        BY <4>2, <4>4
    <3> QED
      BY <2>1, <2>2, <3>1, <3>2, <3>3 DEF OnTime
  <2>6. OpenUnclean'
    BY <1>1, CacheRenewed DEF OpenUnclean
  <2> QED
    BY <2>4, <2>5, <2>6
<1>2. ASSUME Process, Calm
      PROVE  OpenInv'
  <2>1. PICK out :
          /\ \A f \in Active : out[f] \in Outcomes(f)
          /\ scan' = [f \in Fds |->
               IF f \in Active /\ ~Ends(f, out[f]) THEN Advanced(f, out[f]) ELSE NoScan]
          /\ cache' \in CachesWith({scan[f].target : f \in {g \in Active : Caches(g, out[g])}})
    BY <1>2 DEF Process
  <2>2. at # "select" /\ at' = "select" /\ ready' = {}
    BY <1>2 DEF Process
  <2>3. \A f \in Active : scan[f].target \in Open =>
          /\ ~Caches(f, out[f])
          /\ ~Ends(f, out[f]) => /\ Advanced(f, out[f]).phase # "new"
                                 /\ Advanced(f, out[f]).phase = "connecting" =>
                                      Advanced(f, out[f]).idle = 0
    BY <2>1, <2>2, OpenOutcome DEF OpenOnTime
  <2>4. OpenOnTime'
    <3> SUFFICES ASSUME NEW f \in Active', scan'[f].target \in Open
                 PROVE  OnTime(f)'
      BY DEF OpenOnTime
    <3>1. f \in Fds /\ f \in Active /\ ~Ends(f, out[f]) /\ scan'[f] = Advanced(f, out[f])
      BY <2>1 DEF Active
    <3>2. scan[f].target \in Open
      BY <3>1, AdvancedFacts
    <3> QED
      BY <2>2, <2>3, <3>1, <3>2 DEF OnTime
  <2>5. OpenUnclean'
    <3> DEFINE T == {scan[f].target : f \in {g \in Active : Caches(g, out[g])}}
    <3>1. T \in SUBSET Targets /\ T \intersect Open = {}
      BY <2>3 DEF TypeOK, Active, Scans
    <3>2. \A e \in cache' : e \in cache \/ e.target \in T
      BY <2>1, <3>1, CachesWithFacts
    <3> QED
      BY <3>1, <3>2 DEF OpenUnclean, Clean
  <2> QED
    BY <2>2, <2>4, <2>5 DEF ReadyHeld
<1>3. ASSUME StartScan
      PROVE  OpenInv'
  <2> DEFINE s == [target |-> Head(queue), phase |-> "new", idle |-> 0, life |-> 0]
  <2>1. PICK f \in Free : scan' = [scan EXCEPT ![f] = s]
    BY <1>3 DEF StartScan
  <2>2. f \in Fds /\ f \notin Active /\ f \notin ready
    BY <2>1 DEF Free, ReadyHeld
  <2>3. at = "starting" /\ UNCHANGED <<at, ready, foreign, cache>>
    BY <1>3 DEF StartScan
  <2>4. s.phase = "new" /\ s.idle = 0 /\ s # NoScan
    BY DEF NoScan
  <2> HIDE DEF s
  <2>5. scan'[f] = s /\ \A g \in Fds : g # f => scan'[g] = scan[g]
    BY <2>1, <2>2 DEF TypeOK
  <2>6. Active' = Active \union {f}
    BY <2>2, <2>4, <2>5 DEF Active
  <2>7. OpenOnTime'
    <3> SUFFICES ASSUME NEW g \in Active', scan'[g].target \in Open
                 PROVE  OnTime(g)'
      BY DEF OpenOnTime
    <3>1. CASE g = f
      BY <2>2, <2>3, <2>4, <2>5, <3>1 DEF OnTime
    <3>2. CASE g # f
      <4>1. g \in Active /\ scan'[g] = scan[g]
        BY <2>5, <2>6, <3>2 DEF Active
      <4> QED
        BY <2>3, <4>1 DEF OpenOnTime, OnTime
    <3> QED
      BY <3>1, <3>2
  <2> QED
    BY <2>3, <2>6, <2>7 DEF ReadyHeld, OpenUnclean, Clean
<1>4. ASSUME \/ \E a \in Addresses : Check(a)
             \/ Expire \/ NoSocket \/ UNCHANGED vars
      PROVE  OpenInv'
  <2>1. UNCHANGED <<ready, foreign, scan>>
    BY <1>4 DEF Check, Expire, NoSocket, vars
  <2>2. at' = at \/ (at \in {"handlers", "starting"} /\ at' \in {"starting", "processing"})
    BY <1>4 DEF Check, Expire, NoSocket, vars
  <2>3. Active' = Active
    BY <2>1 DEF Active
  <2>4. ReadyHeld'
    BY <2>1, <2>3 DEF ReadyHeld
  <2>5. OpenOnTime'
    BY <2>1, <2>2, <2>3 DEF OpenOnTime, OnTime
  <2>6. Clean' \subseteq Clean
    <3>1. ASSUME NEW a \in Addresses, Check(a) PROVE Clean' = Clean
      BY <3>1, CacheRenewed
    <3>2. ASSUME Expire \/ NoSocket \/ UNCHANGED vars PROVE Clean' \subseteq Clean
      BY <3>2 DEF Expire, NoSocket, vars, Clean
    <3> QED
      BY <1>4, <3>1, <3>2
  <2> QED
    BY <2>4, <2>5, <2>6 DEF OpenUnclean
<1>5. ASSUME StartFails \/ \E f \in Fds : Close(f)
      PROVE  UNCHANGED vars
  BY <1>5 DEF Calm
<1>6. Process => Calm \/ UNCHANGED vars
  OBVIOUS
<1> QED
  BY <1>1, <1>2, <1>3, <1>4, <1>5, <1>6 DEF Next

\* As long as no connection closes within a pass and no connect() fails at once,
\* an open proxy that answers is never taken for a clean host, whatever the
\* limits, the order of the checks, and the other scans.
THEOREM OpenNeverClean == Spec /\ [][Calm]_vars => []OpenUnclean
<1>1. Init => OpenInv
  BY DEF Init, OpenInv, ReadyHeld, OpenOnTime, OpenUnclean, Active, Clean
<1>2. OpenInv => OpenUnclean
  BY DEF OpenInv
<1> QED
  BY <1>1, <1>2, OpenStep, Typing, CleanLeftAlone, PTL DEF Spec

\* In particular where there are no other connections and connect() does not fail.
THEOREM OpenNeverCleanAlone == Spec => []OpenNotCached
<1> DEFINE Inv == Undisturbed => OpenInv
<1>1. Init => Inv
  BY DEF Init, OpenInv, ReadyHeld, OpenOnTime, OpenUnclean, Active, Clean
<1>2. TypeOK /\ CleanNotScanned /\ Inv /\ [Next]_vars => Inv'
  <2> SUFFICES ASSUME TypeOK, CleanNotScanned, Inv, [Next]_vars, Undisturbed'
               PROVE  OpenInv'
    OBVIOUS
  <2>1. Undisturbed
    BY WorldKept DEF Undisturbed
  <2>2. foreign = {}
    BY <2>1 DEF TypeOK, Undisturbed
  <2>3. [Calm]_vars
    BY <2>1, <2>2 DEF Calm, StartFails, Close, Undisturbed
  <2> QED
    BY <2>1, <2>3, OpenStep
<1>3. Inv => OpenNotCached
  BY DEF OpenInv, OpenUnclean, OpenNotCached
<1> QED
  BY <1>1, <1>2, <1>3, Typing, CleanLeftAlone, PTL DEF Spec

=============================================================================
