--------------------------- MODULE Sessions_proof ---------------------------
(***************************************************************************)
(* Proofs about the operators' sessions and what they teach the bot, for   *)
(* any configurations, handles, masks, passwords, clients, filters, traps, *)
(* settings and commands: nobody has flags that no O line gives to somebody *)
(* like him, who comes back has the watches he had, a load makes the traps *)
(* those of the file, and a change that was saved outlives the bot.        *)
(***************************************************************************)
EXTENDS Sessions, FiniteSetTheorems, NaturalsInduction, WellFoundedInduction, TLAPS

-----------------------------------------------------------------------------
(* The invariant                                                           *)

Fields6 == {"state", "client", "handle", "flags", "watches", "echo"}

\* An O line o, of a configuration that may be in force, entitles a session.
Entitles(o, session) ==
  /\ \E c \in world.configs : \E i \in DOMAIN c : o = c[i]
  /\ o.handle = session.handle
  /\ {session.client.userhost, session.client.userip} \cap o.hosts # {}
  /\ session.flags = o.flags \cup {"AUTHED"}

\* A session that there is has its fields, and its flags by an O line if it has any.
Sound(session) ==
  session.state # Off =>
    /\ DOMAIN session = Fields6
    /\ session.flags # {} => \E o : Entitles(o, session)

\* The configuration in force is one of the scenario's, and every session is sound.
IInv == /\ config \in world.configs
        /\ DOMAIN sessions = Slots
        /\ \A s \in Slots : Sound(sessions[s])

-----------------------------------------------------------------------------
(* The steps                                                               *)

\* What authUser finds is an O line in force, of the handle, that covers the name.
LEMMA Found ==
  ASSUME config \in world.configs, NEW handle, NEW name, NEW password,
         NEW o \in AuthUser(handle, name, password)
  PROVE  /\ \E c \in world.configs : \E i \in DOMAIN c : o = c[i]
         /\ o.handle = handle
         /\ name \in o.hosts
  BY DEF AuthUser

\* Sessions that become others' equals stay sound.
LEMMA SameSessions ==
  ASSUME IInv, UNCHANGED <<world, sessions>>, config' \in world.configs
  PROVE  IInv'
  BY DEF IInv, Sound, Entitles

\* One session changes, to one that is sound.
LEMMA OneSession ==
  ASSUME IInv, NEW s \in Slots, NEW new, UNCHANGED <<world, config>>,
         sessions' = [sessions EXCEPT ![s] = new], Sound(new)
  PROVE  IInv'
<1>1. Sound(new)'
  BY DEF Sound, Entitles
<1>2. \A t \in Slots : Sound(sessions[t])'
  BY DEF IInv, Sound, Entitles
<1> QED
  BY <1>1, <1>2 DEF IInv

\* A session that changes neither its client, its handle nor its flags stays sound.
LEMMA StaysSound ==
  ASSUME NEW old, Sound(old), NEW new, old.state # Off,
         DOMAIN new = DOMAIN old, new.client = old.client, new.handle = old.handle,
         new.flags = old.flags
  PROVE  Sound(new)
  BY DEF Sound, Entitles

\* The end of the process ends every session.
LEMMA Dead ==
  ASSUME IInv, Dies, UNCHANGED <<world, config>>
  PROVE  IInv'
  BY DEF IInv, Dies, Nobody, Sound, Off

LEMMA AuthStep ==
  ASSUME IInv, NEW s \in Slots, NEW handle, NEW password, CmdAuth(s, handle, password)
  PROVE  IInv'
<1> DEFINE client == sessions[s].client
           byHost == AuthUser(handle, client.userhost, password)
           found == IF byHost # {} THEN byHost
                    ELSE AuthUser(handle, client.userip, password)
           after(line, echoRead, watchesRead) ==
             [sessions EXCEPT ![s] =
                LoadConfig(Authorized(@, line), echoRead, watchesRead)]
<1>1. UNCHANGED <<world, config>> /\ sessions[s].state = "open"
  BY DEF CmdAuth, Issues
<1>2. CASE UNCHANGED sessions
  BY <1>1, <1>2, SameSessions DEF IInv
<1>3. ASSUME NEW line \in found, NEW echoRead, NEW watchesRead,
             sessions' = after(line, echoRead, watchesRead)
      PROVE  IInv'
  <2> DEFINE known == Authorized(sessions[s], line)
             new == LoadConfig(known, echoRead, watchesRead)
  <2>1. DOMAIN sessions[s] = Fields6
    BY <1>1 DEF IInv, Sound, Off
  <2>2. /\ \E c \in world.configs : \E i \in DOMAIN c : line = c[i]
        /\ {client.userhost, client.userip} \cap line.hosts # {}
    BY Found DEF IInv
  <2>3. /\ DOMAIN known = Fields6 /\ known.client = client
        /\ known.handle = line.handle /\ known.flags = line.flags \cup {"AUTHED"}
    BY <2>1 DEF Authorized, Fields6
  <2>4. Entitles(line, known)
    BY <2>2, <2>3 DEF Entitles
  <2>5. Sound(known)
    BY <2>3, <2>4 DEF Sound
  <2>6. known.state = "open"
    BY <1>1, <2>1 DEF Authorized, Fields6
  <2>7. /\ DOMAIN new = DOMAIN known /\ new.client = known.client
        /\ new.handle = known.handle /\ new.flags = known.flags
    BY <2>3 DEF LoadConfig, Fields6
  <2>8. Sound(new)
    BY <2>5, <2>6, <2>7, StaysSound DEF Off
  <2>9. sessions' = [sessions EXCEPT ![s] = new]
    BY <1>3
  <2> QED
    BY <1>1, <2>8, <2>9, OneSession
<1>4. \/ UNCHANGED sessions
      \/ \E line \in found : \E echoRead, watchesRead \in {TRUE, ~world.faulty} :
           sessions' = after(line, echoRead, watchesRead)
  BY Zenon DEF CmdAuth
<1> HIDE DEF found, after
<1> QED
  BY <1>2, <1>3, <1>4

\* A client is listened for, connects, or its session ends.
LEMMA SessionStep ==
  ASSUME IInv, NEW s \in Slots,
         (\E client \in world.clients : Listen(s, client)) \/ Accept(s) \/ End(s)
  PROVE  IInv'
<1>1. ASSUME NEW client, Listen(s, client)
      PROVE  IInv'
  <2>1. Sound(Session(client))
    BY DEF Sound, Session, Fields6
  <2> QED
    BY <1>1, <2>1, OneSession DEF Listen
<1>2. CASE Accept(s)
  <2> DEFINE new == [sessions[s] EXCEPT !.state = "open"]
  <2>1. DOMAIN sessions[s] = Fields6 /\ sessions[s].state # Off /\ Sound(sessions[s])
    BY <1>2 DEF Accept, IInv, Sound, Off
  <2>2. /\ DOMAIN new = DOMAIN sessions[s] /\ new.client = sessions[s].client
        /\ new.handle = sessions[s].handle /\ new.flags = sessions[s].flags
    BY <2>1 DEF Fields6
  <2>3. Sound(new)
    BY <2>1, <2>2, StaysSound
  <2>4. sessions' = [sessions EXCEPT ![s] = new] /\ UNCHANGED <<world, config>>
    BY <1>2 DEF Accept
  <2> QED
    BY <2>3, <2>4, OneSession
<1>3. CASE End(s)
  <2>1. Sound([state |-> Off])
    BY DEF Sound
  <2> QED
    BY <1>3, <2>1, OneSession DEF End
<1> QED
  BY <1>1, <1>2, <1>3

\* .watch and .echo change what a session is sent, or end the bot.
LEMMA TasteStep ==
  ASSUME IInv, NEW s \in Slots,
         (\E line \in world.watchLines : CmdWatch(s, line))
         \/ (\E on \in world.echoes : CmdEcho(s, on))
  PROVE  IInv'
<1>1. ASSUME NEW line, CmdWatch(s, line)
      PROVE  IInv'
  <2> DEFINE set == Watched(sessions[s].watches, line)
             new == [sessions[s] EXCEPT !.watches = set]
  <2>1. UNCHANGED <<world, config>> /\ sessions[s].state = "open"
    BY <1>1 DEF CmdWatch, Issues
  <2>2. CASE sessions' = [sessions EXCEPT ![s].watches = set]
    <3>1. DOMAIN sessions[s] = Fields6 /\ sessions[s].state # Off /\ Sound(sessions[s])
      BY <2>1 DEF IInv, Sound, Off
    <3>2. /\ DOMAIN new = DOMAIN sessions[s] /\ new.client = sessions[s].client
          /\ new.handle = sessions[s].handle /\ new.flags = sessions[s].flags
      BY <3>1 DEF Fields6
    <3>3. Sound(new)
      BY <3>1, <3>2, StaysSound
    <3> QED
      BY <2>1, <2>2, <3>3, OneSession
  <2>3. CASE Dies
    BY <2>1, <2>3, Dead
  <2> QED
    BY <1>1, <2>2, <2>3 DEF CmdWatch
<1>2. ASSUME NEW on, CmdEcho(s, on)
      PROVE  IInv'
  <2> DEFINE new == [sessions[s] EXCEPT !.echo = on]
  <2>1. UNCHANGED <<world, config>> /\ sessions[s].state = "open"
        /\ sessions' = [sessions EXCEPT ![s] = new]
    BY <1>2 DEF CmdEcho, Issues
  <2>2. DOMAIN sessions[s] = Fields6 /\ sessions[s].state # Off /\ Sound(sessions[s])
    BY <2>1 DEF IInv, Sound, Off
  <2>3. /\ DOMAIN new = DOMAIN sessions[s] /\ new.client = sessions[s].client
        /\ new.handle = sessions[s].handle /\ new.flags = sessions[s].flags
    BY <2>2 DEF Fields6
  <2>4. Sound(new)
    BY <2>2, <2>3, StaysSound
  <2> QED
    BY <2>1, <2>4, OneSession
<1> QED
  BY <1>1, <1>2

LEMMA IInvStep ==
  ASSUME IInv, [Next]_vars, world.slots \subseteq Slots
  PROVE  IInv'
<1>1. ASSUME NEW s \in world.slots,
             (\E line \in world.trapLines : Trap(s, line))
             \/ (\E line \in world.setLines : Set(s, line)) \/ Save(s) \/ Load(s)
      PROVE  IInv'
  BY <1>1, SameSessions DEF Trap, Set, Save, Load, Issues, IInv
<1>2. ASSUME NEW s \in world.slots, CmdReload(s)
      PROVE  IInv'
  BY <1>2, SameSessions DEF CmdReload, Reload, Issues, IInv
<1>3. ASSUME NEW s \in world.slots, CmdDie(s)
      PROVE  IInv'
  BY <1>3, Dead DEF CmdDie, Issues
<1>4. CASE Hangup
  BY <1>4, SameSessions DEF Hangup, Reload, IInv
<1>5. CASE Crash
  BY <1>5, Dead DEF Crash
<1>6. CASE Start
  BY <1>6, SameSessions DEF Start
<1>7. CASE \E client \in world.offenders : Trapped(client)
  BY <1>7, SameSessions DEF Trapped, IInv
<1>8. CASE UNCHANGED vars
  BY <1>8, SameSessions DEF vars, desk, IInv
<1> QED
  BY <1>1, <1>2, <1>3, <1>4, <1>5, <1>6, <1>7, <1>8, AuthStep, SessionStep, TasteStep
     DEF Next

\* The scenario, and with it the sessions it is about, stays as it is.
WorldFixed == world \in Worlds

LEMMA WorldStep ==
  ASSUME WorldFixed, [Next]_vars
  PROVE  WorldFixed'
<1>1. ASSUME NEW s,
             \/ (\E client \in world.clients : Listen(s, client)) \/ Accept(s) \/ End(s)
             \/ \E handle \in Handles, password \in world.passwords : CmdAuth(s, handle, password)
             \/ \E line \in world.watchLines : CmdWatch(s, line)
             \/ \E on \in world.echoes : CmdEcho(s, on)
      PROVE  UNCHANGED world
  <2>0. \A command : Issues(s, command) => world' = world
    BY DEF Issues
  <2>1. ASSUME NEW client, Listen(s, client) PROVE UNCHANGED world
    BY <2>1 DEF Listen
  <2>2. ASSUME Accept(s) \/ End(s) PROVE UNCHANGED world
    BY <2>2 DEF Accept, End
  <2>3. ASSUME NEW handle, NEW password, CmdAuth(s, handle, password) PROVE UNCHANGED world
    BY <2>0, <2>3 DEF CmdAuth
  <2>4. ASSUME NEW line, CmdWatch(s, line) PROVE UNCHANGED world
    BY <2>0, <2>4 DEF CmdWatch
  <2>5. ASSUME NEW on, CmdEcho(s, on) PROVE UNCHANGED world
    BY <2>0, <2>5 DEF CmdEcho
  <2> QED
    BY <1>1, <2>1, <2>2, <2>3, <2>4, <2>5
<1>2. ASSUME NEW s,
             \/ \E line \in world.trapLines : Trap(s, line)
             \/ \E line \in world.setLines : Set(s, line)
             \/ Save(s) \/ Load(s) \/ CmdReload(s) \/ CmdDie(s)
      PROVE  UNCHANGED world
  BY <1>2, SMTT(30) DEF Trap, Set, Save, Load, CmdReload, CmdDie, Issues
<1>3. ASSUME \/ Hangup \/ Crash \/ Start
             \/ \E client \in world.offenders : Trapped(client)
      PROVE  UNCHANGED world
  BY <1>3, SMTT(30) DEF Hangup, Crash, Start, Trapped
<1>4. CASE UNCHANGED vars
  BY <1>4 DEF vars, WorldFixed
<1>5. CASE \E s \in world.slots :
             \/ (\E client \in world.clients : Listen(s, client)) \/ Accept(s) \/ End(s)
             \/ \E handle \in Handles, password \in world.passwords : CmdAuth(s, handle, password)
             \/ \E line \in world.watchLines : CmdWatch(s, line)
             \/ \E on \in world.echoes : CmdEcho(s, on)
  BY <1>1, <1>5 DEF WorldFixed
<1>6. CASE \E s \in world.slots :
             \/ \E line \in world.trapLines : Trap(s, line)
             \/ \E line \in world.setLines : Set(s, line)
             \/ Save(s) \/ Load(s) \/ CmdReload(s) \/ CmdDie(s)
  BY <1>2, <1>6 DEF WorldFixed
<1> QED
  BY <1>3, <1>4, <1>5, <1>6 DEF Next, WorldFixed

\* The inductive invariant: the configuration in force is one that could be read, and
\* a session that has flags has those of an O line that covers its client.
THEOREM Invariance == Spec => []IInv
<1>1. Init => IInv /\ WorldFixed
  BY WorldsAssumption DEF Init, IInv, Sound, Off, WorldFixed
<1>2. WorldFixed => world.slots \subseteq Slots
  BY WorldsAssumption DEF WorldFixed
<1>3. IInv /\ WorldFixed /\ [Next]_vars => IInv' /\ WorldFixed'
  BY <1>2, IInvStep, WorldStep
<1> QED
  BY <1>1, <1>3, PTL DEF Spec

\* For any configurations and whatever a client tries, in whatever order: a session
\* has no flags but those of an O line that covers its client.
THEOREM OnlyEntitled == Spec => []Entitled
<1>1. IInv => Entitled
  BY DEF IInv, Sound, Entitles, Entitled
<1> QED
  BY <1>1, Invariance, PTL
-----------------------------------------------------------------------------
(* What a line of .watch makes of a set                                    *)

\* A set of numbers has a least one.
LEMMA LeastOf ==
  ASSUME NEW S \in SUBSET Nat, S # {}
  PROVE  \E m \in S : \A i \in S : m <= i
<1> DEFINE R == OpToRel(<, Nat)
<1>1. IsWellFoundedOn(R, Nat)
  BY NatLessThanWellFounded
<1>2. \A x, y \in Nat : <<x, y>> \in R <=> x < y
  BY DEF OpToRel
<1> HIDE DEF R
<1>3. PICK m \in S : \A i \in S : <<i, m>> \notin R
  BY <1>1, WFMin
<1>4. \A i \in S : i \in Nat /\ m \in Nat /\ ~(i < m)
  BY <1>2, <1>3
<1>5. \A i \in S : m <= i
  BY <1>4
<1> QED
  BY <1>5

\* A set that has 0 and with each number the next has all of them.
LEMMA Induct ==
  ASSUME NEW S, 0 \in S, \A n \in Nat : n \in S => n + 1 \in S
  PROVE  Nat \subseteq S
<1> SUFFICES ASSUME NEW n \in Nat, n \notin S PROVE FALSE
  OBVIOUS
<1>1. PICK m \in Nat \ S : \A i \in Nat \ S : m <= i
  BY LeastOf
<1>2. m # 0 /\ m - 1 \in Nat /\ m - 1 + 1 = m
  BY <1>1
<1> QED
  BY <1>1, <1>2

\* The greatest of the numbers up to the greatest of them is that one.
LEMMA TopOf ==
  ASSUME NEW n \in Nat, NEW S \in SUBSET (1 .. n), n \in S
  PROVE  Max(S) = n
<1>1. \A i \in S : i \in Nat /\ n >= i
  OBVIOUS
<1>2. \A x \in S : (\A i \in S : x >= i) => x = n
  BY <1>1
<1>3. \E x \in S : \A i \in S : x >= i
  BY <1>1
<1> QED
  BY <1>2, <1>3 DEF Max

\* What WatchSet::set does word by word: after[k] is the set when k of n words have
\* been read.
Makes(after, n, set, line) ==
  /\ after[0] = set /\ after[n] = Watched(set, line)
  /\ \A k \in 1 .. n : after[k] = WatchWord(after[k - 1], line[k])

\* It is what FoldLeft computes.
LEMMA WordByWord ==
  ASSUME NEW set, NEW line, NEW n \in Nat, DOMAIN line = 1 .. n
  PROVE  \E after : Makes(after, n, set, line)
<1> DEFINE step(g, s) == IF s = {} THEN set
                         ELSE WatchWord(g[s \ {Max(s)}], line[Max(s)])
           Upto(m, g) == g = [s \in SUBSET (1 .. m) |-> step(g, s)]
           Good == {m \in Nat : \E g : Upto(m, g)}
<1>1. Watched(set, line) = (CHOOSE g : Upto(n, g))[1 .. n]
  BY DEF Watched, FoldLeft, MapThenFoldSet
<1>2. \A g, s : step(g, s) = IF s = {} THEN set
                             ELSE WatchWord(g[s \ {Max(s)}], line[Max(s)])
  OBVIOUS
<1>3. ASSUME NEW g, NEW h, NEW s, s # {} => g[s \ {Max(s)}] = h[s \ {Max(s)}]
      PROVE  step(g, s) = step(h, s)
  BY <1>3
<1> HIDE DEF step
<1>4. 0 \in Good
  <2> DEFINE h == [s \in SUBSET (1 .. 0) |-> step(<<>>, s)]
  <2>1. \A s \in SUBSET (1 .. 0) : s = {}
    OBVIOUS
  <2>2. \A s \in SUBSET (1 .. 0) : step(<<>>, s) = step(h, s)
    BY <1>3, <2>1
  <2>3. Upto(0, h)
    BY <2>2
  <2> QED
    BY <2>3
<1>5. ASSUME NEW m \in Nat, m \in Good PROVE m + 1 \in Good
  <2>1. PICK g : Upto(m, g)
    BY <1>5
  <2> DEFINE low(s) == s \ {m + 1}
             h == [s \in SUBSET (1 .. m + 1) |->
                     IF m + 1 \in s THEN step(g, s) ELSE g[s]]
  <2>2. \A s \in SUBSET (1 .. m) : h[s] = g[s] /\ g[s] = step(g, s)
    BY <2>1
  <2>3. ASSUME NEW s \in SUBSET (1 .. m + 1)
        PROVE  h[s] = step(h, s)
    <3>1. CASE m + 1 \in s
      <4>1. Max(s) = m + 1
        BY <3>1, TopOf
      <4>2. s \ {m + 1} \in SUBSET (1 .. m)
        OBVIOUS
      <4>3. h[s \ {Max(s)}] = g[s \ {Max(s)}]
        BY <2>2, <4>1, <4>2
      <4>4. step(g, s) = step(h, s)
        <5> HIDE DEF h
        <5> QED
          BY <1>3, <4>3
      <4> QED
        BY <3>1, <4>4
    <3>2. CASE m + 1 \notin s
      <4>1. s \in SUBSET (1 .. m)
        BY <3>2
      <4>2. CASE s = {}
        <5> HIDE DEF h
        <5> QED
          BY <1>2, <2>2, <4>1, <4>2
      <4>3. CASE s # {}
        <5>1. s \ {Max(s)} \in SUBSET (1 .. m)
          BY <4>1
        <5> HIDE DEF h
        <5>2. h[s \ {Max(s)}] = g[s \ {Max(s)}]
          BY <2>2, <5>1
        <5> QED
          BY <1>3, <2>2, <4>1, <5>2
      <4> QED
        BY <4>2, <4>3
    <3> QED
      BY <3>1, <3>2
  <2>4. h = [s \in SUBSET (1 .. m + 1) |-> h[s]]
    OBVIOUS
  <2>5. Upto(m + 1, h)
    <3> HIDE DEF h
    <3> QED
      BY <2>3, <2>4
  <2> HIDE DEF h, Upto
  <2> QED
    BY <2>5
<1>6. n \in Good
  <2> HIDE DEF Good
  <2> QED
    BY <1>4, <1>5, Induct
<1> DEFINE f == CHOOSE g : Upto(n, g)
<1>7. Upto(n, f)
  BY <1>6
<1>8. \A s \in SUBSET (1 .. n) : f[s] = step(f, s)
  <2> HIDE DEF f
  <2> QED
    BY <1>7
<1>9. Watched(set, line) = f[1 .. n]
  BY <1>1
<1> HIDE DEF Upto, f
<1> DEFINE after == [k \in 0 .. n |-> f[1 .. k]]
<1>10. after[0] = set
  <2>1. 1 .. 0 = {} /\ {} \in SUBSET (1 .. n)
    OBVIOUS
  <2>2. f[{}] = set
    BY <1>2, <1>8, <2>1
  <2> QED
    BY <2>1, <2>2
<1>11. after[n] = Watched(set, line)
  BY <1>9
<1>12. ASSUME NEW k \in 1 .. n PROVE after[k] = WatchWord(after[k - 1], line[k])
  <2>1. 1 .. k \in SUBSET (1 .. n) /\ k \in 1 .. k /\ k \in Nat
    OBVIOUS
  <2>2. Max(1 .. k) = k
    BY <2>1, TopOf
  <2>3. (1 .. k) \ {k} = 1 .. (k - 1) /\ k \in 0 .. n /\ k - 1 \in 0 .. n
    OBVIOUS
  <2>4. f[1 .. k] = step(f, 1 .. k)
    BY <1>8, <2>1
  <2>5. step(f, 1 .. k) = WatchWord(f[(1 .. k) \ {k}], line[k])
    BY <1>2, <2>1, <2>2
  <2>6. after[k] = f[1 .. k] /\ after[k - 1] = f[1 .. (k - 1)]
    BY <2>3
  <2> HIDE DEF after
  <2> QED
    BY <2>3, <2>4, <2>5, <2>6
<1> HIDE DEF after
<1> QED
  BY <1>10, <1>11, <1>12 DEF Makes

\* Whatever is typed, only kinds that there are get watched.
LEMMA WatchedAre ==
  ASSUME NEW set \in SUBSET Watches, NEW line, NEW n \in Nat, DOMAIN line = 1 .. n
  PROVE  Watched(set, line) \subseteq Watches
<1>0. PICK after : Makes(after, n, set, line)
  BY WordByWord
<1>1. /\ after[0] = set /\ after[n] = Watched(set, line)
      /\ \A k \in 1 .. n : after[k] = WatchWord(after[k - 1], line[k])
  BY <1>0 DEF Makes
<1> DEFINE Good == {k \in Nat : k <= n => after[k] \subseteq Watches}
<1>2. 0 \in Good
  BY <1>1
<1>3. ASSUME NEW k \in Nat, k \in Good PROVE k + 1 \in Good
  <2>1. CASE k + 1 <= n
    <3>1. k + 1 \in 1 .. n /\ k + 1 - 1 = k /\ k <= n
      BY <2>1
    <3>2. after[k + 1] = WatchWord(after[k], line[k + 1]) /\ after[k] \subseteq Watches
      BY <1>1, <1>3, <3>1
    <3>3. \A s, word : s \subseteq Watches => WatchWord(s, word) \subseteq Watches
      BY WatchesAssumption DEF WatchWord
    <3> QED
      BY <3>2, <3>3
  <2>2. CASE ~(k + 1 <= n)
    BY <2>2
  <2> QED
    BY <2>1, <2>2
<1>4. n \in Good
  <2> HIDE DEF Good
  <2> QED
    BY <1>2, <1>3, Induct
<1> QED
  BY <1>1, <1>4

\* A sequence that has the k members of a set, each once
Enumerates(names, k, S) ==
  /\ DOMAIN names = 1 .. k
  /\ \A i \in 1 .. k : names[i] \in S
  /\ \A i, j \in 1 .. k : names[i] = names[j] => i = j
  /\ \A w \in S : \E i \in 1 .. k : names[i] = w

LEMMA Enumerated ==
  ASSUME NEW S, IsFiniteSet(S)
  PROVE  \E k \in Nat : Enumerates(SetToSeq(S), k, S)
<1>0. PICK names : names = SetToSeq(S)
  OBVIOUS
<1>1. PICK n \in Nat : ExistsBijection(1 .. n, S)
  BY FS_NatBijection
<1>2. Cardinality(S) = n
  BY <1>1, FS_CountingElements
<1>3. \E f \in [1 .. n -> S] : IsInjective(f)
  BY <1>1 DEF ExistsBijection, Bijection, Injection
<1>4. names \in [1 .. n -> S] /\ IsInjective(names)
  BY <1>0, <1>2, <1>3 DEF SetToSeq
<1>5. names \in Injection(1 .. n, S)
  BY <1>4 DEF Injection
<1>6. IsFiniteSet(1 .. n) /\ Cardinality(1 .. n) = n
  BY FS_Interval
<1>7. names \in Surjection(1 .. n, S)
  BY <1>2, <1>5, <1>6, FS_Injection
<1>8. Enumerates(names, n, S)
  BY <1>4, <1>7 DEF IsInjective, Surjection, Enumerates
<1> QED
  BY <1>0, <1>8

LEMMA Named ==
  ASSUME NEW names, names = SetToSeq(Watches)
  PROVE  \E n \in Nat : /\ DOMAIN names = 1 .. n
                        /\ \A i \in 1 .. n : names[i] \in Watches
                        /\ \A i, j \in 1 .. n : names[i] = names[j] => i = j
                        /\ \A w \in Watches : \E i \in 1 .. n : names[i] = w
  BY Enumerated, WatchesAssumption DEF Enumerates

\* The record of a set makes that set of any other.
LEMMA NamesRestore ==
  ASSUME NEW T \in SUBSET Watches, NEW set \in SUBSET Watches
  PROVE  Watched(set, WatchNames(T)) = T
<1>1. PICK names : names = SetToSeq(Watches)
  OBVIOUS
<1>2. PICK n \in Nat : /\ DOMAIN names = 1 .. n
                       /\ \A i \in 1 .. n : names[i] \in Watches
                       /\ \A i, j \in 1 .. n : names[i] = names[j] => i = j
                       /\ \A w \in Watches : \E i \in 1 .. n : names[i] = w
  BY <1>1, Named
<1>3. PICK line : line = WatchNames(T)
  OBVIOUS
<1>4. line = [i \in 1 .. n |-> Word(IF names[i] \in T THEN "+" ELSE "-", names[i])]
  BY <1>1, <1>2, <1>3 DEF WatchNames
<1>5. DOMAIN line = 1 .. n
  BY <1>4
<1>6. ASSUME NEW k \in 1 .. n, NEW s
      PROVE  WatchWord(s, line[k])
               = IF names[k] \in T THEN s \cup {names[k]} ELSE s \ {names[k]}
  <2>1. names[k] \in Watches /\ names[k] \notin {"ALL", "NONE", "DEFAULTS"}
    BY <1>2, WatchesAssumption
  <2>2. PICK w : w = line[k]
    OBVIOUS
  <2>3. /\ w.kind = names[k]
        /\ w.sign = IF names[k] \in T THEN "+" ELSE "-"
    BY <1>4, <2>2 DEF Word
  <2>4. w # Word("", "NONE") /\ w # Word("-", "ALL")
    <3>1. Word("", "NONE").kind = "NONE" /\ Word("-", "ALL").kind = "ALL"
      BY DEF Word
    <3> QED
      BY <2>1, <2>3, <3>1
  <2>5. CASE names[k] \in T
    BY <2>1, <2>2, <2>3, <2>4, <2>5 DEF WatchWord
  <2>6. CASE names[k] \notin T
    BY <2>1, <2>2, <2>3, <2>4, <2>6 DEF WatchWord
  <2> QED
    BY <2>5, <2>6
<1>0. PICK after : Makes(after, n, set, line)
  BY <1>5, WordByWord
<1>7. /\ after[0] = set /\ after[n] = Watched(set, line)
      /\ \A k \in 1 .. n : after[k] = WatchWord(after[k - 1], line[k])
  BY <1>0 DEF Makes
<1> DEFINE Done(k) == /\ after[k] \subseteq Watches
                      /\ \A i \in 1 .. k : names[i] \in after[k] <=> names[i] \in T
           Good == {k \in Nat : k <= n => Done(k)}
<1>8. 0 \in Good
  BY <1>7
<1>9. ASSUME NEW k \in Nat, k \in Good PROVE k + 1 \in Good
  <2>1. CASE k + 1 <= n
    <3>1. k + 1 \in 1 .. n /\ k + 1 - 1 = k /\ k <= n
      BY <2>1
    <3>2. Done(k)
      BY <1>9, <3>1
    <3>3. after[k + 1] = WatchWord(after[k], line[k + 1])
      BY <1>7, <3>1
    <3>4. after[k + 1] = IF names[k + 1] \in T THEN after[k] \cup {names[k + 1]}
                         ELSE after[k] \ {names[k + 1]}
      BY <1>6, <3>1, <3>3
    <3>5. \A i \in 1 .. k + 1 : i \in 1 .. n /\ (i # k + 1 => i \in 1 .. k)
      BY <3>1
    <3>6. after[k + 1] \subseteq Watches
      BY <1>2, <3>1, <3>2, <3>4
    <3>7. \A i \in 1 .. k + 1 : names[i] \in after[k + 1] <=> names[i] \in T
      <4> TAKE i \in 1 .. k + 1
      <4>1. CASE i = k + 1
        BY <3>4, <4>1
      <4>2. CASE i # k + 1
        <5>1. names[i] # names[k + 1] /\ i \in 1 .. k
          BY <1>2, <3>1, <3>5, <4>2
        <5> QED
          BY <3>2, <3>4, <5>1
      <4> QED
        BY <4>1, <4>2
    <3> QED
      BY <3>6, <3>7
  <2>2. CASE ~(k + 1 <= n)
    BY <2>2
  <2> QED
    BY <2>1, <2>2
<1>10. n \in Good
  <2> HIDE DEF Good
  <2> QED
    BY <1>8, <1>9, Induct
<1>11. Done(n)
  BY <1>10
<1>12. after[n] \subseteq Watches
       /\ \A i \in 1 .. n : names[i] \in after[n] <=> names[i] \in T
  BY <1>11
<1>13. after[n] = T
  <2>1. ASSUME NEW w \in Watches PROVE w \in after[n] <=> w \in T
    <3>1. PICK i \in 1 .. n : names[i] = w
      BY <1>2
    <3> QED
      BY <1>12, <3>1
  <2> QED
    BY <1>12, <2>1
<1> QED
  BY <1>3, <1>7, <1>13
-----------------------------------------------------------------------------
(* Records of watches                                                      *)

\* A session watches kinds that there are, and who has authenticated himself has
\* a handle.
Watching(session) ==
  session.state # Off =>
    /\ session.watches \subseteq Watches
    /\ "AUTHED" \in session.flags => session.handle \in Handles

\* A record has the names of a set, or none.
Recorded(record) ==
  /\ DOMAIN record = {"echo", "watches"}
  /\ \/ record.watches = NoRecord
     \/ \E T \in SUBSET Watches : record.watches = WatchNames(T)

Noting == /\ DOMAIN records = Handles
          /\ \A h \in Handles : Recorded(records[h])
          /\ \A s \in Slots : Watching(sessions[s])

\* A session's watches as its record has them
Restores(s) ==
  \A set \in SUBSET Watches :
    Watched(set, records'[sessions'[s].handle].watches) = sessions'[s].watches

LEMMA SameNotes ==
  ASSUME Noting, UNCHANGED <<records, sessions>>
  PROVE  Noting'
  BY DEF Noting, Watching, Recorded

\* One session changes, or one record.
LEMMA OneNote ==
  ASSUME IInv, Noting, NEW s \in Slots, NEW new, Watching(new),
         sessions' = [sessions EXCEPT ![s] = new], records' = records
  PROVE  Noting'
<1>1. \A t \in Slots : Watching(sessions'[t])
  BY DEF IInv, Noting
<1> QED
  BY <1>1 DEF Noting, Watching, Recorded

LEMMA DeadNote ==
  ASSUME Noting, Dies, UNCHANGED records
  PROVE  Noting'
  BY DEF Noting, Dies, Nobody, Watching, Recorded

\* What .auth gives a session, and what it finds in the record
LEMMA AuthNote ==
  ASSUME IInv, Noting, NEW s \in Slots, NEW handle \in Handles, NEW password,
         CmdAuth(s, handle, password)
  PROVE  /\ Noting'
         /\ \A t \in Slots : sessions'[t].watches # sessions[t].watches => Restores(t)
<1> DEFINE client == sessions[s].client
           byHost == AuthUser(handle, client.userhost, password)
           found == IF byHost # {} THEN byHost
                    ELSE AuthUser(handle, client.userip, password)
           after(line, echoRead, watchesRead) ==
             [sessions EXCEPT ![s] =
                LoadConfig(Authorized(@, line), echoRead, watchesRead)]
<1>1. records' = records /\ sessions[s].state = "open"
  BY DEF CmdAuth, Issues
<1>2. CASE UNCHANGED sessions
  BY <1>1, <1>2, SameNotes
<1>3. ASSUME NEW line \in found, NEW echoRead, NEW watchesRead,
             sessions' = after(line, echoRead, watchesRead)
      PROVE  /\ Noting'
             /\ \A t \in Slots : sessions'[t].watches # sessions[t].watches => Restores(t)
  <2>1. PICK known : known = Authorized(sessions[s], line)
    OBVIOUS
  <2>2. PICK new : new = LoadConfig(known, echoRead, watchesRead)
    OBVIOUS
  <2>3. sessions' = [sessions EXCEPT ![s] = new] /\ DOMAIN sessions = Slots
    BY <1>3, <2>1, <2>2 DEF IInv
  <2>4. DOMAIN sessions[s] = Fields6 /\ sessions[s].watches \subseteq Watches
    BY <1>1 DEF IInv, Sound, Noting, Watching, Off
  <2>5. line.handle = handle
    BY Found DEF IInv
  <2>6. /\ DOMAIN known = Fields6 /\ known.state = "open" /\ known.handle = handle
        /\ known.watches = sessions[s].watches
    BY <1>1, <2>1, <2>4, <2>5 DEF Authorized, Fields6
  <2>7. /\ new.state = "open" /\ new.handle = handle
        /\ new.watches = IF watchesRead THEN GetWatches(handle, known.watches)
                         ELSE known.watches
    BY <2>2, <2>6 DEF LoadConfig, Fields6
  <2>8. Recorded(records[handle])
    BY DEF Noting
  <2>9. \/ new.watches = sessions[s].watches
        \/ \E T \in SUBSET Watches : new.watches = T /\ records[handle].watches = WatchNames(T)
    <3>1. CASE ~watchesRead \/ records[handle].watches = NoRecord
      BY <2>6, <2>7, <3>1 DEF GetWatches
    <3>2. CASE watchesRead /\ records[handle].watches # NoRecord
      <4>1. PICK T \in SUBSET Watches : records[handle].watches = WatchNames(T)
        BY <2>8, <3>2 DEF Recorded
      <4>2. new.watches = Watched(known.watches, WatchNames(T))
        BY <2>7, <3>2, <4>1 DEF GetWatches
      <4>3. new.watches = T
        BY <2>4, <2>6, <4>2, NamesRestore
      <4> QED
        BY <4>1, <4>3
    <3> QED
      BY <3>1, <3>2
  <2>10. Watching(new)
    BY <2>4, <2>7, <2>9 DEF Watching
  <2>11. Noting'
    BY <1>1, <2>3, <2>10, OneNote
  <2>12. ASSUME NEW t \in Slots, sessions'[t].watches # sessions[t].watches
         PROVE  Restores(t)
    <3>1. t = s /\ sessions'[t] = new
      BY <2>3, <2>12
    <3>2. PICK T \in SUBSET Watches :
            new.watches = T /\ records[handle].watches = WatchNames(T)
      BY <2>9, <2>12, <3>1
    <3> QED
      BY <1>1, <2>7, <3>1, <3>2, NamesRestore DEF Restores
  <2> QED
    BY <2>11, <2>12
<1>4. \/ UNCHANGED sessions
      \/ \E line \in found : \E echoRead, watchesRead \in {TRUE, ~world.faulty} :
           sessions' = after(line, echoRead, watchesRead)
  BY Zenon DEF CmdAuth
<1> HIDE DEF found, after
<1> QED
  BY <1>2, <1>3, <1>4

\* What .watch changes, the record says.
LEMMA WatchNote ==
  ASSUME IInv, Noting, WorldFixed, NEW s \in Slots, NEW line \in world.watchLines,
         CmdWatch(s, line)
  PROVE  /\ Noting'
         /\ \A t \in Slots : /\ sessions'[t].state = "open"
                             /\ sessions'[t].watches # sessions[t].watches
                             => Restores(t)
<1> DEFINE handle == sessions[s].handle
<1>1. PICK set : set = Watched(sessions[s].watches, line)
  OBVIOUS
<1>2. /\ sessions[s].state = "open" /\ "AUTHED" \in sessions[s].flags
      /\ DOMAIN sessions = Slots /\ DOMAIN sessions[s] = Fields6
  BY NeedsAssumption DEF CmdWatch, Issues, IInv, Sound, Off
<1>3. handle \in Handles /\ sessions[s].watches \subseteq Watches
  BY <1>2 DEF Noting, Watching, Off
<1>4. line \in Seq([sign : STRING, kind : STRING])
  BY LinesAssumption DEF WorldFixed
<1>5. set \in SUBSET Watches
  <2>1. PICK n \in Nat : DOMAIN line = 1 .. n
    BY <1>4
  <2> QED
    BY <1>1, <1>3, <2>1, WatchedAre
<1>6. CASE Dies /\ UNCHANGED records
  BY <1>6, DeadNote DEF Dies, Nobody, Off
<1>7. CASE sessions' = [sessions EXCEPT ![s].watches = set] /\ SetWatches(handle, set)
  <2>1. PICK new : new = [sessions[s] EXCEPT !.watches = set]
    OBVIOUS
  <2>2. /\ new.state = "open" /\ new.handle = handle /\ new.watches = set
        /\ new.flags = sessions[s].flags
    BY <1>2, <2>1 DEF Fields6
  <2>3. sessions' = [sessions EXCEPT ![s] = new]
    BY <1>7, <2>1
  <2>4. DOMAIN records = Handles /\ Recorded(records[handle])
    BY <1>3 DEF Noting
  <2>5. records' = [records EXCEPT ![handle].watches = WatchNames(set)]
    BY <1>7 DEF SetWatches
  <2>6. records'[handle].watches = WatchNames(set) /\ Recorded(records'[handle])
    BY <1>3, <1>5, <2>4, <2>5 DEF Recorded
  <2>7. DOMAIN records' = Handles /\ \A h \in Handles : Recorded(records'[h])
    BY <2>4, <2>5, <2>6 DEF Noting
  <2>8. \A t \in Slots : Watching(sessions'[t])
    <3>1. Watching(new)
      BY <1>3, <1>5, <2>2 DEF Watching
    <3> QED
      BY <1>2, <2>3, <3>1 DEF Noting
  <2>9. Noting'
    BY <2>7, <2>8 DEF Noting, Recorded, Watching
  <2>10. ASSUME NEW t \in Slots, sessions'[t].watches # sessions[t].watches
         PROVE  Restores(t)
    <3>1. sessions'[t] = new
      BY <1>2, <2>3, <2>10
    <3> QED
      BY <1>5, <2>2, <2>6, <3>1, NamesRestore DEF Restores
  <2> QED
    BY <2>9, <2>10
<1> QED
  BY <1>1, <1>6, <1>7 DEF CmdWatch

\* .echo changes no watches.
LEMMA EchoNote ==
  ASSUME IInv, Noting, NEW s \in Slots, NEW on, CmdEcho(s, on)
  PROVE  Noting' /\ \A t \in Slots : sessions'[t].watches = sessions[t].watches
<1>1. PICK new : new = [sessions[s] EXCEPT !.echo = on]
  OBVIOUS
<1>2. /\ sessions[s].state = "open" /\ DOMAIN sessions = Slots
      /\ DOMAIN sessions[s] = Fields6 /\ sessions' = [sessions EXCEPT ![s] = new]
  BY <1>1 DEF CmdEcho, Issues, IInv, Sound, Off
<1>3. /\ new.state = "open" /\ new.watches = sessions[s].watches
      /\ new.flags = sessions[s].flags /\ new.handle = sessions[s].handle
  BY <1>1, <1>2 DEF Fields6
<1>4. \A t \in Slots : Watching(sessions'[t])
  BY <1>2, <1>3 DEF Noting, Watching, Off
<1>5. DOMAIN records' = Handles /\ \A h \in Handles : Recorded(records'[h])
  <2>1. CASE records' = records
    BY <2>1 DEF Noting
  <2>2. CASE SetEcho(sessions[s].handle, on)
    BY <2>2 DEF SetEcho, Noting, Recorded
  <2> QED
    BY <2>1, <2>2 DEF CmdEcho
<1>6. Noting'
  BY <1>4, <1>5 DEF Noting, Recorded, Watching
<1>7. \A t \in Slots : sessions'[t].watches = sessions[t].watches
  BY <1>2, <1>3
<1> QED
  BY <1>6, <1>7

\* A client is listened for, connects, or its session ends.
LEMMA SessionNote ==
  ASSUME IInv, Noting, NEW s \in Slots,
         (\E client \in world.clients : Listen(s, client)) \/ Accept(s) \/ End(s)
  PROVE  /\ Noting'
         /\ \A t \in Slots : sessions[t].state = "open" /\ sessions'[t].state = "open"
                             => sessions'[t].watches = sessions[t].watches
<1>0. DOMAIN sessions = Slots
  BY DEF IInv
<1>1. ASSUME NEW client, Listen(s, client)
      PROVE  /\ Noting'
             /\ \A t \in Slots : sessions[t].state = "open" => sessions'[t] = sessions[t]
  <2>1. Watching(Session(client))
    BY WatchesAssumption DEF Watching, Session
  <2>2. sessions' = [sessions EXCEPT ![s] = Session(client)] /\ records' = records
        /\ sessions[s].state = Off
    BY <1>1 DEF Listen
  <2>3. Noting'
    BY <2>1, <2>2, OneNote
  <2> QED
    BY <1>0, <2>2, <2>3 DEF Off
<1>2. CASE Accept(s)
  <2>1. PICK new : new = [sessions[s] EXCEPT !.state = "open"]
    OBVIOUS
  <2>2. /\ DOMAIN sessions[s] = Fields6 /\ sessions[s].state = "listening"
        /\ sessions' = [sessions EXCEPT ![s] = new] /\ records' = records
    BY <1>2, <2>1 DEF Accept, IInv, Sound, Off
  <2>3. /\ new.state = "open" /\ new.watches = sessions[s].watches
        /\ new.flags = sessions[s].flags /\ new.handle = sessions[s].handle
    BY <2>1, <2>2 DEF Fields6
  <2>4. Watching(new)
    BY <2>2, <2>3 DEF Noting, Watching, Off
  <2>5. Noting'
    BY <2>2, <2>4, OneNote
  <2> QED
    BY <1>0, <2>2, <2>5
<1>3. CASE End(s)
  <2>1. Watching([state |-> Off])
    BY DEF Watching
  <2>2. sessions' = [sessions EXCEPT ![s] = [state |-> Off]] /\ records' = records
    BY <1>3 DEF End
  <2>3. Noting'
    BY <2>1, <2>2, OneNote
  <2> QED
    BY <1>0, <2>2, <2>3 DEF Off
<1> QED
  BY <1>1, <1>2, <1>3

LEMMA NoteStep ==
  ASSUME IInv, Noting, WorldFixed, [Next]_vars
  PROVE  /\ Noting'
         /\ \A t \in Slots : /\ sessions[t].state = "open" /\ sessions'[t].state = "open"
                             /\ sessions'[t].watches # sessions[t].watches
                             => Restores(t)
<1>0. world.slots \subseteq Slots
  BY WorldsAssumption DEF WorldFixed
<1>1. CASE UNCHANGED <<records, sessions>>
  BY <1>1, SameNotes
<1>2. CASE Dies /\ UNCHANGED records
  BY <1>2, DeadNote DEF Dies, Nobody, Off
<1>3. ASSUME NEW s \in world.slots,
             (\E line \in world.trapLines : Trap(s, line))
             \/ (\E line \in world.setLines : Set(s, line)) \/ Save(s) \/ Load(s)
      PROVE  UNCHANGED <<records, sessions>>
  BY <1>3 DEF Trap, Set, Save, Load
<1>4. ASSUME NEW s \in world.slots, CmdReload(s)
      PROVE  UNCHANGED <<records, sessions>>
  BY <1>4 DEF CmdReload
<1>5. ASSUME NEW s \in world.slots, CmdDie(s)
      PROVE  Dies /\ UNCHANGED records
  BY <1>5 DEF CmdDie
<1>6. CASE Hangup \/ Start \/ UNCHANGED vars
  <2>1. UNCHANGED <<records, sessions>>
    BY <1>6 DEF Hangup, Start, vars, desk
  <2> QED
    BY <1>1, <2>1
<1>7. CASE Crash
  <2>1. Dies /\ UNCHANGED records
    BY <1>7 DEF Crash
  <2> QED
    BY <1>2, <2>1
<1>8. CASE \E client \in world.offenders : Trapped(client)
  <2>1. UNCHANGED <<records, sessions>>
    BY <1>8 DEF Trapped
  <2> QED
    BY <1>1, <2>1
<1> QED
  BY <1>0, <1>1, <1>2, <1>3, <1>4, <1>5, <1>6, <1>7, <1>8, AuthNote, WatchNote, EchoNote,
     SessionNote DEF Next

\* For any kinds of watches, lines, handles and failures of the database: when a
\* session's watches change, by .watch or by .auth, its operator's record makes the
\* same set of whatever another session watches.
THEOREM WatchesRemembered == Spec => Remembered
<1>1. Init => Noting
  BY DEF Init, Noting, Recorded, Watching, Off
<1>2. Init => IInv /\ WorldFixed
  BY WorldsAssumption DEF Init, IInv, Sound, Off, WorldFixed
<1>3. IInv /\ WorldFixed /\ [Next]_vars => IInv' /\ WorldFixed'
  BY IInvStep, WorldStep, WorldsAssumption DEF WorldFixed
<1>4. IInv /\ Noting /\ WorldFixed /\ [Next]_vars => Noting'
  BY NoteStep
<1>5. IInv /\ Noting /\ WorldFixed /\ [Next]_vars =>
        [\A s \in Slots :
          sessions[s].state = "open" /\ sessions'[s].state = "open"
            /\ sessions'[s].watches # sessions[s].watches
            => \A set \in SUBSET Watches :
                  Watched(set, records'[sessions'[s].handle].watches)
                    = sessions'[s].watches]_vars
  BY NoteStep DEF Restores
<1> QED
  BY <1>1, <1>2, <1>3, <1>4, <1>5, PTL DEF Spec, Remembered

-----------------------------------------------------------------------------
(* Parts of a sequence                                                     *)

\* Picked place by place: after[k] is what was picked of the first k of n elements.
Picks(after, n, s, I) ==
  /\ after[0] = <<>> /\ after[n] = Picked(s, I)
  /\ \A k \in 1 .. n :
       after[k] = IF k \in I THEN Append(after[k - 1], s[k]) ELSE after[k - 1]

\* It is what FoldLeft computes.
LEMMA PlaceByPlace ==
  ASSUME NEW s, NEW I, NEW n \in Nat, DOMAIN s = 1 .. n
  PROVE  \E after : Picks(after, n, s, I)
<1> DEFINE places == [i \in 1 .. n |-> i]
           step(g, S) == IF S = {} THEN <<>>
                         ELSE IF places[Max(S)] \in I
                              THEN Append(g[S \ {Max(S)}], s[places[Max(S)]])
                              ELSE g[S \ {Max(S)}]
           Upto(m, g) == g = [S \in SUBSET (1 .. m) |-> step(g, S)]
           Good == {m \in Nat : \E g : Upto(m, g)}
<1>1. Picked(s, I) = (CHOOSE g : Upto(n, g))[1 .. n]
  BY DEF Picked, FoldLeft, MapThenFoldSet
<1>2. \A g, S : step(g, S) = IF S = {} THEN <<>>
                             ELSE IF places[Max(S)] \in I
                                  THEN Append(g[S \ {Max(S)}], s[places[Max(S)]])
                                  ELSE g[S \ {Max(S)}]
  OBVIOUS
<1>3. ASSUME NEW g, NEW h, NEW S, S # {} => g[S \ {Max(S)}] = h[S \ {Max(S)}]
      PROVE  step(g, S) = step(h, S)
  BY <1>3
<1> HIDE DEF step
<1>4. 0 \in Good
  <2> DEFINE h == [S \in SUBSET (1 .. 0) |-> step(<<>>, S)]
  <2>1. \A S \in SUBSET (1 .. 0) : S = {}
    OBVIOUS
  <2>2. \A S \in SUBSET (1 .. 0) : step(<<>>, S) = step(h, S)
    BY <1>3, <2>1
  <2>3. Upto(0, h)
    BY <2>2
  <2> QED
    BY <2>3
<1>5. ASSUME NEW m \in Nat, m \in Good PROVE m + 1 \in Good
  <2>1. PICK g : Upto(m, g)
    BY <1>5
  <2> DEFINE h == [S \in SUBSET (1 .. m + 1) |->
                     IF m + 1 \in S THEN step(g, S) ELSE g[S]]
  <2>2. \A S \in SUBSET (1 .. m) : h[S] = g[S] /\ g[S] = step(g, S)
    BY <2>1
  <2>3. ASSUME NEW S \in SUBSET (1 .. m + 1)
        PROVE  h[S] = step(h, S)
    <3>1. CASE m + 1 \in S
      <4>1. Max(S) = m + 1
        BY <3>1, TopOf
      <4>2. S \ {m + 1} \in SUBSET (1 .. m)
        OBVIOUS
      <4>3. h[S \ {Max(S)}] = g[S \ {Max(S)}]
        BY <2>2, <4>1, <4>2
      <4>4. step(g, S) = step(h, S)
        <5> HIDE DEF h
        <5> QED
          BY <1>3, <4>3
      <4> QED
        BY <3>1, <4>4
    <3>2. CASE m + 1 \notin S
      <4>1. S \in SUBSET (1 .. m)
        BY <3>2
      <4>2. CASE S = {}
        <5> HIDE DEF h
        <5> QED
          BY <1>2, <2>2, <4>1, <4>2
      <4>3. CASE S # {}
        <5>1. S \ {Max(S)} \in SUBSET (1 .. m)
          BY <4>1
        <5> HIDE DEF h
        <5>2. h[S \ {Max(S)}] = g[S \ {Max(S)}]
          BY <2>2, <5>1
        <5> QED
          BY <1>3, <2>2, <4>1, <5>2
      <4> QED
        BY <4>2, <4>3
    <3> QED
      BY <3>1, <3>2
  <2>4. h = [S \in SUBSET (1 .. m + 1) |-> h[S]]
    OBVIOUS
  <2>5. Upto(m + 1, h)
    <3> HIDE DEF h
    <3> QED
      BY <2>3, <2>4
  <2> HIDE DEF h, Upto
  <2> QED
    BY <2>5
<1>6. n \in Good
  <2> HIDE DEF Good
  <2> QED
    BY <1>4, <1>5, Induct
<1> DEFINE f == CHOOSE g : Upto(n, g)
<1>7. Upto(n, f)
  BY <1>6
<1>8. \A S \in SUBSET (1 .. n) : f[S] = step(f, S)
  <2> HIDE DEF f
  <2> QED
    BY <1>7
<1>9. Picked(s, I) = f[1 .. n]
  BY <1>1
<1> HIDE DEF Upto, f
<1> DEFINE after == [k \in 0 .. n |-> f[1 .. k]]
<1>10. after[0] = <<>>
  <2>1. 1 .. 0 = {} /\ {} \in SUBSET (1 .. n)
    OBVIOUS
  <2>2. f[{}] = <<>>
    BY <1>2, <1>8, <2>1
  <2> QED
    BY <2>1, <2>2
<1>11. after[n] = Picked(s, I)
  BY <1>9
<1>12. ASSUME NEW k \in 1 .. n
       PROVE  after[k] = IF k \in I THEN Append(after[k - 1], s[k]) ELSE after[k - 1]
  <2>1. 1 .. k \in SUBSET (1 .. n) /\ k \in 1 .. k /\ k \in Nat /\ places[k] = k
    OBVIOUS
  <2>2. Max(1 .. k) = k
    BY <2>1, TopOf
  <2>3. (1 .. k) \ {k} = 1 .. (k - 1) /\ k \in 0 .. n /\ k - 1 \in 0 .. n
    OBVIOUS
  <2>4. f[1 .. k] = step(f, 1 .. k)
    BY <1>8, <2>1
  <2>5. step(f, 1 .. k) = IF k \in I THEN Append(f[(1 .. k) \ {k}], s[k])
                          ELSE f[(1 .. k) \ {k}]
    <3> HIDE DEF places
    <3> QED
      BY <1>2, <2>1, <2>2
  <2>6. after[k] = f[1 .. k] /\ after[k - 1] = f[1 .. (k - 1)]
    BY <2>3
  <2> HIDE DEF after
  <2> QED
    BY <2>3, <2>4, <2>5, <2>6
<1> HIDE DEF after
<1> QED
  BY <1>10, <1>11, <1>12 DEF Picks

\* p has the members of I, a set of places, in their order.
Orders(p, m, I) ==
  /\ m \in Nat /\ DOMAIN p = 1 .. m
  /\ \A i \in 1 .. m : p[i] \in I
  /\ \A i, j \in 1 .. m : i < j => p[i] < p[j]
  /\ \A x \in I : \E i \in 1 .. m : p[i] = x

\* A part of s has what s has at those places.
Selects(part, s, p, m) ==
  /\ DOMAIN part = 1 .. m
  /\ \A i \in 1 .. m : part[i] = s[p[i]]
  /\ m = 0 => part = <<>>

\* Picked has the elements of the given places, each once and in their order.
LEMMA PickedIs ==
  ASSUME NEW s, NEW n \in Nat, DOMAIN s = 1 .. n, NEW I \in SUBSET (1 .. n)
  PROVE  \E p, m : Orders(p, m, I) /\ Selects(Picked(s, I), s, p, m)
<1>0. PICK after : Picks(after, n, s, I)
  BY PlaceByPlace
<1>1. /\ after[0] = <<>> /\ after[n] = Picked(s, I)
      /\ \A k \in 1 .. n :
           after[k] = IF k \in I THEN Append(after[k - 1], s[k]) ELSE after[k - 1]
  BY <1>0 DEF Picks
<1> DEFINE Done(k) == \E p, m : Orders(p, m, I \cap (1 .. k)) /\ Selects(after[k], s, p, m)
           Good == {k \in Nat : k <= n => Done(k)}
<1>2. 0 \in Good
  <2>1. Orders(<<>>, 0, I \cap (1 .. 0))
    BY DEF Orders
  <2>2. Selects(after[0], s, <<>>, 0)
    BY <1>1 DEF Selects
  <2> QED
    BY <2>1, <2>2
<1>3. ASSUME NEW k \in Nat, k \in Good PROVE k + 1 \in Good
  <2>1. SUFFICES ASSUME k + 1 <= n PROVE Done(k + 1)
    <3> HIDE DEF Done
    <3> QED
      OBVIOUS
  <2>2. k + 1 \in 1 .. n /\ k + 1 - 1 = k /\ k <= n
    BY <2>1
  <2>3. PICK p, m : Orders(p, m, I \cap (1 .. k)) /\ Selects(after[k], s, p, m)
    BY <1>3, <2>2
  <2>4. CASE k + 1 \notin I
    <3>1. after[k + 1] = after[k]
      BY <1>1, <2>2, <2>4
    <3>2. I \cap (1 .. k + 1) = I \cap (1 .. k)
      BY <2>4
    <3> QED
      BY <2>3, <3>1, <3>2
  <2>5. CASE k + 1 \in I
    <3>1. after[k + 1] = Append(after[k], s[k + 1])
      <4> HIDE DEF Done
      <4>1. \A j \in 1 .. n : j \in I => after[j] = Append(after[j - 1], s[j])
        BY <1>1
      <4>2. PICK j : j = k + 1
        OBVIOUS
      <4>3. j \in 1 .. n /\ j \in I /\ j - 1 = k
        BY <2>2, <2>5, <4>2
      <4>4. after[j] = Append(after[j - 1], s[j])
        BY <4>1, <4>3
      <4> QED
        BY <4>2, <4>3, <4>4
    <3>2. PICK q : q = [i \in 1 .. m + 1 |-> IF i = m + 1 THEN k + 1 ELSE p[i]]
      OBVIOUS
    <3>3. m \in Nat /\ \A i \in 1 .. m : p[i] \in I /\ p[i] \in 1 .. k
      BY <2>3 DEF Orders
    <3>4. Orders(q, m + 1, I \cap (1 .. k + 1))
      <4>1. \A i \in 1 .. m + 1 : q[i] \in I \cap (1 .. k + 1)
        BY <2>5, <3>2, <3>3
      <4>2. \A i, j \in 1 .. m + 1 : i < j => q[i] < q[j]
        BY <2>3, <3>2, <3>3 DEF Orders
      <4>3. ASSUME NEW x \in I \cap (1 .. k + 1) PROVE \E i \in 1 .. m + 1 : q[i] = x
        <5>1. CASE x = k + 1
          BY <3>2, <3>3, <5>1
        <5>2. CASE x # k + 1
          <6>1. x \in I \cap (1 .. k)
            BY <5>2
          <6>2. PICK i \in 1 .. m : p[i] = x
            BY <2>3, <6>1 DEF Orders
          <6> QED
            BY <3>2, <3>3, <6>2
        <5> QED
          BY <5>1, <5>2
      <4> QED
        BY <3>2, <3>3, <4>1, <4>2, <4>3 DEF Orders
    <3>5. Selects(after[k + 1], s, q, m + 1)
      BY <2>3, <3>1, <3>2, <3>3 DEF Selects
    <3> QED
      BY <3>4, <3>5
  <2> QED
    BY <2>4, <2>5
<1>4. n \in Good
  <2> HIDE DEF Good
  <2> QED
    BY <1>2, <1>3, Induct
<1>5. I \cap (1 .. n) = I
  OBVIOUS
<1>6. Done(n)
  <2> HIDE DEF Done
  <2> QED
    BY <1>4
<1> HIDE DEF Good
<1> QED
  BY <1>1, <1>5, <1>6

\* To pick every place is to pick the sequence.
LEMMA PickedAll ==
  ASSUME NEW s, NEW n \in Nat, DOMAIN s = 1 .. n
  PROVE  /\ DOMAIN Picked(s, 1 .. n) = 1 .. n
         /\ \A i \in 1 .. n : Picked(s, 1 .. n)[i] = s[i]
<1>0. PICK after : Picks(after, n, s, 1 .. n)
  BY PlaceByPlace
<1>1. /\ after[0] = <<>> /\ after[n] = Picked(s, 1 .. n)
      /\ \A k \in 1 .. n : after[k] = Append(after[k - 1], s[k])
  BY <1>0 DEF Picks
<1> DEFINE Done(k) == DOMAIN after[k] = 1 .. k /\ \A i \in 1 .. k : after[k][i] = s[i]
           Good == {k \in Nat : k <= n => Done(k)}
<1>2. 0 \in Good
  BY <1>1
<1>3. ASSUME NEW k \in Nat, k \in Good PROVE k + 1 \in Good
  <2>1. SUFFICES ASSUME k + 1 <= n PROVE Done(k + 1)
    OBVIOUS
  <2>2. k + 1 \in 1 .. n /\ k + 1 - 1 = k /\ Done(k)
    BY <1>3, <2>1
  <2>3. after[k + 1] = Append(after[k], s[k + 1])
    BY <1>1, <2>2
  <2> QED
    BY <2>2, <2>3
<1>4. n \in Good
  <2> HIDE DEF Good
  <2> QED
    BY <1>2, <1>3, Induct
<1> QED
  BY <1>1, <1>4

-----------------------------------------------------------------------------
(* Filters                                                                 *)

\* A filter reads back as it is written, or not at all; it does unless a pattern of it
\* has a comma.
IsFilter(f) ==
  /\ Len(f) \in Nat \ {0} /\ DOMAIN f = 1 .. Len(f)
  /\ FilterOf(f) \in {f, BadFilter}
  /\ (\A j \in DOMAIN f : f[j].pattern \notin Commas) => FilterOf(f) = f

\* The greatest of some numbers, and the least, is one of them.
LEMMA MaxIn ==
  ASSUME NEW n \in Nat, NEW S \in SUBSET (1 .. n), S # {}
  PROVE  Max(S) \in S /\ \A i \in S : i <= Max(S)
<1> DEFINE Good == {k \in Nat : \A T \in SUBSET (1 .. k) :
                                   T # {} => Max(T) \in T /\ \A i \in T : i <= Max(T)}
<1>1. 0 \in Good
  <2>1. \A T \in SUBSET (1 .. 0) : T = {}
    OBVIOUS
  <2> QED
    BY <2>1
<1>2. ASSUME NEW k \in Nat, k \in Good PROVE k + 1 \in Good
  <2>1. ASSUME NEW T \in SUBSET (1 .. k + 1), T # {}
        PROVE  Max(T) \in T /\ \A i \in T : i <= Max(T)
    <3>1. CASE k + 1 \in T
      BY <3>1, TopOf
    <3>2. CASE k + 1 \notin T
      <4>1. T \in SUBSET (1 .. k)
        BY <3>2
      <4> QED
        BY <1>2, <2>1, <4>1
    <3> QED
      BY <3>1, <3>2
  <2> QED
    BY <2>1
<1>3. n \in Good
  <2> HIDE DEF Good
  <2> QED
    BY <1>1, <1>2, Induct
<1> QED
  BY <1>3

LEMMA MinIn ==
  ASSUME NEW S \in SUBSET Nat, S # {}
  PROVE  Min(S) \in S /\ \A i \in S : Min(S) <= i
<1>1. PICK m \in S : \A i \in S : m <= i
  BY LeastOf
<1> QED
  BY <1>1 DEF Min

\* Of a single number it is that one.
LEMMA MaxOne ==
  ASSUME NEW i \in Nat \ {0} PROVE Max({i}) = i
  BY TopOf

\* The filter of these fields with these patterns
Pairs(f, used, pattern) ==
  f = [i \in DOMAIN used |-> [field |-> used[i], pattern |-> pattern[i]]]

\* What is read of fields that there are, each once: the same, if every pattern ends
\* where it is cut.
LEMMA ParseAgain ==
  ASSUME NEW J \in SUBSET (DOMAIN Fields), J # {}, NEW used, used = Picked(Fields, J),
         NEW pattern, NEW f, Pairs(f, used, pattern)
  PROVE  /\ Len(f) \in Nat \ {0} /\ DOMAIN f = 1 .. Len(f)
         /\ \A i \in DOMAIN f : f[i].pattern = pattern[i]
         /\ FilterOf(f) = IF \A i \in DOMAIN f : Grabbed(f[i].pattern) THEN f ELSE BadFilter
<1>1. PICK n \in Nat : n = Len(Fields) /\ DOMAIN Fields = 1 .. n
  BY FieldsAssumption
<1>2. PICK p, m : Orders(p, m, J) /\ Selects(used, Fields, p, m)
  BY <1>1, PickedIs
<1>3. /\ m \in Nat /\ DOMAIN used = 1 .. m
      /\ \A i \in 1 .. m : p[i] \in J /\ used[i] = Fields[p[i]]
      /\ \A i, j \in 1 .. m : i < j => p[i] < p[j]
      /\ \A x \in J : \E i \in 1 .. m : p[i] = x
  BY <1>2 DEF Orders, Selects
<1>4. m # 0
  BY <1>3
<1>0. f = [i \in DOMAIN used |-> [field |-> used[i], pattern |-> pattern[i]]]
  BY DEF Pairs
<1>5. DOMAIN f = 1 .. m /\ Len(f) = m
  BY <1>0, <1>3
<1>6. \A i \in 1 .. m : f[i].field = used[i] /\ f[i].pattern = pattern[i]
  BY <1>0, <1>3
<1>7. \A i, j \in 1 .. m : used[i] = used[j] => i = j
  <2>1. \A x, y \in DOMAIN Fields : Fields[x] = Fields[y] => x = y
    BY FieldsAssumption DEF IsInjective
  <2>2. \A i, j \in 1 .. m : i # j => p[i] # p[j]
    <3>1. ASSUME NEW i \in 1 .. m, NEW j \in 1 .. m, i # j PROVE p[i] # p[j]
      <4>1. p[i] \in Nat /\ p[j] \in Nat
        BY <1>1, <1>3
      <4>2. i < j \/ j < i
        BY <3>1
      <4> QED
        BY <1>3, <4>1, <4>2
    <3> QED
      BY <3>1
  <2> QED
    BY <1>1, <1>3, <2>1, <2>2
<1>8. \A i \in 1 .. m : used[i] \in ToSet(Fields) /\ used[i] # NoField
  BY <1>1, <1>3, FieldsAssumption DEF ToSet
<1>9. FilterOf(f) = ParseFilter(f)
  <2>1. ~ \A i \in DOMAIN f : f[i].field = NoField
    BY <1>4, <1>5, <1>6, <1>8
  <2> QED
    BY <2>1 DEF FilterOf
<1>10. CASE \E i \in DOMAIN f : ~Grabbed(f[i].pattern)
  <2>1. ParseFilter(f) = BadFilter
    BY <1>10 DEF ParseFilter
  <2> QED
    BY <1>3, <1>4, <1>5, <1>6, <1>9, <1>10, <2>1
<1>11. CASE \A i \in DOMAIN f : Grabbed(f[i].pattern)
  <2>1. {j \in DOMAIN Fields : \E i \in DOMAIN f : f[i].field = Fields[j]} = J
    <3>1. ASSUME NEW j \in DOMAIN Fields, NEW i \in DOMAIN f, f[i].field = Fields[j]
          PROVE  j \in J
      <4>1. Fields[p[i]] = Fields[j] /\ p[i] \in J
        BY <1>3, <1>5, <1>6, <3>1
      <4> QED
        BY <4>1, FieldsAssumption DEF IsInjective
    <3>2. ASSUME NEW j \in J PROVE \E i \in DOMAIN f : f[i].field = Fields[j]
      BY <1>3, <1>5, <1>6
    <3> QED
      BY <3>1, <3>2
  <2>2. ~ \E i \in DOMAIN f : \/ f[i].field \notin ToSet(Fields)
                              \/ ~Grabbed(f[i].pattern)
    BY <1>5, <1>6, <1>8, <1>11
  <2>0. PICK K : K = {j \in DOMAIN Fields : \E i \in DOMAIN f : f[i].field = Fields[j]}
    OBVIOUS
  <2>6. PICK u : u = Picked(Fields, K)
    OBVIOUS
  <2>7. ParseFilter(f) =
          [i \in DOMAIN u |->
             [field |-> u[i],
              pattern |-> f[Max({k \in DOMAIN f : f[k].field = u[i]})].pattern]]
    BY <2>0, <2>2, <2>6 DEF ParseFilter
  <2>8. u = used
    BY <2>0, <2>1, <2>6
  <2>3. ParseFilter(f) =
          [i \in DOMAIN used |->
             [field |-> used[i],
              pattern |-> f[Max({k \in DOMAIN f : f[k].field = used[i]})].pattern]]
    BY <2>7, <2>8
  <2>4. ASSUME NEW i \in DOMAIN used
        PROVE  f[Max({k \in DOMAIN f : f[k].field = used[i]})].pattern = pattern[i]
    <3>1. i \in 1 .. m /\ i \in Nat \ {0}
      BY <1>3
    <3>2. {k \in DOMAIN f : f[k].field = used[i]} = {i}
      BY <1>5, <1>6, <1>7, <3>1
    <3>3. Max({i}) = i
      BY <3>1, MaxOne
    <3> QED
      BY <1>6, <3>1, <3>2, <3>3
  <2>5. ParseFilter(f) = f
    BY <1>0, <2>3, <2>4
  <2> QED
    BY <1>3, <1>4, <1>5, <1>6, <1>9, <1>11, <2>5
<1> QED
  BY <1>10, <1>11

\* What a filter reads as is a filter.
LEMMA FilterAgain ==
  ASSUME NEW text, NEW n \in Nat \ {0}, DOMAIN text = 1 .. n, FilterOf(text) # BadFilter
  PROVE  IsFilter(FilterOf(text))
<1>1. PICK f : f = FilterOf(text)
  OBVIOUS
<1>2. CASE \A i \in DOMAIN text : text[i].field = NoField
  <2>1. PICK w : w = text[1].pattern
    OBVIOUS
  <2>2. f = <<[field |-> "nuh", pattern |-> w]>> /\ w \in DOMAIN Covers
    BY <1>1, <1>2, <2>1 DEF FilterOf
  <2>3. PICK j \in DOMAIN Fields : Fields[j] = "nuh"
    BY FieldsAssumption DEF ToSet
  <2>4. PICK k \in Nat : DOMAIN Fields = 1 .. k
    BY FieldsAssumption
  <2>5. PICK used : used = Picked(Fields, {j})
    OBVIOUS
  <2>6. PICK p, m : Orders(p, m, {j}) /\ Selects(used, Fields, p, m)
    BY <2>4, <2>5, PickedIs
  <2>7. m = 1 /\ DOMAIN used = 1 .. 1 /\ used[1] = "nuh"
    <3>1. m \in Nat /\ m # 0 /\ \A i \in 1 .. m : p[i] = j
      BY <2>6 DEF Orders
    <3>2. ~(1 < m)
      <4>1. SUFFICES ASSUME 1 < m PROVE FALSE
        OBVIOUS
      <4>2. 1 \in 1 .. m /\ 2 \in 1 .. m /\ 1 < 2
        BY <3>1, <4>1
      <4>3. p[1] < p[2] /\ p[1] = p[2] /\ p[1] \in Nat
        BY <2>4, <2>6, <3>1, <4>2 DEF Orders
      <4> QED
        BY <4>3
    <3>3. m = 1
      BY <3>1, <3>2
    <3> QED
      BY <2>3, <2>6, <3>1, <3>3 DEF Selects
  <2>8. PICK pattern : pattern = [i \in 1 .. 1 |-> w]
    OBVIOUS
  <2>9. f = [i \in DOMAIN used |-> [field |-> used[i], pattern |-> pattern[i]]]
    BY <2>2, <2>7, <2>8
  <2>10. /\ Len(f) \in Nat \ {0} /\ DOMAIN f = 1 .. Len(f)
         /\ \A i \in DOMAIN f : f[i].pattern = pattern[i]
         /\ FilterOf(f) = IF \A i \in DOMAIN f : Grabbed(f[i].pattern) THEN f ELSE BadFilter
    <3>1. Pairs(f, used, pattern) /\ {j} # {} /\ {j} \in SUBSET (DOMAIN Fields)
      BY <2>9 DEF Pairs
    <3> QED
      BY <2>5, <3>1, ParseAgain
  <2>11. DOMAIN f = 1 .. 1 /\ \A i \in DOMAIN f : f[i].pattern = w
    BY <2>7, <2>8, <2>9
  <2>12. w \notin Commas => Grabbed(w)
    BY <2>2 DEF Grabbed
  <2> QED
    BY <1>1, <2>10, <2>11, <2>12 DEF IsFilter
<1>3. CASE ~ \A i \in DOMAIN text : text[i].field = NoField
  <2>1. f = ParseFilter(text)
    BY <1>1, <1>3 DEF FilterOf
  <2>2. PICK J : J = {j \in DOMAIN Fields : \E i \in DOMAIN text : text[i].field = Fields[j]}
    OBVIOUS
  <2>3. PICK used : used = Picked(Fields, J)
    OBVIOUS
  <2>4. /\ \A i \in DOMAIN text : text[i].field \in ToSet(Fields) /\ Grabbed(text[i].pattern)
        /\ f = [i \in DOMAIN used |->
                  [field |-> used[i],
                   pattern |-> text[Max({k \in DOMAIN text : text[k].field = used[i]})].pattern]]
    BY <1>1, <2>1, <2>2, <2>3 DEF ParseFilter
  <2>5. PICK pattern : pattern =
          [i \in DOMAIN used |->
             text[Max({k \in DOMAIN text : text[k].field = used[i]})].pattern]
    OBVIOUS
  <2>6. f = [i \in DOMAIN used |-> [field |-> used[i], pattern |-> pattern[i]]]
    BY <2>4, <2>5
  <2>7. J # {}
    <3>1. text[1].field \in ToSet(Fields) /\ 1 \in DOMAIN text
      BY <2>4
    <3> QED
      BY <2>2, <3>1 DEF ToSet
  <2>8. PICK m \in Nat : DOMAIN Fields = 1 .. m
    BY FieldsAssumption
  <2>9. /\ Len(f) \in Nat \ {0} /\ DOMAIN f = 1 .. Len(f)
        /\ \A i \in DOMAIN f : f[i].pattern = pattern[i]
        /\ FilterOf(f) = IF \A i \in DOMAIN f : Grabbed(f[i].pattern) THEN f ELSE BadFilter
    <3>1. J \in SUBSET (DOMAIN Fields) /\ Pairs(f, used, pattern)
      BY <2>2, <2>6 DEF Pairs
    <3> QED
      BY <2>3, <2>7, <3>1, ParseAgain
  <2>10. ASSUME NEW i \in DOMAIN f PROVE Grabbed(pattern[i])
    <3>1. i \in DOMAIN used
      BY <2>6
    <3>2. PICK p, k : Orders(p, k, J) /\ Selects(used, Fields, p, k)
      BY <2>2, <2>3, <2>8, PickedIs
    <3>3. p[i] \in J /\ used[i] = Fields[p[i]]
      BY <3>1, <3>2 DEF Orders, Selects
    <3>4. PICK S : S = {x \in DOMAIN text : text[x].field = used[i]}
      OBVIOUS
    <3>5. S # {} /\ S \in SUBSET (1 .. n)
      BY <2>2, <3>3, <3>4
    <3>6. Max(S) \in DOMAIN text
      BY <3>5, MaxIn
    <3>7. pattern[i] = text[Max(S)].pattern
      BY <2>5, <3>1, <3>4
    <3> QED
      BY <2>4, <3>6, <3>7
  <2>11. FilterOf(f) = f
    BY <2>9, <2>10
  <2> QED
    BY <1>1, <2>9, <2>11 DEF IsFilter
<1> QED
  BY <1>2, <1>3

-----------------------------------------------------------------------------
(* Lists of traps                                                          *)

TrapFields == {"key", "action", "timeout", "filter", "reason", "count", "loaded"}

IsTrap(t) == /\ DOMAIN t = TrapFields
             /\ t.key \in Nat \ {0} /\ t.action \in TrapActions /\ IsFilter(t.filter)

\* Two traps, or a trap and what a line makes, that have a key and a filter in common
Alike(t, u) == t.key = u.key /\ t.filter = u.filter

\* A list of traps has them by their keys, and of a key each with another filter.
Fit(list) ==
  /\ Len(list) \in Nat /\ DOMAIN list = 1 .. Len(list)
  /\ Len(list) = 0 => list = <<>>
  /\ \A i \in DOMAIN list : IsTrap(list[i])
  /\ \A i, j \in DOMAIN list : i < j => list[i].key <= list[j].key
  /\ \A i, j \in DOMAIN list : Alike(list[i], list[j]) => i = j

LEMMA FitEmpty == Fit(<<>>)
  BY DEF Fit

\* A part of a list that keeps its order is fit.
LEMMA FitPart ==
  ASSUME NEW list, Fit(list), NEW I \in SUBSET (DOMAIN list), NEW p, NEW m,
         Orders(p, m, I), NEW part, Selects(part, list, p, m)
  PROVE  Fit(part)
<1>1. PICK n \in Nat : n = Len(list) /\ DOMAIN list = 1 .. n
  BY DEF Fit
<1>2. /\ m \in Nat /\ DOMAIN part = 1 .. m /\ (m = 0 => part = <<>>)
      /\ \A i \in 1 .. m : p[i] \in 1 .. n /\ part[i] = list[p[i]]
      /\ \A i, j \in 1 .. m : i < j => p[i] < p[j]
  BY <1>1 DEF Orders, Selects
<1>3. Len(part) = m
  BY <1>2
<1>4. \A i \in 1 .. m : IsTrap(part[i])
  BY <1>1, <1>2 DEF Fit
<1>5. \A i, j \in 1 .. m : i < j => part[i].key <= part[j].key
  BY <1>1, <1>2 DEF Fit
<1>6. ASSUME NEW i \in 1 .. m, NEW j \in 1 .. m, Alike(part[i], part[j]) PROVE i = j
  <2>1. p[i] = p[j] /\ p[i] \in Nat /\ p[j] \in Nat
    BY <1>1, <1>2, <1>6 DEF Fit
  <2>2. ~(i < j) /\ ~(j < i)
    BY <1>2, <2>1
  <2> QED
    BY <2>2
<1> QED
  BY <1>2, <1>3, <1>4, <1>5, <1>6 DEF Fit

\* What is picked of a list, and only that, is in the part.
LEMMA FitPicked ==
  ASSUME NEW list, Fit(list), NEW I \in SUBSET (DOMAIN list)
  PROVE  /\ Fit(Picked(list, I))
         /\ \A k \in DOMAIN Picked(list, I) : \E i \in I : Picked(list, I)[k] = list[i]
         /\ \A i \in I : \E k \in DOMAIN Picked(list, I) : Picked(list, I)[k] = list[i]
<1>1. PICK n \in Nat : DOMAIN list = 1 .. n
  BY DEF Fit
<1>2. PICK p, m : Orders(p, m, I) /\ Selects(Picked(list, I), list, p, m)
  BY <1>1, PickedIs
<1>3. Fit(Picked(list, I))
  BY <1>2, FitPart
<1> QED
  BY <1>2, <1>3 DEF Orders, Selects

\* One trap of a list changes, in what is not its key or its filter.
LEMMA FitChanged ==
  ASSUME NEW list, Fit(list), NEW at \in DOMAIN list, NEW new, IsTrap(new),
         Alike(new, list[at]), NEW after, after = [list EXCEPT ![at] = new]
  PROVE  Fit(after)
<1>1. PICK n \in Nat : n = Len(list) /\ DOMAIN list = 1 .. n
  BY DEF Fit
<1>2. /\ DOMAIN after = 1 .. n /\ Len(after) = n /\ n # 0
      /\ \A i \in 1 .. n : after[i] = IF i = at THEN new ELSE list[i]
  BY <1>1
<1>3. \A i \in 1 .. n : after[i].key = list[i].key /\ after[i].filter = list[i].filter
  BY <1>2 DEF Alike
<1>4. \A i \in 1 .. n : IsTrap(after[i])
  BY <1>1, <1>2 DEF Fit
<1>5. \A i, j \in 1 .. n : i < j => after[i].key <= after[j].key
  BY <1>1, <1>3 DEF Fit
<1>6. \A i, j \in 1 .. n : Alike(after[i], after[j]) => i = j
  BY <1>1, <1>3 DEF Fit, Alike
<1> QED
  BY <1>2, <1>4, <1>5, <1>6 DEF Fit

\* u is s, of n elements, and behind it t, of k elements.
Follows(u, s, n, t, k) ==
  /\ DOMAIN u = 1 .. n + k
  /\ \A i \in 1 .. n : u[i] = s[i]
  /\ \A i \in 1 .. k : u[n + i] = t[i]

LEMMA Joined ==
  ASSUME NEW n \in Nat, NEW s, DOMAIN s = 1 .. n, NEW k \in Nat, NEW t, DOMAIN t = 1 .. k
  PROVE  Follows(s \o t, s, n, t, k)
  BY DEF Follows

\* after is list, of n elements, with another behind the first c.
Inserts(after, list, n, c, new) ==
  /\ DOMAIN after = 1 .. n + 1
  /\ \A i \in 1 .. c : after[i] = list[i]
  /\ after[c + 1] = new
  /\ \A i \in c + 2 .. n + 1 : after[i] = list[i - 1]

LEMMA Inserted ==
  ASSUME NEW n \in Nat, NEW list, DOMAIN list = 1 .. n, NEW c \in 0 .. n, NEW new
  PROVE  Inserts(InsertAt(list, c + 1, new), list, n, c, new)
<1>0. PICK after : after = InsertAt(list, c + 1, new)
  OBVIOUS
<1>1. PICK a : a = SubSeq(list, 1, c)
  OBVIOUS
<1>2. PICK b : b = <<new>>
  OBVIOUS
<1>3. PICK d : d = SubSeq(list, c + 1, n)
  OBVIOUS
<1>4. DOMAIN a = 1 .. c /\ \A i \in 1 .. c : a[i] = list[i]
  BY <1>1
<1>5. DOMAIN b = 1 .. 1 /\ b[1] = new
  BY <1>2
<1>6. DOMAIN d = 1 .. n - c /\ \A i \in 1 .. n - c : d[i] = list[i + c]
  BY <1>3
<1>7. after = (a \o b) \o d
  <2>1. Len(list) = n /\ c + 1 - 1 = c
    OBVIOUS
  <2> QED
    BY <1>0, <1>1, <1>2, <1>3, <2>1 DEF InsertAt
<1>8. PICK e : e = a \o b
  OBVIOUS
<1>9. DOMAIN e = 1 .. c + 1 /\ (\A i \in 1 .. c : e[i] = list[i]) /\ e[c + 1] = new
  <2>1. PICK x \in Nat : x = 1
    OBVIOUS
  <2>2. c \in Nat /\ DOMAIN b = 1 .. x
    BY <1>5, <2>1
  <2>3. Follows(a \o b, a, c, b, x)
    BY <1>4, <2>2, Joined
  <2> QED
    BY <1>4, <1>5, <1>8, <2>1, <2>3 DEF Follows
<1>10. /\ DOMAIN after = 1 .. n + 1
       /\ \A i \in 1 .. c + 1 : after[i] = e[i]
       /\ \A i \in 1 .. n - c : after[c + 1 + i] = d[i]
  <2>1. after = e \o d
    BY <1>7, <1>8
  <2>2. PICK x \in Nat, y \in Nat : x = c + 1 /\ y = n - c
    OBVIOUS
  <2>3. Follows(after, e, x, d, y)
    BY <1>6, <1>9, <2>1, <2>2, Joined
  <2> QED
    BY <2>2, <2>3 DEF Follows
<1>11. \A i \in c + 2 .. n + 1 : i - c - 1 \in 1 .. n - c /\ c + 1 + (i - c - 1) = i
                                  /\ i - c - 1 + c = i - 1
  OBVIOUS
<1>12. ASSUME NEW i \in c + 2 .. n + 1 PROVE after[i] = list[i - 1]
  <2>1. PICK k : k = i - c - 1
    OBVIOUS
  <2>2. k \in 1 .. n - c /\ c + 1 + k = i /\ k + c = i - 1
    BY <1>11, <2>1
  <2>3. after[c + 1 + k] = list[k + c]
    BY <1>6, <1>10, <2>2
  <2> QED
    BY <2>2, <2>3
<1> QED
  BY <1>0, <1>9, <1>10, <1>12 DEF Inserts

\* RemoveAt takes one element out: it picks the others.
LEMMA Removed ==
  ASSUME NEW n \in Nat, NEW list, DOMAIN list = 1 .. n, NEW c \in 1 .. n, NEW after,
         after = RemoveAt(list, c)
  PROVE  \E p, m : Orders(p, m, (1 .. n) \ {c}) /\ Selects(after, list, p, m)
<1>1. PICK a : a = SubSeq(list, 1, c - 1)
  OBVIOUS
<1>2. PICK d : d = SubSeq(list, c + 1, n)
  OBVIOUS
<1>3. DOMAIN a = 1 .. c - 1 /\ \A i \in 1 .. c - 1 : a[i] = list[i]
  BY <1>1
<1>4. DOMAIN d = 1 .. n - c /\ \A i \in 1 .. n - c : d[i] = list[i + c]
  BY <1>2
<1>5. after = a \o d
  <2>1. Len(list) = n
    OBVIOUS
  <2> QED
    BY <1>1, <1>2, <2>1 DEF RemoveAt
<1>6. /\ DOMAIN after = 1 .. n - 1
      /\ \A i \in 1 .. c - 1 : after[i] = list[i]
      /\ \A i \in 1 .. n - c : after[c - 1 + i] = list[i + c]
  <2>1. PICK x \in Nat, y \in Nat : x = c - 1 /\ y = n - c
    OBVIOUS
  <2>2. Follows(after, a, x, d, y)
    BY <1>3, <1>4, <1>5, <2>1, Joined
  <2> QED
    BY <1>3, <1>4, <2>1, <2>2 DEF Follows
<1>7. PICK p : p = [i \in 1 .. n - 1 |-> IF i < c THEN i ELSE i + 1]
  OBVIOUS
<1>8. Orders(p, n - 1, (1 .. n) \ {c})
  <2>1. n - 1 \in Nat /\ DOMAIN p = 1 .. n - 1
    BY <1>7
  <2>2. \A i \in 1 .. n - 1 : p[i] \in (1 .. n) \ {c}
    BY <1>7
  <2>3. \A i, j \in 1 .. n - 1 : i < j => p[i] < p[j]
    BY <1>7
  <2>4. ASSUME NEW x \in (1 .. n) \ {c} PROVE \E i \in 1 .. n - 1 : p[i] = x
    <3>1. CASE x < c
      BY <1>7, <3>1
    <3>2. CASE ~(x < c)
      <4>1. x - 1 \in 1 .. n - 1 /\ ~(x - 1 < c) /\ x - 1 + 1 = x
        BY <3>2
      <4> QED
        BY <1>7, <4>1
    <3> QED
      BY <3>1, <3>2
  <2> QED
    BY <2>1, <2>2, <2>3, <2>4 DEF Orders
<1>9. \A i \in 1 .. n - 1 : after[i] = list[p[i]]
  <2>1. ASSUME NEW i \in 1 .. n - 1 PROVE after[i] = list[p[i]]
    <3>1. CASE i < c
      BY <1>6, <1>7, <3>1
    <3>2. CASE ~(i < c)
      <4>1. PICK k : k = i - c + 1
        OBVIOUS
      <4>2. k \in 1 .. n - c /\ c - 1 + k = i /\ k + c = i + 1
        BY <3>2, <4>1
      <4>3. after[c - 1 + k] = list[k + c]
        BY <1>6, <4>2
      <4> QED
        BY <1>7, <3>2, <4>2, <4>3
    <3> QED
      BY <3>1, <3>2
  <2> QED
    BY <2>1
<1>10. n - 1 = 0 => after = <<>>
  BY <1>3, <1>4, <1>5
<1> QED
  BY <1>6, <1>8, <1>9, <1>10 DEF Selects

\* The traps up to a key are the first ones.
LEMMA UpToKey ==
  ASSUME NEW list, Fit(list), NEW key \in Nat
  PROVE  \E c \in 0 .. Len(list) :
           /\ Cardinality({i \in DOMAIN list : list[i].key <= key}) = c
           /\ \A i \in DOMAIN list : i <= c <=> list[i].key <= key
<1>1. PICK n \in Nat : n = Len(list) /\ DOMAIN list = 1 .. n
  BY DEF Fit
<1>2. \A i \in 1 .. n : list[i].key \in Nat
  BY <1>1 DEF Fit, IsTrap
<1>3. PICK S : S = {i \in DOMAIN list : list[i].key <= key}
  OBVIOUS
<1>4. CASE S = {}
  <2>1. Cardinality(S) = 0
    BY <1>4, FS_EmptySet
  <2>2. \A i \in 1 .. n : ~(i <= 0) /\ ~(list[i].key <= key)
    BY <1>1, <1>3, <1>4
  <2>3. /\ Cardinality({i \in DOMAIN list : list[i].key <= key}) = 0
        /\ \A i \in DOMAIN list : i <= 0 <=> list[i].key <= key
    BY <1>1, <1>3, <2>1, <2>2
  <2>4. 0 \in 0 .. Len(list)
    BY <1>1
  <2> QED
    BY <2>3, <2>4
<1>5. CASE S # {}
  <2>1. S \in SUBSET (1 .. n)
    BY <1>1, <1>3
  <2>2. PICK c \in S : \A i \in S : i <= c
    BY <1>5, <2>1, MaxIn
  <2>3. c \in 1 .. n /\ list[c].key <= key
    BY <1>1, <1>3, <2>2
  <2>4. \A i \in 1 .. n : i <= c => list[i].key <= list[c].key
    <3>1. ASSUME NEW i \in 1 .. n, i <= c PROVE list[i].key <= list[c].key
      <4>1. i < c \/ i = c
        BY <2>3, <3>1
      <4> QED
        BY <1>1, <1>2, <2>3, <4>1 DEF Fit
    <3> QED
      BY <3>1
  <2>5. \A i \in 1 .. n : i <= c <=> list[i].key <= key
    BY <1>1, <1>2, <1>3, <2>2, <2>3, <2>4
  <2>6. S = 1 .. c
    BY <1>1, <1>3, <2>3, <2>5
  <2>7. Cardinality(S) = c
    BY <2>3, <2>6, FS_Interval
  <2>8. /\ Cardinality({i \in DOMAIN list : list[i].key <= key}) = c
        /\ \A i \in DOMAIN list : i <= c <=> list[i].key <= key
    BY <1>1, <1>3, <2>5, <2>7
  <2>9. c \in 0 .. Len(list)
    BY <1>1, <2>3
  <2> QED
    BY <2>8, <2>9
<1> QED
  BY <1>4, <1>5

\* What a line makes
LineView(line) ==
  [key |-> line.key, action |-> line.verb, timeout |-> line.timeout,
   filter |-> FilterOf(line.text), reason |-> line.reason]

\* A line that makes a trap
Makeable(line) ==
  /\ line.key \in Nat /\ line.verb \in TrapActions /\ IsFilter(FilterOf(line.text))

\* The line makes new of old, a trap that there was ...
Renews(new, old, line) ==
  /\ DOMAIN new = TrapFields /\ new.loaded = TRUE
  /\ new.key = old.key /\ new.filter = old.filter
  /\ new.action = line.verb /\ new.timeout = line.timeout /\ new.reason = line.reason
  /\ \/ new.count = old.count
     \/ <<old.action, old.timeout, old.reason>> # <<line.verb, line.timeout, line.reason>>
  
\* ... or of nothing.
Creates(new, key, line) ==
  /\ DOMAIN new = TrapFields /\ new.loaded = TRUE
  /\ new.key = key /\ new.filter = FilterOf(line.text)
  /\ new.action = line.verb /\ new.timeout = line.timeout /\ new.reason = line.reason

\* The traps that add finds
Same(list, line) == {i \in DOMAIN list : /\ list[i].filter = FilterOf(line.text)
                                         /\ line.key \in {0, list[i].key}}
KeyFor(list, line) == IF line.key = 0 THEN MaxKey(list) + 100 ELSE line.key

LEMMA AddRenews ==
  ASSUME NEW list, Fit(list), NEW line, Same(list, line) # {}
  PROVE  \E at, new :
           /\ at \in Same(list, line)
           /\ Renews(new, list[at], line)
           /\ AddTrap(list, line) = [list EXCEPT ![at] = new]
<1>1. PICK n \in Nat : DOMAIN list = 1 .. n
  BY DEF Fit
<1>2. PICK S : S = Same(list, line)
  OBVIOUS
<1>3. Min(S) \in S
  <2>1. S \in SUBSET Nat
    BY <1>1, <1>2 DEF Same
  <2> QED
    BY <1>2, <2>1, MinIn
<1>4. PICK at \in S : at = Min(S)
  BY <1>3
<1>5. PICK up : up = Update(list[at], line.verb, line.timeout, line.reason)
  OBVIOUS
<1>6. PICK new : new = [up EXCEPT !.loaded = TRUE]
  OBVIOUS
<1>7. AddTrap(list, line) = [list EXCEPT ![at] = new]
  BY <1>2, <1>4, <1>5, <1>6 DEF AddTrap, Same
<1>8. DOMAIN list[at] = TrapFields
  BY <1>2, <1>4 DEF Same, Fit, IsTrap
<1>9. Renews(new, list[at], line)
  <2>1. /\ DOMAIN up = TrapFields /\ up.key = list[at].key /\ up.filter = list[at].filter
        /\ up.action = line.verb /\ up.timeout = line.timeout /\ up.reason = line.reason
        /\ \/ up.count = list[at].count
           \/ <<list[at].action, list[at].timeout, list[at].reason>>
                # <<line.verb, line.timeout, line.reason>>
    BY <1>5, <1>8 DEF Update, TrapFields
  <2> QED
    BY <1>6, <2>1 DEF Renews, TrapFields
<1> QED
  BY <1>2, <1>4, <1>7, <1>9

\* A new trap, with a key, goes behind the first c.
AddsBehind(list, line, key, c, new) ==
  /\ key \in Nat \ {0} /\ Creates(new, key, line)
  /\ \A i \in DOMAIN list : i <= c <=> list[i].key <= key
  /\ AddTrap(list, line) = InsertAt(list, c + 1, new)

LEMMA AddCreates ==
  ASSUME NEW list, Fit(list), NEW line, Makeable(line), Same(list, line) = {}
  PROVE  \E c \in 0 .. Len(list) : \E new :
           AddsBehind(list, line, KeyFor(list, line), c, new)
<1>1. PICK n \in Nat : n = Len(list) /\ DOMAIN list = 1 .. n
  BY DEF Fit
<1>2. PICK key : key = KeyFor(list, line)
  OBVIOUS
<1>3. key \in Nat \ {0}
  <2>1. MaxKey(list) \in Nat
    <3>1. CASE n = 0
      BY <1>1, <3>1 DEF MaxKey, Fit
    <3>2. CASE n # 0
      BY <1>1, <3>2 DEF MaxKey, Fit, IsTrap
    <3> QED
      BY <3>1, <3>2
  <2> QED
    BY <1>2, <2>1 DEF KeyFor, Makeable
<1>4. PICK c \in 0 .. Len(list) :
        /\ Cardinality({i \in DOMAIN list : list[i].key <= key}) = c
        /\ \A i \in DOMAIN list : i <= c <=> list[i].key <= key
  BY <1>3, UpToKey
<1>5. PICK new : new = [key |-> key, action |-> line.verb, timeout |-> line.timeout,
                        filter |-> FilterOf(line.text), reason |-> line.reason,
                        count |-> 0, loaded |-> TRUE]
  OBVIOUS
<1>6. Creates(new, key, line)
  BY <1>5 DEF Creates, TrapFields
<1>7. AddTrap(list, line) = InsertAt(list, c + 1, new)
  BY <1>2, <1>4, <1>5 DEF AddTrap, Same, KeyFor
<1> QED
  BY <1>2, <1>3, <1>4, <1>6, <1>7 DEF AddsBehind

\* A list stays fit when a line is added.
LEMMA FitAdd ==
  ASSUME NEW list, Fit(list), NEW line, Makeable(line)
  PROVE  Fit(AddTrap(list, line))
<1>1. PICK n \in Nat : n = Len(list) /\ DOMAIN list = 1 .. n
  BY DEF Fit
<1>2. CASE Same(list, line) # {}
  <2>1. PICK at, new :
          /\ at \in Same(list, line)
          /\ Renews(new, list[at], line)
          /\ AddTrap(list, line) = [list EXCEPT ![at] = new]
    BY <1>2, AddRenews
  <2>2. at \in DOMAIN list /\ IsTrap(list[at])
    BY <2>1 DEF Same, Fit
  <2>3. IsTrap(new) /\ Alike(new, list[at])
    BY <2>1, <2>2 DEF Renews, IsTrap, Makeable, Alike
  <2>4. PICK after : after = [list EXCEPT ![at] = new]
    OBVIOUS
  <2>5. Fit(after)
    BY <2>2, <2>3, <2>4, FitChanged
  <2> QED
    BY <2>1, <2>4, <2>5
<1>3. CASE Same(list, line) = {}
  <2>1. PICK key : key = KeyFor(list, line)
    OBVIOUS
  <2>0. PICK c \in 0 .. n : \E new : AddsBehind(list, line, key, c, new)
    BY <1>1, <1>3, <2>1, AddCreates
  <2>2. PICK new : /\ key \in Nat \ {0} /\ Creates(new, key, line)
                   /\ \A i \in DOMAIN list : i <= c <=> list[i].key <= key
                   /\ AddTrap(list, line) = InsertAt(list, c + 1, new)
    BY <2>0 DEF AddsBehind
  <2>3. PICK after : after = InsertAt(list, c + 1, new)
    OBVIOUS
  <2>4. /\ DOMAIN after = 1 .. n + 1
        /\ \A i \in 1 .. c : after[i] = list[i]
        /\ after[c + 1] = new
        /\ \A i \in c + 2 .. n + 1 : after[i] = list[i - 1]
    BY <1>1, <2>3, Inserted DEF Inserts
  <2>5. IsTrap(new) /\ new.key = key /\ new.filter = FilterOf(line.text)
    BY <2>2 DEF Creates, IsTrap, Makeable
  <2>6. \A i \in 1 .. n : IsTrap(list[i]) /\ list[i].key \in Nat
    BY <1>1 DEF Fit, IsTrap
  <2>7. \A i \in 1 .. n : ~Alike(list[i], new)
    <3>1. ASSUME NEW i \in 1 .. n, Alike(list[i], new) PROVE FALSE
      <4>1. list[i].filter = FilterOf(line.text) /\ list[i].key = key
        BY <2>5, <3>1 DEF Alike
      <4>2. line.key \in {0, list[i].key}
        BY <2>1, <4>1 DEF KeyFor
      <4>3. i \in Same(list, line)
        BY <1>1, <4>1, <4>2 DEF Same
      <4> QED
        BY <1>3, <4>3
    <3> QED
      BY <3>1
  <2>8. \A i \in 1 .. n + 1 : i \in 1 .. c \/ i = c + 1 \/ (i \in c + 2 .. n + 1 /\ i - 1 \in 1 .. n)
    OBVIOUS
  <2>9. \A i \in 1 .. n + 1 : IsTrap(after[i]) /\ after[i].key \in Nat
    <3>1. 1 .. c \subseteq 1 .. n
      OBVIOUS
    <3> QED
      BY <2>2, <2>4, <2>5, <2>6, <2>8, <3>1
  <2>10. ASSUME NEW i \in 1 .. n + 1, NEW j \in 1 .. n + 1, i < j
         PROVE  after[i].key <= after[j].key /\ ~Alike(after[i], after[j])
    <3>0. \A x, y \in 1 .. n : x < y => list[x].key <= list[y].key /\ ~Alike(list[x], list[y])
      BY <1>1 DEF Fit
    <3>1. CASE j \in 1 .. c
      <4>1. i \in 1 .. c /\ i \in 1 .. n /\ j \in 1 .. n
        BY <2>10, <3>1
      <4> QED
        BY <2>4, <2>10, <3>0, <3>1, <4>1
    <3>2. CASE j = c + 1
      <4>1. i \in 1 .. c /\ i \in 1 .. n /\ i <= c
        BY <2>10, <3>2
      <4>2. list[i].key <= key
        BY <1>1, <2>2, <4>1
      <4> QED
        BY <2>4, <2>5, <2>7, <3>2, <4>1, <4>2
    <3>3. CASE j \in c + 2 .. n + 1
      <4>1. j - 1 \in 1 .. n /\ after[j] = list[j - 1] /\ ~(j - 1 <= c)
        BY <2>4, <3>3
      <4>2. CASE i \in 1 .. c
        <5>1. i \in 1 .. n /\ i < j - 1
          BY <3>3, <4>2
        <5> QED
          BY <2>4, <3>0, <4>1, <4>2, <5>1
      <4>3. CASE i = c + 1
        <5>1. ~(list[j - 1].key <= key)
          BY <1>1, <2>2, <4>1
        <5>2. key <= list[j - 1].key
          BY <2>2, <2>6, <4>1, <5>1
        <5>3. ~Alike(new, list[j - 1])
          BY <2>7, <4>1 DEF Alike
        <5> QED
          BY <2>4, <2>5, <4>1, <4>3, <5>2, <5>3
      <4>4. CASE i \in c + 2 .. n + 1
        <5>1. i - 1 \in 1 .. n /\ i - 1 < j - 1 /\ after[i] = list[i - 1]
          BY <2>4, <2>10, <4>4
        <5> QED
          BY <3>0, <4>1, <5>1
      <4> QED
        BY <2>8, <4>2, <4>3, <4>4
    <3> QED
      BY <2>8, <3>1, <3>2, <3>3
  <2>11. \A i, j \in 1 .. n + 1 : Alike(after[i], after[j]) => i = j
    <3>1. ASSUME NEW i \in 1 .. n + 1, NEW j \in 1 .. n + 1, Alike(after[i], after[j]), i # j
          PROVE  FALSE
      <4>1. i < j \/ j < i
        BY <3>1
      <4>2. Alike(after[j], after[i])
        BY <3>1 DEF Alike
      <4> QED
        BY <2>10, <3>1, <4>1, <4>2
    <3> QED
      BY <3>1
  <2>12. Len(after) = n + 1 /\ n + 1 # 0 /\ n + 1 \in Nat
    BY <2>4
  <2>13. Fit(after)
    BY <2>4, <2>9, <2>10, <2>11, <2>12 DEF Fit
  <2> QED
    BY <2>2, <2>3, <2>13
<1> QED
  BY <1>2, <1>3

\* ... and when traps are removed,
LEMMA FitRemove ==
  ASSUME NEW list, Fit(list), NEW line
  PROVE  Fit(RemoveTrap(list, line))
<1>1. PICK n \in Nat : DOMAIN list = 1 .. n
  BY DEF Fit
<1>2. Fit(RemoveKey(list, line.key))
  <2>1. PICK I : I = {i \in DOMAIN list : list[i].key # line.key}
    OBVIOUS
  <2>2. I \in SUBSET (DOMAIN list)
    BY <2>1
  <2> QED
    BY <2>1, <2>2, FitPicked DEF RemoveKey
<1>3. Fit(RemoveFilter(list, line.text))
  <2>1. PICK S : S = {i \in DOMAIN list : list[i].filter = line.text}
    OBVIOUS
  <2>2. CASE S = {}
    BY <2>1, <2>2 DEF RemoveFilter
  <2>3. CASE S # {}
    <3>1. S \in SUBSET (1 .. n) /\ S \in SUBSET Nat
      BY <1>1, <2>1
    <3>2. PICK at \in 1 .. n : at = Min(S)
      BY <2>3, <3>1, MinIn
    <3>3. PICK after : after = RemoveAt(list, at)
      OBVIOUS
    <3>4. PICK p, m : Orders(p, m, (1 .. n) \ {at}) /\ Selects(after, list, p, m)
      BY <1>1, <3>3, Removed
    <3>5. PICK I : I = (1 .. n) \ {at}
      OBVIOUS
    <3>6. I \in SUBSET (DOMAIN list) /\ Orders(p, m, I)
      BY <1>1, <3>4, <3>5
    <3>7. Fit(after)
      BY <3>4, <3>6, FitPart
    <3>8. RemoveFilter(list, line.text) = after
      BY <2>1, <2>3, <3>2, <3>3 DEF RemoveFilter
    <3> QED
      BY <3>7, <3>8
  <2> QED
    BY <2>2, <2>3
<1> QED
  BY <1>2, <1>3 DEF RemoveTrap

\* A line that has a good filter makes a trap.
LEMMA LineMakes ==
  ASSUME NEW line, IsTrapLine(line), line.verb \in TrapActions, FilterOf(line.text) # BadFilter
  PROVE  Makeable(line)
<1>1. PICK n \in Nat \ {0} : DOMAIN line.text = 1 .. n
  BY DEF IsTrapLine
<1>2. PICK text : text = line.text
  OBVIOUS
<1>3. IsFilter(FilterOf(text))
  BY <1>1, <1>2, FilterAgain
<1> QED
  BY <1>2, <1>3 DEF Makeable, IsTrapLine

\* ... whatever a line says,
LEMMA FitLine ==
  ASSUME NEW list, Fit(list), NEW line, IsTrapLine(line)
  PROVE  Fit(TrapLine(list, line).list)
<1>1. CASE line.verb = "REMOVE"
  <2>1. TrapLine(list, line).list = RemoveTrap(list, line)
    BY <1>1 DEF TrapLine
  <2> QED
    BY <2>1, FitRemove
<1>2. CASE line.verb # "REMOVE" /\ line.verb \in TrapActions /\ FilterOf(line.text) # BadFilter
  <2>1. TrapLine(list, line).list = AddTrap(list, line)
    BY <1>2 DEF TrapLine
  <2> QED
    BY <1>2, <2>1, FitAdd, LineMakes
<1>3. CASE line.verb # "REMOVE" /\ ~(line.verb \in TrapActions /\ FilterOf(line.text) # BadFilter)
  <2>1. TrapLine(list, line).list = list
    BY <1>3 DEF TrapLine
  <2> QED
    BY <2>1
<1> QED
  BY <1>1, <1>2, <1>3

\* ... when a trap counts, and when a load begins and ends.
LEMMA FitMatched ==
  ASSUME NEW list, Fit(list), NEW client
  PROVE  /\ Fit(Matched(list, client))
         /\ DOMAIN Matched(list, client) = DOMAIN list
         /\ \A i \in DOMAIN list : TrapView(Matched(list, client)[i]) = TrapView(list[i])
<1>1. PICK n \in Nat : DOMAIN list = 1 .. n
  BY DEF Fit
<1>2. PICK hit : hit = {i \in DOMAIN list : FilterMatches(list[i].filter, client)}
  OBVIOUS
<1>3. CASE hit = {}
  BY <1>2, <1>3 DEF Matched
<1>4. CASE hit # {}
  <2>1. hit \in SUBSET Nat /\ hit \subseteq DOMAIN list
    BY <1>1, <1>2
  <2>2. PICK at \in DOMAIN list : at = Min(hit)
    BY <1>4, <2>1, MinIn
  <2>3. PICK new : new = [list[at] EXCEPT !.count = @ + 1]
    OBVIOUS
  <2>4. PICK after : after = [list EXCEPT ![at] = new]
    OBVIOUS
  <2>5. Matched(list, client) = after
    BY <1>2, <1>4, <2>2, <2>3, <2>4 DEF Matched
  <2>6. IsTrap(list[at]) /\ DOMAIN list[at] = TrapFields
    BY DEF Fit, IsTrap
  <2>7. IsTrap(new) /\ Alike(new, list[at]) /\ TrapView(new) = TrapView(list[at])
    BY <2>3, <2>6 DEF IsTrap, TrapFields, Alike, TrapView
  <2>8. Fit(after)
    BY <2>4, <2>7, FitChanged
  <2>9. DOMAIN after = DOMAIN list /\ \A i \in DOMAIN list : TrapView(after[i]) = TrapView(list[i])
    BY <2>4, <2>7
  <2> QED
    BY <2>5, <2>8, <2>9
<1> QED
  BY <1>3, <1>4

LEMMA FitPreLoad ==
  ASSUME NEW list, Fit(list)
  PROVE  /\ Fit(PreLoad(list)) /\ DOMAIN PreLoad(list) = DOMAIN list
         /\ \A i \in DOMAIN list : /\ TrapView(PreLoad(list)[i]) = TrapView(list[i])
                                   /\ PreLoad(list)[i].count = list[i].count
                                   /\ PreLoad(list)[i].loaded = FALSE
<1>1. PICK n \in Nat : n = Len(list) /\ DOMAIN list = 1 .. n
  BY DEF Fit
<1>2. PICK pre : pre = PreLoad(list)
  OBVIOUS
<1>3. DOMAIN pre = 1 .. n /\ Len(pre) = n /\ (n = 0 => pre = <<>>)
  BY <1>1, <1>2 DEF PreLoad
<1>4. ASSUME NEW i \in 1 .. n
      PROVE  /\ IsTrap(pre[i]) /\ pre[i].key = list[i].key /\ pre[i].filter = list[i].filter
             /\ TrapView(pre[i]) = TrapView(list[i])
             /\ pre[i].count = list[i].count /\ pre[i].loaded = FALSE
  <2>1. PICK t : t = list[i]
    OBVIOUS
  <2>2. IsTrap(t) /\ DOMAIN t = TrapFields
    BY <1>1, <2>1 DEF Fit, IsTrap
  <2>3. pre[i] = [t EXCEPT !.loaded = FALSE]
    BY <1>1, <1>2, <2>1 DEF PreLoad
  <2> QED
    BY <2>1, <2>2, <2>3 DEF IsTrap, TrapFields, TrapView
<1>0. \A i \in 1 .. n : pre[i].key = list[i].key /\ pre[i].filter = list[i].filter
  BY <1>4
<1>5. \A i, j \in 1 .. n : i < j => pre[i].key <= pre[j].key
  BY <1>0, <1>1 DEF Fit
<1>6. \A i, j \in 1 .. n : Alike(pre[i], pre[j]) => i = j
  BY <1>0, <1>1 DEF Fit, Alike
<1>7. Fit(pre)
  BY <1>3, <1>4, <1>5, <1>6 DEF Fit
<1> QED
  BY <1>1, <1>2, <1>3, <1>4, <1>7

-----------------------------------------------------------------------------
(* What is read                                                            *)

\* Lines read one by one: after[k] is the memory when k of n have been read.
Reads(after, n, m, lines) ==
  /\ after[0] = m /\ after[n] = FoldLeft(ReadLine, m, lines)
  /\ \A k \in 1 .. n : after[k] = ReadLine(after[k - 1], lines[k])

\* It is what FoldLeft computes.
LEMMA LineByLine ==
  ASSUME NEW m, NEW lines, NEW n \in Nat, DOMAIN lines = 1 .. n
  PROVE  \E after : Reads(after, n, m, lines)
<1> DEFINE step(g, S) == IF S = {} THEN m
                         ELSE ReadLine(g[S \ {Max(S)}], lines[Max(S)])
           Upto(k, g) == g = [S \in SUBSET (1 .. k) |-> step(g, S)]
           Good == {k \in Nat : \E g : Upto(k, g)}
<1>1. FoldLeft(ReadLine, m, lines) = (CHOOSE g : Upto(n, g))[1 .. n]
  BY DEF FoldLeft, MapThenFoldSet
<1>2. \A g, S : step(g, S) = IF S = {} THEN m
                             ELSE ReadLine(g[S \ {Max(S)}], lines[Max(S)])
  OBVIOUS
<1>3. ASSUME NEW g, NEW h, NEW S, S # {} => g[S \ {Max(S)}] = h[S \ {Max(S)}]
      PROVE  step(g, S) = step(h, S)
  BY <1>3
<1> HIDE DEF step
<1>4. 0 \in Good
  <2> DEFINE h == [S \in SUBSET (1 .. 0) |-> step(<<>>, S)]
  <2>1. \A S \in SUBSET (1 .. 0) : S = {}
    OBVIOUS
  <2>2. \A S \in SUBSET (1 .. 0) : step(<<>>, S) = step(h, S)
    BY <1>3, <2>1
  <2>3. Upto(0, h)
    BY <2>2
  <2> QED
    BY <2>3
<1>5. ASSUME NEW k \in Nat, k \in Good PROVE k + 1 \in Good
  <2>1. PICK g : Upto(k, g)
    BY <1>5
  <2> DEFINE h == [S \in SUBSET (1 .. k + 1) |->
                     IF k + 1 \in S THEN step(g, S) ELSE g[S]]
  <2>2. \A S \in SUBSET (1 .. k) : h[S] = g[S] /\ g[S] = step(g, S)
    BY <2>1
  <2>3. ASSUME NEW S \in SUBSET (1 .. k + 1)
        PROVE  h[S] = step(h, S)
    <3>1. CASE k + 1 \in S
      <4>1. Max(S) = k + 1
        BY <3>1, TopOf
      <4>2. S \ {k + 1} \in SUBSET (1 .. k)
        OBVIOUS
      <4>3. h[S \ {Max(S)}] = g[S \ {Max(S)}]
        BY <2>2, <4>1, <4>2
      <4>4. step(g, S) = step(h, S)
        <5> HIDE DEF h
        <5> QED
          BY <1>3, <4>3
      <4> QED
        BY <3>1, <4>4
    <3>2. CASE k + 1 \notin S
      <4>1. S \in SUBSET (1 .. k)
        BY <3>2
      <4>2. CASE S = {}
        <5> HIDE DEF h
        <5> QED
          BY <1>2, <2>2, <4>1, <4>2
      <4>3. CASE S # {}
        <5>1. S \ {Max(S)} \in SUBSET (1 .. k)
          BY <4>1
        <5> HIDE DEF h
        <5>2. h[S \ {Max(S)}] = g[S \ {Max(S)}]
          BY <2>2, <5>1
        <5> QED
          BY <1>3, <2>2, <4>1, <5>2
      <4> QED
        BY <4>2, <4>3
    <3> QED
      BY <3>1, <3>2
  <2>4. h = [S \in SUBSET (1 .. k + 1) |-> h[S]]
    OBVIOUS
  <2>5. Upto(k + 1, h)
    <3> HIDE DEF h
    <3> QED
      BY <2>3, <2>4
  <2> HIDE DEF h, Upto
  <2> QED
    BY <2>5
<1>6. n \in Good
  <2> HIDE DEF Good
  <2> QED
    BY <1>4, <1>5, Induct
<1> DEFINE f == CHOOSE g : Upto(n, g)
<1>7. Upto(n, f)
  BY <1>6
<1>8. \A S \in SUBSET (1 .. n) : f[S] = step(f, S)
  <2> HIDE DEF f
  <2> QED
    BY <1>7
<1>9. FoldLeft(ReadLine, m, lines) = f[1 .. n]
  BY <1>1
<1> HIDE DEF Upto, f
<1> DEFINE after == [k \in 0 .. n |-> f[1 .. k]]
<1>10. after[0] = m
  <2>1. 1 .. 0 = {} /\ {} \in SUBSET (1 .. n)
    OBVIOUS
  <2>2. f[{}] = m
    BY <1>2, <1>8, <2>1
  <2> QED
    BY <2>1, <2>2
<1>11. after[n] = FoldLeft(ReadLine, m, lines)
  BY <1>9
<1>12. ASSUME NEW k \in 1 .. n
       PROVE  after[k] = ReadLine(after[k - 1], lines[k])
  <2>1. 1 .. k \in SUBSET (1 .. n) /\ k \in 1 .. k /\ k \in Nat
    OBVIOUS
  <2>2. Max(1 .. k) = k
    BY <2>1, TopOf
  <2>3. (1 .. k) \ {k} = 1 .. (k - 1) /\ k \in 0 .. n /\ k - 1 \in 0 .. n
    OBVIOUS
  <2>4. f[1 .. k] = step(f, 1 .. k)
    BY <1>8, <2>1
  <2>5. step(f, 1 .. k) = ReadLine(f[(1 .. k) \ {k}], lines[k])
    BY <1>2, <2>1, <2>2
  <2>6. after[k] = f[1 .. k] /\ after[k - 1] = f[1 .. (k - 1)]
    BY <2>3
  <2> HIDE DEF after
  <2> QED
    BY <2>3, <2>4, <2>5, <2>6
<1> HIDE DEF after
<1> QED
  BY <1>10, <1>11, <1>12 DEF Reads

\* The settings: those that were set have a word they take, and the others what the
\* bot starts with, but for the servers of an action that was refused.
Tuned(s, set) ==
  /\ DOMAIN s = Names /\ set \subseteq Names
  /\ \A n \in Names : DOMAIN s[n] = {"word", "servers", "duration"}
  /\ \A n \in set : s[n].word \in Valid[n]
  /\ \A n \in Names \ set : /\ s[n].word = Defaults[n].word
                            /\ s[n].duration = Defaults[n].duration

IsMemory(m) == /\ DOMAIN m = {"traps", "settings", "modified"}
               /\ Fit(m.traps) /\ Tuned(m.settings, m.modified)

LEMMA FreshMemory == IsMemory(Fresh)
  BY FitEmpty, DefaultsAssumption DEF IsMemory, Fresh, Tuned

\* A word that stands for one setting stands for a setting.
LEMMA MeantIs ==
  ASSUME NEW word \in DOMAIN Starts, Cardinality(Meant(word)) = 1
  PROVE  Only(word) \in Meant(word) /\ Only(word) \in Names
<1>1. Meant(word) # {}
  BY FS_EmptySet
<1>2. Meant(word) \subseteq Names
  BY NamesAssumption DEF Meant
<1> QED
  BY <1>1, <1>2 DEF Only

\* Memory m becomes new where a setting, name, is given a value.
Gives(m, name, value, new) ==
  /\ name \in Names
  /\ new.settings = [m.settings EXCEPT ![name] = Assigned(name, m.settings[name], value)]
  /\ new.modified = IF Accepted(name, value) THEN m.modified \cup {name} ELSE m.modified

\* What a line of .set changes
LEMMA SetLineIs ==
  ASSUME NEW m, IsMemory(m), NEW line, IsSetLine(line)
  PROVE  /\ IsMemory(SetLine(m, line).memory)
         /\ SetLine(m, line).memory.traps = m.traps
         /\ \/ /\ Cardinality(Meant(line.name)) # 1
               /\ SetLine(m, line).memory = m /\ SetLine(m, line).done = FALSE
            \/ /\ Cardinality(Meant(line.name)) = 1
               /\ Gives(m, Only(line.name), line.value, SetLine(m, line).memory)
               /\ SetLine(m, line).done = Accepted(Only(line.name), line.value)
<1>1. CASE Cardinality(Meant(line.name)) # 1
  <2>1. SetLine(m, line) = [memory |-> m, done |-> FALSE]
    BY <1>1 DEF SetLine
  <2>2. SetLine(m, line).memory = m /\ SetLine(m, line).done = FALSE
    BY <2>1
  <2> QED
    BY <1>1, <2>2
<1>2. CASE Cardinality(Meant(line.name)) = 1
  <2>1. PICK name : name = Only(line.name)
    OBVIOUS
  <2>2. name \in Names
    BY <1>2, <2>1, MeantIs DEF IsSetLine
  <2>3. PICK s, set, new :
          /\ s = m.settings /\ set = m.modified
          /\ new = Assigned(name, s[name], line.value)
    OBVIOUS
  <2>4. PICK after, more :
          /\ after = [s EXCEPT ![name] = new]
          /\ more = IF Accepted(name, line.value) THEN set \cup {name} ELSE set
    OBVIOUS
  <2>5. PICK mem : mem = [m EXCEPT !.settings = after, !.modified = more]
    OBVIOUS
  <2>6. SetLine(m, line).memory = mem /\ SetLine(m, line).done = Accepted(name, line.value)
    <3>1. PICK done : done = (Cardinality(Meant(line.name)) = 1 /\ Accepted(name, line.value))
      OBVIOUS
    <3>2. done = Accepted(name, line.value)
      BY <1>2, <3>1 DEF Accepted
    <3>3. SetLine(m, line) =
            [memory |-> [m EXCEPT !.settings = after,
                                  !.modified = IF done THEN m.modified \cup {name}
                                               ELSE m.modified],
             done |-> done]
      BY <1>2, <2>1, <2>3, <2>4, <3>1 DEF SetLine
    <3>4. SetLine(m, line) = [memory |-> mem, done |-> done]
      BY <2>3, <2>4, <2>5, <3>2, <3>3
    <3> QED
      BY <3>2, <3>4
  <2>7. Tuned(s, set)
    BY <2>3 DEF IsMemory
  <2>8. DOMAIN s[name] = {"word", "servers", "duration"}
    BY <2>2, <2>7 DEF Tuned
  <2>9. /\ DOMAIN new = {"word", "servers", "duration"}
        /\ Accepted(name, line.value) => new.word \in Valid[name]
        /\ ~Accepted(name, line.value) => new.word = s[name].word
                                          /\ new.duration = s[name].duration
    <3>1. CASE Accepted(name, line.value)
      BY <2>3, <3>1 DEF Assigned, Accepted
    <3>2. CASE ~Accepted(name, line.value)
      BY <2>3, <2>8, <3>2 DEF Assigned
    <3> QED
      BY <3>1, <3>2
  <2>10. DOMAIN after = Names /\ \A n \in Names : after[n] = IF n = name THEN new ELSE s[n]
    BY <2>4, <2>7 DEF Tuned
  <2>11. Tuned(after, more)
    <3>1. CASE Accepted(name, line.value)
      <4>1. more = set \cup {name}
        BY <2>4, <3>1
      <4> QED
        BY <2>2, <2>7, <2>9, <2>10, <3>1, <4>1 DEF Tuned
    <3>2. CASE ~Accepted(name, line.value)
      <4>1. more = set
        BY <2>4, <3>2
      <4> QED
        BY <2>2, <2>7, <2>9, <2>10, <3>2, <4>1 DEF Tuned
    <3> QED
      BY <3>1, <3>2
  <2>12. /\ DOMAIN mem = {"traps", "settings", "modified"} /\ mem.traps = m.traps
         /\ mem.settings = after /\ mem.modified = more
    BY <2>5 DEF IsMemory
  <2>13. IsMemory(mem)
    BY <2>11, <2>12 DEF IsMemory
  <2> QED
    BY <1>2, <2>1, <2>2, <2>3, <2>4, <2>6, <2>12, <2>13 DEF Gives
<1> QED
  BY <1>1, <1>2

\* A line that is read
IsLine(line) == IsTrapLine(line) \/ IsSetLine(line)

LEMMA ReadLineKeeps ==
  ASSUME NEW m, IsMemory(m), NEW line, IsLine(line)
  PROVE  /\ IsMemory(ReadLine(m, line))
         /\ line.cmd = "TRAP" =>
              /\ ReadLine(m, line).traps = TrapLine(m.traps, line).list
              /\ ReadLine(m, line).settings = m.settings
              /\ ReadLine(m, line).modified = m.modified
         /\ line.cmd # "TRAP" => ReadLine(m, line).traps = m.traps
<1>1. CASE line.cmd = "TRAP"
  <2>1. IsTrapLine(line)
    BY <1>1 DEF IsLine, IsSetLine
  <2>2. PICK list : list = TrapLine(m.traps, line).list
    OBVIOUS
  <2>3. Fit(list)
    BY <2>1, <2>2, FitLine DEF IsMemory
  <2>4. PICK mem : mem = [m EXCEPT !.traps = list]
    OBVIOUS
  <2>5. ReadLine(m, line) = mem
    BY <1>1, <2>2, <2>4 DEF ReadLine
  <2>6. /\ DOMAIN mem = {"traps", "settings", "modified"} /\ mem.traps = list
        /\ mem.settings = m.settings /\ mem.modified = m.modified
    BY <2>4 DEF IsMemory
  <2> QED
    BY <1>1, <2>2, <2>3, <2>5, <2>6 DEF IsMemory
<1>2. CASE line.cmd # "TRAP"
  <2>1. IsSetLine(line)
    BY <1>2 DEF IsLine, IsTrapLine
  <2>2. ReadLine(m, line) = SetLine(m, line).memory
    BY <1>2 DEF ReadLine
  <2> QED
    BY <1>2, <2>1, <2>2, SetLineIs
<1> QED
  BY <1>1, <1>2

\* What is readable of some lines are the first ones.
LEMMA ReadableAre ==
  ASSUME NEW lines, AreLines(lines)
  PROVE  \E n \in 0 .. Len(lines) :
           /\ DOMAIN Readable(lines) = 1 .. n
           /\ \A i \in 1 .. n : Readable(lines)[i] = lines[i] /\ IsLine(lines[i])
<1>1. PICK n \in Nat : n = Len(lines) /\ DOMAIN lines = 1 .. n
  BY DEF AreLines
<1>2. PICK odd : odd = {i \in DOMAIN lines : lines[i].cmd \notin {"TRAP", "SET"}}
  OBVIOUS
<1>3. \A i \in 1 .. n : i \notin odd => IsLine(lines[i])
  BY <1>1, <1>2 DEF AreLines, IsLine
<1>4. CASE odd = {}
  <2>1. Readable(lines) = lines
    BY <1>2, <1>4 DEF Readable
  <2>2. n \in 0 .. Len(lines)
    BY <1>1
  <2> QED
    BY <1>1, <1>3, <1>4, <2>1, <2>2
<1>5. CASE odd # {}
  <2>1. odd \in SUBSET Nat
    BY <1>1, <1>2
  <2>2. PICK k \in odd : k = Min(odd) /\ \A i \in odd : k <= i
    BY <1>5, <2>1, MinIn
  <2>3. k \in 1 .. n
    BY <1>1, <1>2
  <2>4. PICK c \in 0 .. n : c = k - 1
    BY <2>3
  <2>5. Readable(lines) = SubSeq(lines, 1, c)
    BY <1>2, <1>5, <2>2, <2>4 DEF Readable
  <2>6. PICK part : part = SubSeq(lines, 1, c)
    OBVIOUS
  <2>7. DOMAIN part = 1 .. c /\ \A i \in 1 .. c : part[i] = lines[i]
    BY <1>1, <2>6
  <2>8. \A i \in 1 .. c : i \in 1 .. n /\ i \notin odd
    BY <2>2, <2>3, <2>4
  <2>9. \A i \in 1 .. c : IsLine(lines[i])
    BY <1>3, <2>8
  <2>10. c \in 0 .. Len(lines)
    BY <1>1
  <2> QED
    BY <2>5, <2>6, <2>7, <2>9, <2>10
<1> QED
  BY <1>4, <1>5

\* Memory stays memory line by line.
LEMMA ReadsKeep ==
  ASSUME NEW m, IsMemory(m), NEW lines, NEW n \in Nat, \A i \in 1 .. n : IsLine(lines[i]),
         NEW after, Reads(after, n, m, lines)
  PROVE  \A k \in 0 .. n : IsMemory(after[k])
<1> DEFINE Good == {k \in Nat : k <= n => IsMemory(after[k])}
<1>1. 0 \in Good
  BY DEF Reads
<1>2. ASSUME NEW k \in Nat, k \in Good PROVE k + 1 \in Good
  <2>1. CASE k + 1 <= n
    <3>1. PICK j : j = k + 1
      OBVIOUS
    <3>2. j \in 1 .. n /\ j - 1 = k /\ IsMemory(after[k])
      BY <1>2, <2>1, <3>1
    <3>3. after[j] = ReadLine(after[k], lines[j])
      BY <3>2 DEF Reads
    <3>4. IsMemory(after[j])
      BY <3>2, <3>3, ReadLineKeeps
    <3> QED
      BY <3>1, <3>4
  <2>2. CASE ~(k + 1 <= n)
    BY <2>2
  <2> QED
    BY <2>1, <2>2
<1>3. Nat \subseteq Good
  <2> HIDE DEF Good
  <2> QED
    BY <1>1, <1>2, Induct
<1> QED
  BY <1>3

\* The memory in which a load begins, and what it makes of the memory in which it ends
Before(m) == [m EXCEPT !.traps = PreLoad(m.traps)]
After(read) == [read EXCEPT !.traps = PostLoad(read.traps)]

LEMMA BeforeMemory ==
  ASSUME NEW m, IsMemory(m)
  PROVE  IsMemory(Before(m)) /\ Before(m).traps = PreLoad(m.traps)
         /\ Before(m).settings = m.settings /\ Before(m).modified = m.modified
<1>1. PICK list : list = PreLoad(m.traps)
  OBVIOUS
<1>2. Fit(list)
  BY <1>1, FitPreLoad DEF IsMemory
<1>3. PICK mem : mem = [m EXCEPT !.traps = list]
  OBVIOUS
<1>4. Before(m) = mem
  BY <1>1, <1>3 DEF Before
<1>5. /\ DOMAIN mem = {"traps", "settings", "modified"} /\ mem.traps = list
      /\ mem.settings = m.settings /\ mem.modified = m.modified
  BY <1>3 DEF IsMemory
<1> QED
  BY <1>1, <1>2, <1>4, <1>5 DEF IsMemory

LEMMA AfterMemory ==
  ASSUME NEW m, IsMemory(m)
  PROVE  IsMemory(After(m)) /\ After(m).traps = PostLoad(m.traps)
         /\ After(m).settings = m.settings /\ After(m).modified = m.modified
<1>1. PICK list : list = PostLoad(m.traps)
  OBVIOUS
<1>2. Fit(list)
  <2>1. PICK I : I = {i \in DOMAIN m.traps : m.traps[i].loaded}
    OBVIOUS
  <2>2. I \in SUBSET (DOMAIN m.traps)
    BY <2>1
  <2> QED
    BY <1>1, <2>1, <2>2, FitPicked DEF IsMemory, PostLoad
<1>3. PICK mem : mem = [m EXCEPT !.traps = list]
  OBVIOUS
<1>4. After(m) = mem
  BY <1>1, <1>3 DEF After
<1>5. /\ DOMAIN mem = {"traps", "settings", "modified"} /\ mem.traps = list
      /\ mem.settings = m.settings /\ mem.modified = m.modified
  BY <1>3 DEF IsMemory
<1> QED
  BY <1>1, <1>2, <1>4, <1>5 DEF IsMemory

\* A load, line by line
LoadsSo(m, lines, n, after) ==
  /\ n \in 0 .. Len(lines)
  /\ \A i \in 1 .. n : Readable(lines)[i] = lines[i] /\ IsLine(lines[i])
  /\ DOMAIN Readable(lines) = 1 .. n
  /\ Reads(after, n, Before(m), Readable(lines))
  /\ Loaded(m, lines) = After(after[n])

LEMMA LoadedIs ==
  ASSUME NEW m, NEW lines, AreLines(lines), lines # NoFile
  PROVE  \E n, after : LoadsSo(m, lines, n, after)
<1>1. PICK n \in 0 .. Len(lines) :
        /\ DOMAIN Readable(lines) = 1 .. n
        /\ \A i \in 1 .. n : Readable(lines)[i] = lines[i] /\ IsLine(lines[i])
  BY ReadableAre
<1>2. n \in Nat
  BY DEF AreLines
<1>3. PICK after : Reads(after, n, Before(m), Readable(lines))
  BY <1>1, <1>2, LineByLine
<1>4. PICK read : read = FoldLeft(ReadLine, Before(m), Readable(lines))
  OBVIOUS
<1>5. after[n] = read
  BY <1>3, <1>4 DEF Reads
<1>6. Loaded(m, lines) = After(read)
  BY <1>4 DEF Loaded, Before, After
<1> QED
  BY <1>1, <1>3, <1>5, <1>6 DEF LoadsSo

\* Whatever the lines, memory is memory after a load.
LEMMA LoadedMemory ==
  ASSUME NEW m, IsMemory(m), NEW lines, AreLines(lines)
  PROVE  IsMemory(Loaded(m, lines))
<1>1. CASE lines = NoFile
  BY <1>1 DEF Loaded
<1>2. CASE lines # NoFile
  <2> PICK n, after : LoadsSo(m, lines, n, after)
    BY <1>2, LoadedIs
  <2>1. /\ n \in 0 .. Len(lines)
        /\ \A i \in 1 .. n : Readable(lines)[i] = lines[i] /\ IsLine(lines[i])
        /\ Reads(after, n, Before(m), Readable(lines))
        /\ Loaded(m, lines) = After(after[n])
    BY DEF LoadsSo
  <2>2. n \in Nat /\ n \in 0 .. n
    BY <2>1 DEF AreLines
  <2>3. \A i \in 1 .. n : IsLine(Readable(lines)[i])
    BY <2>1
  <2>4. IsMemory(after[n])
    BY <2>1, <2>2, <2>3, BeforeMemory, ReadsKeep
  <2> QED
    BY <2>1, <2>4, AfterMemory
<1> QED
  BY <1>1, <1>2

-----------------------------------------------------------------------------
(* A load agrees with the file                                             *)

\* A line that makes a trap when it is read
Accepts(line) ==
  line.cmd = "TRAP" /\ line.verb \in TrapActions /\ FilterOf(line.text) # BadFilter

\* As the bot writes a file: a line of a trap has its key and removes nothing, and no
\* two make traps of one key and filter.
Keyed(lines) ==
  /\ \A i \in DOMAIN lines : lines[i].cmd = "TRAP" => lines[i].key # 0 /\ lines[i].verb # "REMOVE"
  /\ \A i, j \in DOMAIN lines :
       Accepts(lines[i]) /\ Accepts(lines[j]) /\ Alike(LineView(lines[i]), LineView(lines[j]))
         => i = j

\* What a line adds: its trap, loaded, in place of one alike, whose counts it keeps if
\* they are otherwise the same; the others stay.
Adds(after, list, line) ==
  /\ \A i \in DOMAIN list : ~Alike(list[i], LineView(line)) =>
       \E k \in DOMAIN after : after[k] = list[i]
  /\ \E k \in DOMAIN after : after[k].loaded = TRUE /\ TrapView(after[k]) = LineView(line)
  /\ \A k \in DOMAIN after :
       \/ \E i \in DOMAIN list : after[k] = list[i] /\ ~Alike(list[i], LineView(line))
       \/ /\ after[k].loaded = TRUE /\ TrapView(after[k]) = LineView(line)
          /\ \A i \in DOMAIN list :
               TrapView(list[i]) = LineView(line) => after[k].count = list[i].count

LEMMA AddIs ==
  ASSUME NEW list, Fit(list), NEW line, Makeable(line), line.key # 0
  PROVE  Adds(AddTrap(list, line), list, line)
<1>1. PICK n \in Nat : n = Len(list) /\ DOMAIN list = 1 .. n
  BY DEF Fit
<1>2. PICK view : view = LineView(line)
  OBVIOUS
<1>3. view.key = line.key /\ view.filter = FilterOf(line.text)
  BY <1>2 DEF LineView
<1>4. \A i \in 1 .. n : Alike(list[i], view) <=> i \in Same(list, line)
  BY <1>1, <1>3 DEF Alike, Same
<1>5. \A i \in 1 .. n : TrapView(list[i]) = view => Alike(list[i], view)
  BY <1>3 DEF TrapView, Alike
<1>6. CASE Same(list, line) # {}
  <2>1. PICK at, new :
          /\ at \in Same(list, line)
          /\ Renews(new, list[at], line)
          /\ AddTrap(list, line) = [list EXCEPT ![at] = new]
    BY <1>6, AddRenews
  <2>2. at \in 1 .. n /\ Alike(list[at], view)
    BY <1>1, <1>4, <2>1 DEF Same
  <2>3. PICK after : after = [list EXCEPT ![at] = new]
    OBVIOUS
  <2>4. DOMAIN after = 1 .. n /\ \A i \in 1 .. n : after[i] = IF i = at THEN new ELSE list[i]
    BY <1>1, <2>3
  <2>5. \A i \in 1 .. n : i # at => ~Alike(list[i], view)
    <3>1. \A i \in 1 .. n : Alike(list[i], view) => Alike(list[i], list[at])
      BY <2>2 DEF Alike
    <3> QED
      BY <1>1, <2>2, <3>1 DEF Fit
  <2>6. new.loaded = TRUE /\ TrapView(new) = view
    BY <1>2, <1>3, <2>1, <2>2 DEF Renews, TrapView, LineView, Alike
  <2>7. TrapView(list[at]) = view => new.count = list[at].count
    <3>1. ASSUME TrapView(list[at]) = view
          PROVE  <<list[at].action, list[at].timeout, list[at].reason>>
                   = <<line.verb, line.timeout, line.reason>>
      BY <1>2, <3>1 DEF TrapView, LineView
    <3> QED
      BY <2>1, <3>1 DEF Renews
  <2>8. \A i \in 1 .. n : TrapView(list[i]) = view => new.count = list[i].count
    BY <1>5, <2>5, <2>7
  <2>9. Adds(after, list, line)
    <3>1. \A i \in 1 .. n : ~Alike(list[i], view) => \E k \in 1 .. n : after[k] = list[i]
      BY <2>2, <2>4
    <3>2. \E k \in 1 .. n : after[k].loaded = TRUE /\ TrapView(after[k]) = view
      BY <2>2, <2>4, <2>6
    <3>3. ASSUME NEW k \in 1 .. n
          PROVE \/ \E i \in 1 .. n : after[k] = list[i] /\ ~Alike(list[i], view)
                \/ /\ after[k].loaded = TRUE /\ TrapView(after[k]) = view
                   /\ \A i \in 1 .. n : TrapView(list[i]) = view => after[k].count = list[i].count
      BY <2>4, <2>5, <2>6, <2>8
    <3> QED
      BY <1>1, <1>2, <2>4, <3>1, <3>2, <3>3 DEF Adds
  <2> QED
    BY <2>1, <2>3, <2>9
<1>7. CASE Same(list, line) = {}
  <2>0. PICK c \in 0 .. n : \E new : AddsBehind(list, line, line.key, c, new)
    BY <1>1, <1>7, AddCreates DEF KeyFor
  <2>1. PICK new : /\ Creates(new, line.key, line)
                   /\ AddTrap(list, line) = InsertAt(list, c + 1, new)
    BY <2>0 DEF AddsBehind
  <2>2. PICK after : after = InsertAt(list, c + 1, new)
    OBVIOUS
  <2>3. /\ DOMAIN after = 1 .. n + 1
        /\ \A i \in 1 .. c : after[i] = list[i]
        /\ after[c + 1] = new
        /\ \A i \in c + 2 .. n + 1 : after[i] = list[i - 1]
    BY <1>1, <2>2, Inserted DEF Inserts
  <2>4. new.loaded = TRUE /\ TrapView(new) = view
    BY <1>2, <2>1 DEF Creates, TrapView, LineView
  <2>5. \A i \in 1 .. n : ~Alike(list[i], view) /\ TrapView(list[i]) # view
    BY <1>4, <1>5, <1>7
  <2>6. c + 1 \in 1 .. n + 1
    OBVIOUS
  <2>7. ASSUME NEW i \in 1 .. n PROVE \E k \in 1 .. n + 1 : after[k] = list[i]
    <3>1. CASE i <= c
      <4>1. i \in 1 .. c /\ i \in 1 .. n + 1
        BY <3>1
      <4> QED
        BY <2>3, <4>1
    <3>2. CASE ~(i <= c)
      <4>1. PICK k : k = i + 1
        OBVIOUS
      <4>2. k \in c + 2 .. n + 1 /\ k \in 1 .. n + 1 /\ k - 1 = i
        BY <3>2, <4>1
      <4>3. after[k] = list[k - 1]
        BY <2>3, <4>2
      <4> QED
        BY <4>2, <4>3
    <3> QED
      BY <3>1, <3>2
  <2>8. ASSUME NEW k \in 1 .. n + 1, k # c + 1 PROVE \E i \in 1 .. n : after[k] = list[i]
    <3>1. CASE k <= c
      <4>1. k \in 1 .. c /\ k \in 1 .. n
        BY <3>1
      <4> QED
        BY <2>3, <4>1
    <3>2. CASE ~(k <= c)
      <4>1. k \in c + 2 .. n + 1 /\ k - 1 \in 1 .. n
        BY <2>8, <3>2
      <4> QED
        BY <2>3, <4>1
    <3> QED
      BY <3>1, <3>2
  <2>9. Adds(after, list, line)
    <3>1. \A i \in 1 .. n : ~Alike(list[i], view) => \E k \in 1 .. n + 1 : after[k] = list[i]
      BY <2>7
    <3>2. \E k \in 1 .. n + 1 : after[k].loaded = TRUE /\ TrapView(after[k]) = view
      BY <2>3, <2>4, <2>6
    <3>3. ASSUME NEW k \in 1 .. n + 1
          PROVE \/ \E i \in 1 .. n : after[k] = list[i] /\ ~Alike(list[i], view)
                \/ /\ after[k].loaded = TRUE /\ TrapView(after[k]) = view
                   /\ \A i \in 1 .. n : TrapView(list[i]) = view => after[k].count = list[i].count
      BY <2>3, <2>4, <2>5, <2>8
    <3> QED
      BY <1>1, <1>2, <2>3, <3>1, <3>2, <3>3 DEF Adds
  <2> QED
    BY <2>1, <2>2, <2>9
<1> QED
  BY <1>6, <1>7

\* What is so when k lines have been read onto a list of traps, before: those loaded
\* are those of the lines; each of before has one alike; and that has kept its counts
\* if it is just so, as it is if no line was about it.
Sofar(list, before, lines, k) ==
  /\ \A i \in DOMAIN list : list[i].loaded \in BOOLEAN
  /\ \A i \in DOMAIN list : list[i].loaded = TRUE =>
       \E j \in 1 .. k : Accepts(lines[j]) /\ TrapView(list[i]) = LineView(lines[j])
  /\ \A j \in 1 .. k : Accepts(lines[j]) =>
       \E i \in DOMAIN list : list[i].loaded = TRUE /\ TrapView(list[i]) = LineView(lines[j])
  /\ \A t \in DOMAIN before : \E i \in DOMAIN list : Alike(list[i], before[t])
  /\ \A i \in DOMAIN list, t \in DOMAIN before : Alike(list[i], before[t]) =>
       /\ TrapView(list[i]) = TrapView(before[t]) => list[i].count = before[t].count
       /\ (\A j \in 1 .. k : Accepts(lines[j]) => ~Alike(before[t], LineView(lines[j])))
            => TrapView(list[i]) = TrapView(before[t])

LEMMA SofarStep ==
  ASSUME NEW n \in Nat, NEW lines, DOMAIN lines = 1 .. n, Keyed(lines), NEW k \in 1 .. n,
         Accepts(lines[k]), NEW before, NEW list, Sofar(list, before, lines, k - 1),
         NEW after, Adds(after, list, lines[k])
  PROVE  Sofar(after, before, lines, k)
<1>1. PICK view : view = LineView(lines[k])
  OBVIOUS
<1>2. \A j \in 1 .. k : j = k \/ j \in 1 .. k - 1
  OBVIOUS
<1>3. \A j \in 1 .. k - 1 : Accepts(lines[j]) => ~Alike(LineView(lines[j]), view)
  BY <1>1 DEF Keyed
<1>4. /\ \A i \in DOMAIN list : ~Alike(list[i], view) =>
           \E x \in DOMAIN after : after[x] = list[i]
      /\ \E x \in DOMAIN after : after[x].loaded = TRUE /\ TrapView(after[x]) = view
      /\ \A x \in DOMAIN after :
           \/ \E i \in DOMAIN list : after[x] = list[i] /\ ~Alike(list[i], view)
           \/ /\ after[x].loaded = TRUE /\ TrapView(after[x]) = view
              /\ \A i \in DOMAIN list :
                   TrapView(list[i]) = view => after[x].count = list[i].count
  BY <1>1 DEF Adds
<1>5. \A t, u, v : /\ TrapView(t) = u => Alike(t, u)
                   /\ Alike(t, u) => Alike(u, t)
                   /\ Alike(t, u) /\ Alike(u, v) => Alike(t, v)
                   /\ TrapView(t) = u => (Alike(u, v) <=> Alike(t, v))
  BY DEF TrapView, Alike
<1>6. \A x \in DOMAIN after : after[x].loaded \in BOOLEAN
  BY <1>4 DEF Sofar
<1>7. ASSUME NEW x \in DOMAIN after, after[x].loaded = TRUE
      PROVE  \E j \in 1 .. k : Accepts(lines[j]) /\ TrapView(after[x]) = LineView(lines[j])
  <2>1. CASE TrapView(after[x]) = view
    <3>1. k \in 1 .. k
      OBVIOUS
    <3> QED
      BY <1>1, <2>1, <3>1
  <2>2. CASE \E i \in DOMAIN list : after[x] = list[i]
    <3>1. PICK i \in DOMAIN list : after[x] = list[i]
      BY <2>2
    <3>2. PICK j \in 1 .. k - 1 : Accepts(lines[j]) /\ TrapView(list[i]) = LineView(lines[j])
      BY <1>7, <3>1 DEF Sofar
    <3>3. j \in 1 .. k
      OBVIOUS
    <3> QED
      BY <3>1, <3>2, <3>3
  <2> QED
    BY <1>4, <2>1, <2>2
<1>8. ASSUME NEW j \in 1 .. k, Accepts(lines[j])
      PROVE  \E x \in DOMAIN after :
               after[x].loaded = TRUE /\ TrapView(after[x]) = LineView(lines[j])
  <2>1. CASE j = k
    BY <1>1, <1>4, <2>1
  <2>2. CASE j \in 1 .. k - 1
    <3>1. PICK i \in DOMAIN list :
            list[i].loaded = TRUE /\ TrapView(list[i]) = LineView(lines[j])
      BY <1>8, <2>2 DEF Sofar
    <3>2. ~Alike(list[i], view)
      BY <1>3, <1>5, <1>8, <2>2, <3>1
    <3> QED
      BY <1>4, <3>1, <3>2
  <2> QED
    BY <1>2, <2>1, <2>2
<1>9. ASSUME NEW t \in DOMAIN before PROVE \E x \in DOMAIN after : Alike(after[x], before[t])
  <2>1. PICK i \in DOMAIN list : Alike(list[i], before[t])
    BY DEF Sofar
  <2>2. CASE ~Alike(list[i], view)
    BY <1>4, <2>1, <2>2
  <2>3. CASE Alike(list[i], view)
    <3>1. PICK x \in DOMAIN after : TrapView(after[x]) = view
      BY <1>4
    <3>2. Alike(after[x], view) /\ Alike(view, list[i])
      BY <1>5, <2>3, <3>1
    <3>3. Alike(after[x], before[t])
      BY <1>5, <2>1, <3>2
    <3> QED
      BY <3>3
  <2> QED
    BY <2>2, <2>3
<1>10. ASSUME NEW x \in DOMAIN after, NEW t \in DOMAIN before, Alike(after[x], before[t])
       PROVE  /\ TrapView(after[x]) = TrapView(before[t]) => after[x].count = before[t].count
              /\ (\A j \in 1 .. k : Accepts(lines[j]) => ~Alike(before[t], LineView(lines[j])))
                   => TrapView(after[x]) = TrapView(before[t])
  <2>1. CASE \E i \in DOMAIN list : after[x] = list[i] /\ ~Alike(list[i], view)
    <3>1. PICK i \in DOMAIN list : after[x] = list[i]
      BY <2>1
    <3>2. 1 .. k - 1 \subseteq 1 .. k
      OBVIOUS
    <3>3. /\ TrapView(list[i]) = TrapView(before[t]) => list[i].count = before[t].count
          /\ (\A j \in 1 .. k - 1 : Accepts(lines[j]) => ~Alike(before[t], LineView(lines[j])))
               => TrapView(list[i]) = TrapView(before[t])
      BY <1>10, <3>1 DEF Sofar
    <3> QED
      BY <3>1, <3>2, <3>3
  <2>2. CASE /\ after[x].loaded = TRUE /\ TrapView(after[x]) = view
             /\ \A i \in DOMAIN list :
                  TrapView(list[i]) = view => after[x].count = list[i].count
    <3>1. Alike(before[t], view)
      BY <1>5, <1>10, <2>2
    <3>2. ~ \A j \in 1 .. k : Accepts(lines[j]) => ~Alike(before[t], LineView(lines[j]))
      <4>1. k \in 1 .. k
        OBVIOUS
      <4> QED
        BY <1>1, <3>1, <4>1
    <3>3. ASSUME TrapView(after[x]) = TrapView(before[t])
          PROVE  after[x].count = before[t].count
      <4>1. PICK i \in DOMAIN list : Alike(list[i], before[t])
        BY DEF Sofar
      <4>2. ASSUME NEW j \in 1 .. k - 1, Accepts(lines[j]), Alike(before[t], LineView(lines[j]))
            PROVE FALSE
        <5>1. Alike(LineView(lines[j]), before[t])
          BY <1>5, <4>2
        <5>2. Alike(LineView(lines[j]), view)
          BY <1>5, <3>1, <5>1
        <5> QED
          BY <1>3, <4>2, <5>2
      <4>3. TrapView(list[i]) = TrapView(before[t]) /\ list[i].count = before[t].count
        BY <4>1, <4>2 DEF Sofar
      <4> QED
        BY <2>2, <3>3, <4>3
    <3> QED
      BY <3>2, <3>3
  <2> QED
    BY <1>4, <2>1, <2>2
<1> QED
  BY <1>6, <1>7, <1>8, <1>9, <1>10 DEF Sofar

\* A line that makes no trap leaves what is so.
LEMMA SofarStays ==
  ASSUME NEW n \in Nat, NEW lines, NEW k \in 1 .. n, ~Accepts(lines[k]),
         NEW before, NEW list, Sofar(list, before, lines, k - 1)
  PROVE  Sofar(list, before, lines, k)
<1>1. \A j \in 1 .. k : j = k \/ j \in 1 .. k - 1
  OBVIOUS
<1>2. 1 .. k - 1 \subseteq 1 .. k
  OBVIOUS
<1>3. \A t : (\A j \in 1 .. k : Accepts(lines[j]) => ~Alike(t, LineView(lines[j])))
               <=> \A j \in 1 .. k - 1 : Accepts(lines[j]) => ~Alike(t, LineView(lines[j]))
  BY <1>1, <1>2
<1>4. \A i \in DOMAIN list : list[i].loaded = TRUE =>
        \E j \in 1 .. k : Accepts(lines[j]) /\ TrapView(list[i]) = LineView(lines[j])
  BY <1>2 DEF Sofar
<1>5. \A j \in 1 .. k : Accepts(lines[j]) =>
        \E i \in DOMAIN list : list[i].loaded = TRUE /\ TrapView(list[i]) = LineView(lines[j])
  BY <1>1 DEF Sofar
<1> QED
  BY <1>3, <1>4, <1>5 DEF Sofar

\* When all lines have been read
LEMMA SofarAll ==
  ASSUME NEW m, IsMemory(m), NEW n \in Nat, NEW lines, DOMAIN lines = 1 .. n, Keyed(lines),
         \A i \in 1 .. n : IsLine(lines[i]),
         NEW before, before = m.traps, \A i \in DOMAIN before : before[i].loaded = FALSE,
         NEW after, Reads(after, n, m, lines)
  PROVE  Sofar(after[n].traps, before, lines, n)
<1> DEFINE Good == {k \in Nat : k <= n => Sofar(after[k].traps, before, lines, k)}
<1>1. 0 \in Good
  <2>1. after[0].traps = before
    BY DEF Reads
  <2>2. \A i, j \in DOMAIN before : Alike(before[i], before[j]) => i = j
    BY DEF IsMemory, Fit
  <2>3. \A i \in DOMAIN before : Alike(before[i], before[i])
    BY DEF Alike
  <2>4. Sofar(before, before, lines, 0)
    <3>1. \A i \in DOMAIN before : before[i].loaded \in BOOLEAN /\ before[i].loaded # TRUE
      OBVIOUS
    <3>2. \A j \in 1 .. 0 : FALSE
      OBVIOUS
    <3>3. \A t \in DOMAIN before : \E i \in DOMAIN before : Alike(before[i], before[t])
      BY <2>3
    <3>4. \A i, t \in DOMAIN before : Alike(before[i], before[t]) =>
            /\ TrapView(before[i]) = TrapView(before[t])
            /\ before[i].count = before[t].count
      BY <2>2
    <3> QED
      BY <3>1, <3>2, <3>3, <3>4, Zenon DEF Sofar
  <2> QED
    BY <2>1, <2>4
<1>2. ASSUME NEW k \in Nat, k \in Good PROVE k + 1 \in Good
  <2>1. CASE k + 1 <= n
    <3>1. PICK j : j = k + 1
      OBVIOUS
    <3>2. j \in 1 .. n /\ j - 1 = k /\ k \in 0 .. n /\ Sofar(after[k].traps, before, lines, k)
      BY <1>2, <2>1, <3>1
    <3>3. after[j] = ReadLine(after[k], lines[j])
      BY <3>2 DEF Reads
    <3>4. IsMemory(after[k])
      BY <3>2, ReadsKeep
    <3>5. PICK line, list : line = lines[j] /\ list = after[k].traps
      OBVIOUS
    <3>6. IsLine(line) /\ Fit(list)
      BY <3>2, <3>4, <3>5 DEF IsMemory
    <3>9. /\ line.cmd = "TRAP" => after[j].traps = TrapLine(list, line).list
          /\ line.cmd # "TRAP" => after[j].traps = list
      <4>1. PICK mem : mem = after[k]
        OBVIOUS
      <4>2. IsMemory(mem) /\ IsLine(line)
        BY <3>4, <3>6, <4>1
      <4>3. /\ line.cmd = "TRAP" => ReadLine(mem, line).traps = TrapLine(mem.traps, line).list
            /\ line.cmd # "TRAP" => ReadLine(mem, line).traps = mem.traps
        BY <4>2, ReadLineKeeps
      <4>4. after[j] = ReadLine(mem, line) /\ mem.traps = list
        BY <3>3, <3>5, <4>1
      <4> QED
        BY <4>3, <4>4
    <3>7. CASE Accepts(line)
      <4>1. IsTrapLine(line) /\ line.key # 0 /\ line.verb # "REMOVE"
        BY <3>2, <3>5, <3>6, <3>7 DEF Accepts, IsLine, IsSetLine, Keyed
      <4>2. TrapLine(list, line).list = AddTrap(list, line)
        BY <3>7, <4>1 DEF TrapLine, Accepts
      <4>3. after[j].traps = AddTrap(list, line)
        BY <3>7, <3>9, <4>2 DEF Accepts
      <4>4. Makeable(line)
        BY <3>7, <4>1, LineMakes DEF Accepts
      <4>5. Adds(after[j].traps, list, line)
        BY <3>6, <4>1, <4>3, <4>4, AddIs
      <4>6. Sofar(after[j].traps, before, lines, j)
        BY <3>2, <3>5, <3>7, <4>5, SofarStep
      <4> QED
        BY <3>1, <4>6
    <3>8. CASE ~Accepts(line)
      <4>1. after[j].traps = list
        <5>1. CASE line.cmd = "TRAP"
          <6>1. line.verb # "REMOVE"
            BY <3>2, <3>5, <5>1 DEF Keyed
          <6>2. TrapLine(list, line).list = list
            BY <3>8, <5>1, <6>1 DEF TrapLine, Accepts
          <6> QED
            BY <3>9, <5>1, <6>2
        <5>2. CASE line.cmd # "TRAP"
          BY <3>9, <5>2
        <5> QED
          BY <5>1, <5>2
      <4>2. Sofar(list, before, lines, j)
        BY <3>2, <3>5, <3>8, SofarStays
      <4> QED
        BY <3>1, <4>1, <4>2
    <3> QED
      BY <3>7, <3>8
  <2>2. CASE ~(k + 1 <= n)
    BY <2>2
  <2> QED
    BY <2>1, <2>2
<1>3. n \in Good
  <2> HIDE DEF Good
  <2> QED
    BY <1>1, <1>2, Induct
<1> QED
  BY <1>3

\* The traps after a load are those of the file, and one that was in memory just so
\* has its counts.
LEMMA LoadedTraps ==
  ASSUME NEW m, IsMemory(m), NEW lines, AreLines(lines), lines # NoFile, Keyed(lines),
         NEW list, list = Loaded(m, lines).traps, NEW read, read = Readable(lines)
  PROVE  /\ \A i \in DOMAIN list : \E j \in DOMAIN read :
              Accepts(read[j]) /\ TrapView(list[i]) = LineView(read[j])
         /\ \A j \in DOMAIN read : Accepts(read[j]) =>
              \E i \in DOMAIN list : TrapView(list[i]) = LineView(read[j])
         /\ \A i \in DOMAIN list, t \in DOMAIN m.traps :
              TrapView(list[i]) = TrapView(m.traps[t]) => list[i].count = m.traps[t].count
<1> PICK n, after : LoadsSo(m, lines, n, after)
  BY LoadedIs
<1>1. /\ n \in 0 .. Len(lines)
      /\ \A i \in 1 .. n : read[i] = lines[i] /\ IsLine(lines[i])
      /\ DOMAIN read = 1 .. n
      /\ Reads(after, n, Before(m), read)
      /\ Loaded(m, lines) = After(after[n])
  BY DEF LoadsSo
<1>2. n \in Nat /\ \A i \in 1 .. n : IsLine(read[i])
  BY <1>1 DEF AreLines
<1>3. Keyed(read)
  <2>1. 1 .. n \subseteq DOMAIN lines
    BY <1>1 DEF AreLines
  <2> QED
    BY <1>1, <2>1 DEF Keyed
<1>4. PICK before : before = PreLoad(m.traps)
  OBVIOUS
<1>5. /\ DOMAIN before = DOMAIN m.traps
      /\ \A i \in DOMAIN before : /\ TrapView(before[i]) = TrapView(m.traps[i])
                                  /\ before[i].count = m.traps[i].count
                                  /\ before[i].loaded = FALSE
  BY <1>4, FitPreLoad DEF IsMemory
<1>6. IsMemory(Before(m)) /\ before = Before(m).traps
  BY <1>4, BeforeMemory
<1>7. PICK full : full = after[n].traps
  OBVIOUS
<1>8. Sofar(full, before, read, n)
  BY <1>1, <1>2, <1>3, <1>5, <1>6, <1>7, SofarAll
<1>9. n \in 0 .. n /\ IsMemory(after[n])
  BY <1>1, <1>2, <1>6, ReadsKeep
<1>10. list = PostLoad(full)
  BY <1>1, <1>7, <1>9, AfterMemory
<1>11. PICK I : I = {i \in DOMAIN full : full[i].loaded}
  OBVIOUS
<1>12. I \in SUBSET (DOMAIN full) /\ \A i \in DOMAIN full : i \in I <=> full[i].loaded = TRUE
  BY <1>8, <1>11 DEF Sofar
<1>13. /\ \A k \in DOMAIN list : \E i \in I : list[k] = full[i]
       /\ \A i \in I : \E k \in DOMAIN list : list[k] = full[i]
  <2>1. list = Picked(full, I)
    BY <1>10, <1>11 DEF PostLoad
  <2>2. Fit(full)
    BY <1>7, <1>9 DEF IsMemory
  <2> QED
    BY <1>12, <2>1, <2>2, FitPicked
<1>14. ASSUME NEW k \in DOMAIN list
       PROVE  \E j \in DOMAIN read : Accepts(read[j]) /\ TrapView(list[k]) = LineView(read[j])
  <2>1. PICK i \in I : list[k] = full[i]
    BY <1>13
  <2> QED
    BY <1>1, <1>8, <1>12, <2>1 DEF Sofar
<1>15. ASSUME NEW j \in DOMAIN read, Accepts(read[j])
       PROVE  \E k \in DOMAIN list : TrapView(list[k]) = LineView(read[j])
  <2>1. PICK i \in DOMAIN full : full[i].loaded = TRUE /\ TrapView(full[i]) = LineView(read[j])
    BY <1>1, <1>8, <1>15 DEF Sofar
  <2> QED
    BY <1>12, <1>13, <2>1
<1>16. ASSUME NEW k \in DOMAIN list, NEW t \in DOMAIN m.traps,
              TrapView(list[k]) = TrapView(m.traps[t])
       PROVE  list[k].count = m.traps[t].count
  <2>1. PICK i \in I : list[k] = full[i]
    BY <1>13
  <2>2. TrapView(full[i]) = TrapView(before[t])
    BY <1>5, <1>16, <2>1
  <2>3. Alike(full[i], before[t])
    BY <2>2 DEF TrapView, Alike
  <2>4. full[i].count = before[t].count
    BY <1>5, <1>8, <1>12, <2>2, <2>3 DEF Sofar
  <2> QED
    BY <1>5, <2>1, <2>4
<1> QED
  BY <1>14, <1>15, <1>16

\* What LoadAgrees says of the traps after a load, those of the file and those before
Agree(after, fresh, list) ==
  /\ {TrapView(after[i]) : i \in DOMAIN after} = {TrapView(fresh[i]) : i \in DOMAIN fresh}
  /\ \A i \in DOMAIN after, j \in DOMAIN list :
       TrapView(after[i]) = TrapView(list[j]) => after[i].count = list[j].count

\* Whatever is in memory, a load agrees with a file that is keyed.
LEMMA Agrees ==
  ASSUME IsMemory(Memory), AreLines(file), Keyed(file)
  PROVE  LoadAgrees
<1>0. PICK after, fresh, read : /\ after = Loaded(Memory, file).traps
                                /\ fresh = Loaded(Fresh, file).traps
                                /\ read = Readable(file)
  OBVIOUS
<1>1. (file # NoFile => Agree(Loaded(Memory, file).traps, Loaded(Fresh, file).traps, traps))
        => LoadAgrees
  BY DEF LoadAgrees, Agree
<1>2. SUFFICES ASSUME file # NoFile PROVE Agree(after, fresh, traps)
  BY <1>0, <1>1
<1>3. Memory.traps = traps
  BY DEF Memory
<1>4. /\ \A i \in DOMAIN after : \E j \in DOMAIN read :
           Accepts(read[j]) /\ TrapView(after[i]) = LineView(read[j])
      /\ \A j \in DOMAIN read : Accepts(read[j]) =>
           \E i \in DOMAIN after : TrapView(after[i]) = LineView(read[j])
      /\ \A i \in DOMAIN after, t \in DOMAIN traps :
           TrapView(after[i]) = TrapView(traps[t]) => after[i].count = traps[t].count
  BY <1>0, <1>2, <1>3, LoadedTraps
<1>5. /\ \A i \in DOMAIN fresh : \E j \in DOMAIN read :
           Accepts(read[j]) /\ TrapView(fresh[i]) = LineView(read[j])
      /\ \A j \in DOMAIN read : Accepts(read[j]) =>
           \E i \in DOMAIN fresh : TrapView(fresh[i]) = LineView(read[j])
  BY <1>0, <1>2, FreshMemory, LoadedTraps
<1>6. ASSUME NEW i \in DOMAIN after
      PROVE  \E k \in DOMAIN fresh : TrapView(after[i]) = TrapView(fresh[k])
  <2>1. PICK j \in DOMAIN read : Accepts(read[j]) /\ TrapView(after[i]) = LineView(read[j])
    BY <1>4
  <2> QED
    BY <1>5, <2>1
<1>7. ASSUME NEW k \in DOMAIN fresh
      PROVE  \E i \in DOMAIN after : TrapView(fresh[k]) = TrapView(after[i])
  <2>1. PICK j \in DOMAIN read : Accepts(read[j]) /\ TrapView(fresh[k]) = LineView(read[j])
    BY <1>5
  <2> QED
    BY <1>4, <2>1
<1>8. {TrapView(after[i]) : i \in DOMAIN after} = {TrapView(fresh[i]) : i \in DOMAIN fresh}
  BY <1>6, <1>7
<1> QED
  BY <1>4, <1>8 DEF Agree

-----------------------------------------------------------------------------
(* What is saved is read again                                             *)

\* The line of a setting
SetText(m, name) == [cmd |-> "SET", name |-> name, value |-> Shown(m.settings[name])]

\* The file has the n traps, and then the k settings that were set.
Saves(lines, m, n, names, k) ==
  /\ DOMAIN lines = 1 .. n + k
  /\ \A i \in 1 .. n : lines[i] = TrapText(m.traps[i])
  /\ \A i \in 1 .. k : lines[n + i] = SetText(m, names[i])

LEMMA SavedIs ==
  ASSUME NEW m, IsMemory(m), NEW n \in Nat, DOMAIN m.traps = 1 .. n
  PROVE  \E names, k : /\ k \in Nat /\ Enumerates(names, k, m.modified)
                         /\ Saves(Saved(m), m, n, names, k)
<1>1. IsFiniteSet(m.modified)
  BY NamesAssumption, FS_Subset DEF IsMemory, Tuned
<1>2. PICK names : names = SetToSeq(m.modified)
  OBVIOUS
<1>3. PICK k \in Nat : Enumerates(names, k, m.modified)
  BY <1>1, <1>2, Enumerated
<1>4. PICK a : a = TrapLines(m.traps)
  OBVIOUS
<1>5. PICK b : b = SetLines(m)
  OBVIOUS
<1>6. DOMAIN a = 1 .. n /\ \A i \in 1 .. n : a[i] = TrapText(m.traps[i])
  BY <1>4 DEF TrapLines
<1>7. DOMAIN b = 1 .. k /\ \A i \in 1 .. k : b[i] = SetText(m, names[i])
  BY <1>2, <1>3, <1>5 DEF SetLines, SetText, Enumerates
<1>8. Follows(a \o b, a, n, b, k)
  BY <1>6, <1>7, Joined
<1>9. Saved(m) = a \o b
  BY <1>4, <1>5 DEF Saved
<1>10. Saves(Saved(m), m, n, names, k)
  BY <1>6, <1>7, <1>8, <1>9 DEF Saves, Follows
<1> QED
  BY <1>3, <1>10

\* What is written of a trap, and of a setting, can be read.
LEMMA TrapTextIs ==
  ASSUME NEW t, IsTrap(t)
  PROVE  /\ IsTrapLine(TrapText(t)) /\ TrapText(t).cmd = "TRAP"
         /\ TrapText(t).key = t.key /\ TrapText(t).key # 0
         /\ TrapText(t).verb \in TrapActions /\ TrapText(t).verb # "REMOVE"
         /\ Accepts(TrapText(t)) => LineView(TrapText(t)) = TrapView(t)
         /\ (\A j \in DOMAIN t.filter : t.filter[j].pattern \notin Commas) => Accepts(TrapText(t))
<1>1. PICK line : line = TrapText(t)
  OBVIOUS
<1>2. /\ line.cmd = "TRAP" /\ line.key = t.key /\ line.verb = t.action
      /\ line.text = t.filter /\ line.timeout = t.timeout /\ line.reason = t.reason
  BY <1>1 DEF TrapText
<1>3. IsTrapLine(line) /\ line.key # 0 /\ line.verb \in TrapActions /\ line.verb # "REMOVE"
  BY <1>2, NamesAssumption DEF IsTrap, IsFilter, IsTrapLine
<1>4. Accepts(line) => LineView(line) = TrapView(t)
  <2>1. ASSUME Accepts(line) PROVE FilterOf(line.text) = t.filter
    BY <1>2, <2>1 DEF Accepts, IsTrap, IsFilter
  <2> QED
    BY <1>2, <2>1 DEF LineView, TrapView
<1>5. (\A j \in DOMAIN t.filter : t.filter[j].pattern \notin Commas) => Accepts(line)
  <2>1. PICK f : f = t.filter
    OBVIOUS
  <2>2. IsFilter(f)
    BY <2>1 DEF IsTrap
  <2>3. f # BadFilter
    <3>1. PICK n \in Nat \ {0} : DOMAIN f = 1 .. n
      BY <2>2 DEF IsFilter
    <3> QED
      BY <3>1 DEF BadFilter
  <2> QED
    BY <1>2, <1>3, <2>1, <2>2, <2>3 DEF Accepts, IsFilter
<1> QED
  BY <1>1, <1>2, <1>3, <1>4, <1>5

LEMMA SetTextIs ==
  ASSUME NEW m, IsMemory(m), NEW name \in m.modified
  PROVE  /\ IsSetLine(SetText(m, name)) /\ SetText(m, name).cmd = "SET"
         /\ SetText(m, name).name = name
         /\ SetText(m, name).value = Shown(m.settings[name])
<1>1. name \in DOMAIN Starts
  BY NamesAssumption DEF IsMemory, Tuned
<1>2. DOMAIN Shown(m.settings[name]) = {"word", "servers", "duration"}
  BY DEF Shown
<1> QED
  BY <1>1, <1>2 DEF SetText, IsSetLine

\* What is saved is lines, and keyed.
LEMMA SavedLines ==
  ASSUME NEW m, IsMemory(m)
  PROVE  AreLines(Saved(m)) /\ Keyed(Saved(m)) /\ \A i \in DOMAIN Saved(m) : IsLine(Saved(m)[i])
<1>1. PICK n \in Nat : DOMAIN m.traps = 1 .. n
  BY DEF IsMemory, Fit
<1>2. PICK names, k : /\ k \in Nat /\ Enumerates(names, k, m.modified)
                     /\ Saves(Saved(m), m, n, names, k)
  BY <1>1, SavedIs
<1>3. PICK lines : lines = Saved(m)
  OBVIOUS
<1>4. DOMAIN lines = 1 .. n + k /\ Len(lines) = n + k /\ n + k \in Nat
  BY <1>2, <1>3 DEF Saves
<1>5. \A i \in 1 .. n + k : i \in 1 .. n \/ \E j \in 1 .. k : i = n + j
  <2>1. \A i \in 1 .. n + k : i \in 1 .. n \/ (i - n \in 1 .. k /\ i = n + (i - n))
    BY <1>1, <1>2
  <2> QED
    BY <2>1
<1>6. ASSUME NEW i \in 1 .. n
      PROVE  lines[i] = TrapText(m.traps[i]) /\ IsTrap(m.traps[i])
  BY <1>1, <1>2, <1>3 DEF Saves, IsMemory, Fit
<1>7. ASSUME NEW j \in 1 .. k
      PROVE  IsSetLine(lines[n + j]) /\ lines[n + j].cmd = "SET"
  <2>1. names[j] \in m.modified /\ lines[n + j] = SetText(m, names[j])
    BY <1>2, <1>3 DEF Saves, Enumerates
  <2> QED
    BY <2>1, SetTextIs
<1>8. ASSUME NEW i \in 1 .. n + k
      PROVE  \/ IsTrapLine(lines[i]) /\ lines[i].cmd = "TRAP" /\ i \in 1 .. n
             \/ IsSetLine(lines[i]) /\ lines[i].cmd = "SET"
  BY <1>5, <1>6, <1>7, TrapTextIs
<1>9. AreLines(lines)
  BY <1>4, <1>8 DEF AreLines
<1>10. \A i \in 1 .. n + k : lines[i].cmd = "TRAP" => i \in 1 .. n
  BY <1>8
<1>11. \A i \in 1 .. n + k : lines[i].cmd = "TRAP" => lines[i].key # 0 /\ lines[i].verb # "REMOVE"
  BY <1>6, <1>10, TrapTextIs
<1>12. ASSUME NEW i \in 1 .. n + k, NEW j \in 1 .. n + k, Accepts(lines[i]), Accepts(lines[j]),
              Alike(LineView(lines[i]), LineView(lines[j]))
       PROVE  i = j
  <2>1. i \in 1 .. n /\ j \in 1 .. n
    BY <1>10, <1>12 DEF Accepts
  <2>2. LineView(lines[i]) = TrapView(m.traps[i]) /\ LineView(lines[j]) = TrapView(m.traps[j])
    BY <1>6, <1>12, <2>1, TrapTextIs
  <2>3. Alike(TrapView(m.traps[i]), TrapView(m.traps[j]))
    BY <1>12, <2>2
  <2>4. Alike(m.traps[i], m.traps[j])
    BY <2>3 DEF Alike, TrapView
  <2> QED
    BY <1>1, <2>1, <2>4 DEF IsMemory, Fit
<1>13. Keyed(lines)
  BY <1>4, <1>11, <1>12 DEF Keyed
<1>14. \A i \in DOMAIN lines : IsLine(lines[i])
  BY <1>4, <1>8 DEF IsLine
<1> QED
  BY <1>3, <1>9, <1>13, <1>14

-----------------------------------------------------------------------------
(* What is saved comes back                                                *)

\* The first k traps of a list, as they come out of a file
Copies(new, list, k) ==
  /\ DOMAIN new = 1 .. k
  /\ \A i \in 1 .. k : TrapView(new[i]) = TrapView(list[i]) /\ new[i].loaded = TRUE

\* Each trap is added behind those before it.
LEMMA CopyStep ==
  ASSUME NEW list, Fit(list), NEW n \in Nat, DOMAIN list = 1 .. n, NEW k \in 1 .. n,
         NEW new, Fit(new), Copies(new, list, k - 1),
         NEW line, line = TrapText(list[k]), Accepts(line)
  PROVE  Copies(AddTrap(new, line), list, k)
<1>1. IsTrap(list[k])
  BY DEF Fit
<1>2. /\ IsTrapLine(line) /\ line.key = list[k].key /\ line.key # 0
      /\ LineView(line) = TrapView(list[k])
  BY <1>1, TrapTextIs
<1>3. Makeable(line)
  BY <1>2, LineMakes DEF Accepts
<1>4. FilterOf(line.text) = list[k].filter /\ line.verb = list[k].action
      /\ line.timeout = list[k].timeout /\ line.reason = list[k].reason
  BY <1>2 DEF LineView, TrapView
<1>5. DOMAIN new = 1 .. k - 1 /\ Len(new) = k - 1 /\ k - 1 \in Nat
  BY DEF Copies, Fit
<1>6. \A i \in 1 .. k - 1 : /\ i \in 1 .. n /\ i < k
                            /\ new[i].key = list[i].key /\ new[i].filter = list[i].filter
  <2>1. TAKE i \in 1 .. k - 1
  <2>2. TrapView(new[i]) = TrapView(list[i])
    BY DEF Copies
  <2>3. TrapView(new[i]).key = new[i].key /\ TrapView(new[i]).filter = new[i].filter
    BY DEF TrapView
  <2>4. TrapView(list[i]).key = list[i].key /\ TrapView(list[i]).filter = list[i].filter
    BY DEF TrapView
  <2> QED
    BY <2>2, <2>3, <2>4
<1>7. Same(new, line) = {}
  <2>1. SUFFICES ASSUME NEW i \in Same(new, line) PROVE FALSE
    OBVIOUS
  <2>2. i \in 1 .. k - 1 /\ new[i].filter = list[k].filter /\ new[i].key = list[k].key
    BY <1>2, <1>4, <1>5, <2>1 DEF Same
  <2>3. Alike(list[i], list[k]) /\ i \in 1 .. n /\ i < k
    BY <1>6, <2>2 DEF Alike
  <2> QED
    BY <2>3 DEF Fit
<1>8. KeyFor(new, line) = list[k].key
  BY <1>2 DEF KeyFor
<1>9. PICK c \in 0 .. Len(new) : \E made : AddsBehind(new, line, list[k].key, c, made)
  BY <1>3, <1>7, <1>8, AddCreates
<1>10. PICK made : AddsBehind(new, line, list[k].key, c, made)
  BY <1>9
<1>11. \A i \in 1 .. k - 1 : i <= c
  <2>1. \A i \in 1 .. k - 1 : new[i].key <= list[k].key
    BY <1>6 DEF Fit
  <2> QED
    BY <1>5, <1>10, <2>1 DEF AddsBehind
<1>12. c = k - 1
  <2>1. CASE k = 1
    BY <1>5, <1>9, <2>1
  <2>2. CASE k # 1
    <3>1. k - 1 \in 1 .. k - 1
      BY <2>2
    <3> QED
      BY <1>5, <1>9, <1>11, <3>1
  <2> QED
    BY <2>1, <2>2
<1>13. PICK after : after = AddTrap(new, line)
  OBVIOUS
<1>14. after = InsertAt(new, c + 1, made)
  BY <1>10, <1>13 DEF AddsBehind
<1>15. Inserts(after, new, k - 1, c, made)
  BY <1>5, <1>12, <1>14, Inserted
<1>16. DOMAIN after = 1 .. k /\ after[k] = made /\ \A i \in 1 .. k - 1 : after[i] = new[i]
  BY <1>12, <1>15 DEF Inserts
<1>17. TrapView(made) = TrapView(list[k]) /\ made.loaded = TRUE
  BY <1>4, <1>10 DEF AddsBehind, Creates, TrapView
<1>18. \A i \in 1 .. k : i = k \/ i \in 1 .. k - 1
  OBVIOUS
<1>19. Copies(after, list, k)
  BY <1>16, <1>17, <1>18 DEF Copies
<1> QED
  BY <1>13, <1>19

\* A value as a file keeps it
Worth(v) == <<v.word, IF v.word \in Klines \cup Dlines THEN v.duration ELSE 0>>

LEMMA ViewsEqual ==
  ASSUME NEW m, NEW o, DOMAIN m.traps = DOMAIN o.traps,
         \A i \in DOMAIN m.traps : TrapView(m.traps[i]) = TrapView(o.traps[i]),
         \A n \in Names : Worth(m.settings[n]) = Worth(o.settings[n])
  PROVE  View(m) = View(o)
<1>1. [i \in DOMAIN m.traps |-> TrapView(m.traps[i])] = [i \in DOMAIN o.traps |-> TrapView(o.traps[i])]
  OBVIOUS
<1>2. [n \in Names |-> Worth(m.settings[n])] = [n \in Names |-> Worth(o.settings[n])]
  OBVIOUS
<1>3. View(m) = <<[i \in DOMAIN m.traps |-> TrapView(m.traps[i])],
                  [n \in Names |-> Worth(m.settings[n])]>>
  BY DEF View, Worth
<1>4. View(o) = <<[i \in DOMAIN o.traps |-> TrapView(o.traps[i])],
                  [n \in Names |-> Worth(o.settings[n])]>>
  BY DEF View, Worth
<1> QED
  BY <1>1, <1>2, <1>3, <1>4

\* The settings named first among names are worth what they are in m, the others what
\* they are when the bot starts.
Recovers(s, m, names, j) ==
  \A n \in Names : Worth(s[n]) = IF \E i \in 1 .. j : names[i] = n THEN Worth(m.settings[n])
                                                                  ELSE Worth(Defaults[n])

LEMMA RecoverStep ==
  ASSUME NEW m, IsMemory(m), NEW k \in Nat, NEW names, Enumerates(names, k, m.modified),
         NEW j \in 1 .. k, NEW mem, IsMemory(mem), Recovers(mem.settings, m, names, j - 1)
  PROVE  Recovers(ReadLine(mem, SetText(m, names[j])).settings, m, names, j)
<1>1. PICK name : name = names[j]
  OBVIOUS
<1>2. name \in m.modified /\ name \in Names
  BY <1>1 DEF Enumerates, IsMemory, Tuned
<1>3. PICK line : line = SetText(m, name)
  OBVIOUS
<1>4. /\ IsSetLine(line) /\ line.cmd = "SET" /\ line.name = name
      /\ line.value = Shown(m.settings[name])
  BY <1>2, <1>3, SetTextIs
<1>5. Meant(name) = {name}
  BY <1>2, NamesAssumption DEF Meant
<1>6. Cardinality(Meant(name)) = 1
  BY <1>5, FS_Singleton
<1>7. Only(name) = name
  BY <1>5 DEF Only
<1>8. PICK new : new = SetLine(mem, line).memory
  OBVIOUS
<1>9. Gives(mem, name, line.value, new)
  BY <1>4, <1>6, <1>7, <1>8, SetLineIs
<1>10. PICK v : v = m.settings[name]
  OBVIOUS
<1>11. v.word \in Valid[name]
  BY <1>2, <1>10 DEF IsMemory, Tuned
<1>12. PICK shown : shown = Shown(v)
  OBVIOUS
<1>13. shown.word = v.word
       /\ shown.duration = IF v.word \in Klines \cup Dlines THEN v.duration ELSE 0
  BY <1>12 DEF Shown
<1>14. PICK given : given = Assigned(name, mem.settings[name], shown)
  OBVIOUS
<1>15. given.word = v.word /\ given.duration = shown.duration
  BY <1>11, <1>13, <1>14 DEF Assigned, Accepted
<1>16. Worth(given) = Worth(v)
  BY <1>13, <1>15 DEF Worth
<1>17. new.settings = [mem.settings EXCEPT ![name] = given]
  BY <1>4, <1>9, <1>10, <1>12, <1>14 DEF Gives
<1>18. DOMAIN mem.settings = Names
  BY DEF IsMemory, Tuned
<1>19. new.settings[name] = given /\ \A n \in Names \ {name} : new.settings[n] = mem.settings[n]
  BY <1>2, <1>17, <1>18
<1>20. \A i \in 1 .. j : i = j \/ i \in 1 .. j - 1
  OBVIOUS
<1>21. j \in 1 .. j /\ \A i \in 1 .. j - 1 : i \in 1 .. j
  OBVIOUS
<1>22. ASSUME NEW n \in Names
       PROVE  Worth(new.settings[n]) = IF \E i \in 1 .. j : names[i] = n
                                       THEN Worth(m.settings[n]) ELSE Worth(Defaults[n])
  <2>1. CASE n = name
    BY <1>1, <1>10, <1>16, <1>19, <1>21, <2>1
  <2>2. CASE n # name
    <3>1. (\E i \in 1 .. j : names[i] = n) <=> \E i \in 1 .. j - 1 : names[i] = n
      BY <1>1, <1>20, <1>21, <2>2
    <3>2. new.settings[n] = mem.settings[n]
      BY <1>19, <2>2
    <3> QED
      BY <3>1, <3>2 DEF Recovers
  <2> QED
    BY <2>1, <2>2
<1>23. Recovers(new.settings, m, names, j)
  BY <1>22 DEF Recovers
<1>24. ReadLine(mem, line) = new
  BY <1>4, <1>8 DEF ReadLine
<1> QED
  BY <1>1, <1>3, <1>23, <1>24

\* A load of what was saved, into the memory of a bot that starts
Reading(m, lines, n, names, k, after) ==
  /\ n \in Nat /\ DOMAIN m.traps = 1 .. n
  /\ k \in Nat /\ Enumerates(names, k, m.modified)
  /\ Saves(lines, m, n, names, k)
  /\ Reads(after, n + k, Before(Fresh), lines)
  /\ \A i \in 0 .. n + k : IsMemory(after[i])

LEMMA CopiesAll ==
  ASSUME NEW m, IsMemory(m), Reloadable(m.traps), NEW lines, NEW n, NEW names, NEW k, NEW after,
         Reading(m, lines, n, names, k, after)
  PROVE  Copies(after[n].traps, m.traps, n) /\ after[n].settings = Defaults
<1> DEFINE Done(j) == Copies(after[j].traps, m.traps, j) /\ after[j].settings = Defaults
           Good == {j \in Nat : j <= n => Done(j)}
<1>1. n \in Nat /\ k \in Nat /\ DOMAIN m.traps = 1 .. n /\ n + k \in Nat
  BY DEF Reading
<1>2. Done(0)
  <2>1. Fresh.traps = <<>> /\ Fresh.settings = Defaults
    BY DEF Fresh
  <2>2. after[0] = Before(Fresh)
    BY DEF Reading, Reads
  <2>3. after[0].traps = PreLoad(<<>>) /\ after[0].settings = Defaults
    BY <2>1, <2>2, FreshMemory, BeforeMemory
  <2>4. DOMAIN PreLoad(<<>>) = 1 .. 0
    BY DEF PreLoad
  <2> QED
    BY <2>3, <2>4 DEF Copies
<1>3. ASSUME NEW j \in 1 .. n, Done(j - 1) PROVE Done(j)
  <2>1. j - 1 \in 0 .. n + k /\ j \in 1 .. n + k
    BY <1>1
  <2>2. IsMemory(after[j - 1]) /\ after[j] = ReadLine(after[j - 1], lines[j])
    BY <2>1 DEF Reading, Reads
  <2>3. PICK mem : mem = after[j - 1]
    OBVIOUS
  <2>4. PICK line : line = lines[j]
    OBVIOUS
  <2>5. line = TrapText(m.traps[j])
    BY <2>4 DEF Reading, Saves
  <2>6. IsTrap(m.traps[j]) /\ \A i \in DOMAIN m.traps[j].filter : m.traps[j].filter[i].pattern \notin Commas
    BY <1>1 DEF IsMemory, Fit, Reloadable
  <2>7. IsTrapLine(line) /\ line.cmd = "TRAP" /\ line.verb # "REMOVE" /\ Accepts(line)
    BY <2>5, <2>6, TrapTextIs
  <2>8. Fit(mem.traps) /\ Fit(m.traps) /\ IsMemory(mem)
    BY <2>2, <2>3 DEF IsMemory
  <2>9. Copies(mem.traps, m.traps, j - 1) /\ mem.settings = Defaults
    BY <1>3, <2>3
  <2>10. Copies(AddTrap(mem.traps, line), m.traps, j)
    BY <1>1, <2>5, <2>7, <2>8, <2>9, CopyStep
  <2>11. TrapLine(mem.traps, line).list = AddTrap(mem.traps, line)
    BY <2>7 DEF TrapLine, Accepts
  <2>12. /\ ReadLine(mem, line).traps = TrapLine(mem.traps, line).list
         /\ ReadLine(mem, line).settings = mem.settings
    BY <2>7, <2>8, ReadLineKeeps DEF IsLine
  <2> QED
    BY <2>2, <2>3, <2>4, <2>9, <2>10, <2>11, <2>12
<1>4. 0 \in Good
  BY <1>2
<1>5. ASSUME NEW j \in Nat, j \in Good PROVE j + 1 \in Good
  <2>1. CASE j + 1 <= n
    <3>1. PICK i : i = j + 1
      OBVIOUS
    <3>2. i \in 1 .. n /\ i - 1 = j
      BY <1>1, <2>1, <3>1
    <3>3. Done(i - 1)
      BY <1>1, <1>5, <2>1, <3>2
    <3>4. Done(i)
      <4> HIDE DEF Done
      <4> QED
        BY <1>3, <3>2, <3>3
    <3> QED
      BY <3>1, <3>4
  <2>2. CASE ~(j + 1 <= n)
    BY <2>2
  <2> QED
    BY <2>1, <2>2
<1>6. Nat \subseteq Good
  <2> HIDE DEF Good
  <2> QED
    BY <1>4, <1>5, Induct
<1> QED
  BY <1>1, <1>6

LEMMA RecoversAll ==
  ASSUME NEW m, IsMemory(m), NEW lines, NEW n, NEW names, NEW k, NEW after,
         Reading(m, lines, n, names, k, after), after[n].settings = Defaults
  PROVE  after[n + k].traps = after[n].traps /\ Recovers(after[n + k].settings, m, names, k)
<1> DEFINE Done(j) == /\ after[n + j].traps = after[n].traps
                      /\ Recovers(after[n + j].settings, m, names, j)
           Good == {j \in Nat : j <= k => Done(j)}
<1>1. n \in Nat /\ k \in Nat /\ n + k \in Nat /\ n + 0 = n
  BY DEF Reading
<1>2. Done(0)
  BY <1>1 DEF Recovers
<1>3. ASSUME NEW j \in 1 .. k, Done(j - 1) PROVE Done(j)
  <2>1. PICK i : i = n + j
    OBVIOUS
  <2>2. i \in 1 .. n + k /\ i - 1 \in 0 .. n + k /\ i - 1 = n + (j - 1)
    BY <1>1, <2>1
  <2>3. IsMemory(after[i - 1]) /\ after[i] = ReadLine(after[i - 1], lines[i])
    BY <2>2 DEF Reading, Reads
  <2>4. PICK mem : mem = after[i - 1]
    OBVIOUS
  <2>5. PICK line : line = lines[i]
    OBVIOUS
  <2>6. line = SetText(m, names[j]) /\ names[j] \in m.modified
    BY <2>1, <2>5 DEF Reading, Saves, Enumerates
  <2>7. IsSetLine(line) /\ line.cmd = "SET"
    BY <2>6, SetTextIs
  <2>8. mem.traps = after[n].traps /\ Recovers(mem.settings, m, names, j - 1) /\ IsMemory(mem)
    BY <1>3, <2>2, <2>3, <2>4
  <2>9. Enumerates(names, k, m.modified)
    BY DEF Reading
  <2>10. Recovers(ReadLine(mem, line).settings, m, names, j)
    BY <1>1, <2>6, <2>8, <2>9, RecoverStep
  <2>11. ReadLine(mem, line).traps = mem.traps
    BY <2>7, <2>8, ReadLineKeeps DEF IsLine
  <2> QED
    BY <2>1, <2>3, <2>4, <2>5, <2>8, <2>10, <2>11
<1>4. 0 \in Good
  BY <1>2
<1>5. ASSUME NEW j \in Nat, j \in Good PROVE j + 1 \in Good
  <2>1. CASE j + 1 <= k
    <3>1. PICK i : i = j + 1
      OBVIOUS
    <3>2. i \in 1 .. k /\ i - 1 = j
      BY <1>1, <2>1, <3>1
    <3>3. Done(i - 1)
      BY <1>1, <1>5, <2>1, <3>2
    <3>4. Done(i)
      <4> HIDE DEF Done
      <4> QED
        BY <1>3, <3>2, <3>3
    <3> QED
      BY <3>1, <3>4
  <2>2. CASE ~(j + 1 <= k)
    BY <2>2
  <2> QED
    BY <2>1, <2>2
<1>6. Nat \subseteq Good
  <2> HIDE DEF Good
  <2> QED
    BY <1>4, <1>5, Induct
<1> QED
  BY <1>1, <1>6

\* A file that was written of a memory whose filters can be read again is read back to
\* a memory that looks the same.
LEMMA RoundTrip ==
  ASSUME NEW m, IsMemory(m), Reloadable(m.traps)
  PROVE  View(Loaded(Fresh, Saved(m))) = View(m)
<1>1. PICK n \in Nat : DOMAIN m.traps = 1 .. n
  BY DEF IsMemory, Fit
<1>2. PICK names, k : /\ k \in Nat /\ Enumerates(names, k, m.modified)
                      /\ Saves(Saved(m), m, n, names, k)
  BY <1>1, SavedIs
<1>3. PICK lines : lines = Saved(m)
  OBVIOUS
<1>4. DOMAIN lines = 1 .. n + k /\ n + k \in Nat /\ AreLines(lines) /\ \A i \in 1 .. n + k : IsLine(lines[i])
  BY <1>2, <1>3, SavedLines DEF Saves
<1>5. \A i \in 1 .. n + k : lines[i].cmd \in {"TRAP", "SET"}
  BY <1>4 DEF IsLine, IsTrapLine, IsSetLine
<1>6. lines # NoFile
  <2>1. SUFFICES ASSUME lines = NoFile PROVE FALSE
    OBVIOUS
  <2>2. DOMAIN NoFile = 1 .. 1 /\ NoFile[1].cmd = "absent"
    BY DEF NoFile
  <2>3. 1 \in DOMAIN lines
    BY <2>1, <2>2
  <2> QED
    BY <1>4, <1>5, <2>1, <2>2, <2>3
<1>7. Readable(lines) = lines
  <2>1. PICK odd : odd = {i \in DOMAIN lines : lines[i].cmd \notin {"TRAP", "SET"}}
    OBVIOUS
  <2>2. odd = {}
    BY <1>4, <1>5, <2>1
  <2> QED
    BY <2>1, <2>2 DEF Readable
<1> PICK r, after : LoadsSo(Fresh, lines, r, after)
  BY <1>4, <1>6, LoadedIs
<1>8. /\ r \in 0 .. Len(lines) /\ DOMAIN Readable(lines) = 1 .. r
      /\ Reads(after, r, Before(Fresh), Readable(lines))
      /\ Loaded(Fresh, lines) = After(after[r])
  BY DEF LoadsSo
<1>9. r = n + k
  BY <1>4, <1>7, <1>8 DEF AreLines
<1>10. Reads(after, n + k, Before(Fresh), lines) /\ Loaded(Fresh, lines) = After(after[n + k])
  BY <1>7, <1>8, <1>9
<1>11. \A i \in 0 .. n + k : IsMemory(after[i])
  <2>1. IsMemory(Before(Fresh))
    BY FreshMemory, BeforeMemory
  <2> QED
    BY <1>4, <1>10, <2>1, ReadsKeep
<1>12. Reading(m, lines, n, names, k, after)
  BY <1>1, <1>2, <1>3, <1>10, <1>11 DEF Reading
<1>13. Copies(after[n].traps, m.traps, n) /\ after[n].settings = Defaults
  BY <1>12, CopiesAll
<1>14. after[n + k].traps = after[n].traps /\ Recovers(after[n + k].settings, m, names, k)
  BY <1>12, <1>13, RecoversAll
<1>15. PICK read : read = after[n + k]
  OBVIOUS
<1>16. IsMemory(read) /\ Copies(read.traps, m.traps, n) /\ Recovers(read.settings, m, names, k)
  BY <1>4, <1>11, <1>13, <1>14, <1>15
<1>17. PICK new : new = After(read)
  OBVIOUS
<1>18. new.traps = PostLoad(read.traps) /\ new.settings = read.settings
  BY <1>16, <1>17, AfterMemory
<1>19. DOMAIN new.traps = 1 .. n /\ \A i \in 1 .. n : new.traps[i] = read.traps[i]
  <2>1. PICK list : list = read.traps
    OBVIOUS
  <2>2. DOMAIN list = 1 .. n /\ \A i \in 1 .. n : list[i].loaded = TRUE
    BY <1>16, <2>1 DEF Copies
  <2>3. {i \in DOMAIN list : list[i].loaded} = 1 .. n
    BY <2>2
  <2>4. PostLoad(list) = Picked(list, 1 .. n)
    BY <2>3 DEF PostLoad
  <2> QED
    BY <1>18, <2>1, <2>2, <2>4, PickedAll
<1>20. \A i \in 1 .. n : TrapView(new.traps[i]) = TrapView(m.traps[i])
  BY <1>16, <1>19 DEF Copies
<1>21. ASSUME NEW name \in Names
       PROVE  Worth(new.settings[name]) = Worth(m.settings[name])
  <2>1. CASE name \in m.modified
    <3>1. \E i \in 1 .. k : names[i] = name
      BY <1>2, <2>1 DEF Enumerates
    <3> QED
      BY <1>16, <1>18, <3>1 DEF Recovers
  <2>2. CASE name \notin m.modified
    <3>1. ~\E i \in 1 .. k : names[i] = name
      BY <1>2, <2>2 DEF Enumerates
    <3>2. Worth(new.settings[name]) = Worth(Defaults[name])
      BY <1>16, <1>18, <3>1 DEF Recovers
    <3>3. m.settings[name].word = Defaults[name].word
          /\ m.settings[name].duration = Defaults[name].duration
      BY <2>2 DEF IsMemory, Tuned
    <3>4. Worth(m.settings[name]) = Worth(Defaults[name])
      BY <3>3 DEF Worth
    <3> QED
      BY <3>2, <3>4
  <2> QED
    BY <2>1, <2>2
<1>22. View(new) = View(m)
  BY <1>1, <1>19, <1>20, <1>21, ViewsEqual
<1> QED
  BY <1>3, <1>10, <1>15, <1>17, <1>22

-----------------------------------------------------------------------------
(* What the bot keeps, step by step                                        *)

\* Memory is memory and the file is lines; if the file the bot found is keyed, so is
\* whatever is in its place.
Keeping == /\ IsMemory(Memory) /\ AreLines(file)
           /\ Keyed(world.file) => Keyed(file)

LEMMA BecomesMemory ==
  ASSUME NEW m, IsMemory(m), Becomes(m)
  PROVE  IsMemory(Memory') /\ View(Memory') = View(m)
<1>1. PICK new : new = Memory'
  OBVIOUS
<1>2. new = [traps |-> traps', settings |-> settings', modified |-> modified']
  BY <1>1 DEF Memory
<1>3. new.traps = m.traps /\ new.settings = m.settings /\ new.modified = m.modified
      /\ DOMAIN new = {"traps", "settings", "modified"}
  BY <1>2 DEF Becomes
<1>4. IsMemory(new)
  BY <1>3 DEF IsMemory
<1>5. View(new) = View(m)
  BY <1>3, ViewsEqual
<1> QED
  BY <1>1, <1>4, <1>5

\* The file stays, or memory is saved.
LEMMA StillKept ==
  ASSUME Keeping, UNCHANGED world, IsMemory(Memory'), NEW m, IsMemory(m),
         file' = file \/ file' = Saved(m)
  PROVE  Keeping'
<1>1. AreLines(file') /\ (Keyed(world.file) => Keyed(file'))
  BY SavedLines DEF Keeping
<1> QED
  BY <1>1 DEF Keeping

LEMMA TrapKept ==
  ASSUME Keeping, UNCHANGED world, NEW line, IsTrapLine(line), NEW writable,
         CmdTrap(line, writable)
  PROVE  Keeping' /\ SurvivesRestart(writable)
<1>1. PICK result : result = TrapLine(traps, line)
  OBVIOUS
<1>2. PICK m : m = [Memory EXCEPT !.traps = result.list]
  OBVIOUS
<1>3. /\ Becomes(m)
      /\ file' = Written(m, result.done /\ AutoSave(settings), writable)
  BY <1>1, <1>2 DEF CmdTrap
<1>4. /\ m.traps = result.list /\ m.settings = settings /\ m.modified = modified
      /\ DOMAIN m = {"traps", "settings", "modified"}
  BY <1>2 DEF Memory
<1>5. Fit(traps) /\ Tuned(settings, modified)
  BY DEF Keeping, IsMemory, Memory
<1>6. Fit(result.list)
  BY <1>1, <1>5, FitLine
<1>7. IsMemory(m)
  BY <1>4, <1>5, <1>6 DEF IsMemory
<1>8. IsMemory(Memory') /\ View(Memory') = View(m)
  BY <1>3, <1>7, BecomesMemory
<1>9. file' = file \/ file' = Saved(m)
  BY <1>3 DEF Written
<1>10. Keeping'
  BY <1>7, <1>8, <1>9, StillKept
<1>11. ASSUME View(Memory') # View(Memory), AutoSave(settings'), writable, Reloadable(traps')
       PROVE  View(Memory') = View(Loaded(Fresh, file'))
  <2>1. result.done = TRUE
    <3>1. SUFFICES ASSUME result.done # TRUE PROVE FALSE
      OBVIOUS
    <3>2. result.list = traps
      BY <1>1, <3>1 DEF TrapLine
    <3>3. Memory.traps = traps /\ Memory.settings = settings
      BY DEF Memory
    <3>4. View(m) = View(Memory)
      BY <1>4, <3>2, <3>3, ViewsEqual
    <3> QED
      BY <1>8, <1>11, <3>4
  <2>2. traps' = m.traps /\ settings' = settings
    BY <1>3, <1>4 DEF Becomes
  <2>3. file' = Saved(m)
    BY <1>3, <1>11, <2>1, <2>2 DEF Written
  <2> QED
    BY <1>7, <1>8, <1>11, <2>2, <2>3, RoundTrip
<1> QED
  BY <1>10, <1>11 DEF SurvivesRestart

LEMMA SetKept ==
  ASSUME Keeping, UNCHANGED world, NEW line, IsSetLine(line), NEW writable,
         CmdSet(line, writable)
  PROVE  Keeping' /\ SurvivesRestart(writable)
<1>1. PICK old : old = Memory
  OBVIOUS
<1>2. IsMemory(old) /\ old.traps = traps /\ old.settings = settings
  BY <1>1 DEF Keeping, Memory
<1>3. PICK result : result = SetLine(old, line)
  OBVIOUS
<1>4. PICK m : m = result.memory
  OBVIOUS
<1>5. /\ Becomes(m)
      /\ file' = Written(m, result.done /\ AutoSave(m.settings), writable)
  BY <1>1, <1>3, <1>4 DEF CmdSet
<1>6. /\ IsMemory(m) /\ m.traps = old.traps
      /\ \/ Cardinality(Meant(line.name)) # 1 /\ m = old /\ result.done = FALSE
         \/ /\ Gives(old, Only(line.name), line.value, m)
            /\ result.done = Accepted(Only(line.name), line.value)
  BY <1>2, <1>3, <1>4, SetLineIs
<1>7. IsMemory(Memory') /\ View(Memory') = View(m)
  BY <1>5, <1>6, BecomesMemory
<1>8. file' = file \/ file' = Saved(m)
  BY <1>5 DEF Written
<1>9. Keeping'
  BY <1>6, <1>7, <1>8, StillKept
<1>11. ASSUME ~result.done PROVE View(m) = View(old)
  <2>1. CASE m = old
    BY <2>1
  <2>2. ASSUME NEW name, name = Only(line.name), Gives(old, name, line.value, m),
               ~Accepted(name, line.value)
        PROVE  View(m) = View(old)
    <3>1. PICK given : given = Assigned(name, old.settings[name], line.value)
      OBVIOUS
    <3>2. name \in Names /\ m.settings = [old.settings EXCEPT ![name] = given]
      BY <2>2, <3>1 DEF Gives
    <3>3. DOMAIN old.settings = Names /\ DOMAIN old.settings[name] = {"word", "servers", "duration"}
      BY <1>2, <3>2 DEF IsMemory, Tuned
    <3>4. PICK v : v = old.settings[name]
      OBVIOUS
    <3>5. given.word = v.word /\ given.duration = v.duration
      BY <2>2, <3>1, <3>3, <3>4 DEF Assigned
    <3>6. Worth(given) = Worth(v)
      BY <3>5 DEF Worth
    <3>7. \A n \in Names : Worth(m.settings[n]) = Worth(old.settings[n])
      BY <3>2, <3>3, <3>4, <3>6
    <3> QED
      BY <1>6, <3>7, ViewsEqual
  <2> QED
    BY <1>6, <1>11, <2>1, <2>2
<1>12. ASSUME View(Memory') # View(Memory), AutoSave(settings'), writable, Reloadable(traps')
       PROVE  View(Memory') = View(Loaded(Fresh, file'))
  <2>1. result.done
    BY <1>1, <1>7, <1>11, <1>12
  <2>2. traps' = m.traps /\ settings' = m.settings
    BY <1>5 DEF Becomes
  <2>3. file' = Saved(m)
    BY <1>5, <1>12, <2>1, <2>2 DEF Written
  <2> QED
    BY <1>6, <1>7, <1>12, <2>2, <2>3, RoundTrip
<1> QED
  BY <1>9, <1>12 DEF SurvivesRestart

\* A load, or reload, makes of memory just what the file makes of it.
LEMMA LoadKept ==
  ASSUME Keeping, UNCHANGED world, CmdLoad
  PROVE  Keeping' /\ Memory' = Loaded(Memory, file)
<1>1. PICK old : old = Memory
  OBVIOUS
<1>2. IsMemory(old) /\ AreLines(file)
  BY <1>1 DEF Keeping
<1>3. PICK m : m = Loaded(old, file)
  OBVIOUS
<1>4. IsMemory(m) /\ Becomes(m) /\ file' = file
  BY <1>1, <1>2, <1>3, LoadedMemory DEF CmdLoad
<1>5. IsMemory(Memory')
  BY <1>4, BecomesMemory
<1>6. Keeping'
  BY <1>4, <1>5, StillKept
<1>7. Memory' = [traps |-> m.traps, settings |-> m.settings, modified |-> m.modified]
  BY <1>4 DEF Memory, Becomes
<1>8. m = [traps |-> m.traps, settings |-> m.settings, modified |-> m.modified]
  <2>1. CASE file = NoFile
    <3>1. m = old
      BY <1>3, <2>1 DEF Loaded
    <3> QED
      BY <1>1, <3>1 DEF Memory
  <2>2. CASE file # NoFile
    <3>1. PICK n, after : LoadsSo(old, file, n, after)
      BY <1>2, <2>2, LoadedIs
    <3>2. PICK read : read = after[n]
      OBVIOUS
    <3>3. m = After(read)
      BY <1>3, <3>1, <3>2 DEF LoadsSo
    <3>4. m = [read EXCEPT !.traps = PostLoad(read.traps)]
      BY <3>3 DEF After
    <3>5. DOMAIN m = {"traps", "settings", "modified"}
      BY <1>4 DEF IsMemory
    <3>6. PICK list : list = PostLoad(read.traps)
      OBVIOUS
    <3>7. m = [read EXCEPT !.traps = list]
      BY <3>4, <3>6
    <3> QED
      BY <3>5, <3>7
  <2> QED
    BY <2>1, <2>2
<1> QED
  BY <1>1, <1>3, <1>6, <1>7, <1>8

LEMMA StartKept ==
  ASSUME Keeping, UNCHANGED world, Restart, NEW writable
  PROVE  Keeping' /\ SurvivesRestart(writable)
<1>1. PICK fresh : fresh = Fresh
  OBVIOUS
<1>2. PICK m : m = Loaded(fresh, file)
  OBVIOUS
<1>3. IsMemory(m)
  BY <1>1, <1>2, FreshMemory, LoadedMemory DEF Keeping
<1>4. Becomes(m) /\ file' = file
  BY <1>1, <1>2 DEF Restart
<1>5. IsMemory(Memory') /\ View(Memory') = View(m)
  BY <1>3, <1>4, BecomesMemory
<1>6. Keeping'
  BY <1>3, <1>4, <1>5, StillKept
<1>7. View(Memory') = View(Loaded(Fresh, file'))
  BY <1>1, <1>2, <1>4, <1>5
<1> QED
  BY <1>6, <1>7 DEF SurvivesRestart

\* A trap that acts looks as before.
LEMMA NoticeKept ==
  ASSUME Keeping, UNCHANGED world, NEW client, Noticed(client)
  PROVE  Keeping' /\ View(Memory') = View(Memory)
<1>1. Fit(traps) /\ Tuned(settings, modified)
  BY DEF Keeping, IsMemory, Memory
<1>2. PICK list : list = Matched(traps, client)
  OBVIOUS
<1>3. /\ Fit(list) /\ DOMAIN list = DOMAIN traps
      /\ \A i \in DOMAIN traps : TrapView(list[i]) = TrapView(traps[i])
  BY <1>1, <1>2, FitMatched
<1>4. traps' = list /\ settings' = settings /\ modified' = modified /\ file' = file
  BY <1>2 DEF Noticed
<1>5. PICK m : m = [traps |-> list, settings |-> settings, modified |-> modified]
  OBVIOUS
<1>6. IsMemory(m)
  BY <1>1, <1>3, <1>5 DEF IsMemory
<1>7. Becomes(m)
  BY <1>4, <1>5 DEF Becomes
<1>8. IsMemory(Memory') /\ View(Memory') = View(m)
  BY <1>6, <1>7, BecomesMemory
<1>9. Keeping'
  BY <1>4, <1>6, <1>8, StillKept
<1>10. View(m) = View(Memory)
  BY <1>3, <1>5, ViewsEqual DEF Memory
<1> QED
  BY <1>8, <1>9, <1>10

\* Memory stays.
LEMMA MemoryStays ==
  ASSUME Keeping, UNCHANGED <<world, traps, settings, modified>>,
         file' = file \/ file' = Saved(Memory)
  PROVE  Keeping' /\ View(Memory') = View(Memory)
<1>1. Memory' = Memory
  BY DEF Memory
<1> QED
  BY <1>1, StillKept DEF Keeping

LEMMA KeepingStep ==
  ASSUME Keeping, WorldFixed, [Next]_vars
  PROVE  Keeping' /\ (SurvivesRestart(world.writable) \/ UNCHANGED vars)
<1>1. /\ \A line \in world.trapLines : IsTrapLine(line)
      /\ \A line \in world.setLines : IsSetLine(line)
  BY TextsAssumption DEF WorldFixed
<1> DEFINE Goal == Keeping' /\ SurvivesRestart(world.writable)
<1>2. ASSUME Keeping', View(Memory') = View(Memory) PROVE Goal
  BY <1>2 DEF SurvivesRestart
<1>3. ASSUME UNCHANGED <<world, kept>>
      PROVE  Keeping' /\ View(Memory') = View(Memory)
  BY <1>3, MemoryStays DEF kept
<1>4. ASSUME CmdLoad, UNCHANGED world PROVE Goal
  <2>1. Keeping' /\ Memory' = Loaded(Memory, file)
    BY <1>4, LoadKept
  <2> QED
    BY <2>1 DEF SurvivesRestart
<1>5. ASSUME NEW new, Reload(new), UNCHANGED world PROVE Goal
  <2>1. CASE CmdLoad
    BY <1>4, <1>5, <2>1
  <2>2. CASE UNCHANGED kept
    BY <1>2, <1>3, <1>5, <2>2
  <2> QED
    BY <1>5, <2>1, <2>2 DEF Reload
<1>6. ASSUME NEW s, NEW line \in world.trapLines, Trap(s, line) PROVE Goal
  BY <1>1, <1>6, TrapKept DEF Trap, Issues
<1>7. ASSUME NEW s, NEW line \in world.setLines, Set(s, line) PROVE Goal
  BY <1>1, <1>7, SetKept DEF Set, Issues
<1>8. ASSUME NEW s, Save(s) PROVE Goal
  <2>1. UNCHANGED <<world, traps, settings, modified>> /\ file' = Written(Memory, TRUE, world.writable)
    BY <1>8 DEF Save, Issues, CmdSave
  <2>2. file' = file \/ file' = Saved(Memory)
    BY <2>1 DEF Written
  <2> QED
    BY <1>2, <2>1, <2>2, MemoryStays
<1>9. ASSUME NEW s, Load(s) PROVE Goal
  BY <1>4, <1>9 DEF Load, Issues
<1>10. ASSUME NEW s, CmdReload(s) PROVE Goal
  BY <1>5, <1>10 DEF CmdReload, Issues
<1>11. ASSUME NEW s, CmdDie(s) PROVE Goal
  BY <1>2, <1>3, <1>11 DEF CmdDie, Issues
<1>12. ASSUME Hangup PROVE Goal
  BY <1>5, <1>12 DEF Hangup
<1>13. ASSUME Crash PROVE Goal
  BY <1>2, <1>3, <1>13 DEF Crash
<1>14. ASSUME Start PROVE Goal
  BY <1>14, StartKept DEF Start
<1>15. ASSUME NEW client, Trapped(client) PROVE Goal
  BY <1>2, <1>15, NoticeKept DEF Trapped
<1>16. ASSUME NEW s,
              \/ (\E client \in world.clients : Listen(s, client)) \/ Accept(s) \/ End(s)
              \/ \E handle \in Handles, password \in world.passwords : CmdAuth(s, handle, password)
              \/ \E line \in world.watchLines : CmdWatch(s, line)
              \/ \E on \in world.echoes : CmdEcho(s, on)
       PROVE  Goal
  <2>0. \A command : Issues(s, command) => world' = world
    BY DEF Issues
  <2>1. ASSUME NEW client, Listen(s, client) PROVE UNCHANGED <<world, kept>>
    BY <2>1 DEF Listen
  <2>2. ASSUME Accept(s) \/ End(s) PROVE UNCHANGED <<world, kept>>
    BY <2>2 DEF Accept, End
  <2>3. ASSUME NEW handle, NEW password, CmdAuth(s, handle, password)
        PROVE  UNCHANGED <<world, kept>>
    BY <2>0, <2>3 DEF CmdAuth
  <2>4. ASSUME NEW line, CmdWatch(s, line) PROVE UNCHANGED <<world, kept>>
    BY <2>0, <2>4 DEF CmdWatch
  <2>5. ASSUME NEW on, CmdEcho(s, on) PROVE UNCHANGED <<world, kept>>
    BY <2>0, <2>5 DEF CmdEcho
  <2> HIDE DEF Goal
  <2> QED
    BY <1>2, <1>3, <1>16, <2>1, <2>2, <2>3, <2>4, <2>5
<1>17. CASE UNCHANGED vars
  BY <1>3, <1>17 DEF vars
<1>18. CASE Next
  <2>1. Goal
    <3> HIDE DEF Goal
    <3> QED
      BY <1>6, <1>7, <1>8, <1>9, <1>10, <1>11, <1>12, <1>13, <1>14, <1>15, <1>16, <1>18 DEF Next
  <2> QED
    BY <2>1
<1> QED
  BY <1>17, <1>18

LEMMA KeepingInit == Init => Keeping
<1> SUFFICES ASSUME Init PROVE Keeping
  OBVIOUS
<1>1. AreLines(file) /\ file = world.file
  BY TextsAssumption DEF Init, InitSettings
<1>2. PICK fresh : fresh = Fresh
  OBVIOUS
<1>3. PICK m : m = Loaded(fresh, file)
  OBVIOUS
<1>4. IsMemory(m)
  BY <1>1, <1>2, <1>3, FreshMemory, LoadedMemory
<1>5. traps = m.traps /\ settings = m.settings /\ modified = m.modified
  BY <1>1, <1>2, <1>3 DEF Init, InitSettings
<1>6. IsMemory(Memory)
  BY <1>4, <1>5 DEF IsMemory, Memory
<1> QED
  BY <1>1, <1>6 DEF Keeping

\* For any fields, patterns, settings, traps and lines: the traps in memory are in the
\* order of their keys, no two of one key and filter, each filter reads back as itself
\* or not at all, and a setting that was not set is worth what it was when the bot
\* started; and a file the bot has written gives each trap its key.
THEOREM KeptInOrder == Spec => []Keeping
<1>1. Init => WorldFixed
  BY DEF Init, WorldFixed
<1>2. Keeping /\ WorldFixed /\ [Next]_vars => Keeping' /\ WorldFixed'
  BY KeepingStep, WorldStep
<1> QED
  BY <1>1, <1>2, KeepingInit, PTL DEF Spec

\* If the file that the bot found at first names each trap once, with its key, as the
\* files it writes do: whatever is in memory, a load makes the traps those of the file,
\* and none that was there just so loses its counts.
THEOREM LoadsAgree == Spec => [](Keyed(world.file) => LoadAgrees)
<1>1. Keeping => (Keyed(world.file) => LoadAgrees)
  BY Agrees DEF Keeping
<1> QED
  BY <1>1, KeptInOrder, PTL

\* With AUTO_SAVE on and a disk that serves, no command that changes a trap or a
\* setting leaves a file that a restart would read otherwise, whatever else is typed,
\* however the bot ends and whatever was in the file before.
THEOREM ChangesKept == Spec => ChangesSurviveRestart
<1>1. Init => WorldFixed
  BY DEF Init, WorldFixed
<1>2. WorldFixed /\ [Next]_vars => WorldFixed'
  BY WorldStep
<1>3. Keeping /\ WorldFixed /\ [Next]_vars => [SurvivesRestart(world.writable)]_vars
  BY KeepingStep
<1> QED
  BY <1>1, <1>2, <1>3, KeptInOrder, PTL DEF Spec, ChangesSurviveRestart
=============================================================================
