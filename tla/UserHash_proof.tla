--------------------------- MODULE UserHash_proof ---------------------------
(***************************************************************************)
(* Proofs about the user hash, for any clients, nicknames, addresses,      *)
(* worlds and settings: the alarm for a growing number of clients is never *)
(* false, clones are heard of, the four tables never part, whoever is      *)
(* online is known and nobody else, and who answered VERSION is spared.    *)
(*                                                                         *)
(* The argument for the last four: the lines on their way are a path of    *)
(* truths: it ends with what the server knows now, each line leads from    *)
(* one truth to the next, and the hash agrees with the first.  An event at *)
(* the server lengthens the path at one end, a line that is read shortens  *)
(* it at the other.                                                        *)
(***************************************************************************)
EXTENDS UserHash, FiniteSetTheorems, NaturalsInduction, SequenceTheorems,
        WellFoundedInduction, TLAPS

-----------------------------------------------------------------------------
(* The count and what has been counted                                     *)

\* While no TRACE runs the count has not grown by more than the clients that
\* notices have added since the last look; while one runs nothing is known.
Growth == ~gettingTrace => userCount - previous <= joined
Counting == /\ userCount \in Int /\ previous \in Int /\ joined \in Nat
            /\ gettingTrace \in BOOLEAN
            /\ Growth

\* What the actions that add no client leave alone
LEMMA Others ==
  ASSUME Counting,
         UNCHANGED <<userCount, previous, gettingTrace, joined>>
  PROVE  Counting'
  BY DEF Counting, Growth

LEMMA CountingStep ==
  ASSUME Counting, [Next]_vars
  PROVE  Counting'
<1>0. \A c, n, ip, fromTrace, isOper :
        Add(c, n, ip, fromTrace, isOper) => userCount' = userCount + 1
  BY DEF Add
<1>1. ASSUME NEW c \in Conns, NEW n \in Nicks, Connect(c, n) \/ ChangeNick(c, n)
      PROVE  Counting'
  BY <1>1, Others DEF Connect, ChangeNick, ServerSide, hash, history
<1>2. ASSUME NEW c \in Conns, Exit(c) \/ OperUp(c)
      PROVE  Counting'
  BY <1>2, Others DEF Exit, OperUp, ServerSide, hash, history
<1>3. CASE Serve
  BY <1>3, Others DEF Serve, hash, history
<1>4. CASE OnConnect
  <2>1. /\ \/ userCount' = userCount /\ joined' = joined
           \/ userCount' = userCount + 1 /\ joined' = joined + 1
        /\ previous' = previous /\ gettingTrace' = gettingTrace
    BY <1>0, <1>4 DEF OnConnect
  <2> QED
    BY <2>1 DEF Counting, Growth
<1>5. CASE OnExit
  BY <1>5 DEF OnExit, RemoveUser, Counting, Growth
<1>6. CASE OnNick \/ OnOper
  BY <1>6, Others DEF OnNick, OnOper, history
<1>7. CASE OnVersionReply
  BY <1>7, Others DEF OnVersionReply
<1>8. CASE OnTraceUser
  <2>1. /\ \/ userCount' = userCount
           \/ gettingTrace /\ userCount' = userCount + 1
        /\ previous' = previous /\ gettingTrace' = gettingTrace /\ joined' = joined
    BY <1>0, <1>8 DEF OnTraceUser
  <2> QED
    BY <2>1 DEF Counting, Growth
<1>9. CASE OnEndOfTrace
  <2>1. userCount' = userCount /\ gettingTrace' \in BOOLEAN
    BY <1>9 DEF OnEndOfTrace
  <2>2. CASE gettingTrace
    <3>1. previous' = userCount /\ joined' = 0
      BY <1>9, <2>2 DEF OnEndOfTrace
    <3>2. userCount' - previous' = 0
      BY <2>1, <3>1 DEF Counting
    <3> QED
      BY <2>1, <3>1, <3>2 DEF Counting, Growth
  <2>3. CASE ~gettingTrace
    <3>1. previous' = previous /\ joined' = joined
      BY <1>9, <2>3 DEF OnEndOfTrace
    <3> QED
      BY <2>1, <2>3, <3>1 DEF Counting, Growth
  <2> QED
    BY <2>2, <2>3
<1>10. CASE Trace
  BY <1>10 DEF Trace, Clear, Counting, Growth
<1>11. CASE CheckVersionTimeout
  BY <1>11, Others DEF CheckVersionTimeout, history
<1>12. CASE CheckUserDelta
  BY <1>12 DEF CheckUserDelta, Counting, Growth
<1>13. CASE Tick
  BY <1>13, Others DEF Tick, hash, history
<1>14. CASE UNCHANGED vars
  BY <1>14, Others DEF vars, hash, history
<1> QED
  BY <1>1, <1>2, <1>3, <1>4, <1>5, <1>6, <1>7, <1>8, <1>9, <1>10, <1>11, <1>12,
     <1>13, <1>14 DEF Next, Read

\* The invariant of the count: the count exceeds the one last looked at by no
\* more than the clients added by notices since, but during a TRACE.
THEOREM CountInvariance == Spec => []Counting
<1>1. Init => Counting
  BY DEF Init, Counting, Growth
<1> QED
  BY <1>1, CountingStep, PTL DEF Spec

\* The alarm of checkUserDelta sounds only if more than DeltaMax clients have
\* connected since the last look, or while a TRACE runs.
THEOREM AlarmTrue == Spec => NoFalseAlarm
<1>1. Counting /\ [Next]_vars =>
        [CheckUserDelta /\ Alarm /\ ~gettingTrace => joined > DeltaMax]_vars
  BY SettingsArePositive DEF Counting, Growth, Alarm
<1> QED
  BY <1>1, CountInvariance, PTL DEF Spec, NoFalseAlarm

-----------------------------------------------------------------------------
(* The tables keyed by names                                               *)

\* The tables are four, and those keyed by names hold the same entries.
Aligned == /\ DOMAIN table = Tables
           /\ NamesAgree

\* A table that is kept like another loses the same entry.
LEMMA SameErased ==
  ASSUME NEW c, NEW n, NamesAgree
  PROVE  /\ Erased("host", c, n) = Erased("domain", c, n)
         /\ Erased("host", c, n) = Erased("user", c, n)
<1>1. /\ Attempts("host", c, n) = Attempts("domain", c, n)
      /\ Attempts("host", c, n) = Attempts("user", c, n)
  BY DEF NamesAgree, Attempts
<1>2. /\ Victim("host", c, n) = Victim("domain", c, n)
      /\ Victim("host", c, n) = Victim("user", c, n)
  BY <1>1 DEF Victim
<1> QED
  BY <1>2 DEF NamesAgree, Erased

LEMMA AlignedStep ==
  ASSUME Aligned, [Next]_vars
  PROVE  Aligned'
<1>1. CASE UNCHANGED table
  BY <1>1 DEF Aligned, NamesAgree
<1>2. ASSUME NEW c, NEW n, NEW ip, NEW fromTrace, NEW isOper,
             Add(c, n, ip, fromTrace, isOper)
      PROVE  Aligned'
  BY <1>2 DEF Add, Aligned, NamesAgree, Tables
<1>3. ASSUME NEW c, NEW n, RemoveUser(c, n)
      PROVE  Aligned'
  BY <1>3, SameErased DEF RemoveUser, Aligned, NamesAgree, Tables
<1>4. CASE Clear
  BY <1>4 DEF Clear, Aligned, NamesAgree, Tables
<1>5. ASSUME NEW c \in Conns, NEW n \in Nicks, Connect(c, n) \/ ChangeNick(c, n)
      PROVE  UNCHANGED table
  BY <1>5 DEF Connect, ChangeNick, ServerSide, hash
<1>6. ASSUME NEW c \in Conns, Exit(c) \/ OperUp(c)
      PROVE  UNCHANGED table
  BY <1>6 DEF Exit, OperUp, ServerSide, hash
<1>7. CASE Serve \/ OnNick \/ OnOper \/ OnVersionReply \/ OnEndOfTrace
  BY <1>7, <1>1 DEF Serve, OnNick, OnOper, OnVersionReply, OnEndOfTrace, hash
<1>8. CASE CheckVersionTimeout \/ CheckUserDelta \/ Tick
  BY <1>8, <1>1 DEF CheckVersionTimeout, CheckUserDelta, Tick, hash
<1>9. CASE OnConnect
  BY <1>9, <1>1, <1>2 DEF OnConnect
<1>10. CASE OnExit
  BY <1>10, <1>3 DEF OnExit
<1>11. CASE OnTraceUser
  BY <1>11, <1>1, <1>2 DEF OnTraceUser
<1>12. CASE Trace
  BY <1>12, <1>4 DEF Trace
<1>13. CASE UNCHANGED vars
  BY <1>13, <1>1 DEF vars, hash
<1> QED
  BY <1>1, <1>5, <1>6, <1>7, <1>8, <1>9, <1>10, <1>11, <1>12, <1>13 DEF Next, Read

\* Whatever crosses a TRACE and whoever exits, the tables by host, by domain and
\* by user hold the same clients in the same order: the unconditional half of
\* TablesAgree.
THEOREM NamesNeverPart == Spec => []NamesAgree
<1>1. Init => Aligned
  BY DEF Init, Aligned, NamesAgree, Tables
<1>2. Aligned => NamesAgree
  BY DEF Aligned
<1> QED
  BY <1>1, <1>2, AlignedStep, PTL DEF Spec

-----------------------------------------------------------------------------
(* Numbers and sequences                                                   *)

\* A set of numbers has a least one.
LEMMA LeastOf ==
  ASSUME NEW S \in SUBSET Nat, S # {}
  PROVE  \E m \in S : \A i \in S : m <= i
<1> DEFINE R == OpToRel(<, Nat)
<1>1. IsWellFoundedOn(R, Nat)
  BY NatLessThanWellFounded
<1>2. \A x, y \in Nat : <<x, y>> \in R <=> x < y
  BY DEF OpToRel
<1> HIDE DEF R
<1>3. PICK m \in S : \A i \in S : <<i, m>> \notin R
  BY <1>1, WFMin
<1>4. \A i \in S : i \in Nat /\ m \in Nat /\ ~(i < m)
  BY <1>2, <1>3
<1>5. \A i \in S : m <= i
  BY <1>4
<1> QED
  BY <1>5

\* So the least is one of them.
LEMMA MinOf ==
  ASSUME NEW S \in SUBSET Nat, S # {}
  PROVE  Min(S) \in S /\ \A i \in S : Min(S) <= i
<1>1. \E m \in S : \A i \in S : m <= i
  BY LeastOf
<1> QED
  BY <1>1 DEF Min

\* A bounded set of numbers has a greatest one.
LEMMA MaxOf ==
  ASSUME NEW S \in SUBSET Nat, S # {}, NEW b \in Nat, \A i \in S : i <= b
  PROVE  Max(S) \in S /\ \A i \in S : Max(S) >= i
<1> DEFINE B == {m \in Nat : \A i \in S : i <= m}
<1>0. b \in B /\ B \in SUBSET Nat
  OBVIOUS
<1>1. PICK m \in B : \A i \in B : m <= i
  BY <1>0, LeastOf
<1>2. m \in S
  <2> SUFFICES ASSUME m \notin S PROVE FALSE
    OBVIOUS
  <2>1. m \in Nat /\ \A i \in S : i \in Nat /\ i <= m /\ i # m
    BY <1>1
  <2>2. m # 0
    <3>1. PICK i : i \in S
      OBVIOUS
    <3> QED
      BY <2>1, <3>1
  <2>3. m - 1 \in Nat /\ \A i \in S : i <= m - 1
    BY <2>1, <2>2
  <2>4. m - 1 \in B
    BY <2>3
  <2>5. m <= m - 1
    BY <1>1, <2>4
  <2> QED
    BY <2>1, <2>5
<1>3. \E x \in S : \A i \in S : x >= i
  BY <1>1, <1>2
<1> QED
  BY <1>3 DEF Max

LEMMA IsSeq ==
  ASSUME NEW S, NEW n \in Nat, NEW s \in [1 .. n -> S]
  PROVE  s \in Seq(S) /\ Len(s) = n
  OBVIOUS

LEMMA Joined ==
  ASSUME NEW S, NEW a \in Seq(S), NEW b \in Seq(S), NEW r, r = a \o b
  PROVE  /\ r \in Seq(S) /\ Len(r) = Len(a) + Len(b) /\ Len(a) \in Nat /\ Len(b) \in Nat
         /\ \A i \in 1 .. Len(a) : r[i] = a[i]
         /\ \A k \in 1 .. Len(b) : r[Len(a) + k] = b[k]
<1>1. Len(a) \in Nat /\ Len(b) \in Nat
  OBVIOUS
<1>2. r \in Seq(S) /\ Len(r) = Len(a) + Len(b)
  BY ConcatProperties
<1>3. \A i \in 1 .. Len(a) + Len(b) : r[i] = IF i <= Len(a) THEN a[i] ELSE b[i - Len(a)]
  BY ConcatProperties
<1>4. ASSUME NEW k \in 1 .. Len(b) PROVE r[Len(a) + k] = b[k]
  <2>1. Len(a) + k \in 1 .. Len(a) + Len(b) /\ ~(Len(a) + k <= Len(a)) /\ (Len(a) + k) - Len(a) = k
    BY <1>1
  <2> QED
    BY <1>3, <2>1
<1>5. ASSUME NEW i \in 1 .. Len(a) PROVE r[i] = a[i]
  BY <1>1, <1>3
<1> QED
  BY <1>1, <1>2, <1>4, <1>5

\* A sequence that loses the place v: what was behind moves up.
LEMMA Removed ==
  ASSUME NEW S, NEW s \in Seq(S), NEW v \in 1 .. Len(s)
  PROVE  /\ RemoveAt(s, v) \in Seq(S)
         /\ Len(RemoveAt(s, v)) = Len(s) - 1
         /\ \A k \in 1 .. Len(s) - 1 :
              RemoveAt(s, v)[k] = IF k < v THEN s[k] ELSE s[k + 1]
<1> DEFINE a == SubSeq(s, 1, v - 1)
           b == SubSeq(s, v + 1, Len(s))
<1>1. a \in Seq(S) /\ Len(a) = v - 1 /\ \A k \in 1 .. v - 1 : a[k] = s[k]
  OBVIOUS
<1>2. b \in Seq(S) /\ Len(b) = Len(s) - v /\ \A k \in 1 .. Len(s) - v : b[k] = s[v + k]
  OBVIOUS
<1>3. RemoveAt(s, v) = a \o b
  BY DEF RemoveAt
<1> HIDE DEF a, b
<1>0. Len(s) \in Nat /\ v \in Nat
  OBVIOUS
<1>4. a \o b \in Seq(S) /\ Len(a \o b) = Len(s) - 1
  <2>1. a \o b \in Seq(S) /\ Len(a \o b) = Len(a) + Len(b)
    BY <1>1, <1>2, ConcatProperties
  <2> QED
    BY <1>0, <1>1, <1>2, <2>1
<1>5. ASSUME NEW k \in 1 .. Len(s) - 1
      PROVE  (a \o b)[k] = IF k < v THEN s[k] ELSE s[k + 1]
  <2>1. (a \o b)[k] = IF k <= Len(a) THEN a[k] ELSE b[k - Len(a)]
    BY <1>0, <1>1, <1>2
  <2>2. CASE k < v
    BY <1>1, <2>1, <2>2
  <2>3. CASE ~(k < v)
    <3>1. k - (v - 1) \in 1 .. Len(s) - v /\ v + (k - (v - 1)) = k + 1
      BY <2>3
    <3> QED
      BY <1>1, <1>2, <2>1, <2>3, <3>1
  <2> QED
    BY <2>2, <2>3
<1> QED
  BY <1>3, <1>4, <1>5

-----------------------------------------------------------------------------
(* What the state is made of                                               *)

Ips == {world.ip[c] : c \in Conns} \cup {NoIp}
Entries == [conn : Conns, nick : Nicks \cup {"none"}, ip : Ips, oper : BOOLEAN,
            report : Nat, at : Nat, versioned : Nat, connected : BOOLEAN]
Types == {"connect", "exit", "nick", "oper", "version", "user", "endtrace"}
SomeLine == [type : Types, conn : Conns \cup {"none"}, nick : Nicks \cup {"none"},
             new : Nicks \cup {"none"}, oper : BOOLEAN]
Said == {l \in SomeLine : l.type # "endtrace" => l.conn \in Conns /\ l.nick \in Nicks}

ServerTyped == /\ phase \in [Conns -> {"new", "on", "gone"}]
               /\ nick \in [Conns -> Nicks \cup {"none"}]
               /\ oper \in [Conns -> BOOLEAN]
               /\ \A c \in Conns : phase[c] = "on" => nick[c] \in Nicks
               /\ out \in Seq(Nicks \cup {"TRACE"})
               /\ lines \in Seq(Said)
ClockTyped == /\ now \in Nat /\ now >= Start
              /\ told \in [Keys -> Nat] /\ \A k \in Keys : told[k] <= now
HashTyped == /\ heap \in Seq(Entries)
             /\ table \in [Tables -> Seq(Nat)]
             /\ \A t \in Tables : \A k \in 1 .. Len(table[t]) :
                  table[t][k] \in 1 .. Len(heap)
Typed == world \in Worlds /\ ServerTyped /\ ClockTyped /\ HashTyped

LEMMA WorldFacts ==
  ASSUME world \in Worlds
  PROVE  /\ world.ip \in [Conns -> STRING] /\ world.uh \in [Conns -> Seq(STRING)]
         /\ world.ctcp \in BOOLEAN /\ world.traceIp \in BOOLEAN
         /\ \A c \in Conns : world.ip[c] \in Ips
         /\ NoIp \in Ips
         /\ \A c \in Conns : Host(c) \in Keys
         /\ \A ip \in Ips : Subnet(ip) \in Keys
  BY WorldsAreWorlds DEF World, Ips, Keys

\* The next line of the server, and those behind it
LEMMA NextLine ==
  ASSUME Typed, NEW type, Reads(type)
  PROVE  /\ Head(lines) = lines[1] /\ lines[1] \in Said /\ lines[1].type = type
         /\ At = lines[1].conn /\ AtNick = lines[1].nick
         /\ type # "endtrace" => At \in Conns /\ AtNick \in Nicks
         /\ lines[1].oper \in BOOLEAN /\ lines[1].new \in Nicks \cup {"none"}
         /\ Len(lines) \in Nat \ {0}
         /\ lines' \in Seq(Said) /\ Len(lines') = Len(lines) - 1
         /\ \A p \in 1 .. Len(lines) - 1 : lines'[p] = lines[p + 1]
<1>1. lines \in Seq(Said) /\ lines # <<>> /\ lines' = Tail(lines) /\ Head(lines).type = type
  BY DEF Typed, ServerTyped, Reads
<1>2. Head(lines) = lines[1] /\ lines[1] \in Said /\ Len(lines) \in Nat \ {0}
  BY <1>1
<1>3. /\ lines' \in Seq(Said) /\ Len(lines') = Len(lines) - 1
      /\ \A p \in 1 .. Len(lines) - 1 : lines'[p] = lines[p + 1]
  BY <1>1
<1>4. /\ type # "endtrace" => lines[1].conn \in Conns /\ lines[1].nick \in Nicks
      /\ lines[1].oper \in BOOLEAN /\ lines[1].new \in Nicks \cup {"none"}
  BY <1>1, <1>2 DEF Said, SomeLine
<1> QED
  BY <1>1, <1>2, <1>3, <1>4 DEF At, AtNick

\* The victim is a place of the table, or 0.
LEMMA VictimPlace ==
  ASSUME NEW t, NEW c, NEW n, table[t] \in Seq(Nat)
  PROVE  Victim(t, c, n) \in 0 .. Len(table[t])
<1> DEFINE A == Attempts(t, c, n)
           hits == {i \in DOMAIN A : A[i] # {}}
<1>1. DOMAIN A \in SUBSET Nat /\ \A i \in DOMAIN A : A[i] \in SUBSET DOMAIN table[t]
  <2>1. CASE t = "ip"
    BY <2>1, SMTT(30) DEF Attempts
  <2>2. CASE t # "ip"
    BY <2>2, SMTT(30) DEF Attempts
  <2> QED
    BY <2>1, <2>2
<1>2. DOMAIN table[t] = 1 .. Len(table[t]) /\ Len(table[t]) \in Nat
  OBVIOUS
<1>3. Victim(t, c, n) = IF hits = {} THEN 0 ELSE Min(A[Min(hits)])
  BY DEF Victim
<1> HIDE DEF A
<1>4. /\ hits \in SUBSET Nat
      /\ \A i \in hits : A[i] \in SUBSET DOMAIN table[t] /\ A[i] # {}
  BY <1>1
<1> HIDE DEF hits
<1>5. CASE hits # {}
  <2>1. Min(hits) \in hits
    BY <1>4, <1>5, MinOf
  <2>2. PICK B : B = A[Min(hits)]
    OBVIOUS
  <2>3. B \in SUBSET DOMAIN table[t] /\ B # {}
    BY <1>4, <2>1, <2>2
  <2>4. B \in SUBSET Nat
    BY <1>2, <2>3
  <2>5. Min(B) \in B
    BY <2>3, <2>4, MinOf
  <2>6. Victim(t, c, n) = Min(B)
    BY <1>3, <1>5, <2>2
  <2> QED
    BY <1>2, <2>3, <2>5, <2>6
<1> QED
  BY <1>2, <1>3, <1>5

\* What is erased from a table leaves the others in it.
LEMMA ErasedFrom ==
  ASSUME NEW t, NEW c, NEW n, table[t] \in Seq(Nat)
  PROVE  /\ Erased(t, c, n) \in Seq(Nat)
         /\ \A k \in 1 .. Len(Erased(t, c, n)) :
              \E i \in 1 .. Len(table[t]) : Erased(t, c, n)[k] = table[t][i]
<1>1. Victim(t, c, n) \in 0 .. Len(table[t])
  BY VictimPlace
<1>2. CASE Victim(t, c, n) = 0
  BY <1>2 DEF Erased
<1>3. CASE Victim(t, c, n) # 0
  <2>1. PICK v \in 1 .. Len(table[t]) : v = Victim(t, c, n)
    BY <1>1, <1>3
  <2>2. Erased(t, c, n) = RemoveAt(table[t], v)
    BY <1>3, <2>1 DEF Erased
  <2>3. /\ RemoveAt(table[t], v) \in Seq(Nat)
        /\ Len(RemoveAt(table[t], v)) = Len(table[t]) - 1
        /\ \A k \in 1 .. Len(table[t]) - 1 :
             RemoveAt(table[t], v)[k] = IF k < v THEN table[t][k] ELSE table[t][k + 1]
    BY Removed
  <2> QED
    BY <2>2, <2>3
<1> QED
  BY <1>2, <1>3

\* findUser gives an entry of the user table that matches, or 0 if none does.
LEMMA Found ==
  ASSUME NEW c, NEW n, HashTyped
  PROVE  \/ /\ FindUser(c, n) = 0
            /\ \A k \in 1 .. Len(table["user"]) : ~Matches(heap[table["user"][k]], c, n)
         \/ \E k \in 1 .. Len(table["user"]) :
              /\ FindUser(c, n) = table["user"][k] /\ FindUser(c, n) \in 1 .. Len(heap)
              /\ Matches(heap[table["user"][k]], c, n)
<1> DEFINE S == {k \in DOMAIN table["user"] : Matches(heap[table["user"][k]], c, n)}
<1>1. /\ DOMAIN table["user"] = 1 .. Len(table["user"])
      /\ \A k \in 1 .. Len(table["user"]) : table["user"][k] \in 1 .. Len(heap)
  BY DEF HashTyped, Tables
<1>2. FindUser(c, n) = IF S = {} THEN 0 ELSE table["user"][Min(S)]
  BY DEF FindUser
<1>3. S \in SUBSET Nat
  BY <1>1
<1>4. S # {} => Min(S) \in S
  BY <1>3, MinOf
<1> QED
  BY <1>1, <1>2, <1>4

-----------------------------------------------------------------------------
(* What add and remove do                                                  *)

\* The heap with the new entry, and the clones add reports
Heap(c, n, ip, fromTrace, isOper) == Append(heap, NewEntry(c, n, ip, fromTrace, isOper))
Reported(c, n, ip, fromTrace, isOper) ==
  IF Checked(c, fromTrace) THEN NewClones(Heap(c, n, ip, fromTrace, isOper), c, ip) ELSE {}

\* The old entries stay as they are, but for the reports.
Grown(c, n, ip, fromTrace, isOper, clones) ==
  /\ Len(heap') = Len(heap) + 1 /\ heap' \in Seq(Entries)
  /\ \A i \in 1 .. Len(heap) :
       heap'[i] = IF i \in clones THEN [heap[i] EXCEPT !.report = now] ELSE heap[i]
  /\ heap'[Len(heap) + 1] =
       IF Len(heap) + 1 \in clones
         THEN [NewEntry(c, n, ip, fromTrace, isOper) EXCEPT !.report = now]
         ELSE NewEntry(c, n, ip, fromTrace, isOper)
  /\ table' \in [Tables -> Seq(Nat)]
  /\ \A t \in Tables :
       /\ Len(table'[t]) = Len(table[t]) + 1
       /\ \A k \in 1 .. Len(table[t]) : table'[t][k] = table[t][k]
       /\ table'[t][Len(table[t]) + 1] = Len(heap) + 1
  /\ userCount' = userCount + 1
  /\ out' \in Seq(Nicks \cup {"TRACE"})
  /\ \A k \in DOMAIN out' : out'[k] = "TRACE" => k \in DOMAIN out
  /\ \A k \in DOMAIN out : k \in DOMAIN out' /\ out'[k] = out[k]

LEMMA HeapIs ==
  ASSUME Typed, NEW c \in Conns, NEW n \in Nicks, NEW ip \in Ips,
         NEW fromTrace \in BOOLEAN, NEW isOper \in BOOLEAN,
         NEW h, h = Heap(c, n, ip, fromTrace, isOper)
  PROVE  /\ h \in Seq(Entries) /\ Len(h) = Len(heap) + 1
         /\ DOMAIN h = 1 .. Len(heap) + 1 /\ Len(heap) \in Nat
         /\ h[Len(heap) + 1] = NewEntry(c, n, ip, fromTrace, isOper)
         /\ \A i \in 1 .. Len(heap) : h[i] = heap[i]
<1>1. now \in Nat /\ heap \in Seq(Entries)
  BY DEF Typed, ClockTyped, HashTyped
<1>2. PICK e : e = NewEntry(c, n, ip, fromTrace, isOper)
  OBVIOUS
<1>3. e \in Entries
  BY <1>1, <1>2 DEF NewEntry, Entries
<1> QED
  BY <1>1, <1>2, <1>3 DEF Heap

LEMMA AddGrows ==
  ASSUME Typed, NEW c \in Conns, NEW n \in Nicks, NEW ip \in Ips,
         NEW fromTrace \in BOOLEAN, NEW isOper \in BOOLEAN,
         Add(c, n, ip, fromTrace, isOper)
  PROVE  Grown(c, n, ip, fromTrace, isOper, Reported(c, n, ip, fromTrace, isOper))
<1>1. now \in Nat /\ table \in [Tables -> Seq(Nat)]
  BY DEF Typed, ClockTyped, HashTyped
<1>2. PICK h : h = Heap(c, n, ip, fromTrace, isOper)
  OBVIOUS
<1>3. PICK clones : clones = Reported(c, n, ip, fromTrace, isOper)
  OBVIOUS
<1>4. heap' = [i \in DOMAIN h |-> IF i \in clones THEN [h[i] EXCEPT !.report = now] ELSE h[i]]
  BY <1>2, <1>3 DEF Add, Heap, Reported
<1>5. PICK e : e = NewEntry(c, n, ip, fromTrace, isOper)
  OBVIOUS
<1>6. /\ h \in Seq(Entries) /\ Len(h) = Len(heap) + 1 /\ DOMAIN h = 1 .. Len(heap) + 1
      /\ h[Len(heap) + 1] = e /\ Len(heap) \in Nat
      /\ \A i \in 1 .. Len(heap) : h[i] = heap[i]
  BY <1>2, <1>5, HeapIs
<1>7. table' = [t \in Tables |-> Append(table[t], Len(h))] /\ userCount' = userCount + 1
  BY <1>2 DEF Add, Heap
<1>8. out' = out \/ out' = Append(out, n)
  BY DEF Add
<1>9. \A i \in 1 .. Len(heap) + 1 :
        /\ h[i] \in Entries
        /\ heap'[i] = IF i \in clones THEN [h[i] EXCEPT !.report = now] ELSE h[i]
  BY <1>4, <1>6
<1>10. \A i \in 1 .. Len(heap) + 1 : heap'[i] \in Entries
  <2>1. ASSUME NEW d \in Entries, NEW b, b = [d EXCEPT !.report = now]
        PROVE  b \in Entries
    BY <1>1, <2>1 DEF Entries
  <2> QED
    BY <1>9, <2>1
<1>11. Len(heap') = Len(heap) + 1 /\ heap' \in Seq(Entries)
  BY <1>4, <1>6, <1>10
<1>12. \A i \in 1 .. Len(heap) :
         heap'[i] = IF i \in clones THEN [heap[i] EXCEPT !.report = now] ELSE heap[i]
  <2> SUFFICES ASSUME NEW i \in 1 .. Len(heap)
               PROVE  heap'[i] = IF i \in clones THEN [heap[i] EXCEPT !.report = now] ELSE heap[i]
    OBVIOUS
  <2>1. h[i] = heap[i] /\ i \in 1 .. Len(heap) + 1
    BY <1>6
  <2>2. heap'[i] = IF i \in clones THEN [h[i] EXCEPT !.report = now] ELSE h[i]
    BY <1>9, <2>1
  <2> QED
    BY <2>1, <2>2
<1>13. heap'[Len(heap) + 1] =
         IF Len(heap) + 1 \in clones THEN [e EXCEPT !.report = now] ELSE e
  <2>1. Len(heap) + 1 \in 1 .. Len(heap) + 1
    BY <1>6
  <2> QED
    BY <1>6, <1>9, <2>1
<1>14. /\ table' \in [Tables -> Seq(Nat)]
       /\ \A t \in Tables :
            /\ Len(table'[t]) = Len(table[t]) + 1
            /\ \A k \in 1 .. Len(table[t]) : table'[t][k] = table[t][k]
            /\ table'[t][Len(table[t]) + 1] = Len(heap) + 1
  BY <1>1, <1>6, <1>7
<1>15. /\ out' \in Seq(Nicks \cup {"TRACE"})
       /\ \A k \in DOMAIN out' : out'[k] = "TRACE" => k \in DOMAIN out
       /\ \A k \in DOMAIN out : k \in DOMAIN out' /\ out'[k] = out[k]
  <2>1. out \in Seq(Nicks \cup {"TRACE"}) /\ n # "TRACE"
    BY NickIsNoCommand DEF Typed, ServerTyped
  <2> QED
    BY <1>8, <2>1
<1>16. Grown(c, n, ip, fromTrace, isOper, clones)
  BY <1>5, <1>7, <1>11, <1>12, <1>13, <1>14, <1>15 DEF Grown
<1> QED
  BY <1>3, <1>16

\* remove leaves the entries as they are, but for the mark of disconnection.
Shrunk(c, n) ==
  /\ Len(heap') = Len(heap) /\ heap' \in Seq(Entries)
  /\ \A i \in 1 .. Len(heap) :
       heap'[i] = IF \E t \in Tables : Victim(t, c, n) # 0 /\ i = table[t][Victim(t, c, n)]
                  THEN [heap[i] EXCEPT !.connected = FALSE] ELSE heap[i]
  /\ table' \in [Tables -> Seq(Nat)]
  /\ \A t \in Tables :
       /\ table'[t] = Erased(t, c, n)
       /\ \A k \in 1 .. Len(table'[t]) :
            \E i \in 1 .. Len(table[t]) : table'[t][k] = table[t][i]
  /\ userCount' = userCount - 1

LEMMA RemoveShrinks ==
  ASSUME Typed, NEW c, NEW n, RemoveUser(c, n)
  PROVE  Shrunk(c, n)
<1> DEFINE gone == {table[t][Victim(t, c, n)] : t \in {u \in Tables : Victim(u, c, n) # 0}}
<1>1. heap \in Seq(Entries) /\ table \in [Tables -> Seq(Nat)]
  BY DEF Typed, HashTyped
<1>2. /\ heap' = [i \in DOMAIN heap |->
            IF i \in gone THEN [heap[i] EXCEPT !.connected = FALSE] ELSE heap[i]]
      /\ table' = [t \in Tables |-> Erased(t, c, n)] /\ userCount' = userCount - 1
  BY DEF RemoveUser
<1>3. \A i : i \in gone <=> \E t \in Tables : Victim(t, c, n) # 0 /\ i = table[t][Victim(t, c, n)]
  OBVIOUS
<1> HIDE DEF gone
<1>4. DOMAIN heap = 1 .. Len(heap) /\ Len(heap) \in Nat /\ \A i \in 1 .. Len(heap) : heap[i] \in Entries
  BY <1>1
<1>5. \A i \in 1 .. Len(heap) : heap'[i] =
        IF i \in gone THEN [heap[i] EXCEPT !.connected = FALSE] ELSE heap[i]
  BY <1>2, <1>4
<1>6. ASSUME NEW i \in 1 .. Len(heap) PROVE heap'[i] \in Entries
  <2>1. \A e \in Entries : [e EXCEPT !.connected = FALSE] \in Entries
    BY DEF Entries
  <2> QED
    BY <1>4, <1>5, <2>1
<1>7. Len(heap') = Len(heap) /\ heap' \in Seq(Entries)
  BY <1>2, <1>4, <1>6
<1>8. \A t \in Tables :
       /\ table'[t] = Erased(t, c, n) /\ table'[t] \in Seq(Nat)
       /\ \A k \in 1 .. Len(table'[t]) :
            \E i \in 1 .. Len(table[t]) : table'[t][k] = table[t][i]
  BY <1>1, <1>2, ErasedFrom
<1>9. table' \in [Tables -> Seq(Nat)]
  BY <1>2, <1>8
<1> QED
  BY <1>2, <1>3, <1>5, <1>7, <1>8, <1>9 DEF Shrunk

\* One entry, or none, gets a value.
LEMMA OneEntry ==
  ASSUME heap \in Seq(Entries), NEW id, NEW v, id \in 1 .. Len(heap) => v \in Entries,
         heap' = IF id = 0 THEN heap ELSE [heap EXCEPT ![id] = v]
  PROVE  /\ heap' \in Seq(Entries) /\ Len(heap') = Len(heap)
         /\ \A i \in 1 .. Len(heap) : heap'[i] = IF i = id THEN v ELSE heap[i]
<1>0. DOMAIN heap = 1 .. Len(heap) /\ Len(heap) \in Nat
      /\ \A i \in 1 .. Len(heap) : heap[i] \in Entries
  OBVIOUS
<1>1. heap' = [i \in 1 .. Len(heap) |-> IF i = id THEN v ELSE heap[i]]
  <2>1. CASE id = 0
    BY <1>0, <2>1
  <2>2. CASE id # 0
    <3>1. heap' = [heap EXCEPT ![id] = v]
      BY <2>2
    <3> QED
      BY <1>0, <3>1
  <2> QED
    BY <2>1, <2>2
<1>2. \A i \in 1 .. Len(heap) : heap'[i] = IF i = id THEN v ELSE heap[i]
  BY <1>0, <1>1
<1>3. \A i \in 1 .. Len(heap) : (IF i = id THEN v ELSE heap[i]) \in Entries
  BY <1>0
<1>4. heap' \in Seq(Entries) /\ Len(heap') = Len(heap)
  <2>1. heap' \in [1 .. Len(heap) -> Entries]
    BY <1>1, <1>3
  <2> QED
    BY <1>0, <2>1, IsSeq
<1> QED
  BY <1>2, <1>4

\* Steps that change what entries say, and none of them joins or leaves: what
\* they say is kept but for the nickname, the operator flag, the time of VERSION.
Like(e, d) == /\ e.conn = d.conn /\ e.ip = d.ip /\ e.at = d.at
              /\ e.report = d.report /\ e.connected = d.connected
Kept == /\ Len(heap') = Len(heap) /\ heap' \in Seq(Entries) /\ table' = table
        /\ \A i \in 1 .. Len(heap) : Like(heap'[i], heap[i])

LEMMA NickSet ==
  ASSUME NEW e \in Entries, NEW n \in Nicks \cup {"none"}, NEW d, d = [e EXCEPT !.nick = n]
  PROVE  d \in Entries /\ Like(d, e) /\ d.nick = n /\ d.oper = e.oper /\ d.versioned = e.versioned
  BY DEF Entries, Like

LEMMA OperSet ==
  ASSUME NEW e \in Entries, NEW d, d = [e EXCEPT !.oper = TRUE]
  PROVE  d \in Entries /\ Like(d, e) /\ d.oper = TRUE /\ d.nick = e.nick /\ d.versioned = e.versioned
  BY DEF Entries, Like

LEMMA VersionSet ==
  ASSUME NEW e \in Entries, NEW d, d = [e EXCEPT !.versioned = 0]
  PROVE  d \in Entries /\ Like(d, e) /\ d.versioned = 0 /\ d.nick = e.nick /\ d.oper = e.oper
  BY DEF Entries, Like

LEMMA NickKept ==
  ASSUME Typed, OnNick
  PROVE  /\ Kept
         /\ \A i \in 1 .. Len(heap) :
              /\ heap'[i].nick = IF i = FindUser(At, AtNick) THEN lines[1].new ELSE heap[i].nick
              /\ heap'[i].oper = heap[i].oper /\ heap'[i].versioned = heap[i].versioned
<1>1. heap \in Seq(Entries)
  BY DEF Typed, HashTyped
<1>2. PICK new : new = lines[1].new
  OBVIOUS
<1>3. new \in Nicks \cup {"none"} /\ new = Head(lines).new
  BY <1>2, NextLine DEF OnNick, Said, SomeLine
<1>4. PICK id : id = FindUser(At, AtNick)
  OBVIOUS
<1>5. PICK e, v : e = heap[id] /\ v = [e EXCEPT !.nick = new]
  OBVIOUS
<1>6. heap' = IF id = 0 THEN heap ELSE [heap EXCEPT ![id] = v]
  BY <1>3, <1>4, <1>5 DEF OnNick, UpdateNick
<1>7. id \in 1 .. Len(heap) => v \in Entries /\ Like(v, e) /\ v.nick = new /\ v.oper = e.oper /\ v.versioned = e.versioned
  <2> SUFFICES ASSUME id \in 1 .. Len(heap) PROVE v \in Entries /\ Like(v, e) /\ v.nick = new /\ v.oper = e.oper /\ v.versioned = e.versioned
    OBVIOUS
  <2>1. e \in Entries
    BY <1>1, <1>5
  <2> QED
    BY <2>1, <1>3, <1>5, NickSet
<1>8. /\ heap' \in Seq(Entries) /\ Len(heap') = Len(heap)
      /\ \A i \in 1 .. Len(heap) : heap'[i] = IF i = id THEN v ELSE heap[i]
  BY <1>1, <1>6, <1>7, OneEntry
<1>9. ASSUME NEW i \in 1 .. Len(heap)
      PROVE  /\ Like(heap'[i], heap[i])
             /\ heap'[i].nick = IF i = id THEN new ELSE heap[i].nick
             /\ heap'[i].oper = heap[i].oper /\ heap'[i].versioned = heap[i].versioned
  <2>2. CASE i = id
    BY <1>5, <1>7, <1>8, <2>2
  <2>3. CASE i # id
    BY <1>8, <2>3 DEF Like
  <2> QED
    BY <2>2, <2>3
<1>10. table' = table
  BY DEF OnNick
<1> QED
  BY <1>2, <1>4, <1>8, <1>9, <1>10 DEF Kept

LEMMA OperKept ==
  ASSUME Typed, OnOper
  PROVE  /\ Kept
         /\ \A i \in 1 .. Len(heap) :
              /\ heap'[i].oper = IF i = FindUser(At, AtNick) THEN TRUE ELSE heap[i].oper
              /\ heap'[i].nick = heap[i].nick /\ heap'[i].versioned = heap[i].versioned
<1>1. heap \in Seq(Entries)
  BY DEF Typed, HashTyped
<1>4. PICK id : id = FindUser(At, AtNick)
  OBVIOUS
<1>5. PICK e, v : e = heap[id] /\ v = [e EXCEPT !.oper = TRUE]
  OBVIOUS
<1>6. heap' = IF id = 0 THEN heap ELSE [heap EXCEPT ![id] = v]
  BY <1>4, <1>5 DEF OnOper, UpdateOper
<1>7. id \in 1 .. Len(heap) => v \in Entries /\ Like(v, e) /\ v.oper = TRUE /\ v.nick = e.nick /\ v.versioned = e.versioned
  <2> SUFFICES ASSUME id \in 1 .. Len(heap) PROVE v \in Entries /\ Like(v, e) /\ v.oper = TRUE /\ v.nick = e.nick /\ v.versioned = e.versioned
    OBVIOUS
  <2>1. e \in Entries
    BY <1>1, <1>5
  <2> QED
    BY <2>1, <1>5, OperSet
<1>8. /\ heap' \in Seq(Entries) /\ Len(heap') = Len(heap)
      /\ \A i \in 1 .. Len(heap) : heap'[i] = IF i = id THEN v ELSE heap[i]
  BY <1>1, <1>6, <1>7, OneEntry
<1>9. ASSUME NEW i \in 1 .. Len(heap)
      PROVE  /\ Like(heap'[i], heap[i])
             /\ heap'[i].oper = IF i = id THEN TRUE ELSE heap[i].oper
             /\ heap'[i].nick = heap[i].nick /\ heap'[i].versioned = heap[i].versioned
  <2>2. CASE i = id
    BY <1>5, <1>7, <1>8, <2>2
  <2>3. CASE i # id
    BY <1>8, <2>3 DEF Like
  <2> QED
    BY <2>2, <2>3
<1>10. table' = table
  BY DEF OnOper
<1> QED
  BY <1>4, <1>8, <1>9, <1>10 DEF Kept

LEMMA VersionKept ==
  ASSUME Typed, OnVersionReply
  PROVE  /\ Kept
         /\ \A i \in 1 .. Len(heap) :
              /\ heap'[i].versioned = IF i = FindUser(At, AtNick) THEN 0 ELSE heap[i].versioned
              /\ heap'[i].nick = heap[i].nick /\ heap'[i].oper = heap[i].oper
<1>1. heap \in Seq(Entries)
  BY DEF Typed, HashTyped
<1>4. PICK id : id = FindUser(At, AtNick)
  OBVIOUS
<1>5. PICK e, v : e = heap[id] /\ v = [e EXCEPT !.versioned = 0]
  OBVIOUS
<1>6. heap' = IF id = 0 THEN heap ELSE [heap EXCEPT ![id] = v]
  BY <1>4, <1>5 DEF OnVersionReply
<1>7. id \in 1 .. Len(heap) => v \in Entries /\ Like(v, e) /\ v.versioned = 0 /\ v.nick = e.nick /\ v.oper = e.oper
  <2> SUFFICES ASSUME id \in 1 .. Len(heap) PROVE v \in Entries /\ Like(v, e) /\ v.versioned = 0 /\ v.nick = e.nick /\ v.oper = e.oper
    OBVIOUS
  <2>1. e \in Entries
    BY <1>1, <1>5
  <2> QED
    BY <2>1, <1>5, VersionSet
<1>8. /\ heap' \in Seq(Entries) /\ Len(heap') = Len(heap)
      /\ \A i \in 1 .. Len(heap) : heap'[i] = IF i = id THEN v ELSE heap[i]
  BY <1>1, <1>6, <1>7, OneEntry
<1>9. ASSUME NEW i \in 1 .. Len(heap)
      PROVE  /\ Like(heap'[i], heap[i])
             /\ heap'[i].versioned = IF i = id THEN 0 ELSE heap[i].versioned
             /\ heap'[i].nick = heap[i].nick /\ heap'[i].oper = heap[i].oper
  <2>2. CASE i = id
    BY <1>5, <1>7, <1>8, <2>2
  <2>3. CASE i # id
    BY <1>8, <2>3 DEF Like
  <2> QED
    BY <2>2, <2>3
<1>10. table' = table
  BY DEF OnVersionReply
<1> QED
  BY <1>4, <1>8, <1>9, <1>10 DEF Kept

LEMMA TimeoutKept ==
  ASSUME Typed, CheckVersionTimeout
  PROVE  /\ Kept
         /\ \A i \in 1 .. Len(heap) :
              /\ heap'[i].versioned \in {0, heap[i].versioned}
              /\ heap'[i].nick = heap[i].nick /\ heap'[i].oper = heap[i].oper
<1>1. heap \in Seq(Entries)
  BY DEF Typed, HashTyped
<1>2. PICK S : S = {id \in ToSet(table["user"]) : Late(id)}
  OBVIOUS
<1>3. heap' = [i \in DOMAIN heap |-> IF i \in S THEN [heap[i] EXCEPT !.versioned = 0] ELSE heap[i]]
  BY <1>2 DEF CheckVersionTimeout
<1>4. \A i \in 1 .. Len(heap) :
        heap'[i] = IF i \in S THEN [heap[i] EXCEPT !.versioned = 0] ELSE heap[i]
  BY <1>1, <1>3
<1>5. ASSUME NEW i \in 1 .. Len(heap)
      PROVE  /\ heap'[i] \in Entries /\ Like(heap'[i], heap[i])
             /\ heap'[i].versioned \in {0, heap[i].versioned}
             /\ heap'[i].nick = heap[i].nick /\ heap'[i].oper = heap[i].oper
  <2>1. heap[i] \in Entries
    BY <1>1
  <2>2. CASE i \in S
    <3>1. heap'[i] = [heap[i] EXCEPT !.versioned = 0]
      BY <1>4, <2>2
    <3> QED
      BY <2>1, <3>1, VersionSet
  <2>3. CASE i \notin S
    BY <1>4, <2>1, <2>3 DEF Like
  <2> QED
    BY <2>2, <2>3
<1>6. heap' = [i \in 1 .. Len(heap) |-> heap'[i]] /\ Len(heap) \in Nat
  BY <1>1, <1>3
<1>7. heap' \in Seq(Entries) /\ Len(heap') = Len(heap)
  BY <1>5, <1>6
<1>8. table' = table
  BY DEF CheckVersionTimeout
<1> QED
  BY <1>5, <1>7, <1>8 DEF Kept

-----------------------------------------------------------------------------
(* Types                                                                   *)

LEMMA SameWorld ==
  ASSUME world' = world
  PROVE  /\ Ips' = Ips /\ Entries' = Entries /\ Keys' = Keys
         /\ \A c : Host(c)' = Host(c)
  BY DEF Ips, Entries, Keys, Host

LEMMA GrownTyped ==
  ASSUME Typed, world' = world, NEW c, NEW n, NEW ip, NEW fromTrace, NEW isOper, NEW clones,
         Grown(c, n, ip, fromTrace, isOper, clones)
  PROVE  HashTyped'
<1>1. heap' \in Seq(Entries)' /\ table' \in [Tables -> Seq(Nat)]
  BY SameWorld DEF Grown
<1>2. ASSUME NEW t \in Tables, NEW k \in 1 .. Len(table'[t])
      PROVE  table'[t][k] \in 1 .. Len(heap')
  <2>1. /\ Len(heap) \in Nat /\ Len(table[t]) \in Nat
        /\ \A i \in 1 .. Len(table[t]) : table[t][i] \in 1 .. Len(heap)
    BY DEF Typed, HashTyped
  <2>2. /\ Len(table'[t]) = Len(table[t]) + 1 /\ Len(heap') = Len(heap) + 1
        /\ \A i \in 1 .. Len(table[t]) : table'[t][i] = table[t][i]
        /\ table'[t][Len(table[t]) + 1] = Len(heap) + 1
    BY DEF Grown
  <2>3. CASE k \in 1 .. Len(table[t])
    <3>1. table'[t][k] = table[t][k] /\ table[t][k] \in 1 .. Len(heap)
      BY <2>1, <2>2, <2>3
    <3> QED
      BY <2>1, <2>2, <3>1
  <2>4. CASE k = Len(table[t]) + 1
    BY <2>1, <2>2, <2>4
  <2>5. k \in 1 .. Len(table[t]) \/ k = Len(table[t]) + 1
    BY <2>1, <2>2
  <2> QED
    BY <2>3, <2>4, <2>5
<1> QED
  BY <1>1, <1>2 DEF HashTyped

LEMMA ShrunkTyped ==
  ASSUME Typed, world' = world, NEW c, NEW n, Shrunk(c, n)
  PROVE  HashTyped'
<1>1. heap' \in Seq(Entries)' /\ table' \in [Tables -> Seq(Nat)]
  BY SameWorld DEF Shrunk
<1>2. ASSUME NEW t \in Tables, NEW k \in 1 .. Len(table'[t])
      PROVE  table'[t][k] \in 1 .. Len(heap')
  <2>1. PICK i \in 1 .. Len(table[t]) : table'[t][k] = table[t][i]
    BY DEF Shrunk
  <2> QED
    BY <2>1 DEF Typed, HashTyped, Shrunk
<1> QED
  BY <1>1, <1>2 DEF HashTyped

LEMMA KeptTyped ==
  ASSUME Typed, world' = world, Kept
  PROVE  HashTyped'
<1>1. heap' \in Seq(Entries)'
  BY SameWorld DEF Kept
<1> QED
  BY <1>1 DEF Typed, HashTyped, Kept

LEMMA HashStays ==
  ASSUME Typed, world' = world, heap' = heap, table' = table
  PROVE  HashTyped'
<1>1. heap' \in Seq(Entries)'
  BY SameWorld DEF Typed, HashTyped
<1> QED
  BY <1>1 DEF Typed, HashTyped

\* The operands of add are what it expects.
LEMMA ConnectAdds ==
  ASSUME Typed, OnConnect, At \notin world.spoofs
  PROVE  /\ At \in Conns /\ AtNick \in Nicks /\ world.ip[At] \in Ips
         /\ At = lines[1].conn /\ AtNick = lines[1].nick
         /\ Add(At, AtNick, world.ip[At], FALSE, FALSE)
         /\ Grown(At, AtNick, world.ip[At], FALSE, FALSE,
                  Reported(At, AtNick, world.ip[At], FALSE, FALSE))
<1>1. /\ At \in Conns /\ AtNick \in Nicks /\ world.ip[At] \in Ips
      /\ At = lines[1].conn /\ AtNick = lines[1].nick
  <2>1. Reads("connect")
    BY DEF OnConnect
  <2> QED
    BY <2>1, NextLine, WorldFacts DEF Typed
<1>2. Add(At, AtNick, world.ip[At], FALSE, FALSE)
  BY DEF OnConnect
<1> QED
  BY <1>1, <1>2, AddGrows

TraceIp == IF world.traceIp THEN world.ip[At] ELSE NoIp
LEMMA TraceAdds ==
  ASSUME Typed, OnTraceUser, gettingTrace, At \notin world.spoofs
  PROVE  /\ At \in Conns /\ AtNick \in Nicks /\ TraceIp \in Ips /\ lines[1].oper \in BOOLEAN
         /\ At = lines[1].conn /\ AtNick = lines[1].nick
         /\ Add(At, AtNick, TraceIp, TRUE, lines[1].oper)
         /\ Grown(At, AtNick, TraceIp, TRUE, lines[1].oper,
                  Reported(At, AtNick, TraceIp, TRUE, lines[1].oper))
<1>1. /\ At \in Conns /\ AtNick \in Nicks /\ TraceIp \in Ips /\ lines[1].oper \in BOOLEAN
      /\ At = lines[1].conn /\ AtNick = lines[1].nick /\ Head(lines) = lines[1]
  <2>1. Reads("user")
    BY DEF OnTraceUser
  <2> QED
    BY <2>1, NextLine, WorldFacts DEF Typed, TraceIp
<1>2. Add(At, AtNick, TraceIp, TRUE, Head(lines).oper)
  BY DEF OnTraceUser, TraceIp
<1>3. Add(At, AtNick, TraceIp, TRUE, lines[1].oper)
  BY <1>1, <1>2
<1> QED
  BY <1>1, <1>3, AddGrows

LEMMA ExitShrinks ==
  ASSUME Typed, OnExit
  PROVE  /\ At \in Conns /\ AtNick \in Nicks
         /\ At = lines[1].conn /\ AtNick = lines[1].nick
         /\ Shrunk(At, AtNick)
<1>1. /\ At \in Conns /\ AtNick \in Nicks
      /\ At = lines[1].conn /\ AtNick = lines[1].nick
  <2>1. Reads("exit")
    BY DEF OnExit
  <2> QED
    BY <2>1, NextLine
<1>2. RemoveUser(At, AtNick)
  BY DEF OnExit
<1> QED
  BY <1>1, <1>2, RemoveShrinks

\* The kinds of steps, and what they do with the hash
Quiescent == heap' = heap /\ table' = table
LEMMA HashStep ==
  ASSUME Typed, [Next]_vars
  PROVE  /\ world' = world
         /\ \/ Quiescent
            \/ OnConnect /\ At \notin world.spoofs
            \/ OnTraceUser /\ gettingTrace /\ At \notin world.spoofs
            \/ OnExit
            \/ OnNick /\ Kept
            \/ OnOper /\ Kept
            \/ OnVersionReply /\ Kept
            \/ CheckVersionTimeout /\ Kept
            \/ Trace /\ heap' = heap /\ table' = [t \in Tables |-> <<>>]
<1>1. ASSUME NEW c \in Conns, NEW n \in Nicks, Connect(c, n) \/ ChangeNick(c, n)
      PROVE  world' = world /\ Quiescent
  BY <1>1 DEF Connect, ChangeNick, ServerSide, hash, Quiescent
<1>2. ASSUME NEW c \in Conns, Exit(c) \/ OperUp(c)
      PROVE  world' = world /\ Quiescent
  BY <1>2 DEF Exit, OperUp, ServerSide, hash, Quiescent
<1>3. CASE Serve \/ CheckUserDelta \/ Tick \/ OnEndOfTrace \/ UNCHANGED vars
  BY <1>3 DEF Serve, CheckUserDelta, Tick, OnEndOfTrace, BotSide, vars, hash, Quiescent
<1>4. CASE OnConnect
  BY <1>4 DEF OnConnect, BotSide, Quiescent
<1>5. CASE OnTraceUser
  BY <1>5 DEF OnTraceUser, BotSide, Quiescent
<1>6. CASE OnExit
  BY <1>6 DEF OnExit, BotSide
<1>7. CASE OnNick
  BY <1>7, NickKept DEF OnNick, BotSide
<1>8. CASE OnOper
  BY <1>8, OperKept DEF OnOper, BotSide
<1>9. CASE OnVersionReply
  BY <1>9, VersionKept DEF OnVersionReply, BotSide
<1>10. CASE CheckVersionTimeout
  BY <1>10, TimeoutKept DEF CheckVersionTimeout, BotSide
<1>11. CASE Trace
  BY <1>11 DEF Trace, Clear
<1> QED
  BY <1>1, <1>2, <1>3, <1>4, <1>5, <1>6, <1>7, <1>8, <1>9, <1>10, <1>11 DEF Next, Read

LEMMA HashTypedStep ==
  ASSUME Typed, [Next]_vars
  PROVE  HashTyped' /\ world' = world
<1>1. world' = world
  BY HashStep
<1>2. CASE OnConnect /\ At \notin world.spoofs
  BY <1>1, <1>2, ConnectAdds, GrownTyped
<1>3. CASE OnTraceUser /\ gettingTrace /\ At \notin world.spoofs
  BY <1>1, <1>3, TraceAdds, GrownTyped
<1>4. CASE OnExit
  BY <1>1, <1>4, ExitShrinks, ShrunkTyped
<1>5. CASE Trace /\ heap' = heap /\ table' = [t \in Tables |-> <<>>]
  <2>1. heap' \in Seq(Entries)'
    BY <1>1, <1>5, SameWorld DEF Typed, HashTyped
  <2>2. table' \in [Tables -> Seq(Nat)] /\ \A t \in Tables : Len(table'[t]) = 0
    BY <1>5
  <2>3. \A t \in Tables : \A k \in 1 .. Len(table'[t]) : table'[t][k] \in 1 .. Len(heap')
    BY <2>2
  <2> QED
    BY <1>1, <2>1, <2>2, <2>3 DEF HashTyped
<1> QED
  BY <1>1, <1>2, <1>3, <1>4, <1>5, HashStep, HashStays, KeptTyped DEF Quiescent

\* The server lists its clients, each once.
LEMMA Listing ==
  ASSUME NEW S, IsFiniteSet(S), NEW s \in SetToSeqs(S)
  PROVE  /\ s \in Seq(S) /\ Len(s) \in Nat /\ DOMAIN s = 1 .. Len(s)
         /\ \A i, j \in 1 .. Len(s) : s[i] = s[j] => i = j
         /\ \A c \in S : \E k \in 1 .. Len(s) : s[k] = c
<1> DEFINE n == Cardinality(S)
<1>1. n \in Nat
  BY FS_CardinalityType
<1> HIDE DEF n
<1>2. s \in [1 .. n -> S] /\ \A i, j \in 1 .. n : i # j => s[i] # s[j]
  BY DEF SetToSeqs, n
<1>3. s \in Seq(S) /\ Len(s) = n /\ DOMAIN s = 1 .. n
  BY <1>1, <1>2, IsSeq
<1>4. s \in Injection(1 .. n, S)
  BY <1>2 DEF Injection, IsInjective
<1>5. IsFiniteSet(1 .. n) /\ Cardinality(1 .. n) = n
  BY <1>1, FS_Interval
<1>6. s \in Surjection(1 .. n, S)
  BY <1>4, <1>5, FS_Injection DEF n
<1>7. \A c \in S : \E k \in 1 .. n : s[k] = c
  BY <1>6 DEF Surjection
<1> QED
  BY <1>1, <1>2, <1>3, <1>7

\* What the server sends in reply to a TRACE: a line for each client that is
\* online, in some order, and the end.
Replies(s) ==
  /\ lines' \in Seq(Said) /\ Len(lines') = Len(lines) + Len(s) + 1 /\ Len(s) \in Nat
  /\ \A i, j \in 1 .. Len(s) : s[i] = s[j] => i = j
  /\ \A k \in 1 .. Len(s) : s[k] \in Online
  /\ \A c \in Online : \E k \in 1 .. Len(s) : s[k] = c
  /\ \A p \in 1 .. Len(lines) : lines'[p] = lines[p]
  /\ \A k \in 1 .. Len(s) :
       /\ lines'[Len(lines) + k].type = "user" /\ lines'[Len(lines) + k].conn = s[k]
       /\ lines'[Len(lines) + k].nick = nick[s[k]]
       /\ lines'[Len(lines) + k].oper = oper[s[k]]
  /\ lines'[Len(lines) + Len(s) + 1].type = "endtrace"

LEMMA TraceReplies ==
  ASSUME Typed, Serve, Head(out) = "TRACE"
  PROVE  \E s : Replies(s)
<1>1. PICK s \in SetToSeqs(Online) :
        lines' = lines \o [k \in DOMAIN s |->
                             [Line("user", s[k], nick[s[k]]) EXCEPT !.oper = oper[s[k]]]]
                       \o <<Line("endtrace", "none", "none")>>
  BY DEF Serve
<1>2. IsFiniteSet(Online)
  BY ConnsAreFinite, FS_Subset DEF Online
<1>3. /\ s \in Seq(Online) /\ Len(s) \in Nat /\ DOMAIN s = 1 .. Len(s)
      /\ \A i, j \in 1 .. Len(s) : s[i] = s[j] => i = j
      /\ \A c \in Online : \E k \in 1 .. Len(s) : s[k] = c
  BY <1>2, Listing
<1>4. \A k \in 1 .. Len(s) : s[k] \in Online
  BY <1>3
<1>5. PICK l : l = [k \in 1 .. Len(s) |->
                      [Line("user", s[k], nick[s[k]]) EXCEPT !.oper = oper[s[k]]]]
  OBVIOUS
<1>6. PICK e : e = Line("endtrace", "none", "none")
  OBVIOUS
<1>7. lines' = (lines \o l) \o <<e>>
  BY <1>1, <1>3, <1>5, <1>6
<1>8. ASSUME NEW k \in 1 .. Len(s)
      PROVE  /\ l[k] \in Said /\ l[k].type = "user" /\ l[k].conn = s[k]
             /\ l[k].nick = nick[s[k]] /\ l[k].oper = oper[s[k]]
  <2>1. s[k] \in Conns /\ nick[s[k]] \in Nicks /\ oper[s[k]] \in BOOLEAN
    BY <1>4 DEF Typed, ServerTyped, Online
  <2>2. l[k] = [type |-> "user", conn |-> s[k], nick |-> nick[s[k]], new |-> nick[s[k]],
                oper |-> oper[s[k]]]
    BY <1>5 DEF Line
  <2> QED
    <3>1. l[k] \in SomeLine
      BY <2>1, <2>2 DEF SomeLine, Types
    <3>2. /\ l[k].type = "user" /\ l[k].conn = s[k]
          /\ l[k].nick = nick[s[k]] /\ l[k].oper = oper[s[k]]
      BY <2>1, <2>2
    <3> QED
      BY <2>1, <3>1, <3>2 DEF Said
<1>9. e \in Said /\ e.type = "endtrace"
  <2>1. e = [type |-> "endtrace", conn |-> "none", nick |-> "none", new |-> "none",
             oper |-> FALSE]
    BY <1>6 DEF Line
  <2> QED
    <3>1. e \in SomeLine
      BY <2>1 DEF SomeLine, Types
    <3>2. e.type = "endtrace"
      BY <2>1
    <3> QED
      BY <3>1, <3>2 DEF Said
<1>10. l \in Seq(Said) /\ Len(l) = Len(s)
  <2>1. l \in [1 .. Len(s) -> Said]
    BY <1>5, <1>8
  <2> QED
    BY <1>3, <2>1, IsSeq
<1>11. lines \in Seq(Said) /\ Len(lines) \in Nat
  BY DEF Typed, ServerTyped
<1>12. PICK m : m = lines \o l
  OBVIOUS
<1>13. /\ m \in Seq(Said) /\ Len(m) = Len(lines) + Len(s)
       /\ \A i \in 1 .. Len(lines) : m[i] = lines[i]
       /\ \A k \in 1 .. Len(s) : m[Len(lines) + k] = l[k]
  BY <1>10, <1>11, <1>12, Joined
<1>14. PICK t : t = <<e>>
  OBVIOUS
<1>15. t \in Seq(Said) /\ Len(t) = 1 /\ t[1] = e /\ lines' = m \o t
  BY <1>7, <1>9, <1>12, <1>14
<1>16. /\ lines' \in Seq(Said) /\ Len(lines') = Len(m) + 1
       /\ \A i \in 1 .. Len(m) : lines'[i] = m[i]
       /\ \A k \in 1 .. Len(t) : lines'[Len(m) + k] = t[k]
  <2>1. m \in Seq(Said) /\ t \in Seq(Said) /\ lines' = m \o t
    BY <1>13, <1>15
  <2>2. /\ lines' \in Seq(Said) /\ Len(lines') = Len(m) + Len(t)
        /\ \A i \in 1 .. Len(m) : lines'[i] = m[i]
        /\ \A k \in 1 .. Len(t) : lines'[Len(m) + k] = t[k]
    BY <2>1, Joined
  <2> QED
    BY <1>15, <2>2
<1>17. lines'[Len(lines) + Len(s) + 1] = e
  BY <1>13, <1>15, <1>16
<1>18. \A p \in 1 .. Len(lines) : lines'[p] = lines[p]
  BY <1>3, <1>11, <1>13, <1>16
<1>19. ASSUME NEW k \in 1 .. Len(s) PROVE lines'[Len(lines) + k] = l[k]
  <2>1. Len(lines) + k \in 1 .. Len(m)
    BY <1>3, <1>11, <1>13
  <2> QED
    BY <1>13, <1>16, <2>1
<1>20. Len(lines') = Len(lines) + Len(s) + 1
  BY <1>3, <1>11, <1>13, <1>16
<1>21. \A k \in 1 .. Len(s) :
         /\ lines'[Len(lines) + k].type = "user" /\ lines'[Len(lines) + k].conn = s[k]
         /\ lines'[Len(lines) + k].nick = nick[s[k]]
         /\ lines'[Len(lines) + k].oper = oper[s[k]]
  BY <1>8, <1>19
<1>22. lines'[Len(lines) + Len(s) + 1].type = "endtrace"
  BY <1>9, <1>17
<1>23. lines' \in Seq(Said)
  BY <1>16
<1>24. Replies(s)
  BY <1>3, <1>4, <1>18, <1>20, <1>21, <1>22, <1>23 DEF Replies
<1> QED
  BY <1>24

\* What it sends otherwise: one line, or nothing.
Says(l) ==
  /\ l \in Said /\ lines' \in Seq(Said) /\ Len(lines') = Len(lines) + 1
  /\ \A p \in 1 .. Len(lines) : lines'[p] = lines[p]
  /\ lines'[Len(lines) + 1] = l

LEMMA LineIs ==
  ASSUME NEW type \in Types \ {"endtrace"}, NEW c \in Conns, NEW n \in Nicks,
         NEW l, l = Line(type, c, n)
  PROVE  /\ l \in Said /\ l.type = type /\ l.conn = c /\ l.nick = n
<1>1. l \in SomeLine /\ l.type = type /\ l.conn = c /\ l.nick = n
  BY DEF Line, SomeLine
<1> QED
  BY <1>1 DEF Said

LEMMA OneSaid ==
  ASSUME Typed, NEW l \in Said, lines' = Append(lines, l)
  PROVE  Says(l)
<1>1. lines \in Seq(Said)
  BY DEF Typed, ServerTyped
<1> QED
  BY <1>1 DEF Says

\* One line of a type, from a connection with a nickname
Told(type, c, n) == \E l : Says(l) /\ l.type = type /\ l.conn = c /\ l.nick = n

LEMMA TellsIf ==
  ASSUME Typed, NEW type \in Types \ {"endtrace"}, NEW c \in Conns, NEW n \in Nicks,
         lines' = Append(lines, Line(type, c, n))
  PROVE  Told(type, c, n)
<1>1. PICK l : l = Line(type, c, n)
  OBVIOUS
<1>2. l \in Said /\ l.type = type /\ l.conn = c /\ l.nick = n
  BY <1>1, LineIs
<1>3. Says(l)
  BY <1>1, <1>2, OneSaid
<1> QED
  BY <1>2, <1>3 DEF Told

\* The steps of the server: what it says, and what becomes true.
ConnectSays(c, n) == /\ phase[c] = "new" /\ (\A d \in Online : nick[d] # n)
                     /\ phase' = [phase EXCEPT ![c] = "on"] /\ nick' = [nick EXCEPT ![c] = n]
                     /\ oper' = oper /\ Told("connect", c, n)
ExitSays(c) == /\ phase[c] = "on" /\ phase' = [phase EXCEPT ![c] = "gone"]
               /\ nick' = nick /\ oper' = oper /\ Told("exit", c, nick[c])
NickSays(c, n) == /\ phase[c] = "on" /\ (\A d \in Online : nick[d] # n)
                  /\ nick' = [nick EXCEPT ![c] = n] /\ phase' = phase /\ oper' = oper
                  /\ \E l : /\ Says(l) /\ l.type = "nick" /\ l.conn = c
                            /\ l.nick = nick[c] /\ l.new = n
OperSays(c) == /\ phase[c] = "on" /\ oper' = [oper EXCEPT ![c] = TRUE]
               /\ phase' = phase /\ nick' = nick /\ Told("oper", c, nick[c])
SameTruth == phase' = phase /\ nick' = nick /\ oper' = oper
ServeSays == /\ SameTruth /\ out # <<>> /\ out' = Tail(out)
             /\ \/ Head(out) = "TRACE" /\ \E s : Replies(s)
                \/ /\ Head(out) # "TRACE"
                   /\ lines' = lines \/ \E c \in Online : Told("version", c, nick[c])
SameBot == UNCHANGED <<heap, table, userCount, previous, gettingTrace, now, history>>

LEMMA ServerStep ==
  ASSUME Typed
  PROVE  /\ \A c \in Conns, n \in Nicks : Connect(c, n) => ConnectSays(c, n) /\ SameBot /\ out' = out
         /\ \A c \in Conns, n \in Nicks : ChangeNick(c, n) => NickSays(c, n) /\ SameBot /\ out' = out
         /\ \A c \in Conns : Exit(c) => ExitSays(c) /\ SameBot /\ out' = out
         /\ \A c \in Conns : OperUp(c) => OperSays(c) /\ SameBot /\ out' = out
         /\ Serve => ServeSays /\ SameBot
<1>0. \A c \in Conns : phase[c] = "on" => nick[c] \in Nicks
  BY DEF Typed, ServerTyped
<1>1. ASSUME NEW c \in Conns, NEW n \in Nicks, Connect(c, n)
      PROVE  ConnectSays(c, n) /\ SameBot /\ out' = out
  <2>1. Told("connect", c, n)
    BY <1>1, TellsIf DEF Connect, Types
  <2> QED
    BY <1>1, <2>1 DEF Connect, ConnectSays, SameBot, ServerSide, hash, history
<1>2. ASSUME NEW c \in Conns, NEW n \in Nicks, ChangeNick(c, n)
      PROVE  NickSays(c, n) /\ SameBot /\ out' = out
  <2>1. PICK l : l = [Line("nick", c, nick[c]) EXCEPT !.new = n]
    OBVIOUS
  <2>2. phase[c] = "on" /\ nick[c] \in Nicks
    BY <1>0, <1>2 DEF ChangeNick
  <2>3. l \in Said /\ l.type = "nick" /\ l.conn = c /\ l.nick = nick[c] /\ l.new = n
    <3>1. PICK m : m = nick[c]
      OBVIOUS
    <3>2. m \in Nicks /\ l = [Line("nick", c, m) EXCEPT !.new = n]
      BY <2>1, <2>2, <3>1
    <3>3. l \in Said /\ l.type = "nick" /\ l.conn = c /\ l.nick = m /\ l.new = n
      <4>1. l \in SomeLine /\ l.type = "nick" /\ l.conn = c /\ l.nick = m /\ l.new = n
        BY <3>2 DEF Line, SomeLine, Types
      <4> QED
        BY <3>2, <4>1 DEF Said
    <3> QED
      BY <3>1, <3>3
  <2>4. Says(l)
    BY <1>2, <2>1, <2>3, OneSaid DEF ChangeNick
  <2> QED
    BY <1>2, <2>3, <2>4 DEF ChangeNick, NickSays, SameBot, ServerSide, hash, history
<1>3. ASSUME NEW c \in Conns, Exit(c)
      PROVE  ExitSays(c) /\ SameBot /\ out' = out
  <2>1. Told("exit", c, nick[c])
    BY <1>0, <1>3, TellsIf DEF Exit, Types
  <2> QED
    BY <1>3, <2>1 DEF Exit, ExitSays, SameBot, ServerSide, hash, history
<1>4. ASSUME NEW c \in Conns, OperUp(c)
      PROVE  OperSays(c) /\ SameBot /\ out' = out
  <2>1. Told("oper", c, nick[c])
    BY <1>0, <1>4, TellsIf DEF OperUp, Types
  <2> QED
    BY <1>4, <2>1 DEF OperUp, OperSays, SameBot, ServerSide, hash, history
<1>5. ASSUME Serve
      PROVE  ServeSays /\ SameBot
  <2>1. SameBot /\ SameTruth /\ out # <<>> /\ out' = Tail(out)
    BY <1>5 DEF Serve, SameBot, SameTruth, server, hash, history
  <2>2. CASE Head(out) = "TRACE"
    BY <1>5, <2>1, <2>2, TraceReplies DEF ServeSays
  <2>3. CASE Head(out) # "TRACE"
    <3>1. \/ lines' = lines
          \/ \E c \in Online : lines' = Append(lines, Line("version", c, nick[c]))
      BY <1>5, <2>3 DEF Serve
    <3>2. ASSUME NEW c \in Online, lines' = Append(lines, Line("version", c, nick[c]))
          PROVE  Told("version", c, nick[c])
      BY <1>0, <3>2, TellsIf DEF Types, Online
    <3> QED
      BY <2>1, <2>3, <3>1, <3>2 DEF ServeSays
  <2> QED
    BY <2>2, <2>3
<1> QED
  BY <1>1, <1>2, <1>3, <1>4, <1>5

\* The steps of the bot, as far as the stream of lines goes
Reading == /\ \/ OnConnect \/ OnExit \/ OnNick \/ OnOper \/ OnVersionReply
              \/ OnTraceUser \/ OnEndOfTrace
           /\ SameTruth /\ now' = now
Aside == /\ Trace \/ CheckVersionTimeout \/ CheckUserDelta \/ Tick \/ UNCHANGED vars
         /\ SameTruth /\ lines' = lines

LEMMA Steps ==
  ASSUME Typed, [Next]_vars
  PROVE  \/ \E c \in Conns, n \in Nicks : Connect(c, n) \/ ChangeNick(c, n)
         \/ \E c \in Conns : Exit(c) \/ OperUp(c)
         \/ Serve \/ Reading \/ Aside
<1>1. ASSUME Read PROVE Reading
  <2>1. BotSide
    BY <1>1 DEF Read, OnConnect, OnExit, OnNick, OnOper, OnVersionReply, OnTraceUser,
                OnEndOfTrace
  <2>2. SameTruth /\ now' = now
    BY <2>1 DEF BotSide, server, SameTruth
  <2> QED
    BY <1>1, <2>2 DEF Read, Reading
<1>2. ASSUME Trace \/ CheckVersionTimeout \/ CheckUserDelta \/ Tick \/ UNCHANGED vars
      PROVE  Aside
  <2>1. CASE Trace
    BY <2>1 DEF Trace, server, SameTruth, Aside
  <2>2. CASE CheckVersionTimeout
    BY <2>2 DEF CheckVersionTimeout, BotSide, server, SameTruth, Aside
  <2>3. CASE CheckUserDelta
    BY <2>3 DEF CheckUserDelta, BotSide, server, SameTruth, Aside
  <2>4. CASE Tick
    BY <2>4 DEF Tick, server, SameTruth, Aside
  <2>5. CASE UNCHANGED vars
    BY <2>5 DEF vars, server, SameTruth, Aside
  <2> QED
    BY <1>2, <2>1, <2>2, <2>3, <2>4, <2>5
<1> QED
  BY <1>1, <1>2 DEF Next

LEMMA ReadingNext ==
  ASSUME Typed, Reading
  PROVE  /\ \E type \in Types : Reads(type)
         /\ Len(lines) \in Nat \ {0} /\ lines' \in Seq(Said) /\ Len(lines') = Len(lines) - 1
         /\ \A p \in 1 .. Len(lines) - 1 : lines'[p] = lines[p + 1]
<1>1. PICK type \in Types : Reads(type)
  BY DEF Reading, OnConnect, OnExit, OnNick, OnOper, OnVersionReply, OnTraceUser,
         OnEndOfTrace, Types
<1> QED
  BY <1>1, NextLine

LEMMA LinesTyped ==
  ASSUME Typed, [Next]_vars
  PROVE  lines' \in Seq(Said)
<1>0. lines \in Seq(Said)
  BY DEF Typed, ServerTyped
<1>1. ASSUME NEW c \in Conns, NEW n \in Nicks, Connect(c, n) \/ ChangeNick(c, n)
      PROVE  lines' \in Seq(Said)
  BY <1>1, ServerStep DEF ConnectSays, NickSays, Told, Says
<1>2. ASSUME NEW c \in Conns, Exit(c) \/ OperUp(c)
      PROVE  lines' \in Seq(Said)
  BY <1>2, ServerStep DEF ExitSays, OperSays, Told, Says
<1>3. CASE Serve
  BY <1>0, <1>3, ServerStep DEF ServeSays, Told, Says, Replies
<1>4. CASE Reading
  BY <1>4, ReadingNext
<1>5. CASE Aside
  BY <1>0, <1>5 DEF Aside
<1> QED
  BY <1>1, <1>2, <1>3, <1>4, <1>5, Steps

LEMMA TruthTyped ==
  ASSUME Typed, [Next]_vars
  PROVE  /\ phase' \in [Conns -> {"new", "on", "gone"}]
         /\ nick' \in [Conns -> Nicks \cup {"none"}]
         /\ oper' \in [Conns -> BOOLEAN]
         /\ \A c \in Conns : phase'[c] = "on" => nick'[c] \in Nicks
<1>0. /\ phase \in [Conns -> {"new", "on", "gone"}]
      /\ nick \in [Conns -> Nicks \cup {"none"}]
      /\ oper \in [Conns -> BOOLEAN]
      /\ \A c \in Conns : phase[c] = "on" => nick[c] \in Nicks
  BY DEF Typed, ServerTyped
<1>1. ASSUME NEW c \in Conns, NEW n \in Nicks, Connect(c, n)
      PROVE  phase' = [phase EXCEPT ![c] = "on"] /\ nick' = [nick EXCEPT ![c] = n] /\ oper' = oper
  BY <1>1, ServerStep DEF ConnectSays
<1>2. ASSUME NEW c \in Conns, NEW n \in Nicks, ChangeNick(c, n)
      PROVE  phase' = phase /\ nick' = [nick EXCEPT ![c] = n] /\ oper' = oper
  BY <1>2, ServerStep DEF NickSays
<1>3. ASSUME NEW c \in Conns, Exit(c)
      PROVE  phase' = [phase EXCEPT ![c] = "gone"] /\ nick' = nick /\ oper' = oper
  BY <1>3, ServerStep DEF ExitSays
<1>4. ASSUME NEW c \in Conns, OperUp(c)
      PROVE  phase' = phase /\ nick' = nick /\ oper' = [oper EXCEPT ![c] = TRUE]
  BY <1>4, ServerStep DEF OperSays
<1>5. CASE Serve \/ Reading \/ Aside
  BY <1>0, <1>5, ServerStep DEF ServeSays, Reading, Aside, SameTruth
<1>6. CASE \E c \in Conns, n \in Nicks : Connect(c, n)
  BY <1>0, <1>1, <1>6
<1>7. CASE \E c \in Conns, n \in Nicks : ChangeNick(c, n)
  BY <1>0, <1>2, <1>7
<1>8. CASE \E c \in Conns : Exit(c)
  BY <1>0, <1>3, <1>8
<1>9. CASE \E c \in Conns : OperUp(c)
  BY <1>0, <1>4, <1>9
<1> QED
  BY <1>5, <1>6, <1>7, <1>8, <1>9, Steps

\* What the bot writes: VERSION requests and at times a TRACE.
LEMMA OutStep ==
  ASSUME Typed, [Next]_vars
  PROVE  \/ out' = out
         \/ Serve /\ out # <<>> /\ out' = Tail(out)
         \/ Trace /\ out' = Append(out, "TRACE")
         \/ /\ out' \in Seq(Nicks \cup {"TRACE"})
            /\ \A k \in DOMAIN out' : out'[k] = "TRACE" => k \in DOMAIN out
            /\ \A k \in DOMAIN out : k \in DOMAIN out' /\ out'[k] = out[k]
<1>1. ASSUME NEW c \in Conns, NEW n \in Nicks, Connect(c, n) \/ ChangeNick(c, n)
      PROVE  out' = out
  BY <1>1, ServerStep
<1>2. ASSUME NEW c \in Conns, Exit(c) \/ OperUp(c)
      PROVE  out' = out
  BY <1>2, ServerStep
<1>3. CASE Serve
  BY <1>3 DEF Serve
<1>4. CASE OnConnect
  <2>1. CASE At \in world.spoofs
    BY <1>4, <2>1 DEF OnConnect
  <2>2. CASE At \notin world.spoofs
    BY <1>4, <2>2, ConnectAdds DEF Grown
  <2> QED
    BY <2>1, <2>2
<1>5. CASE OnTraceUser
  <2>1. CASE ~gettingTrace \/ At \in world.spoofs
    BY <1>5, <2>1 DEF OnTraceUser
  <2>2. CASE gettingTrace /\ At \notin world.spoofs
    BY <1>5, <2>2, TraceAdds DEF Grown
  <2> QED
    BY <2>1, <2>2
<1>6. CASE OnExit \/ OnNick \/ OnOper \/ OnVersionReply \/ OnEndOfTrace
  BY <1>6 DEF OnExit, OnNick, OnOper, OnVersionReply, OnEndOfTrace
<1>7. CASE CheckVersionTimeout \/ CheckUserDelta \/ Tick \/ UNCHANGED vars
  BY <1>7 DEF CheckVersionTimeout, CheckUserDelta, Tick, vars
<1>8. CASE Trace
  BY <1>8 DEF Trace
<1> QED
  BY <1>1, <1>2, <1>3, <1>4, <1>5, <1>6, <1>7, <1>8 DEF Next, Read

LEMMA OutTyped ==
  ASSUME Typed, [Next]_vars
  PROVE  out' \in Seq(Nicks \cup {"TRACE"})
<1>1. out \in Seq(Nicks \cup {"TRACE"}) /\ "TRACE" \in Nicks \cup {"TRACE"}
  BY DEF Typed, ServerTyped
<1> QED
  BY <1>1, OutStep

LEMMA ClockStep ==
  ASSUME Typed, [Next]_vars
  PROVE  /\ now' \in Nat /\ now' >= now
         /\ told' \in [Keys -> Nat] /\ \A k \in Keys : told'[k] <= now' /\ told'[k] >= told[k]
<1>0. /\ now \in Nat /\ told \in [Keys -> Nat] /\ \A k \in Keys : told[k] <= now
  BY DEF Typed, ClockTyped
<1>1. ASSUME NEW c, NEW n, NEW ip, NEW fromTrace, NEW isOper, Add(c, n, ip, fromTrace, isOper)
      PROVE  told' \in [Keys -> Nat] /\ \A k \in Keys : told'[k] \in {now, told[k]}
  <2>1. \E B : told' = [k \in Keys |-> IF k \in B THEN now ELSE told[k]]
    <3>1. PICK h : h = Append(heap, NewEntry(c, n, ip, fromTrace, isOper))
      OBVIOUS
    <3>2. PICK clones : clones = IF Checked(c, fromTrace) THEN NewClones(h, c, ip) ELSE {}
      OBVIOUS
    <3>3. told' = [k \in Keys |->
                     IF \E i \in clones : k \in {Host(h[i].conn), Subnet(h[i].ip)}
                       THEN now ELSE told[k]]
      BY <1>1, <3>1, <3>2 DEF Add
    <3>4. PICK B : B = {k \in Keys : \E i \in clones : k \in {Host(h[i].conn), Subnet(h[i].ip)}}
      OBVIOUS
    <3>5. told' = [k \in Keys |-> IF k \in B THEN now ELSE told[k]]
      BY <3>3, <3>4
    <3> QED
      BY <3>5
  <2> QED
    BY <1>0, <2>1
<1>2. \/ told' = told
      \/ told' \in [Keys -> Nat] /\ \A k \in Keys : told'[k] \in {now, told[k]}
  <2>1. ASSUME NEW c \in Conns, NEW n \in Nicks, Connect(c, n) \/ ChangeNick(c, n)
        PROVE  told' = told
    BY <2>1 DEF Connect, ChangeNick, ServerSide, history
  <2>2. ASSUME NEW c \in Conns, Exit(c) \/ OperUp(c)
        PROVE  told' = told
    BY <2>2 DEF Exit, OperUp, ServerSide, history
  <2>3. CASE OnConnect
    BY <1>1, <2>3 DEF OnConnect
  <2>4. CASE OnTraceUser
    BY <1>1, <2>4 DEF OnTraceUser
  <2>5. CASE Serve \/ OnExit \/ OnNick \/ OnOper \/ OnVersionReply \/ OnEndOfTrace
    BY <2>5 DEF Serve, OnExit, OnNick, OnOper, OnVersionReply, OnEndOfTrace, history
  <2>6. CASE Trace \/ CheckVersionTimeout \/ CheckUserDelta \/ Tick \/ UNCHANGED vars
    BY <2>6 DEF Trace, CheckVersionTimeout, CheckUserDelta, Tick, vars, history
  <2> QED
    BY <2>1, <2>2, <2>3, <2>4, <2>5, <2>6 DEF Next, Read
<1>3. now' = now \/ Tick
  <2>1. ASSUME NEW c \in Conns, NEW n \in Nicks, Connect(c, n) \/ ChangeNick(c, n)
        PROVE  now' = now
    BY <2>1 DEF Connect, ChangeNick, ServerSide
  <2>2. ASSUME NEW c \in Conns, Exit(c) \/ OperUp(c)
        PROVE  now' = now
    BY <2>2 DEF Exit, OperUp, ServerSide
  <2>3. CASE Read
    BY <2>3 DEF Read, OnConnect, OnExit, OnNick, OnOper, OnVersionReply, OnTraceUser,
                OnEndOfTrace, BotSide
  <2>4. CASE Serve \/ Trace \/ CheckVersionTimeout \/ CheckUserDelta \/ UNCHANGED vars
    BY <2>4 DEF Serve, Trace, CheckVersionTimeout, CheckUserDelta, vars, BotSide
  <2> QED
    BY <2>1, <2>2, <2>3, <2>4 DEF Next
<1>4. CASE Tick
  <2>1. now' = now + 1 /\ told' = told
    BY <1>4 DEF Tick, history
  <2> QED
    BY <1>0, <2>1
<1>5. CASE now' = now
  BY <1>0, <1>2, <1>5
<1> QED
  BY <1>3, <1>4, <1>5

LEMMA TypedStep ==
  ASSUME Typed, [Next]_vars
  PROVE  Typed' /\ world' = world
<1>1. HashTyped' /\ world' = world
  BY HashTypedStep
<1>2. ServerTyped'
  BY TruthTyped, LinesTyped, OutTyped DEF ServerTyped, Said, SomeLine
<1>3. ClockTyped'
  <2>1. Start \in Nat /\ Start' = Start /\ now >= Start /\ now \in Nat
    BY SettingsArePositive DEF Start, Typed, ClockTyped
  <2>2. now' >= Start
    BY <2>1, ClockStep
  <2> QED
    BY <1>1, <2>1, <2>2, ClockStep, SameWorld DEF ClockTyped
<1> QED
  BY <1>1, <1>2, <1>3 DEF Typed

\* The types of the state, for any clients, worlds and settings
THEOREM TypeInvariance == Spec => []Typed
<1>1. Init => Typed
  <2> SUFFICES ASSUME Init PROVE Typed
    OBVIOUS
  <2>1. ServerTyped
    BY DEF Init, ServerTyped, Online
  <2>2. ClockTyped
    BY SettingsArePositive DEF Init, ClockTyped, Start
  <2>3. HashTyped
    BY DEF Init, HashTyped
  <2> QED
    BY <2>1, <2>2, <2>3 DEF Typed, Init
<1> QED
  BY <1>1, TypedStep, PTL DEF Spec

-----------------------------------------------------------------------------
(* The reports of clones                                                   *)

KeyOf(t, e) == IF t = "host" THEN Host(e.conn) ELSE Subnet(e.ip)
With(t, id) ==
  {j \in ToSet(table[t]) : /\ j <= id /\ heap[j].report = 0 /\ heap[j].at > 0
                           /\ heap[id].at - heap[j].at <= CloneMaxTime
                           /\ KeyOf(t, heap[j]) = KeyOf(t, heap[id])}
Heard(t, id) ==
  /\ t = "host" <=> heap[id].ip = NoIp
  /\ heap[id].at > 0 /\ heap[id].report = 0 /\ heap[id].conn \notin world.friends
  /\ Cardinality(With(t, id)) >= CloneMinCount
  => heap[id].at - told[KeyOf(t, heap[id])] < CloneReportInterval

LEMMA ClonesToldIs ==
  ClonesTold <=> \A t \in {"host", "ip"} : \A id \in ToSet(table[t]) : Heard(t, id)
BY DEF ClonesTold, Heard, With, KeyOf

\* A report is known under the host and the net of the clone.
ReportsKnown ==
  \A i \in 1 .. Len(heap) : heap[i].report > 0 =>
    /\ heap[i].report <= told[Host(heap[i].conn)]
    /\ heap[i].report <= told[Subnet(heap[i].ip)]

LEMMA EntryFacts ==
  ASSUME Typed, NEW i \in 1 .. Len(heap)
  PROVE  /\ heap[i] \in Entries /\ heap[i].report \in Nat /\ heap[i].at \in Nat
         /\ heap[i].conn \in Conns /\ heap[i].ip \in Ips
         /\ Host(heap[i].conn) \in Keys /\ Subnet(heap[i].ip) \in Keys
         /\ \A t : KeyOf(t, heap[i]) \in Keys
<1>1. heap[i] \in Entries
  BY DEF Typed, HashTyped
<1>2. /\ heap[i].report \in Nat /\ heap[i].at \in Nat
      /\ heap[i].conn \in Conns /\ heap[i].ip \in Ips
  BY <1>1 DEF Entries
<1>3. Host(heap[i].conn) \in Keys /\ Subnet(heap[i].ip) \in Keys
  BY <1>2, WorldFacts DEF Typed
<1> QED
  BY <1>1, <1>2, <1>3 DEF KeyOf

LEMMA TableFacts ==
  ASSUME Typed, NEW t \in Tables
  PROVE  /\ ToSet(table[t]) \in SUBSET (1 .. Len(heap)) /\ Len(heap) \in Nat
         /\ IsFiniteSet(ToSet(table[t])) /\ table[t] \in Seq(Nat) /\ Len(table[t]) \in Nat
         /\ \A id : id \in ToSet(table[t]) <=> \E k \in 1 .. Len(table[t]) : id = table[t][k]
<1>1. /\ table[t] \in Seq(Nat) /\ Len(heap) \in Nat /\ Len(table[t]) \in Nat
      /\ \A k \in 1 .. Len(table[t]) : table[t][k] \in 1 .. Len(heap)
  BY DEF Typed, HashTyped
<1>2. \A id : id \in ToSet(table[t]) <=> \E k \in 1 .. Len(table[t]) : id = table[t][k]
  BY <1>1 DEF ToSet
<1>3. ToSet(table[t]) \in SUBSET (1 .. Len(heap))
  BY <1>1, <1>2
<1>4. IsFiniteSet(1 .. Len(heap))
  BY <1>1, FS_Interval
<1> QED
  BY <1>1, <1>2, <1>3, <1>4, FS_Subset

\* What stays of the entries that were there
Endures(i) == /\ heap'[i].conn = heap[i].conn /\ heap'[i].ip = heap[i].ip
              /\ heap'[i].at = heap[i].at
              /\ heap'[i].report = heap[i].report \/ heap'[i].report = now

LEMMA HeardStep ==
  ASSUME Typed, Typed', world' = world, Len(heap') >= Len(heap),
         \A i \in 1 .. Len(heap) : Endures(i),
         \A k \in Keys : told'[k] >= told[k],
         NEW t \in {"host", "ip"}, NEW id \in 1 .. Len(heap),
         ToSet(table[t])' \subseteq ToSet(table[t]) \cup {Len(heap) + 1},
         id \in ToSet(table[t]), Heard(t, id)
  PROVE  Heard(t, id)'
<1>0. t \in Tables /\ now \in Nat /\ now > 0 /\ Len(heap) \in Nat
  BY SettingsArePositive DEF Tables, Typed, ClockTyped, Start, HashTyped
<1>1. ASSUME NEW i \in 1 .. Len(heap)
      PROVE  /\ heap[i].at \in Nat /\ heap[i].report \in Nat
             /\ heap'[i].at = heap[i].at /\ (heap'[i].report = 0 => heap[i].report = 0)
             /\ heap'[i].ip = heap[i].ip /\ heap'[i].conn = heap[i].conn
             /\ KeyOf(t, heap[i])' = KeyOf(t, heap[i]) /\ KeyOf(t, heap[i]) \in Keys
  <2>1. /\ heap[i].at \in Nat /\ heap[i].report \in Nat /\ KeyOf(t, heap[i]) \in Keys
    BY EntryFacts
  <2>2. Endures(i)
    OBVIOUS
  <2>3. KeyOf(t, heap[i])' = KeyOf(t, heap[i])
    BY <2>2, SameWorld DEF Endures, KeyOf
  <2> QED
    BY <1>0, <2>1, <2>2, <2>3 DEF Endures
<1>2. With(t, id)' \subseteq With(t, id)
  <2> SUFFICES ASSUME NEW j \in With(t, id)' PROVE j \in With(t, id)
    OBVIOUS
  <2>1. /\ j \in ToSet(table[t])' /\ j <= id /\ heap'[j].report = 0 /\ heap'[j].at > 0
        /\ heap'[id].at - heap'[j].at <= CloneMaxTime
        /\ KeyOf(t, heap[j])' = KeyOf(t, heap[id])'
    BY DEF With
  <2>2. j \in ToSet(table[t])
    BY <1>0, <2>1
  <2>3. j \in 1 .. Len(heap)
    BY <1>0, <2>2, TableFacts
  <2> QED
    BY <1>1, <2>1, <2>2, <2>3 DEF With
<1>3. IsFiniteSet(With(t, id)) /\ Cardinality(With(t, id)') <= Cardinality(With(t, id))
  <2>1. IsFiniteSet(With(t, id))
    BY <1>0, TableFacts, FS_Subset DEF With
  <2> QED
    BY <1>2, <2>1, FS_Subset
<1>4. Cardinality(With(t, id)) \in Nat /\ Cardinality(With(t, id)') \in Nat
  BY <1>2, <1>3, FS_Subset, FS_CardinalityType
<1>5. told[KeyOf(t, heap[id])] \in Nat /\ told'[KeyOf(t, heap[id])] \in Nat
      /\ told'[KeyOf(t, heap[id])] >= told[KeyOf(t, heap[id])]
  BY <1>1, SameWorld DEF Typed, ClockTyped
<1>6. (told[KeyOf(t, heap[id])])' = told'[KeyOf(t, heap[id])]
  BY <1>1
<1>7. SUFFICES ASSUME /\ t = "host" <=> heap'[id].ip = NoIp
                      /\ heap'[id].at > 0 /\ heap'[id].report = 0
                      /\ heap'[id].conn \notin world'.friends
                      /\ Cardinality(With(t, id)') >= CloneMinCount
               PROVE  heap'[id].at - (told[KeyOf(t, heap[id])])' < CloneReportInterval
  BY DEF Heard
<1>8. heap[id].at - told[KeyOf(t, heap[id])] < CloneReportInterval
  <2>1. Cardinality(With(t, id)) >= CloneMinCount
    BY <1>3, <1>4, <1>7, SettingsArePositive
  <2> QED
    BY <1>1, <1>7, <2>1 DEF Heard
<1> QED
  BY <1>1, <1>5, <1>6, <1>8, SettingsArePositive

\* A client that add does not report, although it is checked, is no clone of
\* enough others, or others were reported lately.
LEMMA DueFacts ==
  ASSUME NEW h, NEW like, IsFiniteSet(like), NEW n \in like, now \in Nat,
         \A i \in like : h[i].at \in Nat /\ h[i].report \in 0 .. now,
         h[n].at = now, h[n].report = 0, n \notin Due(h, like)
  PROVE  \/ Cardinality({i \in like : now - h[i].at <= CloneMaxTime}) < CloneMinCount
         \/ now < CloneReportInterval
         \/ \E i \in like : h[i].report > 0 /\ now - h[i].report < CloneReportInterval
<1> DEFINE recent == {i \in like : now - h[i].at <= CloneMaxTime}
           reported == {i \in recent : h[i].report > 0}
           R == {h[i].report : i \in reported}
           last == IF reported = {} THEN 0 ELSE Max(R)
<1>1. n \in recent \ reported
  BY SettingsArePositive
<1>2. \/ reported = {} /\ Cardinality(recent) < CloneMinCount
      \/ now - last < CloneReportInterval
  BY <1>1, Zenon DEF Due
<1>3. CASE reported = {}
  BY <1>2, <1>3
<1>4. CASE reported # {} /\ now - last < CloneReportInterval
  <2>0. \A i \in reported : h[i].report \in 0 .. now
    OBVIOUS
  <2>1. R \in SUBSET (0 .. now) /\ R # {}
    BY <1>4, <2>0
  <2>5. R \in SUBSET Nat /\ \A x \in R : x <= now
    BY <2>1
  <2>2. Max(R) \in R
    BY <2>1, <2>5, MaxOf
  <2>3. last = Max(R)
    BY <1>4
  <2>4. PICK i \in reported : h[i].report = Max(R)
    BY <2>2
  <2> QED
    BY <1>4, <2>3, <2>4
<1> QED
  BY <1>2, <1>3, <1>4

LEMMA NewHeard ==
  ASSUME Typed, Typed', world' = world, ReportsKnown,
         NEW c \in Conns, NEW n \in Nicks, NEW ip \in Ips, NEW fromTrace \in BOOLEAN,
         NEW isOper \in BOOLEAN, Add(c, n, ip, fromTrace, isOper),
         fromTrace \/ ip = world.ip[c],
         Grown(c, n, ip, fromTrace, isOper, Reported(c, n, ip, fromTrace, isOper)),
         \A k \in Keys : told'[k] >= told[k],
         NEW t \in {"host", "ip"}, NEW N, N = Len(heap) + 1
  PROVE  Heard(t, N)'
<1>0. /\ t \in Tables /\ now \in Nat /\ now > 0 /\ Len(heap) \in Nat
      /\ told \in [Keys -> Nat] /\ \A k \in Keys : told[k] <= now
  BY SettingsArePositive DEF Tables, Typed, ClockTyped, Start, HashTyped
<1>1. PICK h : h = Heap(c, n, ip, fromTrace, isOper)
  OBVIOUS
<1>2. PICK clones : clones = Reported(c, n, ip, fromTrace, isOper)
  OBVIOUS
<1>3. PICK e : e = NewEntry(c, n, ip, fromTrace, isOper)
  OBVIOUS
<1>4. /\ e.conn = c /\ e.ip = ip /\ e.report = 0
      /\ (e.at > 0 => ~fromTrace /\ e.at = now) /\ e.at \in Nat
  BY <1>0, <1>3 DEF NewEntry
<1>5. h \in Seq(Entries) /\ Len(h) = N /\ DOMAIN h = 1 .. N /\ h[N] = e
      /\ \A i \in 1 .. Len(heap) : h[i] = heap[i]
  BY <1>1, <1>3, HeapIs
<1>6. \A i \in 1 .. N : h[i] \in Entries
  BY <1>5
<1>7. \A i \in 1 .. N : heap'[i] = IF i \in clones THEN [h[i] EXCEPT !.report = now] ELSE h[i]
  <2>1. /\ \A i \in 1 .. Len(heap) :
             heap'[i] = IF i \in clones THEN [heap[i] EXCEPT !.report = now] ELSE heap[i]
        /\ heap'[N] = IF N \in clones THEN [e EXCEPT !.report = now] ELSE e
    BY <1>2, <1>3 DEF Grown
  <2>2. \A i \in 1 .. N : i \in 1 .. Len(heap) \/ i = N
    BY <1>0
  <2> QED
    BY <1>5, <2>1, <2>2
<1>8. ASSUME NEW i \in 1 .. N
      PROVE  /\ heap'[i].conn = h[i].conn /\ heap'[i].ip = h[i].ip /\ heap'[i].at = h[i].at
             /\ heap'[i].report = IF i \in clones THEN now ELSE h[i].report
             /\ h[i].at \in Nat /\ h[i].report \in Nat /\ h[i].ip \in Ips /\ h[i].conn \in Conns
  BY <1>6, <1>7 DEF Entries
<1>9. N \in 1 .. N /\ N \in Nat
  BY <1>0
<1>10. SUFFICES ASSUME /\ t = "host" <=> ip = NoIp
                       /\ e.at > 0 /\ N \notin clones /\ c \notin world.friends
                       /\ Cardinality(With(t, N)') >= CloneMinCount
                PROVE  now - told'[KeyOf(t, e)] < CloneReportInterval
  <2>1. /\ heap'[N].ip = ip /\ heap'[N].at = e.at /\ heap'[N].conn = c
        /\ heap'[N].report = IF N \in clones THEN now ELSE 0
    BY <1>4, <1>5, <1>8, <1>9
  <2>2. (told[KeyOf(t, heap[N])])' = told'[KeyOf(t, e)]
    BY <1>4, <2>1, SameWorld DEF KeyOf
  <2>3. heap'[N].at > 0 => heap'[N].at = now
    BY <1>4, <2>1
  <2>4. SUFFICES ASSUME /\ t = "host" <=> heap'[N].ip = NoIp
                        /\ heap'[N].at > 0 /\ heap'[N].report = 0
                        /\ heap'[N].conn \notin world'.friends
                        /\ Cardinality(With(t, N)') >= CloneMinCount
                 PROVE  heap'[N].at - (told[KeyOf(t, heap[N])])' < CloneReportInterval
    BY DEF Heard
  <2>5. N \notin clones
    BY <1>0, <2>1, <2>4
  <2>6. now - told'[KeyOf(t, e)] < CloneReportInterval
    BY <1>10, <2>1, <2>4, <2>5
  <2> QED
    BY <2>2, <2>3, <2>4, <2>6
<1>11. PICK ids : ids = ToSet(Append(table[t], N))
  OBVIOUS
<1>12. ids = ToSet(table[t])' /\ ids \in SUBSET (1 .. N) /\ N \in ids
  <2>1. table[t] \in Seq(Nat) /\ Len(table[t]) \in Nat
        /\ \A k \in 1 .. Len(table[t]) : table[t][k] \in 1 .. Len(heap)
    BY <1>0 DEF Typed, HashTyped
  <2>2. table'[t] = Append(table[t], N)
    BY <1>0, <1>1, <1>5 DEF Add, Heap
  <2>3. N \in ToSet(Append(table[t], N))
    BY <1>9, <2>1 DEF ToSet
  <2>4. ToSet(Append(table[t], N)) \in SUBSET (1 .. N)
    BY <1>0, <2>1 DEF ToSet
  <2> QED
    BY <1>11, <2>2, <2>3, <2>4 DEF ToSet
<1>13. PICK like : like = {i \in ids : KeyOf(t, h[i]) = KeyOf(t, e)}
  OBVIOUS
<1>14. clones = Due(h, like)
  <2>1. Checked(c, fromTrace)
    BY <1>4, <1>10 DEF Checked
  <2>2. clones = NewClones(h, c, ip)
    BY <1>1, <1>2, <2>1 DEF Reported
  <2>3. CASE t = "host"
    <3>1. clones = HostClones(h, ids, c)
      BY <1>5, <1>10, <1>11, <2>2, <2>3 DEF NewClones
    <3>2. like = {i \in ids : Host(h[i].conn) = Host(c)}
      BY <1>4, <1>13, <2>3 DEF KeyOf
    <3> QED
      BY <3>1, <3>2 DEF HostClones
  <2>4. CASE t = "ip"
    <3>1. ip # NoIp
      BY <1>10, <2>4
    <3>2. clones = IpClones(h, ids, c)
      BY <1>5, <1>11, <2>2, <2>4, <3>1 DEF NewClones
    <3>3. ip = world.ip[c] \/ fromTrace
      OBVIOUS
    <3>4. like = {i \in ids : Subnet(h[i].ip) = Subnet(world.ip[c])}
      BY <1>4, <1>10, <1>13, <2>4, <3>3 DEF KeyOf
    <3> QED
      BY <3>2, <3>4 DEF IpClones
  <2> QED
    BY <2>3, <2>4
<1>15. /\ IsFiniteSet(like) /\ N \in like
       /\ \A i \in like : i \in 1 .. N
  <2>1. IsFiniteSet(1 .. N)
    BY <1>9, FS_Interval
  <2>2. like \in SUBSET (1 .. N) /\ N \in like
    BY <1>5, <1>12, <1>13
  <2> QED
    BY <2>1, <2>2, FS_Subset
<1>16. \A i \in 1 .. N : h[i].at \in Nat /\ h[i].report \in 0 .. now
  <2>1. ASSUME NEW i \in 1 .. Len(heap) PROVE heap[i].report \in 0 .. now
    BY <1>0, EntryFacts DEF ReportsKnown
  <2>2. \A i \in 1 .. N : i \in 1 .. Len(heap) \/ i = N
    BY <1>0
  <2> QED
    BY <1>0, <1>4, <1>5, <1>8, <2>1, <2>2
<1>17. h[N].at = now /\ h[N].report = 0
  BY <1>4, <1>5, <1>10
<1>18. \/ Cardinality({i \in like : now - h[i].at <= CloneMaxTime}) < CloneMinCount
       \/ now < CloneReportInterval
       \/ \E i \in like : h[i].report > 0 /\ now - h[i].report < CloneReportInterval
  BY <1>0, <1>10, <1>14, <1>15, <1>16, <1>17, DueFacts
<1>19. PICK key : key = KeyOf(t, e)
  OBVIOUS
<1>20. key \in Keys /\ told'[key] \in Nat /\ told'[key] >= told[key] /\ told[key] \in Nat
  <2>1. key \in Keys
    BY <1>4, <1>19, WorldFacts DEF KeyOf, Typed
  <2> QED
    BY <1>0, <2>1, SameWorld DEF Typed, ClockTyped
<1>21. Cardinality({i \in like : now - h[i].at <= CloneMaxTime}) >= CloneMinCount
  <2>1. PICK S : S = {i \in like : now - h[i].at <= CloneMaxTime}
    OBVIOUS
  <2>2. IsFiniteSet(S)
    BY <1>15, <2>1, FS_Subset
  <2>3. With(t, N)' \subseteq S
    <3> SUFFICES ASSUME NEW j \in With(t, N)' PROVE j \in S
      OBVIOUS
    <3>1. /\ j \in ToSet(table[t])' /\ heap'[j].report = 0
          /\ heap'[N].at - heap'[j].at <= CloneMaxTime
          /\ KeyOf(t, heap[j])' = KeyOf(t, heap[N])'
      BY DEF With
    <3>2. j \in ids /\ j \in 1 .. N
      BY <1>12, <3>1
    <3>3. h[j].at = heap'[j].at /\ heap'[N].at = now
      BY <1>8, <1>9, <1>17, <3>2
    <3>4. KeyOf(t, heap[j])' = KeyOf(t, h[j]) /\ KeyOf(t, heap[N])' = KeyOf(t, e)
      BY <1>5, <1>8, <1>9, <3>2, SameWorld DEF KeyOf
    <3> QED
      BY <1>13, <2>1, <3>1, <3>2, <3>3, <3>4
  <2>4. Cardinality(With(t, N)') <= Cardinality(S)
    BY <2>2, <2>3, FS_Subset
  <2>5. Cardinality(With(t, N)') \in Nat /\ Cardinality(S) \in Nat
    BY <2>2, <2>3, FS_Subset, FS_CardinalityType
  <2> QED
    BY <1>10, <2>1, <2>4, <2>5, SettingsArePositive
<1>22. Cardinality({i \in like : now - h[i].at <= CloneMaxTime}) \in Nat
  BY <1>15, FS_Subset, FS_CardinalityType
<1>23. CASE now < CloneReportInterval
  BY <1>0, <1>19, <1>20, <1>23, SettingsArePositive
<1>24. ASSUME NEW i \in like, h[i].report > 0, now - h[i].report < CloneReportInterval
       PROVE  now - told'[key] < CloneReportInterval
  <2>1. i \in 1 .. Len(heap)
    BY <1>0, <1>15, <1>17, <1>24
  <2>2. h[i] = heap[i] /\ KeyOf(t, heap[i]) = key
    BY <1>5, <1>13, <1>19, <1>24, <2>1
  <2>3. heap[i].report <= told[key]
    BY <1>24, <2>1, <2>2 DEF ReportsKnown, KeyOf
  <2> QED
    BY <1>0, <1>16, <1>15, <1>20, <1>24, <2>2, <2>3, SettingsArePositive, SMTT(60)
<1> QED
  BY <1>18, <1>19, <1>21, <1>22, <1>23, <1>24, SettingsArePositive

LEMMA ClonesToldNext ==
  (\A t \in {"host", "ip"} : \A id \in ToSet(table[t])' : Heard(t, id)') => ClonesTold'
<1>1. ClonesTold' <=> \A t \in {"host", "ip"} : \A id \in ToSet(table[t])' : Heard(t, id)'
  BY DEF ClonesTold, Heard, With, KeyOf
<1> QED
  BY <1>1

ClonesInv == ReportsKnown /\ ClonesTold

LEMMA ClonesAfterAdd ==
  ASSUME Typed, Typed', world' = world, ClonesInv, now' = now,
         NEW c \in Conns, NEW n \in Nicks, NEW ip \in Ips, NEW fromTrace \in BOOLEAN,
         NEW isOper \in BOOLEAN, Add(c, n, ip, fromTrace, isOper),
         fromTrace \/ ip = world.ip[c],
         Grown(c, n, ip, fromTrace, isOper, Reported(c, n, ip, fromTrace, isOper)),
         \A k \in Keys : told'[k] >= told[k]
  PROVE  ClonesInv'
<1>1. PICK N : N = Len(heap) + 1
  OBVIOUS
<1>2. PICK clones : clones = Reported(c, n, ip, fromTrace, isOper)
  OBVIOUS
<1>3. PICK h : h = Heap(c, n, ip, fromTrace, isOper)
  OBVIOUS
<1>4. h \in Seq(Entries) /\ Len(h) = N /\ DOMAIN h = 1 .. N /\ N \in Nat /\ Len(heap) \in Nat
      /\ \A i \in 1 .. Len(heap) : h[i] = heap[i]
  BY <1>1, <1>3, HeapIs
<1>5. heap' = [i \in DOMAIN h |-> IF i \in clones THEN [h[i] EXCEPT !.report = now] ELSE h[i]]
  BY <1>2, <1>3 DEF Add, Heap, Reported
<1>6. ASSUME NEW i \in 1 .. N
      PROVE  /\ heap'[i].conn = h[i].conn /\ heap'[i].ip = h[i].ip /\ heap'[i].at = h[i].at
             /\ heap'[i].report = IF i \in clones THEN now ELSE h[i].report
             /\ Host(h[i].conn) \in Keys /\ Subnet(h[i].ip) \in Keys
  <2>1. h[i] \in Entries /\ heap'[i] = IF i \in clones THEN [h[i] EXCEPT !.report = now] ELSE h[i]
    BY <1>4, <1>5
  <2>2. h[i].conn \in Conns /\ h[i].ip \in Ips
    BY <2>1 DEF Entries
  <2>3. Host(h[i].conn) \in Keys /\ Subnet(h[i].ip) \in Keys
    BY <2>2, WorldFacts DEF Typed
  <2> QED
    BY <2>1, <2>3 DEF Entries
<1>7. told' = [k \in Keys |-> IF \E i \in clones : k \in {Host(h[i].conn), Subnet(h[i].ip)}
                              THEN now ELSE told[k]]
  BY <1>2, <1>3 DEF Add, Heap, Reported
<1>8. ReportsKnown'
  <2> SUFFICES ASSUME NEW i \in 1 .. Len(heap'), heap'[i].report > 0
               PROVE  /\ heap'[i].report <= told'[Host(heap[i].conn)']
                      /\ heap'[i].report <= told'[Subnet(heap'[i].ip)]
    BY DEF ReportsKnown
  <2>1. i \in 1 .. N
    BY <1>1 DEF Grown
  <2>2. Host(heap[i].conn)' = Host(h[i].conn) /\ Subnet(heap'[i].ip) = Subnet(h[i].ip)
    BY <1>6, <2>1, SameWorld
  <2>3. CASE i \in clones
    <3>1. told'[Host(h[i].conn)] = now /\ told'[Subnet(h[i].ip)] = now
      BY <1>6, <1>7, <2>1, <2>3
    <3>2. heap'[i].report = now /\ now \in Nat
      BY <1>6, <2>1, <2>3 DEF Typed, ClockTyped
    <3> QED
      BY <2>2, <3>1, <3>2
  <2>4. CASE i \notin clones
    <3>1. heap'[i].report = h[i].report
      BY <1>6, <2>1, <2>4
    <3>2. i # N
      <4>1. h[N] = NewEntry(c, n, ip, fromTrace, isOper)
        BY <1>1, <1>3, HeapIs
      <4>2. h[N].report = 0
        BY <4>1 DEF NewEntry
      <4> QED
        BY <3>1, <4>2
    <3>3. i \in 1 .. Len(heap)
      BY <1>1, <1>4, <2>1, <3>2
    <3>4. h[i] = heap[i]
      BY <1>4, <3>3
    <3>5. /\ heap[i].report <= told[Host(heap[i].conn)]
          /\ heap[i].report <= told[Subnet(heap[i].ip)]
      BY <3>1, <3>3, <3>4 DEF ClonesInv, ReportsKnown
    <3>6. /\ heap[i].report \in Nat /\ told[Host(heap[i].conn)] \in Nat /\ told'[Host(heap[i].conn)] \in Nat
          /\ told[Subnet(heap[i].ip)] \in Nat /\ told'[Subnet(heap[i].ip)] \in Nat
          /\ told[Host(heap[i].conn)] <= told'[Host(heap[i].conn)]
          /\ told[Subnet(heap[i].ip)] <= told'[Subnet(heap[i].ip)]
      BY <3>3, EntryFacts, SameWorld DEF Typed, ClockTyped
    <3> QED
      BY <2>2, <3>1, <3>4, <3>5, <3>6
  <2> QED
    BY <2>3, <2>4
<1>9. ASSUME NEW t \in {"host", "ip"}, NEW id \in ToSet(table[t])' PROVE Heard(t, id)'
  <2>0. t \in Tables /\ Len(heap') = N
    BY <1>1 DEF Tables, Grown
  <2>1. ToSet(table[t])' \subseteq ToSet(table[t]) \cup {N}
    <3> SUFFICES ASSUME NEW j \in ToSet(table[t])' PROVE j \in ToSet(table[t]) \cup {N}
      OBVIOUS
    <3>1. PICK k \in 1 .. Len(table'[t]) : j = table'[t][k]
      <4>1. table'[t] \in Seq(Nat) /\ ToSet(table[t])' = ToSet(table'[t])
        BY <2>0 DEF Typed, HashTyped
      <4>2. ASSUME NEW q \in Seq(Nat), NEW x \in ToSet(q)
            PROVE  \E k \in 1 .. Len(q) : x = q[k]
        BY <4>2 DEF ToSet
      <4>3. j \in ToSet(table'[t])
        BY <4>1
      <4> QED
        BY <4>1, <4>2, <4>3
    <3>2. /\ Len(table[t]) \in Nat /\ Len(table'[t]) = Len(table[t]) + 1
          /\ \A i \in 1 .. Len(table[t]) : table'[t][i] = table[t][i]
          /\ table'[t][Len(table[t]) + 1] = N
      BY <1>1, <2>0, TableFacts DEF Grown
    <3>3. k \in 1 .. Len(table[t]) \/ k = Len(table[t]) + 1
      BY <3>1, <3>2
    <3>4. CASE k \in 1 .. Len(table[t])
      BY <2>0, <3>1, <3>2, <3>4, TableFacts
    <3> QED
      BY <3>1, <3>2, <3>3, <3>4
  <2>2. CASE id = N
    BY <1>1, <2>2, NewHeard DEF ClonesInv
  <2>3. CASE id # N
    <3>1. id \in ToSet(table[t])
      BY <2>1, <2>3
    <3>2. id \in 1 .. Len(heap)
      BY <2>0, <3>1, TableFacts
    <3>3. Heard(t, id)
      BY <3>1, ClonesToldIs DEF ClonesInv
    <3>4. \A i \in 1 .. Len(heap) : Endures(i)
      BY <1>1, <1>4, <1>6 DEF Endures
    <3>5. Len(heap') >= Len(heap)
      BY <1>1, <1>4, <2>0
    <3>6. ToSet(table[t])' \subseteq ToSet(table[t]) \cup {Len(heap) + 1}
      BY <1>1, <2>1
    <3> QED
      BY <3>1, <3>2, <3>3, <3>4, <3>5, <3>6, HeardStep
  <2> QED
    BY <2>2, <2>3
<1>10. ClonesTold'
  BY <1>9, ClonesToldNext
<1> QED
  BY <1>8, <1>10 DEF ClonesInv

\* The other steps report no clone, and add none.
LEMMA ClonesAfterOthers ==
  ASSUME Typed, Typed', world' = world, ClonesInv,
         Len(heap') = Len(heap),
         \A i \in 1 .. Len(heap) : Endures(i) /\ heap'[i].report = heap[i].report,
         \A t \in Tables : \A k \in 1 .. Len(table'[t]) :
           \E i \in 1 .. Len(table[t]) : table'[t][k] = table[t][i],
         \A k \in Keys : told'[k] >= told[k]
  PROVE  ClonesInv'
<1>1. ReportsKnown'
  <2> SUFFICES ASSUME NEW i \in 1 .. Len(heap'), heap'[i].report > 0
               PROVE  /\ heap'[i].report <= told'[Host(heap[i].conn)']
                      /\ heap'[i].report <= told'[Subnet(heap'[i].ip)]
    BY DEF ReportsKnown
  <2>1. /\ heap'[i].conn = heap[i].conn /\ heap'[i].ip = heap[i].ip
        /\ heap'[i].report = heap[i].report
    BY DEF Endures
  <2>2. Host(heap[i].conn)' = Host(heap[i].conn) /\ Subnet(heap'[i].ip) = Subnet(heap[i].ip)
    BY <2>1, SameWorld
  <2>3. /\ heap[i].report <= told[Host(heap[i].conn)]
        /\ heap[i].report <= told[Subnet(heap[i].ip)]
    BY <2>1 DEF ClonesInv, ReportsKnown
  <2>4. /\ heap[i].report \in Nat /\ told[Host(heap[i].conn)] \in Nat /\ told'[Host(heap[i].conn)] \in Nat
        /\ told[Subnet(heap[i].ip)] \in Nat /\ told'[Subnet(heap[i].ip)] \in Nat
        /\ told[Host(heap[i].conn)] <= told'[Host(heap[i].conn)]
        /\ told[Subnet(heap[i].ip)] <= told'[Subnet(heap[i].ip)]
    BY EntryFacts, SameWorld DEF Typed, ClockTyped
  <2> QED
    BY <2>1, <2>2, <2>3, <2>4
<1>2. ASSUME NEW t \in {"host", "ip"}, NEW id \in ToSet(table[t])' PROVE Heard(t, id)'
  <2>0. t \in Tables
    BY DEF Tables
  <2>1. ToSet(table[t])' \subseteq ToSet(table[t])
    <3> SUFFICES ASSUME NEW j \in ToSet(table[t])' PROVE j \in ToSet(table[t])
      OBVIOUS
    <3>1. PICK k \in 1 .. Len(table'[t]) : j = table'[t][k]
      <4>1. table'[t] \in Seq(Nat) /\ ToSet(table[t])' = ToSet(table'[t])
        BY <2>0 DEF Typed, HashTyped
      <4>2. ASSUME NEW q \in Seq(Nat), NEW x \in ToSet(q)
            PROVE  \E k \in 1 .. Len(q) : x = q[k]
        BY <4>2 DEF ToSet
      <4>3. j \in ToSet(table'[t])
        BY <4>1
      <4> QED
        BY <4>1, <4>2, <4>3
    <3>2. PICK i \in 1 .. Len(table[t]) : table'[t][k] = table[t][i]
      BY <2>0, <3>1
    <3> QED
      BY <2>0, <3>1, <3>2, TableFacts
  <2>2. id \in ToSet(table[t]) /\ id \in 1 .. Len(heap)
    BY <2>0, <2>1, TableFacts
  <2>3. Heard(t, id)
    BY <2>2, ClonesToldIs DEF ClonesInv
  <2>4. Len(heap') >= Len(heap) /\ \A i \in 1 .. Len(heap) : Endures(i)
    <3>1. Len(heap) \in Nat
      BY DEF Typed, HashTyped
    <3> QED
      BY <3>1
  <2>5. ToSet(table[t])' \subseteq ToSet(table[t]) \cup {Len(heap) + 1}
    BY <2>1
  <2> QED
    BY <2>2, <2>3, <2>4, <2>5, HeardStep
<1>3. ClonesTold'
  BY <1>2, ClonesToldNext
<1> QED
  BY <1>1, <1>3 DEF ClonesInv

\* Clones are reported, for any clients and worlds, and whatever the three
\* settings of the check are.
THEOREM ClonesHeard == Spec => []ClonesTold
<1>1. Init => ClonesInv
  BY DEF Init, ClonesInv, ReportsKnown, ClonesTold, ToSet, Tables
<1>2. Typed /\ ClonesInv /\ [Next]_vars => ClonesInv'
  <2> SUFFICES ASSUME Typed, ClonesInv, [Next]_vars PROVE ClonesInv'
    OBVIOUS
  <2>1. Typed' /\ world' = world
    BY TypedStep
  <2>2. \A k \in Keys : told'[k] >= told[k]
    BY ClockStep
  <2>3. Len(heap) \in Nat /\ \A i \in 1 .. Len(heap) : heap[i] \in Entries
    BY DEF Typed, HashTyped
  <2>4. CASE OnConnect /\ At \notin world.spoofs
    <3>1. now' = now
      BY <2>4 DEF OnConnect, BotSide
    <3> QED
      BY <2>1, <2>2, <2>4, <3>1, ConnectAdds, ClonesAfterAdd
  <2>5. CASE OnTraceUser /\ gettingTrace /\ At \notin world.spoofs
    <3>1. now' = now
      BY <2>5 DEF OnTraceUser, BotSide
    <3> QED
      BY <2>1, <2>2, <2>5, <3>1, TraceAdds, ClonesAfterAdd
  <2>6. CASE OnExit
    <3>1. PICK c, n : Shrunk(c, n)
      BY <2>6, ExitShrinks
    <3>2. ASSUME NEW i \in 1 .. Len(heap)
          PROVE  Endures(i) /\ heap'[i].report = heap[i].report
      <4>1. heap[i] \in Entries
        BY <2>3
      <4>2. PICK d : d = [heap[i] EXCEPT !.connected = FALSE]
        OBVIOUS
      <4>3. /\ d.conn = heap[i].conn /\ d.ip = heap[i].ip /\ d.at = heap[i].at
            /\ d.report = heap[i].report
        BY <4>1, <4>2 DEF Entries
      <4>4. heap'[i] = d \/ heap'[i] = heap[i]
        BY <3>1, <4>2 DEF Shrunk
      <4> QED
        BY <4>3, <4>4 DEF Endures
    <3> QED
      BY <2>1, <2>2, <3>1, <3>2, ClonesAfterOthers DEF Shrunk
  <2>7. CASE Kept
    BY <2>1, <2>2, <2>7, ClonesAfterOthers DEF Kept, Like, Endures
  <2>8. CASE Quiescent
    BY <2>1, <2>2, <2>8, ClonesAfterOthers DEF Quiescent, Endures
  <2>9. CASE Trace /\ heap' = heap /\ table' = [t \in Tables |-> <<>>]
    BY <2>1, <2>2, <2>9, ClonesAfterOthers DEF Endures
  <2> QED
    BY <2>4, <2>5, <2>6, <2>7, <2>8, <2>9, HashStep
<1>3. ClonesInv => ClonesTold
  BY DEF ClonesInv
<1> QED
  BY <1>1, <1>2, <1>3, TypeInvariance, PTL DEF Spec

-----------------------------------------------------------------------------
(* What the server has sent and the bot not read                           *)

\* The lines on their way tell how the server's truth came to be what it is: a
\* path h of truths leads from the one the bot has read up to, h[1], to the
\* present one, and each line is what the server says of one step of it.
Now == [phase |-> phase, nick |-> nick, oper |-> oper]
Same(g, g2, d) == g.phase[d] = g2.phase[d] /\ g.nick[d] = g2.nick[d] /\ g.oper[d] = g2.oper[d]
Sane(g) ==
  /\ \A c, d \in Conns : g.phase[c] = "on" /\ g.phase[d] = "on" /\ g.nick[c] = g.nick[d] => c = d
  /\ \A c \in Conns : g.phase[c] = "new" => g.oper[c] = FALSE
Caused(g, l, g2) ==
  /\ \A d \in Conns : d # l.conn => Same(g, g2, d)
  /\ l.type = "connect" => /\ g.phase[l.conn] = "new" /\ g2.phase[l.conn] = "on"
                           /\ g2.nick[l.conn] = l.nick /\ g2.oper[l.conn] = g.oper[l.conn]
  /\ l.type = "exit" => g2.phase[l.conn] = "gone"
  /\ l.type = "nick" => /\ g2.phase[l.conn] = "on" /\ g2.nick[l.conn] = l.new
                        /\ g2.oper[l.conn] = g.oper[l.conn]
  /\ l.type = "oper" => /\ g2.phase[l.conn] = "on" /\ g2.nick[l.conn] = l.nick
                        /\ g2.oper[l.conn] = TRUE
  /\ l.type \in {"version", "user", "endtrace"} => \A d \in Conns : Same(g, g2, d)
  /\ l.type \notin {"connect", "endtrace"} => g.phase[l.conn] = "on" /\ g.nick[l.conn] = l.nick
  /\ l.type = "user" => l.oper = g.oper[l.conn]
Path(h) == /\ \A p \in 1 .. Len(lines) + 1 : Sane(h[p])
           /\ \A p \in 1 .. Len(lines) : Caused(h[p], lines[p], h[p + 1])
           /\ h[Len(lines) + 1] = Now

\* The server adds to the path at its end.
Spoke == /\ Len(lines') >= Len(lines) /\ Len(lines') \in Nat
         /\ \A p \in 1 .. Len(lines) : lines'[p] = lines[p]
Longer(h, g) == \A p \in 1 .. Len(lines) + 1 : g[p] = h[p]

LEMMA PathExtends ==
  ASSUME Typed, NEW h, Path(h), Spoke, Sane(Now'),
         IF Len(lines') = Len(lines) THEN Now' = Now
         ELSE Caused(Now, lines'[Len(lines) + 1], Now'),
         \A p \in Len(lines) + 2 .. Len(lines') : Caused(Now', lines'[p], Now')
  PROVE  \E g : Path(g)' /\ Longer(h, g)
<1>1. PICK N : N = Len(lines) /\ N \in Nat
  BY DEF Typed, ServerTyped
<1>2. PICK M : M = Len(lines') /\ M \in Nat /\ M >= N
  BY <1>1 DEF Spoke
<1>3. PICK g : g = [p \in 1 .. M + 1 |-> IF p <= N + 1 THEN h[p] ELSE Now']
  OBVIOUS
<1>4. \A p \in 1 .. N + 1 : g[p] = h[p]
  BY <1>1, <1>2, <1>3
<1>5. \A p \in N + 2 .. M + 1 : g[p] = Now'
  BY <1>1, <1>2, <1>3
<1>6. h[N + 1] = Now /\ g[N + 1] = Now
  BY <1>1, <1>4 DEF Path
<1>7. \A p \in 1 .. M + 1 : Sane(g[p])
  <2>1. \A p \in 1 .. N + 1 : Sane(h[p])
    BY <1>1 DEF Path
  <2> QED
    BY <1>1, <1>2, <1>4, <1>5, <2>1
<1>8. ASSUME NEW p \in 1 .. M PROVE Caused(g[p], lines'[p], g[p + 1])
  <2>1. CASE p <= N
    <3>1. Caused(h[p], lines[p], h[p + 1]) /\ lines'[p] = lines[p]
      BY <1>1, <2>1 DEF Path, Spoke
    <3> QED
      BY <1>1, <1>4, <2>1, <3>1
  <2>2. CASE p = N + 1
    <3>1. g[p] = Now /\ g[p + 1] = Now'
      BY <1>1, <1>2, <1>5, <1>6, <2>2
    <3> QED
      BY <1>1, <1>2, <2>2, <3>1
  <2>3. CASE p > N + 1
    <3>1. p \in N + 2 .. M + 1 /\ p + 1 \in N + 2 .. M + 1 /\ p \in N + 2 .. M
      BY <1>1, <1>2, <2>3
    <3>2. g[p] = Now' /\ g[p + 1] = Now'
      BY <1>5, <3>1
    <3> QED
      BY <1>1, <1>2, <3>1, <3>2
  <2> QED
    BY <1>1, <2>1, <2>2, <2>3
<1>9. g[M + 1] = Now'
  <2>1. CASE M = N
    BY <1>1, <1>2, <1>6, <2>1
  <2>2. CASE M # N
    BY <1>1, <1>2, <1>5, <2>2
  <2> QED
    BY <2>1, <2>2
<1>10. Path(g)'
  BY <1>2, <1>7, <1>8, <1>9 DEF Path
<1> QED
  BY <1>1, <1>4, <1>10 DEF Longer

\* The server's steps take the truth to the next one as the line says.
LEMMA TruthMoves ==
  ASSUME Typed, Sane(Now)
  PROVE  /\ \A c \in Conns, n \in Nicks : ConnectSays(c, n) =>
              Sane(Now') /\ \E l : Says(l) /\ l.type = "connect" /\ Caused(Now, l, Now')
         /\ \A c \in Conns, n \in Nicks : NickSays(c, n) =>
              Sane(Now') /\ \E l : Says(l) /\ l.type = "nick" /\ Caused(Now, l, Now')
         /\ \A c \in Conns : ExitSays(c) =>
              Sane(Now') /\ \E l : Says(l) /\ l.type = "exit" /\ Caused(Now, l, Now')
         /\ \A c \in Conns : OperSays(c) =>
              Sane(Now') /\ \E l : Says(l) /\ l.type = "oper" /\ Caused(Now, l, Now')
<1>1. /\ Now.phase = phase /\ Now.nick = nick /\ Now.oper = oper
      /\ Now'.phase = phase' /\ Now'.nick = nick' /\ Now'.oper = oper'
  BY DEF Now
<1>2. /\ phase \in [Conns -> {"new", "on", "gone"}]
      /\ nick \in [Conns -> Nicks \cup {"none"}] /\ oper \in [Conns -> BOOLEAN]
  BY DEF Typed, ServerTyped
<1>3. /\ \A c, d \in Conns : phase[c] = "on" /\ phase[d] = "on" /\ nick[c] = nick[d] => c = d
      /\ \A c \in Conns : phase[c] = "new" => oper[c] = FALSE
  BY <1>1 DEF Sane
<1>4. ASSUME NEW c \in Conns, NEW n \in Nicks, ConnectSays(c, n)
      PROVE  Sane(Now') /\ \E l : Says(l) /\ l.type = "connect" /\ Caused(Now, l, Now')
  <2>1. PICK l : Says(l) /\ l.type = "connect" /\ l.conn = c /\ l.nick = n
    BY <1>4 DEF ConnectSays, Told
  <2>2. /\ phase[c] = "new" /\ \A d \in Conns : phase[d] = "on" => nick[d] # n
        /\ phase' = [phase EXCEPT ![c] = "on"] /\ nick' = [nick EXCEPT ![c] = n] /\ oper' = oper
    BY <1>4 DEF ConnectSays, Online
  <2>3. Sane(Now')
    BY <1>1, <1>2, <1>3, <2>2 DEF Sane
  <2>4. Caused(Now, l, Now')
    BY <1>1, <1>2, <2>1, <2>2 DEF Caused, Same
  <2> QED
    BY <2>1, <2>3, <2>4
<1>5. ASSUME NEW c \in Conns, NEW n \in Nicks, NickSays(c, n)
      PROVE  Sane(Now') /\ \E l : Says(l) /\ l.type = "nick" /\ Caused(Now, l, Now')
  <2>1. PICK l : Says(l) /\ l.type = "nick" /\ l.conn = c /\ l.nick = nick[c] /\ l.new = n
    BY <1>5 DEF NickSays
  <2>2. /\ phase[c] = "on" /\ \A d \in Conns : phase[d] = "on" => nick[d] # n
        /\ nick' = [nick EXCEPT ![c] = n] /\ phase' = phase /\ oper' = oper
    BY <1>5 DEF NickSays, Online
  <2>3. Sane(Now')
    BY <1>1, <1>2, <1>3, <2>2 DEF Sane
  <2>4. Caused(Now, l, Now')
    BY <1>1, <1>2, <2>1, <2>2 DEF Caused, Same
  <2> QED
    BY <2>1, <2>3, <2>4
<1>6. ASSUME NEW c \in Conns, ExitSays(c)
      PROVE  Sane(Now') /\ \E l : Says(l) /\ l.type = "exit" /\ Caused(Now, l, Now')
  <2>1. PICK l : Says(l) /\ l.type = "exit" /\ l.conn = c /\ l.nick = nick[c]
    BY <1>6 DEF ExitSays, Told
  <2>2. /\ phase[c] = "on" /\ phase' = [phase EXCEPT ![c] = "gone"]
        /\ nick' = nick /\ oper' = oper
    BY <1>6 DEF ExitSays
  <2>3. Sane(Now')
    BY <1>1, <1>2, <1>3, <2>2 DEF Sane
  <2>4. Caused(Now, l, Now')
    BY <1>1, <1>2, <2>1, <2>2 DEF Caused, Same
  <2> QED
    BY <2>1, <2>3, <2>4
<1>7. ASSUME NEW c \in Conns, OperSays(c)
      PROVE  Sane(Now') /\ \E l : Says(l) /\ l.type = "oper" /\ Caused(Now, l, Now')
  <2>1. PICK l : Says(l) /\ l.type = "oper" /\ l.conn = c /\ l.nick = nick[c]
    BY <1>7 DEF OperSays, Told
  <2>2. /\ phase[c] = "on" /\ oper' = [oper EXCEPT ![c] = TRUE]
        /\ nick' = nick /\ phase' = phase
    BY <1>7 DEF OperSays
  <2>3. Sane(Now')
    BY <1>1, <1>2, <1>3, <2>2 DEF Sane
  <2>4. Caused(Now, l, Now')
    BY <1>1, <1>2, <2>1, <2>2 DEF Caused, Same
  <2> QED
    BY <2>1, <2>3, <2>4
<1> QED
  BY <1>4, <1>5, <1>6, <1>7

\* What it says is one line that is no part of a reply to TRACE, nothing, or a
\* whole reply. In the last two cases nothing becomes true.
OneLine == \E l : Says(l) /\ l.type \notin {"user", "endtrace"}
Speaks == OneLine \/ lines' = lines \/ (SameTruth /\ \E s : Replies(s))

LEMMA OneMore ==
  ASSUME Typed, NEW l, Says(l)
  PROVE  /\ Spoke /\ Len(lines) \in Nat /\ Len(lines') = Len(lines) + 1
         /\ lines'[Len(lines) + 1] = l
  BY DEF Typed, ServerTyped, Says, Spoke

LEMMA ReplyMore ==
  ASSUME Typed, NEW s, Replies(s)
  PROVE  /\ Spoke /\ Len(lines) \in Nat /\ Len(s) \in Nat /\ Len(lines') = Len(lines) + Len(s) + 1
         /\ \A p \in Len(lines) + 1 .. Len(lines') : \/ p = Len(lines')
                                                     \/ \E k \in 1 .. Len(s) : p = Len(lines) + k
<1>1. Len(lines) \in Nat /\ Len(s) \in Nat /\ Len(lines') = Len(lines) + Len(s) + 1
  BY DEF Typed, ServerTyped, Replies
<1>2. Spoke
  BY <1>1 DEF Spoke, Replies
<1>3. ASSUME NEW p \in Len(lines) + 1 .. Len(lines'), p # Len(lines')
      PROVE  \E k \in 1 .. Len(s) : p = Len(lines) + k
  <2>1. p - Len(lines) \in 1 .. Len(s) /\ p = Len(lines) + (p - Len(lines))
    BY <1>1, <1>3
  <2> QED
    BY <2>1
<1> QED
  BY <1>1, <1>2, <1>3

LEMMA PathGrows ==
  ASSUME Typed, NEW h, Path(h), Sane(Now'), NEW l, Says(l), Caused(Now, l, Now')
  PROVE  \E g : Path(g)' /\ Longer(h, g)
<1>1. /\ Spoke /\ Len(lines) \in Nat /\ Len(lines') = Len(lines) + 1
      /\ lines'[Len(lines) + 1] = l
  BY OneMore
<1>2. Len(lines') # Len(lines) /\ Len(lines) + 2 .. Len(lines') = {}
  BY <1>1
<1> QED
  BY <1>1, <1>2, PathExtends

LEMMA ServerPath ==
  ASSUME Typed, NEW h, Path(h),
         \/ \E c \in Conns, n \in Nicks : Connect(c, n) \/ ChangeNick(c, n)
         \/ \E c \in Conns : Exit(c) \/ OperUp(c)
         \/ Serve
  PROVE  Spoke /\ Speaks /\ SameBot /\ \E g : Path(g)' /\ Longer(h, g)
<1>0. Sane(Now) /\ Len(lines) \in Nat
  BY DEF Path, Typed, ServerTyped
<1>1. ASSUME NEW l, Says(l), l.type \notin {"user", "endtrace"}, Sane(Now'), Caused(Now, l, Now')
      PROVE  Spoke /\ Speaks /\ \E g : Path(g)' /\ Longer(h, g)
  BY <1>1, OneMore, PathGrows DEF Speaks, OneLine
<1>2. ASSUME NEW c \in Conns, NEW n \in Nicks, Connect(c, n) \/ ChangeNick(c, n)
      PROVE  Spoke /\ Speaks /\ SameBot /\ \E g : Path(g)' /\ Longer(h, g)
  <2>1. SameBot /\ (ConnectSays(c, n) \/ NickSays(c, n))
    BY <1>2, ServerStep
  <2>2. Sane(Now') /\ \E l : Says(l) /\ l.type \in {"connect", "nick"} /\ Caused(Now, l, Now')
    BY <1>0, <2>1, TruthMoves
  <2> QED
    BY <1>1, <2>1, <2>2
<1>3. ASSUME NEW c \in Conns, Exit(c) \/ OperUp(c)
      PROVE  Spoke /\ Speaks /\ SameBot /\ \E g : Path(g)' /\ Longer(h, g)
  <2>1. SameBot /\ (ExitSays(c) \/ OperSays(c))
    BY <1>3, ServerStep
  <2>2. Sane(Now') /\ \E l : Says(l) /\ l.type \in {"exit", "oper"} /\ Caused(Now, l, Now')
    BY <1>0, <2>1, TruthMoves
  <2> QED
    BY <1>1, <2>1, <2>2
<1>4. CASE Serve
  <2>1. SameBot /\ ServeSays
    BY <1>4, ServerStep
  <2>2. Now' = Now /\ Sane(Now')
    BY <1>0, <2>1 DEF ServeSays, SameTruth, Now
  <2>3. /\ Now.phase = phase /\ Now.nick = nick /\ Now.oper = oper
    BY DEF Now
  <2>4. CASE lines' = lines
    <3>1. Spoke /\ Speaks /\ Len(lines) + 2 .. Len(lines') = {}
      BY <1>0, <2>4 DEF Spoke, Speaks
    <3> QED
      BY <2>1, <2>2, <2>4, <3>1, PathExtends
  <2>5. ASSUME NEW c \in Online, Told("version", c, nick[c])
        PROVE  Spoke /\ Speaks /\ \E g : Path(g)' /\ Longer(h, g)
    <3>1. PICK l : Says(l) /\ l.type = "version" /\ l.conn = c /\ l.nick = nick[c]
      BY <2>5 DEF Told
    <3>2. c \in Conns /\ phase[c] = "on"
      BY DEF Online
    <3>3. Caused(Now, l, Now')
      BY <2>2, <2>3, <3>1, <3>2 DEF Caused, Same
    <3> QED
      BY <1>1, <2>2, <3>1, <3>3
  <2>6. ASSUME NEW s, Replies(s)
        PROVE  Spoke /\ Speaks /\ \E g : Path(g)' /\ Longer(h, g)
    <3>1. /\ Spoke /\ Len(s) \in Nat /\ Len(lines') = Len(lines) + Len(s) + 1
          /\ \A p \in Len(lines) + 1 .. Len(lines') : \/ p = Len(lines')
                                                     \/ \E k \in 1 .. Len(s) : p = Len(lines) + k
      BY <2>6, ReplyMore
    <3>2. ASSUME NEW p \in Len(lines) + 1 .. Len(lines') PROVE Caused(Now, lines'[p], Now)
      <4>1. CASE p = Len(lines')
        <5>1. lines'[p].type = "endtrace"
          BY <2>6, <3>1, <4>1 DEF Replies
        <5> QED
          BY <5>1 DEF Caused, Same
      <4>2. ASSUME NEW k \in 1 .. Len(s), p = Len(lines) + k PROVE Caused(Now, lines'[p], Now)
        <5>1. /\ lines'[p].type = "user" /\ lines'[p].conn = s[k]
              /\ lines'[p].nick = nick[s[k]] /\ lines'[p].oper = oper[s[k]]
          BY <2>6, <4>2 DEF Replies
        <5>2. phase[s[k]] = "on"
          BY <2>6 DEF Replies, Online
        <5> QED
          BY <2>3, <5>1, <5>2 DEF Caused, Same
      <4> QED
        BY <3>1, <4>1, <4>2
    <3>3. /\ Len(lines') # Len(lines) /\ Len(lines) + 1 \in Len(lines) + 1 .. Len(lines')
          /\ \A p \in Len(lines) + 2 .. Len(lines') : p \in Len(lines) + 1 .. Len(lines')
      BY <1>0, <3>1
    <3>4. \E g : Path(g)' /\ Longer(h, g)
      <4>1. Caused(Now, lines'[Len(lines) + 1], Now')
        BY <2>2, <3>2, <3>3
      <4>2. \A p \in Len(lines) + 2 .. Len(lines') : Caused(Now', lines'[p], Now')
        BY <2>2, <3>2, <3>3
      <4> QED
        BY <2>2, <3>1, <3>3, <4>1, <4>2, PathExtends
    <3> QED
      BY <2>1, <2>6, <3>1, <3>4 DEF Speaks, ServeSays
  <2> QED
    BY <2>1, <2>4, <2>5, <2>6 DEF ServeSays
<1> QED
  BY <1>2, <1>3, <1>4

\* The bot reads the path from its start.
Shifted(h, g) == \A p \in 1 .. Len(lines) : g[p] = h[p + 1]

LEMMA ReadPath ==
  ASSUME Typed, NEW h, Path(h), Reading
  PROVE  \E g : Path(g)' /\ Shifted(h, g)
<1>1. PICK N : N = Len(lines) /\ N \in Nat \ {0} /\ Len(lines') = N - 1
  BY ReadingNext
<1>2. PICK g : g = [p \in 1 .. N |-> h[p + 1]]
  OBVIOUS
<1>3. \A p \in 1 .. N : g[p] = h[p + 1]
  BY <1>2
<1>4. \A p \in 1 .. N : Sane(g[p])
  <2>1. \A p \in 1 .. N : p + 1 \in 1 .. N + 1
    BY <1>1
  <2>2. \A p \in 1 .. N + 1 : Sane(h[p])
    BY <1>1 DEF Path
  <2> QED
    BY <1>3, <2>1, <2>2
<1>5. ASSUME NEW p \in 1 .. N - 1 PROVE Caused(g[p], lines'[p], g[p + 1])
  <2>1. p \in 1 .. N /\ p + 1 \in 1 .. N
    BY <1>1
  <2>2. lines'[p] = lines[p + 1]
    BY <1>1, ReadingNext
  <2>3. Caused(h[p + 1], lines[p + 1], h[(p + 1) + 1])
    BY <1>1, <2>1 DEF Path
  <2> QED
    BY <1>3, <2>1, <2>2, <2>3
<1>6. g[(N - 1) + 1] = Now'
  <2>1. h[N + 1] = Now /\ Now' = Now
    BY <1>1 DEF Path, Reading, SameTruth, Now
  <2> QED
    BY <1>1, <1>3, <2>1
<1>7. (N - 1) + 1 = N
  BY <1>1
<1>8. Path(g)'
  BY <1>1, <1>4, <1>5, <1>6, <1>7 DEF Path
<1> QED
  BY <1>1, <1>3, <1>8 DEF Shifted

LEMMA Trail ==
  ASSUME Typed, [Next]_vars, NEW h, Path(h)
  PROVE  \/ Aside /\ Path(h)'
         \/ Reading /\ \E g : Path(g)' /\ Shifted(h, g)
         \/ Spoke /\ Speaks /\ SameBot /\ \E g : Path(g)' /\ Longer(h, g)
<1>1. ASSUME Aside PROVE Path(h)'
  <2>1. lines' = lines /\ Now' = Now
    BY <1>1 DEF Aside, SameTruth, Now
  <2> QED
    BY <2>1 DEF Path
<1> QED
  BY <1>1, ReadPath, ServerPath, Steps

\* The replies to a TRACE are an unbroken block of lines, a line for a client,
\* that ends with the end of TRACE.
Blocks ==
  \A p \in 1 .. Len(lines) : lines[p].type = "user" =>
    \E e \in p + 1 .. Len(lines) :
      /\ lines[e].type = "endtrace"
      /\ \A r \in p .. e - 1 : /\ lines[r].type = "user"
                               /\ r # p => lines[r].conn # lines[p].conn

\* Where the lines that speak of a TRACE are: where they were, but for a reply.
LEMMA OldLines ==
  ASSUME Typed, OneLine \/ lines' = lines
  PROVE  /\ Len(lines') \in Nat /\ Len(lines) \in Nat /\ Len(lines') >= Len(lines)
         /\ \A p \in 1 .. Len(lines) : lines'[p] = lines[p]
         /\ \A p \in 1 .. Len(lines') :
              lines'[p].type \in {"user", "endtrace"} => p \in 1 .. Len(lines)
<1>0. Len(lines) \in Nat
  BY DEF Typed, ServerTyped
<1>1. CASE lines' = lines
  BY <1>0, <1>1
<1>2. ASSUME NEW l, Says(l), l.type \notin {"user", "endtrace"}
      PROVE  /\ Len(lines') \in Nat /\ Len(lines') >= Len(lines)
             /\ \A p \in 1 .. Len(lines) : lines'[p] = lines[p]
             /\ \A p \in 1 .. Len(lines') :
                  lines'[p].type \in {"user", "endtrace"} => p \in 1 .. Len(lines)
  <2>1. /\ Len(lines') = Len(lines) + 1 /\ lines'[Len(lines) + 1] = l
        /\ \A p \in 1 .. Len(lines) : lines'[p] = lines[p]
    BY <1>2 DEF Says
  <2>2. \A p \in 1 .. Len(lines') : p \in 1 .. Len(lines) \/ p = Len(lines) + 1
    BY <1>0, <2>1
  <2> QED
    BY <1>0, <1>2, <2>1, <2>2
<1> QED
  BY <1>0, <1>1, <1>2 DEF OneLine

LEMMA ReplyLines ==
  ASSUME Typed, NEW s, Replies(s), NEW N, N = Len(lines), NEW M, M = Len(lines')
  PROVE  /\ N \in Nat /\ Len(s) \in Nat /\ M = N + Len(s) + 1 /\ M \in Nat
         /\ \A p \in 1 .. N : lines'[p] = lines[p]
         /\ \A p \in N + 1 .. M - 1 : /\ p - N \in 1 .. Len(s)
                                      /\ lines'[p].type = "user" /\ lines'[p].conn = s[p - N]
         /\ lines'[M].type = "endtrace"
         /\ \A c \in Online : \E p \in N + 1 .. M - 1 : lines'[p].conn = c
         /\ \A p, q \in N + 1 .. M - 1 : lines'[p].conn = lines'[q].conn => p = q
<1>1. N \in Nat /\ Len(s) \in Nat /\ M = N + Len(s) + 1 /\ M \in Nat
  BY DEF Replies, Typed, ServerTyped
<1>2. /\ \A p \in 1 .. N : lines'[p] = lines[p]
      /\ lines'[M].type = "endtrace"
  BY <1>1 DEF Replies
<1>3. ASSUME NEW p \in N + 1 .. M - 1
      PROVE  /\ p - N \in 1 .. Len(s) /\ lines'[p].type = "user" /\ lines'[p].conn = s[p - N]
  <2>1. p - N \in 1 .. Len(s) /\ N + (p - N) = p
    BY <1>1
  <2> QED
    BY <2>1 DEF Replies
<1>4. ASSUME NEW c \in Online PROVE \E p \in N + 1 .. M - 1 : lines'[p].conn = c
  <2>1. PICK k \in 1 .. Len(s) : s[k] = c
    BY DEF Replies
  <2>2. N + k \in N + 1 .. M - 1 /\ lines'[N + k].conn = c
    BY <1>1, <2>1 DEF Replies
  <2> QED
    BY <2>2
<1>5. ASSUME NEW p \in N + 1 .. M - 1, NEW q \in N + 1 .. M - 1, lines'[p].conn = lines'[q].conn
      PROVE  p = q
  <2>1. PICK j, k \in 1 .. Len(s) : j = p - N /\ k = q - N
    BY <1>3
  <2>2. s[j] = s[k]
    BY <1>3, <1>5, <2>1
  <2>3. j = k
    BY <2>2 DEF Replies
  <2> QED
    BY <1>1, <2>1, <2>3
<1> QED
  BY <1>1, <1>2, <1>3, <1>4, <1>5

LEMMA BlocksStep ==
  ASSUME Typed, [Next]_vars, NEW h, Path(h), Blocks
  PROVE  Blocks'
<1>0. PICK N : N = Len(lines) /\ N \in Nat
  BY DEF Typed, ServerTyped
<1>1. CASE Aside
  BY <1>1 DEF Aside, Blocks
<1>2. CASE Reading
  <2>1. N # 0 /\ Len(lines') = N - 1 /\ \A p \in 1 .. N - 1 : lines'[p] = lines[p + 1]
    BY <1>0, <1>2, ReadingNext
  <2>2. ASSUME NEW p \in 1 .. N - 1, lines'[p].type = "user"
        PROVE  \E e \in p + 1 .. N - 1 :
                 /\ lines'[e].type = "endtrace"
                 /\ \A r \in p .. e - 1 : /\ lines'[r].type = "user"
                                          /\ r # p => lines'[r].conn # lines'[p].conn
    <3>1. p + 1 \in 1 .. N /\ lines[p + 1].type = "user" /\ lines'[p] = lines[p + 1]
      BY <1>0, <2>1, <2>2
    <3>2. PICK e \in (p + 1) + 1 .. N :
            /\ lines[e].type = "endtrace"
            /\ \A r \in p + 1 .. e - 1 : /\ lines[r].type = "user"
                                         /\ r # p + 1 => lines[r].conn # lines[p + 1].conn
      BY <1>0, <3>1 DEF Blocks
    <3>3. e - 1 \in p + 1 .. N - 1 /\ (e - 1) + 1 = e /\ e - 1 \in 1 .. N - 1
      BY <1>0, <3>2
    <3>4. ASSUME NEW r \in p .. (e - 1) - 1
          PROVE  lines'[r].type = "user" /\ (r # p => lines'[r].conn # lines'[p].conn)
      <4>1. r + 1 \in p + 1 .. e - 1 /\ r \in 1 .. N - 1 /\ (r # p => r + 1 # p + 1)
        BY <1>0, <3>2
      <4> QED
        BY <2>1, <3>1, <3>2, <4>1
    <3>5. lines'[e - 1].type = "endtrace"
      BY <2>1, <3>2, <3>3
    <3> QED
      BY <3>3, <3>4, <3>5
  <2>3. PICK M : M = Len(lines') /\ M = N - 1
    BY <2>1
  <2>4. \A p \in 1 .. M : lines'[p].type = "user" =>
          \E e \in p + 1 .. M :
            /\ lines'[e].type = "endtrace"
            /\ \A r \in p .. e - 1 : /\ lines'[r].type = "user"
                                     /\ r # p => lines'[r].conn # lines'[p].conn
    BY <2>2, <2>3
  <2> QED
    BY <2>3, <2>4 DEF Blocks
<1>3. CASE OneLine \/ lines' = lines
  <2>1. PICK M : M = Len(lines')
    OBVIOUS
  <2>2. /\ M \in Nat /\ M >= N /\ \A p \in 1 .. N : lines'[p] = lines[p]
        /\ \A p \in 1 .. M : lines'[p].type = "user" => p \in 1 .. N
    BY <1>0, <1>3, <2>1, OldLines
  <2>3. ASSUME NEW p \in 1 .. M, lines'[p].type = "user"
        PROVE  \E e \in p + 1 .. M :
                 /\ lines'[e].type = "endtrace"
                 /\ \A r \in p .. e - 1 : /\ lines'[r].type = "user"
                                          /\ r # p => lines'[r].conn # lines'[p].conn
    <3>1. p \in 1 .. N /\ lines[p] = lines'[p]
      BY <2>2, <2>3
    <3>2. PICK e \in p + 1 .. N :
            /\ lines[e].type = "endtrace"
            /\ \A r \in p .. e - 1 : /\ lines[r].type = "user"
                                     /\ r # p => lines[r].conn # lines[p].conn
      BY <1>0, <2>3, <3>1 DEF Blocks
    <3>3. e \in p + 1 .. M /\ \A r \in p .. e : r \in 1 .. N
      BY <1>0, <2>2, <3>1, <3>2
    <3> QED
      BY <2>2, <3>1, <3>2, <3>3
  <2> QED
    BY <2>1, <2>3 DEF Blocks
<1>4. ASSUME NEW s, Replies(s) PROVE Blocks'
  <2>1. PICK M : M = Len(lines')
    OBVIOUS
  <2>0. /\ Len(s) \in Nat /\ M = N + Len(s) + 1 /\ M \in Nat
    BY <1>0, <1>4, <2>1, ReplyLines
  <2>2. /\ M \in Nat /\ M >= N + 1 /\ \A p \in 1 .. N : lines'[p] = lines[p]
        /\ \A p \in N + 1 .. M - 1 : lines'[p].type = "user"
        /\ lines'[M].type = "endtrace"
        /\ \A p, q \in N + 1 .. M - 1 : lines'[p].conn = lines'[q].conn => p = q
    <3>1. M >= N + 1
      BY <1>0, <2>0
    <3>2. /\ \A p \in 1 .. N : lines'[p] = lines[p]
          /\ \A p \in N + 1 .. M - 1 :
               p - N \in 1 .. Len(s) /\ lines'[p].type = "user" /\ lines'[p].conn = s[p - N]
      BY <1>0, <1>4, <2>1, ReplyLines
    <3>3. lines'[M].type = "endtrace"
      BY <1>0, <1>4, <2>1, ReplyLines
    <3>4. ASSUME NEW p \in N + 1 .. M - 1, NEW q \in N + 1 .. M - 1, lines'[p].conn = lines'[q].conn
          PROVE  p = q
      <4>1. PICK j, k \in 1 .. Len(s) : /\ j = p - N /\ k = q - N
                                        /\ lines'[p].conn = s[j] /\ lines'[q].conn = s[k]
        BY <3>2
      <4>2. j = k
        <5>1. s[j] = s[k]
          BY <3>4, <4>1
        <5>2. \A a, b \in 1 .. Len(s) : s[a] = s[b] => a = b
          BY <1>4 DEF Replies
        <5> QED
          BY <5>1, <5>2
      <4> QED
        BY <1>0, <2>0, <4>1, <4>2
    <3> QED
      BY <2>0, <3>1, <3>2, <3>3, <3>4
  <2>3. ASSUME NEW p \in 1 .. N, lines'[p].type = "user"
        PROVE  \E e \in p + 1 .. M :
                 /\ lines'[e].type = "endtrace"
                 /\ \A r \in p .. e - 1 : /\ lines'[r].type = "user"
                                          /\ r # p => lines'[r].conn # lines'[p].conn
    <3>2. PICK e \in p + 1 .. N :
            /\ lines[e].type = "endtrace"
            /\ \A r \in p .. e - 1 : /\ lines[r].type = "user"
                                     /\ r # p => lines[r].conn # lines[p].conn
      <4>1. lines[p].type = "user" /\ N = Len(lines)
        BY <1>0, <2>2, <2>3
      <4> QED
        BY <4>1 DEF Blocks
    <3>3. e \in p + 1 .. M /\ \A r \in p .. e : r \in 1 .. N
      BY <1>0, <2>2, <3>2
    <3> QED
      BY <2>2, <3>2, <3>3
  <2>4. ASSUME NEW p \in N + 1 .. M - 1
        PROVE  \E e \in p + 1 .. M :
                 /\ lines'[e].type = "endtrace"
                 /\ \A r \in p .. e - 1 : /\ lines'[r].type = "user"
                                          /\ r # p => lines'[r].conn # lines'[p].conn
    <3>1. M \in p + 1 .. M /\ \A r \in p .. M - 1 : r \in N + 1 .. M - 1
      BY <1>0, <2>2
    <3> QED
      BY <2>2, <3>1
  <2>5. \A p \in 1 .. M : p \in 1 .. N \/ p \in N + 1 .. M - 1 \/ p = M
    BY <1>0, <2>2
  <2>6. ASSUME NEW p \in 1 .. M, lines'[p].type = "user"
        PROVE  \E e \in p + 1 .. M :
                 /\ lines'[e].type = "endtrace"
                 /\ \A r \in p .. e - 1 : /\ lines'[r].type = "user"
                                          /\ r # p => lines'[r].conn # lines'[p].conn
    BY <2>2, <2>3, <2>4, <2>5, <2>6
  <2> QED
    BY <2>1, <2>6 DEF Blocks
<1> QED
  BY <1>1, <1>2, <1>3, <1>4, Trail DEF Speaks

\* Without a second TRACE during a first there is one at most, on its way out
\* or back, and gettingTrace is set just as long.
InOut == \E k \in 1 .. Len(out) : out[k] = "TRACE"
InLines == \E p \in 1 .. Len(lines) : lines[p].type = "endtrace"
OneOut == \A j, k \in 1 .. Len(out) : out[j] = "TRACE" /\ out[k] = "TRACE" => j = k
OneBack == \A j, k \in 1 .. Len(lines) :
             lines[j].type = "endtrace" /\ lines[k].type = "endtrace" => j = k
Lone == ~overlapped => /\ gettingTrace <=> InOut \/ InLines
                       /\ ~(InOut /\ InLines) /\ OneOut /\ OneBack

LEMMA SameBack ==
  ASSUME Typed, OneLine \/ lines' = lines
  PROVE  (InLines' <=> InLines) /\ (OneBack => OneBack')
<1>1. /\ Len(lines') \in Nat /\ Len(lines) \in Nat /\ Len(lines') >= Len(lines)
      /\ \A p \in 1 .. Len(lines) : lines'[p] = lines[p]
      /\ \A p \in 1 .. Len(lines') : lines'[p].type = "endtrace" => p \in 1 .. Len(lines)
  BY OldLines
<1>2. \A p \in 1 .. Len(lines) : p \in 1 .. Len(lines')
  BY <1>1
<1> QED
  BY <1>1, <1>2 DEF InLines, OneBack

LEMMA ReplyBack ==
  ASSUME Typed, NEW s, Replies(s), ~InLines
  PROVE  InLines' /\ OneBack'
<1>1. PICK N, M : N = Len(lines) /\ M = Len(lines')
  OBVIOUS
<1>2. /\ N \in Nat /\ M \in Nat /\ M >= N + 1 /\ \A p \in 1 .. N : lines'[p] = lines[p]
      /\ \A p \in N + 1 .. M - 1 : lines'[p].type = "user"
      /\ lines'[M].type = "endtrace"
  BY <1>1, ReplyLines
<1>3. \A p \in 1 .. M : p \in 1 .. N \/ p \in N + 1 .. M - 1 \/ p = M
  BY <1>2
<1>4. \A p \in 1 .. M : lines'[p].type = "endtrace" => p = M
  BY <1>1, <1>2, <1>3 DEF InLines
<1> QED
  BY <1>1, <1>2, <1>4 DEF InLines, OneBack

LEMMA ReadBack ==
  ASSUME Typed, Reading
  PROVE  /\ lines[1].type # "endtrace" => (InLines' <=> InLines)
         /\ lines[1].type = "endtrace" /\ OneBack => ~InLines'
         /\ OneBack => OneBack'
<1>1. PICK N : N = Len(lines) /\ N \in Nat \ {0}
  BY ReadingNext
<1>2. Len(lines') = N - 1 /\ \A p \in 1 .. N - 1 : lines'[p] = lines[p + 1]
  BY <1>1, ReadingNext
<1>3. /\ \A p \in 1 .. N - 1 : p + 1 \in 1 .. N /\ p + 1 # 1
      /\ \A p \in 1 .. N : p = 1 \/ (p - 1 \in 1 .. N - 1 /\ (p - 1) + 1 = p)
      /\ 1 \in 1 .. N
  BY <1>1
<1>4. lines[1].type # "endtrace" => (InLines' <=> InLines)
  <2>1. ASSUME InLines' PROVE InLines
    BY <1>1, <1>2, <1>3, <2>1 DEF InLines
  <2>2. ASSUME lines[1].type # "endtrace", InLines PROVE InLines'
    <3>1. PICK p \in 1 .. N : lines[p].type = "endtrace"
      BY <1>1, <2>2 DEF InLines
    <3>2. PICK q \in 1 .. N - 1 : q + 1 = p
      BY <1>3, <2>2, <3>1
    <3>3. lines'[q].type = "endtrace"
      BY <1>2, <3>1, <3>2
    <3> QED
      BY <1>2, <3>3 DEF InLines
  <2> QED
    BY <2>1, <2>2
<1>5. lines[1].type = "endtrace" /\ OneBack => ~InLines'
  BY <1>1, <1>2, <1>3 DEF InLines, OneBack
<1>6. OneBack => OneBack'
  <2> SUFFICES ASSUME OneBack, NEW j \in 1 .. N - 1, NEW k \in 1 .. N - 1,
                      lines'[j].type = "endtrace", lines'[k].type = "endtrace"
               PROVE  j = k
    BY <1>2 DEF OneBack
  <2>1. j + 1 = k + 1
    BY <1>1, <1>2, <1>3 DEF OneBack
  <2> QED
    BY <1>1, <2>1
<1> QED
  BY <1>4, <1>5, <1>6

LEMMA SameOut ==
  ASSUME Typed,
         \/ out' = out
         \/ out # <<>> /\ out' = Tail(out) /\ Head(out) # "TRACE"
         \/ /\ out' \in Seq(Nicks \cup {"TRACE"})
            /\ \A k \in DOMAIN out' : out'[k] = "TRACE" => k \in DOMAIN out
            /\ \A k \in DOMAIN out : k \in DOMAIN out' /\ out'[k] = out[k]
  PROVE  (InOut' <=> InOut) /\ (OneOut => OneOut')
<1>0. out \in Seq(Nicks \cup {"TRACE"})
  BY DEF Typed, ServerTyped
<1>1. CASE out' = out
  BY <1>1 DEF InOut, OneOut
<1>2. CASE out # <<>> /\ out' = Tail(out) /\ Head(out) # "TRACE"
  <2>1. /\ Len(out) \in Nat \ {0} /\ Len(out') = Len(out) - 1 /\ out[1] # "TRACE"
        /\ \A k \in 1 .. Len(out) - 1 : out'[k] = out[k + 1]
    BY <1>0, <1>2
  <2>2. /\ \A p \in 1 .. Len(out) - 1 : p + 1 \in 1 .. Len(out)
        /\ \A p \in 1 .. Len(out) : p = 1 \/ (p - 1 \in 1 .. Len(out) - 1 /\ (p - 1) + 1 = p)
    BY <2>1
  <2>3. InOut' <=> InOut
    <3>1. ASSUME InOut' PROVE InOut
      BY <2>1, <2>2, <3>1 DEF InOut
    <3>2. ASSUME InOut PROVE InOut'
      <4>1. PICK p \in 1 .. Len(out) : out[p] = "TRACE"
        BY <3>2 DEF InOut
      <4>2. PICK q \in 1 .. Len(out) - 1 : q + 1 = p
        BY <2>1, <2>2, <4>1
      <4>3. out'[q] = "TRACE"
        BY <2>1, <4>1, <4>2
      <4> QED
        BY <2>1, <4>3 DEF InOut
    <3> QED
      BY <3>1, <3>2
  <2>4. ASSUME OneOut, NEW j \in 1 .. Len(out) - 1, NEW k \in 1 .. Len(out) - 1,
               out'[j] = "TRACE", out'[k] = "TRACE"
        PROVE  j = k
    <3>1. j + 1 = k + 1
      BY <2>1, <2>2, <2>4 DEF OneOut
    <3> QED
      BY <2>1, <3>1
  <2> QED
    BY <2>1, <2>3, <2>4 DEF OneOut
<1>3. CASE /\ out' \in Seq(Nicks \cup {"TRACE"})
           /\ \A k \in DOMAIN out' : out'[k] = "TRACE" => k \in DOMAIN out
           /\ \A k \in DOMAIN out : k \in DOMAIN out' /\ out'[k] = out[k]
  <2>1. DOMAIN out = 1 .. Len(out) /\ DOMAIN out' = 1 .. Len(out')
    BY <1>0, <1>3
  <2> QED
    BY <1>3, <2>1 DEF InOut, OneOut
<1> QED
  BY <1>1, <1>2, <1>3

LEMMA LoneStep ==
  ASSUME Typed, [Next]_vars, Lone
  PROVE  Lone'
<1>0. out \in Seq(Nicks \cup {"TRACE"})
  BY DEF Typed, ServerTyped
<1>1. ASSUME out' = out, SameBot, OneLine PROVE Lone'
  BY <1>1, SameBack, SameOut DEF Lone, SameBot, history
<1>2. CASE Serve
  <2>1. ServeSays /\ SameBot
    BY <1>2, ServerStep
  <2>2. CASE Head(out) # "TRACE"
    <3>1. OneLine \/ lines' = lines
      BY <2>1, <2>2 DEF ServeSays, Told, OneLine
    <3>2. out # <<>> /\ out' = Tail(out)
      BY <2>1 DEF ServeSays
    <3> QED
      BY <2>1, <2>2, <3>1, <3>2, SameBack, SameOut DEF Lone, SameBot, history
  <2>3. CASE Head(out) = "TRACE"
    <3>1. PICK s : Replies(s)
      BY <2>1, <2>3 DEF ServeSays
    <3>2. /\ Len(out) \in Nat \ {0} /\ Len(out') = Len(out) - 1 /\ out[1] = "TRACE"
          /\ \A k \in 1 .. Len(out) - 1 : out'[k] = out[k + 1]
      BY <1>0, <2>1, <2>3 DEF ServeSays
    <3>3. InOut /\ (OneOut => ~InOut')
      <4>1. 1 \in 1 .. Len(out) /\ \A p \in 1 .. Len(out) - 1 : p + 1 \in 1 .. Len(out) /\ p + 1 # 1
        BY <3>2
      <4> QED
        BY <3>2, <4>1 DEF InOut, OneOut
    <3>4. ~InOut' => OneOut'
      BY DEF InOut, OneOut
    <3> QED
      BY <2>1, <3>1, <3>3, <3>4, ReplyBack DEF Lone, SameBot, history
  <2> QED
    BY <2>2, <2>3
<1>3. CASE Reading
  <2>1. (InOut' <=> InOut) /\ (OneOut => OneOut')
    <3>1. ~Serve /\ ~Trace
      <4>1. Len(lines') # Len(lines) /\ Len(lines') = Len(lines) - 1 /\ Len(lines) \in Nat
        BY <1>3, ReadingNext
      <4>2. Trace => lines' = lines
        BY DEF Trace
      <4>3. Serve => Spoke
        <5>1. ASSUME Serve PROVE Spoke
          <6>1. ServeSays
            BY <5>1, ServerStep
          <6>2. ASSUME lines' = lines PROVE Spoke
            BY <4>1, <6>2 DEF Spoke
          <6> QED
            BY <6>1, <6>2, ReplyMore, OneMore DEF ServeSays, Told
        <5> QED
          BY <5>1
      <4> QED
        BY <4>1, <4>2, <4>3 DEF Spoke
    <3> QED
      BY <3>1, OutStep, SameOut
  <2>2. CASE OnEndOfTrace
    <3>1. Reads("endtrace")
      BY <2>2 DEF OnEndOfTrace
    <3>2. lines[1].type = "endtrace" /\ Len(lines) \in Nat \ {0}
      BY <3>1, NextLine
    <3>3. InLines
      BY <3>2 DEF InLines
    <3>4. gettingTrace' = FALSE /\ overlapped' = overlapped
      BY <2>2 DEF OnEndOfTrace
    <3> QED
      BY <1>3, <2>1, <3>2, <3>3, <3>4, ReadBack DEF Lone
  <2>3. CASE ~OnEndOfTrace
    <3>1. PICK type \in Types \ {"endtrace"} : Reads(type)
      BY <1>3, <2>3 DEF Reading, OnConnect, OnExit, OnNick, OnOper, OnVersionReply, OnTraceUser, Types
    <3>2. lines[1].type # "endtrace"
      BY <3>1, NextLine
    <3>3. gettingTrace' = gettingTrace /\ overlapped' = overlapped
      BY <1>3, <2>3 DEF Reading, OnConnect, OnExit, OnNick, OnOper, OnVersionReply, OnTraceUser, history
    <3> QED
      BY <1>3, <2>1, <3>2, <3>3, ReadBack DEF Lone
  <2> QED
    BY <2>2, <2>3
<1>4. CASE Aside
  <2>1. (InLines' <=> InLines) /\ (OneBack => OneBack')
    BY <1>4, SameBack DEF Aside
  <2>2. CASE Trace
    <3>1. /\ gettingTrace' = TRUE /\ overlapped' = (overlapped \/ gettingTrace)
          /\ out' = Append(out, "TRACE")
      BY <2>2 DEF Trace
    <3>2. /\ Len(out) \in Nat /\ Len(out') = Len(out) + 1 /\ out'[Len(out) + 1] = "TRACE"
          /\ \A k \in 1 .. Len(out) : out'[k] = out[k]
      BY <1>0, <3>1
    <3>3. \A k \in 1 .. Len(out') : k \in 1 .. Len(out) \/ k = Len(out) + 1
      BY <3>2
    <3>4. InOut'
      BY <3>2 DEF InOut
    <3>5. ~InOut => OneOut'
      BY <3>2, <3>3 DEF InOut, OneOut
    <3> QED
      BY <2>1, <3>1, <3>4, <3>5 DEF Lone
  <2>3. CASE CheckVersionTimeout \/ CheckUserDelta \/ Tick \/ UNCHANGED vars
    <3>1. out' = out /\ gettingTrace' = gettingTrace /\ overlapped' = overlapped
      BY <2>3 DEF CheckVersionTimeout, CheckUserDelta, Tick, vars, hash, history
    <3> QED
      BY <2>1, <3>1, SameOut DEF Lone
  <2> QED
    BY <1>4, <2>2, <2>3 DEF Aside
<1>5. ASSUME NEW c \in Conns, NEW n \in Nicks, Connect(c, n) \/ ChangeNick(c, n)
      PROVE  Lone'
  <2>1. SameBot /\ out' = out /\ (ConnectSays(c, n) \/ NickSays(c, n))
    BY <1>5, ServerStep
  <2>2. OneLine
    BY <2>1 DEF ConnectSays, NickSays, Told, OneLine
  <2> QED
    BY <1>1, <2>1, <2>2
<1>6. ASSUME NEW c \in Conns, Exit(c) \/ OperUp(c)
      PROVE  Lone'
  <2>1. SameBot /\ out' = out /\ (ExitSays(c) \/ OperSays(c))
    BY <1>6, ServerStep
  <2>2. OneLine
    BY <2>1 DEF ExitSays, OperSays, Told, OneLine
  <2> QED
    BY <1>1, <2>1, <2>2
<1> QED
  BY <1>2, <1>3, <1>4, <1>5, <1>6, Steps

-----------------------------------------------------------------------------
(* The entries of the user table                                           *)

UserAt(k) == heap[table["user"][k]]
Places == 1 .. Len(table["user"])

LEMMA UserFacts ==
  ASSUME Typed
  PROVE  /\ Len(table["user"]) \in Nat /\ table["user"] \in Seq(Nat) /\ Len(heap) \in Nat
         /\ \A k \in Places : /\ table["user"][k] \in 1 .. Len(heap)
                              /\ UserAt(k) \in Entries /\ UserAt(k).conn \in Conns
                              /\ UserAt(k).ip \in Ips
<1>1. /\ table["user"] \in Seq(Nat) /\ heap \in Seq(Entries)
      /\ \A k \in 1 .. Len(table["user"]) : table["user"][k] \in 1 .. Len(heap)
  BY DEF Typed, HashTyped, Tables
<1>2. \A k \in Places : UserAt(k) \in Entries
  BY <1>1 DEF UserAt, Places
<1>3. \A k \in Places : UserAt(k).conn \in Conns /\ UserAt(k).ip \in Ips
  BY <1>2 DEF Entries
<1> QED
  BY <1>1, <1>2, <1>3 DEF Places

\* The same client, as far as the tables go
Alike(e, d) == /\ e.conn = d.conn /\ e.ip = d.ip /\ e.nick = d.nick /\ e.oper = d.oper
               /\ e.versioned = d.versioned

LEMMA GrownUser ==
  ASSUME Typed, NEW c, NEW n, NEW ip, NEW fromTrace, NEW isOper, NEW clones,
         Grown(c, n, ip, fromTrace, isOper, clones), NEW N, N = Len(table["user"])
  PROVE  /\ N \in Nat /\ Len(table'["user"]) = N + 1
         /\ \A k \in 1 .. N : /\ Alike(UserAt(k)', UserAt(k))
                              /\ UserAt(k)'.connected = UserAt(k).connected
         /\ Alike(UserAt(N + 1)', NewEntry(c, n, ip, fromTrace, isOper))
         /\ UserAt(N + 1)'.connected = TRUE
<1>1. N \in Nat /\ \A k \in 1 .. N : table["user"][k] \in 1 .. Len(heap)
  BY UserFacts DEF Places
<1>2. /\ Len(table'["user"]) = N + 1
      /\ \A k \in 1 .. N : table'["user"][k] = table["user"][k]
      /\ table'["user"][N + 1] = Len(heap) + 1
  BY DEF Grown, Tables
<1>3. ASSUME NEW i \in 1 .. Len(heap)
      PROVE  Alike(heap'[i], heap[i]) /\ heap'[i].connected = heap[i].connected
  <2>1. heap[i] \in Entries
    BY DEF Typed, HashTyped
  <2>2. heap'[i] = heap[i] \/ heap'[i] = [heap[i] EXCEPT !.report = now]
    BY DEF Grown
  <2> QED
    BY <2>1, <2>2 DEF Alike, Entries
<1>4. \A k \in 1 .. N : /\ Alike(UserAt(k)', UserAt(k))
                        /\ UserAt(k)'.connected = UserAt(k).connected
  BY <1>1, <1>2, <1>3 DEF UserAt
<1>5. /\ Alike(heap'[Len(heap) + 1], NewEntry(c, n, ip, fromTrace, isOper))
      /\ heap'[Len(heap) + 1].connected = TRUE
  <2>1. PICK e : e = NewEntry(c, n, ip, fromTrace, isOper)
    OBVIOUS
  <2>2. heap'[Len(heap) + 1] = e \/ heap'[Len(heap) + 1] = [e EXCEPT !.report = now]
    BY <2>1 DEF Grown
  <2>3. e.connected = TRUE /\ DOMAIN e = {"conn", "nick", "ip", "oper", "report", "at", "versioned", "connected"}
    BY <2>1 DEF NewEntry
  <2>4. Alike(heap'[Len(heap) + 1], e) /\ heap'[Len(heap) + 1].connected = TRUE
    BY <2>1, <2>2, <2>3 DEF Alike, NewEntry
  <2> QED
    BY <2>1, <2>4
<1>6. Alike(UserAt(N + 1)', NewEntry(c, n, ip, fromTrace, isOper)) /\ UserAt(N + 1)'.connected = TRUE
  BY <1>2, <1>5 DEF UserAt
<1> QED
  BY <1>1, <1>2, <1>4, <1>6

\* Where what is in a place of the table after a removal was before
Was(v, k) == IF v = 0 \/ k < v THEN k ELSE k + 1

LEMMA ShrunkUser ==
  ASSUME Typed, NEW c, NEW n, Shrunk(c, n), NEW v, v = Victim("user", c, n),
         NEW N, N = Len(table["user"])
  PROVE  /\ N \in Nat /\ v \in 0 .. N /\ Len(table'["user"]) = IF v = 0 THEN N ELSE N - 1
         /\ \A k \in 1 .. Len(table'["user"]) :
              /\ Was(v, k) \in 1 .. N /\ Was(v, k) # v
              /\ table'["user"][k] = table["user"][Was(v, k)]
              /\ Alike(UserAt(k)', UserAt(Was(v, k)))
         /\ \A j, k \in 1 .. Len(table'["user"]) : Was(v, j) = Was(v, k) => j = k
         /\ \A i \in 1 .. N : i # v => \E k \in 1 .. Len(table'["user"]) : Was(v, k) = i
<1>1. N \in Nat /\ table["user"] \in Seq(Nat)
      /\ \A k \in 1 .. N : table["user"][k] \in 1 .. Len(heap)
  BY UserFacts DEF Places
<1>2. v \in 0 .. N
  BY <1>1, VictimPlace
<1>3. table'["user"] = IF v = 0 THEN table["user"] ELSE RemoveAt(table["user"], v)
  BY DEF Shrunk, Tables, Erased
<1>4. /\ Len(table'["user"]) = IF v = 0 THEN N ELSE N - 1
      /\ \A k \in 1 .. Len(table'["user"]) : /\ Was(v, k) \in 1 .. N /\ Was(v, k) # v
                                             /\ table'["user"][k] = table["user"][Was(v, k)]
  <2>1. CASE v = 0
    BY <1>1, <1>3, <2>1 DEF Was
  <2>2. CASE v # 0
    <3>1. PICK s : s = table["user"]
      OBVIOUS
    <3>2. s \in Seq(Nat) /\ v \in 1 .. Len(s) /\ table'["user"] = RemoveAt(s, v) /\ Len(s) = N
      BY <1>1, <1>2, <1>3, <2>2, <3>1
    <3>3. /\ Len(table'["user"]) = N - 1
          /\ \A k \in 1 .. N - 1 : table'["user"][k] = IF k < v THEN s[k] ELSE s[k + 1]
      BY <3>2, Removed
    <3> QED
      BY <1>1, <1>2, <2>2, <3>1, <3>3 DEF Was
  <2> QED
    BY <2>1, <2>2
<1>5. ASSUME NEW i \in 1 .. Len(heap) PROVE Alike(heap'[i], heap[i])
  <2>1. heap[i] \in Entries
    BY DEF Typed, HashTyped
  <2>2. heap'[i] = heap[i] \/ heap'[i] = [heap[i] EXCEPT !.connected = FALSE]
    BY DEF Shrunk
  <2> QED
    BY <2>1, <2>2 DEF Alike, Entries
<1>6. \A k \in 1 .. Len(table'["user"]) : Alike(UserAt(k)', UserAt(Was(v, k)))
  <2> SUFFICES ASSUME NEW k \in 1 .. Len(table'["user"])
               PROVE  Alike(UserAt(k)', UserAt(Was(v, k)))
    OBVIOUS
  <2>1. PICK j : j = Was(v, k)
    OBVIOUS
  <2>2. j \in 1 .. N /\ table'["user"][k] = table["user"][j]
    BY <1>4, <2>1
  <2>3. UserAt(k)' = heap'[table["user"][j]] /\ table["user"][j] \in 1 .. Len(heap)
    BY <1>1, <2>2 DEF UserAt
  <2>4. Alike(UserAt(k)', UserAt(j))
    BY <1>5, <2>3 DEF UserAt
  <2> QED
    BY <2>1, <2>4
<1>7. \A j, k \in 1 .. Len(table'["user"]) : Was(v, j) = Was(v, k) => j = k
  BY <1>1, <1>2, <1>4 DEF Was
<1>8. ASSUME NEW i \in 1 .. N, i # v
      PROVE  \E k \in 1 .. Len(table'["user"]) : Was(v, k) = i
  <2>1. CASE v = 0 \/ i < v
    <3>1. Was(v, i) = i /\ i \in 1 .. Len(table'["user"])
      BY <1>1, <1>2, <1>4, <2>1 DEF Was
    <3> QED
      BY <3>1
  <2>2. CASE ~(v = 0 \/ i < v)
    <3>1. Was(v, i - 1) = i /\ i - 1 \in 1 .. Len(table'["user"])
      BY <1>1, <1>2, <1>4, <1>8, <2>2 DEF Was
    <3> QED
      BY <3>1
  <2> QED
    BY <2>1, <2>2
<1> QED
  BY <1>1, <1>2, <1>4, <1>6, <1>7, <1>8

\* remove takes a client that matches in all, if there is one.
LEMMA VictimMatches ==
  ASSUME Typed, NEW c, NEW n, NEW k \in Places, Matches(UserAt(k), c, n)
  PROVE  /\ Victim("user", c, n) \in Places
         /\ Matches(UserAt(Victim("user", c, n)), c, n)
<1>1. /\ DOMAIN table["user"] = Places /\ Places \in SUBSET Nat
  BY UserFacts DEF Places
<1> DEFINE loose == {i \in Places : world.uh[UserAt(i).conn] = world.uh[c]}
           exact == {i \in loose : UserAt(i).nick = n}
<1>2. Attempts("user", c, n) = <<exact, loose>>
  BY <1>1 DEF Attempts, UserAt
<1>3. k \in exact /\ exact \in SUBSET Nat /\ exact \in SUBSET Places
  BY <1>1 DEF Matches
<1>4. \A i \in exact : Matches(UserAt(i), c, n)
  BY DEF Matches
<1> HIDE DEF exact, loose
<1>5. Min(exact) \in exact
  BY <1>3, MinOf
<1>6. PICK A : A = <<exact, loose>>
  OBVIOUS
<1>7. PICK hits : hits = {i \in DOMAIN A : A[i] # {}}
  OBVIOUS
<1>8. A[1] = exact /\ DOMAIN A = 1 .. 2 /\ 1 \in hits /\ hits \in SUBSET Nat
  BY <1>3, <1>6, <1>7
<1>9. Min(hits) = 1
  <2>1. Min(hits) \in hits /\ \A i \in hits : Min(hits) <= i
    BY <1>8, MinOf
  <2>2. \A i \in hits : i \in 1 .. 2
    BY <1>7, <1>8
  <2>3. PICK m : m = Min(hits)
    OBVIOUS
  <2>4. m \in 1 .. 2 /\ m <= 1
    BY <1>8, <2>1, <2>2, <2>3
  <2> QED
    BY <2>3, <2>4
<1>10. Victim("user", c, n) = IF hits = {} THEN 0 ELSE Min(A[Min(hits)])
  BY <1>2, <1>6, <1>7 DEF Victim
<1>11. Victim("user", c, n) = Min(exact)
  BY <1>8, <1>9, <1>10
<1> QED
  BY <1>3, <1>4, <1>5, <1>11

-----------------------------------------------------------------------------
(* Each entry is of its own client                                         *)

\* What an entry says is true at g.
Truly(g, e) == /\ g.phase[e.conn] = "on" /\ e.nick = g.nick[e.conn]
               /\ e.oper = g.oper[e.conn] /\ e.conn \notin world.spoofs
Listed(q) == \A r \in 1 .. q : lines[r].type = "user"
AtReply == lines # <<>> /\ lines[1].type \in {"user", "endtrace"}

\* While no connect or exit has crossed a TRACE, the entries are of different
\* clients and say what was true when the bot read the last line; while a TRACE
\* runs there are none before its reply is being read, and none of those that
\* it still has to name. Who has answered has nothing more to answer.
Distinct == \A j, k \in Places : UserAt(j).conn = UserAt(k).conn => j = k
True(h) == \A k \in Places : Truly(h[1], UserAt(k))
Ahead == gettingTrace =>
  \A k \in Places : /\ AtReply
                    /\ \A q \in 1 .. Len(lines) : Listed(q) => lines[q].conn # UserAt(k).conn
Excused == \A k \in Places : UserAt(k).conn \in answered => UserAt(k).versioned = 0
Own(h) == ~raced => Distinct /\ True(h) /\ Ahead /\ Excused
Answered(h) == \A c \in Conns : c \in answered => h[1].phase[c] # "new"

LEMMA StillTrue ==
  ASSUME NEW g, NEW g2, NEW l, Caused(g, l, g2), NEW e, e.conn \in Conns,
         e.conn # l.conn \/ l.type \in {"version", "user", "endtrace"}, Truly(g, e)
  PROVE  Truly(g2, e)
  BY DEF Caused, Same, Truly

LEMMA AlikeTrue ==
  ASSUME NEW g, NEW e, NEW d, Alike(d, e), Truly(g, e), world' = world
  PROVE  Truly(g, d) /\ Truly(g, d)'
  BY DEF Alike, Truly

\* A client that is online has its own entry, or none matches it.
LEMMA OwnFound ==
  ASSUME Typed, NEW g, Sane(g), NEW c \in Conns, g.phase[c] = "on",
         \A k \in Places : Truly(g, UserAt(k))
  PROVE  \A k \in Places : Matches(UserAt(k), c, g.nick[c]) <=> UserAt(k).conn = c
<1> SUFFICES ASSUME NEW k \in Places
             PROVE  Matches(UserAt(k), c, g.nick[c]) <=> UserAt(k).conn = c
  OBVIOUS
<1>1. UserAt(k).conn \in Conns
  BY UserFacts
<1>2. UserAt(k).nick = g.nick[c] => UserAt(k).conn = c
  BY <1>1 DEF Truly, Sane
<1>3. UserAt(k).conn = c => UserAt(k).nick = g.nick[c]
  BY DEF Truly
<1> QED
  BY <1>2, <1>3 DEF Matches

LEMMA NextTruth ==
  ASSUME Typed, NEW h, Path(h), Reading, NEW g, Shifted(h, g)
  PROVE  /\ g[1] = h[2] /\ Caused(h[1], lines[1], h[2]) /\ Sane(h[1]) /\ Sane(h[2])
         /\ lines[1] \in Said /\ Len(lines) \in Nat \ {0}
         /\ Len(lines') = Len(lines) - 1
         /\ \A p \in 1 .. Len(lines) - 1 : lines'[p] = lines[p + 1]
<1>1. /\ Len(lines) \in Nat \ {0} /\ Len(lines') = Len(lines) - 1
      /\ \A p \in 1 .. Len(lines) - 1 : lines'[p] = lines[p + 1]
  BY ReadingNext
<1>2. lines[1] \in Said
  BY <1>1 DEF Typed, ServerTyped
<1>3. 1 \in 1 .. Len(lines) /\ 1 \in 1 .. Len(lines) + 1 /\ 2 \in 1 .. Len(lines) + 1 /\ 1 + 1 = 2
  BY <1>1
<1>4. g[1] = h[1 + 1] /\ Caused(h[1], lines[1], h[1 + 1]) /\ Sane(h[1]) /\ Sane(h[2])
  BY <1>3 DEF Shifted, Path
<1> QED
  BY <1>1, <1>2, <1>3, <1>4

LEMMA AnsweredAside ==
  ASSUME NEW h, Aside, Answered(h)
  PROVE  Answered(h)'
<1>1. answered' = answered
  BY DEF Aside, Trace, CheckVersionTimeout, CheckUserDelta, Tick, vars, history
<1> QED
  BY <1>1 DEF Answered

LEMMA AnsweredServer ==
  ASSUME Typed, NEW h, NEW g, Answered(h), SameBot, Longer(h, g)
  PROVE  Answered(g)'
<1>1. answered' = answered
  BY DEF SameBot, history
<1>2. 1 \in 1 .. Len(lines) + 1
  BY DEF Typed, ServerTyped
<1>3. g[1] = h[1]
  BY <1>2 DEF Longer
<1> QED
  BY <1>1, <1>3 DEF Answered

LEMMA AnsweredRead ==
  ASSUME Typed, NEW h, NEW g, Path(h), Answered(h), Reading, Shifted(h, g)
  PROVE  Answered(g)'
<1>1. g[1] = h[2] /\ Caused(h[1], lines[1], h[2]) /\ lines[1] \in Said
  BY NextTruth
<1>2. \A c \in Conns : h[1].phase[c] # "new" => h[2].phase[c] # "new"
  <2>1. lines[1].type \in Types
    BY <1>1 DEF Said, SomeLine
  <2> QED
    BY <1>1, <2>1 DEF Caused, Same, Types
<1>3. CASE OnVersionReply
  <2>1. Reads("version") /\ answered' = answered \cup {At}
    BY <1>3 DEF OnVersionReply
  <2>2. lines[1].type = "version" /\ At = lines[1].conn /\ At \in Conns
    BY <2>1, NextLine
  <2>3. h[1].phase[At] = "on"
    BY <1>1, <2>2 DEF Caused
  <2> QED
    BY <1>1, <1>2, <2>1, <2>3 DEF Answered
<1>4. CASE ~OnVersionReply
  <2>1. answered' = answered
    BY <1>4 DEF Reading, OnConnect, OnExit, OnNick, OnOper, OnTraceUser, OnEndOfTrace, history
  <2> QED
    BY <1>1, <1>2, <2>1 DEF Answered
<1> QED
  BY <1>3, <1>4

\* The steps of the server are no news to the bot.
LEMMA OwnServer ==
  ASSUME Typed, NEW h, Own(h), Blocks, Spoke, SameBot, world' = world, NEW g, Longer(h, g)
  PROVE  Own(g)'
<1>1. /\ heap' = heap /\ table' = table /\ gettingTrace' = gettingTrace
      /\ raced' = raced /\ answered' = answered
  BY DEF SameBot, history
<1>2. PICK N, M : N = Len(lines) /\ M = Len(lines')
  OBVIOUS
<1>3. /\ N \in Nat /\ M \in Nat /\ M >= N /\ \A p \in 1 .. N : lines'[p] = lines[p]
      /\ lines \in Seq(Said)
  BY <1>2 DEF Spoke, Typed, ServerTyped
<1>4. g[1] = h[1]
  <2>1. 1 \in 1 .. Len(lines) + 1
    BY <1>2, <1>3
  <2> QED
    BY <2>1 DEF Longer
<1>5. SUFFICES ASSUME ~raced, Distinct, True(h), Ahead, Excused
               PROVE  Ahead'
  <2>1. Distinct => Distinct'
    BY <1>1 DEF Distinct, UserAt, Places
  <2>2. Excused => Excused'
    BY <1>1 DEF Excused, UserAt, Places
  <2>3. True(h) => True(g)'
    BY <1>1, <1>4 DEF True, Truly, UserAt, Places
  <2> QED
    BY <1>1, <2>1, <2>2, <2>3 DEF Own
<1>6. SUFFICES ASSUME gettingTrace, NEW k \in Places
               PROVE  /\ AtReply'
                      /\ \A q \in 1 .. M : Listed(q)' => lines'[q].conn # UserAt(k).conn
  BY <1>1, <1>2 DEF Ahead, UserAt, Places
<1>7. AtReply /\ \A q \in 1 .. N : Listed(q) => lines[q].conn # UserAt(k).conn
  BY <1>2, <1>5, <1>6 DEF Ahead
<1>8. N # 0 /\ lines[1].type \in {"user", "endtrace"}
  BY <1>2, <1>3, <1>7 DEF AtReply
<1>9. AtReply'
  <2>1. lines'[1] = lines[1] /\ Len(lines') # 0
    BY <1>2, <1>3, <1>8
  <2>2. lines' # <<>>
    BY <2>1
  <2> QED
    BY <1>8, <2>1, <2>2 DEF AtReply
<1>10. ASSUME NEW q \in 1 .. M, Listed(q)' PROVE q \in 1 .. N
  <2> SUFFICES ASSUME q > N PROVE FALSE
    BY <1>3
  <2>1. N \in 1 .. q /\ N \in 1 .. N
    BY <1>3, <1>8
  <2>2. lines[N].type = "user"
    BY <1>3, <1>10, <2>1 DEF Listed
  <2>3. \E e \in N + 1 .. N : TRUE
    BY <1>2, <2>1, <2>2 DEF Blocks
  <2> QED
    BY <1>3, <2>3
<1>11. ASSUME NEW q \in 1 .. M, Listed(q)' PROVE lines'[q].conn # UserAt(k).conn
  <2>1. q \in 1 .. N
    BY <1>10, <1>11
  <2>2. \A r \in 1 .. q : r \in 1 .. N
    BY <1>3, <2>1
  <2>3. Listed(q)
    BY <1>3, <1>11, <2>2 DEF Listed
  <2> QED
    BY <1>3, <1>7, <2>1, <2>3
<1> QED
  BY <1>9, <1>11

LEMMA OwnAside ==
  ASSUME Typed, NEW h, Own(h), Aside, world' = world, [Next]_vars
  PROVE  Own(h)'
<1>1. CASE Trace
  <2>1. table' = [t \in Tables |-> <<>>]
    BY <1>1 DEF Trace, Clear
  <2>2. Len(table'["user"]) = 0
    BY <2>1 DEF Tables
  <2>3. Places' = {}
    BY <2>2 DEF Places
  <2> QED
    BY <2>3 DEF Own, Distinct, True, Ahead, Excused
<1>2. CASE CheckVersionTimeout
  <2>1. /\ Kept
        /\ \A i \in 1 .. Len(heap) : /\ heap'[i].nick = heap[i].nick /\ heap'[i].oper = heap[i].oper
                                     /\ heap'[i].versioned \in {0, heap[i].versioned}
    BY <1>2, TimeoutKept
  <2>2. Places' = Places /\ table' = table
    BY <2>1 DEF Kept, Places
  <2>3. \A k \in Places : /\ UserAt(k)'.conn = UserAt(k).conn /\ UserAt(k)'.nick = UserAt(k).nick
                          /\ UserAt(k)'.oper = UserAt(k).oper
                          /\ UserAt(k)'.versioned \in {0, UserAt(k).versioned}
    BY <2>1, UserFacts DEF Kept, Like, UserAt
  <2>4. /\ gettingTrace' = gettingTrace /\ lines' = lines /\ raced' = raced
        /\ answered' = answered
    BY <1>2 DEF CheckVersionTimeout, history
  <2>5. Distinct => Distinct'
    BY <2>2, <2>3 DEF Distinct
  <2>6. True(h) => True(h)'
    BY <2>2, <2>3 DEF True, Truly
  <2>7. Ahead => Ahead'
    BY <2>2, <2>3, <2>4 DEF Ahead, AtReply, Listed
  <2>8. Excused => Excused'
    BY <2>2, <2>3, <2>4 DEF Excused
  <2> QED
    BY <2>4, <2>5, <2>6, <2>7, <2>8 DEF Own
<1>3. CASE CheckUserDelta \/ Tick \/ UNCHANGED vars
  <2>1. /\ heap' = heap /\ table' = table /\ gettingTrace' = gettingTrace /\ lines' = lines
        /\ raced' = raced /\ answered' = answered
    BY <1>3 DEF CheckUserDelta, Tick, vars, hash, history
  <2> QED
    BY <2>1 DEF Own, Distinct, True, Ahead, Excused, Truly, AtReply, Listed, UserAt, Places
<1> QED
  BY <1>1, <1>2, <1>3 DEF Aside

\* What is found for a client that is online is its own entry.
LEMMA OwnEntry ==
  ASSUME Typed, NEW g, Sane(g), NEW c \in Conns, g.phase[c] = "on", Distinct,
         \A k \in Places : Truly(g, UserAt(k))
  PROVE  \A k \in Places : table["user"][k] = FindUser(c, g.nick[c]) <=> UserAt(k).conn = c
<1>1. PICK id, n : id = FindUser(c, g.nick[c]) /\ n = g.nick[c]
  OBVIOUS
<1>2. \A k \in Places : Matches(UserAt(k), c, n) <=> UserAt(k).conn = c
  BY <1>1, OwnFound
<1>3. \/ id = 0 /\ \A k \in Places : ~Matches(UserAt(k), c, n)
      \/ \E k \in Places : id = table["user"][k] /\ Matches(UserAt(k), c, n)
  <2>1. HashTyped
    BY DEF Typed
  <2> QED
    BY <1>1, <2>1, Found DEF Places, UserAt
<1>4. CASE id = 0 /\ \A k \in Places : ~Matches(UserAt(k), c, n)
  <2>1. \A k \in Places : table["user"][k] # 0
    BY UserFacts
  <2> QED
    BY <1>1, <1>2, <1>4, <2>1
<1>5. ASSUME NEW j \in Places, id = table["user"][j], Matches(UserAt(j), c, n), NEW k \in Places
      PROVE  table["user"][k] = id <=> UserAt(k).conn = c
  <2>1. UserAt(j).conn = c
    BY <1>2, <1>5
  <2>2. ASSUME table["user"][k] = id PROVE UserAt(k).conn = c
    BY <1>5, <2>1, <2>2 DEF UserAt
  <2>3. ASSUME UserAt(k).conn = c PROVE table["user"][k] = id
    BY <1>5, <2>1, <2>3 DEF Distinct
  <2> QED
    BY <2>2, <2>3
<1> QED
  BY <1>1, <1>3, <1>4, <1>5

\* While a TRACE runs and other lines are read there are no entries.
LEMMA NoneAhead ==
  ASSUME gettingTrace, Ahead, lines[1].type \notin {"user", "endtrace"}
  PROVE  Places = {}
  BY DEF Ahead, AtReply

LEMMA NoneOwn ==
  ASSUME Places' = {}
  PROVE  Distinct' /\ Ahead' /\ Excused' /\ \A g : True(g)'
  BY DEF Distinct, Ahead, Excused, True

LEMMA OwnNick ==
  ASSUME Typed, NEW h, Path(h), OnNick, Reading, NEW g, Shifted(h, g), Own(h), world' = world
  PROVE  Own(g)'
<1>1. /\ g[1] = h[2] /\ Caused(h[1], lines[1], h[2]) /\ Sane(h[1]) /\ lines[1] \in Said
  BY NextTruth
<1>2. /\ lines[1].type = "nick" /\ At = lines[1].conn /\ AtNick = lines[1].nick /\ At \in Conns
  <2>1. Reads("nick")
    BY DEF OnNick
  <2> QED
    BY <2>1, NextLine
<1>3. /\ h[1].phase[At] = "on" /\ AtNick = h[1].nick[At]
      /\ h[2].phase[At] = "on" /\ h[2].nick[At] = lines[1].new /\ h[2].oper[At] = h[1].oper[At]
  BY <1>1, <1>2 DEF Caused
<1>4. /\ gettingTrace' = gettingTrace /\ raced' = raced /\ answered' = answered
  BY DEF OnNick, history
<1>5. /\ Kept
      /\ \A i \in 1 .. Len(heap) :
           /\ heap'[i].nick = IF i = FindUser(At, AtNick) THEN lines[1].new ELSE heap[i].nick
           /\ heap'[i].oper = heap[i].oper /\ heap'[i].versioned = heap[i].versioned
  BY NickKept
<1>6. Places' = Places /\ table' = table
  BY <1>5 DEF Kept, Places
<1>7. SUFFICES ASSUME ~raced, Distinct, True(h), Ahead, Excused
               PROVE  Distinct' /\ True(g)' /\ Ahead' /\ Excused'
  BY <1>4 DEF Own
<1>8. CASE gettingTrace
  BY <1>2, <1>6, <1>7, <1>8, NoneAhead, NoneOwn
<1>9. CASE ~gettingTrace
  <2>1. \A k \in Places : table["user"][k] = FindUser(At, AtNick) <=> UserAt(k).conn = At
    BY <1>1, <1>2, <1>3, <1>7, OwnEntry DEF True
  <2>2. \A k \in Places :
          /\ UserAt(k)'.conn = UserAt(k).conn
          /\ UserAt(k)'.nick = IF UserAt(k).conn = At THEN lines[1].new ELSE UserAt(k).nick
          /\ UserAt(k)'.oper = UserAt(k).oper /\ UserAt(k)'.versioned = UserAt(k).versioned
    <3> TAKE k \in Places
    <3>1. PICK i : i = table["user"][k]
      OBVIOUS
    <3>2. i \in 1 .. Len(heap) /\ UserAt(k) = heap[i] /\ UserAt(k)' = heap'[i]
      BY <1>6, <3>1, UserFacts DEF UserAt
    <3>3. heap'[i].conn = heap[i].conn
      BY <1>5, <3>2 DEF Kept, Like
    <3> QED
      BY <1>5, <2>1, <3>1, <3>2, <3>3
  <2>3. ASSUME NEW k \in Places PROVE Truly(h[2], UserAt(k))'
    <3>1. Truly(h[1], UserAt(k)) /\ UserAt(k).conn \in Conns
      BY <1>7, UserFacts DEF True
    <3>2. CASE UserAt(k).conn = At
      BY <1>3, <2>2, <3>1, <3>2 DEF Truly
    <3>3. CASE UserAt(k).conn # At
      <4>1. Truly(h[2], UserAt(k))
        BY <1>1, <1>2, <3>1, <3>3, StillTrue
      <4> QED
        BY <2>2, <3>3, <4>1 DEF Truly
    <3> QED
      BY <3>2, <3>3
  <2>4. True(g)'
    BY <1>1, <1>6, <2>3 DEF True
  <2>5. Distinct' /\ Excused'
    BY <1>4, <1>6, <1>7, <2>2 DEF Distinct, Excused
  <2>6. Ahead'
    BY <1>4, <1>9 DEF Ahead
  <2> QED
    BY <2>4, <2>5, <2>6
<1> QED
  BY <1>8, <1>9

LEMMA OwnOper ==
  ASSUME Typed, NEW h, Path(h), OnOper, Reading, NEW g, Shifted(h, g), Own(h), world' = world
  PROVE  Own(g)'
<1>1. /\ g[1] = h[2] /\ Caused(h[1], lines[1], h[2]) /\ Sane(h[1]) /\ lines[1] \in Said
  BY NextTruth
<1>2. /\ lines[1].type = "oper" /\ At = lines[1].conn /\ AtNick = lines[1].nick /\ At \in Conns
  <2>1. Reads("oper")
    BY DEF OnOper
  <2> QED
    BY <2>1, NextLine
<1>3. /\ h[1].phase[At] = "on" /\ AtNick = h[1].nick[At]
      /\ h[2].phase[At] = "on" /\ h[2].nick[At] = AtNick /\ h[2].oper[At] = TRUE
  BY <1>1, <1>2 DEF Caused
<1>4. /\ gettingTrace' = gettingTrace /\ raced' = raced /\ answered' = answered
  BY DEF OnOper, history
<1>5. /\ Kept
      /\ \A i \in 1 .. Len(heap) :
           /\ heap'[i].oper = IF i = FindUser(At, AtNick) THEN TRUE ELSE heap[i].oper
           /\ heap'[i].nick = heap[i].nick /\ heap'[i].versioned = heap[i].versioned
  BY OperKept
<1>6. Places' = Places /\ table' = table
  BY <1>5 DEF Kept, Places
<1>7. SUFFICES ASSUME ~raced, Distinct, True(h), Ahead, Excused
               PROVE  Distinct' /\ True(g)' /\ Ahead' /\ Excused'
  BY <1>4 DEF Own
<1>8. CASE gettingTrace
  BY <1>2, <1>6, <1>7, <1>8, NoneAhead, NoneOwn
<1>9. CASE ~gettingTrace
  <2>1. \A k \in Places : table["user"][k] = FindUser(At, AtNick) <=> UserAt(k).conn = At
    BY <1>1, <1>2, <1>3, <1>7, OwnEntry DEF True
  <2>2. \A k \in Places :
          /\ UserAt(k)'.conn = UserAt(k).conn
          /\ UserAt(k)'.oper = IF UserAt(k).conn = At THEN TRUE ELSE UserAt(k).oper
          /\ UserAt(k)'.nick = UserAt(k).nick /\ UserAt(k)'.versioned = UserAt(k).versioned
    <3> TAKE k \in Places
    <3>1. PICK i : i = table["user"][k]
      OBVIOUS
    <3>2. i \in 1 .. Len(heap) /\ UserAt(k) = heap[i] /\ UserAt(k)' = heap'[i]
      BY <1>6, <3>1, UserFacts DEF UserAt
    <3>3. heap'[i].conn = heap[i].conn
      BY <1>5, <3>2 DEF Kept, Like
    <3> QED
      BY <1>5, <2>1, <3>1, <3>2, <3>3
  <2>3. ASSUME NEW k \in Places PROVE Truly(h[2], UserAt(k))'
    <3>1. Truly(h[1], UserAt(k)) /\ UserAt(k).conn \in Conns
      BY <1>7, UserFacts DEF True
    <3>2. CASE UserAt(k).conn = At
      BY <1>3, <2>2, <3>1, <3>2 DEF Truly
    <3>3. CASE UserAt(k).conn # At
      <4>1. Truly(h[2], UserAt(k))
        BY <1>1, <1>2, <3>1, <3>3, StillTrue
      <4> QED
        BY <2>2, <3>3, <4>1 DEF Truly
    <3> QED
      BY <3>2, <3>3
  <2>4. True(g)'
    BY <1>1, <1>6, <2>3 DEF True
  <2>5. Distinct' /\ Excused'
    <3>0. \A k \in Places : UserAt(k)'.conn = UserAt(k).conn
      BY <2>2
    <3>1. Distinct'
      BY <1>6, <1>7, <3>0 DEF Distinct
    <3>2. Excused'
      BY <1>4, <1>6, <1>7, <2>2 DEF Excused
    <3> QED
      BY <3>1, <3>2
  <2>6. Ahead'
    BY <1>4, <1>9 DEF Ahead
  <2> QED
    BY <2>4, <2>5, <2>6
<1> QED
  BY <1>8, <1>9

LEMMA OwnVersion ==
  ASSUME Typed, NEW h, Path(h), OnVersionReply, Reading, NEW g, Shifted(h, g), Own(h),
         world' = world
  PROVE  Own(g)'
<1>1. /\ g[1] = h[2] /\ Caused(h[1], lines[1], h[2]) /\ Sane(h[1]) /\ lines[1] \in Said
  BY NextTruth
<1>2. /\ lines[1].type = "version" /\ At = lines[1].conn /\ AtNick = lines[1].nick /\ At \in Conns
  <2>1. Reads("version")
    BY DEF OnVersionReply
  <2> QED
    BY <2>1, NextLine
<1>3. h[1].phase[At] = "on" /\ AtNick = h[1].nick[At]
  BY <1>1, <1>2 DEF Caused
<1>4. /\ gettingTrace' = gettingTrace /\ raced' = raced /\ answered' = answered \cup {At}
  BY DEF OnVersionReply
<1>5. /\ Kept
      /\ \A i \in 1 .. Len(heap) :
           /\ heap'[i].versioned = IF i = FindUser(At, AtNick) THEN 0 ELSE heap[i].versioned
           /\ heap'[i].nick = heap[i].nick /\ heap'[i].oper = heap[i].oper
  BY VersionKept
<1>6. Places' = Places /\ table' = table
  BY <1>5 DEF Kept, Places
<1>7. SUFFICES ASSUME ~raced, Distinct, True(h), Ahead, Excused
               PROVE  Distinct' /\ True(g)' /\ Ahead' /\ Excused'
  BY <1>4 DEF Own
<1>8. CASE gettingTrace
  BY <1>2, <1>6, <1>7, <1>8, NoneAhead, NoneOwn
<1>9. CASE ~gettingTrace
  <2>1. \A k \in Places : table["user"][k] = FindUser(At, AtNick) <=> UserAt(k).conn = At
    BY <1>1, <1>2, <1>3, <1>7, OwnEntry DEF True
  <2>2. \A k \in Places :
          /\ UserAt(k)'.conn = UserAt(k).conn
          /\ UserAt(k)'.versioned = IF UserAt(k).conn = At THEN 0 ELSE UserAt(k).versioned
          /\ UserAt(k)'.nick = UserAt(k).nick /\ UserAt(k)'.oper = UserAt(k).oper
    <3> TAKE k \in Places
    <3>1. PICK i : i = table["user"][k]
      OBVIOUS
    <3>2. i \in 1 .. Len(heap) /\ UserAt(k) = heap[i] /\ UserAt(k)' = heap'[i]
      BY <1>6, <3>1, UserFacts DEF UserAt
    <3>3. heap'[i].conn = heap[i].conn
      BY <1>5, <3>2 DEF Kept, Like
    <3> QED
      BY <1>5, <2>1, <3>1, <3>2, <3>3
  <2>3. ASSUME NEW k \in Places PROVE Truly(h[2], UserAt(k))'
    <3>1. Truly(h[1], UserAt(k)) /\ UserAt(k).conn \in Conns
      BY <1>7, UserFacts DEF True
    <3>2. Truly(h[2], UserAt(k))
      BY <1>1, <1>2, <3>1, StillTrue
    <3> QED
      BY <2>2, <3>2 DEF Truly
  <2>4. True(g)'
    BY <1>1, <1>6, <2>3 DEF True
  <2>5. Distinct' /\ Excused'
    <3>1. Distinct'
      BY <1>6, <1>7, <2>2 DEF Distinct
    <3>2. ASSUME NEW k \in Places, UserAt(k)'.conn \in answered' PROVE UserAt(k)'.versioned = 0
      <4>1. UserAt(k).conn \in answered \/ UserAt(k).conn = At
        BY <1>4, <2>2, <3>2
      <4> QED
        BY <1>7, <2>2, <4>1 DEF Excused
    <3> QED
      BY <1>6, <3>1, <3>2 DEF Excused
  <2>6. Ahead'
    BY <1>4, <1>9 DEF Ahead
  <2> QED
    BY <2>4, <2>5, <2>6
<1> QED
  BY <1>8, <1>9

LEMMA OwnExit ==
  ASSUME Typed, NEW h, Path(h), OnExit, Reading, NEW g, Shifted(h, g), Own(h), world' = world
  PROVE  Own(g)'
<1>1. /\ g[1] = h[2] /\ Caused(h[1], lines[1], h[2]) /\ Sane(h[1]) /\ lines[1] \in Said
  BY NextTruth
<1>2. /\ lines[1].type = "exit" /\ At = lines[1].conn /\ AtNick = lines[1].nick /\ At \in Conns
  <2>1. Reads("exit")
    BY DEF OnExit
  <2> QED
    BY <2>1, NextLine
<1>3. h[1].phase[At] = "on" /\ AtNick = h[1].nick[At]
  BY <1>1, <1>2 DEF Caused
<1>4. /\ gettingTrace' = gettingTrace /\ raced' = (raced \/ gettingTrace) /\ answered' = answered
  BY DEF OnExit
<1>5. SUFFICES ASSUME ~raced, ~gettingTrace, Distinct, True(h), Excused
               PROVE  Distinct' /\ True(g)' /\ Excused'
  BY <1>4 DEF Own, Ahead
<1>6. PICK v, N : v = Victim("user", At, AtNick) /\ N = Len(table["user"])
  OBVIOUS
<1>7. /\ N \in Nat
      /\ \A k \in 1 .. Len(table'["user"]) :
           /\ Was(v, k) \in 1 .. N /\ Was(v, k) # v
           /\ Alike(UserAt(k)', UserAt(Was(v, k)))
      /\ \A j, k \in 1 .. Len(table'["user"]) : Was(v, j) = Was(v, k) => j = k
  BY <1>6, ExitShrinks, ShrunkUser
<1>8. \A k \in Places : Matches(UserAt(k), At, AtNick) <=> UserAt(k).conn = At
  BY <1>1, <1>2, <1>3, <1>5, OwnFound DEF True
<1>9. ASSUME NEW k \in Places, UserAt(k).conn = At PROVE k = v
  <2>1. v \in Places /\ UserAt(v).conn = At
    BY <1>6, <1>8, <1>9, VictimMatches
  <2> QED
    BY <1>5, <1>9, <2>1 DEF Distinct
<1>10. ASSUME NEW k \in Places'
       PROVE  /\ Was(v, k) \in Places /\ Alike(UserAt(k)', UserAt(Was(v, k)))
              /\ UserAt(Was(v, k)).conn # At
  <2>1. Was(v, k) \in Places /\ Was(v, k) # v /\ Alike(UserAt(k)', UserAt(Was(v, k)))
    BY <1>6, <1>7 DEF Places
  <2> QED
    BY <1>9, <2>1
<1>11. Distinct'
  <2> SUFFICES ASSUME NEW j \in Places', NEW k \in Places', UserAt(j)'.conn = UserAt(k)'.conn
               PROVE  j = k
    BY DEF Distinct
  <2>1. Was(v, j) = Was(v, k)
    BY <1>5, <1>10 DEF Distinct, Alike
  <2> QED
    BY <1>7, <2>1 DEF Places
<1>12. Excused'
  <2> SUFFICES ASSUME NEW k \in Places', UserAt(k)'.conn \in answered
               PROVE  UserAt(k)'.versioned = 0
    BY <1>4 DEF Excused
  <2> QED
    BY <1>5, <1>10 DEF Excused, Alike
<1>13. True(g)'
  <2> SUFFICES ASSUME NEW k \in Places' PROVE Truly(h[2], UserAt(k))'
    BY <1>1 DEF True
  <2>1. PICK j \in Places : Alike(UserAt(k)', UserAt(j)) /\ UserAt(j).conn # At
    BY <1>10
  <2>2. Truly(h[1], UserAt(j)) /\ UserAt(j).conn \in Conns
    BY <1>5, UserFacts DEF True
  <2>3. Truly(h[2], UserAt(j))
    BY <1>1, <1>2, <2>1, <2>2, StillTrue
  <2> QED
    BY <2>1, <2>3 DEF Truly, Alike
<1> QED
  BY <1>11, <1>12, <1>13

\* What a new entry does to the others, and says itself
LEMMA OwnGrown ==
  ASSUME Typed, NEW g, NEW c \in Conns, NEW n, NEW ip, NEW fromTrace, NEW isOper, NEW clones,
         Grown(c, n, ip, fromTrace, isOper, clones), world' = world,
         Distinct, Excused, answered' = answered,
         \A k \in Places : Truly(g, UserAt(k)) /\ UserAt(k).conn # c,
         g.phase[c] = "on", n = g.nick[c], isOper = g.oper[c], c \notin world.spoofs,
         fromTrace \/ c \notin answered
  PROVE  /\ Distinct' /\ Excused' /\ \A k \in Places' : Truly(g, UserAt(k))'
         /\ \A k \in Places' : \/ UserAt(k)'.conn = c
                               \/ k \in Places /\ UserAt(k)'.conn = UserAt(k).conn
<1>1. PICK N : N = Len(table["user"])
  OBVIOUS
<1>2. /\ N \in Nat /\ Len(table'["user"]) = N + 1
      /\ \A k \in 1 .. N : Alike(UserAt(k)', UserAt(k))
      /\ Alike(UserAt(N + 1)', NewEntry(c, n, ip, fromTrace, isOper))
  BY <1>1, GrownUser
<1>3. Places' = 1 .. N + 1 /\ Places = 1 .. N
  BY <1>1, <1>2 DEF Places
<1>4. \A k \in Places' : k \in Places \/ k = N + 1
  BY <1>2, <1>3
<1>5. /\ UserAt(N + 1)'.conn = c /\ UserAt(N + 1)'.nick = n /\ UserAt(N + 1)'.oper = isOper
      /\ fromTrace => UserAt(N + 1)'.versioned = 0
  BY <1>2 DEF Alike, NewEntry, Checked
<1>6. \A k \in Places : /\ UserAt(k)'.conn = UserAt(k).conn /\ UserAt(k)'.nick = UserAt(k).nick
                        /\ UserAt(k)'.oper = UserAt(k).oper
                        /\ UserAt(k)'.versioned = UserAt(k).versioned
  BY <1>2, <1>3 DEF Alike
<1>7. Distinct'
  <2> SUFFICES ASSUME NEW j \in Places', NEW k \in Places', UserAt(j)'.conn = UserAt(k)'.conn
               PROVE  j = k
    BY DEF Distinct
  <2>1. CASE j \in Places /\ k \in Places
    BY <1>6, <2>1 DEF Distinct
  <2> QED
    BY <1>4, <1>5, <1>6, <2>1
<1>8. Excused'
  <2> SUFFICES ASSUME NEW k \in Places', UserAt(k)'.conn \in answered
               PROVE  UserAt(k)'.versioned = 0
    BY DEF Excused
  <2> QED
    BY <1>4, <1>5, <1>6 DEF Excused
<1>9. ASSUME NEW k \in Places' PROVE Truly(g, UserAt(k))'
  <2>1. CASE k \in Places
    BY <1>6, <2>1 DEF Truly
  <2>2. CASE k = N + 1
    BY <1>5, <2>2 DEF Truly
  <2> QED
    BY <1>4, <2>1, <2>2
<1>10. \A k \in Places' : \/ UserAt(k)'.conn = c
                          \/ k \in Places /\ UserAt(k)'.conn = UserAt(k).conn
  BY <1>4, <1>5, <1>6
<1> QED
  BY <1>7, <1>8, <1>9, <1>10

LEMMA OwnConnect ==
  ASSUME Typed, NEW h, Path(h), OnConnect, Reading, NEW g, Shifted(h, g), Own(h), Answered(h),
         world' = world
  PROVE  Own(g)'
<1>1. /\ g[1] = h[2] /\ Caused(h[1], lines[1], h[2]) /\ Sane(h[1]) /\ lines[1] \in Said
  BY NextTruth
<1>2. /\ lines[1].type = "connect" /\ At = lines[1].conn /\ AtNick = lines[1].nick /\ At \in Conns
  <2>1. Reads("connect")
    BY DEF OnConnect
  <2> QED
    BY <2>1, NextLine
<1>3. /\ h[1].phase[At] = "new" /\ h[2].phase[At] = "on" /\ h[2].nick[At] = AtNick
      /\ h[2].oper[At] = FALSE
  BY <1>1, <1>2 DEF Caused, Sane
<1>4. /\ gettingTrace' = gettingTrace /\ raced' = (raced \/ gettingTrace) /\ answered' = answered
  BY DEF OnConnect
<1>5. SUFFICES ASSUME ~raced, ~gettingTrace, Distinct, True(h), Excused
               PROVE  Distinct' /\ True(g)' /\ Excused'
  BY <1>4 DEF Own, Ahead
<1>6. ASSUME NEW k \in Places
      PROVE  Truly(h[2], UserAt(k)) /\ UserAt(k).conn # At
  <2>1. Truly(h[1], UserAt(k)) /\ UserAt(k).conn \in Conns
    BY <1>5, UserFacts DEF True
  <2>2. UserAt(k).conn # At
    BY <1>3, <2>1 DEF Truly
  <2> QED
    BY <1>1, <1>2, <2>1, <2>2, StillTrue
<1>7. At \notin answered
  BY <1>2, <1>3 DEF Answered
<1>8. CASE At \in world.spoofs
  <2>1. heap' = heap /\ table' = table
    BY <1>8 DEF OnConnect
  <2> QED
    BY <1>1, <1>4, <1>5, <1>6, <2>1 DEF Distinct, True, Excused, Truly, UserAt, Places
<1>9. CASE At \notin world.spoofs
  <2>1. PICK ip, clones : Grown(At, AtNick, ip, FALSE, FALSE, clones)
    BY <1>9, ConnectAdds
  <2>2. Distinct' /\ Excused' /\ \A k \in Places' : Truly(h[2], UserAt(k))'
    BY <1>2, <1>3, <1>4, <1>5, <1>6, <1>7, <1>9, <2>1, OwnGrown
  <2> QED
    BY <1>1, <2>2 DEF True
<1> QED
  BY <1>8, <1>9

LEMMA OwnEnd ==
  ASSUME Typed, NEW h, Path(h), OnEndOfTrace, Reading, NEW g, Shifted(h, g), Own(h),
         world' = world
  PROVE  Own(g)'
<1>1. g[1] = h[2] /\ Caused(h[1], lines[1], h[2])
  BY NextTruth
<1>2. lines[1].type = "endtrace"
  <2>1. Reads("endtrace")
    BY DEF OnEndOfTrace
  <2> QED
    BY <2>1, NextLine
<1>3. /\ gettingTrace' = FALSE /\ raced' = raced /\ answered' = answered
      /\ heap' = heap /\ table' = table
  BY DEF OnEndOfTrace
<1>4. True(h) => True(g)'
  <2> SUFFICES ASSUME True(h), NEW k \in Places PROVE Truly(h[2], UserAt(k))
    BY <1>1, <1>3 DEF True, Truly, UserAt, Places
  <2>1. Truly(h[1], UserAt(k)) /\ UserAt(k).conn \in Conns
    BY UserFacts DEF True
  <2> QED
    BY <1>1, <1>2, <2>1, StillTrue
<1> QED
  BY <1>3, <1>4 DEF Own, Distinct, Ahead, Excused, UserAt, Places

LEMMA OwnUser ==
  ASSUME Typed, NEW h, Path(h), OnTraceUser, Reading, NEW g, Shifted(h, g), Own(h), Blocks,
         world' = world
  PROVE  Own(g)'
<1>1. /\ g[1] = h[2] /\ Caused(h[1], lines[1], h[2]) /\ Sane(h[1]) /\ lines[1] \in Said
  BY NextTruth
<1>2. /\ lines[1].type = "user" /\ At = lines[1].conn /\ AtNick = lines[1].nick /\ At \in Conns
  <2>1. Reads("user")
    BY DEF OnTraceUser
  <2> QED
    BY <2>1, NextLine
<1>3. /\ h[1].phase[At] = "on" /\ h[1].nick[At] = AtNick /\ h[1].oper[At] = lines[1].oper
      /\ \A d \in Conns : Same(h[1], h[2], d)
  BY <1>1, <1>2 DEF Caused
<1>4. /\ gettingTrace' = gettingTrace /\ raced' = raced /\ answered' = answered
  BY DEF OnTraceUser
<1>5. SUFFICES ASSUME ~raced, Distinct, True(h), Ahead, Excused
               PROVE  Distinct' /\ True(g)' /\ Ahead' /\ Excused'
  BY <1>4 DEF Own
<1>6. ASSUME NEW k \in Places PROVE Truly(h[2], UserAt(k))
  <2>1. Truly(h[1], UserAt(k)) /\ UserAt(k).conn \in Conns
    BY <1>5, UserFacts DEF True
  <2> QED
    BY <1>1, <1>2, <2>1, StillTrue
<1>7. PICK N : N = Len(lines) /\ N \in Nat \ {0} /\ Len(lines') = N - 1
               /\ \A p \in 1 .. N - 1 : lines'[p] = lines[p + 1]
  BY NextTruth
<1>8. PICK e \in 2 .. N : /\ lines[e].type = "endtrace"
                          /\ \A r \in 1 .. e - 1 : /\ lines[r].type = "user"
                                                   /\ r # 1 => lines[r].conn # At
  <2>1. 1 \in 1 .. N /\ 1 + 1 = 2
    BY <1>7
  <2> QED
    BY <1>2, <1>7, <2>1 DEF Blocks
<1>9. AtReply'
  <2>1. 1 \in 1 .. N - 1 /\ lines'[1] = lines[2]
    BY <1>7, <1>8
  <2>2. lines[2].type \in {"user", "endtrace"}
    BY <1>8
  <2>3. lines' # <<>>
    BY <1>7, <2>1
  <2> QED
    BY <2>1, <2>2, <2>3 DEF AtReply
<1>10. ASSUME NEW q \in 1 .. N - 1, Listed(q)'
       PROVE  lines'[q] = lines[q + 1] /\ q + 1 \in 1 .. N /\ Listed(q + 1) /\ lines[q + 1].conn # At
  <2>1. lines'[q] = lines[q + 1] /\ q + 1 \in 1 .. N
    BY <1>7
  <2>2. Listed(q + 1)
    <3> SUFFICES ASSUME NEW r \in 1 .. q + 1 PROVE lines[r].type = "user"
      BY DEF Listed
    <3>1. CASE r = 1
      BY <1>2, <3>1
    <3>2. CASE r # 1
      <4>1. PICK i \in 1 .. q : i + 1 = r /\ i \in 1 .. N - 1
        <5>1. r - 1 \in 1 .. q /\ (r - 1) + 1 = r /\ r - 1 \in 1 .. N - 1
          BY <1>7, <3>2
        <5> QED
          BY <5>1
      <4>2. lines'[i].type = "user" /\ lines'[i] = lines[i + 1]
        BY <1>7, <1>10, <4>1 DEF Listed
      <4> QED
        BY <4>1, <4>2
    <3> QED
      BY <3>1, <3>2
  <2>3. lines[q + 1].conn # At
    <3>1. ASSUME e <= q + 1 PROVE FALSE
      <4>1. e \in 1 .. q + 1
        BY <3>1
      <4>2. lines[e].type = "user"
        BY <2>2, <4>1 DEF Listed
      <4> QED
        BY <1>8, <4>2
    <3>2. q + 1 \in 1 .. e - 1 /\ q + 1 # 1
      BY <1>7, <3>1
    <3> QED
      BY <1>8, <3>2
  <2> QED
    BY <2>1, <2>2, <2>3
<1>11. ASSUME gettingTrace, NEW k \in Places, NEW q \in 1 .. N - 1, Listed(q)'
       PROVE  lines'[q].conn # UserAt(k).conn
  <2>1. \A i \in 1 .. N : Listed(i) => lines[i].conn # UserAt(k).conn
    BY <1>5, <1>7, <1>11 DEF Ahead
  <2> QED
    BY <1>10, <1>11, <2>1
<1>12. CASE ~gettingTrace \/ At \in world.spoofs
  <2>1. heap' = heap /\ table' = table
    BY <1>12 DEF OnTraceUser
  <2>2. Ahead'
    BY <1>4, <1>7, <1>9, <1>11, <2>1 DEF Ahead, UserAt, Places
  <2> QED
    BY <1>1, <1>4, <1>5, <1>6, <2>1, <2>2 DEF Distinct, True, Excused, Truly, UserAt, Places
<1>13. CASE gettingTrace /\ At \notin world.spoofs
  <2>1. PICK ip, clones : Grown(At, AtNick, ip, TRUE, lines[1].oper, clones)
    BY <1>13, TraceAdds
  <2>2. h[2].phase[At] = "on" /\ AtNick = h[2].nick[At] /\ lines[1].oper = h[2].oper[At]
    BY <1>2, <1>3 DEF Same
  <2>3. \A k \in Places : UserAt(k).conn # At
    <3>1. 1 \in 1 .. N /\ Listed(1)
      BY <1>2, <1>7 DEF Listed
    <3> QED
      BY <1>2, <1>5, <1>7, <1>13, <3>1 DEF Ahead
  <2>4. /\ Distinct' /\ Excused' /\ \A k \in Places' : Truly(h[2], UserAt(k))'
        /\ \A k \in Places' : \/ UserAt(k)'.conn = At
                              \/ k \in Places /\ UserAt(k)'.conn = UserAt(k).conn
    BY <1>2, <1>4, <1>5, <1>6, <1>13, <2>1, <2>2, <2>3, OwnGrown
  <2>5. ASSUME NEW k \in Places', NEW q \in 1 .. N - 1, Listed(q)'
        PROVE  lines'[q].conn # UserAt(k)'.conn
    BY <1>10, <1>11, <1>13, <2>4, <2>5
  <2>6. Ahead'
    BY <1>4, <1>7, <1>9, <2>5 DEF Ahead
  <2> QED
    BY <1>1, <2>4, <2>6 DEF True
<1> QED
  BY <1>12, <1>13

LEMMA OwnInit ==
  ASSUME Init
  PROVE  Blocks /\ \E h : Path(h) /\ Own(h) /\ Answered(h)
<1>1. lines = <<>> /\ Len(lines) = 0 /\ Places = {} /\ answered = {}
  BY DEF Init, Places, Tables
<1>2. Blocks
  BY <1>1 DEF Blocks
<1>3. PICK h : h = [p \in 1 .. 1 |-> Now]
  OBVIOUS
<1>4. h[1] = Now
  BY <1>3
<1>5. Sane(Now)
  <2>1. Now.phase = phase /\ Now.nick = nick /\ Now.oper = oper
    BY DEF Now
  <2> QED
    BY <2>1 DEF Init, Sane, Online
<1>6. Path(h)
  BY <1>1, <1>4, <1>5 DEF Path
<1>7. Own(h) /\ Answered(h)
  BY <1>1 DEF Own, Distinct, True, Ahead, Excused, Answered
<1> QED
  BY <1>2, <1>6, <1>7

-----------------------------------------------------------------------------
(* Every client is known                                                   *)

\* While no TRACE is lost within another and no client that was turned away has
\* exited, each client that the server has told of is covered by an entry that
\* matches it, and while a TRACE runs each client that was online when it was
\* served is named by a line of the reply or, when the reply is being read,
\* covered already.
Clients == Conns \ world.spoofs
Covered(g, c) == \E k \in Places : Matches(UserAt(k), c, g.nick[c])
Pending(e, c) == \E p \in 1 .. e - 1 : lines[p].type = "user" /\ lines[p].conn = c
AllCovered(g) == \A c \in Clients : g.phase[c] = "on" => Covered(g, c)
AllNamed(h) ==
  \A e \in 1 .. Len(lines) : lines[e].type = "endtrace" =>
    \A c \in Clients : h[e].phase[c] = "on" =>
      Pending(e, c) \/ (Listed(e - 1) /\ Covered(h[1], c))
Awaited(h) == ~overlapped /\ ~misled => /\ ~gettingTrace => AllCovered(h[1])
                                        /\ AllNamed(h)

\* The steps of the server: who is online is in its reply.
LEMMA AwaitedServer ==
  ASSUME Typed, NEW h, Path(h), Awaited(h), Spoke, Speaks, SameBot, world' = world,
         NEW g, Longer(h, g), Path(g)'
  PROVE  Awaited(g)'
<1>1. /\ heap' = heap /\ table' = table /\ gettingTrace' = gettingTrace
      /\ overlapped' = overlapped /\ misled' = misled
  BY DEF SameBot, history
<1>2. PICK N, M : N = Len(lines) /\ M = Len(lines')
  OBVIOUS
<1>3. /\ N \in Nat /\ M \in Nat /\ M >= N /\ \A p \in 1 .. N : lines'[p] = lines[p]
      /\ \A p \in 1 .. N + 1 : g[p] = h[p]
  BY <1>2 DEF Spoke, Typed, ServerTyped, Longer
<1>4. g[1] = h[1]
  BY <1>3
<1>5. /\ Places' = Places /\ Clients' = Clients
      /\ \A c : Covered(h[1], c)' <=> Covered(h[1], c)
  BY <1>1 DEF Places, Clients, Covered, Matches, UserAt
<1>6. AllCovered(h[1]) => AllCovered(g[1])'
  BY <1>4, <1>5 DEF AllCovered, Covered
<1>7. SUFFICES ASSUME AllNamed(h), NEW e \in 1 .. M, lines'[e].type = "endtrace",
                      NEW c \in Clients, g[e].phase[c] = "on"
               PROVE  Pending(e, c)' \/ (Listed(e - 1)' /\ Covered(h[1], c))
  <2>1. AllNamed(h) => AllNamed(g)'
    BY <1>2, <1>4, <1>5, <1>7 DEF AllNamed, Covered
  <2> QED
    BY <1>1, <1>6, <2>1 DEF Awaited
<1>8. CASE e \in 1 .. N
  <2>1. lines[e].type = "endtrace" /\ h[e].phase[c] = "on"
    BY <1>3, <1>7, <1>8
  <2>2. Pending(e, c) \/ (Listed(e - 1) /\ Covered(h[1], c))
    BY <1>2, <1>7, <1>8, <2>1 DEF AllNamed
  <2>3. \A p \in 1 .. e - 1 : lines'[p] = lines[p]
    BY <1>3, <1>8
  <2> QED
    BY <2>2, <2>3 DEF Pending, Listed
<1>9. CASE e \notin 1 .. N
  <2>1. ~(OneLine \/ lines' = lines)
    BY <1>2, <1>7, <1>9, OldLines
  <2>2. PICK s : Replies(s) /\ SameTruth
    BY <2>1 DEF Speaks
  <2>3. /\ lines'[M].type = "endtrace"
        /\ \A p \in N + 1 .. M - 1 : lines'[p].type = "user"
        /\ \A d \in Online : \E p \in N + 1 .. M - 1 : lines'[p].conn = d
    <3>1. /\ \A p \in 1 .. N : lines'[p] = lines[p]
          /\ \A p \in N + 1 .. M - 1 :
               p - N \in 1 .. Len(s) /\ lines'[p].type = "user" /\ lines'[p].conn = s[p - N]
      BY <1>2, <2>2, ReplyLines
    <3>2. lines'[M].type = "endtrace"
      BY <1>2, <2>2, ReplyLines
    <3>3. ASSUME NEW d \in Online PROVE \E p \in N + 1 .. M - 1 : lines'[p].conn = d
      <4>1. PICK k \in 1 .. Len(s) : s[k] = d
        BY <2>2, <3>3 DEF Replies
      <4>2. Len(s) \in Nat /\ M = N + Len(s) + 1
        BY <1>2, <2>2, ReplyLines
      <4>3. N + k \in N + 1 .. M - 1 /\ (N + k) - N = k
        BY <1>3, <4>1, <4>2
      <4> QED
        BY <3>1, <4>1, <4>3
    <3> QED
      BY <3>1, <3>2, <3>3
  <2>4. e = M
    <3>1. e \in N + 1 .. M - 1 \/ e = M
      BY <1>3, <1>7, <1>9
    <3> QED
      BY <1>7, <2>3, <3>1
  <2>5. Caused(g[M], lines'[M], g[M + 1]) /\ g[M + 1] = Now'
    BY <1>2, <1>7, <2>4 DEF Path
  <2>6. Now'.phase = phase
    BY <2>2 DEF SameTruth, Now
  <2>7. c \in Online
    BY <1>7, <2>3, <2>4, <2>5, <2>6 DEF Caused, Same, Online, Clients
  <2>8. PICK p \in N + 1 .. M - 1 : lines'[p].conn = c /\ lines'[p].type = "user"
    BY <2>3, <2>7
  <2>9. p \in 1 .. e - 1
    BY <1>3, <2>4
  <2> QED
    BY <2>8, <2>9 DEF Pending
<1> QED
  BY <1>8, <1>9

LEMMA AwaitedAside ==
  ASSUME Typed, NEW h, Awaited(h), Lone, Aside, world' = world
  PROVE  Awaited(h)'
<1>1. CASE Trace
  <2>1. gettingTrace' = TRUE /\ overlapped' = (overlapped \/ gettingTrace) /\ lines' = lines
    BY <1>1 DEF Trace
  <2>2. ~overlapped' => AllNamed(h)'
    BY <2>1 DEF AllNamed, Lone, InLines
  <2> QED
    BY <2>1, <2>2 DEF Awaited
<1>2. CASE CheckVersionTimeout
  <2>1. /\ Kept
        /\ \A i \in 1 .. Len(heap) : heap'[i].nick = heap[i].nick
    BY <1>2, TimeoutKept
  <2>2. Places' = Places /\ table' = table
    BY <2>1 DEF Kept, Places
  <2>3. \A k \in Places : UserAt(k)'.conn = UserAt(k).conn /\ UserAt(k)'.nick = UserAt(k).nick
    BY <2>1, UserFacts DEF Kept, Like, UserAt
  <2>4. /\ gettingTrace' = gettingTrace /\ lines' = lines
        /\ overlapped' = overlapped /\ misled' = misled
    BY <1>2 DEF CheckVersionTimeout, history
  <2>5. \A g, c : Covered(g, c) => Covered(g, c)'
    BY <2>2, <2>3 DEF Covered, Matches
  <2>6. Clients' = Clients
    BY DEF Clients
  <2>7. AllCovered(h[1]) => AllCovered(h[1])'
    BY <2>5, <2>6 DEF AllCovered
  <2>8. AllNamed(h) => AllNamed(h)'
    BY <2>4, <2>5, <2>6 DEF AllNamed, Pending, Listed
  <2> QED
    BY <2>4, <2>7, <2>8 DEF Awaited
<1>3. CASE CheckUserDelta \/ Tick \/ UNCHANGED vars
  <2>1. /\ heap' = heap /\ table' = table /\ gettingTrace' = gettingTrace /\ lines' = lines
        /\ overlapped' = overlapped /\ misled' = misled
    BY <1>3 DEF CheckUserDelta, Tick, vars, hash, history
  <2>2. \A g, c : Covered(g, c) => Covered(g, c)'
    BY <2>1 DEF Covered, Matches, Places, UserAt
  <2>3. Clients' = Clients
    BY DEF Clients
  <2>4. AllCovered(h[1]) => AllCovered(h[1])'
    BY <2>2, <2>3 DEF AllCovered
  <2>5. AllNamed(h) => AllNamed(h)'
    BY <2>1, <2>2, <2>3 DEF AllNamed, Pending, Listed
  <2> QED
    BY <2>1, <2>4, <2>5 DEF Awaited
<1> QED
  BY <1>1, <1>2, <1>3 DEF Aside

\* A line that is no part of a reply stands before the whole reply.
LEMMA NamedRead ==
  ASSUME Typed, NEW h, Path(h), Reading, NEW g, Shifted(h, g), AllNamed(h), world' = world,
         lines[1].type \notin {"user", "endtrace"}
  PROVE  AllNamed(g)'
<1>1. PICK N : N = Len(lines) /\ N \in Nat \ {0} /\ Len(lines') = N - 1
               /\ \A p \in 1 .. N - 1 : lines'[p] = lines[p + 1]
  BY NextTruth
<1>2. SUFFICES ASSUME NEW e \in 1 .. N - 1, lines'[e].type = "endtrace",
                      NEW c \in Clients, g[e].phase[c] = "on"
               PROVE  Pending(e, c)'
  <2>1. Clients' = Clients
    BY DEF Clients
  <2> QED
    BY <1>1, <1>2, <2>1 DEF AllNamed
<1>3. e + 1 \in 1 .. N /\ lines[e + 1].type = "endtrace" /\ h[e + 1].phase[c] = "on"
  BY <1>1, <1>2 DEF Shifted
<1>4. ~Listed((e + 1) - 1)
  <2>1. 1 \in 1 .. (e + 1) - 1
    BY <1>1
  <2> QED
    BY <2>1 DEF Listed
<1>5. Pending(e + 1, c)
  BY <1>1, <1>2, <1>3, <1>4 DEF AllNamed
<1>6. PICK p \in 1 .. (e + 1) - 1 : lines[p].type = "user" /\ lines[p].conn = c
  BY <1>5 DEF Pending
<1>7. p # 1
  BY <1>6
<1>8. p - 1 \in 1 .. e - 1 /\ (p - 1) + 1 = p /\ p - 1 \in 1 .. N - 1
  BY <1>1, <1>6, <1>7
<1>9. lines'[p - 1] = lines[p]
  BY <1>1, <1>8
<1> QED
  BY <1>6, <1>8, <1>9 DEF Pending

\* A new entry covers its client, and those that were covered are.
LEMMA CoverGrown ==
  ASSUME Typed, NEW c \in Conns, NEW n, NEW ip, NEW fromTrace, NEW isOper, NEW clones,
         Grown(c, n, ip, fromTrace, isOper, clones), world' = world, NEW g
  PROVE  /\ n = g.nick[c] => Covered(g, c)'
         /\ \A d \in Conns : Covered(g, d) => Covered(g, d)'
<1>1. PICK N : N = Len(table["user"])
  OBVIOUS
<1>2. /\ N \in Nat /\ Len(table'["user"]) = N + 1
      /\ \A k \in 1 .. N : Alike(UserAt(k)', UserAt(k))
      /\ Alike(UserAt(N + 1)', NewEntry(c, n, ip, fromTrace, isOper))
  BY <1>1, GrownUser
<1>3. Places' = 1 .. N + 1 /\ Places = 1 .. N
  BY <1>1, <1>2 DEF Places
<1>4. UserAt(N + 1)'.conn = c /\ UserAt(N + 1)'.nick = n /\ N + 1 \in Places'
  BY <1>2, <1>3 DEF Alike, NewEntry
<1>5. \A k \in Places : /\ UserAt(k)'.conn = UserAt(k).conn /\ UserAt(k)'.nick = UserAt(k).nick
                        /\ k \in Places'
  BY <1>2, <1>3 DEF Alike
<1>6. ASSUME n = g.nick[c] PROVE Covered(g, c)'
  BY <1>4, <1>6 DEF Covered, Matches
<1>7. ASSUME NEW d \in Conns, Covered(g, d) PROVE Covered(g, d)'
  BY <1>5, <1>7 DEF Covered, Matches
<1> QED
  BY <1>6, <1>7

\* Each other line but the replies moves the client it speaks of, and leaves
\* the clients covered.
LEMMA CoverConnect ==
  ASSUME Typed, NEW h, Path(h), OnConnect, Reading, NEW g, Shifted(h, g), world' = world,
         AllCovered(h[1])
  PROVE  AllCovered(g[1])'
<1>1. /\ g[1] = h[2] /\ Caused(h[1], lines[1], h[2])
  BY NextTruth
<1>2. /\ lines[1].type = "connect" /\ At = lines[1].conn /\ AtNick = lines[1].nick /\ At \in Conns
  <2>1. Reads("connect")
    BY DEF OnConnect
  <2> QED
    BY <2>1, NextLine
<1>3. h[2].nick[At] = AtNick /\ \A d \in Conns : d # At => Same(h[1], h[2], d)
  BY <1>1, <1>2 DEF Caused
<1>4. SUFFICES ASSUME NEW d \in Clients, h[2].phase[d] = "on" PROVE Covered(h[2], d)'
  BY <1>1 DEF AllCovered, Clients
<1>5. d \in Conns /\ d \notin world.spoofs
  BY DEF Clients
<1>6. d # At => Covered(h[2], d)
  <2> SUFFICES ASSUME d # At PROVE Covered(h[2], d)
    OBVIOUS
  <2>1. Same(h[1], h[2], d)
    BY <1>3, <1>5
  <2> QED
    BY <1>4, <2>1 DEF Same, AllCovered, Covered
<1>7. CASE At \in world.spoofs
  <2>1. heap' = heap /\ table' = table
    BY <1>7 DEF OnConnect
  <2>2. Covered(h[2], d)
    BY <1>5, <1>6, <1>7
  <2> QED
    BY <2>1, <2>2 DEF Covered, Places, Matches, UserAt
<1>8. CASE At \notin world.spoofs
  <2>1. PICK ip, clones : Grown(At, AtNick, ip, FALSE, FALSE, clones)
    BY <1>8, ConnectAdds
  <2>2. CASE d = At
    BY <1>2, <1>3, <2>1, <2>2, CoverGrown
  <2>3. CASE d # At
    BY <1>2, <1>5, <1>6, <2>1, <2>3, CoverGrown
  <2> QED
    BY <2>2, <2>3
<1> QED
  BY <1>7, <1>8

\* The exit takes an entry that has the nickname of the client, and so no one's
\* else.
LEMMA CoverExit ==
  ASSUME Typed, NEW h, Path(h), OnExit, Reading, NEW g, Shifted(h, g), world' = world,
         ~misled', AllCovered(h[1])
  PROVE  AllCovered(g[1])'
<1>1. /\ g[1] = h[2] /\ Caused(h[1], lines[1], h[2]) /\ Sane(h[1])
  BY NextTruth
<1>2. /\ lines[1].type = "exit" /\ At = lines[1].conn /\ AtNick = lines[1].nick /\ At \in Conns
  <2>1. Reads("exit")
    BY DEF OnExit
  <2> QED
    BY <2>1, NextLine
<1>3. /\ h[1].phase[At] = "on" /\ AtNick = h[1].nick[At] /\ h[2].phase[At] = "gone"
      /\ \A d \in Conns : d # At => Same(h[1], h[2], d)
  BY <1>1, <1>2 DEF Caused
<1>4. SUFFICES ASSUME NEW d \in Clients, h[2].phase[d] = "on" PROVE Covered(h[2], d)'
  BY <1>1 DEF AllCovered, Clients
<1>5. d \in Conns /\ d # At
  BY <1>3, <1>4 DEF Clients
<1>6. h[1].phase[d] = "on" /\ h[1].nick[d] = h[2].nick[d] /\ h[1].nick[d] # AtNick
  BY <1>1, <1>2, <1>3, <1>4, <1>5 DEF Same, Sane
<1>7. PICK k \in Places : Matches(UserAt(k), d, h[2].nick[d])
  BY <1>6 DEF AllCovered, Covered
<1>8. PICK v, N : v = Victim("user", At, AtNick) /\ N = Len(table["user"])
  OBVIOUS
<1>9. k # v
  <2>1. At \in Clients
    BY <1>2 DEF OnExit, Clients
  <2>2. PICK j \in Places : Matches(UserAt(j), At, AtNick)
    BY <1>3, <2>1 DEF AllCovered, Covered
  <2>3. Matches(UserAt(v), At, AtNick)
    BY <1>8, <2>2, VictimMatches
  <2>4. UserAt(v).nick = AtNick /\ UserAt(k).nick = h[2].nick[d]
    BY <1>7, <2>3 DEF Matches
  <2> QED
    BY <1>6, <2>4
<1>10. /\ \A j \in 1 .. Len(table'["user"]) : Alike(UserAt(j)', UserAt(Was(v, j)))
       /\ \A i \in 1 .. N : i # v => \E j \in 1 .. Len(table'["user"]) : Was(v, j) = i
  BY <1>8, ExitShrinks, ShrunkUser
<1>11. PICK j \in Places' : Was(v, j) = k
  BY <1>7, <1>8, <1>9, <1>10 DEF Places
<1>12. UserAt(j)'.conn = UserAt(k).conn /\ UserAt(j)'.nick = UserAt(k).nick
  <2>1. Alike(UserAt(j)', UserAt(Was(v, j)))
    BY <1>10 DEF Places
  <2> QED
    BY <1>11, <2>1 DEF Alike
<1>13. UserAt(j)'.nick = h[2].nick[d] /\ world.uh[UserAt(j)'.conn] = world.uh[d]
  BY <1>7, <1>12 DEF Matches
<1> QED
  BY <1>11, <1>13 DEF Covered, Matches

\* A change of nickname renames an entry that had the old one.
LEMMA CoverNick ==
  ASSUME Typed, NEW h, Path(h), OnNick, Reading, NEW g, Shifted(h, g), world' = world,
         AllCovered(h[1])
  PROVE  AllCovered(g[1])'
<1>1. /\ g[1] = h[2] /\ Caused(h[1], lines[1], h[2]) /\ Sane(h[1])
  BY NextTruth
<1>2. /\ lines[1].type = "nick" /\ At = lines[1].conn /\ AtNick = lines[1].nick /\ At \in Conns
  <2>1. Reads("nick")
    BY DEF OnNick
  <2> QED
    BY <2>1, NextLine
<1>3. /\ h[1].phase[At] = "on" /\ AtNick = h[1].nick[At] /\ h[2].nick[At] = lines[1].new
      /\ \A d \in Conns : d # At => Same(h[1], h[2], d)
  BY <1>1, <1>2 DEF Caused
<1>4. PICK id : id = FindUser(At, AtNick)
  OBVIOUS
<1>5. /\ Kept
      /\ \A i \in 1 .. Len(heap) :
           heap'[i].nick = IF i = id THEN lines[1].new ELSE heap[i].nick
  BY <1>4, NickKept
<1>6. Places' = Places /\ table' = table
  BY <1>5 DEF Kept, Places
<1>7. \A k \in Places :
        /\ UserAt(k)'.conn = UserAt(k).conn
        /\ UserAt(k)'.nick = IF table["user"][k] = id THEN lines[1].new ELSE UserAt(k).nick
  BY <1>5, <1>6, UserFacts DEF UserAt, Kept, Like
<1>8. \/ id = 0 /\ \A k \in Places : ~Matches(UserAt(k), At, AtNick)
      \/ \E k \in Places : id = table["user"][k] /\ Matches(UserAt(k), At, AtNick)
  <2>1. HashTyped
    BY DEF Typed
  <2> QED
    BY <1>4, <2>1, Found DEF Places, UserAt
<1>9. SUFFICES ASSUME NEW d \in Clients, h[2].phase[d] = "on" PROVE Covered(h[2], d)'
  BY <1>1 DEF AllCovered, Clients
<1>10. CASE d = At
  <2>1. PICK k \in Places : Matches(UserAt(k), At, AtNick)
    BY <1>3, <1>9, <1>10 DEF AllCovered, Covered
  <2>2. PICK j \in Places : id = table["user"][j] /\ Matches(UserAt(j), At, AtNick)
    BY <1>8, <2>1
  <2>3. UserAt(j)'.nick = h[2].nick[d] /\ world.uh[UserAt(j)'.conn] = world.uh[d]
    BY <1>3, <1>7, <1>10, <2>2 DEF Matches
  <2> QED
    BY <1>6, <2>3 DEF Covered, Matches
<1>11. CASE d # At
  <2>1. h[1].phase[d] = "on" /\ h[1].nick[d] = h[2].nick[d] /\ h[1].nick[d] # AtNick
    BY <1>1, <1>2, <1>3, <1>9, <1>11 DEF Same, Sane, Clients
  <2>2. PICK k \in Places : Matches(UserAt(k), d, h[2].nick[d])
    BY <1>9, <2>1 DEF AllCovered, Covered
  <2>3. table["user"][k] # id
    <3>1. UserAt(k).nick # AtNick /\ table["user"][k] # 0
      BY <2>1, <2>2, UserFacts DEF Matches
    <3>2. ASSUME NEW j \in Places, id = table["user"][j], Matches(UserAt(j), At, AtNick)
          PROVE  table["user"][k] # id
      BY <3>1, <3>2 DEF Matches, UserAt
    <3> QED
      BY <1>8, <3>1, <3>2
  <2>4. UserAt(k)'.nick = h[2].nick[d] /\ world.uh[UserAt(k)'.conn] = world.uh[d]
    BY <1>7, <2>2, <2>3 DEF Matches
  <2> QED
    BY <1>6, <2>4 DEF Covered, Matches
<1> QED
  BY <1>10, <1>11

LEMMA CoverKept ==
  ASSUME Typed, NEW h, Path(h), OnOper \/ OnVersionReply, Reading, NEW g, Shifted(h, g),
         world' = world, AllCovered(h[1])
  PROVE  AllCovered(g[1])'
<1>1. /\ g[1] = h[2] /\ Caused(h[1], lines[1], h[2])
  BY NextTruth
<1>2. lines[1].type \in {"oper", "version"}
  <2>1. Reads("oper") \/ Reads("version")
    BY DEF OnOper, OnVersionReply
  <2> QED
    BY <2>1, NextLine
<1>3. \A d \in Conns : h[2].phase[d] = "on" => h[1].phase[d] = "on" /\ h[2].nick[d] = h[1].nick[d]
  BY <1>1, <1>2 DEF Caused, Same
<1>4. Kept /\ \A i \in 1 .. Len(heap) : heap'[i].nick = heap[i].nick
  BY OperKept, VersionKept
<1>5. Places' = Places /\ table' = table
  BY <1>4 DEF Kept, Places
<1>6. \A k \in Places : UserAt(k)'.conn = UserAt(k).conn /\ UserAt(k)'.nick = UserAt(k).nick
  BY <1>4, <1>5, UserFacts DEF UserAt, Kept, Like
<1>7. SUFFICES ASSUME NEW d \in Clients, h[2].phase[d] = "on" PROVE Covered(h[2], d)'
  BY <1>1 DEF AllCovered, Clients
<1>8. h[1].phase[d] = "on" /\ h[2].nick[d] = h[1].nick[d]
  BY <1>3, <1>7 DEF Clients
<1>9. PICK k \in Places : Matches(UserAt(k), d, h[2].nick[d])
  BY <1>7, <1>8 DEF AllCovered, Covered
<1> QED
  BY <1>5, <1>6, <1>9 DEF Covered, Matches

\* The end of TRACE: the reply is complete.
LEMMA CoverEnd ==
  ASSUME Typed, NEW h, Path(h), OnEndOfTrace, Reading, NEW g, Shifted(h, g), world' = world,
         Lone, ~overlapped, AllNamed(h)
  PROVE  AllCovered(g[1])' /\ AllNamed(g)'
<1>1. /\ g[1] = h[2] /\ Caused(h[1], lines[1], h[2])
  BY NextTruth
<1>2. lines[1].type = "endtrace"
  <2>1. Reads("endtrace")
    BY DEF OnEndOfTrace
  <2> QED
    BY <2>1, NextLine
<1>3. \A d \in Conns : Same(h[1], h[2], d)
  BY <1>1, <1>2 DEF Caused
<1>4. PICK N : N = Len(lines) /\ N \in Nat \ {0} /\ Len(lines') = N - 1
               /\ \A p \in 1 .. N - 1 : lines'[p] = lines[p + 1]
  BY NextTruth
<1>5. heap' = heap /\ table' = table
  BY DEF OnEndOfTrace
<1>6. ASSUME NEW d \in Clients, h[2].phase[d] = "on" PROVE Covered(h[2], d)'
  <2>1. h[1].phase[d] = "on" /\ h[1].nick[d] = h[2].nick[d]
    BY <1>3, <1>6 DEF Same, Clients
  <2>2. 1 \in 1 .. Len(lines) /\ ~Pending(1, d)
    BY <1>4 DEF Pending
  <2>3. Covered(h[1], d)
    BY <1>2, <1>6, <2>1, <2>2 DEF AllNamed
  <2> QED
    BY <1>5, <2>1, <2>3 DEF Covered, Matches, Places, UserAt
<1>7. AllCovered(g[1])'
  BY <1>1, <1>6 DEF AllCovered, Clients
<1>8. ASSUME NEW e \in 1 .. N - 1 PROVE lines'[e].type # "endtrace"
  <2>1. lines'[e] = lines[e + 1] /\ e + 1 \in 1 .. N /\ 1 \in 1 .. N /\ e + 1 # 1
    BY <1>4
  <2> QED
    BY <1>2, <1>4, <2>1 DEF Lone, OneBack
<1>9. AllNamed(g)'
  BY <1>4, <1>8 DEF AllNamed
<1> QED
  BY <1>7, <1>9

\* A line of the reply names its client before it covers it.
LEMMA NamedUser ==
  ASSUME Typed, NEW h, Path(h), OnTraceUser, Reading, NEW g, Shifted(h, g), world' = world,
         Lone, Blocks, ~overlapped, AllNamed(h)
  PROVE  gettingTrace /\ AllNamed(g)'
<1>1. /\ g[1] = h[2] /\ Caused(h[1], lines[1], h[2])
  BY NextTruth
<1>2. /\ lines[1].type = "user" /\ At = lines[1].conn /\ AtNick = lines[1].nick /\ At \in Conns
  <2>1. Reads("user")
    BY DEF OnTraceUser
  <2> QED
    BY <2>1, NextLine
<1>3. h[1].nick[At] = AtNick /\ \A d \in Conns : Same(h[1], h[2], d)
  BY <1>1, <1>2 DEF Caused
<1>4. PICK N : N = Len(lines) /\ N \in Nat \ {0} /\ Len(lines') = N - 1
               /\ \A p \in 1 .. N - 1 : lines'[p] = lines[p + 1]
  BY NextTruth
<1>5. PICK b \in 2 .. N : /\ lines[b].type = "endtrace"
                          /\ \A r \in 1 .. b - 1 : lines[r].type = "user"
  <2>1. 1 \in 1 .. N /\ 1 + 1 = 2
    BY <1>4
  <2> QED
    BY <1>2, <1>4, <2>1 DEF Blocks
<1>6. gettingTrace
  <2>1. b \in 1 .. Len(lines)
    BY <1>4, <1>5
  <2> QED
    BY <1>5, <2>1 DEF Lone, InLines
<1>7. ASSUME NEW d \in Clients, Covered(h[1], d) PROVE Covered(h[2], d)'
  <2>1. h[1].nick[d] = h[2].nick[d] /\ d \in Conns
    BY <1>3 DEF Same, Clients
  <2>2. Covered(h[2], d)
    BY <1>7, <2>1 DEF Covered
  <2>3. CASE At \in world.spoofs
    <3>1. heap' = heap /\ table' = table
      BY <2>3 DEF OnTraceUser
    <3> QED
      BY <2>2, <3>1 DEF Covered, Matches, Places, UserAt
  <2>4. CASE At \notin world.spoofs
    <3>1. PICK ip, clones : Grown(At, AtNick, ip, TRUE, lines[1].oper, clones)
      BY <1>6, <2>4, TraceAdds
    <3> QED
      BY <1>2, <2>1, <2>2, <3>1, CoverGrown
  <2> QED
    BY <2>3, <2>4
<1>8. ASSUME NEW d \in Clients, d = At PROVE Covered(h[2], d)'
  <2>1. PICK ip, clones : Grown(At, AtNick, ip, TRUE, lines[1].oper, clones)
    BY <1>6, <1>8, TraceAdds DEF Clients
  <2>2. AtNick = h[2].nick[At]
    BY <1>2, <1>3 DEF Same
  <2> QED
    BY <1>2, <1>8, <2>1, <2>2, CoverGrown
<1>9. ASSUME NEW e \in 1 .. N - 1, lines'[e].type = "endtrace",
             NEW d \in Clients, g[e].phase[d] = "on"
      PROVE  Pending(e, d)' \/ (Listed(e - 1)' /\ Covered(h[2], d)')
  <2>1. /\ e + 1 \in 1 .. N /\ lines[e + 1].type = "endtrace" /\ h[e + 1].phase[d] = "on"
        /\ (e + 1) - 1 = e
    BY <1>4, <1>9 DEF Shifted
  <2>2. b = e + 1
    BY <1>4, <1>5, <2>1 DEF Lone, OneBack
  <2>3. Listed(e - 1)'
    <3>1. ASSUME NEW r \in 1 .. e - 1 PROVE lines'[r].type = "user"
      <4>1. r \in 1 .. N - 1 /\ r + 1 \in 1 .. b - 1
        BY <1>4, <2>1, <2>2
      <4> QED
        BY <1>4, <1>5, <4>1
    <3> QED
      BY <3>1 DEF Listed
  <2>4. Pending(e + 1, d) \/ Covered(h[1], d)
    BY <1>4, <1>9, <2>1 DEF AllNamed
  <2>5. ASSUME NEW p \in 1 .. e, lines[p].type = "user", lines[p].conn = d
        PROVE  Pending(e, d)' \/ Covered(h[2], d)'
    <3>1. CASE p = 1
      <4>1. d = At
        BY <1>2, <2>5, <3>1
      <4> QED
        BY <1>8, <1>9, <4>1
    <3>2. CASE p # 1
      <4>1. p - 1 \in 1 .. e - 1 /\ (p - 1) + 1 = p /\ p - 1 \in 1 .. N - 1
        BY <1>4, <3>2
      <4>2. lines'[p - 1] = lines[p]
        BY <1>4, <4>1
      <4> QED
        BY <2>5, <4>1, <4>2 DEF Pending
    <3> QED
      BY <3>1, <3>2
  <2> QED
    BY <1>7, <1>9, <2>1, <2>3, <2>4, <2>5 DEF Pending
<1>10. Clients' = Clients
  BY DEF Clients
<1>11. AllNamed(g)'
  BY <1>1, <1>4, <1>9, <1>10 DEF AllNamed
<1> QED
  BY <1>6, <1>11

LEMMA AwaitedRead ==
  ASSUME Typed, NEW h, Path(h), Awaited(h), Reading, NEW g, Shifted(h, g), world' = world,
         Lone, Blocks
  PROVE  Awaited(g)'
<1>1. overlapped' = overlapped /\ (misled => misled')
  <2>1. CASE OnConnect
    BY <2>1 DEF OnConnect
  <2>2. CASE OnExit
    BY <2>2 DEF OnExit
  <2>3. CASE OnNick \/ OnOper
    BY <2>3 DEF OnNick, OnOper, history
  <2>4. CASE OnVersionReply
    BY <2>4 DEF OnVersionReply
  <2>5. CASE OnTraceUser
    BY <2>5 DEF OnTraceUser
  <2>6. CASE OnEndOfTrace
    BY <2>6 DEF OnEndOfTrace
  <2> QED
    BY <2>1, <2>2, <2>3, <2>4, <2>5, <2>6 DEF Reading
<1>2. SUFFICES ASSUME ~overlapped, ~misled', AllNamed(h), ~gettingTrace => AllCovered(h[1])
               PROVE  AllNamed(g)' /\ (~gettingTrace' => AllCovered(g[1])')
  BY <1>1 DEF Awaited
<1>3. CASE OnEndOfTrace
  BY <1>2, <1>3, CoverEnd
<1>4. CASE OnTraceUser
  <2>1. gettingTrace' = gettingTrace
    BY <1>4 DEF OnTraceUser
  <2> QED
    BY <1>2, <1>4, <2>1, NamedUser
<1>5. CASE OnConnect \/ OnExit \/ OnNick \/ OnOper \/ OnVersionReply
  <2>1. \/ Reads("connect") \/ Reads("exit") \/ Reads("nick") \/ Reads("oper")
        \/ Reads("version")
    BY <1>5 DEF OnConnect, OnExit, OnNick, OnOper, OnVersionReply
  <2>2. lines[1].type \in {"connect", "exit", "nick", "oper", "version"}
    BY <2>1, NextLine
  <2>3. AllNamed(g)'
    BY <1>2, <2>2, NamedRead
  <2>4. gettingTrace' = gettingTrace
    BY <1>5 DEF OnConnect, OnExit, OnNick, OnOper, OnVersionReply
  <2>5. AllCovered(h[1]) => AllCovered(g[1])'
    BY <1>2, <1>5, CoverConnect, CoverExit, CoverNick, CoverKept
  <2> QED
    BY <1>2, <2>3, <2>4, <2>5
<1> QED
  BY <1>3, <1>4, <1>5 DEF Reading

\* The inductive invariant of the hash
Followed == /\ Blocks /\ Lone
            /\ \E h : Path(h) /\ Own(h) /\ Answered(h) /\ Awaited(h)

LEMMA FollowedInit ==
  ASSUME Init
  PROVE  Followed
<1>1. Lone
  <2>1. out = <<"TRACE">> /\ lines = <<>> /\ gettingTrace = TRUE
    BY DEF Init
  <2>2. Len(out) = 1 /\ out[1] = "TRACE" /\ Len(lines) = 0 /\ 1 \in 1 .. 1
    BY <2>1
  <2>3. InOut /\ ~InLines /\ OneOut /\ OneBack
    BY <2>2 DEF InOut, InLines, OneOut, OneBack
  <2> QED
    BY <2>1, <2>3 DEF Lone
<1>2. \A h : Awaited(h)
  <2>1. gettingTrace = TRUE /\ Len(lines) = 0
    BY DEF Init
  <2> QED
    BY <2>1 DEF Awaited, AllNamed
<1> QED
  BY <1>1, <1>2, OwnInit DEF Followed

LEMMA FollowedStep ==
  ASSUME Typed, [Next]_vars, Followed
  PROVE  Followed'
<1>1. PICK h : Path(h) /\ Own(h) /\ Answered(h) /\ Awaited(h)
  BY DEF Followed
<1>2. world' = world /\ Blocks /\ Blocks' /\ Lone /\ Lone'
  BY <1>1, HashStep, BlocksStep, LoneStep DEF Followed
<1>3. CASE Aside /\ Path(h)'
  <2>1. Own(h)' /\ Answered(h)'
    BY <1>1, <1>2, <1>3, OwnAside, AnsweredAside
  <2>2. Awaited(h)'
    BY <1>1, <1>2, <1>3, AwaitedAside
  <2> QED
    BY <1>2, <1>3, <2>1, <2>2 DEF Followed
<1>4. ASSUME Reading, NEW g, Path(g)', Shifted(h, g) PROVE Followed'
  <2>1. Own(g)'
    BY <1>1, <1>2, <1>4, OwnConnect, OwnExit, OwnNick, OwnOper, OwnVersion, OwnUser, OwnEnd
       DEF Reading
  <2>2. Answered(g)' /\ Awaited(g)'
    BY <1>1, <1>2, <1>4, AnsweredRead, AwaitedRead
  <2> QED
    BY <1>2, <1>4, <2>1, <2>2 DEF Followed
<1>5. ASSUME Spoke, Speaks, SameBot, NEW g, Path(g)', Longer(h, g) PROVE Followed'
  <2>1. Own(g)' /\ Answered(g)' /\ Awaited(g)'
    BY <1>1, <1>2, <1>5, OwnServer, AnsweredServer, AwaitedServer
  <2> QED
    BY <1>2, <1>5, <2>1 DEF Followed
<1> QED
  BY <1>1, <1>3, <1>4, <1>5, Trail

\* A client whose reply to VERSION has been read is never punished for a
\* missing one, unless a connect or an exit has crossed a TRACE.
THEOREM AnsweredAreSpared == Spec => OnlySilentPunished
<1>1. Init => Followed
  BY FollowedInit
<1>2. Typed /\ Followed /\ [Next]_vars => Followed'
  BY FollowedStep
<1>3. ASSUME Typed, Followed, CheckVersionTimeout, NEW id \in ToSet(table["user"]), Late(id)
      PROVE  heap[id].conn \notin answered \/ raced
  <2>1. PICK h : Own(h)
    BY <1>3 DEF Followed
  <2>2. PICK k \in Places : id = table["user"][k]
    BY <1>3, UserFacts DEF ToSet, Places
  <2>3. heap[id] = UserAt(k) /\ heap[id].versioned # 0
    BY <1>3, <2>2 DEF UserAt, Late
  <2> QED
    BY <2>1, <2>3 DEF Own, Excused
<1>4. Typed /\ Followed => (CheckVersionTimeout =>
        \A id \in ToSet(table["user"]) : Late(id) => heap[id].conn \notin answered \/ raced)
  BY <1>3
<1> QED
  BY <1>1, <1>2, <1>4, TypeInvariance, PTL DEF Spec, OnlySilentPunished

\* Once the bot has read what the server sent, each client that is online is
\* found, and as its own entry unless a connect has crossed a TRACE.
THEOREM ClientsKnown == Spec => []EveryClientKnown
<1>1. Init => Followed
  BY FollowedInit
<1>2. Typed /\ Followed /\ [Next]_vars => Followed'
  BY FollowedStep
<1>3. ASSUME Typed, Followed PROVE EveryClientKnown
  <2> SUFFICES ASSUME lines = <<>>, ~gettingTrace, ~overlapped, ~misled,
                      NEW c \in Known, NEW id, id = FindUser(c, nick[c])
               PROVE  id # 0 /\ (raced \/ (heap[id].conn = c /\ heap[id].oper = oper[c]))
    BY DEF EveryClientKnown, Quiet
  <2>1. PICK h : Path(h) /\ Own(h) /\ Awaited(h)
    BY <1>3 DEF Followed
  <2>2. PICK g : g = h[1]
    OBVIOUS
  <2>3. Sane(g) /\ g = Now
    <3>1. Len(lines) + 1 = 1 /\ 1 \in 1 .. 1
      OBVIOUS
    <3> QED
      BY <2>1, <2>2, <3>1 DEF Path
  <2>4. g.phase = phase /\ g.nick = nick /\ g.oper = oper
    BY <2>3 DEF Now
  <2>5. c \in Clients /\ c \in Conns /\ g.phase[c] = "on"
    BY <2>4 DEF Known, Online, Clients
  <2>6. \E k \in Places : Matches(UserAt(k), c, nick[c])
    BY <2>1, <2>2, <2>4, <2>5 DEF Awaited, AllCovered, Covered
  <2>7. PICK k \in Places : id = table["user"][k] /\ Matches(UserAt(k), c, nick[c]) /\ id # 0
    <3>1. HashTyped
      BY <1>3 DEF Typed
    <3>2. \/ id = 0 /\ \A k \in Places : ~Matches(UserAt(k), c, nick[c])
          \/ \E k \in Places : id = table["user"][k] /\ Matches(UserAt(k), c, nick[c])
      BY <3>1, Found DEF Places, UserAt
    <3> QED
      BY <1>3, <2>6, <3>2, UserFacts
  <2>8. ASSUME ~raced PROVE heap[id].conn = c /\ heap[id].oper = oper[c]
    <3>1. \A j \in Places : Truly(g, UserAt(j))
      BY <2>1, <2>2, <2>8 DEF Own, True
    <3>2. UserAt(k).conn = c
      BY <1>3, <2>3, <2>4, <2>5, <2>7, <3>1, OwnFound
    <3>3. UserAt(k).oper = oper[c]
      BY <2>4, <3>1, <3>2 DEF Truly
    <3> QED
      BY <2>7, <3>2, <3>3 DEF UserAt
  <2> QED
    BY <2>7, <2>8
<1> QED
  BY <1>1, <1>2, <1>3, TypeInvariance, PTL DEF Spec

-----------------------------------------------------------------------------
(* The four tables and the count                                           *)

\* While nothing is disturbed, the table of addresses is that of the users,
\* whose entries are of connected clients with their address or none, and the
\* count is right.
Placed == Undisturbed =>
  /\ userCount = Len(table["user"]) /\ table["ip"] = table["user"]
  /\ \A k \in Places : /\ UserAt(k).connected = TRUE
                       /\ UserAt(k).ip \in {world.ip[UserAt(k).conn], NoIp}

\* The first attempt that hits
LEMMA FirstHit ==
  ASSUME NEW A, DOMAIN A \in SUBSET Nat, NEW i \in DOMAIN A, NEW v \in Nat, A[i] = {v},
         \A j \in DOMAIN A : j < i => A[j] = {}, NEW hits, hits = {j \in DOMAIN A : A[j] # {}}
  PROVE  hits # {} /\ Min(A[Min(hits)]) = v
<1>0. i \in Nat /\ \A j \in DOMAIN A : j \in Nat
  OBVIOUS
<1>1. i \in hits /\ hits \in SUBSET Nat /\ \A j \in hits : j \in Nat /\ j >= i
  BY <1>0
<1>2. Min(hits) \in hits /\ \A j \in hits : Min(hits) <= j
  BY <1>1, MinOf
<1>3. PICK k : k = Min(hits)
  OBVIOUS
<1>4. k \in Nat /\ i \in Nat /\ k >= i /\ k <= i
  BY <1>0, <1>1, <1>2, <1>3
<1>5. k = i
  BY <1>4
<1>6. {v} \in SUBSET Nat /\ v \in {v}
  OBVIOUS
<1>7. Min({v}) \in {v}
  BY <1>6, MinOf
<1> QED
  BY <1>1, <1>3, <1>5, <1>7

LEMMA SoleVictim ==
  ASSUME Typed, NEW c, NEW n, NEW t \in Tables, table[t] = table["user"], NEW v \in Places,
         \A k \in Places : Matches(UserAt(k), c, n) <=> k = v,
         UserAt(v).ip \in {world.ip[c], NoIp}
  PROVE  Victim(t, c, n) = v
<1>1. /\ DOMAIN table[t] = Places /\ v \in Nat
      /\ \A k : heap[table[t][k]] = UserAt(k)
  BY UserFacts DEF Places, UserAt
<1> DEFINE loose == {k \in Places : world.uh[UserAt(k).conn] = world.uh[c]}
           exact == {k \in loose : UserAt(k).nick = n}
           here == {k \in exact : Subnet(UserAt(k).ip) = Subnet(world.ip[c])}
           nowhere == {k \in exact : Subnet(UserAt(k).ip) = Subnet(NoIp)}
           looseHere == {k \in loose : Subnet(UserAt(k).ip) = Subnet(world.ip[c])}
           looseNowhere == {k \in loose : Subnet(UserAt(k).ip) = Subnet(NoIp)}
<1>2. exact = {v}
  BY DEF Matches
<1>3. CASE t # "ip"
  <2>1. Attempts(t, c, n) = <<exact, loose>>
    BY <1>1, <1>3 DEF Attempts
  <2> HIDE DEF exact, loose
  <2>2. PICK A : A = <<exact, loose>>
    OBVIOUS
  <2>3. DOMAIN A = 1 .. 2 /\ A[1] = {v} /\ DOMAIN A \in SUBSET Nat
    <3>1. DOMAIN A = 1 .. 2 /\ A[1] = {v}
      BY <1>2, <2>2
    <3> QED
      BY <3>1
  <2>4. PICK i \in DOMAIN A : A[i] = {v} /\ \A j \in DOMAIN A : j < i => A[j] = {}
    <3>1. 1 \in DOMAIN A /\ A[1] = {v} /\ \A j \in DOMAIN A : j < 1 => A[j] = {}
      BY <2>3
    <3> QED
      BY <3>1
  <2>5. PICK hits : hits = {j \in DOMAIN A : A[j] # {}}
    OBVIOUS
  <2>6. hits # {} /\ Min(A[Min(hits)]) = v
    <3>1. DOMAIN A \in SUBSET Nat /\ v \in Nat
      BY <1>1, <2>3
    <3> QED
      BY <2>4, <2>5, <3>1, FirstHit, SMTT(60)
  <2> QED
    BY <2>1, <2>2, <2>5, <2>6 DEF Victim
<1>4. CASE t = "ip"
  <2>1. Attempts(t, c, n) = <<here, nowhere, looseHere, looseNowhere>>
    BY <1>1, <1>4 DEF Attempts
  <2>2. here = {v} \/ (here = {} /\ nowhere = {v})
    BY <1>2
  <2> HIDE DEF here, nowhere, looseHere, looseNowhere
  <2>3. PICK A : A = <<here, nowhere, looseHere, looseNowhere>>
    OBVIOUS
  <2>4. DOMAIN A = 1 .. 4 /\ A[1] = here /\ A[2] = nowhere
    BY <2>3
  <2>5. PICK i \in DOMAIN A : A[i] = {v} /\ \A j \in DOMAIN A : j < i => A[j] = {}
    <3>1. CASE here = {v}
      <4>1. 1 \in DOMAIN A /\ A[1] = {v} /\ \A j \in DOMAIN A : j < 1 => A[j] = {}
        BY <2>4, <3>1
      <4> QED
        BY <4>1
    <3>2. CASE here = {} /\ nowhere = {v}
      <4>1. 2 \in DOMAIN A /\ A[2] = {v} /\ \A j \in DOMAIN A : j < 2 => A[j] = {}
        BY <2>4, <3>2
      <4> QED
        BY <4>1
    <3> QED
      BY <2>2, <3>1, <3>2
  <2>6. PICK hits : hits = {j \in DOMAIN A : A[j] # {}}
    OBVIOUS
  <2>7. DOMAIN A \in SUBSET Nat
    BY <2>4
  <2>8. hits # {} /\ Min(A[Min(hits)]) = v
    BY <1>1, <2>5, <2>6, <2>7, FirstHit
  <2> QED
    BY <2>1, <2>3, <2>6, <2>8 DEF Victim
<1> QED
  BY <1>3, <1>4

\* An exit that no TRACE has crossed finds the entry of its client.
LEMMA ExitFinds ==
  ASSUME Typed, NEW h, Path(h), Own(h), Awaited(h), OnExit, Reading, NEW g, Shifted(h, g),
         Undisturbed'
  PROVE  /\ Undisturbed /\ Distinct
         /\ \E v \in Places : /\ UserAt(v).conn = At
                              /\ \A k \in Places : Matches(UserAt(k), At, AtNick) <=> k = v
<1>1. /\ Caused(h[1], lines[1], h[2]) /\ Sane(h[1])
  BY NextTruth
<1>2. /\ lines[1].type = "exit" /\ At = lines[1].conn /\ AtNick = lines[1].nick /\ At \in Conns
  <2>1. Reads("exit")
    BY DEF OnExit
  <2> QED
    BY <2>1, NextLine
<1>3. h[1].phase[At] = "on" /\ AtNick = h[1].nick[At]
  BY <1>1, <1>2 DEF Caused
<1>4. Undisturbed /\ ~gettingTrace /\ At \in Clients
  BY <1>2 DEF OnExit, Undisturbed, Clients
<1>5. Distinct /\ \A k \in Places : Truly(h[1], UserAt(k))
  BY <1>4 DEF Own, True, Undisturbed
<1>6. PICK v \in Places : Matches(UserAt(v), At, AtNick)
  BY <1>3, <1>4 DEF Awaited, AllCovered, Covered, Undisturbed
<1>7. \A k \in Places : Matches(UserAt(k), At, AtNick) <=> UserAt(k).conn = At
  BY <1>1, <1>2, <1>3, <1>5, OwnFound
<1>8. \A k \in Places : Matches(UserAt(k), At, AtNick) <=> k = v
  BY <1>5, <1>6, <1>7 DEF Distinct
<1> QED
  BY <1>4, <1>5, <1>6, <1>7, <1>8

LEMMA PlacedExit ==
  ASSUME Typed, NEW h, Path(h), Own(h), Awaited(h), OnExit, Reading, NEW g, Shifted(h, g),
         world' = world, Placed, NamesAgree
  PROVE  Placed'
<1>1. SUFFICES ASSUME Undisturbed' PROVE Placed'
  BY DEF Placed
<1>2. Undisturbed /\ Distinct
  BY <1>1, ExitFinds
<1>3. PICK v \in Places : /\ UserAt(v).conn = At
                          /\ \A k \in Places : Matches(UserAt(k), At, AtNick) <=> k = v
  BY <1>1, ExitFinds
<1>4. /\ userCount = Len(table["user"]) /\ \A t \in Tables : table[t] = table["user"]
      /\ \A k \in Places : /\ UserAt(k).connected = TRUE
                           /\ UserAt(k).ip \in {world.ip[UserAt(k).conn], NoIp}
  BY <1>2 DEF Placed, NamesAgree, Tables
<1>5. ASSUME NEW t \in Tables PROVE Victim(t, At, AtNick) = v
  <2>1. UserAt(v).ip \in {world.ip[At], NoIp}
    BY <1>3, <1>4
  <2> QED
    BY <1>3, <1>4, <2>1, SoleVictim
<1>6. PICK N : N = Len(table["user"])
  OBVIOUS
<1>7. v \in Nat \ {0} /\ N \in Nat /\ Places = 1 .. N
  BY <1>6, UserFacts DEF Places
<1>8. Shrunk(At, AtNick)
  BY ExitShrinks
<1>9. /\ Len(table'["user"]) = N - 1
      /\ \A k \in 1 .. N - 1 :
              /\ Was(v, k) \in 1 .. N /\ Was(v, k) # v
              /\ table'["user"][k] = table["user"][Was(v, k)]
              /\ Alike(UserAt(k)', UserAt(Was(v, k)))
  <2>1. v = Victim("user", At, AtNick)
    BY <1>5 DEF Tables
  <2>2. Len(table'["user"]) = IF v = 0 THEN N ELSE N - 1
    BY <1>6, <1>8, <2>1, ShrunkUser
  <2>3. Len(table'["user"]) = N - 1
    BY <1>7, <2>2
  <2>4. \A k \in 1 .. Len(table'["user"]) :
              /\ Was(v, k) \in 1 .. N /\ Was(v, k) # v
              /\ table'["user"][k] = table["user"][Was(v, k)]
              /\ Alike(UserAt(k)', UserAt(Was(v, k)))
    BY <1>6, <1>8, <2>1, ShrunkUser
  <2> QED
    BY <2>3, <2>4
<1>10. \A t \in Tables : table'[t] = RemoveAt(table["user"], v)
  BY <1>4, <1>5, <1>7, <1>8 DEF Shrunk, Erased
<1>11. userCount' = N - 1 /\ table'["ip"] = table'["user"]
  BY <1>4, <1>6, <1>8, <1>10 DEF Shrunk, Tables
<1>12. \A i \in 1 .. Len(heap) : i # table["user"][v] => heap'[i] = heap[i]
  BY <1>4, <1>5, <1>8 DEF Shrunk
<1>13. ASSUME NEW k \in Places'
       PROVE  UserAt(k)'.connected = TRUE /\ UserAt(k)'.ip \in {world.ip[UserAt(k)'.conn], NoIp}
  <2>1. PICK j \in Places : j # v /\ table'["user"][k] = table["user"][j]
    BY <1>7, <1>9 DEF Places
  <2>2. table["user"][j] # table["user"][v]
    BY <1>2, <2>1 DEF Distinct, UserAt
  <2>3. table["user"][j] \in 1 .. Len(heap)
    BY UserFacts
  <2>4. UserAt(k)' = UserAt(j)
    BY <1>12, <2>1, <2>2, <2>3 DEF UserAt
  <2> QED
    BY <1>4, <2>4
<1> QED
  BY <1>9, <1>11, <1>13 DEF Placed

LEMMA PlacedGrown ==
  ASSUME Typed, NEW c, NEW n, NEW ip, NEW fromTrace, NEW isOper, NEW clones,
         Add(c, n, ip, fromTrace, isOper), Grown(c, n, ip, fromTrace, isOper, clones),
         world' = world, ip \in {world.ip[c], NoIp}, Undisturbed, Placed
  PROVE  Placed'
<1>1. PICK N : N = Len(table["user"])
  OBVIOUS
<1>2. /\ N \in Nat /\ Len(table'["user"]) = N + 1
      /\ \A k \in 1 .. N : Alike(UserAt(k)', UserAt(k)) /\ UserAt(k)'.connected = UserAt(k).connected
      /\ Alike(UserAt(N + 1)', NewEntry(c, n, ip, fromTrace, isOper))
      /\ UserAt(N + 1)'.connected = TRUE
  BY <1>1, GrownUser
<1>3. Places' = 1 .. N + 1 /\ Places = 1 .. N
  BY <1>1, <1>2 DEF Places
<1>4. /\ userCount = N /\ table["ip"] = table["user"]
      /\ \A k \in Places : /\ UserAt(k).connected = TRUE
                           /\ UserAt(k).ip \in {world.ip[UserAt(k).conn], NoIp}
  BY <1>1 DEF Placed
<1>5. userCount' = N + 1 /\ table'["ip"] = table'["user"]
  <2>1. "ip" \in Tables /\ "user" \in Tables
    BY DEF Tables
  <2> QED
    BY <1>4, <2>1 DEF Add
<1>6. ASSUME NEW k \in Places'
      PROVE  UserAt(k)'.connected = TRUE /\ UserAt(k)'.ip \in {world.ip[UserAt(k)'.conn], NoIp}
  <2>1. CASE k \in Places
    BY <1>2, <1>3, <1>4, <2>1 DEF Alike
  <2>2. CASE k = N + 1
    BY <1>2, <2>2 DEF Alike, NewEntry
  <2>3. k \in Places \/ k = N + 1
    BY <1>2, <1>3
  <2> QED
    BY <2>1, <2>2, <2>3
<1> QED
  BY <1>2, <1>5, <1>6 DEF Placed

LEMMA PlacedKept ==
  ASSUME Typed, Kept, world' = world, userCount' = userCount, Undisturbed' => Undisturbed,
         Placed
  PROVE  Placed'
<1>1. Places' = Places /\ table' = table
  BY DEF Kept, Places
<1>2. \A k \in Places : /\ UserAt(k)'.conn = UserAt(k).conn /\ UserAt(k)'.ip = UserAt(k).ip
                        /\ UserAt(k)'.connected = UserAt(k).connected
  BY <1>1, UserFacts DEF UserAt, Kept, Like
<1> QED
  BY <1>1, <1>2 DEF Placed

LEMMA PlacedSame ==
  ASSUME world' = world, heap' = heap, table' = table, userCount' = userCount,
         Undisturbed' => Undisturbed, Placed
  PROVE  Placed'
  BY DEF Placed, Places, UserAt

LEMMA PlacedStep ==
  ASSUME Typed, [Next]_vars, Followed, Placed, NamesAgree
  PROVE  Placed'
<1>1. PICK h : Path(h) /\ Own(h) /\ Awaited(h)
  BY DEF Followed
<1>2. world' = world
  BY HashStep
<1>3. ASSUME SameBot PROVE Placed'
  <2>1. /\ heap' = heap /\ table' = table /\ userCount' = userCount
        /\ raced' = raced /\ overlapped' = overlapped /\ misled' = misled
    BY <1>3 DEF SameBot, history
  <2> QED
    BY <1>2, <2>1, PlacedSame DEF Undisturbed
<1>4. CASE Aside
  <2>1. CASE Trace
    <3>1. userCount' = 0 /\ table' = [t \in Tables |-> <<>>]
      BY <2>1 DEF Trace, Clear
    <3>2. table'["user"] = <<>> /\ table'["ip"] = <<>> /\ Len(table'["user"]) = 0
      BY <3>1 DEF Tables
    <3>3. Places' = {}
      BY <3>2 DEF Places
    <3> QED
      BY <3>1, <3>2, <3>3 DEF Placed
  <2>2. CASE CheckVersionTimeout
    <3>1. Kept
      BY <2>2, TimeoutKept
    <3>2. userCount' = userCount /\ (Undisturbed' => Undisturbed)
      BY <2>2 DEF CheckVersionTimeout, history, Undisturbed
    <3> QED
      BY <1>2, <3>1, <3>2, PlacedKept
  <2>3. CASE CheckUserDelta \/ Tick \/ UNCHANGED vars
    <3>1. /\ heap' = heap /\ table' = table /\ userCount' = userCount
          /\ raced' = raced /\ overlapped' = overlapped /\ misled' = misled
      BY <2>3 DEF CheckUserDelta, Tick, vars, hash, history
    <3> QED
      BY <1>2, <3>1, PlacedSame DEF Undisturbed
  <2> QED
    BY <1>4, <2>1, <2>2, <2>3 DEF Aside
<1>5. ASSUME Reading, NEW g, Shifted(h, g) PROVE Placed'
  <2>1. CASE OnExit
    BY <1>1, <1>2, <1>5, <2>1, PlacedExit
  <2>2. CASE OnConnect
    <3>1. /\ overlapped' = overlapped /\ misled' = misled /\ (raced => raced')
      BY <2>2 DEF OnConnect
    <3>2. SUFFICES ASSUME Undisturbed PROVE Placed'
      BY <3>1 DEF Undisturbed, Placed
    <3>3. CASE At \in world.spoofs
      <4>1. heap' = heap /\ table' = table /\ userCount' = userCount
        BY <2>2, <3>3 DEF OnConnect
      <4> QED
        BY <1>2, <3>2, <4>1, PlacedSame
    <3>4. CASE At \notin world.spoofs
      <4>1. PICK c, n, ip : c = At /\ n = AtNick /\ ip = world.ip[At]
        OBVIOUS
      <4>2. PICK clones : Grown(c, n, ip, FALSE, FALSE, clones)
        BY <2>2, <3>4, <4>1, ConnectAdds
      <4>3. Add(c, n, ip, FALSE, FALSE) /\ ip \in {world.ip[c], NoIp}
        BY <2>2, <3>4, <4>1, ConnectAdds
      <4> QED
        BY <1>2, <3>2, <4>2, <4>3, PlacedGrown
    <3> QED
      BY <3>3, <3>4
  <2>3. CASE OnTraceUser
    <3>1. /\ overlapped' = overlapped /\ misled' = misled /\ raced' = raced
      BY <2>3 DEF OnTraceUser
    <3>2. SUFFICES ASSUME Undisturbed PROVE Placed'
      BY <3>1 DEF Undisturbed, Placed
    <3>3. CASE ~gettingTrace \/ At \in world.spoofs
      <4>1. heap' = heap /\ table' = table /\ userCount' = userCount
        BY <2>3, <3>3 DEF OnTraceUser
      <4> QED
        BY <1>2, <3>2, <4>1, PlacedSame
    <3>4. CASE gettingTrace /\ At \notin world.spoofs
      <4>1. PICK c, n, ip, o : c = At /\ n = AtNick /\ ip = TraceIp /\ o = lines[1].oper
        OBVIOUS
      <4>2. PICK clones : Grown(c, n, ip, TRUE, o, clones)
        BY <2>3, <3>4, <4>1, TraceAdds
      <4>3. Add(c, n, ip, TRUE, o)
        BY <2>3, <3>4, <4>1, TraceAdds
      <4>4. ip \in {world.ip[c], NoIp}
        BY <4>1 DEF TraceIp
      <4> QED
        BY <1>2, <3>2, <4>2, <4>3, <4>4, PlacedGrown
    <3> QED
      BY <3>3, <3>4
  <2>4. CASE OnNick \/ OnOper
    <3>1. Kept
      BY <2>4, NickKept, OperKept
    <3>2. userCount' = userCount /\ (Undisturbed' => Undisturbed)
      BY <2>4 DEF OnNick, OnOper, history, Undisturbed
    <3> QED
      BY <1>2, <3>1, <3>2, PlacedKept
  <2>5. CASE OnVersionReply
    <3>1. Kept
      BY <2>5, VersionKept
    <3>2. userCount' = userCount /\ (Undisturbed' => Undisturbed)
      BY <2>5 DEF OnVersionReply, Undisturbed
    <3> QED
      BY <1>2, <3>1, <3>2, PlacedKept
  <2>6. CASE OnEndOfTrace
    <3>1. /\ heap' = heap /\ table' = table /\ userCount' = userCount
          /\ raced' = raced /\ overlapped' = overlapped /\ misled' = misled
      BY <2>6 DEF OnEndOfTrace
    <3> QED
      BY <1>2, <3>1, PlacedSame DEF Undisturbed
  <2> QED
    BY <1>5, <2>1, <2>2, <2>3, <2>4, <2>5, <2>6 DEF Reading
<1> QED
  BY <1>1, <1>3, <1>4, <1>5, Trail

LEMMA FollowedPlaced == Spec => [](Typed /\ Followed /\ NamesAgree /\ Placed)
<1>1. Init => Followed
  BY FollowedInit
<1>2. Init => Placed
  <2> SUFFICES ASSUME Init PROVE Placed
    OBVIOUS
  <2>1. userCount = 0 /\ table["user"] = <<>> /\ table["ip"] = <<>>
    BY DEF Init, Tables
  <2>2. Len(table["user"]) = 0 /\ Places = {}
    BY <2>1 DEF Places
  <2> QED
    BY <2>1, <2>2 DEF Placed
<1>3. Typed /\ Followed /\ [Next]_vars => Followed'
  BY FollowedStep
<1>4. Typed /\ Followed /\ NamesAgree /\ Placed /\ [Next]_vars => Placed'
  BY PlacedStep
<1> QED
  BY <1>1, <1>2, <1>3, <1>4, TypeInvariance, NamesNeverPart, PTL DEF Spec

\* The four tables hold the same clients in the same order, all connected,
\* unless a line has crossed a TRACE or a client that was turned away has exited.
THEOREM TablesNeverPart == Spec => []TablesAgree
<1>1. ASSUME Typed, NamesAgree, Placed PROVE TablesAgree
  <2> SUFFICES ASSUME Undisturbed PROVE AddressesAgree
    BY <1>1 DEF TablesAgree
  <2>1. table["ip"] = table["user"] /\ \A k \in Places : UserAt(k).connected = TRUE
    BY <1>1 DEF Placed
  <2>2. table["ip"] = table["host"]
    BY <1>1, <2>1 DEF NamesAgree
  <2>3. ASSUME NEW id \in ToSet(table["ip"]) PROVE heap[id].connected
    <3>1. id \in ToSet(table["user"])
      BY <2>1, <2>3
    <3>2. PICK k \in Places : id = table["user"][k]
      BY <1>1, <3>1, UserFacts DEF ToSet, Places
    <3> QED
      BY <2>1, <3>2 DEF UserAt
  <2> QED
    BY <2>2, <2>3 DEF AddressesAgree
<1> QED
  BY <1>1, FollowedPlaced, PTL

\* Nor does the hash hold anybody else or anybody twice, or count wrong.
THEOREM NobodyElse == Spec => []NoStrangers
<1>1. ASSUME Typed, Followed, Placed PROVE NoStrangers
  <2> SUFFICES ASSUME lines = <<>>, ~gettingTrace, Undisturbed
               PROVE  /\ Len(table["user"]) = Cardinality(Known) /\ userCount = Cardinality(Known)
                      /\ {heap[id].conn : id \in ToSet(table["user"])} = Known
    BY DEF NoStrangers, Quiet
  <2>1. PICK h : Path(h) /\ Own(h) /\ Awaited(h)
    BY <1>1 DEF Followed
  <2>2. PICK g : g = h[1]
    OBVIOUS
  <2>3. Sane(g) /\ g = Now
    <3>1. Len(lines) + 1 = 1 /\ 1 \in 1 .. 1
      OBVIOUS
    <3> QED
      BY <2>1, <2>2, <3>1 DEF Path
  <2>4. g.phase = phase /\ g.nick = nick /\ g.oper = oper
    BY <2>3 DEF Now
  <2>5. Distinct /\ \A k \in Places : Truly(g, UserAt(k))
    BY <2>1, <2>2 DEF Own, True, Undisturbed
  <2>6. ASSUME NEW k \in Places PROVE UserAt(k).conn \in Known
    <3>1. UserAt(k).conn \in Conns
      BY <1>1, UserFacts
    <3> QED
      BY <2>4, <2>5, <3>1 DEF Truly, Known, Online
  <2>7. ASSUME NEW c \in Known PROVE \E k \in Places : UserAt(k).conn = c
    <3>1. c \in Clients /\ c \in Conns /\ g.phase[c] = "on"
      BY <2>4 DEF Known, Online, Clients
    <3>2. PICK k \in Places : Matches(UserAt(k), c, g.nick[c])
      BY <2>1, <2>2, <3>1 DEF Awaited, AllCovered, Covered, Undisturbed
    <3>3. UserAt(k).conn = c
      BY <1>1, <2>3, <2>5, <3>1, <3>2, OwnFound
    <3> QED
      BY <3>3
  <2>8. PICK N : N = Len(table["user"]) /\ N \in Nat /\ Places = 1 .. N
    BY <1>1, UserFacts DEF Places
  <2>9. PICK f : f = [k \in 1 .. N |-> UserAt(k).conn]
    OBVIOUS
  <2>10. f \in Injection(1 .. N, Known)
    <3>1. f \in [1 .. N -> Known]
      BY <2>6, <2>8, <2>9
    <3>2. \A j, k \in 1 .. N : f[j] = f[k] => j = k
      BY <2>5, <2>8, <2>9 DEF Distinct
    <3> QED
      BY <3>1, <3>2 DEF Injection, IsInjective
  <2>11. f \in Surjection(1 .. N, Known)
    <3>1. f \in [1 .. N -> Known]
      BY <2>6, <2>8, <2>9
    <3>2. \A c \in Known : \E k \in 1 .. N : f[k] = c
      BY <2>7, <2>8, <2>9
    <3> QED
      BY <3>1, <3>2 DEF Surjection
  <2>12. Cardinality(Known) = N
    <3>1. ExistsBijection(1 .. N, Known)
      BY <2>10, <2>11 DEF ExistsBijection, Bijection
    <3> QED
      BY <2>8, <3>1, FS_CountingElements
  <2>13. userCount = N
    BY <1>1, <2>8 DEF Placed
  <2>14. {heap[id].conn : id \in ToSet(table["user"])} = Known
    <3>1. ToSet(table["user"]) = {table["user"][k] : k \in Places}
      BY <1>1, UserFacts DEF ToSet, Places
    <3>2. ASSUME NEW id \in ToSet(table["user"]) PROVE heap[id].conn \in Known
      BY <2>6, <3>1, <3>2 DEF UserAt
    <3>3. ASSUME NEW c \in Known PROVE \E id \in ToSet(table["user"]) : heap[id].conn = c
      BY <2>7, <3>1, <3>3 DEF UserAt
    <3> QED
      BY <3>2, <3>3
  <2> QED
    BY <2>8, <2>12, <2>13, <2>14
<1> QED
  BY <1>1, FollowedPlaced, PTL
=============================================================================
