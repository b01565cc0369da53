-------------------------- MODULE IrcServer_proof --------------------------
(***************************************************************************)
(* Proofs about the connection to the IRC server, for any masks, lengths   *)
(* of nicknames, numbers of changes, commands and disconnections: whatever *)
(* notices, replies and requests cross, the bot's nickname and its list of *)
(* K-lines are the server's once nothing is under way.                     *)
(*                                                                         *)
(* The argument: what the bot will believe when it has read all that is on *)
(* its way (the end of a Path) agrees with the server at every moment, but *)
(* for what a request on its way, or one the bot is about to make, will    *)
(* bring.                                                                  *)
(***************************************************************************)
EXTENDS IrcServer, FiniteSetTheorems, FunctionTheorems, SequenceTheorems, TLAPS

-----------------------------------------------------------------------------
(* What is on its way                                                      *)

IsSeq(q) == \E S : q \in Seq(S)

\* The kind of a message; STATS and its end are about one kind of line.
Tag(m) == IF m.t = "STATS" THEN IF m.temp THEN "STATS-k" ELSE "STATS-K"
          ELSE IF m.t = "219" THEN IF m.temp THEN "219-k" ELSE "219-K"
          ELSE m.t
Has(q, tag) == \E i \in 1 .. Len(q) : Tag(q[i]) = tag
Only(q, i, tag) == /\ i \in 1 .. Len(q) /\ Tag(q[i]) = tag
                   /\ \A j \in 1 .. Len(q) : Tag(q[j]) = tag => j = i
AtMostOne(q, tag) ==
  \A i, j \in 1 .. Len(q) : Tag(q[i]) = tag /\ Tag(q[j]) = tag => i = j

\* What the bot believes, its nickname and its lines, after it has read m.
NickHeard(m, n) == IF m.t = "433" THEN OtherNick(m.nick)
                   ELSE IF m.t = "NICK" /\ m.from = n THEN m.nick ELSE n
Minus(K, mask) == {l \in K : l.mask # mask}
ListHeard(W, m, K) ==
  IF m.t \in {"001", "381"} \/ (m.t = "clearing" /\ W.trackTemp) THEN {}
  ELSE IF \/ m.t = "216" /\ (IF m.line.temp THEN W.trackTemp ELSE W.trackPerm)
          \/ m.t = "added" /\ (~m.line.temp \/ W.trackTemp) THEN K \cup {m.line}
  ELSE IF \/ m.t = "removed" /\ (~m.line.temp \/ W.trackTemp)
          \/ m.t = "expired" THEN Minus(K, m.line.mask)
  ELSE K
Hears(W, m, v) == <<NickHeard(m, v[1]), ListHeard(W, m, v[2])>>

\* Reading all of q leads from belief v to belief u.
Path(W, q, v, u) ==
  \E f : /\ f[0] = v /\ f[Len(q)] = u
         /\ \A i \in 1 .. Len(q) : f[i] = Hears(W, q[i], f[i - 1])
Belief == <<nick, ToSet(klines)>>

-----------------------------------------------------------------------------
(* The invariant                                                           *)

Alive == sock = "open" /\ srv.alive

Posts(q) ==
  \A i \in 1 .. Len(q) : /\ q[i].t = "KLINE" => q[i].line \in Line
                         /\ q[i].t = "STATS" => q[i].temp \in BOOLEAN
Shapes ==
  /\ IsSeq(inbox) /\ IsSeq(outbox) /\ Posts(outbox) /\ IsSeq(klines)
  /\ lines \subseteq Line /\ IsFiniteSet(lines)
  /\ \A l, m \in lines : l.mask = m.mask => l = m
  /\ srv \in [reg : {"none", "user", "oper"}, nick : Nat \cup {-1}, ponged : BOOLEAN,
             alive : BOOLEAN]
  /\ srv.alive => sock = "open"

\* What is garbled is the first line of a connection.
GarbledFirst == partial /\ sock = "open" => inbox # <<>> /\ inbox[1].t \in {"PING", "notice"}

\* 001 and 381 come once each, in their turn.
Welcome ==
  /\ srv.reg = "none" => ~Has(inbox, "001") /\ ~Has(outbox, "OPER")
  /\ Has(outbox, "OPER") => ~Has(inbox, "001")
  /\ AtMostOne(inbox, "001")
  /\ srv.reg = "oper" => ~Has(inbox, "001")
  /\ oper \/ Has(inbox, "381") => srv.reg = "oper"

\* A nickname is asked for, turned down, or given.
Asked(n) == /\ ~Has(inbox, "433")
            /\ \E i \in 1 .. Len(outbox) : Only(outbox, i, "NICK") /\ outbox[i].nick = n
            /\ n \in Nat
TurnedDown(n) == /\ ~Has(outbox, "NICK")
                 /\ \E i \in 1 .. Len(inbox) : /\ Only(inbox, i, "433")
                                               /\ inbox[i].nick \in Nat
                                               /\ n = OtherNick(inbox[i].nick)
Given(n) == ~Has(outbox, "NICK") /\ ~Has(inbox, "433") /\ n = srv.nick
NickAgrees(n) == \/ srv.nick = -1 /\ srv.reg = "none" /\ (Asked(n) \/ TurnedDown(n))
                 \/ srv.nick \in Nat /\ Given(n)

\* The lines of a kind have been asked for, or will be.
Pending(request) == \/ Has(outbox, request) \/ Has(inbox, "381")
                    \/ world.trackTemp /\ Has(inbox, "clearing")
ListAgrees(K) ==
  srv.reg = "oper" =>
    /\ K \subseteq lines
    /\ ~world.trackTemp => \A l \in K : ~l.temp
    /\ world.trackTemp /\ ~Pending("STATS-k") => \A l \in lines : l.temp => l \in K
    /\ world.trackPerm /\ ~Pending("STATS-K") => \A l \in lines : ~l.temp => l \in K

\* What is waited for is on its way.
Waits ==
  srv.reg # "none" /\ ~Has(inbox, "001") =>
    /\ getting \subseteq {"T", "K", "k"}
    /\ "T" \in getting => Has(outbox, "TRACE") \/ Has(inbox, "262")
    /\ "K" \in getting => Has(outbox, "STATS-K") \/ Has(inbox, "219-K")
    /\ "k" \in getting => Has(outbox, "STATS-k") \/ Has(inbox, "219-k")

Agrees(u) == NickAgrees(u[1]) /\ ListAgrees(u[2])
Synced == \E u : Path(world, inbox, Belief, u) /\ Agrees(u)

IInv == Shapes /\ GarbledFirst /\ (Alive => Welcome /\ Waits /\ Synced)

-----------------------------------------------------------------------------
(* Sequences                                                               *)

\* The last messages of a sequence are those after its first.
LEMMA TailFacts ==
  ASSUME NEW q, IsSeq(q), q # <<>>
  PROVE  /\ IsSeq(Tail(q)) /\ Head(q) = q[1]
         /\ Len(q) \in Nat /\ Len(q) >= 1 /\ Len(Tail(q)) = Len(q) - 1
         /\ \A i \in 1 .. Len(q) - 1 : Tail(q)[i] = q[i + 1]
<1>1. PICK S : q \in Seq(S)
  BY DEF IsSeq
<1>2. Tail(q) \in Seq(S) /\ Len(q) >= 1 /\ Len(q) \in Nat
  BY <1>1
<1> QED
  BY <1>1, <1>2 DEF IsSeq

\* A concatenation has the messages of its parts, in their places.
LEMMA CatFacts ==
  ASSUME NEW q, NEW r, IsSeq(q), IsSeq(r)
  PROVE  /\ IsSeq(q \o r)
         /\ Len(q) \in Nat /\ Len(r) \in Nat /\ Len(q \o r) = Len(q) + Len(r)
         /\ \A i \in 1 .. Len(q) : (q \o r)[i] = q[i]
         /\ \A i \in 1 .. Len(r) : (q \o r)[Len(q) + i] = r[i]
         /\ \A i \in 1 .. Len(q) + Len(r) :
              \/ i \in 1 .. Len(q) /\ (q \o r)[i] = q[i]
              \/ i - Len(q) \in 1 .. Len(r) /\ (q \o r)[i] = r[i - Len(q)]
<1>1. PICK S : q \in Seq(S)
  BY DEF IsSeq
<1>2. PICK T : r \in Seq(T)
  BY DEF IsSeq
<1> DEFINE U == S \cup T
<1>3. q \in Seq(U) /\ r \in Seq(U)
  BY <1>1, <1>2
<1> HIDE DEF U
<1>4. q \o r \in Seq(U) /\ Len(q) \in Nat /\ Len(r) \in Nat
  BY <1>3
<1>5. Len(q \o r) = Len(q) + Len(r)
  BY <1>3
<1>6. \A i \in 1 .. Len(q) + Len(r) :
        (q \o r)[i] = IF i <= Len(q) THEN q[i] ELSE r[i - Len(q)]
  BY <1>3
<1>7. \A i \in 1 .. Len(q) : (q \o r)[i] = q[i]
  BY <1>4, <1>6
<1>8. \A i \in 1 .. Len(r) : (q \o r)[Len(q) + i] = r[i]
  <2> TAKE i \in 1 .. Len(r)
  <2>1. Len(q) + i \in 1 .. Len(q) + Len(r) /\ ~(Len(q) + i <= Len(q))
        /\ Len(q) + i - Len(q) = i
    BY <1>4
  <2> QED
    BY <1>6, <2>1
<1>9. \A i \in 1 .. Len(q) + Len(r) :
        \/ i \in 1 .. Len(q) /\ (q \o r)[i] = q[i]
        \/ i - Len(q) \in 1 .. Len(r) /\ (q \o r)[i] = r[i - Len(q)]
  <2> TAKE i \in 1 .. Len(q) + Len(r)
  <2>1. CASE i <= Len(q)
    BY <1>4, <1>7, <2>1
  <2>2. CASE ~(i <= Len(q))
    <3>1. i - Len(q) \in 1 .. Len(r)
      BY <1>4, <2>2
    <3> QED
      BY <1>6, <2>2, <3>1
  <2> QED
    BY <2>1, <2>2
<1> QED
  BY <1>4, <1>5, <1>7, <1>8, <1>9 DEF IsSeq

LEMMA OneFacts ==
  ASSUME NEW m
  PROVE  IsSeq(<<m>>) /\ Len(<<m>>) = 1 /\ <<m>>[1] = m
<1>1. <<m>> \in Seq({m})
  OBVIOUS
<1> QED
  BY <1>1 DEF IsSeq

\* Of what kinds the messages are when the first has been read.
LEMMA HasTail ==
  ASSUME NEW q, IsSeq(q), q # <<>>
  PROVE  /\ \A tag : Has(Tail(q), tag) => Has(q, tag)
         /\ \A tag : Has(q, tag) /\ Tag(q[1]) # tag => Has(Tail(q), tag)
         /\ \A tag : AtMostOne(q, tag) => AtMostOne(Tail(q), tag)
         /\ \A tag : AtMostOne(q, tag) /\ Tag(q[1]) = tag => ~Has(Tail(q), tag)
<1> USE TailFacts
<1>1. ASSUME NEW tag, Has(Tail(q), tag) PROVE Has(q, tag)
  <2>1. PICK i \in 1 .. Len(q) - 1 : Tag(Tail(q)[i]) = tag
    BY <1>1 DEF Has
  <2> QED
    BY <2>1 DEF Has
<1>2. ASSUME NEW tag, Has(q, tag), Tag(q[1]) # tag PROVE Has(Tail(q), tag)
  <2>1. PICK i \in 1 .. Len(q) : Tag(q[i]) = tag
    BY <1>2 DEF Has
  <2>2. i - 1 \in 1 .. Len(q) - 1 /\ Tail(q)[i - 1] = q[i]
    BY <1>2, <2>1
  <2> QED
    BY <2>1, <2>2 DEF Has
<1>3. ASSUME NEW tag, AtMostOne(q, tag) PROVE AtMostOne(Tail(q), tag)
  <2>1. SUFFICES ASSUME NEW i \in 1 .. Len(q) - 1, NEW j \in 1 .. Len(q) - 1,
                        Tag(Tail(q)[i]) = tag, Tag(Tail(q)[j]) = tag
                 PROVE  i = j
    BY DEF AtMostOne
  <2>2. i + 1 \in 1 .. Len(q) /\ j + 1 \in 1 .. Len(q)
    OBVIOUS
  <2>3. i + 1 = j + 1
    BY <1>3, <2>1, <2>2 DEF AtMostOne
  <2> QED
    BY <2>3
<1>4. ASSUME NEW tag, AtMostOne(q, tag), Tag(q[1]) = tag PROVE ~Has(Tail(q), tag)
  <2>1. SUFFICES ASSUME NEW i \in 1 .. Len(q) - 1, Tag(Tail(q)[i]) = tag PROVE FALSE
    BY DEF Has
  <2>2. i + 1 \in 1 .. Len(q) /\ 1 \in 1 .. Len(q) /\ Tag(q[i + 1]) = tag
    BY <2>1
  <2>3. i + 1 = 1
    BY <1>4, <2>2 DEF AtMostOne
  <2> QED
    BY <2>3
<1> QED
  BY <1>1, <1>2, <1>3, <1>4

\* And when some are added.
LEMMA HasCat ==
  ASSUME NEW q, NEW r, IsSeq(q), IsSeq(r)
  PROVE  /\ \A tag : Has(q \o r, tag) <=> Has(q, tag) \/ Has(r, tag)
         /\ \A tag : AtMostOne(q, tag) /\ ~Has(r, tag) => AtMostOne(q \o r, tag)
         /\ \A tag : AtMostOne(r, tag) /\ ~Has(q, tag) => AtMostOne(q \o r, tag)
<1> USE CatFacts
<1>1. ASSUME NEW tag, Has(q, tag) PROVE Has(q \o r, tag)
  BY <1>1 DEF Has
<1>2. ASSUME NEW tag, Has(r, tag) PROVE Has(q \o r, tag)
  <2>1. PICK i \in 1 .. Len(r) : Tag(r[i]) = tag
    BY <1>2 DEF Has
  <2>2. Len(q) + i \in 1 .. Len(q) + Len(r) /\ (q \o r)[Len(q) + i] = r[i]
    OBVIOUS
  <2> QED
    BY <2>1, <2>2 DEF Has
<1>3. ASSUME NEW tag, Has(q \o r, tag) PROVE Has(q, tag) \/ Has(r, tag)
  BY <1>3 DEF Has
<1>4. ASSUME NEW tag, AtMostOne(q, tag), ~Has(r, tag) PROVE AtMostOne(q \o r, tag)
  BY <1>4 DEF AtMostOne, Has
<1>5. ASSUME NEW tag, AtMostOne(r, tag), ~Has(q, tag) PROVE AtMostOne(q \o r, tag)
  <2>1. SUFFICES ASSUME NEW i \in 1 .. Len(q) + Len(r), NEW j \in 1 .. Len(q) + Len(r),
                        Tag((q \o r)[i]) = tag, Tag((q \o r)[j]) = tag
                 PROVE  i = j
    BY DEF AtMostOne
  <2>2. /\ i - Len(q) \in 1 .. Len(r) /\ Tag(r[i - Len(q)]) = tag
        /\ j - Len(q) \in 1 .. Len(r) /\ Tag(r[j - Len(q)]) = tag
    BY <1>5, <2>1 DEF Has
  <2>3. i - Len(q) = j - Len(q)
    BY <1>5, <2>2 DEF AtMostOne
  <2> QED
    BY <2>3
<1> QED
  BY <1>1, <1>2, <1>3, <1>4, <1>5

LEMMA HasOne ==
  ASSUME NEW m
  PROVE  \A tag : (Has(<<m>>, tag) <=> Tag(m) = tag) /\ AtMostOne(<<m>>, tag)
  BY OneFacts DEF Has, AtMostOne

\* The only message of its kind stays the only one, a place earlier, when another is
\* read; and it stays it when messages of other kinds are added.
LEMMA OnlyTail ==
  ASSUME NEW q, IsSeq(q), q # <<>>, NEW tag, NEW i, Only(q, i, tag)
  PROVE  /\ Tag(q[1]) # tag => Only(Tail(q), i - 1, tag) /\ Tail(q)[i - 1] = q[i]
                               /\ i - 1 \in 1 .. Len(Tail(q))
         /\ Tag(q[1]) = tag => i = 1 /\ ~Has(Tail(q), tag)
<1> USE TailFacts
<1>1. ASSUME Tag(q[1]) # tag
      PROVE  Only(Tail(q), i - 1, tag) /\ Tail(q)[i - 1] = q[i] /\ i - 1 \in 1 .. Len(Tail(q))
  <2>1. i - 1 \in 1 .. Len(q) - 1 /\ Tail(q)[i - 1] = q[i]
    BY <1>1 DEF Only
  <2>2. ASSUME NEW j \in 1 .. Len(q) - 1, Tag(Tail(q)[j]) = tag PROVE j = i - 1
    <3>1. j + 1 \in 1 .. Len(q) /\ Tag(q[j + 1]) = tag
      BY <2>2
    <3>2. j + 1 = i
      BY <3>1 DEF Only
    <3> QED
      BY <3>2, <2>1
  <2> QED
    BY <2>1, <2>2 DEF Only
<1>2. ASSUME Tag(q[1]) = tag PROVE i = 1 /\ ~Has(Tail(q), tag)
  <2>1. i = 1
    BY <1>2 DEF Only
  <2>2. AtMostOne(q, tag)
    BY DEF Only, AtMostOne
  <2> QED
    BY <1>2, <2>1, <2>2, HasTail
<1> QED
  BY <1>1, <1>2

LEMMA OnlyCat ==
  ASSUME NEW q, NEW r, IsSeq(q), IsSeq(r), NEW tag, ~Has(r, tag), NEW i, Only(q, i, tag)
  PROVE  Only(q \o r, i, tag) /\ (q \o r)[i] = q[i] /\ i \in 1 .. Len(q \o r)
  BY CatFacts DEF Only, Has

LEMMA OnlyAdded ==
  ASSUME NEW q, NEW m, IsSeq(q), ~Has(q, Tag(m))
  PROVE  /\ Only(q \o <<m>>, Len(q) + 1, Tag(m)) /\ (q \o <<m>>)[Len(q) + 1] = m
         /\ Len(q) + 1 \in 1 .. Len(q \o <<m>>)
<1>1. /\ IsSeq(<<m>>) /\ Len(<<m>>) = 1 /\ <<m>>[1] = m
  BY OneFacts
<1> HIDE DEF IsSeq
<1>2. /\ Len(q) \in Nat /\ Len(q \o <<m>>) = Len(q) + 1 /\ (q \o <<m>>)[Len(q) + 1] = m
      /\ \A i \in 1 .. Len(q) + 1 : i = Len(q) + 1 \/ (i \in 1 .. Len(q) /\ (q \o <<m>>)[i] = q[i])
  BY <1>1, CatFacts
<1> QED
  BY <1>2 DEF Only, Has

-----------------------------------------------------------------------------
(* Paths                                                                   *)

\* When the first message has been read the rest leads to the same belief.
LEMMA PathTail ==
  ASSUME NEW W, NEW q, IsSeq(q), q # <<>>, NEW v, NEW u, Path(W, q, v, u)
  PROVE  Path(W, Tail(q), Hears(W, q[1], v), u)
<1>1. PICK f : /\ f[0] = v /\ f[Len(q)] = u
               /\ \A i \in 1 .. Len(q) : f[i] = Hears(W, q[i], f[i - 1])
  BY DEF Path
<1> DEFINE n == Len(q) - 1
           g == [i \in 0 .. n |-> f[i + 1]]
<1>2. n \in Nat /\ Len(q) = n + 1 /\ Len(Tail(q)) = n
      /\ \A i \in 1 .. n : Tail(q)[i] = q[i + 1]
  BY TailFacts
<1>3. g[0] = Hears(W, q[1], v) /\ g[n] = u
  BY <1>1, <1>2
<1>4. ASSUME NEW i \in 1 .. n PROVE g[i] = Hears(W, Tail(q)[i], g[i - 1])
  <2>1. i + 1 \in 1 .. Len(q) /\ i - 1 \in 0 .. n /\ i \in 0 .. n
    BY <1>2
  <2>2. g[i] = f[i + 1] /\ g[i - 1] = f[i - 1 + 1] /\ i - 1 + 1 = i /\ i + 1 - 1 = i
    BY <2>1
  <2> QED
    BY <1>1, <1>2, <2>1, <2>2
<1> HIDE DEF g
<1> QED
  BY <1>2, <1>3, <1>4 DEF Path

\* What is added leads on from where the way has led so far.
LEMMA PathCat ==
  ASSUME NEW W, NEW q, NEW r, IsSeq(q), IsSeq(r), NEW v, NEW u, NEW w,
         Path(W, q, v, u), Path(W, r, u, w)
  PROVE  Path(W, q \o r, v, w)
<1>1. PICK f : /\ f[0] = v /\ f[Len(q)] = u
               /\ \A i \in 1 .. Len(q) : f[i] = Hears(W, q[i], f[i - 1])
  BY DEF Path
<1>2. PICK g : /\ g[0] = u /\ g[Len(r)] = w
               /\ \A i \in 1 .. Len(r) : g[i] = Hears(W, r[i], g[i - 1])
  BY DEF Path
<1> DEFINE m == Len(q)
           n == Len(r)
           h == [i \in 0 .. m + n |-> IF i <= m THEN f[i] ELSE g[i - m]]
<1>3. /\ m \in Nat /\ n \in Nat /\ Len(q \o r) = m + n
      /\ \A i \in 1 .. m : (q \o r)[i] = q[i]
      /\ \A i \in 1 .. n : (q \o r)[m + i] = r[i]
  BY CatFacts
<1>4. h[0] = v
  BY <1>1, <1>3
<1>5. h[m + n] = w
  <2>1. CASE n = 0
    BY <1>1, <1>2, <1>3, <2>1
  <2>2. CASE n # 0
    BY <1>2, <1>3, <2>2
  <2> QED
    BY <2>1, <2>2
<1>6. ASSUME NEW i \in 1 .. m PROVE h[i] = Hears(W, (q \o r)[i], h[i - 1])
  <2>1. h[i] = f[i] /\ h[i - 1] = f[i - 1]
    BY <1>3
  <2> QED
    BY <1>1, <1>3, <2>1
<1>7. ASSUME NEW i \in 1 .. n PROVE h[m + i] = Hears(W, (q \o r)[m + i], h[m + i - 1])
  <2>1. h[m + i] = g[i]
    BY <1>3
  <2>2. h[m + i - 1] = g[i - 1]
    <3>1. CASE i = 1
      BY <1>1, <1>2, <1>3, <3>1
    <3>2. CASE i # 1
      <4>1. m + i - 1 \in 0 .. m + n /\ ~(m + i - 1 <= m) /\ m + i - 1 - m = i - 1
        BY <1>3, <3>2
      <4> QED
        BY <4>1
    <3> QED
      BY <3>1, <3>2
  <2> QED
    BY <1>2, <1>3, <2>1, <2>2
<1>8. ASSUME NEW i \in 1 .. m + n PROVE h[i] = Hears(W, (q \o r)[i], h[i - 1])
  <2>1. CASE i <= m
    <3>1. i \in 1 .. m
      BY <1>3, <2>1
    <3> HIDE DEF h, m
    <3> QED
      BY <1>6, <3>1
  <2>2. CASE ~(i <= m)
    <3>1. i - m \in 1 .. n /\ m + (i - m) = i /\ m + (i - m) - 1 = i - 1
      BY <1>3, <2>2
    <3> QED
      BY <1>7, <3>1
  <2> QED
    BY <2>1, <2>2
<1> HIDE DEF h
<1> QED
  BY <1>3, <1>4, <1>5, <1>8 DEF Path

LEMMA PathOne ==
  ASSUME NEW W, NEW m, NEW v
  PROVE  Path(W, <<m>>, v, Hears(W, m, v))
<1> DEFINE f == [i \in 0 .. 1 |-> IF i = 0 THEN v ELSE Hears(W, m, v)]
<1>1. f[0] = v /\ f[1] = Hears(W, m, v) /\ \A i \in 1 .. 1 : i = 1 /\ i - 1 = 0
  OBVIOUS
<1> HIDE DEF f
<1>2. \A i \in 1 .. 1 : f[i] = Hears(W, <<m>>[i], f[i - 1])
  BY <1>1, OneFacts
<1> QED
  BY <1>1, <1>2, OneFacts DEF Path

LEMMA PathAdded ==
  ASSUME NEW W, NEW q, IsSeq(q), NEW m, NEW v, NEW u, Path(W, q, v, u)
  PROVE  Path(W, q \o <<m>>, v, Hears(W, m, u))
<1>1. IsSeq(<<m>>) /\ Path(W, <<m>>, u, Hears(W, m, u))
  BY OneFacts, PathOne
<1> HIDE DEF IsSeq, Path
<1> QED
  BY <1>1, PathCat

\* If the list is cleared before the messages are read, what is believed in the end
\* is what they add, a part of what it would have been.
LEMMA PathCleared ==
  ASSUME NEW W, NEW q, IsSeq(q), NEW n, NEW K, NEW u, Path(W, q, <<n, K>>, u)
  PROVE  \E w : Path(W, q, <<n, {}>>, w) /\ w[1] = u[1] /\ w[2] \subseteq u[2]
<1>1. PICK f : /\ f[0] = <<n, K>> /\ f[Len(q)] = u
               /\ \A i \in 1 .. Len(q) : f[i] = Hears(W, q[i], f[i - 1])
  BY DEF Path
<1> DEFINE N == Len(q)
           Added(l, i) == \E j \in 1 .. i : l \in ListHeard(W, q[j], {})
           g == [i \in 0 .. N |-> <<f[i][1], {l \in f[i][2] : Added(l, i)}>>]
<1>2. N \in Nat
  BY DEF IsSeq
<1>3. g[0] = <<n, {}>>
  BY <1>1, <1>2
<1>4. ASSUME NEW i \in 1 .. N PROVE g[i] = Hears(W, q[i], g[i - 1])
  <2>1. /\ i \in 0 .. N /\ i - 1 \in 0 .. N
        /\ f[i] = <<NickHeard(q[i], f[i - 1][1]), ListHeard(W, q[i], f[i - 1][2])>>
    BY <1>1, <1>2 DEF Hears
  <2>2. /\ g[i] = <<f[i][1], {l \in f[i][2] : Added(l, i)}>>
        /\ g[i - 1] = <<f[i - 1][1], {l \in f[i - 1][2] : Added(l, i - 1)}>>
    BY <2>1
  <2>3. \A l : Added(l, i) <=> Added(l, i - 1) \/ l \in ListHeard(W, q[i], {})
    <3>1. 1 .. i = 1 .. (i - 1) \cup {i}
      BY <1>2
    <3> QED
      BY <3>1
  <2> DEFINE A == f[i - 1][2]
             B == {l \in A : Added(l, i - 1)}
  <2>4. {l \in ListHeard(W, q[i], A) : Added(l, i)} = ListHeard(W, q[i], B)
    <3> HIDE DEF Added, g
    <3>1. CASE \/ q[i].t \in {"001", "381"}
               \/ q[i].t = "clearing" /\ W.trackTemp
      BY <3>1 DEF ListHeard
    <3>2. CASE \A X : ListHeard(W, q[i], X) = X \cup {q[i].line}
      <4>1. ListHeard(W, q[i], {}) = {q[i].line}
        BY <3>2
      <4> QED
        BY <2>3, <3>2, <4>1
    <3>3. CASE \A X : ListHeard(W, q[i], X) = Minus(X, q[i].line.mask)
      <4>1. ListHeard(W, q[i], {}) = {}
        BY <3>3 DEF Minus
      <4> QED
        BY <2>3, <3>3, <4>1 DEF Minus
    <3>4. CASE \A X : ListHeard(W, q[i], X) = X
      <4>1. ListHeard(W, q[i], {}) = {}
        BY <3>4
      <4> QED
        BY <2>3, <3>4, <4>1
    <3> QED
      BY <3>1, <3>2, <3>3, <3>4 DEF ListHeard
  <2> QED
    <3> HIDE DEF Added, g
    <3> QED
      BY <2>1, <2>2, <2>4 DEF Hears
<1>5. g[N][1] = u[1] /\ g[N][2] \subseteq u[2]
  BY <1>1, <1>2
<1> HIDE DEF g
<1> QED
  BY <1>3, <1>4, <1>5 DEF Path

-----------------------------------------------------------------------------
(* Sequences made of sets                                                  *)

\* SetToSeq puts the elements of a finite set in an order.
LEMMA Ordered ==
  ASSUME NEW S, IsFiniteSet(S)
  PROVE  /\ IsSeq(SetToSeq(S)) /\ Len(SetToSeq(S)) \in Nat
         /\ DOMAIN SetToSeq(S) = 1 .. Len(SetToSeq(S))
         /\ {SetToSeq(S)[i] : i \in 1 .. Len(SetToSeq(S))} = S
<1> DEFINE n == Cardinality(S)
           s == SetToSeq(S)
<1>1. n \in Nat /\ ExistsBijection(1 .. n, S)
  BY FS_CardinalityType
<1>2. \E f \in [1 .. n -> S] : IsInjective(f)
  BY <1>1 DEF ExistsBijection, Bijection, Injection
<1>3. s \in [1 .. n -> S] /\ IsInjective(s)
  BY <1>2 DEF SetToSeq
<1>4. IsFiniteSet(1 .. n) /\ Cardinality(1 .. n) = n
  BY <1>1, FS_Interval
<1>5. s \in Injection(1 .. n, S)
  BY <1>3 DEF Injection
<1>6. s \in Surjection(1 .. n, S)
  BY <1>4, <1>5, FS_Injection
<1> HIDE DEF s, n
<1>7. s \in Seq(S) /\ Len(s) = n /\ DOMAIN s = 1 .. n
  BY <1>1, <1>3
<1>8. {s[i] : i \in 1 .. n} = S
  BY <1>3, <1>6 DEF Surjection
<1> QED
  BY <1>1, <1>7, <1>8 DEF IsSeq, s

\* The entries at some places are a sequence, and just those.
LEMMA EntriesFacts ==
  ASSUME IsSeq(klines), NEW places \in SUBSET (DOMAIN klines)
  PROVE  /\ IsSeq(Entries(places)) /\ Len(Entries(places)) \in Nat
         /\ DOMAIN Entries(places) = 1 .. Len(Entries(places))
         /\ ToSet(Entries(places)) = {klines[k] : k \in places}
<1>1. PICK S : klines \in Seq(S)
  BY DEF IsSeq
<1>2. IsFiniteSet(1 .. Len(klines)) /\ DOMAIN klines = 1 .. Len(klines)
  BY <1>1, FS_Interval
<1>3. IsFiniteSet(places)
  BY <1>2, FS_Subset
<1> DEFINE o == SetToSeq(places)
           n == Len(o)
<1>4. n \in Nat /\ DOMAIN o = 1 .. n /\ {o[i] : i \in 1 .. n} = places
  BY <1>3, Ordered
<1>5. Entries(places) = [i \in 1 .. n |-> klines[o[i]]]
  BY <1>4 DEF Entries
<1> HIDE DEF o, n
<1> DEFINE e == [i \in 1 .. n |-> klines[o[i]]]
<1>6. \A i \in 1 .. n : o[i] \in DOMAIN klines
  BY <1>4
<1>7. \A i \in 1 .. n : klines[o[i]] \in S
  BY <1>1, <1>6
<1>8. e \in Seq(S) /\ Len(e) = n /\ DOMAIN e = 1 .. n
  BY <1>4, <1>7
<1>9. {e[i] : i \in DOMAIN e} = {klines[k] : k \in places}
  BY <1>4, <1>8
<1>10. Entries(places) = e
  BY <1>5
<1> HIDE DEF e
<1>11. IsSeq(e)
  BY <1>8 DEF IsSeq
<1>12. ToSet(e) = {klines[k] : k \in places}
  BY <1>9 DEF ToSet
<1> QED
  BY <1>4, <1>8, <1>10, <1>11, <1>12

\* Without removes every entry for the mask and no other.
LEMMA WithoutFacts ==
  ASSUME IsSeq(klines), NEW mask
  PROVE  IsSeq(Without(mask)) /\ ToSet(Without(mask)) = Minus(ToSet(klines), mask)
<1> DEFINE places == {k \in DOMAIN klines : klines[k].mask # mask}
<1>1. /\ IsSeq(Entries(places)) /\ ToSet(Entries(places)) = {klines[k] : k \in places}
  BY EntriesFacts
<1>2. {klines[k] : k \in places} = Minus(ToSet(klines), mask)
  BY DEF ToSet, Minus
<1> QED
  BY <1>1, <1>2 DEF Without

\* An entry that is added is the one more.
LEMMA AppendFacts ==
  ASSUME IsSeq(klines), NEW line
  PROVE  IsSeq(Append(klines, line)) /\ ToSet(Append(klines, line)) = ToSet(klines) \cup {line}
<1>1. PICK S : klines \in Seq(S)
  BY DEF IsSeq
<1> DEFINE T == S \cup {line}
<1>2. klines \in Seq(T) /\ line \in T
  BY <1>1
<1> HIDE DEF T
<1>3. /\ Append(klines, line) \in Seq(T) /\ Len(Append(klines, line)) = Len(klines) + 1
      /\ DOMAIN Append(klines, line) = 1 .. Len(klines) + 1
      /\ DOMAIN klines = 1 .. Len(klines) /\ Len(klines) \in Nat
      /\ Append(klines, line)[Len(klines) + 1] = line
      /\ \A i \in 1 .. Len(klines) : Append(klines, line)[i] = klines[i]
  BY <1>2
<1>4. 1 .. Len(klines) + 1 = 1 .. Len(klines) \cup {Len(klines) + 1}
  BY <1>3
<1>5. {Append(klines, line)[i] : i \in 1 .. Len(klines) + 1}
        = {klines[i] : i \in 1 .. Len(klines)} \cup {line}
  BY <1>3, <1>4
<1> QED
  BY <1>3, <1>5 DEF IsSeq, ToSet

LEMMA EmptyFacts == IsSeq(<<>>) /\ ToSet(<<>>) = {} /\ Len(<<>>) = 0 /\ \A tag : ~Has(<<>>, tag)
<1>1. <<>> \in Seq({}) /\ Len(<<>>) = 0 /\ DOMAIN <<>> = {}
  OBVIOUS
<1> QED
  BY <1>1 DEF IsSeq, ToSet, Has

-----------------------------------------------------------------------------
(* What a step leaves alone                                                *)

\* The only message of a kind is still there and still the only one.
KeepsOnly(q, r, tag) ==
  \A i \in 1 .. Len(q) : Only(q, i, tag) =>
    \E j \in 1 .. Len(r) : Only(r, j, tag) /\ r[j] = q[i]

LEMMA KeptByTail ==
  ASSUME NEW q, IsSeq(q), q # <<>>
  PROVE  \A tag : Tag(q[1]) # tag => KeepsOnly(q, Tail(q), tag)
<1> SUFFICES ASSUME NEW tag, Tag(q[1]) # tag, NEW i \in 1 .. Len(q), Only(q, i, tag)
             PROVE  \E j \in 1 .. Len(Tail(q)) : Only(Tail(q), j, tag) /\ Tail(q)[j] = q[i]
  BY DEF KeepsOnly
<1> HIDE DEF IsSeq, Only, Tag
<1>1. Only(Tail(q), i - 1, tag) /\ Tail(q)[i - 1] = q[i] /\ i - 1 \in 1 .. Len(Tail(q))
  BY OnlyTail
<1> QED
  BY <1>1

LEMMA KeptByCat ==
  ASSUME NEW q, NEW r, IsSeq(q), IsSeq(r)
  PROVE  \A tag : ~Has(r, tag) => KeepsOnly(q, q \o r, tag)
<1> SUFFICES ASSUME NEW tag, ~Has(r, tag), NEW i \in 1 .. Len(q), Only(q, i, tag)
             PROVE  \E j \in 1 .. Len(q \o r) : Only(q \o r, j, tag) /\ (q \o r)[j] = q[i]
  BY DEF KeepsOnly
<1>1. Only(q \o r, i, tag) /\ (q \o r)[i] = q[i] /\ i \in 1 .. Len(q \o r)
  BY OnlyCat
<1> QED
  BY <1>1

LEMMA KeptBySame ==
  ASSUME NEW q
  PROVE  \A tag : KeepsOnly(q, q, tag)
  BY DEF KeepsOnly

\* The nickname agrees if no request and no refusal comes or goes.
LEMMA NickKept ==
  ASSUME NEW n, NickAgrees(n),
         KeepsOnly(inbox, inbox', "433"), KeepsOnly(outbox, outbox', "NICK"),
         Has(inbox', "433") => Has(inbox, "433"), Has(outbox', "NICK") => Has(outbox, "NICK"),
         srv'.nick = srv.nick, srv'.reg = srv.reg \/ srv.nick # -1
  PROVE  NickAgrees(n)'
<1>1. CASE srv.nick = -1 /\ srv.reg = "none" /\ Asked(n)
  <2>1. PICK i \in 1 .. Len(outbox) : Only(outbox, i, "NICK") /\ outbox[i].nick = n
    BY <1>1 DEF Asked
  <2>2. \E j \in 1 .. Len(outbox') : Only(outbox', j, "NICK") /\ outbox'[j] = outbox[i]
    BY <2>1 DEF KeepsOnly
  <2>3. Asked(n)'
    BY <1>1, <2>1, <2>2 DEF Asked
  <2> QED
    BY <1>1, <2>3 DEF NickAgrees
<1>2. CASE srv.nick = -1 /\ srv.reg = "none" /\ TurnedDown(n)
  <2>1. PICK i \in 1 .. Len(inbox) : /\ Only(inbox, i, "433") /\ inbox[i].nick \in Nat
                                     /\ n = OtherNick(inbox[i].nick)
    BY <1>2 DEF TurnedDown
  <2>2. \E j \in 1 .. Len(inbox') : Only(inbox', j, "433") /\ inbox'[j] = inbox[i]
    BY <2>1 DEF KeepsOnly
  <2>3. TurnedDown(n)'
    BY <1>2, <2>1, <2>2 DEF TurnedDown
  <2> QED
    BY <1>2, <2>3 DEF NickAgrees
<1>3. CASE srv.nick \in Nat /\ Given(n)
  BY <1>3 DEF NickAgrees, Given
<1> QED
  BY <1>1, <1>2, <1>3 DEF NickAgrees

\* The list agrees if no line changes and no request is lost.
LEMMA ListKept ==
  ASSUME NEW K, ListAgrees(K), world' = world, lines' = lines,
         srv'.reg = "oper" => srv.reg = "oper",
         world.trackTemp /\ Pending("STATS-k") => Pending("STATS-k")',
         world.trackPerm /\ Pending("STATS-K") => Pending("STATS-K")'
  PROVE  ListAgrees(K)'
  BY DEF ListAgrees

\* What is waited for stays on its way if no request and no reply is lost.
LEMMA WaitsKept ==
  ASSUME Waits, srv.reg # "none" /\ ~Has(inbox, "001"),
         getting' \ getting \subseteq {"T", "K", "k"},
         "T" \in getting' => \/ "T" \in getting
                                /\ (Has(outbox, "TRACE") \/ Has(inbox, "262")
                                    => Has(outbox', "TRACE") \/ Has(inbox', "262"))
                             \/ Has(outbox', "TRACE"),
         "K" \in getting' => \/ "K" \in getting
                                /\ (Has(outbox, "STATS-K") \/ Has(inbox, "219-K")
                                    => Has(outbox', "STATS-K") \/ Has(inbox', "219-K"))
                             \/ Has(outbox', "STATS-K"),
         "k" \in getting' => \/ "k" \in getting
                                /\ (Has(outbox, "STATS-k") \/ Has(inbox, "219-k")
                                    => Has(outbox', "STATS-k") \/ Has(inbox', "219-k"))
                             \/ Has(outbox', "STATS-k")
  PROVE  Waits'
  BY DEF Waits

-----------------------------------------------------------------------------
(* The bot reads a line                                                    *)

\* The first line is taken and the commands of c are sent.
Taken(c) ==
  /\ sock = "open" /\ sock' = "open" /\ IsSeq(inbox) /\ inbox # <<>>
  /\ inbox' = Tail(inbox) /\ IsSeq(c) /\ outbox' = outbox \o c
  /\ world' = world /\ srv' = srv /\ lines' = lines

LEMMA PostsTail ==
  ASSUME NEW q, IsSeq(q), q # <<>>, Posts(q)
  PROVE  Posts(Tail(q))
<1>1. \A i \in 1 .. Len(q) - 1 : i + 1 \in 1 .. Len(q) /\ Tail(q)[i] = q[i + 1]
  BY TailFacts
<1> QED
  BY <1>1, TailFacts DEF Posts

LEMMA PostsCat ==
  ASSUME NEW q, NEW r, IsSeq(q), IsSeq(r), Posts(q), Posts(r)
  PROVE  Posts(q \o r)
  BY CatFacts DEF Posts

LEMMA TakenHas ==
  ASSUME NEW c, Taken(c), IsSeq(outbox)
  PROVE  /\ \A tag : Has(inbox', tag) => Has(inbox, tag)
         /\ \A tag : Has(inbox, tag) /\ Tag(inbox[1]) # tag => Has(inbox', tag)
         /\ Has(inbox, Tag(inbox[1]))
         /\ \A tag : Has(outbox', tag) <=> Has(outbox, tag) \/ Has(c, tag)
<1> USE DEF Taken
<1> HIDE DEF IsSeq
<1>1. Has(inbox, Tag(inbox[1]))
  BY TailFacts DEF Has
<1> HIDE DEF Has, Tag
<1> QED
  BY <1>1, HasTail, HasCat

LEMMA TakenWelcome ==
  ASSUME NEW c, Taken(c), IsSeq(outbox), Welcome,
         Has(c, "OPER") => Tag(inbox[1]) = "001",
         oper' => oper \/ Tag(inbox[1]) = "381"
  PROVE  Welcome'
<1>1. AtMostOne(inbox', "001") /\ (Tag(inbox[1]) = "001" => ~Has(inbox', "001"))
  BY HasTail DEF Taken, Welcome
<1>2. srv' = srv
  BY DEF Taken
<1> HIDE DEF Taken, Has, Tag, AtMostOne
<1> QED
  BY <1>1, <1>2, TakenHas DEF Welcome

\* What is waited for has been asked for, now or before, and its end has not come.
GettingKept(c) ==
  \/ Tag(inbox[1]) = "001" /\ getting' = {}
  \/ /\ Tag(inbox[1]) # "001" /\ getting' \ getting \subseteq {"T", "K", "k"}
     /\ "T" \in getting' => ("T" \in getting /\ Tag(inbox[1]) # "262") \/ Has(c, "TRACE")
     /\ "K" \in getting' => ("K" \in getting /\ Tag(inbox[1]) # "219-K") \/ Has(c, "STATS-K")
     /\ "k" \in getting' => ("k" \in getting /\ Tag(inbox[1]) # "219-k") \/ Has(c, "STATS-k")

LEMMA TakenWaits ==
  ASSUME NEW c, Taken(c), IsSeq(outbox), Waits, GettingKept(c)
  PROVE  Waits'
<1> HIDE DEF Taken, Has, Tag
<1>1. CASE Tag(inbox[1]) = "001" /\ getting' = {}
  BY <1>1 DEF Waits
<1>2. CASE Tag(inbox[1]) # "001"
  <2>1. SUFFICES ASSUME srv.reg # "none", ~Has(inbox', "001") PROVE Waits'
    BY DEF Waits, Taken
  <2>2. ~Has(inbox, "001")
    BY <1>2, <2>1, TakenHas
  <2> QED
    BY <1>2, <2>1, <2>2, TakenHas, WaitsKept DEF GettingKept
<1> QED
  BY <1>1, <1>2 DEF GettingKept

\* A list that is cleared is asked for again.
AsksAgain(c) ==
  Tag(inbox[1]) = "381" \/ (Tag(inbox[1]) = "clearing" /\ world.trackTemp) =>
    /\ world.trackTemp => Has(c, "STATS-k")
    /\ world.trackPerm => Has(c, "STATS-K")

\* A nickname that is turned down is replaced.
Replaces(c) ==
  \/ Tag(inbox[1]) # "433" /\ ~Has(c, "NICK")
  \/ /\ Tag(inbox[1]) = "433"
     /\ c = <<[t |-> "NICK", nick |-> OtherNick(inbox[1].nick)]>>

LEMMA OtherNickType == \A n \in Nat : OtherNick(n) \in Nat
  BY LengthsAreLengths DEF OtherNick

LEMMA TakenNick ==
  ASSUME NEW c, Taken(c), IsSeq(outbox), NEW n, NickAgrees(n), Replaces(c)
  PROVE  NickAgrees(n)'
<1> HIDE DEF Has, Tag, IsSeq
<1>1. CASE Tag(inbox[1]) # "433" /\ ~Has(c, "NICK")
  <2>1. KeepsOnly(inbox, inbox', "433") /\ KeepsOnly(outbox, outbox', "NICK")
    BY <1>1, KeptByTail, KeptByCat DEF Taken
  <2>2. srv' = srv
    BY DEF Taken
  <2> HIDE DEF Taken, KeepsOnly
  <2> QED
    BY <1>1, <2>1, <2>2, TakenHas, NickKept
<1>2. CASE /\ Tag(inbox[1]) = "433"
           /\ c = <<[t |-> "NICK", nick |-> OtherNick(inbox[1].nick)]>>
  <2>1. Has(inbox, "433") /\ srv' = srv
    BY <1>2, TakenHas DEF Taken
  <2>2. srv.nick = -1 /\ srv.reg = "none" /\ TurnedDown(n)
    BY <2>1 DEF NickAgrees, Asked, Given
  <2>3. PICK i \in 1 .. Len(inbox) : /\ Only(inbox, i, "433") /\ inbox[i].nick \in Nat
                                     /\ n = OtherNick(inbox[i].nick)
    BY <2>2 DEF TurnedDown
  <2>4. i = 1 /\ ~Has(inbox', "433")
    BY <1>2, <2>3, OnlyTail DEF Taken
  <2> DEFINE m == [t |-> "NICK", nick |-> n]
  <2>5. c = <<m>> /\ Tag(m) = "NICK" /\ m.nick = n
    BY <1>2, <2>3, <2>4 DEF Tag
  <2> HIDE DEF m
  <2>6. ~Has(outbox, "NICK") /\ outbox' = outbox \o <<m>>
    BY <2>2, <2>5 DEF TurnedDown, Taken
  <2>7. /\ Only(outbox', Len(outbox) + 1, "NICK") /\ outbox'[Len(outbox) + 1] = m
        /\ Len(outbox) + 1 \in 1 .. Len(outbox')
    BY <2>5, <2>6, OnlyAdded
  <2>8. n \in Nat
    BY <2>3, OtherNickType
  <2>9. Asked(n)'
    BY <2>4, <2>5, <2>7, <2>8 DEF Asked
  <2> QED
    BY <2>1, <2>2, <2>9 DEF NickAgrees
<1> QED
  BY <1>1, <1>2 DEF Replaces

LEMMA TakenList ==
  ASSUME NEW c, Taken(c), IsSeq(outbox), NEW K, ListAgrees(K), AsksAgain(c)
  PROVE  ListAgrees(K)'
<1>1. world' = world /\ srv' = srv /\ lines' = lines
  BY DEF Taken
<1> HIDE DEF Taken, Has, Tag, IsSeq
<1>2. /\ world.trackTemp /\ Pending("STATS-k") => Pending("STATS-k")'
      /\ world.trackPerm /\ Pending("STATS-K") => Pending("STATS-K")'
  BY <1>1, TakenHas DEF Pending, AsksAgain
<1> QED
  BY <1>1, <1>2, ListKept

\* A line that is read: what it says is believed, and what it asks for is done.
LEMMA ReadStep ==
  ASSUME NEW c, IInv, Taken(c), Posts(c), IsSeq(klines'), ~partial',
         Belief' = Hears(world, inbox[1], Belief),
         Has(c, "OPER") => Tag(inbox[1]) = "001", oper' => oper \/ Tag(inbox[1]) = "381",
         GettingKept(c), AsksAgain(c), Replaces(c)
  PROVE  IInv'
<1> HIDE DEF Has, Tag, IsSeq, Posts, GettingKept, AsksAgain, Replaces, Belief
<1>1. Shapes
  BY DEF IInv
<1>2. Shapes'
  <2>1. IsSeq(inbox') /\ IsSeq(outbox') /\ Posts(outbox')
    BY <1>1, TailFacts, CatFacts, PostsCat DEF Taken, Shapes
  <2> QED
    BY <1>1, <2>1 DEF Shapes, Taken
<1>3. GarbledFirst'
  BY DEF GarbledFirst
<1>4. ASSUME Alive' PROVE Welcome' /\ Waits' /\ Synced'
  <2>1. Alive /\ Welcome /\ Waits /\ Synced /\ IsSeq(outbox)
    BY <1>1, <1>4 DEF IInv, Alive, Taken, Shapes
  <2>2. PICK u : Path(world, inbox, Belief, u) /\ Agrees(u)
    BY <2>1 DEF Synced
  <2>3. Path(world, Tail(inbox), Hears(world, inbox[1], Belief), u)
    BY <2>2, PathTail DEF Taken
  <2>4. Path(world', inbox', Belief', u)
    BY <2>3 DEF Taken
  <2>5. Agrees(u)'
    BY <2>1, <2>2, TakenNick, TakenList DEF Agrees
  <2> HIDE DEF Taken, Path
  <2> QED
    BY <2>1, <2>4, <2>5, TakenWelcome, TakenWaits DEF Synced
<1> QED
  BY <1>2, <1>3, <1>4 DEF IInv

\* What the requests for the lists are.
LEMMA RequestsFacts ==
  /\ IsSeq(StatsRequests) /\ Posts(StatsRequests)
  /\ \A tag : Has(StatsRequests, tag) <=> \/ world.trackPerm /\ tag = "STATS-K"
                                          \/ world.trackTemp /\ tag = "STATS-k"
<1>1. Tag(Stats(FALSE)) = "STATS-K" /\ Tag(Stats(TRUE)) = "STATS-k"
  BY DEF Tag, Stats
<1>2. \A b \in BOOLEAN : IsSeq(<<Stats(b)>>) /\ Posts(<<Stats(b)>>)
                         /\ \A tag : Has(<<Stats(b)>>, tag) <=> Tag(Stats(b)) = tag
  <2> TAKE b \in BOOLEAN
  <2>1. IsSeq(<<Stats(b)>>) /\ \A tag : Has(<<Stats(b)>>, tag) <=> Tag(Stats(b)) = tag
    BY OneFacts, HasOne
  <2>2. Posts(<<Stats(b)>>)
    BY DEF Posts, Stats
  <2> QED
    BY <2>1, <2>2
<1>3. IsSeq(<<>>) /\ Posts(<<>>) /\ \A tag : ~Has(<<>>, tag)
  BY EmptyFacts DEF Posts
<1> DEFINE p == IF world.trackPerm THEN <<Stats(FALSE)>> ELSE <<>>
           k == IF world.trackTemp THEN <<Stats(TRUE)>> ELSE <<>>
<1> HIDE DEF Has, Tag, IsSeq, Posts
<1>4. /\ IsSeq(p) /\ Posts(p) /\ \A tag : Has(p, tag) <=> world.trackPerm /\ tag = "STATS-K"
      /\ IsSeq(k) /\ Posts(k) /\ \A tag : Has(k, tag) <=> world.trackTemp /\ tag = "STATS-k"
  BY <1>1, <1>2, <1>3
<1>5. StatsRequests = p \o k
  BY DEF StatsRequests
<1> HIDE DEF p, k
<1> QED
  BY <1>4, <1>5, CatFacts, HasCat, PostsCat

\* A line read from the inbox, and what is written for it.
LEMMA ReadsTaken ==
  ASSUME NEW t, NEW c, Reads(t), IInv, IsSeq(c), Writes(c)
  PROVE  Taken(c) /\ inbox[1].t = t /\ ~partial /\ partial' = partial
  BY TailFacts DEF Reads, Writes, Taken, IInv, Shapes, IsSeq

LEMMA CatEmpty ==
  ASSUME NEW q, IsSeq(q)
  PROVE  q \o <<>> = q
<1>1. PICK S : q \in Seq(S)
  BY DEF IsSeq
<1> QED
  BY <1>1

LEMMA NoPosts == Posts(<<>>)
  BY EmptyFacts DEF Posts

\* A message that is neither KLINE nor STATS.
LEMMA Single ==
  ASSUME NEW m, m.t \notin {"KLINE", "STATS", "219"}
  PROVE  /\ Tag(m) = m.t /\ IsSeq(<<m>>) /\ Posts(<<m>>)
         /\ \A tag : Has(<<m>>, tag) <=> Tag(m) = tag
<1>1. IsSeq(<<m>>) /\ \A tag : Has(<<m>>, tag) <=> Tag(m) = tag
  BY OneFacts, HasOne
<1>2. Tag(m) = m.t
  BY DEF Tag
<1>3. Posts(<<m>>)
  BY DEF Posts
<1> QED
  BY <1>1, <1>2, <1>3

\* A line that only changes what the bot believes.
LEMMA Silent ==
  ASSUME IInv, sock = "open", sock' = "open", inbox # <<>>, inbox' = Tail(inbox), ~partial',
         UNCHANGED <<world, srv, lines, oper, outbox>>, IsSeq(klines'),
         inbox[1].t \notin {"001", "381", "433"},
         inbox[1].t = "clearing" => ~world.trackTemp,
         nick' = NickHeard(inbox[1], nick),
         ToSet(klines') = ListHeard(world, inbox[1], ToSet(klines)),
         getting' \subseteq getting, Tag(inbox[1]) = "262" => "T" \notin getting',
         Tag(inbox[1]) = "219-K" => "K" \notin getting',
         Tag(inbox[1]) = "219-k" => "k" \notin getting'
  PROVE  IInv'
<1>1. IsSeq(inbox) /\ IsSeq(outbox)
  BY DEF IInv, Shapes
<1>2. IsSeq(<<>>) /\ (\A tag : ~Has(<<>>, tag)) /\ Posts(<<>>)
  BY EmptyFacts, NoPosts
<1>3. outbox' = outbox \o <<>>
  BY <1>1, CatEmpty
<1>4. Taken(<<>>)
  BY <1>1, <1>2, <1>3 DEF Taken
<1>5. Belief' = Hears(world, inbox[1], Belief)
  BY DEF Belief, Hears
<1>6. /\ Tag(inbox[1]) \notin {"001", "381", "433"}
      /\ Tag(inbox[1]) = "clearing" => ~world.trackTemp
  BY DEF Tag
<1> HIDE DEF Has, Tag, IsSeq, Posts, Taken, IInv, Belief
<1>7. GettingKept(<<>>) /\ AsksAgain(<<>>) /\ Replaces(<<>>)
  BY <1>2, <1>6 DEF GettingKept, AsksAgain, Replaces
<1> QED
  BY <1>2, <1>4, <1>5, <1>6, <1>7, ReadStep

LEMMA ReadGarbledKeeps == IInv /\ ReadGarbled => IInv'
<1> SUFFICES ASSUME IInv, ReadGarbled PROVE IInv'
  OBVIOUS
<1>1. inbox[1].t \in {"PING", "notice"} /\ IsSeq(klines)
  BY DEF IInv, GarbledFirst, ReadGarbled, Shapes
<1>2. /\ NickHeard(inbox[1], nick) = nick
      /\ ListHeard(world, inbox[1], ToSet(klines)) = ToSet(klines)
      /\ Tag(inbox[1]) = inbox[1].t
  BY <1>1 DEF NickHeard, ListHeard, Tag
<1> HIDE DEF IInv, IsSeq
<1> QED
  BY <1>1, <1>2, Silent DEF ReadGarbled

LEMMA ReadNoticeKeeps == IInv /\ ReadNotice => IInv'
<1> SUFFICES ASSUME IInv, ReadNotice PROVE IInv'
  OBVIOUS
<1>1. inbox[1].t = "notice" /\ IsSeq(klines)
  BY TailFacts DEF IInv, Shapes, ReadNotice, Reads
<1>2. /\ NickHeard(inbox[1], nick) = nick
      /\ ListHeard(world, inbox[1], ToSet(klines)) = ToSet(klines)
      /\ Tag(inbox[1]) = inbox[1].t
  BY <1>1 DEF NickHeard, ListHeard, Tag
<1> HIDE DEF IInv, IsSeq
<1> QED
  BY <1>1, <1>2, Silent DEF ReadNotice, Reads

\* The line is for the nickname it is from.
LEMMA ReadNickKeeps == IInv /\ ReadNick => IInv'
<1> SUFFICES ASSUME IInv, ReadNick PROVE IInv'
  OBVIOUS
<1>1. inbox[1].t = "NICK" /\ Head(inbox) = inbox[1] /\ IsSeq(klines)
  BY TailFacts DEF IInv, Shapes, ReadNick, Reads
<1>2. /\ NickHeard(inbox[1], nick) = nick'
      /\ ListHeard(world, inbox[1], ToSet(klines)) = ToSet(klines)
      /\ Tag(inbox[1]) = inbox[1].t
  BY <1>1 DEF NickHeard, ListHeard, Tag, ReadNick
<1> HIDE DEF IInv, IsSeq
<1> QED
  BY <1>1, <1>2, Silent DEF ReadNick, Reads

LEMMA Read216Keeps == IInv /\ Read216 => IInv'
<1> SUFFICES ASSUME IInv, Read216 PROVE IInv'
  OBVIOUS
<1>1. inbox[1].t = "216" /\ Head(inbox) = inbox[1] /\ IsSeq(klines)
  BY TailFacts DEF IInv, Shapes, Read216, Reads
<1>2. /\ IsSeq(Append(klines, inbox[1].line))
      /\ ToSet(Append(klines, inbox[1].line)) = ToSet(klines) \cup {inbox[1].line}
  BY <1>1, AppendFacts
<1> HIDE DEF IInv, IsSeq
<1>3. /\ NickHeard(inbox[1], nick) = nick
      /\ ListHeard(world, inbox[1], ToSet(klines)) = ToSet(klines') /\ IsSeq(klines')
      /\ Tag(inbox[1]) = inbox[1].t
  BY <1>1, <1>2 DEF NickHeard, ListHeard, Tag, Read216
<1> QED
  BY <1>1, <1>3, Silent DEF Read216, Reads

LEMMA Read219Keeps == IInv /\ Read219 => IInv'
<1> SUFFICES ASSUME IInv, Read219 PROVE IInv'
  OBVIOUS
<1>1. inbox[1].t = "219" /\ Head(inbox) = inbox[1] /\ IsSeq(klines)
  BY TailFacts DEF IInv, Shapes, Read219, Reads
<1>2. /\ NickHeard(inbox[1], nick) = nick
      /\ ListHeard(world, inbox[1], ToSet(klines)) = ToSet(klines)
      /\ Tag(inbox[1]) \in {"219-K", "219-k"}
      /\ Tag(inbox[1]) = "219-K" => "K" \notin getting'
      /\ Tag(inbox[1]) = "219-k" => "k" \notin getting'
      /\ getting' \subseteq getting
  BY <1>1 DEF NickHeard, ListHeard, Tag, Read219
<1> HIDE DEF IInv, IsSeq
<1> QED
  BY <1>1, <1>2, Silent DEF Read219, Reads

LEMMA Read262Keeps == IInv /\ Read262 => IInv'
<1> SUFFICES ASSUME IInv, Read262 PROVE IInv'
  OBVIOUS
<1>1. inbox[1].t = "262" /\ Head(inbox) = inbox[1] /\ IsSeq(klines)
  BY TailFacts DEF IInv, Shapes, Read262, Reads
<1>2. /\ NickHeard(inbox[1], nick) = nick
      /\ ListHeard(world, inbox[1], ToSet(klines)) = ToSet(klines)
      /\ Tag(inbox[1]) = "262"
  BY <1>1 DEF NickHeard, ListHeard, Tag
<1> HIDE DEF IInv, IsSeq
<1> QED
  BY <1>1, <1>2, Silent DEF Read262, Reads

LEMMA ReadAddedKeeps == IInv /\ ReadAdded => IInv'
<1> SUFFICES ASSUME IInv, ReadAdded PROVE IInv'
  OBVIOUS
<1>1. inbox[1].t = "added" /\ Head(inbox) = inbox[1] /\ IsSeq(klines)
  BY TailFacts DEF IInv, Shapes, ReadAdded, Reads
<1>2. /\ IsSeq(Append(klines, inbox[1].line))
      /\ ToSet(Append(klines, inbox[1].line)) = ToSet(klines) \cup {inbox[1].line}
  BY <1>1, AppendFacts
<1> HIDE DEF IInv, IsSeq
<1>3. /\ NickHeard(inbox[1], nick) = nick
      /\ ListHeard(world, inbox[1], ToSet(klines)) = ToSet(klines') /\ IsSeq(klines')
      /\ Tag(inbox[1]) = inbox[1].t
  BY <1>1, <1>2 DEF NickHeard, ListHeard, Tag, ReadAdded
<1> QED
  BY <1>1, <1>3, Silent DEF ReadAdded, Reads

LEMMA ReadRemovedKeeps == IInv /\ ReadRemoved => IInv'
<1> SUFFICES ASSUME IInv, ReadRemoved PROVE IInv'
  OBVIOUS
<1>1. inbox[1].t = "removed" /\ Head(inbox) = inbox[1] /\ IsSeq(klines)
  BY TailFacts DEF IInv, Shapes, ReadRemoved, Reads
<1>2. /\ IsSeq(Without(inbox[1].line.mask))
      /\ ToSet(Without(inbox[1].line.mask)) = Minus(ToSet(klines), inbox[1].line.mask)
  BY <1>1, WithoutFacts
<1> HIDE DEF IInv, IsSeq
<1>3. /\ NickHeard(inbox[1], nick) = nick
      /\ ListHeard(world, inbox[1], ToSet(klines)) = ToSet(klines') /\ IsSeq(klines')
      /\ Tag(inbox[1]) = inbox[1].t
  BY <1>1, <1>2 DEF NickHeard, ListHeard, Tag, ReadRemoved
<1> QED
  BY <1>1, <1>3, Silent DEF ReadRemoved, Reads

LEMMA ReadExpiredKeeps == IInv /\ ReadExpired => IInv'
<1> SUFFICES ASSUME IInv, ReadExpired PROVE IInv'
  OBVIOUS
<1>1. inbox[1].t = "expired" /\ Head(inbox) = inbox[1] /\ IsSeq(klines)
  BY TailFacts DEF IInv, Shapes, ReadExpired, Reads
<1>2. /\ IsSeq(Without(inbox[1].line.mask))
      /\ ToSet(Without(inbox[1].line.mask)) = Minus(ToSet(klines), inbox[1].line.mask)
  BY <1>1, WithoutFacts
<1> HIDE DEF IInv, IsSeq
<1>3. /\ NickHeard(inbox[1], nick) = nick
      /\ ListHeard(world, inbox[1], ToSet(klines)) = ToSet(klines') /\ IsSeq(klines')
      /\ Tag(inbox[1]) = inbox[1].t
  BY <1>1, <1>2 DEF NickHeard, ListHeard, Tag, ReadExpired
<1> QED
  BY <1>1, <1>3, Silent DEF ReadExpired, Reads

\* The lines that are answered.
LEMMA ReadPingKeeps == IInv /\ ReadPing => IInv'
<1> SUFFICES ASSUME IInv, ReadPing PROVE IInv'
  OBVIOUS
<1> DEFINE m == [t |-> "PONG"]
           c == <<m>>
<1>1. /\ Tag(m) = "PONG" /\ IsSeq(c) /\ Posts(c) /\ \A tag : Has(c, tag) <=> Tag(m) = tag
  BY Single
<1>2. Taken(c) /\ inbox[1].t = "PING" /\ ~partial' /\ IsSeq(klines)
  BY <1>1, ReadsTaken DEF ReadPing, IInv, Shapes, Reads
<1>3. Belief' = Hears(world, inbox[1], Belief) /\ Tag(inbox[1]) = "PING"
  BY <1>2 DEF Belief, Hears, NickHeard, ListHeard, Tag, ReadPing
<1> HIDE DEF IInv, Taken, Has, Tag, IsSeq, Posts, Belief, c
<1>4. GettingKept(c) /\ AsksAgain(c) /\ Replaces(c)
  BY <1>1, <1>3 DEF GettingKept, AsksAgain, Replaces, ReadPing
<1> QED
  BY <1>1, <1>2, <1>3, <1>4, ReadStep DEF ReadPing

LEMMA Read001Keeps == IInv /\ Read001 => IInv'
<1> SUFFICES ASSUME IInv, Read001 PROVE IInv'
  OBVIOUS
<1> DEFINE m == [t |-> "OPER"]
           c == <<m>>
<1>1. /\ Tag(m) = "OPER" /\ IsSeq(c) /\ Posts(c) /\ \A tag : Has(c, tag) <=> Tag(m) = tag
  BY Single
<1>2. Taken(c) /\ inbox[1].t = "001" /\ ~partial' /\ IsSeq(klines') /\ ToSet(klines') = {}
  BY <1>1, ReadsTaken, EmptyFacts DEF Read001
<1>3. Belief' = Hears(world, inbox[1], Belief) /\ Tag(inbox[1]) = "001"
  BY <1>2 DEF Belief, Hears, NickHeard, ListHeard, Tag, Read001
<1> HIDE DEF IInv, Taken, Has, Tag, IsSeq, Posts, Belief, c
<1>4. GettingKept(c) /\ AsksAgain(c) /\ Replaces(c)
  BY <1>1, <1>3 DEF GettingKept, AsksAgain, Replaces, Read001
<1> QED
  BY <1>1, <1>2, <1>3, <1>4, ReadStep DEF Read001

LEMMA Read433Keeps == IInv /\ Read433 => IInv'
<1> SUFFICES ASSUME IInv, Read433 PROVE IInv'
  OBVIOUS
<1> DEFINE m == [t |-> "NICK", nick |-> OtherNick(inbox[1].nick)]
           c == <<m>>
<1>1. /\ Tag(m) = "NICK" /\ IsSeq(c) /\ Posts(c) /\ \A tag : Has(c, tag) <=> Tag(m) = tag
  BY Single
<1>2. Head(inbox) = inbox[1]
  BY TailFacts DEF Read433, Reads, IInv, Shapes
<1>3. Taken(c) /\ inbox[1].t = "433" /\ ~partial' /\ IsSeq(klines')
  BY <1>1, <1>2, ReadsTaken DEF Read433, IInv, Shapes
<1>4. Belief' = Hears(world, inbox[1], Belief) /\ Tag(inbox[1]) = "433"
  BY <1>2, <1>3 DEF Belief, Hears, NickHeard, ListHeard, Tag, Read433
<1>5. Replaces(c)
  BY <1>4 DEF Replaces
<1> HIDE DEF IInv, Taken, Has, Tag, IsSeq, Posts, Belief, c
<1>6. GettingKept(c) /\ AsksAgain(c)
  BY <1>1, <1>4 DEF GettingKept, AsksAgain, Read433
<1> QED
  BY <1>1, <1>3, <1>4, <1>5, <1>6, ReadStep DEF Read433

LEMMA Read381Keeps == IInv /\ Read381 => IInv'
<1> SUFFICES ASSUME IInv, Read381 PROVE IInv'
  OBVIOUS
<1> DEFINE m == [t |-> "TRACE"]
           c == <<m>> \o StatsRequests
<1>1. /\ Tag(m) = "TRACE" /\ IsSeq(<<m>>) /\ Posts(<<m>>)
      /\ \A tag : Has(<<m>>, tag) <=> Tag(m) = tag
  BY Single
<1> HIDE DEF m
<1>2. /\ IsSeq(c) /\ Posts(c)
      /\ \A tag : Has(c, tag) <=> \/ tag = "TRACE"
                                  \/ world.trackPerm /\ tag = "STATS-K"
                                  \/ world.trackTemp /\ tag = "STATS-k"
  <2> HIDE DEF IsSeq, Posts, Has
  <2> QED
    BY <1>1, RequestsFacts, CatFacts, HasCat, PostsCat
<1>3. Writes(c)
  BY DEF Read381, m
<1>4. Taken(c) /\ inbox[1].t = "381" /\ ~partial' /\ IsSeq(klines') /\ ToSet(klines') = {}
  <2> HIDE DEF c, IsSeq
  <2> QED
    BY <1>2, <1>3, ReadsTaken, EmptyFacts DEF Read381
<1>5. Belief' = Hears(world, inbox[1], Belief) /\ Tag(inbox[1]) = "381"
  BY <1>4 DEF Belief, Hears, NickHeard, ListHeard, Tag, Read381
<1> HIDE DEF IInv, Taken, Has, Tag, IsSeq, Posts, Belief, c
<1>6. \A x : x \in getting' <=> \/ x \in getting \/ x = "T"
                              \/ (world.trackPerm /\ x = "K") \/ (world.trackTemp /\ x = "k")
  BY DEF Read381
<1>7. GettingKept(c)
  BY <1>2, <1>5, <1>6 DEF GettingKept
<1>8. AsksAgain(c) /\ Replaces(c)
  BY <1>2, <1>5 DEF AsksAgain, Replaces
<1> QED
  BY <1>2, <1>4, <1>5, <1>7, <1>8, ReadStep

LEMMA ReadClearingKeeps == IInv /\ ReadClearing => IInv'
<1> SUFFICES ASSUME IInv, ReadClearing PROVE IInv'
  OBVIOUS
<1>1. inbox[1].t = "clearing" /\ Head(inbox) = inbox[1] /\ IsSeq(klines)
      /\ Tag(inbox[1]) = "clearing"
  BY TailFacts DEF IInv, Shapes, ReadClearing, Reads, Tag
<1>2. CASE ~world.trackTemp
  <2>1. /\ NickHeard(inbox[1], nick) = nick
        /\ ListHeard(world, inbox[1], ToSet(klines)) = ToSet(klines)
    BY <1>1, <1>2 DEF NickHeard, ListHeard
  <2> HIDE DEF IInv, IsSeq, Tag
  <2> QED
    BY <1>1, <1>2, <2>1, Silent DEF ReadClearing, Reads
<1>3. CASE world.trackTemp
  <2> DEFINE c == StatsRequests
  <2>1. IsSeq(c) /\ Posts(c) /\ \A tag : Has(c, tag) <=> \/ world.trackPerm /\ tag = "STATS-K"
                                                         \/ world.trackTemp /\ tag = "STATS-k"
    BY RequestsFacts
  <2> HIDE DEF c
  <2>2. Reads("clearing") /\ ReloadKlines /\ Writes(c) /\ UNCHANGED <<nick, oper>>
    BY <1>3 DEF ReadClearing, c
  <2>3. Taken(c) /\ ~partial' /\ IsSeq(klines') /\ ToSet(klines') = {}
    BY <2>1, <2>2, ReadsTaken, EmptyFacts DEF ReloadKlines
  <2>4. Belief' = Hears(world, inbox[1], Belief)
    BY <1>1, <1>3, <2>2, <2>3 DEF Belief, Hears, NickHeard, ListHeard
  <2> HIDE DEF IInv, Taken, Has, Tag, IsSeq, Posts, Belief
  <2>5. \A x : x \in getting' <=> \/ x \in getting
                                \/ (world.trackPerm /\ x = "K") \/ (world.trackTemp /\ x = "k")
    BY <2>2 DEF ReloadKlines
  <2>6. GettingKept(c)
    BY <1>1, <2>1, <2>5 DEF GettingKept
  <2>7. AsksAgain(c) /\ Replaces(c)
    BY <1>1, <2>1 DEF AsksAgain, Replaces
  <2> QED
    BY <1>1, <2>1, <2>2, <2>3, <2>4, <2>6, <2>7, ReadStep
<1> QED
  BY <1>2, <1>3

-----------------------------------------------------------------------------
(* The server is told something, or tells the bot                          *)

\* Lines are added to what the bot will read, and a request may have been served.
Still == UNCHANGED <<world, sock, partial, nick, oper, getting, klines>>
Told(a) == Still /\ IsSeq(a) /\ inbox' = inbox \o a
Served(tag) == \/ tag = "nothing" /\ outbox' = outbox
               \/ outbox # <<>> /\ outbox' = Tail(outbox) /\ Tag(outbox[1]) = tag

LEMMA ServedFacts ==
  ASSUME NEW tag, Served(tag), IsSeq(outbox), Posts(outbox)
  PROVE  /\ IsSeq(outbox') /\ Posts(outbox')
         /\ \A x : Has(outbox', x) => Has(outbox, x)
         /\ \A x : Has(outbox, x) /\ x # tag => Has(outbox', x)
         /\ \A x : x # tag => KeepsOnly(outbox, outbox', x)
         /\ tag = "nothing" \/ Has(outbox, tag)
<1> HIDE DEF IsSeq, Has, Posts, KeepsOnly, Tag
<1>1. CASE tag = "nothing" /\ outbox' = outbox
  BY <1>1, KeptBySame
<1>2. CASE outbox # <<>> /\ outbox' = Tail(outbox) /\ Tag(outbox[1]) = tag
  <2>1. Has(outbox, tag)
    BY <1>2, TailFacts DEF Has
  <2>2. IsSeq(Tail(outbox)) /\ Posts(Tail(outbox))
    BY <1>2, TailFacts, PostsTail
  <2>3. \A x : x # tag => KeepsOnly(outbox, Tail(outbox), x)
    BY <1>2, KeptByTail
  <2>4. /\ \A x : Has(Tail(outbox), x) => Has(outbox, x)
        /\ \A x : Has(outbox, x) /\ x # tag => Has(Tail(outbox), x)
    BY <1>2, HasTail
  <2> QED
    BY <1>2, <2>1, <2>2, <2>3, <2>4
<1> QED
  BY <1>1, <1>2 DEF Served

LEMMA ToldFacts ==
  ASSUME NEW a, Told(a), IsSeq(inbox)
  PROVE  /\ IsSeq(inbox') /\ \A x : Has(inbox', x) <=> Has(inbox, x) \/ Has(a, x)
         /\ \A x : ~Has(a, x) => KeepsOnly(inbox, inbox', x)
         /\ inbox # <<>> => inbox' # <<>> /\ inbox'[1] = inbox[1]
<1> HIDE DEF IsSeq, Has, KeepsOnly
<1>1. IsSeq(inbox') /\ Len(inbox') = Len(inbox) + Len(a) /\ Len(a) \in Nat
      /\ Len(inbox) \in Nat /\ \A i \in 1 .. Len(inbox) : inbox'[i] = inbox[i]
  BY CatFacts DEF Told
<1>2. inbox # <<>> => Len(inbox) >= 1
  BY TailFacts
<1>3. Len(<<>>) = 0
  OBVIOUS
<1>4. inbox # <<>> => inbox' # <<>> /\ inbox'[1] = inbox[1]
  BY <1>1, <1>2, <1>3
<1> QED
  BY <1>1, <1>4, HasCat, KeptByCat DEF Told

\* The answers to a registration, to OPER, and to everything else.
Welcomes(a, tag) ==
  \/ srv'.reg = srv.reg /\ ~Has(a, "001") /\ ~Has(a, "381")
  \/ srv.reg = "none" /\ srv'.reg = "user" /\ a = <<[t |-> "001"]>>
  \/ tag = "OPER" /\ srv'.reg = "oper" /\ a = <<[t |-> "381"]>>

LEMMA ToldWelcome ==
  ASSUME NEW a, NEW tag, Welcome, Told(a), Served(tag), IsSeq(inbox), IsSeq(outbox),
         Posts(outbox), Welcomes(a, tag)
  PROVE  Welcome'
<1> DEFINE m == [t |-> "001"]
           n == [t |-> "381"]
<1>1. /\ \A x : Has(<<m>>, x) <=> x = "001"
      /\ \A x : Has(<<n>>, x) <=> x = "381"
      /\ AtMostOne(<<m>>, "001")
  BY HasOne, Single
<1>2. oper' = oper /\ inbox' = inbox \o a /\ IsSeq(a)
  BY DEF Told, Still
<1> HIDE DEF IsSeq, Has, Posts, AtMostOne, Told, Served, Tag
<1>3. ~Has(a, "001") => AtMostOne(inbox', "001")
  BY <1>2, HasCat DEF Welcome
<1>4. CASE srv'.reg = srv.reg /\ ~Has(a, "001") /\ ~Has(a, "381")
  BY <1>2, <1>3, <1>4, ToldFacts, ServedFacts DEF Welcome
<1>5. CASE srv.reg = "none" /\ srv'.reg = "user" /\ a = <<m>>
  <2>1. ~Has(inbox, "001")
    BY <1>5 DEF Welcome
  <2>2. AtMostOne(inbox', "001")
    BY <1>1, <1>2, <1>5, <2>1, HasCat
  <2> HIDE DEF m
  <2> QED
    BY <1>1, <1>2, <1>5, <2>2, ToldFacts, ServedFacts DEF Welcome
<1>6. CASE tag = "OPER" /\ srv'.reg = "oper" /\ a = <<n>>
  <2> HIDE DEF n
  <2>1. ~Has(a, "001") /\ Has(outbox, "OPER")
    BY <1>1, <1>6, ServedFacts
  <2> QED
    BY <1>1, <1>2, <1>3, <1>6, <2>1, ToldFacts, ServedFacts DEF Welcome
<1> QED
  BY <1>4, <1>5, <1>6 DEF Welcomes

LEMMA ToldStep ==
  ASSUME NEW a, NEW tag, IInv, Alive, Told(a), Served(tag), Welcomes(a, tag),
         lines' \subseteq Line, IsFiniteSet(lines'),
         \A l, m \in lines' : l.mask = m.mask => l = m,
         srv' \in [reg : {"none", "user", "oper"}, nick : Nat \cup {-1}, ponged : BOOLEAN,
                   alive : BOOLEAN],
         tag = "TRACE" => Has(a, "262"), tag = "STATS-K" => Has(a, "219-K"),
         tag = "STATS-k" => Has(a, "219-k"),
         \A u : Path(world, inbox, Belief, u) /\ Agrees(u) =>
                  \E w : Path(world, a, u, w) /\ Agrees(w)'
  PROVE  IInv'
<1> HIDE DEF Has, Tag, IsSeq, Posts, Told, Served, Path, KeepsOnly, Agrees
<1>1. IsSeq(inbox) /\ IsSeq(outbox) /\ Posts(outbox) /\ Welcome /\ Waits /\ Synced /\ IsSeq(a)
  BY DEF IInv, Shapes, Told
<1>2. Shapes'
  BY <1>1, ToldFacts, ServedFacts DEF Shapes, IInv, Told, Still, Alive
<1>3. GarbledFirst'
  BY <1>1, ToldFacts DEF GarbledFirst, IInv, Told, Still
<1>4. Welcome'
  BY <1>1, ToldWelcome
<1>5. Waits'
  <2>1. SUFFICES ASSUME srv'.reg # "none", ~Has(inbox', "001") PROVE Waits'
    BY DEF Waits
  <2>2. ~Has(inbox, "001") /\ ~Has(a, "001")
    BY <1>1, <2>1, ToldFacts
  <2> DEFINE m == [t |-> "001"]
  <2>3. Has(<<m>>, "001")
    BY Single
  <2>4. srv.reg # "none"
    <3> HIDE DEF m
    <3>1. CASE a = <<m>>
      BY <2>2, <2>3, <3>1
    <3>2. CASE srv'.reg = srv.reg
      BY <2>1, <3>2
    <3>3. CASE tag = "OPER"
      BY <1>1, <3>3, ServedFacts DEF Welcome
    <3> QED
      BY <3>1, <3>2, <3>3 DEF Welcomes, m
  <2>5. getting' = getting
    BY DEF Told, Still
  <2> QED
    BY <1>1, <2>2, <2>4, <2>5, ToldFacts, ServedFacts, WaitsKept
<1>6. Synced'
  <2>1. PICK u : Path(world, inbox, Belief, u) /\ Agrees(u)
    BY <1>1 DEF Synced
  <2>2. PICK w : Path(world, a, u, w) /\ Agrees(w)'
    BY <2>1
  <2>3. Path(world, inbox \o a, Belief, w)
    BY <1>1, <2>1, <2>2, PathCat
  <2>4. Belief' = Belief /\ world' = world /\ inbox' = inbox \o a
    BY DEF Belief, Told, Still
  <2>5. Path(world', inbox', Belief', w)
    BY <2>3, <2>4
  <2> QED
    BY <2>2, <2>5 DEF Synced
<1> QED
  BY <1>2, <1>3, <1>4, <1>5, <1>6 DEF IInv

LEMMA PathEmpty ==
  ASSUME NEW W, NEW v
  PROVE  Path(W, <<>>, v, v) /\ \A u : Path(W, <<>>, v, u) => u = v
<1> DEFINE f == [i \in {0} |-> v]
<1>1. f[0] = v /\ Len(<<>>) = 0 /\ \A i \in 1 .. 0 : FALSE
  OBVIOUS
<1> HIDE DEF f
<1> QED
  BY <1>1 DEF Path

\* The nickname agrees unless a request is served or turned down.
LEMMA ToldNick ==
  ASSUME NEW a, NEW tag, Told(a), Served(tag), IsSeq(inbox), IsSeq(outbox), Posts(outbox),
         NEW n, NickAgrees(n), tag # "NICK", ~Has(a, "433"),
         srv'.nick = srv.nick, srv'.reg = srv.reg \/ srv.nick # -1
  PROVE  NickAgrees(n)'
<1> HIDE DEF IsSeq, Has, Posts, KeepsOnly, Told, Served
<1> QED
  BY ToldFacts, ServedFacts, NickKept

\* The list agrees if what is told of the lines is what has become of them.
LEMMA ToldList ==
  ASSUME NEW a, NEW tag, Told(a), Served(tag), IsSeq(inbox), IsSeq(outbox), Posts(outbox),
         NEW K, NEW L, ListAgrees(K),
         srv'.reg = "oper" =>
           /\ srv.reg = "oper" /\ L \subseteq lines'
           /\ ~world.trackTemp => \A l \in L : ~l.temp
           /\ world.trackTemp =>
                \/ Has(a, "clearing")
                \/ \A l \in lines' : l.temp =>
                     l \in L \/ (tag # "STATS-k" /\ l \in lines /\ (l \in K => l \in L))
           /\ world.trackPerm =>
                \/ world.trackTemp /\ Has(a, "clearing")
                \/ \A l \in lines' : ~l.temp =>
                     l \in L \/ (tag # "STATS-K" /\ l \in lines /\ (l \in K => l \in L))
  PROVE  ListAgrees(L)'
<1> SUFFICES ASSUME srv'.reg = "oper" PROVE ListAgrees(L)'
  BY DEF ListAgrees
<1> HIDE DEF IsSeq, Has, Posts, KeepsOnly
<1>1. world' = world
  BY DEF Told, Still
<1> HIDE DEF Told, Served
<1>2. ASSUME world.trackTemp, ~Pending("STATS-k")', NEW l \in lines', l.temp PROVE l \in L
  <2>1. /\ tag # "STATS-k" => ~Has(outbox, "STATS-k")
        /\ ~Has(inbox, "381") /\ ~Has(inbox, "clearing") /\ ~Has(a, "clearing")
    BY <1>1, <1>2, ServedFacts, ToldFacts DEF Pending
  <2>2. tag # "STATS-k" => ~Pending("STATS-k")
    BY <2>1 DEF Pending
  <2> QED
    BY <1>1, <1>2, <2>1, <2>2 DEF ListAgrees
<1>3. ASSUME world.trackPerm, ~Pending("STATS-K")', NEW l \in lines', ~l.temp PROVE l \in L
  <2>1. /\ tag # "STATS-K" => ~Has(outbox, "STATS-K") /\ ~Has(inbox, "381")
        /\ world.trackTemp => ~Has(inbox, "clearing") /\ ~Has(a, "clearing")
    BY <1>1, <1>3, ServedFacts, ToldFacts DEF Pending
  <2>2. tag # "STATS-K" => ~Pending("STATS-K")
    BY <2>1 DEF Pending
  <2> QED
    BY <1>1, <1>3, <2>1, <2>2 DEF ListAgrees
<1> QED
  BY <1>1, <1>2, <1>3 DEF ListAgrees

\* Whatever is handled comes first of what was sent.
LEMMA HandlesServes ==
  ASSUME NEW t, t \notin {"STATS", "219"}, IInv, Handles(t)
  PROVE  /\ Alive /\ Still /\ Served(t) /\ outbox[1] = Head(outbox) /\ Has(outbox, t)
         /\ IsSeq(inbox) /\ IsSeq(outbox) /\ Posts(outbox) /\ Welcome
<1>1. IsSeq(inbox) /\ IsSeq(outbox) /\ Posts(outbox) /\ Alive /\ Welcome
  BY DEF IInv, Shapes, Handles, Alive
<1>2. outbox[1] = Head(outbox) /\ Len(outbox) \in Nat /\ Len(outbox) >= 1
  BY <1>1, TailFacts DEF Handles
<1>3. Tag(outbox[1]) = t
  BY <1>2 DEF Tag, Handles
<1>4. Has(outbox, t)
  BY <1>2, <1>3 DEF Has
<1> QED
  BY <1>1, <1>2, <1>3, <1>4 DEF Served, Still, Handles, bot

\* What is asked for when NICK comes first.
LEMMA NickAskedFirst ==
  ASSUME IInv, Handles("NICK")
  PROVE  /\ srv.reg = "none" /\ srv.nick = -1 /\ outbox[1].nick \in Nat
         /\ ~Has(inbox, "433") /\ ~Has(outbox', "NICK")
         /\ \A u : Agrees(u) => u[1] = outbox[1].nick
<1>1. /\ Alive /\ Has(outbox, "NICK") /\ IsSeq(outbox) /\ outbox # <<>> /\ outbox' = Tail(outbox)
      /\ outbox[1].t = "NICK"
  BY HandlesServes DEF Handles
<1>2. Tag(outbox[1]) = "NICK"
  BY <1>1 DEF Tag
<1>3. ASSUME NEW u, Agrees(u)
      PROVE  /\ srv.reg = "none" /\ srv.nick = -1 /\ outbox[1].nick \in Nat
             /\ ~Has(inbox, "433") /\ ~Has(outbox', "NICK") /\ u[1] = outbox[1].nick
  <2> HIDE DEF Has
  <2>1. Asked(u[1]) /\ srv.reg = "none" /\ srv.nick = -1
    BY <1>1, <1>3 DEF Agrees, NickAgrees, TurnedDown, Given
  <2>2. PICK i \in 1 .. Len(outbox) : Only(outbox, i, "NICK") /\ outbox[i].nick = u[1]
    BY <2>1 DEF Asked
  <2>3. i = 1 /\ ~Has(Tail(outbox), "NICK")
    BY <1>1, <1>2, <2>2, OnlyTail
  <2> QED
    BY <1>1, <2>1, <2>2, <2>3 DEF Asked
<1>4. PICK u : Agrees(u)
  BY <1>1 DEF IInv, Synced
<1> QED
  BY <1>3, <1>4

LEMMA HandleNickKeeps == IInv /\ HandleNick => IInv'
<1> SUFFICES ASSUME IInv, HandleNick PROVE IInv'
  OBVIOUS
<1> PICK n : n = Head(outbox).nick
  OBVIOUS
<1>1. Handles("NICK") /\ lines' = lines
  BY DEF HandleNick
<1>2. /\ Alive /\ Still /\ Served("NICK") /\ n = outbox[1].nick
      /\ IsSeq(inbox) /\ IsSeq(outbox) /\ Posts(outbox)
  BY <1>1, HandlesServes
<1>3. /\ srv.reg = "none" /\ srv.nick = -1 /\ n \in Nat /\ ~Has(inbox, "433")
      /\ ~Has(outbox', "NICK") /\ \A u : Agrees(u) => u[1] = n
  BY <1>1, <1>2, NickAskedFirst
<1>4. Shapes
  BY DEF IInv
<1>5. CASE n \in world.taken
  <2> DEFINE m == [t |-> "433", nick |-> n]
             a == <<m>>
  <2>1. /\ Tag(m) = "433" /\ m.t = "433" /\ m.nick = n
        /\ IsSeq(a) /\ \A x : Has(a, x) <=> x = "433"
    BY Single
  <2>2. Told(a) /\ srv' = srv
    BY <1>2, <1>5, <2>1 DEF HandleNick, Told, Answers
  <2> HIDE DEF m
  <2>3. /\ Only(inbox', Len(inbox) + 1, "433") /\ inbox'[Len(inbox) + 1] = m
        /\ Len(inbox) + 1 \in 1 .. Len(inbox')
    BY <1>2, <1>3, <2>1, <2>2, OnlyAdded DEF Told
  <2>4. NickAgrees(OtherNick(n))'
    BY <1>3, <2>1, <2>2, <2>3 DEF NickAgrees, TurnedDown
  <2>5. ASSUME NEW u, Agrees(u) PROVE \E w : Path(world, a, u, w) /\ Agrees(w)'
    <3>1. PICK w : w = Hears(world, m, u)
      OBVIOUS
    <3>2. w[1] = OtherNick(n)
      BY <2>1, <3>1 DEF Hears, NickHeard
    <3>3. Agrees(w)'
      BY <1>3, <2>2, <2>4, <3>2 DEF Agrees, ListAgrees
    <3> QED
      BY <3>1, <3>3, PathOne
  <2>6. Welcomes(a, "NICK")
    BY <2>1, <2>2 DEF Welcomes
  <2> HIDE DEF IInv, IsSeq, Has, Posts, Told, Served, Path, Agrees, Alive, a
  <2> QED
    BY <1>1, <1>2, <1>4, <2>2, <2>5, <2>6, ToldStep DEF Shapes
<1>6. CASE n \notin world.taken
  <2> DEFINE s == [srv EXCEPT !.nick = n]
             m == [t |-> "001"]
  <2>1. Registers(s)
    BY <1>6 DEF HandleNick
  <2>2. s.reg = "none" /\ s.nick = n /\ s.ponged = srv.ponged /\ s.alive = srv.alive
        /\ s \in [reg : {"none", "user", "oper"}, nick : Nat \cup {-1}, ponged : BOOLEAN,
                  alive : BOOLEAN]
    BY <1>3, <1>4 DEF Shapes
  <2> HIDE DEF s
  <2>3. CASE Welcomed(s)
    <3> DEFINE a == <<m>>
    <3>1. /\ Tag(m) = "001" /\ IsSeq(a) /\ \A x : Has(a, x) <=> x = "001"
      BY Single
    <3>2. Told(a) /\ srv' = [s EXCEPT !.reg = "user"]
      BY <1>2, <2>1, <2>3, <3>1 DEF Registers, Told, Answers
    <3>3. srv'.reg = "user" /\ srv'.nick = n
          /\ srv' \in [reg : {"none", "user", "oper"}, nick : Nat \cup {-1}, ponged : BOOLEAN,
                       alive : BOOLEAN]
      BY <2>2, <3>2
    <3>4. ~Has(inbox', "433")
      <4> HIDE DEF Has, IsSeq
      <4> QED
        BY <1>2, <1>3, <3>1, <3>2, ToldFacts
    <3>5. NickAgrees(n)'
      BY <1>3, <3>3, <3>4 DEF NickAgrees, Given
    <3>6. ASSUME NEW u, Agrees(u) PROVE \E w : Path(world, a, u, w) /\ Agrees(w)'
      <4>1. PICK w : w = Hears(world, m, u)
        OBVIOUS
      <4>2. w[1] = n
        BY <1>3, <3>6, <4>1 DEF Hears, NickHeard
      <4>3. Agrees(w)'
        BY <3>3, <3>5, <4>2 DEF Agrees, ListAgrees
      <4> QED
        BY <4>1, <4>3, PathOne
    <3>7. Welcomes(a, "NICK")
      BY <1>3, <3>3 DEF Welcomes
    <3> HIDE DEF IInv, IsSeq, Has, Posts, Told, Served, Path, Agrees, Alive, a
    <3> QED
      BY <1>1, <1>2, <1>4, <3>2, <3>3, <3>6, <3>7, ToldStep DEF Shapes
  <2>4. CASE ~Welcomed(s)
    <3> DEFINE a == <<>>
    <3>1. IsSeq(a) /\ \A x : ~Has(a, x)
      BY EmptyFacts
    <3>2. Told(a) /\ srv' = s
      BY <1>2, <2>1, <2>4, <3>1, CatEmpty DEF Registers, Told
    <3>3. NickAgrees(n)'
      BY <1>2, <1>3, <2>1, <2>2, <2>4, <3>2 DEF NickAgrees, Given, Registers
    <3>4. ASSUME NEW u, Agrees(u) PROVE \E w : Path(world, a, u, w) /\ Agrees(w)'
      <4>1. Agrees(u)'
        BY <1>3, <2>2, <3>2, <3>3, <3>4 DEF Agrees, ListAgrees
      <4> QED
        BY <4>1, PathEmpty
    <3>5. Welcomes(a, "NICK")
      BY <1>3, <2>2, <3>1, <3>2 DEF Welcomes
    <3> HIDE DEF IInv, IsSeq, Has, Posts, Told, Served, Path, Agrees, Alive, a
    <3> QED
      BY <1>1, <1>2, <1>4, <2>2, <3>2, <3>4, <3>5, ToldStep DEF Shapes
  <2> QED
    BY <2>3, <2>4
<1> QED
  BY <1>5, <1>6

\* The first PONG registers if a nickname has been accepted.
LEMMA HandlePongKeeps == IInv /\ HandlePong => IInv'
<1> SUFFICES ASSUME IInv, HandlePong PROVE IInv'
  OBVIOUS
<1>1. Handles("PONG") /\ lines' = lines
  BY DEF HandlePong
<1>2. /\ Alive /\ Still /\ Served("PONG") /\ IsSeq(inbox) /\ IsSeq(outbox) /\ Posts(outbox)
  BY <1>1, HandlesServes
<1>3. Shapes
  BY DEF IInv
<1> DEFINE s == [srv EXCEPT !.ponged = TRUE]
           m == [t |-> "001"]
<1>4. CASE srv.reg = "none" /\ Welcomed(s)
  <2>1. /\ s.reg = "none" /\ s.nick = srv.nick /\ srv.nick # -1
        /\ s \in [reg : {"none", "user", "oper"}, nick : Nat \cup {-1}, ponged : BOOLEAN,
                  alive : BOOLEAN]
    BY <1>3, <1>4 DEF Shapes, Welcomed
  <2> DEFINE a == <<m>>
  <2>2. /\ Tag(m) = "001" /\ IsSeq(a) /\ \A x : Has(a, x) <=> x = "001"
    BY Single
  <2>3. Told(a) /\ srv' = [s EXCEPT !.reg = "user"]
    BY <1>2, <1>4, <2>2 DEF HandlePong, Registers, Told, Answers
  <2> HIDE DEF s
  <2>4. /\ srv'.reg = "user" /\ srv'.nick = srv.nick
        /\ srv' \in [reg : {"none", "user", "oper"}, nick : Nat \cup {-1}, ponged : BOOLEAN,
                     alive : BOOLEAN]
    BY <2>1, <2>3
  <2>5. Welcomes(a, "PONG")
    BY <1>4, <2>4 DEF Welcomes
  <2>6. ASSUME NEW u, Agrees(u) PROVE \E w : Path(world, a, u, w) /\ Agrees(w)'
    <3>1. PICK w : w = Hears(world, m, u)
      OBVIOUS
    <3>2. w[1] = u[1]
      BY <3>1 DEF Hears, NickHeard
    <3>3. NickAgrees(u[1])'
      <4> HIDE DEF IsSeq, Has, Posts, Told, Served, a
      <4> QED
        BY <1>2, <2>1, <2>2, <2>3, <2>4, <2>6, ToldNick DEF Agrees
    <3>4. Agrees(w)'
      BY <2>4, <3>2, <3>3 DEF Agrees, ListAgrees
    <3> QED
      BY <3>1, <3>4, PathOne
  <2> HIDE DEF IInv, IsSeq, Has, Posts, Told, Served, Path, Agrees, Alive, a
  <2> QED
    BY <1>1, <1>2, <1>3, <2>3, <2>4, <2>5, <2>6, ToldStep DEF Shapes
<1>5. CASE ~(srv.reg = "none" /\ Welcomed(s))
  <2>1. inbox' = inbox /\ srv'.reg = srv.reg /\ srv'.nick = srv.nick
        /\ srv' \in [reg : {"none", "user", "oper"}, nick : Nat \cup {-1}, ponged : BOOLEAN,
                     alive : BOOLEAN]
    BY <1>3, <1>5 DEF HandlePong, Registers, Shapes
  <2>2. IsSeq(<<>>) /\ \A x : ~Has(<<>>, x)
    BY EmptyFacts
  <2>3. Told(<<>>)
    BY <1>2, <2>1, <2>2, CatEmpty DEF Told
  <2>4. Welcomes(<<>>, "PONG")
    BY <2>1, <2>2 DEF Welcomes
  <2>5. ASSUME NEW u, Agrees(u) PROVE Path(world, <<>>, u, u) /\ Agrees(u)'
    <3> HIDE DEF IsSeq, Has, Posts, Told, Served
    <3>1. NickAgrees(u[1])'
      BY <1>2, <2>1, <2>2, <2>3, <2>5, ToldNick DEF Agrees
    <3>2. ListAgrees(u[2])'
      <4>1. ListAgrees(u[2])
        BY <2>5 DEF Agrees
      <4>2. srv'.reg = "oper" => srv.reg = "oper" /\ u[2] \subseteq lines'
                                 /\ (~world.trackTemp => \A l \in u[2] : ~l.temp)
        BY <1>1, <2>1, <4>1 DEF ListAgrees
      <4> QED
        BY <1>1, <1>2, <2>3, <4>1, <4>2, ToldList
    <3> QED
      BY <3>1, <3>2, PathEmpty DEF Agrees
  <2> HIDE DEF IInv, IsSeq, Has, Posts, Told, Served, Path, Agrees, Alive
  <2> QED
    BY <1>1, <1>2, <1>3, <2>1, <2>3, <2>4, <2>5, ToldStep DEF Shapes
<1> QED
  BY <1>4, <1>5

\* The list is asked for once the bot has read that it is an operator.
LEMMA HandleOperKeeps == IInv /\ HandleOper => IInv'
<1> SUFFICES ASSUME IInv, HandleOper PROVE IInv'
  OBVIOUS
<1>1. Handles("OPER") /\ lines' = lines
  BY DEF HandleOper
<1>2. /\ Alive /\ Still /\ Served("OPER") /\ IsSeq(inbox) /\ IsSeq(outbox) /\ Posts(outbox)
      /\ Has(outbox, "OPER") /\ Welcome
  BY <1>1, HandlesServes
<1>3. Shapes /\ srv.reg # "none"
  BY <1>2 DEF IInv, Welcome
<1> DEFINE m == [t |-> "381"]
           a == <<m>>
<1>4. /\ Tag(m) = "381" /\ IsSeq(a) /\ \A x : Has(a, x) <=> x = "381"
  BY Single
<1>5. Told(a)
  BY <1>2, <1>4 DEF HandleOper, Told, Answers
<1>6. /\ srv'.reg = "oper" /\ srv'.nick = srv.nick
      /\ srv' \in [reg : {"none", "user", "oper"}, nick : Nat \cup {-1}, ponged : BOOLEAN,
                   alive : BOOLEAN]
  BY <1>3 DEF HandleOper, Shapes
<1>7. Welcomes(a, "OPER")
  BY <1>6 DEF Welcomes
<1>8. ASSUME NEW u, Agrees(u) PROVE \E w : Path(world, a, u, w) /\ Agrees(w)'
  <2>1. PICK w : w = Hears(world, m, u)
    OBVIOUS
  <2>2. w[1] = u[1] /\ w[2] = {}
    BY <2>1 DEF Hears, NickHeard, ListHeard
  <2> HIDE DEF a
  <2>3. NickAgrees(u[1])'
    <3> HIDE DEF IsSeq, Has, Posts, Told, Served
    <3>1. NickAgrees(u[1]) /\ srv.nick # -1
      BY <1>3, <1>8 DEF Agrees, NickAgrees
    <3> QED
      BY <1>2, <1>4, <1>5, <1>6, <3>1, ToldNick
  <2>4. Has(inbox', "381")
    <3> HIDE DEF IsSeq, Has, Posts, Told, Served
    <3> QED
      BY <1>2, <1>4, <1>5, ToldFacts
  <2>5. Agrees(w)'
    BY <2>2, <2>3, <2>4 DEF Agrees, ListAgrees, Pending
  <2> QED
    BY <2>1, <2>5, PathOne DEF a
<1> HIDE DEF IInv, IsSeq, Has, Posts, Told, Served, Path, Agrees, Alive, a
<1> QED
  BY <1>1, <1>2, <1>3, <1>5, <1>6, <1>7, <1>8, ToldStep DEF Shapes

LEMMA HandleTraceKeeps == IInv /\ HandleTrace => IInv'
<1> SUFFICES ASSUME IInv, HandleTrace PROVE IInv'
  OBVIOUS
<1>1. Handles("TRACE") /\ lines' = lines /\ srv' = srv
  BY DEF HandleTrace
<1>2. /\ Alive /\ Still /\ Served("TRACE") /\ IsSeq(inbox) /\ IsSeq(outbox) /\ Posts(outbox)
  BY <1>1, HandlesServes
<1>3. Shapes
  BY DEF IInv
<1> DEFINE m == [t |-> "262"]
           a == <<m>>
<1>4. /\ Tag(m) = "262" /\ IsSeq(a) /\ \A x : Has(a, x) <=> x = "262"
  BY Single
<1>5. Told(a)
  BY <1>2, <1>4 DEF HandleTrace, Told, Answers
<1>6. Welcomes(a, "TRACE")
  BY <1>1, <1>4 DEF Welcomes
<1>7. ASSUME NEW u, Agrees(u) PROVE \E w : Path(world, a, u, w) /\ Agrees(w)'
  <2>1. PICK w : w = Hears(world, m, u)
    OBVIOUS
  <2>2. w[1] = u[1] /\ w[2] = u[2]
    BY <2>1 DEF Hears, NickHeard, ListHeard
  <2> HIDE DEF a
  <2>3. NickAgrees(u[1])'
    <3> HIDE DEF IsSeq, Has, Posts, Told, Served
    <3> QED
      BY <1>1, <1>2, <1>4, <1>5, <1>7, ToldNick DEF Agrees
  <2>4. ListAgrees(u[2])'
    <3> HIDE DEF IsSeq, Has, Posts, Told, Served
    <3>1. ListAgrees(u[2])
      BY <1>7 DEF Agrees
    <3>2. srv'.reg = "oper" => srv.reg = "oper" /\ u[2] \subseteq lines'
                               /\ (~world.trackTemp => \A l \in u[2] : ~l.temp)
      BY <1>1, <3>1 DEF ListAgrees
    <3> QED
      BY <1>1, <1>2, <1>5, <3>1, <3>2, ToldList
  <2>5. Agrees(w)'
    BY <2>2, <2>3, <2>4 DEF Agrees
  <2> QED
    BY <2>1, <2>5, PathOne DEF a
<1> HIDE DEF IInv, IsSeq, Has, Posts, Told, Served, Path, Agrees, Alive
<1>8. Has(a, "262")
  BY <1>4
<1> HIDE DEF a
<1> QED
  BY <1>1, <1>2, <1>3, <1>5, <1>6, <1>7, <1>8, ToldStep DEF Shapes

\* A belief is a nickname and a list.
LEMMA PathPair ==
  ASSUME NEW W, NEW q, IsSeq(q), NEW n, NEW K, NEW u, Path(W, q, <<n, K>>, u)
  PROVE  u = <<u[1], u[2]>>
<1>1. PICK f : /\ f[0] = <<n, K>> /\ f[Len(q)] = u
               /\ \A i \in 1 .. Len(q) : f[i] = Hears(W, q[i], f[i - 1])
  BY DEF Path
<1>2. Len(q) \in Nat
  BY DEF IsSeq
<1>3. CASE Len(q) = 0
  BY <1>1, <1>3
<1>4. CASE Len(q) # 0
  <2>1. Len(q) \in 1 .. Len(q)
    BY <1>2, <1>4
  <2>2. u = Hears(W, q[Len(q)], f[Len(q) - 1])
    BY <1>1, <2>1
  <2> QED
    BY <2>2 DEF Hears
<1> QED
  BY <1>3, <1>4

\* Reading the lines of a kind adds them, if that kind is tracked.
LEMMA PathListed ==
  ASSUME NEW W, NEW listed, IsSeq(listed), NEW temp \in BOOLEAN, NEW v, NEW K,
         \A k \in 1 .. Len(listed) : listed[k].temp = temp
  PROVE  Path(W, [k \in 1 .. Len(listed) |-> [t |-> "216", line |-> listed[k]]], <<v, K>>,
              <<v, IF IF temp THEN W.trackTemp ELSE W.trackPerm
                   THEN K \cup {listed[k] : k \in 1 .. Len(listed)} ELSE K>>)
<1> DEFINE n == Len(listed)
           r == [k \in 1 .. n |-> [t |-> "216", line |-> listed[k]]]
           tracked == IF temp THEN W.trackTemp ELSE W.trackPerm
           B(i) == IF tracked THEN K \cup {listed[k] : k \in 1 .. i} ELSE K
           f == [i \in 0 .. n |-> <<v, B(i)>>]
<1>1. n \in Nat
  BY DEF IsSeq
<1>2. Len(r) = n
  <2>1. r \in Seq({r[k] : k \in 1 .. n})
    BY <1>1
  <2> QED
    BY <1>1
<1>3. B(0) = K
  OBVIOUS
<1>4. ASSUME NEW i \in 1 .. n PROVE f[i] = Hears(W, r[i], f[i - 1])
  <2>1. i \in 0 .. n /\ i - 1 \in 0 .. n /\ 1 .. i = 1 .. (i - 1) \cup {i}
    BY <1>1
  <2>2. r[i].t = "216" /\ r[i].line = listed[i] /\ listed[i].temp = temp
    OBVIOUS
  <2>3. f[i] = <<v, B(i)>> /\ f[i - 1] = <<v, B(i - 1)>>
    BY <2>1
  <2>4. NickHeard(r[i], v) = v
    BY <2>2 DEF NickHeard
  <2>5. ListHeard(W, r[i], B(i - 1)) = B(i)
    <3>1. CASE tracked
      <4>1. B(i) = K \cup {listed[k] : k \in 1 .. i}
            /\ B(i - 1) = K \cup {listed[k] : k \in 1 .. (i - 1)}
        BY <3>1
      <4>2. {listed[k] : k \in 1 .. i} = {listed[k] : k \in 1 .. (i - 1)} \cup {listed[i]}
        BY <2>1
      <4>3. ListHeard(W, r[i], B(i - 1)) = B(i - 1) \cup {listed[i]}
        <5> HIDE DEF B, r
        <5> QED
          BY <2>2, <3>1 DEF ListHeard
      <4> HIDE DEF B
      <4> QED
        BY <4>1, <4>2, <4>3
    <3>2. CASE ~tracked
      <4>1. B(i) = K /\ B(i - 1) = K
        BY <3>2
      <4> HIDE DEF B, r
      <4> QED
        BY <2>2, <3>2, <4>1 DEF ListHeard
    <3> QED
      BY <3>1, <3>2
  <2> HIDE DEF f, B, r
  <2>6. Hears(W, r[i], f[i - 1]) = <<NickHeard(r[i], v), ListHeard(W, r[i], B(i - 1))>>
    BY <2>3 DEF Hears
  <2> QED
    BY <2>3, <2>4, <2>5, <2>6
<1>5. f[0] = <<v, K>> /\ f[n] = <<v, B(n)>>
  <2>1. 0 \in 0 .. n /\ n \in 0 .. n
    BY <1>1
  <2> HIDE DEF B
  <2> QED
    BY <1>3, <2>1
<1> HIDE DEF f, r
<1>6. Path(W, r, <<v, K>>, <<v, B(n)>>)
  BY <1>2, <1>4, <1>5 DEF Path
<1> QED
  BY <1>6 DEF r

\* The answer to STATS: the lines of a kind, and the end.
LEMMA HandleStatsKeeps == IInv /\ HandleStats => IInv'
<1> SUFFICES ASSUME IInv, HandleStats PROVE IInv'
  OBVIOUS
<1>1. Handles("STATS") /\ lines' = lines /\ srv' = srv
  BY DEF HandleStats
<1>2. /\ Alive /\ Still /\ IsSeq(inbox) /\ IsSeq(outbox) /\ Posts(outbox) /\ outbox # <<>>
      /\ outbox' = Tail(outbox) /\ Shapes
  BY <1>1 DEF IInv, Shapes, Handles, Alive, Still, bot
<1>3. /\ outbox[1] = Head(outbox) /\ outbox[1].t = "STATS" /\ outbox[1].temp \in BOOLEAN
  BY <1>1, <1>2, TailFacts DEF Handles, Posts
<1> PICK temp \in BOOLEAN : temp = Head(outbox).temp
  BY <1>3
<1>tag. PICK tag : tag = IF temp THEN "STATS-k" ELSE "STATS-K"
  OBVIOUS
<1>4. Served(tag) /\ tag = IF temp THEN "STATS-k" ELSE "STATS-K"
  BY <1>2, <1>3, <1>tag DEF Served, Tag
<1>S. PICK S : S = {l \in lines : l.temp = temp}
  OBVIOUS
<1>listed. PICK listed : listed = SetToSeq(S)
  OBVIOUS
<1> DEFINE n == Len(listed)
           r == [k \in 1 .. n |-> [t |-> "216", line |-> listed[k]]]
           m == [t |-> "219", temp |-> temp]
           a == r \o <<m>>
<1>5. /\ IsSeq(listed) /\ n \in Nat /\ DOMAIN listed = 1 .. n
      /\ {listed[k] : k \in 1 .. n} = S
  <2>1. IsFiniteSet(S)
    BY <1>2, <1>S, FS_Subset DEF Shapes
  <2> HIDE DEF IsSeq
  <2>2. /\ IsSeq(SetToSeq(S)) /\ Len(SetToSeq(S)) \in Nat
        /\ DOMAIN SetToSeq(S) = 1 .. Len(SetToSeq(S))
        /\ {SetToSeq(S)[i] : i \in 1 .. Len(SetToSeq(S))} = S
    BY <2>1, Ordered
  <2> QED
    BY <1>listed, <2>2
<1>6. inbox' = inbox \o a
  BY <1>5, <1>S, <1>listed DEF HandleStats, Answers
<1>7. /\ IsSeq(r) /\ Len(r) = n /\ \A x : Has(r, x) => x = "216"
  <2>1. \A k \in 1 .. n : r[k] \in [t : {"216"}, line : S]
    BY <1>5
  <2>2. r \in Seq([t : {"216"}, line : S]) /\ Len(r) = n
    BY <1>5, <2>1
  <2>3. \A k \in 1 .. n : Tag(r[k]) = "216"
    BY <2>1 DEF Tag
  <2> QED
    BY <2>2, <2>3 DEF IsSeq, Has
<1>8. /\ IsSeq(<<m>>) /\ m.t = "219"
      /\ \A x : Has(<<m>>, x) <=> x = IF temp THEN "219-k" ELSE "219-K"
  <2>1. Tag(m) = IF temp THEN "219-k" ELSE "219-K"
    BY DEF Tag
  <2> QED
    BY <2>1, OneFacts, HasOne
<1>9. /\ Told(a)
      /\ \A x : Has(a, x) => x \in {"216", "219-k", "219-K"}
      /\ tag = "STATS-K" => Has(a, "219-K")
      /\ tag = "STATS-k" => Has(a, "219-k")
  <2> HIDE DEF IsSeq, Has, r, m
  <2>1. IsSeq(a) /\ \A x : Has(a, x) <=> Has(r, x) \/ Has(<<m>>, x)
    BY <1>7, <1>8, CatFacts, HasCat
  <2> HIDE DEF a
  <2> QED
    BY <1>2, <1>4, <1>6, <1>7, <1>8, <2>1 DEF Told
<1>10. Welcomes(a, tag)
  BY <1>1, <1>9, SMTT(30) DEF Welcomes
<1> DEFINE tracked == IF temp THEN world.trackTemp ELSE world.trackPerm
<1>11. ASSUME NEW u, Path(world, inbox, Belief, u), Agrees(u)
       PROVE  \E w : Path(world, a, u, w) /\ Agrees(w)'
  <2>1. u = <<u[1], u[2]>>
    <3> HIDE DEF IsSeq, Path
    <3> QED
      BY <1>2, <1>11, PathPair DEF Belief
  <2>w. PICK w : w = <<u[1], IF tracked THEN u[2] \cup S ELSE u[2]>>
    OBVIOUS
  <2>2. \A k \in 1 .. n : listed[k].temp = temp
    BY <1>5, <1>S
  <2>3. Path(world, r, u, w)
    <3>1. Path(world, r, <<u[1], u[2]>>, w)
      <4>1. w = <<u[1], IF tracked THEN u[2] \cup {listed[k] : k \in 1 .. n} ELSE u[2]>>
        BY <1>5, <2>w
      <4> HIDE DEF IsSeq, Path
      <4> QED
        BY <1>5, <2>2, <4>1, PathListed
    <3> QED
      BY <2>1, <3>1
  <2>4. Hears(world, m, w) = w
    BY <1>8, <2>w DEF Hears, NickHeard, ListHeard
  <2>5. Path(world, a, u, w)
    <3> HIDE DEF IsSeq, Path, r, m
    <3> QED
      BY <1>7, <2>3, <2>4, PathAdded
  <2> HIDE DEF a, tracked
  <2>6. NickAgrees(u[1])'
    <3> HIDE DEF IsSeq, Has, Posts, Told, Served
    <3> QED
      BY <1>1, <1>2, <1>4, <1>9, <1>11, ToldNick DEF Agrees
  <2>7. ListAgrees(u[2])
    BY <1>11 DEF Agrees
  <2>8. srv'.reg = "oper" =>
           /\ srv.reg = "oper" /\ w[2] \subseteq lines'
           /\ ~world.trackTemp => \A l \in w[2] : ~l.temp
           /\ world.trackTemp =>
                \A l \in lines' : l.temp =>
                  l \in w[2] \/ (tag # "STATS-k" /\ l \in lines /\ (l \in u[2] => l \in w[2]))
           /\ world.trackPerm =>
                \A l \in lines' : ~l.temp =>
                  l \in w[2] \/ (tag # "STATS-K" /\ l \in lines /\ (l \in u[2] => l \in w[2]))
    <3> SUFFICES ASSUME srv.reg = "oper"
                 PROVE
           /\ w[2] \subseteq lines
           /\ ~world.trackTemp => \A l \in w[2] : ~l.temp
           /\ world.trackTemp =>
                \A l \in lines : l.temp =>
                  l \in w[2] \/ (tag # "STATS-k" /\ (l \in u[2] => l \in w[2]))
           /\ world.trackPerm =>
                \A l \in lines : ~l.temp =>
                  l \in w[2] \/ (tag # "STATS-K" /\ (l \in u[2] => l \in w[2]))
      BY <1>1
    <3>0. /\ \A l \in lines : l.temp \in BOOLEAN
          /\ S = {l \in lines : l.temp = temp} /\ tag = IF temp THEN "STATS-k" ELSE "STATS-K"
          /\ w[2] = IF tracked THEN u[2] \cup S ELSE u[2]
      BY <1>2, <1>4, <1>S, <2>w DEF Shapes, Line
    <3>1. u[2] \subseteq lines /\ (~world.trackTemp => \A l \in u[2] : ~l.temp)
      BY <2>7 DEF ListAgrees
    <3>2. CASE tracked
      <4>1. w[2] = u[2] \cup S
        BY <3>0, <3>2
      <4>2. CASE temp
        BY <3>0, <3>1, <3>2, <4>1, <4>2 DEF tracked
      <4>3. CASE ~temp
        <5>1. world.trackPerm /\ \A l \in lines : ~l.temp => l \in S
          BY <3>0, <3>2, <4>3 DEF tracked
        <5>2. \A l \in S : l \in lines /\ ~l.temp
          BY <3>0, <4>3
        <5>3. tag # "STATS-k"
          BY <3>0, <4>3
        <5> QED
          BY <3>1, <4>1, <5>1, <5>2, <5>3
      <4> QED
        BY <4>2, <4>3
    <3>3. CASE ~tracked
      <4>1. w[2] = u[2]
        BY <3>0, <3>3
      <4>2. CASE temp
        BY <3>0, <3>1, <3>3, <4>1, <4>2 DEF tracked
      <4>3. CASE ~temp
        <5>1. tag # "STATS-k" /\ ~world.trackPerm
          BY <3>0, <3>3, <4>3 DEF tracked
        <5> QED
          BY <3>1, <4>1, <5>1
      <4> QED
        BY <4>2, <4>3
    <3> QED
      BY <3>2, <3>3
  <2>9. ListAgrees(w[2])'
    <3> HIDE DEF IsSeq, Has, Posts, Told, Served
    <3> QED
      BY <1>2, <1>4, <1>9, <2>7, <2>8, ToldList
  <2>10. w[1] = u[1]
    BY <2>w
  <2> QED
    BY <2>5, <2>6, <2>9, <2>10 DEF Agrees
<1> HIDE DEF IInv, IsSeq, Has, Posts, Told, Served, Path, Agrees, Alive, a
<1> QED
  BY <1>1, <1>2, <1>4, <1>9, <1>10, <1>11, ToldStep DEF Shapes

-----------------------------------------------------------------------------
(* The lines change                                                        *)

\* A notice says what has become of the lines, to a list that agrees.
Fits(m) ==
  \A K \in SUBSET lines : \A L :
    L = ListHeard(world, m, K) /\ (~world.trackTemp => \A l \in K : ~l.temp) =>
      /\ L \subseteq lines' /\ (~world.trackTemp => \A l \in L : ~l.temp)
      /\ \/ m.t = "clearing" /\ world.trackTemp
         \/ \A l \in lines' : (l.temp => world.trackTemp) =>
              l \in L \/ (l \in lines /\ (l \in K => l \in L))

\* An operator is told; nobody else is, and the list of nobody else has to agree.
LEMMA LinesStep ==
  ASSUME NEW m, NEW tag, IInv, Alive, Still, Served(tag), srv' = srv, Tells(m), Fits(m),
         tag \in {"nothing", "KLINE", "UNKLINE"},
         m.t \in {"added", "removed", "expired", "clearing"},
         lines' \subseteq Line, IsFiniteSet(lines'),
         \A l, k \in lines' : l.mask = k.mask => l = k
  PROVE  IInv'
<1>1. Shapes /\ IsSeq(inbox) /\ IsSeq(outbox) /\ Posts(outbox)
  BY DEF IInv, Shapes
<1>2. IsSeq(<<>>) /\ \A x : ~Has(<<>>, x)
  BY EmptyFacts
<1>3. IsSeq(<<m>>) /\ \A x : Has(<<m>>, x) <=> x = m.t
  BY Single
<1> PICK a : a = IF srv.reg = "oper" THEN <<m>> ELSE <<>>
  OBVIOUS
<1>4. Told(a) /\ \A x : Has(a, x) <=> srv.reg = "oper" /\ x = m.t
  <2>1. CASE srv.reg = "oper"
    <3>1. a = <<m>>
      BY <2>1
    <3>2. Told(<<m>>)
      BY <1>3, <2>1 DEF Told, Tells, Answers
    <3> QED
      BY <1>3, <2>1, <3>1, <3>2
  <2>2. CASE srv.reg # "oper"
    <3>1. a = <<>>
      BY <2>2
    <3>2. Told(<<>>)
      BY <1>1, <1>2, <2>2, CatEmpty DEF Told, Tells
    <3> QED
      BY <1>2, <2>2, <3>1, <3>2
  <2> QED
    BY <2>1, <2>2
<1>5. Welcomes(a, tag)
  BY <1>4 DEF Welcomes
<1>6. ASSUME NEW u, Agrees(u) PROVE \E w : Path(world, a, u, w) /\ Agrees(w)'
  <2>1. PICK L : L = ListHeard(world, m, u[2])
    OBVIOUS
  <2>2. PICK w : w = IF srv.reg = "oper" THEN Hears(world, m, u) ELSE u
    OBVIOUS
  <2>3. w[1] = u[1] /\ (srv.reg = "oper" => w[2] = L)
    BY <2>1, <2>2 DEF Hears, NickHeard
  <2>4. Path(world, a, u, w)
    <3>1. CASE srv.reg = "oper"
      BY <2>2, <3>1, PathOne
    <3>2. CASE srv.reg # "oper"
      BY <2>2, <3>2, PathEmpty
    <3> QED
      BY <3>1, <3>2
  <2>5. NickAgrees(u[1])'
    <3> HIDE DEF IsSeq, Has, Posts, Told, Served
    <3> QED
      BY <1>1, <1>4, <1>6, ToldNick DEF Agrees
  <2>6. ListAgrees(u[2])
    BY <1>6 DEF Agrees
  <2>8. srv.reg = "oper" =>
           /\ L \subseteq lines' /\ (~world.trackTemp => \A l \in L : ~l.temp)
           /\ \/ m.t = "clearing" /\ world.trackTemp
              \/ \A l \in lines' : (l.temp => world.trackTemp) =>
                   l \in L \/ (l \in lines /\ (l \in u[2] => l \in L))
    BY <2>1, <2>6 DEF ListAgrees, Fits
  <2>9. ListAgrees(w[2])'
    <3>1. CASE srv.reg = "oper"
      <4> HIDE DEF IsSeq, Has, Posts, Told, Served
      <4>1. /\ world.trackTemp =>
                \/ Has(a, "clearing")
                \/ \A l \in lines' : l.temp =>
                     l \in L \/ (tag # "STATS-k" /\ l \in lines /\ (l \in u[2] => l \in L))
            /\ world.trackPerm =>
                \/ world.trackTemp /\ Has(a, "clearing")
                \/ \A l \in lines' : ~l.temp =>
                     l \in L \/ (tag # "STATS-K" /\ l \in lines /\ (l \in u[2] => l \in L))
        BY <1>4, <2>8, <3>1
      <4>2. ListAgrees(L)'
        BY <1>1, <1>4, <2>6, <2>8, <3>1, <4>1, ToldList
      <4> QED
        BY <2>3, <3>1, <4>2
    <3>2. CASE srv.reg # "oper"
      BY <3>2 DEF ListAgrees
    <3> QED
      BY <3>1, <3>2
  <2> QED
    BY <2>3, <2>4, <2>5, <2>9 DEF Agrees
<1> HIDE DEF IInv, IsSeq, Has, Posts, Told, Served, Path, Agrees, Alive
<1> QED
  BY <1>1, <1>4, <1>5, <1>6, ToldStep DEF Shapes

\* A request is served without an answer.
LEMMA NothingTold ==
  ASSUME NEW tag, IInv, Alive, Still, Served(tag), srv' = srv, lines' = lines, inbox' = inbox,
         tag \in {"nothing", "KLINE", "UNKLINE"}
  PROVE  IInv'
<1>1. Shapes /\ IsSeq(inbox) /\ IsSeq(outbox) /\ Posts(outbox)
  BY DEF IInv, Shapes
<1>2. IsSeq(<<>>) /\ \A x : ~Has(<<>>, x)
  BY EmptyFacts
<1>3. Told(<<>>)
  BY <1>1, <1>2, CatEmpty DEF Told
<1>4. Welcomes(<<>>, tag)
  BY <1>2 DEF Welcomes
<1>5. ASSUME NEW u, Agrees(u) PROVE Path(world, <<>>, u, u) /\ Agrees(u)'
  <2> HIDE DEF IsSeq, Has, Posts, Told, Served
  <2>1. NickAgrees(u[1])'
    BY <1>1, <1>2, <1>3, <1>5, ToldNick DEF Agrees
  <2>2. ListAgrees(u[2])
    BY <1>5 DEF Agrees
  <2>3. srv'.reg = "oper" => srv.reg = "oper" /\ u[2] \subseteq lines'
                             /\ (~world.trackTemp => \A l \in u[2] : ~l.temp)
    BY <2>2 DEF ListAgrees
  <2>4. ListAgrees(u[2])'
    BY <1>1, <1>3, <2>2, <2>3, ToldList
  <2> QED
    BY <2>1, <2>4, PathEmpty DEF Agrees
<1> HIDE DEF IInv, IsSeq, Has, Posts, Told, Served, Path, Agrees, Alive
<1> QED
  BY <1>1, <1>3, <1>4, <1>5, ToldStep DEF Shapes

\* A new line, for a mask that had none.
LEMMA AddedFits ==
  ASSUME NEW line, line \in Line, lines' = lines \cup {line}, lines \subseteq Line
  PROVE  Fits([t |-> "added", line |-> line])
<1> DEFINE m == [t |-> "added", line |-> line]
<1> SUFFICES ASSUME NEW K \in SUBSET lines, NEW L, L = ListHeard(world, m, K),
                    ~world.trackTemp => \A l \in K : ~l.temp
             PROVE  /\ L \subseteq lines' /\ (~world.trackTemp => \A l \in L : ~l.temp)
                    /\ \/ m.t = "clearing" /\ world.trackTemp
                       \/ \A l \in lines' : (l.temp => world.trackTemp) =>
                            l \in L \/ (l \in lines /\ (l \in K => l \in L))
  BY DEF Fits
<1>1. L = IF ~line.temp \/ world.trackTemp THEN K \cup {line} ELSE K
  BY DEF ListHeard
<1>2. m.t = "added"
  OBVIOUS
<1> HIDE DEF m
<1>3. CASE ~line.temp \/ world.trackTemp
  BY <1>1, <1>2, <1>3
<1>4. CASE ~(~line.temp \/ world.trackTemp)
  BY <1>1, <1>2, <1>4
<1> QED
  BY <1>3, <1>4

\* A line that goes, by command or in its time.
LEMMA RemovedFits ==
  ASSUME NEW line, line \in lines, lines' = lines \ {line},
         \A l, k \in lines : l.mask = k.mask => l = k
  PROVE  /\ Fits([t |-> "removed", line |-> line]) /\ Fits([t |-> "expired", line |-> line])
<1> DEFINE m == [t |-> "removed", line |-> line]
           e == [t |-> "expired", line |-> line]
<1>1. \A K : ListHeard(world, m, K)
               = IF ~line.temp \/ world.trackTemp THEN Minus(K, line.mask) ELSE K
  BY DEF ListHeard
<1>2. \A K : ListHeard(world, e, K) = Minus(K, line.mask)
  BY DEF ListHeard
<1>3. \A K \in SUBSET lines : Minus(K, line.mask) = K \ {line}
  BY DEF Minus
<1>4. m.t = "removed" /\ e.t = "expired"
  OBVIOUS
<1> HIDE DEF m, e
<1>5. Fits(e)
  BY <1>2, <1>3, <1>4 DEF Fits
<1>6. Fits(m)
  <2>1. CASE ~line.temp \/ world.trackTemp
    BY <1>1, <1>3, <1>4, <2>1 DEF Fits
  <2>2. CASE ~(~line.temp \/ world.trackTemp)
    BY <1>1, <1>4, <2>2 DEF Fits
  <2> QED
    BY <2>1, <2>2
<1> QED
  BY <1>5, <1>6 DEF m, e

LEMMA ClearingFits ==
  ASSUME lines' = {l \in lines : ~l.temp}
  PROVE  Fits([t |-> "clearing"])
<1> DEFINE m == [t |-> "clearing"]
<1> SUFFICES ASSUME NEW K \in SUBSET lines, NEW L, L = ListHeard(world, m, K),
                    ~world.trackTemp => \A l \in K : ~l.temp
             PROVE  /\ L \subseteq lines' /\ (~world.trackTemp => \A l \in L : ~l.temp)
                    /\ \/ m.t = "clearing" /\ world.trackTemp
                       \/ \A l \in lines' : (l.temp => world.trackTemp) =>
                            l \in L \/ (l \in lines /\ (l \in K => l \in L))
  BY DEF Fits
<1>1. L = IF world.trackTemp THEN {} ELSE K
  BY DEF ListHeard
<1>2. m.t = "clearing"
  OBVIOUS
<1> HIDE DEF m
<1>3. CASE world.trackTemp
  BY <1>1, <1>2, <1>3
<1>4. CASE ~world.trackTemp
  BY <1>1, <1>2, <1>4
<1> QED
  BY <1>3, <1>4

LEMMA HandleKlineKeeps == IInv /\ HandleKline => IInv'
<1> SUFFICES ASSUME IInv, HandleKline PROVE IInv'
  OBVIOUS
<1>1. Handles("KLINE") /\ srv' = srv
  BY DEF HandleKline
<1>2. /\ Alive /\ Still /\ Served("KLINE") /\ Shapes /\ outbox[1] = Head(outbox)
  BY <1>1, HandlesServes DEF IInv
<1>3. PICK line : line = Head(outbox).line
  OBVIOUS
<1>4. line \in Line
  BY <1>1, <1>2, <1>3, TailFacts DEF Handles, Shapes, Posts
<1>5. CASE Free(line.mask)
  <2>1. lines' = lines \cup {line} /\ Tells([t |-> "added", line |-> line])
    BY <1>3, <1>5 DEF HandleKline
  <2>2. /\ lines' \subseteq Line /\ IsFiniteSet(lines')
        /\ \A l, k \in lines' : l.mask = k.mask => l = k
    BY <1>2, <1>4, <1>5, <2>1, FS_AddElement DEF Shapes, Free
  <2>3. Fits([t |-> "added", line |-> line])
    BY <1>2, <1>4, <2>1, AddedFits DEF Shapes
  <2> HIDE DEF IInv, Alive, Still, Served, Tells, Fits
  <2> QED
    BY <1>1, <1>2, <2>1, <2>2, <2>3, LinesStep
<1>6. CASE ~Free(line.mask)
  <2>1. lines' = lines /\ inbox' = inbox
    BY <1>3, <1>6 DEF HandleKline
  <2> HIDE DEF IInv, Alive, Still, Served
  <2> QED
    BY <1>1, <1>2, <2>1, NothingTold
<1> QED
  BY <1>5, <1>6

LEMMA HandleUnklineKeeps == IInv /\ HandleUnkline => IInv'
<1> SUFFICES ASSUME IInv, HandleUnkline PROVE IInv'
  OBVIOUS
<1>1. Handles("UNKLINE") /\ srv' = srv
  BY DEF HandleUnkline
<1>2. /\ Alive /\ Still /\ Served("UNKLINE") /\ Shapes
  BY <1>1, HandlesServes DEF IInv
<1>3. PICK found : found = {l \in lines : l.mask = Head(outbox).mask}
  OBVIOUS
<1>4. lines' = lines \ found
  BY <1>3 DEF HandleUnkline
<1>5. CASE found # {}
  <2>1. PICK line : line = CHOOSE l \in found : TRUE
    OBVIOUS
  <2>2. line \in found /\ line \in lines
    BY <1>3, <1>5, <2>1
  <2>3. Tells([t |-> "removed", line |-> line])
    BY <1>3, <1>5, <2>1 DEF HandleUnkline
  <2>4. found = {line}
    BY <1>2, <1>3, <2>2 DEF Shapes
  <2>5. lines' = lines \ {line}
    BY <1>4, <2>4
  <2>6. /\ lines' \subseteq Line /\ IsFiniteSet(lines')
        /\ \A l, k \in lines' : l.mask = k.mask => l = k
    BY <1>2, <2>5, FS_Subset DEF Shapes
  <2>7. Fits([t |-> "removed", line |-> line])
    BY <1>2, <2>2, <2>5, RemovedFits DEF Shapes
  <2> HIDE DEF IInv, Alive, Still, Served, Tells, Fits
  <2> QED
    BY <1>1, <1>2, <2>3, <2>6, <2>7, LinesStep
<1>6. CASE found = {}
  <2>1. lines' = lines /\ inbox' = inbox
    BY <1>3, <1>4, <1>6 DEF HandleUnkline
  <2> HIDE DEF IInv, Alive, Still, Served
  <2> QED
    BY <1>1, <1>2, <2>1, NothingTold
<1> QED
  BY <1>5, <1>6

\* Lines that change while nobody is connected.
LEMMA Unheard ==
  ASSUME IInv, ~srv.alive, Still, outbox' = outbox, srv' = srv, inbox' = inbox,
         lines' \subseteq Line, IsFiniteSet(lines'),
         \A l, k \in lines' : l.mask = k.mask => l = k
  PROVE  IInv'
  BY DEF IInv, Shapes, GarbledFirst, Alive, Still

LEMMA ChangeFacts ==
  ASSUME IInv, Change
  PROVE  Still /\ outbox' = outbox /\ Served("nothing") /\ Shapes /\ (srv.alive => Alive)
  BY DEF IInv, Shapes, Change, Still, Served, Alive, bot

LEMMA LineAddedKeeps == ASSUME NEW line \in Line PROVE IInv /\ LineAdded(line) => IInv'
<1> SUFFICES ASSUME IInv, LineAdded(line) PROVE IInv'
  OBVIOUS
<1>1. Change /\ srv' = srv /\ lines' = lines \cup {line} /\ Free(line.mask)
      /\ TellsIfAlive([t |-> "added", line |-> line])
  BY DEF LineAdded
<1>2. Still /\ outbox' = outbox /\ Served("nothing") /\ Shapes /\ (srv.alive => Alive)
  BY <1>1, ChangeFacts
<1>3. /\ lines' \subseteq Line /\ IsFiniteSet(lines')
      /\ \A l, k \in lines' : l.mask = k.mask => l = k
  BY <1>1, <1>2, FS_AddElement DEF Shapes, Free
<1>4. Fits([t |-> "added", line |-> line])
  BY <1>1, <1>2, AddedFits DEF Shapes
<1> HIDE DEF IInv, Alive, Still, Served, Tells, Fits
<1>5. CASE srv.alive
  BY <1>1, <1>2, <1>3, <1>4, <1>5, LinesStep DEF TellsIfAlive
<1>6. CASE ~srv.alive
  BY <1>1, <1>2, <1>3, <1>6, Unheard DEF TellsIfAlive
<1> QED
  BY <1>5, <1>6

\* A line that is removed or expires.
LEMMA LineGoes ==
  ASSUME NEW line, NEW m,
         m \in {[t |-> "removed", line |-> line], [t |-> "expired", line |-> line]},
         IInv, Change, line \in lines, lines' = lines \ {line}, srv' = srv, TellsIfAlive(m)
  PROVE  IInv'
<1>1. Still /\ outbox' = outbox /\ Served("nothing") /\ Shapes /\ (srv.alive => Alive)
  BY ChangeFacts
<1>2. /\ lines' \subseteq Line /\ IsFiniteSet(lines')
      /\ \A l, k \in lines' : l.mask = k.mask => l = k
  BY <1>1, FS_Subset DEF Shapes
<1>3. Fits(m)
  BY <1>1, RemovedFits DEF Shapes
<1>4. m.t \in {"removed", "expired"}
  OBVIOUS
<1> HIDE DEF IInv, Alive, Still, Served, Tells, Fits
<1>5. CASE srv.alive
  BY <1>1, <1>2, <1>3, <1>4, <1>5, LinesStep DEF TellsIfAlive
<1>6. CASE ~srv.alive
  BY <1>1, <1>2, <1>6, Unheard DEF TellsIfAlive
<1> QED
  BY <1>5, <1>6

LEMMA TempsClearedKeeps == IInv /\ TempsCleared => IInv'
<1> SUFFICES ASSUME IInv, TempsCleared PROVE IInv'
  OBVIOUS
<1>1. Change /\ srv' = srv /\ lines' = {l \in lines : ~l.temp} /\ TellsIfAlive([t |-> "clearing"])
  BY DEF TempsCleared
<1>2. Still /\ outbox' = outbox /\ Served("nothing") /\ Shapes /\ (srv.alive => Alive)
  BY <1>1, ChangeFacts
<1>3. /\ lines' \subseteq Line /\ IsFiniteSet(lines')
      /\ \A l, k \in lines' : l.mask = k.mask => l = k
  BY <1>1, <1>2, FS_Subset DEF Shapes
<1>4. Fits([t |-> "clearing"])
  BY <1>1, ClearingFits
<1> HIDE DEF IInv, Alive, Still, Served, Tells, Fits
<1>5. CASE srv.alive
  BY <1>1, <1>2, <1>3, <1>4, <1>5, LinesStep DEF TellsIfAlive
<1>6. CASE ~srv.alive
  BY <1>1, <1>2, <1>3, <1>6, Unheard DEF TellsIfAlive
<1> QED
  BY <1>5, <1>6

\* A nickname that is given is the bot's once it has read so.
LEMMA NickGivenKeeps == ASSUME NEW n \in 0 .. MaxLength PROVE IInv /\ NickGiven(n) => IInv'
<1> SUFFICES ASSUME IInv, NickGiven(n) PROVE IInv'
  OBVIOUS
<1>1. /\ Change /\ srv.alive /\ srv.reg # "none" /\ lines' = lines
      /\ srv' = [srv EXCEPT !.nick = n]
  BY DEF NickGiven
<1>2. Still /\ outbox' = outbox /\ Served("nothing") /\ Shapes /\ Alive
  BY <1>1, ChangeFacts
<1>3. IsSeq(inbox) /\ IsSeq(outbox) /\ Posts(outbox) /\ n \in Nat
  BY <1>2, LengthsAreLengths DEF Shapes
<1>4. PICK from : from = srv.nick
  OBVIOUS
<1> DEFINE m == [t |-> "NICK", from |-> from, nick |-> n]
           a == <<m>>
<1>5. /\ Tag(m) = "NICK" /\ IsSeq(a) /\ \A x : Has(a, x) <=> x = "NICK"
      /\ m.t = "NICK" /\ m.from = from /\ m.nick = n
  BY Single
<1>6. Told(a)
  BY <1>2, <1>4, <1>5 DEF NickGiven, Told, Answers
<1> HIDE DEF m
<1>7. /\ srv'.reg = srv.reg /\ srv'.nick = n
      /\ srv' \in [reg : {"none", "user", "oper"}, nick : Nat \cup {-1}, ponged : BOOLEAN,
                   alive : BOOLEAN]
  BY <1>1, <1>2, <1>3 DEF Shapes
<1>8. Welcomes(a, "nothing")
  BY <1>5, <1>7 DEF Welcomes
<1>9. ASSUME NEW u, Agrees(u) PROVE \E w : Path(world, a, u, w) /\ Agrees(w)'
  <2>1. PICK w : w = Hears(world, m, u)
    OBVIOUS
  <2>2. Given(u[1])
    BY <1>1, <1>9 DEF Agrees, NickAgrees
  <2>3. w[1] = n /\ w[2] = u[2]
    BY <1>4, <1>5, <2>1, <2>2 DEF Hears, NickHeard, ListHeard, Given
  <2>4. ~Has(inbox', "433") /\ ~Has(outbox', "NICK")
    <3> HIDE DEF IsSeq, Has, Told, a
    <3> QED
      BY <1>2, <1>3, <1>5, <1>6, <2>2, ToldFacts DEF Given
  <2>5. NickAgrees(n)'
    BY <1>3, <1>7, <2>4 DEF NickAgrees, Given
  <2>6. ListAgrees(u[2])
    BY <1>9 DEF Agrees
  <2>7. srv'.reg = "oper" => srv.reg = "oper" /\ u[2] \subseteq lines'
                             /\ (~world.trackTemp => \A l \in u[2] : ~l.temp)
    BY <1>1, <1>7, <2>6 DEF ListAgrees
  <2>8. ListAgrees(u[2])'
    <3> HIDE DEF IsSeq, Has, Posts, Told, Served, a
    <3> QED
      BY <1>1, <1>2, <1>3, <1>6, <2>6, <2>7, ToldList
  <2>9. Agrees(w)'
    BY <2>3, <2>5, <2>8 DEF Agrees
  <2> QED
    BY <2>1, <2>9, PathOne
<1> HIDE DEF IInv, IsSeq, Has, Posts, Told, Served, Path, Agrees, Alive, a
<1> QED
  BY <1>1, <1>2, <1>6, <1>7, <1>8, <1>9, ToldStep DEF Shapes

-----------------------------------------------------------------------------
(* The connection ends                                                     *)

LEMMA ClosesKeeps == ASSUME NEW within PROVE IInv /\ Closes(within) => IInv'
<1> SUFFICES ASSUME IInv, Closes(within) PROVE IInv'
  OBVIOUS
<1> DEFINE m == [t |-> "EOF", partial |-> within]
<1>1. Shapes
  BY DEF IInv
<1>2. IsSeq(<<m>>)
  BY OneFacts
<1>3. Told(<<m>>)
  BY <1>2 DEF Closes, Told, Answers, Still, bot
<1>4. IsSeq(inbox') /\ (inbox # <<>> => inbox' # <<>> /\ inbox'[1] = inbox[1])
  <2> HIDE DEF IsSeq, Told, m
  <2> QED
    BY <1>1, <1>3, ToldFacts DEF Shapes
<1>5. srv' \in [reg : {"none", "user", "oper"}, nick : Nat \cup {-1}, ponged : BOOLEAN,
                alive : BOOLEAN] /\ srv'.alive = FALSE
  BY <1>1 DEF Closes, Shapes
<1>6. Shapes' /\ GarbledFirst' /\ ~Alive'
  <2> HIDE DEF IsSeq, Posts
  <2> QED
    BY <1>1, <1>4, <1>5 DEF Shapes, GarbledFirst, Alive, IInv, Closes, bot
<1> QED
  BY <1>6 DEF IInv

LEMMA DiesKeeps == IInv /\ Dies => IInv'
<1> SUFFICES ASSUME IInv, Dies PROVE IInv'
  OBVIOUS
<1>1. srv' \in [reg : {"none", "user", "oper"}, nick : Nat \cup {-1}, ponged : BOOLEAN,
                alive : BOOLEAN] /\ srv'.alive = FALSE
  BY DEF Dies, Shapes, IInv
<1>2. Shapes' /\ GarbledFirst' /\ ~Alive'
  <2> HIDE DEF IsSeq, Posts
  <2> QED
    BY <1>1 DEF Shapes, GarbledFirst, Alive, IInv, Dies, bot
<1> QED
  BY <1>2 DEF IInv

\* What the invariant is about does not change.
LEMMA Unmoved ==
  ASSUME IInv, Still, UNCHANGED <<inbox, outbox, srv, lines>>
  PROVE  IInv'
<1> HIDE DEF IsSeq, Posts, Has, AtMostOne, Path, Only, Tag
<1> QED
  BY DEF IInv, Shapes, GarbledFirst, Alive, Welcome, Waits, Synced, Agrees, NickAgrees, Asked,
         TurnedDown, Given, ListAgrees, Pending, Belief, Still

\* When the bot gives a connection up nothing is on its way.
LEMMA ResetKeeps ==
  ASSUME IInv, Reset, UNCHANGED <<klines, lines>>
  PROVE  IInv'
<1>1. IsSeq(<<>>) /\ Posts(<<>>)
  BY EmptyFacts, NoPosts
<1>2. Gone \in [reg : {"none", "user", "oper"}, nick : Nat \cup {-1}, ponged : BOOLEAN,
                alive : BOOLEAN] /\ ~Gone.alive
  BY DEF Gone
<1> HIDE DEF IsSeq, Posts, Gone
<1> QED
  BY <1>1, <1>2 DEF IInv, Shapes, GarbledFirst, Alive, Reset

-----------------------------------------------------------------------------
(* The main loop, and commands                                             *)

\* A nickname is asked for, and the server's first line is on its way.
LEMMA EstablishedKeeps == IInv /\ Established => IInv'
<1> SUFFICES ASSUME IInv, Established PROVE IInv'
  OBVIOUS
<1> DEFINE t == IF world.cookie THEN "PING" ELSE "notice"
<1>1. PICK m : m = [t |-> IF world.cookie THEN "PING" ELSE "notice"]
  OBVIOUS
<1>2. PICK n : n = [t |-> "NICK", nick |-> 0]
  OBVIOUS
<1>3. inbox' = <<m>> /\ outbox' = <<n>>
  BY <1>1, <1>2 DEF Established
<1>4. m.t \in {"PING", "notice"}
  BY <1>1
<1>5. Tag(m) \in {"PING", "notice"} /\ IsSeq(<<m>>) /\ \A x : Has(<<m>>, x) <=> x = Tag(m)
  BY <1>4, Single
<1>6. /\ Tag(n) = "NICK" /\ IsSeq(<<n>>) /\ Posts(<<n>>) /\ n.nick = 0
      /\ \A x : Has(<<n>>, x) <=> x = "NICK"
  BY <1>2, Single
<1>7. /\ srv' = [reg |-> "none", nick |-> -1, ponged |-> FALSE, alive |-> TRUE]
      /\ srv' \in [reg : {"none", "user", "oper"}, nick : Nat \cup {-1}, ponged : BOOLEAN,
                   alive : BOOLEAN]
  BY DEF Established, Gone
<1>8. Shapes /\ IsSeq(klines)
  BY DEF IInv, Shapes
<1>9. Shapes'
  <2> HIDE DEF IsSeq, Posts
  <2> QED
    BY <1>3, <1>5, <1>6, <1>7, <1>8 DEF Shapes, Established
<1>10. GarbledFirst'
  BY <1>3, <1>4, OneFacts DEF GarbledFirst
<1>11. Welcome'
  <2>1. AtMostOne(<<m>>, "001")
    BY HasOne
  <2> HIDE DEF Has, AtMostOne
  <2> QED
    BY <1>3, <1>5, <1>6, <1>7, <2>1 DEF Welcome, Established
<1>12. Waits'
  BY <1>7 DEF Waits
<1>13. Synced'
  <2>1. PICK v : v = Belief'
    OBVIOUS
  <2>2. v[1] = 0 /\ v = <<v[1], v[2]>>
    BY <2>1 DEF Belief, Established
  <2>3. Hears(world', m, v) = v
    BY <1>4, <2>2 DEF Hears, NickHeard, ListHeard
  <2>4. Path(world', inbox', Belief', v)
    BY <1>3, <2>1, <2>3, PathOne
  <2>5. Only(<<n>>, 1, "NICK") /\ <<n>>[1] = n /\ 1 \in 1 .. Len(<<n>>)
    BY <1>6, OneFacts DEF Only
  <2>6. Asked(v[1])'
    <3>1. ~Has(inbox', "433")
      BY <1>3, <1>5
    <3>2. \E i \in 1 .. Len(outbox') : Only(outbox', i, "NICK") /\ outbox'[i].nick = 0
      BY <1>3, <1>6, <2>5
    <3>3. 0 \in Nat
      OBVIOUS
    <3> HIDE DEF Only, Has
    <3> QED
      BY <2>2, <3>1, <3>2, <3>3 DEF Asked
  <2>7. Agrees(v)'
    BY <1>7, <2>6 DEF Agrees, NickAgrees, ListAgrees
  <2> QED
    BY <2>4, <2>7 DEF Synced
<1> QED
  BY <1>9, <1>10, <1>11, <1>12, <1>13 DEF IInv

\* A command of an operator asks the server for something.
LEMMA CommandKeeps ==
  ASSUME NEW c, IInv, Command(c), IsSeq(c), Posts(c), ~Has(c, "NICK"), ~Has(c, "OPER"),
         UNCHANGED <<klines, getting>> \/ (c = StatsRequests /\ ReloadKlines)
  PROVE  IInv'
<1>1. /\ UNCHANGED <<world, sock, partial, nick, oper, inbox, srv, lines>>
      /\ outbox' = outbox \o c /\ sock = "open" /\ srv.reg = "oper"
  BY DEF Command, Writes
<1>2. Shapes
  BY DEF IInv
<1>3. /\ IsSeq(klines')
      /\ klines' # klines => ToSet(klines') = {} /\ c = StatsRequests
  <2>1. IsSeq(klines) /\ IsSeq(<<>>) /\ ToSet(<<>>) = {}
    BY <1>2, EmptyFacts DEF Shapes
  <2> HIDE DEF IsSeq
  <2> QED
    BY <2>1 DEF ReloadKlines
<1>4. IsSeq(outbox') /\ Posts(outbox') /\ \A x : Has(outbox', x) <=> Has(outbox, x) \/ Has(c, x)
  <2> HIDE DEF IsSeq, Posts, Has
  <2> QED
    BY <1>1, <1>2, CatFacts, PostsCat, HasCat DEF Shapes
<1>5. KeepsOnly(outbox, outbox', "NICK")
  <2> HIDE DEF IsSeq, Has, KeepsOnly
  <2> QED
    BY <1>1, <1>2, KeptByCat DEF Shapes
<1> HIDE DEF Command, IsSeq, Posts, Has
<1>6. Shapes'
  BY <1>1, <1>2, <1>3, <1>4 DEF Shapes
<1>7. GarbledFirst'
  BY <1>1 DEF GarbledFirst, IInv
<1>8. ASSUME Alive' PROVE Welcome' /\ Waits' /\ Synced'
  <2>1. Welcome /\ Waits /\ Synced /\ IsSeq(inbox)
    BY <1>1, <1>2, <1>8 DEF IInv, Alive, Shapes
  <2>2. Welcome'
    <3> HIDE DEF AtMostOne
    <3> QED
      BY <1>1, <1>4, <2>1 DEF Welcome
  <2>3. Waits'
    <3>1. srv.reg # "none" /\ ~Has(inbox, "001")
      BY <1>1, <2>1 DEF Welcome
    <3>2. CASE getting' = getting
      BY <1>1, <1>4, <2>1, <3>1, <3>2, WaitsKept
    <3>3. CASE c = StatsRequests /\ ReloadKlines
      <4>1. \A x : x \in getting' <=> \/ x \in getting
                                      \/ (world.trackPerm /\ x = "K") \/ (world.trackTemp /\ x = "k")
        BY <3>3 DEF ReloadKlines
      <4>2. /\ world.trackPerm => Has(outbox', "STATS-K")
            /\ world.trackTemp => Has(outbox', "STATS-k")
        BY <1>4, <3>3, RequestsFacts
      <4> QED
        BY <1>1, <1>4, <2>1, <3>1, <4>1, <4>2, WaitsKept
    <3> QED
      BY <3>2, <3>3
  <2>4. PICK u : Path(world, inbox, Belief, u) /\ Agrees(u)
    BY <2>1 DEF Synced
  <2>5. PICK w : /\ Path(world, inbox, Belief', w) /\ w[1] = u[1] /\ w[2] \subseteq u[2]
                 /\ klines' = klines => w = u
    <3>1. CASE klines' = klines
      BY <1>1, <2>4, <3>1 DEF Belief
    <3>2. CASE klines' # klines
      <4>1. Belief' = <<nick, {}>>
        BY <1>1, <1>3, <3>2 DEF Belief
      <4>2. Path(world, inbox, <<nick, ToSet(klines)>>, u)
        BY <2>4 DEF Belief
      <4> HIDE DEF Path
      <4> QED
        BY <2>1, <3>2, <4>1, <4>2, PathCleared
    <3> QED
      BY <3>1, <3>2
  <2>6. NickAgrees(u[1])'
    <3>1. KeepsOnly(inbox, inbox', "433")
      BY <1>1, KeptBySame
    <3> HIDE DEF KeepsOnly
    <3> QED
      BY <1>1, <1>4, <1>5, <2>4, <3>1, NickKept DEF Agrees
  <2>7. ListAgrees(w[2])'
    <3>1. ListAgrees(u[2])
      BY <2>4 DEF Agrees
    <3>2. CASE klines' = klines
      <4>1. /\ Pending("STATS-k") => Pending("STATS-k")'
            /\ Pending("STATS-K") => Pending("STATS-K")'
        BY <1>1, <1>4 DEF Pending
      <4>2. ListAgrees(w[2])
        BY <2>5, <3>1, <3>2
      <4> QED
        BY <1>1, <4>1, <4>2, ListKept
    <3>3. CASE klines' # klines
      <4>1. /\ world.trackTemp => Pending("STATS-k")'
            /\ world.trackPerm => Pending("STATS-K")'
        BY <1>1, <1>3, <1>4, <3>3, RequestsFacts DEF Pending
      <4>2. /\ w[2] \subseteq lines /\ (~world.trackTemp => \A l \in w[2] : ~l.temp)
        BY <1>1, <2>5, <3>1 DEF ListAgrees
      <4> QED
        BY <1>1, <4>1, <4>2 DEF ListAgrees
    <3> QED
      BY <3>2, <3>3
  <2>8. Agrees(w)'
    BY <2>5, <2>6, <2>7 DEF Agrees
  <2>9. Path(world', inbox', Belief', w)
    BY <1>1, <2>5
  <2> QED
    BY <2>2, <2>3, <2>8, <2>9 DEF Synced
<1> QED
  BY <1>6, <1>7, <1>8 DEF IInv

LEMMA KlineKeeps == ASSUME NEW line \in Line PROVE IInv /\ Kline(line) => IInv'
<1> SUFFICES ASSUME IInv, Kline(line) PROVE IInv'
  OBVIOUS
<1> DEFINE m == [t |-> "KLINE", line |-> line]
<1>1. Tag(m) = "KLINE" /\ Posts(<<m>>)
  BY OneFacts DEF Tag, Posts
<1>2. IsSeq(<<m>>) /\ \A x : Has(<<m>>, x) <=> x = "KLINE"
  BY <1>1, OneFacts, HasOne
<1>3. Command(<<m>>) /\ UNCHANGED <<klines, getting>>
  BY DEF Kline
<1> HIDE DEF IInv, Command, IsSeq, Posts, Has, m
<1> QED
  BY <1>1, <1>2, <1>3, CommandKeeps

LEMMA UnklineKeeps == ASSUME NEW mask \in Masks PROVE IInv /\ Unkline(mask) => IInv'
<1> SUFFICES ASSUME IInv, Unkline(mask) PROVE IInv'
  OBVIOUS
<1> DEFINE m == [t |-> "UNKLINE", mask |-> mask]
<1>1. Tag(m) = "UNKLINE" /\ Posts(<<m>>)
  BY OneFacts DEF Tag, Posts
<1>2. IsSeq(<<m>>) /\ \A x : Has(<<m>>, x) <=> x = "UNKLINE"
  BY <1>1, OneFacts, HasOne
<1>3. Command(<<m>>) /\ UNCHANGED <<klines, getting>>
  BY DEF Unkline
<1> HIDE DEF IInv, Command, IsSeq, Posts, Has, m
<1> QED
  BY <1>1, <1>2, <1>3, CommandKeeps

LEMMA FindAndRemoveKeeps ==
  ASSUME NEW masks, NEW perms, NEW temps PROVE IInv /\ FindAndRemove(masks, perms, temps) => IInv'
<1> SUFFICES ASSUME IInv, FindAndRemove(masks, perms, temps) PROVE IInv'
  OBVIOUS
<1>1. PICK places : places = {k \in DOMAIN klines : /\ klines[k].mask \in masks
                                                   /\ IF klines[k].temp THEN temps ELSE perms}
  OBVIOUS
<1>2. PICK found : found = Entries(places)
  OBVIOUS
<1>3. places \in SUBSET (DOMAIN klines) /\ IsSeq(klines)
  BY <1>1 DEF IInv, Shapes
<1>4. Len(found) \in Nat /\ DOMAIN found = 1 .. Len(found)
  <2> HIDE DEF IsSeq
  <2>1. /\ Len(Entries(places)) \in Nat
        /\ DOMAIN Entries(places) = 1 .. Len(Entries(places))
    BY <1>3, EntriesFacts
  <2> QED
    BY <1>2, <2>1
<1> DEFINE c == [k \in 1 .. Len(found) |-> [t |-> "UNKLINE", mask |-> found[k].mask]]
<1>5. Command(c) /\ UNCHANGED <<klines, getting>>
  <2>1. Command([k \in DOMAIN found |-> [t |-> "UNKLINE", mask |-> found[k].mask]])
        /\ UNCHANGED <<klines, getting>>
    BY <1>1, <1>2 DEF FindAndRemove
  <2> QED
    BY <1>4, <2>1
<1>6. /\ IsSeq(c) /\ Posts(c) /\ \A x : Has(c, x) => x = "UNKLINE"
  <2>1. c \in Seq({c[k] : k \in 1 .. Len(found)}) /\ Len(c) = Len(found)
    BY <1>4
  <2>2. \A k \in 1 .. Len(c) : c[k].t = "UNKLINE"
    BY <2>1
  <2>3. IsSeq(c)
    BY <2>1 DEF IsSeq
  <2> HIDE DEF c
  <2>4. \A k \in 1 .. Len(c) : Tag(c[k]) = "UNKLINE"
    BY <2>2 DEF Tag
  <2> QED
    BY <2>2, <2>3, <2>4 DEF Posts, Has
<1> HIDE DEF IInv, Command, IsSeq, Posts, Has, c
<1> QED
  BY <1>5, <1>6, CommandKeeps

LEMMA ReloadKeeps == IInv /\ Reload => IInv'
<1> SUFFICES ASSUME IInv, Reload PROVE IInv'
  OBVIOUS
<1>1. PICK c : c = StatsRequests
  OBVIOUS
<1>2. IsSeq(c) /\ Posts(c) /\ ~Has(c, "NICK") /\ ~Has(c, "OPER")
  <2> HIDE DEF IsSeq, Posts, Has
  <2> QED
    BY <1>1, RequestsFacts
<1>3. Command(c) /\ ReloadKlines
  BY <1>1 DEF Reload
<1> HIDE DEF IInv, Command, IsSeq, Posts, Has
<1> QED
  BY <1>1, <1>2, <1>3, CommandKeeps

-----------------------------------------------------------------------------
(* The theorems                                                            *)

LEMMA InitHolds == Init => IInv
<1> SUFFICES ASSUME Init PROVE IInv
  OBVIOUS
<1>1. IsSeq(<<>>) /\ Posts(<<>>) /\ IsFiniteSet({})
  BY EmptyFacts, NoPosts, FS_EmptySet
<1>2. Gone \in [reg : {"none", "user", "oper"}, nick : Nat \cup {-1}, ponged : BOOLEAN,
                alive : BOOLEAN] /\ ~Gone.alive
  BY DEF Gone
<1>3. inbox = <<>> /\ outbox = <<>> /\ klines = <<>> /\ lines = {} /\ srv = Gone /\ sock = "off"
  BY DEF Init
<1> HIDE DEF IsSeq, Posts, Gone
<1> QED
  BY <1>1, <1>2, <1>3 DEF IInv, Shapes, GarbledFirst, Alive

LEMMA LoopKeeps == IInv /\ Loop => IInv'
<1> SUFFICES ASSUME IInv, Loop PROVE IInv'
  OBVIOUS
<1>1. CASE ConnectFails
  <2>1. Still /\ UNCHANGED <<inbox, outbox, srv, lines>>
    BY <1>1 DEF ConnectFails, Still
  <2> HIDE DEF IInv, Still
  <2> QED
    BY <2>1, Unmoved
<1>2. CASE Tick
  <2>1. Still /\ UNCHANGED <<inbox, outbox, srv, lines>>
    BY <1>2 DEF Tick, Still
  <2> HIDE DEF IInv, Still
  <2> QED
    BY <2>1, Unmoved
<1>3. CASE Connect
  BY <1>3 DEF Connect, IInv, Shapes, GarbledFirst, Alive
<1>4. CASE Established
  BY <1>4, EstablishedKeeps
<1>5. CASE Refused
  <2>1. Reset /\ UNCHANGED <<klines, lines>>
    BY <1>5 DEF Refused
  <2> QED
    BY <2>1, ResetKeeps
<1>6. CASE EndOfFile
  <2>1. Reset /\ UNCHANGED <<klines, lines>>
    BY <1>6 DEF EndOfFile
  <2> QED
    BY <2>1, ResetKeeps
<1>7. CASE TimesOut
  <2>1. Reset /\ UNCHANGED <<klines, lines>>
    BY <1>7 DEF TimesOut
  <2> QED
    BY <2>1, ResetKeeps
<1> QED
  BY <1>1, <1>2, <1>3, <1>4, <1>5, <1>6, <1>7 DEF Loop

LEMMA ReadKeeps == IInv /\ Read => IInv'
  BY ReadGarbledKeeps, ReadNoticeKeeps, ReadPingKeeps, Read001Keeps, Read433Keeps, ReadNickKeeps,
     Read381Keeps, Read216Keeps, Read219Keeps, Read262Keeps, ReadAddedKeeps, ReadRemovedKeeps,
     ReadExpiredKeeps, ReadClearingKeeps DEF Read

LEMMA HandleKeeps == IInv /\ Handle => IInv'
  BY HandleNickKeeps, HandlePongKeeps, HandleOperKeeps, HandleTraceKeeps, HandleStatsKeeps,
     HandleKlineKeeps, HandleUnklineKeeps DEF Handle

LEMMA CommandsKeep == IInv /\ Commands => IInv'
  BY KlineKeeps, UnklineKeeps, FindAndRemoveKeeps, ReloadKeeps DEF Commands

LEMMA OthersKeep == IInv /\ Others => IInv'
<1> SUFFICES ASSUME IInv, Others PROVE IInv'
  OBVIOUS
<1>1. ASSUME NEW line \in Line, LineAdded(line) \/ LineRemoved(line) \/ LineExpires(line)
      PROVE  IInv'
  <2>1. CASE LineAdded(line)
    BY <2>1, LineAddedKeeps
  <2>2. CASE LineRemoved(line)
    <3> DEFINE m == [t |-> "removed", line |-> line]
    <3>1. /\ m \in {[t |-> "removed", line |-> line], [t |-> "expired", line |-> line]}
          /\ Change /\ line \in lines /\ lines' = lines \ {line} /\ srv' = srv /\ TellsIfAlive(m)
      BY <2>2 DEF LineRemoved
    <3> HIDE DEF m, IInv, Change, TellsIfAlive
    <3> QED
      BY <3>1, LineGoes
  <2>3. CASE LineExpires(line)
    <3> DEFINE m == [t |-> "expired", line |-> line]
    <3>1. /\ m \in {[t |-> "removed", line |-> line], [t |-> "expired", line |-> line]}
          /\ Change /\ line \in lines /\ lines' = lines \ {line} /\ srv' = srv /\ TellsIfAlive(m)
      BY <2>3 DEF LineExpires
    <3> HIDE DEF m, IInv, Change, TellsIfAlive
    <3> QED
      BY <3>1, LineGoes
  <2> QED
    BY <1>1, <2>1, <2>2, <2>3
<1>2. CASE TempsCleared
  BY <1>2, TempsClearedKeeps
<1>3. ASSUME NEW n \in 0 .. MaxLength, NickGiven(n) PROVE IInv'
  BY <1>3, NickGivenKeeps
<1>4. ASSUME NEW within \in BOOLEAN, Drop(within) PROVE IInv'
  BY <1>4, ClosesKeeps DEF Drop
<1>5. CASE Dies
  BY <1>5, DiesKeeps
<1> QED
  BY <1>1, <1>2, <1>3, <1>4, <1>5 DEF Others

LEMMA StepKeeps == IInv /\ [Next]_vars => IInv'
<1> SUFFICES ASSUME IInv, [Next]_vars PROVE IInv'
  OBVIOUS
<1>1. CASE TurnAway
  BY <1>1, ClosesKeeps DEF TurnAway
<1>2. CASE Repair
  <2>1. Still /\ UNCHANGED <<inbox, outbox, srv, lines>>
    BY <1>2 DEF Repair, Still, bot
  <2> HIDE DEF IInv, Still
  <2> QED
    BY <2>1, Unmoved
<1>3. CASE UNCHANGED vars
  <2>1. Still /\ UNCHANGED <<inbox, outbox, srv, lines>>
    BY <1>3 DEF vars, Still, bot
  <2> HIDE DEF IInv, Still
  <2> QED
    BY <2>1, Unmoved
<1> QED
  BY <1>1, <1>2, <1>3, LoopKeeps, ReadKeeps, HandleKeeps, CommandsKeep, OthersKeep DEF Next

\* At every moment, what the bot will believe of its nickname and of the lines when it
\* has read what is on its way is what the server holds, but for what a request on its
\* way, or one the bot is about to make, will bring.
THEOREM Invariance == Spec => []IInv
<1>1. Init => IInv
  BY InitHolds
<1>2. IInv /\ [Next]_vars => IInv'
  BY StepKeeps
<1> QED
  BY <1>1, <1>2, PTL DEF Spec

\* The bot goes by the nickname the server knows it by once nothing is under way,
\* however many nicknames were in use and whoever gave it another meanwhile.
THEOREM NickKnown == Spec => []KnowsOwnNick
<1>1. IInv => KnowsOwnNick
  <2> SUFFICES ASSUME IInv, Quiet, srv.reg # "none" PROVE nick = srv.nick
    BY DEF KnowsOwnNick
  <2>1. Synced /\ inbox = <<>>
    BY DEF IInv, Quiet, Alive
  <2>2. PICK u : Path(world, inbox, Belief, u) /\ Agrees(u)
    BY <2>1 DEF Synced
  <2>3. u = Belief
    BY <2>1, <2>2, PathEmpty
  <2> QED
    BY <2>2, <2>3 DEF Agrees, NickAgrees, Given, Belief
<1> QED
  BY <1>1, Invariance, PTL

\* The list is the server's once nothing is under way, whatever lines were added,
\* removed, expired or cleared while it was asked for, and nothing is waited for.
THEOREM ListTrue == Spec => []LinesAgree
<1>1. IInv => LinesAgree
  <2> SUFFICES ASSUME IInv, Quiet, oper
               PROVE  /\ ToSet(klines) \subseteq lines
                      /\ world.trackTemp => {l \in lines : l.temp} \subseteq ToSet(klines)
                      /\ world.trackPerm => {l \in lines : ~l.temp} \subseteq ToSet(klines)
                      /\ getting = {}
    BY DEF LinesAgree
  <2>1. Welcome /\ Waits /\ Synced /\ inbox = <<>> /\ outbox = <<>>
    BY DEF IInv, Quiet, Alive
  <2>2. \A tag : ~Has(inbox, tag) /\ ~Has(outbox, tag)
    BY <2>1, EmptyFacts
  <2>3. srv.reg = "oper"
    BY <2>1 DEF Welcome
  <2>4. PICK u : Path(world, inbox, Belief, u) /\ Agrees(u)
    BY <2>1 DEF Synced
  <2>5. u = Belief
    BY <2>1, <2>4, PathEmpty
  <2>6. ListAgrees(ToSet(klines))
    BY <2>4, <2>5 DEF Agrees, Belief
  <2> HIDE DEF Has
  <2>7. getting = {}
    BY <2>1, <2>2, <2>3 DEF Waits
  <2>8. ~Pending("STATS-k") /\ ~Pending("STATS-K")
    BY <2>2 DEF Pending
  <2> QED
    BY <2>3, <2>6, <2>7, <2>8 DEF ListAgrees
<1> QED
  BY <1>1, Invariance, PTL
=============================================================================
