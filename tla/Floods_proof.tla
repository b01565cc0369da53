---------------------------- MODULE Floods_proof ----------------------------
(***************************************************************************)
(* Proofs about the flood counters, for any sources, limits and times: who *)
(* is acted on has sent enough, who sends enough is acted on, and exempt   *)
(* clients are spared.                                                     *)
(*                                                                         *)
(* The argument: an entry knows the time of its source's last notice, and  *)
(* its count lies between the lengths of two streaks of that source, the   *)
(* one no break interrupts and the one only a break that empties the entry *)
(* does.                                                                   *)
(***************************************************************************)
EXTENDS Floods, FiniteSetTheorems, NaturalsInduction, WellFoundedInduction, TLAPS

-----------------------------------------------------------------------------
(* Induction, and what is left of a list                                   *)

\* A set of numbers has a least one.
LEMMA LeastOf ==
  ASSUME NEW S \in SUBSET Nat, S # {}
  PROVE  \E m \in S : \A i \in S : m <= i
<1> DEFINE R == OpToRel(<, Nat)
<1>1. IsWellFoundedOn(R, Nat)
  BY NatLessThanWellFounded
<1>2. \A x, y \in Nat : <<x, y>> \in R <=> x < y
  BY DEF OpToRel
<1> HIDE DEF R
<1>3. PICK m \in S : \A i \in S : <<i, m>> \notin R
  BY <1>1, WFMin
<1>4. \A i \in S : i \in Nat /\ m \in Nat /\ ~(i < m)
  BY <1>2, <1>3
<1>5. \A i \in S : m <= i
  BY <1>4
<1> QED
  BY <1>5

\* A set that has 0 and with each number the next has all of them.
LEMMA Induct ==
  ASSUME NEW S, 0 \in S, \A n \in Nat : n \in S => n + 1 \in S
  PROVE  Nat \subseteq S
<1> SUFFICES ASSUME NEW n \in Nat, n \notin S PROVE FALSE
  OBVIOUS
<1>1. PICK m \in Nat \ S : \A i \in Nat \ S : m <= i
  BY LeastOf
<1>2. m # 0 /\ m - 1 \in Nat /\ m - 1 + 1 = m
  BY <1>1
<1> QED
  BY <1>1, <1>2

\* left, the places of an old list that are those of a new one, is increasing
\* and meets every place that is kept.
Shrinks(new, old, keep, left) ==
  /\ left \in [1 .. Len(new) -> keep]
  /\ \A i, j \in 1 .. Len(new) : i < j => left[i] < left[j]
  /\ \A k \in keep : \E i \in 1 .. Len(new) : left[i] = k
  /\ \A i \in 1 .. Len(new) : new[i] = old[left[i]]

\* The recursive function in Left exists.
LEMMA LeftDefined ==
  ASSUME NEW S, NEW l \in Seq(S), NEW keep \in SUBSET DOMAIN l
  PROVE  \E g : /\ Left(l, keep) = g[Len(l)]
                /\ g[0] = <<>>
                /\ \A i \in 1 .. Len(l) :
                     g[i] = IF i \in keep THEN Append(g[i - 1], l[i]) ELSE g[i - 1]
<1> DEFINE step(g, i) == IF i = 0 THEN <<>>
                         ELSE IF i \in keep THEN Append(g[i - 1], l[i]) ELSE g[i - 1]
           Upto(m, g) == g = [i \in 0 .. m |-> step(g, i)]
           Good == {m \in Nat : \E g : Upto(m, g)}
<1>0. ASSUME NEW g, NEW h, NEW i, i # 0 => g[i - 1] = h[i - 1]
      PROVE  step(g, i) = step(h, i)
  BY <1>0
<1>1. Left(l, keep) = (CHOOSE g : Upto(Len(l), g))[Len(l)]
  BY DEF Left
<1>2. \A g, i : step(g, i) = IF i = 0 THEN <<>>
                 ELSE IF i \in keep THEN Append(g[i - 1], l[i]) ELSE g[i - 1]
  OBVIOUS
<1> HIDE DEF step
<1>3. 0 \in Good
  <2> DEFINE h == [i \in 0 .. 0 |-> step(<<>>, i)]
  <2>1. \A i \in 0 .. 0 : step(<<>>, i) = step(h, i)
    BY <1>0
  <2>2. Upto(0, h)
    BY <2>1
  <2> QED
    BY <2>2
<1>4. ASSUME NEW m \in Nat, m \in Good PROVE m + 1 \in Good
  <2>1. PICK g : Upto(m, g)
    BY <1>4
  <2> DEFINE h == [i \in 0 .. m + 1 |-> step(g, i)]
  <2>2. \A i \in 0 .. m : h[i] = g[i]
    BY <2>1
  <2>3. \A i \in 0 .. m + 1 : i # 0 => i - 1 \in 0 .. m
    OBVIOUS
  <2>4. \A i \in 0 .. m + 1 : step(g, i) = step(h, i)
    <3> HIDE DEF h
    <3> QED
      BY <1>0, <2>2, <2>3
  <2>5. Upto(m + 1, h)
    BY <2>4
  <2> HIDE DEF h, Upto
  <2> QED
    BY <2>5
<1>5. Len(l) \in Good
  <2> HIDE DEF Good
  <2> QED
    BY <1>3, <1>4, Induct
<1> DEFINE f == CHOOSE g : Upto(Len(l), g)
<1>6. Upto(Len(l), f)
  BY <1>5
<1>7. Left(l, keep) = f[Len(l)]
  BY <1>1
<1>8. \A i \in 0 .. Len(l) : f[i] = step(f, i)
  <2> HIDE DEF f
  <2> QED
    BY <1>6
<1> HIDE DEF Upto, f
<1>9. 0 \in 0 .. Len(l) /\ \A i \in 1 .. Len(l) : i \in 0 .. Len(l) /\ i # 0
  OBVIOUS
<1> QED
  BY <1>2, <1>7, <1>8, <1>9

\* One more entry that stays.
LEMMA ShrinksLonger ==
  ASSUME NEW S, NEW l \in Seq(S), NEW keep \in SUBSET DOMAIN l, NEW n \in Nat, n + 1 \in keep,
         NEW old \in Seq(S), NEW left, Shrinks(old, l, keep \cap 1 .. n, left)
  PROVE  \E new : Shrinks(Append(old, l[n + 1]), l, keep \cap 1 .. (n + 1), new)
<1> DEFINE m == Len(old)
           bag == keep \cap 1 .. (n + 1)
           longer == Append(old, l[n + 1])
           new == [i \in 1 .. m + 1 |-> IF i <= m THEN left[i] ELSE n + 1]
<1>1. /\ l[n + 1] \in S /\ m \in Nat /\ Len(longer) = m + 1
      /\ \A i \in 1 .. m : longer[i] = old[i]
      /\ longer[m + 1] = l[n + 1]
  OBVIOUS
<1>2. /\ \A i \in 1 .. m : left[i] \in keep \cap 1 .. n
      /\ \A i, j \in 1 .. m : i < j => left[i] < left[j]
      /\ \A k \in keep \cap 1 .. n : \E i \in 1 .. m : left[i] = k
      /\ \A i \in 1 .. m : old[i] = l[left[i]]
  BY DEF Shrinks
<1>3. bag = (keep \cap 1 .. n) \cup {n + 1}
  OBVIOUS
<1>4. \A i \in 1 .. m : i \in 1 .. m + 1 /\ i <= m
  BY <1>1
<1>5. m + 1 \in 1 .. m + 1 /\ ~(m + 1 <= m) /\ \A i \in 1 .. m + 1 : i \in 1 .. m \/ i = m + 1
  BY <1>1
<1>6. \A i \in 1 .. m : new[i] = left[i]
  <2> HIDE DEF m
  <2> QED
    BY <1>4
<1>7. new[m + 1] = n + 1 /\ new = [i \in 1 .. m + 1 |-> new[i]]
  <2> HIDE DEF m
  <2> QED
    BY <1>5
<1> HIDE DEF new, m, longer, bag
<1>8. \A i \in 1 .. m + 1 : new[i] \in bag
  BY <1>2, <1>3, <1>5, <1>6, <1>7
<1>9. new \in [1 .. m + 1 -> bag]
  BY <1>7, <1>8
<1>10. \A i, j \in 1 .. m + 1 : i < j => new[i] < new[j]
  <2> SUFFICES ASSUME NEW i \in 1 .. m + 1, NEW j \in 1 .. m + 1, i < j
               PROVE  new[i] < new[j]
    OBVIOUS
  <2>1. i \in 1 .. m
    BY <1>1
  <2>2. CASE j = m + 1
    <3>1. left[i] \in 1 .. n
      BY <1>2, <2>1
    <3>2. left[i] < n + 1
      BY <3>1
    <3> QED
      BY <1>6, <1>7, <2>1, <2>2, <3>2
  <2>3. CASE j \in 1 .. m
    BY <1>2, <1>6, <2>1, <2>3
  <2> QED
    BY <1>5, <2>2, <2>3
<1>11. \A k \in bag : \E i \in 1 .. m + 1 : new[i] = k
  <2> SUFFICES ASSUME NEW k \in bag PROVE \E i \in 1 .. m + 1 : new[i] = k
    OBVIOUS
  <2>1. CASE k = n + 1
    BY <1>5, <1>7, <2>1
  <2>2. CASE k \in keep \cap 1 .. n
    <3>1. PICK i \in 1 .. m : left[i] = k
      BY <1>2, <2>2
    <3> QED
      BY <1>4, <1>6, <3>1
  <2> QED
    BY <1>3, <2>1, <2>2
<1>12. \A i \in 1 .. m + 1 : longer[i] = l[new[i]]
  <2> SUFFICES ASSUME NEW i \in 1 .. m + 1 PROVE longer[i] = l[new[i]]
    OBVIOUS
  <2>1. CASE i = m + 1
    BY <1>1, <1>7, <2>1
  <2>2. CASE i \in 1 .. m
    BY <1>1, <1>2, <1>6, <2>2
  <2> QED
    BY <1>5, <2>1, <2>2
<1>13. Shrinks(longer, l, bag, new)
  BY <1>1, <1>9, <1>10, <1>11, <1>12 DEF Shrinks
<1> QED
  BY <1>13 DEF longer, bag

\* What is left are the entries at the places that are kept, in their order.
LEMMA LeftFacts ==
  ASSUME NEW S, NEW l \in Seq(S), NEW keep \in SUBSET DOMAIN l
  PROVE  /\ Left(l, keep) \in Seq(S)
         /\ \E left : Shrinks(Left(l, keep), l, keep, left)
<1>1. PICK g : /\ Left(l, keep) = g[Len(l)]
               /\ g[0] = <<>>
               /\ \A i \in 1 .. Len(l) :
                    g[i] = IF i \in keep THEN Append(g[i - 1], l[i]) ELSE g[i - 1]
  BY LeftDefined
<1> DEFINE Done(i) == /\ g[i] \in Seq(S)
                      /\ \E left : Shrinks(g[i], l, keep \cap 1 .. i, left)
           Good == {i \in Nat : i <= Len(l) => Done(i)}
<1>2. DOMAIN l = 1 .. Len(l) /\ Len(l) \in Nat
  OBVIOUS
<1>a. \A i \in Nat : i \in Good <=> (i <= Len(l) => Done(i))
  <2> HIDE DEF Done
  <2> QED
    OBVIOUS
<1> HIDE DEF Good
<1>3. 0 \in Good
  <2>1. Shrinks(<<>>, l, keep \cap 1 .. 0, [i \in 1 .. 0 |-> 0])
    BY DEF Shrinks
  <2>2. Done(0)
    BY <1>1, <2>1
  <2> HIDE DEF Done
  <2> QED
    BY <1>a, <2>2
<1>4. ASSUME NEW n \in Nat, n \in Good PROVE n + 1 \in Good
  <2>1. CASE n + 1 <= Len(l)
    <3>1. Done(n)
      <4> HIDE DEF Done
      <4>1. n <= Len(l)
        BY <1>2, <2>1
      <4> QED
        BY <1>4, <1>a, <4>1
    <3>2. n + 1 \in 1 .. Len(l) /\ n + 1 - 1 = n
      BY <1>2, <2>1
    <3>3. g[n + 1] = IF n + 1 \in keep THEN Append(g[n], l[n + 1]) ELSE g[n]
      BY <1>1, <3>2
    <3>4. CASE n + 1 \notin keep
      <4>1. keep \cap 1 .. n = keep \cap 1 .. (n + 1)
        BY <3>4
      <4>2. Done(n + 1)
        BY <3>1, <3>3, <3>4, <4>1
      <4> HIDE DEF Done
      <4> QED
        BY <1>a, <4>2
    <3>5. CASE n + 1 \in keep
      <4>1. PICK left : Shrinks(g[n], l, keep \cap 1 .. n, left)
        BY <3>1
      <4>2. \E new : Shrinks(Append(g[n], l[n + 1]), l, keep \cap 1 .. (n + 1), new)
        BY <3>1, <3>5, <4>1, ShrinksLonger
      <4>3. g[n + 1] = Append(g[n], l[n + 1]) /\ l[n + 1] \in S
        BY <1>2, <3>2, <3>3, <3>5
      <4>4. Done(n + 1)
        BY <3>1, <4>2, <4>3
      <4> HIDE DEF Done
      <4> QED
        BY <1>a, <4>4
    <3> QED
      BY <3>4, <3>5
  <2>2. CASE ~(n + 1 <= Len(l))
    <3> HIDE DEF Done
    <3> QED
      BY <1>a, <2>2
  <2> QED
    BY <2>1, <2>2
<1>5. Done(Len(l))
  <2> HIDE DEF Done
  <2>1. Len(l) \in Good
    BY <1>2, <1>3, <1>4, Induct
  <2> QED
    BY <1>2, <1>a, <2>1
<1>6. keep \cap 1 .. Len(l) = keep
  BY <1>2
<1> QED
  BY <1>1, <1>5, <1>6

\* A set of numbers up to n has a greatest.
LEMMA Greatest ==
  ASSUME NEW n \in Nat, NEW P \in SUBSET (1 .. n), P # {}
  PROVE  \E m \in P : \A i \in P : i <= m
<1> DEFINE Has(Q) == \E m \in Q : \A i \in Q : i <= m
           Good == {k \in Nat : \A Q \in SUBSET (1 .. k) : Q = {} \/ Has(Q)}
<1>1. 0 \in Good
  <2>1. \A Q \in SUBSET (1 .. 0) : Q = {}
    OBVIOUS
  <2> HIDE DEF Has
  <2> QED
    BY <2>1
<1>2. ASSUME NEW k \in Nat, k \in Good PROVE k + 1 \in Good
  <2> SUFFICES ASSUME NEW Q \in SUBSET (1 .. k + 1), Q # {} PROVE Has(Q)
    <3> HIDE DEF Has
    <3> QED
      OBVIOUS
  <2>1. CASE k + 1 \in Q
    BY <2>1
  <2>2. CASE k + 1 \notin Q
    <3>1. Q \in SUBSET (1 .. k)
      BY <2>2
    <3> HIDE DEF Has
    <3> QED
      BY <1>2, <3>1
  <2> QED
    BY <2>1, <2>2
<1> HIDE DEF Has
<1>3. n \in Good
  <2> HIDE DEF Good
  <2> QED
    BY <1>1, <1>2, Induct
<1>4. Has(P)
  BY <1>3
<1> QED
  BY <1>4 DEF Has

LEMMA Single ==
  ASSUME NEW k \in Int
  PROVE  Min({k}) = k
BY DEF Min

-----------------------------------------------------------------------------
(* The notices of a source and their last streak                           *)

Entry == [src : world.sources, first : world.sources, count : Nat, last : Nat, next : Nat]
Record == [at : Nat, src : world.sources, acted : BOOLEAN]
Typed ==
  /\ world \in Worlds /\ now \in Nat /\ list \in Seq(Entry) /\ past \in Seq(Record)
  /\ \A i \in DOMAIN past : past[i].at <= now

\* The last notice of s.
Recent(p, s) == p \in Mine(Len(past), s) /\ \A i \in Mine(Len(past), s) : i <= p

\* One more notice.
Adds(x) == past' = Append(past, x) /\ x \in Record /\ world' = world

LEMMA Elements ==
  ASSUME Typed
  PROVE  /\ Len(past) \in Nat /\ DOMAIN past = 1 .. Len(past)
         /\ \A k \in DOMAIN list :
              /\ list[k] \in Entry /\ list[k].src \in world.sources
              /\ list[k].first \in world.sources /\ list[k].count \in Nat
              /\ list[k].last \in Nat /\ list[k].next \in Nat
         /\ \A p \in DOMAIN past :
              /\ past[p].at \in Nat /\ past[p].src \in world.sources /\ past[p].at <= now
              /\ past[p].acted \in BOOLEAN
<1>1. \A k \in DOMAIN list : list[k] \in Entry
  BY DEF Typed
<1>2. \A p \in DOMAIN past : past[p] \in Record
  BY DEF Typed
<1>3. \A p \in DOMAIN past : past[p].at \in Nat /\ past[p].src \in world.sources /\ past[p].acted \in BOOLEAN
  BY <1>2 DEF Record
<1> QED
  BY <1>1, <1>3 DEF Typed, Entry

LEMMA KeyFacts ==
  ASSUME Clear
  PROVE  /\ \A a \in world.sources : SameKey(a, a)
         /\ \A a, b \in world.sources : SameKey(a, b) => SameKey(b, a)
         /\ \A a, b, c \in world.sources : SameKey(a, b) /\ SameKey(b, c) => SameKey(a, c)
<1>1. \A a, b : SameKey(a, b) => SameKey(b, a)
  BY DEF SameKey
<1>2. \A a : SameKey(a, a)
  BY DEF SameKey
<1> QED
  BY <1>1, <1>2 DEF Clear

LEMMA KeyKept ==
  ASSUME world' = world
  PROVE  /\ \A a, b : SameKey(a, b)' <=> SameKey(a, b)
         /\ Clear' <=> Clear
         /\ GapToCount' = GapToCount /\ GapToTell' = GapToTell
         /\ Least' = Least /\ Enough' = Enough /\ Window' = Window
         /\ Entry' = Entry /\ Record' = Record
<1>1. \A a, b : SameKey(a, b)' <=> SameKey(a, b)
  BY DEF SameKey
<1>2. Clear' <=> Clear
  BY <1>1 DEF Clear
<1> QED
  BY <1>1, <1>2 DEF GapToCount, GapToTell, Least, Enough, Window, MaxCount, MaxTime, Entry, Record

LEMMA LimitFacts ==
  ASSUME Typed
  PROVE  /\ world.kind \in Kinds /\ world.sources \subseteq Source
         /\ MaxCount \in Int /\ MaxTime \in Int
         /\ GapToCount \in Int /\ GapToTell \in Int /\ GapToTell <= GapToCount
         /\ Least \in Int /\ Enough \in Nat /\ Enough > MaxCount
         /\ Enough >= 1 /\ (world.kind # "jupe" => Enough >= 2)
         /\ world.kind # "nick" => GapToTell = MaxTime /\ GapToCount = MaxTime
         /\ world.kind \in {"flood", "nick"} => Least = MaxCount
         /\ world.kind \notin {"flood", "nick"} => Least = MaxCount + 1 /\ MaxCount >= 0
<1>1. /\ world.kind \in Kinds /\ world.sources \subseteq Source
      /\ MaxCount \in Int /\ MaxTime \in Int
      /\ world.kind \in NoticeKinds \cup {"jupe"} => MaxCount >= 0
  BY WorldsAreWorlds DEF Typed, MaxCount, MaxTime
<1>2. Kinds = NoticeKinds \cup {"flood", "jupe", "nick"}
  BY DEF Kinds
<1>3. /\ GapToCount \in Int /\ GapToTell \in Int /\ GapToTell <= GapToCount
      /\ world.kind # "nick" => GapToTell = MaxTime /\ GapToCount = MaxTime
  BY <1>1, TimesAssumption DEF GapToCount, GapToTell
<1>4. /\ Enough \in Nat /\ Enough > MaxCount /\ Enough >= 1
      /\ world.kind # "jupe" => Enough >= 2
  BY <1>1 DEF Enough
<1>5. /\ world.kind \in {"flood", "nick"} => Least = MaxCount
      /\ world.kind \notin {"flood", "nick"} => Least = MaxCount + 1
      /\ Least \in Int
  BY <1>1 DEF Least
<1> QED
  BY <1>1, <1>2, <1>3, <1>4, <1>5

LEMMA NewNotice ==
  ASSUME Typed, NEW x, Adds(x), NEW N \in Nat, N = Len(past)
  PROVE  /\ past' \in Seq(Record) /\ Len(past') = N + 1
         /\ \A i \in 1 .. N : past'[i] = past[i]
         /\ past'[N + 1] = x
BY KeyKept DEF Typed, Adds

\* What was before does not change with the new notice.
LEMMA OldNotices ==
  ASSUME Typed, NEW x, Adds(x), NEW n \in 0 .. Len(past), NEW s, NEW gap
  PROVE  /\ Mine(n, s)' = Mine(n, s)
         /\ Streak(n, s, gap)' = Streak(n, s, gap)
         /\ Run(n, s, gap)' = Run(n, s, gap)
<1>1. Len(past) \in Nat /\ \A i \in 1 .. n : i \in 1 .. Len(past)
  BY DEF Typed
<1>2. \A i \in 1 .. n : past'[i] = past[i]
  BY <1>1, NewNotice
<1>3. Mine(n, s)' = Mine(n, s)
  BY <1>2, KeyKept DEF Mine, Adds
<1>4. \A i, j \in Mine(n, s) : Breaks(i, j, gap)' <=> Breaks(i, j, gap)
  BY <1>2 DEF Mine, Adds, Breaks
<1>5. Streak(n, s, gap)' = Streak(n, s, gap)
  BY <1>3, <1>4 DEF Streak
<1> QED
  BY <1>3, <1>5 DEF Run

LEMMA MineFacts ==
  ASSUME Typed, NEW n \in 0 .. Len(past), NEW s, NEW gap
  PROVE  /\ Mine(n, s) \subseteq 1 .. n /\ Streak(n, s, gap) \subseteq Mine(n, s)
         /\ IsFiniteSet(Streak(n, s, gap)) /\ Run(n, s, gap) \in Nat
<1>1. Mine(n, s) \subseteq 1 .. n /\ Streak(n, s, gap) \subseteq Mine(n, s)
  BY DEF Mine, Streak
<1>2. IsFiniteSet(1 .. n)
  BY FS_Interval DEF Typed
<1>3. IsFiniteSet(Streak(n, s, gap))
  BY <1>1, <1>2, FS_Subset
<1> QED
  BY <1>1, <1>3, FS_CardinalityType DEF Run

\* Sources that share a key have the same notices.
LEMMA SameMine ==
  ASSUME Typed, Clear, NEW s \in world.sources, NEW t \in world.sources, SameKey(s, t),
         NEW n \in 0 .. Len(past), NEW gap
  PROVE  /\ Mine(n, s) = Mine(n, t) /\ Streak(n, s, gap) = Streak(n, t, gap)
         /\ Run(n, s, gap) = Run(n, t, gap)
<1>1. \A i \in 1 .. n : past[i].src \in world.sources
  <2>1. \A i \in 1 .. n : i \in 1 .. Len(past)
    BY DEF Typed
  <2>2. \A i \in 1 .. Len(past) : past[i] \in Record
    BY DEF Typed
  <2> QED
    BY <2>1, <2>2 DEF Record
<1>2. \A i \in 1 .. n : SameKey(past[i].src, s) <=> SameKey(past[i].src, t)
  BY <1>1, KeyFacts
<1>3. Mine(n, s) = Mine(n, t)
  BY <1>2 DEF Mine
<1> QED
  BY <1>3 DEF Streak, Run

LEMMA RecentExists ==
  ASSUME Typed, NEW s, Mine(Len(past), s) # {}
  PROVE  \E p \in Mine(Len(past), s) : Recent(p, s)
<1>1. Len(past) \in Nat /\ Mine(Len(past), s) \in SUBSET (1 .. Len(past))
  BY DEF Mine, Typed
<1> QED
  BY <1>1, Greatest DEF Recent

-----------------------------------------------------------------------------
(* What a notice adds to the streaks                                       *)

\* The notices of s, with one more of t.
LEMMA MineGrows ==
  ASSUME Typed, NEW x, Adds(x), NEW s, NEW N \in Nat, N = Len(past)
  PROVE  /\ Mine(N + 1, s)' = IF SameKey(x.src, s) THEN Mine(N, s) \cup {N + 1} ELSE Mine(N, s)
         /\ Len(past') = N + 1 /\ N + 1 \notin Mine(N, s) /\ Mine(N, s) \subseteq 1 .. N
<1>1. /\ past' \in Seq(Record) /\ Len(past') = N + 1
      /\ \A i \in 1 .. N : past'[i] = past[i]
      /\ past'[N + 1] = x
  BY NewNotice
<1>2. 1 .. N + 1 = (1 .. N) \cup {N + 1} /\ N + 1 \notin 1 .. N
  OBVIOUS
<1>3. \A a, b : SameKey(a, b)' <=> SameKey(a, b)
  BY KeyKept DEF Adds
<1> QED
  BY <1>1, <1>2, <1>3 DEF Mine

\* Another's notice leaves the streak alone.
LEMMA OthersStreak ==
  ASSUME Typed, NEW x, Adds(x), NEW s, NEW N \in Nat, N = Len(past), ~SameKey(x.src, s), NEW gap
  PROVE  Mine(N + 1, s)' = Mine(N, s) /\ Run(N + 1, s, gap)' = Run(N, s, gap)
<1>1. Mine(N + 1, s)' = Mine(N, s)
  BY MineGrows
<1>2. Mine(N, s)' = Mine(N, s) /\ Streak(N, s, gap)' = Streak(N, s, gap)
  BY OldNotices
<1>3. Streak(N + 1, s, gap)' = Streak(N, s, gap)'
  BY <1>1, <1>2 DEF Streak
<1> QED
  BY <1>1, <1>2, <1>3 DEF Run

\* The first notice of a source is a streak of one.
LEMMA FirstRun ==
  ASSUME Typed, NEW x, Adds(x), NEW s, NEW N \in Nat, N = Len(past), SameKey(x.src, s), NEW gap,
         Mine(N, s) = {}
  PROVE  Run(N + 1, s, gap)' = 1
<1>1. Mine(N + 1, s)' = {N + 1}
  BY MineGrows
<1>2. Streak(N + 1, s, gap)' = {N + 1}
  BY <1>1 DEF Streak
<1> QED
  BY <1>2, FS_Singleton DEF Run

\* A source's notice goes on with the streak, or begins a new one.
LEMMA NextRun ==
  ASSUME Typed, NEW x, Adds(x), NEW s, NEW N \in Nat, N = Len(past), SameKey(x.src, s), NEW gap,
         NEW p, Recent(p, s), x.at = now
  PROVE  IF now - past[p].at > gap \/ (world.kind \in NoticeKinds /\ past[p].acted)
         THEN Run(N + 1, s, gap)' = 1 ELSE Run(N + 1, s, gap)' = Run(N, s, gap) + 1
<1> DEFINE B == now - past[p].at > gap \/ (world.kind \in NoticeKinds /\ past[p].acted)
           M == Mine(N, s)
<1>1. Mine(N + 1, s)' = M \cup {N + 1} /\ N + 1 \notin M /\ M \subseteq 1 .. N
  BY MineGrows
<1>2. p \in M /\ \A i \in M : i <= p /\ i < N + 1
  BY <1>1 DEF Recent
<1>3. \A i, j \in M : Breaks(i, j, gap)' <=> Breaks(i, j, gap)
  <2>1. \A i \in M : past'[i] = past[i]
    BY <1>1, NewNotice
  <2> QED
    BY <2>1 DEF Adds, Breaks
<1>4. Breaks(p, N + 1, gap)' <=> B
  <2>1. past'[p] = past[p] /\ past'[N + 1] = x
    BY <1>1, <1>2, NewNotice
  <2> QED
    BY <2>1 DEF Adds, Breaks
<1> HIDE DEF B, M
<1>5. Streak(N, s, gap) = {k \in M : \A i, j \in M :
         k <= i /\ i < j /\ M \cap (i+1)..(j-1) = {} => ~Breaks(i, j, gap)}
  BY DEF Streak, M
<1>6. Streak(N + 1, s, gap)' = {k \in M \cup {N + 1} : \A i, j \in M \cup {N + 1} :
         k <= i /\ i < j /\ (M \cup {N + 1}) \cap (i+1)..(j-1) = {} => ~Breaks(i, j, gap)'}
  BY <1>1 DEF Streak
<1>7. \A i, j \in M : (M \cup {N + 1}) \cap (i+1)..(j-1) = M \cap (i+1)..(j-1)
  BY <1>1
<1>8. \A i \in M : (M \cup {N + 1}) \cap (i+1)..(N+1-1) = {} => i = p
  BY <1>1, <1>2
<1>9. (M \cup {N + 1}) \cap (p+1)..(N+1-1) = {}
  BY <1>1, <1>2
<1>10. N + 1 \in Streak(N + 1, s, gap)'
  BY <1>1, <1>2, <1>6
<1>11. \A k \in M : k \in Streak(N + 1, s, gap)' <=> k \in Streak(N, s, gap) /\ ~B
  <2> SUFFICES ASSUME NEW k \in M
               PROVE  k \in Streak(N + 1, s, gap)' <=> k \in Streak(N, s, gap) /\ ~B
    OBVIOUS
  <2>1. ASSUME k \in Streak(N + 1, s, gap)' PROVE k \in Streak(N, s, gap) /\ ~B
    <3>1. ~B
      BY <2>1, <1>1, <1>2, <1>4, <1>6, <1>9
    <3>2. k \in Streak(N, s, gap)
      BY <2>1, <1>3, <1>5, <1>6, <1>7
    <3> QED
      BY <3>1, <3>2
  <2>2. ASSUME k \in Streak(N, s, gap), ~B PROVE k \in Streak(N + 1, s, gap)'
    <3> SUFFICES ASSUME NEW i \in M \cup {N + 1}, NEW j \in M \cup {N + 1}, k <= i, i < j,
                        (M \cup {N + 1}) \cap (i+1)..(j-1) = {}
                 PROVE  ~Breaks(i, j, gap)'
      BY <1>6
    <3>1. i \in M
      BY <1>1, <1>2
    <3>2. CASE j \in M
      BY <3>1, <3>2, <2>2, <1>3, <1>5, <1>7
    <3>3. CASE j = N + 1
      BY <3>1, <3>3, <2>2, <1>4, <1>8
    <3> QED
      BY <3>2, <3>3
  <2> QED
    BY <2>1, <2>2
<1>12. N \in 0 .. Len(past)
  OBVIOUS
<1>13. /\ Streak(N, s, gap) \subseteq M /\ IsFiniteSet(Streak(N, s, gap))
       /\ Run(N, s, gap) = Cardinality(Streak(N, s, gap)) /\ Run(N, s, gap) \in Nat
  BY <1>12, MineFacts DEF Run, M
<1>14. Run(N + 1, s, gap)' = Cardinality(Streak(N + 1, s, gap)')
  BY DEF Run
<1>15. CASE B
  <2>1. Streak(N + 1, s, gap)' = {N + 1}
    BY <1>6, <1>10, <1>11, <1>15
  <2> QED
    BY <1>14, <1>15, <2>1, FS_Singleton DEF B
<1>16. CASE ~B
  <2>1. Streak(N + 1, s, gap)' = Streak(N, s, gap) \cup {N + 1}
    BY <1>6, <1>10, <1>11, <1>13, <1>16
  <2>2. N + 1 \notin Streak(N, s, gap)
    BY <1>1, <1>13 DEF M
  <2>3. Cardinality(Streak(N, s, gap) \cup {N + 1}) = Cardinality(Streak(N, s, gap)) + 1
    BY <1>13, <2>2, FS_AddElement
  <2> QED
    BY <1>13, <1>14, <1>16, <2>1, <2>3 DEF B
<1> QED
  BY <1>15, <1>16

\* The last notice of a source after the next one.
LEMMA NextRecent ==
  ASSUME Typed, NEW x, Adds(x), NEW s, NEW N \in Nat, N = Len(past)
  PROVE  /\ SameKey(x.src, s) => \A p : Recent(p, s)' <=> p = N + 1
         /\ ~SameKey(x.src, s) => \A p : Recent(p, s)' <=> Recent(p, s)
<1>1. /\ Mine(N + 1, s)' = IF SameKey(x.src, s) THEN Mine(N, s) \cup {N + 1} ELSE Mine(N, s)
      /\ Len(past') = N + 1 /\ N + 1 \notin Mine(N, s) /\ Mine(N, s) \subseteq 1 .. N
  BY MineGrows
<1>2. Mine(Len(past), s)' = Mine(N + 1, s)'
  BY <1>1 DEF Mine
<1>3. \A i \in Mine(N, s) : i < N + 1 /\ i <= N + 1 /\ i \in Nat
  BY <1>1
<1>4. ASSUME SameKey(x.src, s), NEW p PROVE Recent(p, s)' <=> p = N + 1
  <2>1. Mine(Len(past), s)' = Mine(N, s) \cup {N + 1}
    BY <1>1, <1>2, <1>4
  <2>2. ASSUME Recent(p, s)' PROVE p = N + 1
    <3>1. p \in Mine(N, s) \cup {N + 1} /\ N + 1 <= p
      BY <2>1, <2>2 DEF Recent
    <3> QED
      BY <3>1, <1>3
  <2>3. ASSUME p = N + 1 PROVE Recent(p, s)'
    BY <2>1, <2>3, <1>3 DEF Recent
  <2> QED
    BY <2>2, <2>3 DEF Recent
<1>5. ASSUME ~SameKey(x.src, s), NEW p PROVE Recent(p, s)' <=> Recent(p, s)
  BY <1>1, <1>2, <1>5 DEF Recent
<1> QED
  BY <1>4, <1>5

-----------------------------------------------------------------------------
(* The invariant                                                           *)

\* One entry for a key.
Keyed == \A i, j \in DOMAIN list : SameKey(list[i].src, list[j].src) => i = j

\* The entry e, p its source's last notice: its count lies between the streaks.
Counts(e, p) ==
  /\ past[p].at = e.last /\ past[p].src = e.src /\ SameKey(e.first, e.src)
  /\ IF world.kind \in NoticeKinds /\ past[p].acted THEN e.count = 0
     ELSE /\ e.count <= Run(Len(past), e.src, GapToCount)
          /\ Run(Len(past), e.src, GapToTell) <=
               e.count + (IF world.kind = "flood" THEN 1 ELSE 0)
  /\ world.kind = "nick" => e.count >= 1

\* A report is withheld because of an earlier one.
Withholds(e) ==
  e.next = 0 \/ \E i \in Mine(Len(past), e.src) :
                  (past[i].acted \/ past[i].src.exempt) /\ e.next = past[i].at + Pause
Tells(e) == Withholds(e) /\ \E p \in DOMAIN past : Recent(p, e.src) /\ Counts(e, p)

\* Who sent a notice not too long ago has an entry.
Complete ==
  \A s \in world.sources : \A p \in DOMAIN past :
    Recent(p, s) /\ now - past[p].at <= GapToTell
      => \E k \in DOMAIN list : SameKey(list[k].src, s)

\* The three properties, of the notice n: who sends enough without a pause is
\* acted on, however long it takes.
CauseAt(n) == past[n].acted => Run(n, past[n].src, GapToCount) >= Least
PunishedAt(n) ==
  /\ \A t \in world.sources : SameKey(past[n].src, t) => ~t.exempt /\ t.local
  /\ Run(n, past[n].src, GapToTell) >= Enough
  => \/ past[n].acted
     \/ world.kind = "nick" /\ \E i \in Mine(n - 1, past[n].src) :
          past[i].acted /\ past[n].at - past[i].at < Pause
SparedAt(n) ==
  /\ past[n].acted /\ past[n].src.exempt =>
       /\ world.kind \in {"toomany", "connect"}
       /\ \E t \in world.sources : SameKey(t, past[n].src) /\ ~t.exempt
  /\ past[n].acted /\ past[n].src.oper => world.kind # "flood"
Just(n) == CauseAt(n) /\ PunishedAt(n) /\ SparedAt(n)

Book ==
  Keyed /\ Complete /\ (\A k \in DOMAIN list : Tells(list[k])) /\ \A n \in DOMAIN past : Just(n)
IInv == Clear => Typed /\ Book

-----------------------------------------------------------------------------
(* What a notice does to the list                                          *)

\* The list has the entry e for s, and of the others all that are young enough.
Becomes(s, e) ==
  /\ list' \in Seq(Entry) /\ Keyed'
  /\ \E k \in DOMAIN list' :
       /\ list'[k] = e
       /\ \A j \in DOMAIN list' \ {k} :
            \E i \in DOMAIN list : list'[j] = list[i] /\ ~SameKey(list[i].src, s)
  /\ \A i \in DOMAIN list :
       \/ SameKey(list[i].src, s) \/ now - list[i].last > GapToTell
       \/ \E j \in DOMAIN list' : list'[j] = list[i]

\* keep holds the entries of others that are young enough.
Keeps(keep, s) ==
  \A i \in DOMAIN list \ keep : SameKey(list[i].src, s) \/ now - list[i].last > GapToTell

LEMMA LeftList ==
  ASSUME Typed, Keyed, NEW keep \in SUBSET DOMAIN list, NEW l, l = Left(list, keep)
  PROVE  /\ l \in Seq(Entry)
         /\ \A j \in DOMAIN l : \E i \in keep : l[j] = list[i]
         /\ \A i \in keep : \E j \in DOMAIN l : l[j] = list[i]
         /\ \A j, k \in DOMAIN l : SameKey(l[j].src, l[k].src) => j = k
<1>1. list \in Seq(Entry)
  BY DEF Typed
<1>2. /\ Left(list, keep) \in Seq(Entry)
      /\ \E left : Shrinks(Left(list, keep), list, keep, left)
  BY <1>1, LeftFacts
<1>3. PICK left : Shrinks(l, list, keep, left)
  BY <1>2
<1>4. l \in Seq(Entry) /\ DOMAIN l = 1 .. Len(l) /\ Len(l) \in Nat
  BY <1>2
<1>5. /\ \A j \in DOMAIN l : left[j] \in keep /\ l[j] = list[left[j]]
      /\ \A i \in keep : \E j \in DOMAIN l : left[j] = i
      /\ \A j, k \in DOMAIN l : j < k => left[j] < left[k]
  BY <1>3, <1>4 DEF Shrinks
<1>6. ASSUME NEW j \in DOMAIN l, NEW k \in DOMAIN l, SameKey(l[j].src, l[k].src)
      PROVE  j = k
  <2>1. left[j] = left[k] /\ left[j] \in Nat
    BY <1>1, <1>5, <1>6 DEF Keyed
  <2>2. ~(left[j] < left[k]) /\ ~(left[k] < left[j])
    BY <2>1
  <2>3. ~(j < k) /\ ~(k < j)
    BY <1>5, <2>2
  <2> QED
    BY <1>4, <2>3
<1> QED
  BY <1>4, <1>5, <1>6

LEMMA Appended ==
  ASSUME Typed, Keyed, Clear, NEW keep \in SUBSET DOMAIN list, NEW s \in world.sources,
         Keeps(keep, s), \A i \in keep : ~SameKey(list[i].src, s),
         NEW e \in Entry, e.src = s, world' = world, list' = Append(Left(list, keep), e)
  PROVE  Becomes(s, e)
<1> DEFINE l == Left(list, keep)
           m == Len(l)
<1>1. /\ l \in Seq(Entry)
      /\ \A j \in DOMAIN l : \E i \in keep : l[j] = list[i]
      /\ \A i \in keep : \E j \in DOMAIN l : l[j] = list[i]
      /\ \A j, k \in DOMAIN l : SameKey(l[j].src, l[k].src) => j = k
  BY LeftList
<1> HIDE DEF l
<1>2. /\ list' \in Seq(Entry) /\ DOMAIN list' = (DOMAIN l) \cup {m + 1} /\ m + 1 \notin DOMAIN l
      /\ \A j \in DOMAIN l : list'[j] = l[j]
      /\ list'[m + 1] = e
  BY <1>1 DEF l
<1> HIDE DEF m
<1>3. \A j \in DOMAIN l : l[j].src \in world.sources /\ ~SameKey(l[j].src, s)
  <2>1. \A j \in DOMAIN l : l[j] \in Entry
    BY <1>1
  <2> QED
    BY <1>1, <2>1 DEF Entry
<1>4. ASSUME NEW j \in DOMAIN list', NEW k \in DOMAIN list', SameKey(list'[j].src, list'[k].src)
      PROVE  j = k
  <2>1. CASE j \in DOMAIN l /\ k \in DOMAIN l
    BY <1>1, <1>2, <1>4, <2>1
  <2>2. CASE j \in DOMAIN l /\ k = m + 1
    BY <1>2, <1>3, <1>4, <2>2
  <2>3. CASE j = m + 1 /\ k \in DOMAIN l
    <3>1. SameKey(s, l[k].src)
      BY <1>2, <1>4, <2>3
    <3> QED
      BY <1>3, <2>3, <3>1, KeyFacts
  <2> QED
    BY <1>2, <2>1, <2>2, <2>3
<1>5. Keyed'
  BY <1>4, KeyKept DEF Keyed
<1>6. \A j \in DOMAIN list' \ {m + 1} :
         \E i \in DOMAIN list : list'[j] = list[i] /\ ~SameKey(list[i].src, s)
  BY <1>1, <1>2
<1>7. \A i \in keep : \E j \in DOMAIN list' : list'[j] = list[i]
  BY <1>1, <1>2
<1> QED
  BY <1>2, <1>5, <1>6, <1>7 DEF Becomes, Keeps

\* The entry of s is at one place.
LEMMA Found ==
  ASSUME Typed, Keyed, Clear, NEW keep \in SUBSET DOMAIN list, NEW s \in world.sources,
         NEW i \in keep, SameKey(list[i].src, s)
  PROVE  \E m \in DOMAIN Left(list, keep) :
           /\ Left(list, keep)[m] = list[i] /\ Places(Left(list, keep), s) = {m}
           /\ Min(Places(Left(list, keep), s)) = m
<1> DEFINE l == Left(list, keep)
<1>1. /\ l \in Seq(Entry)
      /\ \A k \in keep : \E j \in DOMAIN l : l[j] = list[k]
      /\ \A j, k \in DOMAIN l : SameKey(l[j].src, l[k].src) => j = k
  BY LeftList
<1> HIDE DEF l
<1>2. PICK m \in DOMAIN l : l[m] = list[i]
  BY <1>1
<1>3. \A j \in DOMAIN l : l[j].src \in world.sources
  <2>1. \A j \in DOMAIN l : l[j] \in Entry
    BY <1>1
  <2> QED
    BY <2>1 DEF Entry
<1>4. \A j \in DOMAIN l : SameKey(l[j].src, s) => j = m
  BY <1>1, <1>2, <1>3, KeyFacts
<1>5. Places(l, s) = {m}
  BY <1>2, <1>4 DEF Places
<1>6. m \in Int
  BY <1>1
<1>7. Min(Places(l, s)) = m
  BY <1>5, <1>6, Single
<1> QED
  BY <1>2, <1>5, <1>7 DEF l

LEMMA Replaced ==
  ASSUME Typed, Keyed, Clear, NEW keep \in SUBSET DOMAIN list, NEW s \in world.sources,
         Keeps(keep, s), NEW m \in DOMAIN Left(list, keep),
         Places(Left(list, keep), s) = {m},
         NEW e \in Entry, e.src = s, world' = world, list' = [Left(list, keep) EXCEPT ![m] = e]
  PROVE  Becomes(s, e)
<1> DEFINE l == Left(list, keep)
<1>1. /\ l \in Seq(Entry)
      /\ \A j \in DOMAIN l : \E i \in keep : l[j] = list[i]
      /\ \A i \in keep : \E j \in DOMAIN l : l[j] = list[i]
      /\ \A j, k \in DOMAIN l : SameKey(l[j].src, l[k].src) => j = k
  BY LeftList
<1> HIDE DEF l
<1>2. /\ list' \in Seq(Entry) /\ DOMAIN list' = DOMAIN l
      /\ \A j \in DOMAIN l \ {m} : list'[j] = l[j]
      /\ list'[m] = e /\ m \in DOMAIN l
  BY <1>1 DEF l
<1>3. \A j \in DOMAIN l : l[j].src \in world.sources /\ (SameKey(l[j].src, s) => j = m)
  <2>1. \A j \in DOMAIN l : l[j] \in Entry
    BY <1>1
  <2> QED
    BY <2>1 DEF Entry, Places, l
<1>4. ASSUME NEW j \in DOMAIN list', NEW k \in DOMAIN list', SameKey(list'[j].src, list'[k].src)
      PROVE  j = k
  <2>1. CASE j # m /\ k # m
    BY <1>1, <1>2, <1>4, <2>1
  <2>2. CASE j # m /\ k = m
    BY <1>2, <1>3, <1>4, <2>2
  <2>3. CASE j = m /\ k # m
    <3>1. SameKey(s, l[k].src)
      BY <1>2, <1>4, <2>3
    <3> QED
      BY <1>2, <1>3, <2>3, <3>1, KeyFacts
  <2> QED
    BY <2>1, <2>2, <2>3
<1>5. Keyed'
  BY <1>4, KeyKept DEF Keyed
<1>6. \A j \in DOMAIN list' \ {m} :
         \E i \in DOMAIN list : list'[j] = list[i] /\ ~SameKey(list[i].src, s)
  BY <1>1, <1>2, <1>3
<1>7. ASSUME NEW i \in keep
      PROVE  SameKey(list[i].src, s) \/ \E j \in DOMAIN list' : list'[j] = list[i]
  <2>1. PICK j \in DOMAIN l : l[j] = list[i]
    BY <1>1
  <2>2. CASE j = m
    BY <2>1, <2>2 DEF Places, l
  <2>3. CASE j # m
    BY <1>2, <2>1, <2>3
  <2> QED
    BY <2>2, <2>3
<1> QED
  BY <1>2, <1>5, <1>6, <1>7 DEF Becomes, Keeps

-----------------------------------------------------------------------------
(* The streaks of the source of a notice                                   *)

\* If its entry is gone, a new streak begins for those who tell.
LEMMA FreshRuns ==
  ASSUME Typed, Clear, Book, NEW x, Adds(x), x.at = now,
         NEW s \in world.sources, x.src = s, NEW N \in Nat, N = Len(past)
  PROVE  (\A i \in DOMAIN list : SameKey(list[i].src, s) => now - list[i].last > GapToTell)
         => /\ Run(N + 1, s, GapToTell)' = 1
            /\ Run(N + 1, s, GapToCount)' \in Nat /\ Run(N + 1, s, GapToCount)' >= 1
<1>1. SameKey(x.src, s) /\ GapToCount' = GapToCount /\ GapToTell' = GapToTell
  BY KeyFacts, KeyKept DEF Adds
<1>0. ASSUME NEW p, Recent(p, s)
      PROVE  \A gap : IF now - past[p].at > gap \/ (world.kind \in NoticeKinds /\ past[p].acted)
         THEN Run(N + 1, s, gap)' = 1 ELSE Run(N + 1, s, gap)' = Run(N, s, gap) + 1
  BY <1>0, <1>1, NextRun, SMTT(30)
<1> HAVE \A i \in DOMAIN list : SameKey(list[i].src, s) => now - list[i].last > GapToTell
<1>2. CASE Mine(N, s) = {}
  <2>1. \A gap : Run(N + 1, s, gap)' = 1
    BY <1>1, <1>2, FirstRun
  <2>2. Run(N + 1, s, GapToTell)' = 1 /\ Run(N + 1, s, GapToCount)' = 1
    BY <1>1, <2>1
  <2> QED
    BY <2>2
<1>3. CASE Mine(N, s) # {}
  <2>1. PICK p : p \in Mine(N, s) /\ Recent(p, s)
    BY <1>3, RecentExists
  <2>2. p \in DOMAIN past
    BY <2>1 DEF Mine, Typed
  <2>3. now - past[p].at > GapToTell
    <3>1. now - past[p].at \in Int /\ GapToTell \in Int
      BY <2>2, LimitFacts, Elements DEF Typed
    <3> SUFFICES ASSUME now - past[p].at <= GapToTell PROVE FALSE
      BY <3>1
    <3>2. PICK k \in DOMAIN list : SameKey(list[k].src, s)
      BY <2>1, <2>2 DEF Book, Complete
    <3>3. PICK q \in DOMAIN past : Recent(q, list[k].src) /\ past[q].at = list[k].last
      BY DEF Book, Tells, Counts
    <3>4. list[k].src \in world.sources /\ N \in 0 .. Len(past)
      BY Elements
    <3>5. Mine(N, list[k].src) = Mine(N, s)
      BY <3>2, <3>4, SameMine
    <3>6. p = q
      <4>1. p <= q /\ q <= p
        BY <2>1, <3>3, <3>5 DEF Recent
      <4>2. p \in Nat /\ q \in Nat
        BY <2>2, <3>3 DEF Typed
      <4> QED
        BY <4>1, <4>2
    <3> QED
      BY <3>1, <3>2, <3>3, <3>6
  <2>4. \A gap : IF now - past[p].at > gap \/ (world.kind \in NoticeKinds /\ past[p].acted)
         THEN Run(N + 1, s, gap)' = 1 ELSE Run(N + 1, s, gap)' = Run(N, s, gap) + 1
    BY <1>0, <2>1
  <2>5. Run(N + 1, s, GapToTell)' = 1
    BY <1>1, <2>3, <2>4
  <2>6. Run(N, s, GapToCount) \in Nat
    BY MineFacts
  <2>7. Run(N + 1, s, GapToCount)' \in {1, Run(N, s, GapToCount) + 1}
    BY <1>1, <2>4
  <2> QED
    BY <2>5, <2>6, <2>7
<1> QED
  BY <1>2, <1>3

\* Counting on in an entry keeps it between the streaks.
LEMMA UpdateRuns ==
  ASSUME Typed, Clear, Book, NEW x, Adds(x), x.at = now,
         NEW s \in world.sources, x.src = s, NEW N \in Nat, N = Len(past),
         NEW i \in DOMAIN list, SameKey(list[i].src, s),
         NEW r, r = Run(N + 1, s, GapToCount)', NEW t, t = Run(N + 1, s, GapToTell)'
  PROVE  /\ r \in Nat /\ r >= 1 /\ t \in Nat /\ t >= 1
         /\ now - list[i].last > GapToTell => t = 1
         /\ now - list[i].last <= GapToCount => list[i].count + 1 <= r
         /\ now - list[i].last <= GapToTell =>
              t <= list[i].count + 1 + (IF world.kind = "flood" THEN 1 ELSE 0)
<1> DEFINE e == list[i]
<1>1. SameKey(x.src, s) /\ GapToCount' = GapToCount /\ GapToTell' = GapToTell
  BY KeyFacts, KeyKept DEF Adds
<1>2. e \in Entry
  BY DEF Typed
<1>3. e.src \in world.sources /\ e.count \in Nat /\ e.last \in Nat
  BY <1>2 DEF Entry
<1>4. PICK p \in DOMAIN past : Recent(p, e.src) /\ Counts(e, p)
  BY DEF Book, Tells
<1> HIDE DEF e
<1>5. Mine(N, e.src) = Mine(N, s) /\ \A gap : Run(N, e.src, gap) = Run(N, s, gap)
  BY <1>3, SameMine DEF e
<1>6. Recent(p, s)
  BY <1>4, <1>5 DEF Recent
<1>7. \A gap : IF now - e.last > gap \/ (world.kind \in NoticeKinds /\ past[p].acted)
         THEN Run(N + 1, s, gap)' = 1 ELSE Run(N + 1, s, gap)' = Run(N, s, gap) + 1
  <2>1. past[p].at = e.last
    BY <1>4 DEF Counts
  <2>2. \A gap : IF now - past[p].at > gap \/ (world.kind \in NoticeKinds /\ past[p].acted)
         THEN Run(N + 1, s, gap)' = 1 ELSE Run(N + 1, s, gap)' = Run(N, s, gap) + 1
    BY <1>1, <1>6, NextRun
  <2> QED
    BY <2>1, <2>2
<1> DEFINE Emptied == world.kind \in NoticeKinds /\ past[p].acted
           r0 == Run(N, s, GapToCount)
           t0 == Run(N, s, GapToTell)
           slack == IF world.kind = "flood" THEN 1 ELSE 0
<1>8. r0 \in Nat /\ t0 \in Nat /\ slack \in Nat
  BY MineFacts
<1>9. r = IF now - e.last > GapToCount \/ Emptied THEN 1 ELSE r0 + 1
  BY <1>1, <1>7
<1>10. t = IF now - e.last > GapToTell \/ Emptied THEN 1 ELSE t0 + 1
  BY <1>1, <1>7
<1>11. IF Emptied THEN e.count = 0 ELSE e.count <= r0 /\ t0 <= e.count + slack
  BY <1>4, <1>5 DEF Counts
<1>12. now \in Nat /\ GapToCount \in Int /\ GapToTell \in Int
  BY LimitFacts DEF Typed
<1> HIDE DEF Emptied, r0, t0, slack
<1>13. /\ r \in Nat /\ r >= 1 /\ t \in Nat /\ t >= 1
       /\ now - e.last > GapToTell => t = 1
       /\ now - e.last <= GapToCount => e.count + 1 <= r
       /\ now - e.last <= GapToTell => t <= e.count + 1 + slack
  <2>1. CASE Emptied
    BY <1>3, <1>8, <1>9, <1>10, <1>11, <1>12, <2>1
  <2>2. CASE ~Emptied
    <3>1. e.count <= r0 /\ t0 <= e.count + slack
      BY <1>11, <2>2
    <3>2. r = IF now - e.last > GapToCount THEN 1 ELSE r0 + 1
      BY <1>9, <2>2
    <3>3. t = IF now - e.last > GapToTell THEN 1 ELSE t0 + 1
      BY <1>10, <2>2
    <3>4. slack \in Nat /\ r0 \in Nat /\ t0 \in Nat
      BY <1>8
    <3> DEFINE d == now - e.last
    <3>5. d \in Int
      BY <1>3, <1>12
    <3> HIDE DEF d
    <3>6. /\ r \in Nat /\ r >= 1 /\ (d <= GapToCount => e.count + 1 <= r)
      BY <3>1, <3>2, <3>4, <3>5, <1>3, <1>12, SMTT(60) DEF d
    <3>7. /\ t \in Nat /\ t >= 1 /\ (d > GapToTell => t = 1)
          /\ d <= GapToTell => t <= e.count + 1 + slack
      BY <3>1, <3>2, <3>3, <3>4, <3>5, <1>3, <1>12, SMTT(60) DEF d
    <3> QED
      BY <3>6, <3>7 DEF d
  <2> QED
    BY <2>1, <2>2
<1> QED
  BY <1>13 DEF e, slack

\* What was right about an earlier notice stays right.
LEMMA JustKept ==
  ASSUME Typed, NEW x, Adds(x), NEW n \in 1 .. Len(past), Just(n)
  PROVE  Just(n)'
<1>1. past'[n] = past[n] /\ \A i \in 1 .. n : past'[i] = past[i]
  <2>1. Len(past) \in Nat /\ \A i \in 1 .. n : i \in 1 .. Len(past)
    BY DEF Typed
  <2> QED
    BY <2>1, NewNotice
<1>2. n \in 0 .. Len(past) /\ n - 1 \in 0 .. Len(past) /\ n \in Nat
  BY DEF Typed
<1>3. \A s, gap : Run(n, s, gap)' = Run(n, s, gap) /\ Mine(n - 1, s)' = Mine(n - 1, s)
  BY <1>2, OldNotices
<1>4. world' = world /\ \A a, b : SameKey(a, b)' <=> SameKey(a, b)
  BY KeyKept DEF Adds
<1>5. GapToCount' = GapToCount /\ GapToTell' = GapToTell /\ Least' = Least /\ Enough' = Enough
  BY <1>4, KeyKept
<1>6. CauseAt(n)'
  BY <1>1, <1>3, <1>4, <1>5 DEF Just, CauseAt
<1>7. \A s : Mine(n - 1, s) \subseteq 1 .. n
  BY <1>2 DEF Mine
<1>8. PunishedAt(n)'
  BY <1>1, <1>3, <1>4, <1>5, <1>7 DEF Just, PunishedAt
<1>9. SparedAt(n)'
  BY <1>1, <1>4 DEF Just, SparedAt
<1> QED
  BY <1>6, <1>8, <1>9 DEF Just

-----------------------------------------------------------------------------
(* What each notice keeps                                                  *)

\* e is the entry after a notice of s, r and t the streaks that lead up to it:
\* what the notice's action has to make sure of.
Fits(s, e, acted, r, t) ==
  /\ e \in Entry /\ e.src = s /\ e.last = now /\ SameKey(e.first, s) /\ acted \in BOOLEAN
  /\ IF world.kind \in NoticeKinds /\ acted THEN e.count = 0
     ELSE e.count <= r /\ t <= e.count + (IF world.kind = "flood" THEN 1 ELSE 0)
  /\ world.kind = "nick" => e.count >= 1
  /\ \/ e.next = 0
     \/ e.next = now + Pause /\ (acted \/ s.exempt)
     \/ \E i \in Mine(Len(past), s) :
          (past[i].acted \/ past[i].src.exempt) /\ e.next = past[i].at + Pause
Judges(s, acted, r, t) ==
  /\ acted => r >= Least
  /\ /\ \A u \in world.sources : SameKey(s, u) => ~u.exempt /\ u.local
     /\ t >= Enough
     => \/ acted
        \/ world.kind = "nick" /\ \E i \in Mine(Len(past), s) :
             past[i].acted /\ now - past[i].at < Pause
  /\ acted /\ s.exempt =>
       /\ world.kind \in {"toomany", "connect"}
       /\ \E u \in world.sources : SameKey(u, s) /\ ~u.exempt
  /\ acted /\ s.oper => world.kind # "flood"

LEMMA BookStep ==
  ASSUME IInv, Clear, NEW s \in world.sources, NEW acted, NEW e,
         Noted(s, acted), UNCHANGED <<world, now>>,
         NEW N \in Nat, N = Len(past),
         NEW r, r = Run(N + 1, s, GapToCount)', NEW t, t = Run(N + 1, s, GapToTell)',
         Becomes(s, e), Fits(s, e, acted, r, t), Judges(s, acted, r, t)
  PROVE  IInv'
<1> DEFINE x == [at |-> now, src |-> s, acted |-> acted]
<1>1. Typed /\ Book
  BY DEF IInv
<1>2. Adds(x) /\ x.at = now /\ x.src = s /\ x.acted = acted
  BY <1>1 DEF Noted, Fits, Adds, Record, Typed
<1> HIDE DEF x
<1>3. /\ past' \in Seq(Record) /\ Len(past') = N + 1
      /\ \A i \in 1 .. N : past'[i] = past[i]
      /\ past'[N + 1] = x
  BY <1>1, <1>2, NewNotice
<1>4. /\ \A a, b : SameKey(a, b)' <=> SameKey(a, b)
      /\ GapToCount' = GapToCount /\ GapToTell' = GapToTell
      /\ Least' = Least /\ Enough' = Enough /\ Entry' = Entry /\ Record' = Record
      /\ world' = world /\ now' = now
  BY KeyKept
<1>5. DOMAIN past = 1 .. N /\ DOMAIN past' = (1 .. N) \cup {N + 1} /\ N + 1 \notin 1 .. N
  BY <1>1, <1>3, Elements
<1>6. Typed'
  <2>1. \A i \in DOMAIN past' : past'[i].at <= now
    BY <1>1, <1>2, <1>3, <1>5, Elements DEF Typed
  <2> QED
    BY <1>1, <1>3, <1>4, <2>1 DEF Typed, Becomes
<1>7. /\ \A i \in DOMAIN list : list[i].src \in world.sources
      /\ \A i \in DOMAIN past : past[i].src \in world.sources
  BY <1>1, Elements
<1>8. PICK k \in DOMAIN list' :
        /\ list'[k] = e
        /\ \A j \in DOMAIN list' \ {k} :
             \E i \in DOMAIN list : list'[j] = list[i] /\ ~SameKey(list[i].src, s)
  BY DEF Becomes
<1>9. \A u \in world.sources : SameKey(x.src, u) <=> SameKey(u, s)
  BY <1>2, KeyFacts
<1>10. \A u \in world.sources : SameKey(u, s) => \A p : Recent(p, u)' <=> p = N + 1
  BY <1>1, <1>2, <1>9, NextRecent
<1>11. \A u \in world.sources : ~SameKey(u, s) =>
         /\ \A p : Recent(p, u)' <=> Recent(p, u)
         /\ Mine(N + 1, u)' = Mine(N, u)
         /\ \A gap : Run(N + 1, u, gap)' = Run(N, u, gap)
  BY <1>1, <1>2, <1>9, NextRecent, OthersStreak
<1>12. Complete'
  <2> SUFFICES ASSUME NEW u \in world.sources, NEW p \in DOMAIN past', Recent(p, u)',
                      now - past'[p].at <= GapToTell
               PROVE  \E j \in DOMAIN list' : SameKey(list'[j].src, u)
    BY <1>4 DEF Complete
  <2>1. CASE SameKey(u, s)
    <3>1. SameKey(list'[k].src, u)
      BY <1>8, <2>1, KeyFacts DEF Fits
    <3> QED
      BY <3>1
  <2>2. CASE ~SameKey(u, s)
    <3>1. Recent(p, u)
      BY <1>11, <2>2
    <3>2. p \in DOMAIN past /\ past'[p] = past[p]
      BY <1>3, <1>5, <3>1 DEF Recent, Mine
    <3>3. PICK i \in DOMAIN list : SameKey(list[i].src, u)
      BY <1>1, <3>1, <3>2 DEF Book, Complete
    <3>4. ~SameKey(list[i].src, s)
      BY <1>7, <2>2, <3>3, KeyFacts
    <3>5. PICK q \in DOMAIN past : Recent(q, list[i].src) /\ past[q].at = list[i].last
      BY <1>1 DEF Book, Tells, Counts
    <3>6. Mine(N, list[i].src) = Mine(N, u)
      <4>1. N \in 0 .. Len(past)
        OBVIOUS
      <4> QED
        BY <1>1, <1>7, <3>3, <4>1, SameMine
    <3>7. p = q
      <4>1. p <= q /\ q <= p
        BY <3>1, <3>5, <3>6 DEF Recent
      <4>2. p \in Nat /\ q \in Nat
        BY <1>5, <3>2, <3>5
      <4> QED
        BY <4>1, <4>2
    <3>8. ~(now - list[i].last > GapToTell)
      <4>1. now - list[i].last \in Int /\ GapToTell \in Int
        BY <1>1, Elements, LimitFacts DEF Typed
      <4> QED
        BY <3>2, <3>5, <3>7, <4>1
    <3>9. PICK j \in DOMAIN list' : list'[j] = list[i]
      BY <3>4, <3>8 DEF Becomes
    <3> QED
      BY <3>3, <3>9
  <2> QED
    BY <2>1, <2>2
<1>13. ASSUME NEW j \in DOMAIN list' PROVE Tells(list[j])'
  <2>1. CASE j = k
    <3>1. list'[j] = e /\ e.src = s
      BY <1>8, <2>1 DEF Fits
    <3>2. Recent(N + 1, s)' /\ N + 1 \in DOMAIN past'
      BY <1>5, <1>10, KeyFacts
    <3>3. Counts(e, N + 1)'
      BY <1>2, <1>3, <1>4, <3>1 DEF Counts, Fits
    <3>4. Withholds(e)'
      <4>1. Mine(N + 1, s)' = Mine(N, s) \cup {N + 1} /\ Mine(N, s) \subseteq 1 .. N
        BY <1>1, <1>2, <1>9, KeyFacts, MineGrows
      <4>2. Mine(Len(past), s)' = Mine(N, s) \cup {N + 1}
        BY <1>3, <4>1 DEF Mine
      <4>3. past'[N + 1].acted = acted /\ past'[N + 1].src = s /\ past'[N + 1].at = now
        BY <1>2, <1>3
      <4> QED
        BY <1>3, <3>1, <4>1, <4>2, <4>3 DEF Fits, Withholds
    <3>5. Counts(list[j], N + 1)' /\ Withholds(list[j])' /\ Recent(N + 1, list[j].src)'
      BY <3>1, <3>2, <3>3, <3>4
    <3> QED
      BY <3>2, <3>5 DEF Tells
  <2>2. CASE j # k
    <3>1. PICK i \in DOMAIN list : list'[j] = list[i] /\ ~SameKey(list[i].src, s)
      BY <1>8, <2>2
    <3>2. PICK g : g = list[i]
      OBVIOUS
    <3>3. PICK u : u = g.src
      OBVIOUS
    <3>4. Withholds(g) /\ u \in world.sources /\ ~SameKey(u, s)
      BY <1>1, <1>7, <3>1, <3>2, <3>3 DEF Book, Tells
    <3>5. PICK p \in DOMAIN past : Recent(p, u) /\ Counts(g, p)
      BY <1>1, <3>2, <3>3 DEF Book, Tells
    <3>6. /\ Recent(p, u)' /\ p \in DOMAIN past' /\ past'[p] = past[p]
          /\ Mine(N + 1, u)' = Mine(N, u) /\ \A gap : Run(N + 1, u, gap)' = Run(N, u, gap)
      BY <1>3, <1>5, <1>11, <3>4, <3>5
    <3>7. Counts(g, p)'
      BY <1>3, <1>4, <3>3, <3>5, <3>6 DEF Counts
    <3>8. Withholds(g)'
      <4>1. Mine(N, u) \subseteq 1 .. N
        BY DEF Mine
      <4>2. Mine(Len(past), u)' = Mine(N, u)
        BY <1>3, <3>6 DEF Mine
      <4> QED
        BY <1>3, <3>3, <3>4, <4>1, <4>2 DEF Withholds
    <3>9. list'[j] = g
      BY <3>1, <3>2
    <3>10. Counts(list[j], p)' /\ Withholds(list[j])' /\ Recent(p, list[j].src)'
      BY <3>3, <3>6, <3>7, <3>8, <3>9
    <3> QED
      BY <3>6, <3>10 DEF Tells
  <2> QED
    BY <2>1, <2>2
<1>14. ASSUME NEW n \in DOMAIN past' PROVE Just(n)'
  <2>1. CASE n \in 1 .. N
    BY <1>1, <1>2, <1>5, <2>1, JustKept DEF Book
  <2>2. CASE n = N + 1
    <3>1. past'[N + 1].acted = acted /\ past'[N + 1].src = s /\ past'[N + 1].at = now
      BY <1>2, <1>3
    <3>2. CauseAt(n)'
      BY <1>4, <2>2, <3>1 DEF Judges, CauseAt
    <3>3. Mine(n - 1, s)' = Mine(N, s) /\ Mine(N, s) \subseteq 1 .. N
      <4>1. N \in 0 .. Len(past) /\ N + 1 - 1 = N
        OBVIOUS
      <4>2. Mine(N, s)' = Mine(N, s)
        BY <1>1, <1>2, <4>1, OldNotices
      <4> QED
        BY <2>2, <4>1, <4>2 DEF Mine
    <3>4. PunishedAt(n)'
      BY <1>3, <1>4, <2>2, <3>1, <3>3 DEF Judges, PunishedAt
    <3>5. SparedAt(n)'
      BY <1>4, <2>2, <3>1 DEF Judges, SparedAt
    <3> QED
      BY <3>2, <3>4, <3>5 DEF Just
  <2> QED
    BY <1>5, <2>1, <2>2
<1>15. Book'
  BY <1>12, <1>13, <1>14 DEF Book, Becomes
<1> QED
  BY <1>6, <1>15 DEF IInv

\* r and t, the streaks a notice leads up to, go on from the entry e.
Leads(e, r, t) ==
  /\ r \in Nat /\ r >= 1 /\ t \in Nat /\ t >= 1
  /\ now - e.last > GapToTell => t = 1
  /\ now - e.last <= GapToCount => e.count + 1 <= r
  /\ now - e.last <= GapToTell => t <= e.count + 1 + (IF world.kind = "flood" THEN 1 ELSE 0)

LEMMA Counting ==
  ASSUME IInv, Clear, NEW s \in world.sources, NEW acted \in BOOLEAN,
         Noted(s, acted), UNCHANGED <<world, now>>,
         NEW N \in Nat, N = Len(past),
         NEW r, r = Run(N + 1, s, GapToCount)', NEW t, t = Run(N + 1, s, GapToTell)'
  PROVE  /\ (\A i \in DOMAIN list : SameKey(list[i].src, s) => now - list[i].last > GapToTell)
              => t = 1 /\ r \in Nat /\ r >= 1
         /\ \A i \in DOMAIN list : SameKey(list[i].src, s) => Leads(list[i], r, t)
<1> DEFINE x == [at |-> now, src |-> s, acted |-> acted]
<1>1. Typed /\ Book
  BY DEF IInv
<1>2. Adds(x) /\ x.at = now /\ x.src = s
  BY <1>1 DEF Noted, Adds, Record, Typed
<1> HIDE DEF x
<1>3. (\A i \in DOMAIN list : SameKey(list[i].src, s) => now - list[i].last > GapToTell)
        => t = 1 /\ r \in Nat /\ r >= 1
  BY <1>1, <1>2, FreshRuns
<1>4. ASSUME NEW i \in DOMAIN list, SameKey(list[i].src, s)
      PROVE  Leads(list[i], r, t)
  BY <1>1, <1>2, <1>4, UpdateRuns DEF Leads
<1> QED
  BY <1>3, <1>4

\* The entry of s: by whom it is judged, and what it withholds.
LEMMA Holding ==
  ASSUME IInv, Clear, NEW s \in world.sources, NEW i \in DOMAIN list, SameKey(list[i].src, s)
  PROVE  /\ list[i] \in Entry /\ SameKey(list[i].first, s)
         /\ \/ list[i].next = 0
            \/ \E j \in Mine(Len(past), s) :
                 (past[j].acted \/ past[j].src.exempt) /\ list[i].next = past[j].at + Pause
         /\ world.kind = "nick" => list[i].count >= 1
<1>1. Typed /\ Book
  BY DEF IInv
<1>2. /\ Len(past) \in 0 .. Len(past)
      /\ list[i].src \in world.sources /\ list[i].first \in world.sources
      /\ list[i] \in Entry
  BY <1>1, Elements
<1>3. Mine(Len(past), list[i].src) = Mine(Len(past), s)
  BY <1>1, <1>2, SameMine
<1>4. Withholds(list[i]) /\ \E p \in DOMAIN past : Counts(list[i], p)
  BY <1>1 DEF Book, Tells
<1>5. SameKey(list[i].first, list[i].src) /\ (world.kind = "nick" => list[i].count >= 1)
  BY <1>4 DEF Counts
<1>6. SameKey(list[i].first, s)
  BY <1>2, <1>5, KeyFacts
<1> QED
  BY <1>2, <1>3, <1>4, <1>5, <1>6 DEF Withholds

LEMMA NoPlace ==
  ASSUME Typed, Keyed, NEW keep \in SUBSET DOMAIN list, NEW s,
         \A i \in keep : ~SameKey(list[i].src, s)
  PROVE  Places(Left(list, keep), s) = {}
BY LeftList DEF Places

\* On a first notice only the list of juped channels may act.
LEMMA NotYet ==
  ASSUME Typed, world.kind # "jupe", NEW s, NEW r
  PROVE  Judges(s, FALSE, r, 1)
BY LimitFacts DEF Judges

\* A source without an entry is entered.
LEMMA EnterStep ==
  ASSUME IInv, Clear, NEW s \in world.sources, NEW keep \in SUBSET DOMAIN list,
         Keeps(keep, s), \A i \in keep : ~SameKey(list[i].src, s),
         \A i \in DOMAIN list : SameKey(list[i].src, s) => now - list[i].last > GapToTell,
         NEW acted \in BOOLEAN, UNCHANGED <<world, now>>, Noted(s, acted),
         world.kind \in NoticeKinds => ~acted,
         \A r \in Nat : r >= 1 => Judges(s, acted, r, 1),
         NEW count, count = IF world.kind = "flood" THEN 0 ELSE 1,
         list' = Append(Left(list, keep), Fresh(s, count))
  PROVE  IInv'
<1> DEFINE e == Fresh(s, count)
<1>1. Typed /\ Book /\ Keyed
  BY DEF IInv, Book
<1>2. PICK N \in Nat : N = Len(past)
  BY <1>1, Elements
<1>3. PICK r : r = Run(N + 1, s, GapToCount)'
  OBVIOUS
<1>4. PICK t : t = Run(N + 1, s, GapToTell)'
  OBVIOUS
<1>5. t = 1 /\ r \in Nat /\ r >= 1
  BY <1>2, <1>3, <1>4, Counting
<1>6. e \in Entry /\ e.src = s /\ e.first = s /\ e.last = now /\ e.count = count /\ e.next = 0
  BY <1>1 DEF Fresh, Entry, Typed
<1> HIDE DEF e
<1>7. Becomes(s, e)
  BY <1>1, <1>6, Appended DEF e
<1>8. Fits(s, e, acted, r, t)
  BY <1>5, <1>6, KeyFacts DEF Fits, NoticeKinds
<1>9. Judges(s, acted, r, t)
  BY <1>5
<1> QED
  BY <1>2, <1>3, <1>4, <1>7, <1>8, <1>9, BookStep

\* The entry of a source is replaced by e.
LEMMA CountStep ==
  ASSUME IInv, Clear, NEW s \in world.sources, NEW acted \in BOOLEAN,
         NEW keep \in SUBSET DOMAIN list, Keeps(keep, s),
         NEW i \in keep, SameKey(list[i].src, s),
         UNCHANGED <<world, now>>, Noted(s, acted),
         NEW m \in DOMAIN Left(list, keep), Places(Left(list, keep), s) = {m},
         NEW e, list' = [Left(list, keep) EXCEPT ![m] = e],
         \A r, t : Leads(list[i], r, t) => Fits(s, e, acted, r, t) /\ Judges(s, acted, r, t)
  PROVE  IInv'
<1>1. Typed /\ Book /\ Keyed
  BY DEF IInv, Book
<1>2. PICK N \in Nat : N = Len(past)
  BY <1>1, Elements
<1>3. PICK r : r = Run(N + 1, s, GapToCount)'
  OBVIOUS
<1>4. PICK t : t = Run(N + 1, s, GapToTell)'
  OBVIOUS
<1>5. Leads(list[i], r, t)
  BY <1>2, <1>3, <1>4, Counting
<1>6. Fits(s, e, acted, r, t) /\ Judges(s, acted, r, t)
  BY <1>5
<1>7. Becomes(s, e)
  BY <1>1, <1>6, Replaced DEF Fits
<1> QED
  BY <1>2, <1>3, <1>4, <1>6, <1>7, BookStep

\* NoticeList.
LEMMA OnNoticeStep ==
  ASSUME IInv, Clear, NEW s \in world.sources, OnNotice(s)
  PROVE  IInv'
<1> DEFINE keep == {k \in DOMAIN list : now - list[k].last <= MaxTime}
           l == Left(list, keep)
<1>1. Typed /\ Book /\ Keyed
  BY DEF IInv, Book
<1>2. /\ world.kind \in NoticeKinds /\ UNCHANGED <<world, now>>
      /\ world.kind # "nick" /\ world.kind # "flood" /\ world.kind # "jupe"
  BY DEF OnNotice, Notice, NoticeKinds
<1>3. /\ GapToTell = MaxTime /\ GapToCount = MaxTime /\ Least = MaxCount + 1
      /\ Enough > MaxCount /\ Enough \in Nat /\ MaxCount \in Int /\ MaxTime \in Int
  BY <1>1, <1>2, LimitFacts
<1>4. /\ list' = IF Places(l, s) = {} THEN Append(l, Fresh(s, 1))
                 ELSE [l EXCEPT ![Min(Places(l, s))] = Updated(l[Min(Places(l, s))], s)]
      /\ Noted(s, Places(l, s) # {} /\ Triggered(l[Min(Places(l, s))]))
  BY DEF OnNotice, Alive
<1>5. \A k \in DOMAIN list : now - list[k].last \in Int
  BY <1>1, Elements DEF Typed
<1>6. keep \in SUBSET DOMAIN list /\ Keeps(keep, s)
  BY <1>3, <1>5 DEF Keeps
<1> HIDE DEF l
<1>7. CASE \A i \in keep : ~SameKey(list[i].src, s)
  <2>1. Places(l, s) = {}
    BY <1>1, <1>6, <1>7, NoPlace DEF l
  <2>2. (Places(l, s) # {} /\ Triggered(l[Min(Places(l, s))])) = FALSE
    BY <2>1
  <2>3. Noted(s, FALSE)
    BY <1>4, <2>2
  <2>4. \A i \in DOMAIN list : SameKey(list[i].src, s) => now - list[i].last > GapToTell
    BY <1>3, <1>5, <1>7
  <2>5. list' = Append(l, Fresh(s, 1))
    BY <1>4, <2>1
  <2> HIDE DEF keep
  <2> QED
    BY <1>1, <1>2, <1>6, <1>7, <2>3, <2>4, <2>5, NotYet, EnterStep DEF l
<1>8. ASSUME NEW i \in keep, SameKey(list[i].src, s) PROVE IInv'
  <2>1. PICK m \in DOMAIN l : l[m] = list[i] /\ Places(l, s) = {m} /\ Min(Places(l, s)) = m
    BY <1>1, <1>6, <1>8, Found DEF l
  <2> DEFINE e == Updated(list[i], s)
             d == now - list[i].last
  <2>2. list' = [l EXCEPT ![m] = e]
    BY <1>4, <2>1
  <2>3. PICK acted \in BOOLEAN : acted <=> Triggered(list[i])
    OBVIOUS
  <2>4. Noted(s, acted)
    <3>1. (Places(l, s) # {} /\ Triggered(l[Min(Places(l, s))])) = acted
      BY <2>1, <2>3
    <3> QED
      BY <1>4, <3>1
  <2>5. /\ list[i] \in Entry /\ SameKey(list[i].first, s)
        /\ \/ list[i].next = 0
           \/ \E j \in Mine(Len(past), s) :
                (past[j].acted \/ past[j].src.exempt) /\ list[i].next = past[j].at + Pause
    BY <1>8, Holding
  <2>6. d \in Int /\ d <= MaxTime
    BY <1>5
  <2>7. /\ e \in Entry /\ e.src = s /\ e.last = now /\ e.first = list[i].first
        /\ e.next = list[i].next /\ e.count = IF acted THEN 0 ELSE list[i].count + 1
    <3>1. PICK f \in Entry : f = list[i]
      BY <2>5
    <3>2. Triggered(f) <=> acted
      BY <2>3, <3>1
    <3>3. PICK c \in Nat : c = IF acted THEN 0 ELSE f.count + 1
      BY <3>1 DEF Entry
    <3>4. e = [f EXCEPT !.src = s, !.last = now, !.count = c]
      BY <3>1, <3>2, <3>3 DEF Updated
    <3> HIDE DEF e
    <3>5. now \in Nat
      BY <1>1 DEF Typed
    <3>6. e \in Entry /\ e.src = s /\ e.last = now /\ e.first = f.first /\ e.next = f.next /\ e.count = c
      BY <3>1, <3>4, <3>5 DEF Entry
    <3> QED
      BY <3>1, <3>3, <3>6
  <2>8. ASSUME NEW r, NEW t, Leads(list[i], r, t)
        PROVE  Fits(s, e, acted, r, t) /\ Judges(s, acted, r, t)
    <3>2. list[i].count \in Nat /\ list[i].first \in world.sources
      BY <2>5 DEF Entry
    <3>0. /\ list[i].count + 1 <= r /\ r \in Nat /\ t \in Nat
          /\ t <= list[i].count + 1 + (IF world.kind = "flood" THEN 1 ELSE 0)
      BY <1>3, <2>6, <2>8 DEF Leads
    <3>1. list[i].count + 1 <= r /\ t <= list[i].count + 1 /\ r \in Nat /\ t \in Nat
      BY <1>2, <3>0, <3>2
    <3>3. acted <=> ~list[i].first.exempt /\ list[i].count + 1 > MaxCount
      BY <2>3, <2>6 DEF Triggered, Exempt
    <3> HIDE DEF e, d
    <3>4. Fits(s, e, acted, r, t)
      <4>1. IF world.kind \in NoticeKinds /\ acted THEN e.count = 0
            ELSE e.count <= r /\ t <= e.count + (IF world.kind = "flood" THEN 1 ELSE 0)
        BY <1>2, <2>7, <3>1, <3>2
      <4> QED
        BY <1>2, <2>5, <2>7, <4>1 DEF Fits
    <3>5. acted => r >= Least
      BY <1>3, <3>1, <3>2, <3>3
    <3>6. ASSUME \A u \in world.sources : SameKey(s, u) => ~u.exempt /\ u.local, t >= Enough
          PROVE  acted
      <4>1. ~list[i].first.exempt
        BY <2>5, <3>2, <3>6, KeyFacts
      <4>2. list[i].count + 1 > MaxCount
        BY <1>3, <3>1, <3>2, <3>6
      <4> QED
        BY <3>3, <4>1, <4>2
    <3>7. ASSUME acted, s.exempt
          PROVE  /\ world.kind \in {"toomany", "connect"}
                 /\ \E u \in world.sources : SameKey(u, s) /\ ~u.exempt
      <4>1. ~list[i].first.exempt
        BY <3>3, <3>7
      <4>2. world.kind # "notice"
        <5> SUFFICES ASSUME world.kind = "notice" PROVE FALSE
          OBVIOUS
        <5>1. list[i].first.user = s.user /\ list[i].first.host = s.host
          BY <2>5 DEF SameKey
        <5> QED
          BY <1>1, <1>2, <3>2, <3>7, <4>1, <5>1, ExemptByUserHost DEF Typed
      <4> QED
        BY <1>2, <2>5, <3>2, <4>1, <4>2 DEF NoticeKinds
    <3> QED
      BY <1>2, <3>4, <3>5, <3>6, <3>7 DEF Judges
  <2> HIDE DEF e, d, keep
  <2> QED
    BY <1>2, <1>6, <1>8, <2>1, <2>2, <2>4, <2>8, CountStep DEF l
<1> QED
  BY <1>7, <1>8

\* The walk of FloodList and JupeJoinList: others' old entries go.
Walk(s) == {k \in DOMAIN list : SameKey(list[k].src, s) \/ ~Stale(list[k])}

LEMMA WalkKeeps ==
  ASSUME Typed, Keyed, Clear, world.kind # "nick", NEW s \in world.sources
  PROVE  /\ Walk(s) \in SUBSET DOMAIN list /\ Keeps(Walk(s), s)
         /\ \A k \in DOMAIN list : Stale(list[k]) <=> now - list[k].last > GapToTell
         /\ \A i \in DOMAIN list : SameKey(list[i].src, s) =>
              i \in Walk(s) /\ Places(list, s) = {i} /\ Min(Places(list, s)) = i
<1>1. GapToTell = MaxTime /\ MaxTime \in Int
  BY LimitFacts
<1>2. \A k \in DOMAIN list : list[k].last \in Nat /\ list[k].src \in world.sources
  BY Elements
<1>3. \A k \in DOMAIN list : Stale(list[k]) <=> now - list[k].last > GapToTell
  BY <1>1, <1>2 DEF Stale, Typed
<1>4. Keeps(Walk(s), s)
  BY <1>3 DEF Keeps, Walk
<1>5. ASSUME NEW i \in DOMAIN list, SameKey(list[i].src, s)
      PROVE  i \in Walk(s) /\ Places(list, s) = {i} /\ Min(Places(list, s)) = i
  <2>1. \A j \in DOMAIN list : SameKey(list[j].src, s) => j = i
    BY <1>2, <1>5, KeyFacts DEF Keyed
  <2>2. Places(list, s) = {i} /\ i \in Int
    BY <1>5, <2>1 DEF Places, Typed
  <2> QED
    BY <1>5, <2>2, Single DEF Walk
<1> QED
  BY <1>3, <1>4, <1>5 DEF Walk

\* A walk that counts at one place changes the list there.
LEMMA WalkCounts ==
  ASSUME NEW l, NEW s, NEW m \in DOMAIN l, Places(l, s) = {m}, NEW g, l = [k \in DOMAIN l |-> l[k]]
  PROVE  [k \in DOMAIN l |-> IF SameKey(l[k].src, s) THEN g[k] ELSE l[k]]
           = [l EXCEPT ![m] = g[m]]
<1>1. \A k \in DOMAIN l : SameKey(l[k].src, s) <=> k = m
  BY DEF Places
<1> QED
  BY <1>1

LEMMA WalkEnters ==
  ASSUME NEW l, NEW s, Places(l, s) = {}, NEW g, l = [k \in DOMAIN l |-> l[k]]
  PROVE  [k \in DOMAIN l |-> IF SameKey(l[k].src, s) THEN g[k] ELSE l[k]] = l
<1>1. \A k \in DOMAIN l : ~SameKey(l[k].src, s)
  BY DEF Places
<1> QED
  BY <1>1

\* FloodList.
LEMMA AddFloodStep ==
  ASSUME IInv, Clear, NEW s \in world.sources, AddFlood(s)
  PROVE  IInv'
<1> DEFINE keep == Walk(s)
           l == Left(list, keep)
           g == [k \in DOMAIN l |-> [l[k] EXCEPT !.src = s, !.last = now, !.count = FloodCount(l[k])]]
           W == [k \in DOMAIN l |-> IF SameKey(l[k].src, s) THEN g[k] ELSE l[k]]
<1>1. Typed /\ Book /\ Keyed
  BY DEF IInv, Book
<1>2. world.kind = "flood" /\ UNCHANGED <<world, now>> /\ ~s.oper
  BY DEF AddFlood, Notice
<1>3. /\ GapToTell = MaxTime /\ GapToCount = MaxTime /\ Least = MaxCount
      /\ Enough > MaxCount /\ Enough \in Nat /\ MaxCount \in Int /\ MaxTime \in Int
  BY <1>1, <1>2, LimitFacts
<1>4. Walked(s, FloodCount) = W
  BY DEF Walked, Walk
<1>5. /\ list' = IF Places(list, s) = {} THEN Append(W, Fresh(s, 0)) ELSE W
      /\ Noted(s, /\ Places(list, s) # {} /\ FloodCount(list[Min(Places(list, s))]) >= MaxCount
                  /\ s.local /\ ~Exempt(s))
  BY <1>4 DEF AddFlood
<1>6. keep \in SUBSET DOMAIN list /\ Keeps(keep, s)
  BY <1>1, <1>2, WalkKeeps
<1>7. l = [k \in DOMAIN l |-> l[k]]
  <2>1. l \in Seq(Entry)
    BY <1>1, <1>6, LeftList
  <2> HIDE DEF l
  <2> QED
    BY <2>1
<1>8. \A k \in DOMAIN list : Stale(list[k]) <=> now - list[k].last > GapToTell
  BY <1>1, <1>2, WalkKeeps
<1> HIDE DEF l, g, keep
<1>9. CASE \A i \in DOMAIN list : ~SameKey(list[i].src, s)
  <2>1. Places(list, s) = {} /\ Places(l, s) = {}
    BY <1>1, <1>6, <1>9, NoPlace DEF l, Places
  <2>2. W = l
    BY <1>7, <2>1, WalkEnters
  <2>3. list' = Append(l, Fresh(s, 0))
    BY <1>5, <2>1, <2>2
  <2>4. (/\ Places(list, s) # {} /\ FloodCount(list[Min(Places(list, s))]) >= MaxCount
         /\ s.local /\ ~Exempt(s)) = FALSE
    BY <2>1
  <2>5. Noted(s, FALSE)
    BY <1>5, <2>4
  <2> QED
    BY <1>1, <1>2, <1>6, <1>9, <2>3, <2>5, NotYet, EnterStep DEF l
<1>10. ASSUME NEW i \in DOMAIN list, SameKey(list[i].src, s) PROVE IInv'
  <2>1. i \in keep /\ Places(list, s) # {} /\ Min(Places(list, s)) = i
    BY <1>1, <1>2, <1>10, WalkKeeps DEF keep
  <2>2. PICK m \in DOMAIN l : l[m] = list[i] /\ Places(l, s) = {m} /\ Min(Places(l, s)) = m
    BY <1>1, <1>6, <1>10, <2>1, Found DEF l
  <2>3. /\ list[i] \in Entry /\ SameKey(list[i].first, s)
        /\ \/ list[i].next = 0
           \/ \E j \in Mine(Len(past), s) :
                (past[j].acted \/ past[j].src.exempt) /\ list[i].next = past[j].at + Pause
    BY <1>10, Holding
  <2>4. list[i].count \in Nat /\ now - list[i].last \in Int
    BY <1>1, Elements DEF Typed
  <2>5. PICK c \in Nat : c = FloodCount(list[i])
    BY <2>4 DEF FloodCount
  <2>6. PICK e : e = [list[i] EXCEPT !.src = s, !.last = now, !.count = c]
    OBVIOUS
  <2>7. list' = [l EXCEPT ![m] = e]
    <3>1. g[m] = e
      BY <2>2, <2>5, <2>6 DEF g
    <3>2. W = [l EXCEPT ![m] = g[m]]
      BY <1>7, <2>2, WalkCounts, SMTT(30)
    <3> HIDE DEF W
    <3> QED
      BY <1>5, <2>1, <3>1, <3>2
  <2>8. /\ e \in Entry /\ e.src = s /\ e.last = now /\ e.first = list[i].first
        /\ e.next = list[i].next /\ e.count = c
    <3>1. PICK f \in Entry : f = list[i]
      BY <2>3
    <3>2. e = [f EXCEPT !.src = s, !.last = now, !.count = c]
      BY <2>6, <3>1
    <3>3. now \in Nat
      BY <1>1 DEF Typed
    <3>4. e \in Entry /\ e.src = s /\ e.last = now /\ e.first = f.first /\ e.next = f.next /\ e.count = c
      BY <3>2, <3>3 DEF Entry
    <3> QED
      BY <3>1, <3>4
  <2>9. PICK acted \in BOOLEAN : acted <=> c >= MaxCount /\ s.local /\ ~s.exempt
    OBVIOUS
  <2>10. Noted(s, acted)
    <3>1. (/\ Places(list, s) # {} /\ FloodCount(list[Min(Places(list, s))]) >= MaxCount
           /\ s.local /\ ~Exempt(s)) = acted
      BY <2>1, <2>5, <2>9 DEF Exempt
    <3> QED
      BY <1>5, <3>1
  <2>11. ASSUME NEW r, NEW t, Leads(list[i], r, t)
         PROVE  Fits(s, e, acted, r, t) /\ Judges(s, acted, r, t)
    <3>1. c <= r /\ t <= c + 1 /\ r \in Nat /\ t \in Nat
      <4>1. CASE Stale(list[i])
        <5>1. c = 1 /\ now - list[i].last > GapToTell
          BY <1>8, <2>5, <4>1 DEF FloodCount
        <5> QED
          BY <2>11, <5>1 DEF Leads
      <4>2. CASE ~Stale(list[i])
        <5>1. c = list[i].count + 1 /\ now - list[i].last <= MaxTime
          BY <1>3, <1>8, <2>4, <2>5, <4>2 DEF FloodCount
        <5> QED
          BY <1>2, <1>3, <2>11, <5>1 DEF Leads
      <4> QED
        BY <4>1, <4>2
    <3>2. Fits(s, e, acted, r, t)
      BY <1>2, <2>3, <2>8, <3>1 DEF Fits, NoticeKinds
    <3>3. acted => r >= Least
      BY <1>3, <2>9, <3>1
    <3>4. ASSUME \A u \in world.sources : SameKey(s, u) => ~u.exempt /\ u.local, t >= Enough
          PROVE  acted
      <4>1. ~s.exempt /\ s.local
        BY <3>4, KeyFacts
      <4>2. c >= MaxCount
        BY <1>3, <3>1, <3>4
      <4> QED
        BY <2>9, <4>1, <4>2
    <3> QED
      BY <1>2, <2>9, <3>2, <3>3, <3>4 DEF Judges
  <2> QED
    BY <1>2, <1>6, <1>10, <2>1, <2>2, <2>7, <2>10, <2>11, CountStep DEF l
<1> QED
  BY <1>9, <1>10

\* JupeJoinList.
LEMMA AddJupeStep ==
  ASSUME IInv, Clear, NEW s \in world.sources, AddJupe(s)
  PROVE  IInv'
<1> DEFINE keep == Walk(s)
           l == Left(list, keep)
           g == [k \in DOMAIN l |-> [l[k] EXCEPT !.src = s, !.last = now, !.count = JupeCount(l[k])]]
           W == [k \in DOMAIN l |-> IF SameKey(l[k].src, s) THEN g[k] ELSE l[k]]
<1>1. Typed /\ Book /\ Keyed
  BY DEF IInv, Book
<1>2. world.kind = "jupe" /\ UNCHANGED <<world, now>>
  BY DEF AddJupe, Notice
<1>3. /\ GapToTell = MaxTime /\ GapToCount = MaxTime /\ Least = MaxCount + 1
      /\ Enough > MaxCount /\ Enough \in Nat /\ MaxCount \in Int /\ MaxTime \in Int
  BY <1>1, <1>2, LimitFacts
<1>4. Walked(s, JupeCount) = W
  BY DEF Walked, Walk
<1>5. /\ list' = IF Places(list, s) = {} THEN Append(W, Fresh(s, 1)) ELSE W
      /\ Noted(s, ~Exempt(s) /\ (IF Places(list, s) = {} THEN 1
                                 ELSE JupeCount(list[Min(Places(list, s))])) > MaxCount)
  BY <1>4 DEF AddJupe
<1>6. keep \in SUBSET DOMAIN list /\ Keeps(keep, s)
  BY <1>1, <1>2, WalkKeeps
<1>7. l = [k \in DOMAIN l |-> l[k]]
  <2>1. l \in Seq(Entry)
    BY <1>1, <1>6, LeftList
  <2> HIDE DEF l
  <2> QED
    BY <2>1
<1>8. \A k \in DOMAIN list : Stale(list[k]) <=> now - list[k].last > GapToTell
  BY <1>1, <1>2, WalkKeeps
<1> HIDE DEF l, g, keep
<1>9. CASE \A i \in DOMAIN list : ~SameKey(list[i].src, s)
  <2>1. Places(list, s) = {} /\ Places(l, s) = {}
    BY <1>1, <1>6, <1>9, NoPlace DEF l, Places
  <2>2. W = l
    BY <1>7, <2>1, WalkEnters
  <2>3. list' = Append(l, Fresh(s, 1))
    BY <1>5, <2>1, <2>2
  <2>4. PICK acted \in BOOLEAN : acted <=> ~s.exempt /\ 1 > MaxCount
    OBVIOUS
  <2>5. Noted(s, acted)
    <3>1. (~Exempt(s) /\ (IF Places(list, s) = {} THEN 1
                          ELSE JupeCount(list[Min(Places(list, s))])) > MaxCount) = acted
      BY <2>1, <2>4 DEF Exempt
    <3> QED
      BY <1>5, <3>1
  <2>6. ASSUME NEW r \in Nat, r >= 1 PROVE Judges(s, acted, r, 1)
    <3>1. acted => r >= Least
      BY <1>3, <2>4, <2>6
    <3>2. ASSUME \A u \in world.sources : SameKey(s, u) => ~u.exempt /\ u.local, 1 >= Enough
          PROVE  acted
      <4>1. ~s.exempt
        BY <3>2, KeyFacts
      <4> QED
        BY <1>3, <2>4, <3>2, <4>1
    <3> QED
      BY <1>2, <2>4, <3>1, <3>2 DEF Judges
  <2>7. world.kind \notin NoticeKinds
    BY <1>2 DEF NoticeKinds
  <2> QED
    BY <1>2, <1>6, <1>9, <2>3, <2>5, <2>6, <2>7, EnterStep DEF l
<1>10. ASSUME NEW i \in DOMAIN list, SameKey(list[i].src, s) PROVE IInv'
  <2>1. i \in keep /\ Places(list, s) # {} /\ Min(Places(list, s)) = i
    BY <1>1, <1>2, <1>10, WalkKeeps DEF keep
  <2>2. PICK m \in DOMAIN l : l[m] = list[i] /\ Places(l, s) = {m} /\ Min(Places(l, s)) = m
    BY <1>1, <1>6, <1>10, <2>1, Found DEF l
  <2>3. /\ list[i] \in Entry /\ SameKey(list[i].first, s)
        /\ \/ list[i].next = 0
           \/ \E j \in Mine(Len(past), s) :
                (past[j].acted \/ past[j].src.exempt) /\ list[i].next = past[j].at + Pause
    BY <1>10, Holding
  <2>4. list[i].count \in Nat /\ now - list[i].last \in Int
    BY <1>1, Elements DEF Typed
  <2>5. PICK c \in Nat : c = JupeCount(list[i])
    BY <2>4 DEF JupeCount
  <2>6. PICK e : e = [list[i] EXCEPT !.src = s, !.last = now, !.count = c]
    OBVIOUS
  <2>7. list' = [l EXCEPT ![m] = e]
    <3>1. g[m] = e
      BY <2>2, <2>5, <2>6 DEF g
    <3>2. W = [l EXCEPT ![m] = g[m]]
      BY <1>7, <2>2, WalkCounts, SMTT(30)
    <3> HIDE DEF W
    <3> QED
      BY <1>5, <2>1, <3>1, <3>2
  <2>8. /\ e \in Entry /\ e.src = s /\ e.last = now /\ e.first = list[i].first
        /\ e.next = list[i].next /\ e.count = c
    <3>1. PICK f \in Entry : f = list[i]
      BY <2>3
    <3>2. e = [f EXCEPT !.src = s, !.last = now, !.count = c]
      BY <2>6, <3>1
    <3>3. now \in Nat
      BY <1>1 DEF Typed
    <3>4. e \in Entry /\ e.src = s /\ e.last = now /\ e.first = f.first /\ e.next = f.next /\ e.count = c
      BY <3>2, <3>3 DEF Entry
    <3> QED
      BY <3>1, <3>4
  <2>9. PICK acted \in BOOLEAN : acted <=> c > MaxCount /\ ~s.exempt
    OBVIOUS
  <2>10. Noted(s, acted)
    <3>1. (~Exempt(s) /\ (IF Places(list, s) = {} THEN 1
                          ELSE JupeCount(list[Min(Places(list, s))])) > MaxCount) = acted
      BY <2>1, <2>5, <2>9 DEF Exempt
    <3> QED
      BY <1>5, <3>1
  <2>11. ASSUME NEW r, NEW t, Leads(list[i], r, t)
         PROVE  Fits(s, e, acted, r, t) /\ Judges(s, acted, r, t)
    <3>1. c <= r /\ t <= c /\ r \in Nat /\ t \in Nat
      <4>1. CASE Stale(list[i])
        <5>1. c = 1 /\ now - list[i].last > GapToTell
          BY <1>8, <2>5, <4>1 DEF JupeCount
        <5> QED
          BY <2>11, <5>1 DEF Leads
      <4>2. CASE ~Stale(list[i])
        <5>1. c = list[i].count + 1 /\ now - list[i].last <= MaxTime
          BY <1>3, <1>8, <2>4, <2>5, <4>2 DEF JupeCount
        <5> QED
          BY <1>2, <1>3, <2>11, <5>1 DEF Leads
      <4> QED
        BY <4>1, <4>2
    <3>2. Fits(s, e, acted, r, t)
      BY <1>2, <2>3, <2>8, <3>1 DEF Fits, NoticeKinds
    <3>3. acted => r >= Least
      BY <1>3, <2>9, <3>1
    <3>4. ASSUME \A u \in world.sources : SameKey(s, u) => ~u.exempt /\ u.local, t >= Enough
          PROVE  acted
      <4>1. ~s.exempt
        BY <3>4, KeyFacts
      <4>2. c > MaxCount
        BY <1>3, <3>1, <3>4
      <4> QED
        BY <2>9, <4>1, <4>2
    <3> QED
      BY <1>2, <2>9, <3>2, <3>3, <3>4 DEF Judges
  <2> QED
    BY <1>2, <1>6, <1>10, <2>1, <2>2, <2>7, <2>10, <2>11, CountStep DEF l
<1> QED
  BY <1>9, <1>10

LEMMA DivFacts ==
  ASSUME NEW d \in Nat, NEW k \in Nat \ {0}
  PROVE  d \div k \in Nat /\ (d < k => d \div k = 0)
OBVIOUS

\* The time since an entry's last notice, and how its count leaks.
LEMMA NickFacts ==
  ASSUME IInv, Clear, world.kind = "nick", NEW i \in DOMAIN list
  PROVE  /\ now - list[i].last \in Nat /\ Ticks(list[i]) \in Nat
         /\ now - list[i].last <= GapToTell => Ticks(list[i]) = 0
         /\ NickAlive(list[i]) =>
              now - list[i].last <= GapToCount /\ Ticks(list[i]) < list[i].count
         /\ ~NickAlive(list[i]) => now - list[i].last > GapToTell
<1>1. Typed /\ Book
  BY DEF IInv
<1>2. PICK p \in DOMAIN past : Counts(list[i], p)
  BY <1>1 DEF Book, Tells
<1>3. past[p].at = list[i].last /\ list[i].count >= 1
  BY <1>2 DEF Counts
<1>4. list[i].count \in Nat /\ list[i].last \in Nat /\ past[p].at <= now /\ now \in Nat
  BY <1>1, Elements DEF Typed
<1>5. PICK d \in Nat : d = now - list[i].last
  BY <1>3, <1>4
<1>6. /\ T1Time \in Nat \ {0} /\ T2Time \in Nat \ {0}
      /\ GapToCount = T2Time - 1
      /\ GapToTell = IF T1Time < T2Time THEN T1Time - 1 ELSE T2Time - 1
  BY TimesAssumption DEF GapToCount, GapToTell
<1>7. Ticks(list[i]) = d \div T1Time
  BY <1>5 DEF Ticks
<1>8. Ticks(list[i]) \in Nat /\ (d < T1Time => Ticks(list[i]) = 0)
  BY <1>6, <1>7, DivFacts
<1>9. d <= GapToTell => d < T1Time /\ d < T2Time
  BY <1>6
<1>10. NickAlive(list[i]) <=> d < T2Time /\ Ticks(list[i]) < list[i].count
  BY <1>5 DEF NickAlive
<1>11. d < T2Time => d <= GapToCount
  BY <1>6
<1>12. ~NickAlive(list[i]) => d > GapToTell
  <2>1. GapToTell \in Int
    BY <1>6
  <2> QED
    BY <1>3, <1>4, <1>8, <1>9, <1>10, <2>1
<1> QED
  BY <1>5, <1>8, <1>9, <1>10, <1>11, <1>12

\* Nick changes.
LEMMA AddNickChangeStep ==
  ASSUME IInv, Clear, NEW s \in world.sources, AddNickChange(s)
  PROVE  IInv'
<1> DEFINE keep == {k \in DOMAIN list : NickAlive(list[k])}
           l == Left(list, keep)
           P == Places(l, s)
           old == l[Min(P)]
           count == old.count - Ticks(old) + 1
           floods == P # {} /\ count >= MaxCount /\ now >= old.next
<1>1. Typed /\ Book /\ Keyed
  BY DEF IInv, Book
<1>2. world.kind = "nick" /\ UNCHANGED <<world, now>>
  BY DEF AddNickChange, Notice
<1>3. /\ Least = MaxCount /\ Enough > MaxCount /\ Enough >= 2 /\ Enough \in Nat
      /\ MaxCount \in Int /\ Pause \in Nat /\ GapToTell \in Int /\ GapToCount \in Int
  BY <1>1, <1>2, LimitFacts, TimesAssumption
<1>4. /\ list' = IF P = {} THEN Append(l, Fresh(s, 1))
                 ELSE [l EXCEPT ![Min(P)] =
                         [old EXCEPT !.src = s, !.count = count, !.last = now,
                                     !.next = IF floods THEN now + Pause ELSE old.next]]
      /\ Noted(s, floods /\ ~Exempt(s))
  BY DEF AddNickChange
<1>5. keep \in SUBSET DOMAIN list /\ Keeps(keep, s)
  BY <1>2, NickFacts DEF Keeps
<1> HIDE DEF l
<1>6. CASE \A i \in keep : ~SameKey(list[i].src, s)
  <2>1. P = {}
    BY <1>1, <1>5, <1>6, NoPlace DEF l
  <2>2. (floods /\ ~Exempt(s)) = FALSE
    BY <2>1
  <2>3. Noted(s, FALSE)
    BY <1>4, <2>2
  <2>4. \A i \in DOMAIN list : SameKey(list[i].src, s) => now - list[i].last > GapToTell
    BY <1>2, <1>6, NickFacts
  <2>5. list' = Append(l, Fresh(s, 1))
    BY <1>4, <2>1
  <2> HIDE DEF keep
  <2> QED
    BY <1>1, <1>2, <1>5, <1>6, <2>3, <2>4, <2>5, NotYet, EnterStep DEF l
<1>7. ASSUME NEW i \in keep, SameKey(list[i].src, s) PROVE IInv'
  <2>1. PICK m \in DOMAIN l : l[m] = list[i] /\ P = {m} /\ Min(P) = m
    BY <1>1, <1>5, <1>7, Found DEF l
  <2>2. /\ now - list[i].last \in Nat /\ Ticks(list[i]) \in Nat
        /\ now - list[i].last <= GapToTell => Ticks(list[i]) = 0
        /\ now - list[i].last <= GapToCount /\ Ticks(list[i]) < list[i].count
    BY <1>2, NickFacts
  <2>3. /\ list[i] \in Entry /\ SameKey(list[i].first, s)
        /\ \/ list[i].next = 0
           \/ \E j \in Mine(Len(past), s) :
                (past[j].acted \/ past[j].src.exempt) /\ list[i].next = past[j].at + Pause
    BY <1>7, Holding
  <2>4. PICK f \in Entry : f = list[i]
    BY <2>3
  <2>5. f.count \in Nat /\ f.next \in Nat
    BY DEF Entry
  <2>6. PICK c \in Nat : c = f.count - Ticks(f) + 1 /\ c >= 2 /\ c <= f.count + 1
    BY <2>2, <2>4, <2>5
  <2>7. PICK fl \in BOOLEAN : fl <=> c >= MaxCount /\ now >= f.next
    OBVIOUS
  <2>8. PICK n \in Nat : n = IF fl THEN now + Pause ELSE f.next
    BY <1>1, <1>3, <2>5 DEF Typed
  <2>9. PICK e : e = [f EXCEPT !.src = s, !.count = c, !.last = now, !.next = n]
    OBVIOUS
  <2>10. PICK acted \in BOOLEAN : acted <=> fl /\ ~s.exempt
    OBVIOUS
  <2>11. old = f /\ count = c /\ (floods <=> fl)
    BY <2>1, <2>4, <2>6, <2>7
  <2>12. list' = [l EXCEPT ![m] = e]
    <3> HIDE DEF count, floods, old
    <3> QED
      BY <1>4, <2>1, <2>8, <2>9, <2>11
  <2>13. Noted(s, acted)
    <3> HIDE DEF floods
    <3>1. (floods /\ ~Exempt(s)) = acted
      BY <2>10, <2>11 DEF Exempt
    <3> QED
      BY <1>4, <3>1
  <2>14. /\ e \in Entry /\ e.src = s /\ e.last = now /\ e.first = f.first
         /\ e.next = n /\ e.count = c
    <3>1. now \in Nat
      BY <1>1 DEF Typed
    <3> QED
      BY <2>9, <3>1 DEF Entry
  <2>15. ASSUME NEW r, NEW t, Leads(list[i], r, t)
         PROVE  Fits(s, e, acted, r, t) /\ Judges(s, acted, r, t)
    <3>1. f.count + 1 <= r /\ r \in Nat /\ t \in Nat
      BY <2>2, <2>4, <2>15 DEF Leads
    <3>2. c <= r
      BY <2>5, <2>6, <3>1
    <3>3. t <= c
      <4>1. CASE now - f.last > GapToTell
        <5>1. t = 1
          BY <2>4, <2>15, <4>1 DEF Leads
        <5> QED
          BY <2>6, <5>1
      <4>2. CASE now - f.last <= GapToTell
        <5>1. c = f.count + 1
          BY <2>2, <2>4, <2>5, <2>6, <4>2
        <5> QED
          BY <1>2, <2>4, <2>15, <4>2, <5>1, <3>1, <2>5 DEF Leads
      <4> QED
        BY <1>3, <2>2, <2>4, <4>1, <4>2
    <3>4. \/ e.next = 0
          \/ e.next = now + Pause /\ (acted \/ s.exempt)
          \/ \E j \in Mine(Len(past), s) :
               (past[j].acted \/ past[j].src.exempt) /\ e.next = past[j].at + Pause
      BY <2>3, <2>4, <2>8, <2>10, <2>14
    <3>5. Fits(s, e, acted, r, t)
      <4>1. c >= 1 /\ t <= c + 0
        BY <2>6, <3>1, <3>3
      <4> QED
        BY <1>2, <2>3, <2>4, <2>14, <3>2, <3>4, <4>1 DEF Fits, NoticeKinds
    <3>6. acted => r >= Least
      BY <1>3, <2>7, <2>10, <3>1, <3>2
    <3>7. ASSUME \A u \in world.sources : SameKey(s, u) => ~u.exempt /\ u.local, t >= Enough, ~acted
          PROVE  \E j \in Mine(Len(past), s) : past[j].acted /\ now - past[j].at < Pause
      <4>1. ~s.exempt
        BY <3>7, KeyFacts
      <4>2. c >= MaxCount
        BY <1>3, <2>6, <3>1, <3>3, <3>7
      <4>3. ~(now >= f.next) /\ now \in Nat
        BY <1>1, <2>7, <2>10, <3>7, <4>1, <4>2 DEF Typed
      <4>4. f.next # 0
        BY <4>3
      <4>5. PICK j \in Mine(Len(past), s) :
              (past[j].acted \/ past[j].src.exempt) /\ f.next = past[j].at + Pause
        BY <2>3, <2>4, <4>4
      <4>6. j \in DOMAIN past /\ SameKey(past[j].src, s)
        BY <1>1, Elements DEF Mine
      <4>7. past[j].src \in world.sources /\ past[j].at \in Nat
        BY <1>1, <4>6, Elements
      <4>8. ~past[j].src.exempt
        BY <3>7, <4>6, <4>7, KeyFacts
      <4>9. now - past[j].at < Pause
        BY <1>3, <4>3, <4>5, <4>7
      <4> QED
        BY <4>5, <4>8, <4>9
    <3> QED
      BY <1>2, <2>10, <3>5, <3>6, <3>7 DEF Judges
  <2> HIDE DEF keep
  <2> QED
    BY <1>2, <1>5, <1>7, <2>1, <2>12, <2>13, <2>15, CountStep DEF l
<1> QED
  BY <1>6, <1>7

-----------------------------------------------------------------------------
(* The other steps, and the theorems                                       *)

LEMMA InitIInv == Init => IInv
<1> SUFFICES ASSUME Init, Clear PROVE Typed /\ Book
  BY DEF IInv
<1>1. list = <<>> /\ past = <<>> /\ now = 0 /\ world \in Worlds
  BY DEF Init
<1>2. Typed
  BY <1>1 DEF Typed
<1>3. Book
  BY <1>1 DEF Book, Keyed, Complete
<1> QED
  BY <1>2, <1>3

\* Time goes on, or nothing happens.
LEMMA WaitStep ==
  ASSUME IInv, Clear, UNCHANGED <<world, list, past>>, now' \in Nat, now' >= now
  PROVE  IInv'
<1>1. Typed /\ Book
  BY DEF IInv
<1>2. world' = world /\ list' = list /\ past' = past
  OBVIOUS
<1>3. /\ \A a, b : SameKey(a, b)' <=> SameKey(a, b)
      /\ GapToCount' = GapToCount /\ GapToTell' = GapToTell
      /\ Least' = Least /\ Enough' = Enough /\ Entry' = Entry /\ Record' = Record
  BY <1>2, KeyKept
<1>4. Typed'
  <2>1. \A i \in DOMAIN past : past[i].at <= now'
    BY <1>1, Elements DEF Typed
  <2> QED
    BY <1>1, <1>2, <1>3, <2>1 DEF Typed
<1>5. \A n, s : Mine(n, s)' = Mine(n, s)
  BY <1>2, <1>3 DEF Mine
<1>6. \A i, j, gap : Breaks(i, j, gap)' <=> Breaks(i, j, gap)
  BY <1>2 DEF Breaks
<1>7. \A n, s, gap : Run(n, s, gap)' = Run(n, s, gap)
  <2> TAKE n, s, gap
  <2>1. Streak(n, s, gap)' = Streak(n, s, gap)
    BY <1>5, <1>6 DEF Streak
  <2> QED
    BY <2>1 DEF Run
<1>8. \A p, s : Recent(p, s)' <=> Recent(p, s)
  BY <1>2, <1>5 DEF Recent
<1>9. Complete'
  <2>1. ASSUME NEW s \in world.sources, NEW p \in DOMAIN past, Recent(p, s),
               now' - past[p].at <= GapToTell
        PROVE  \E k \in DOMAIN list : SameKey(list[k].src, s)
    <3>1. now - past[p].at <= GapToTell
      BY <1>1, <2>1, Elements, LimitFacts DEF Typed
    <3> QED
      BY <1>1, <2>1, <3>1 DEF Book, Complete
  <2>2. /\ GapToTell' = GapToTell
        /\ \A s : \A p : Recent(p, s)' => Recent(p, s)
        /\ \A a, b : SameKey(a, b) => SameKey(a, b)'
    BY <1>3, <1>8
  <2>3. ASSUME NEW s \in world.sources, NEW p \in DOMAIN past, Recent(p, s)',
               now' - past[p].at <= GapToTell'
        PROVE  (\E k \in DOMAIN list : SameKey(list[k].src, s))'
    <3>1. PICK k \in DOMAIN list : SameKey(list[k].src, s)
      BY <2>1, <2>2, <2>3
    <3>2. k \in DOMAIN list' /\ SameKey(list'[k].src, s)
      BY <1>2, <3>1
    <3> QED
      BY <2>2, <3>2
  <2> QED
    BY <1>2, <2>3 DEF Complete
<1>10. ASSUME NEW k \in DOMAIN list PROVE Tells(list[k])'
  <2>1. PICK e : e = list[k] /\ e = list'[k]
    BY <1>2
  <2>2. PICK p \in DOMAIN past : Recent(p, e.src) /\ Counts(e, p) /\ Withholds(e)
    BY <1>1, <2>1 DEF Book, Tells
  <2>3. Counts(e, p)'
    BY <1>2, <1>3, <1>7, <2>2 DEF Counts
  <2>4. Withholds(e)'
    BY <1>2, <1>5, <2>2 DEF Withholds
  <2>5. Recent(p, e.src)' /\ p \in DOMAIN past'
    BY <1>2, <1>8, <2>2
  <2>6. Counts(list[k], p)' /\ Withholds(list[k])' /\ Recent(p, list[k].src)'
    BY <2>1, <2>3, <2>4, <2>5
  <2> QED
    BY <2>5, <2>6 DEF Tells
<1>11. ASSUME NEW n \in DOMAIN past PROVE Just(n)'
  BY <1>1, <1>2, <1>3, <1>5, <1>7 DEF Book, Just, CauseAt, PunishedAt, SparedAt
<1>12. Keyed'
  BY <1>1, <1>2, <1>3 DEF Book, Keyed
<1>13. Book'
  BY <1>2, <1>9, <1>10, <1>11, <1>12 DEF Book
<1> QED
  BY <1>4, <1>13 DEF IInv

LEMMA ClearStep ==
  ASSUME IInv, Clear, InitFloodTables
  PROVE  IInv'
<1>1. Typed /\ Book
  BY DEF IInv
<1>2. world' = world /\ list' = <<>> /\ past' = <<>> /\ now' = now
  BY DEF InitFloodTables
<1>3. Typed'
  BY <1>1, <1>2 DEF Typed
<1>4. Book'
  BY <1>2 DEF Book, Keyed, Complete
<1> QED
  BY <1>3, <1>4 DEF IInv

LEMMA Inductive == IInv /\ [Next]_vars => IInv'
<1> SUFFICES ASSUME IInv, [Next]_vars PROVE IInv'
  OBVIOUS
<1>1. world' = world
  BY DEF Next, vars, OnNotice, AddFlood, AddJupe, AddNickChange, Notice, InitFloodTables, Tick
<1>2. CASE ~Clear
  BY <1>1, <1>2, KeyKept DEF IInv
<1>3. CASE Clear
  <2>1. CASE UNCHANGED vars
    <3>1. UNCHANGED <<world, list, past>> /\ now' = now
      BY <2>1 DEF vars
    <3>2. now \in Nat
      BY <1>3 DEF IInv, Typed
    <3> QED
      BY <1>3, <3>1, <3>2, WaitStep
  <2>2. ASSUME NEW s \in world.sources, OnNotice(s) PROVE IInv'
    BY <1>3, <2>2, OnNoticeStep
  <2>3. ASSUME NEW s \in world.sources, AddFlood(s) PROVE IInv'
    BY <1>3, <2>3, AddFloodStep
  <2>4. ASSUME NEW s \in world.sources, AddJupe(s) PROVE IInv'
    BY <1>3, <2>4, AddJupeStep
  <2>5. ASSUME NEW s \in world.sources, AddNickChange(s) PROVE IInv'
    BY <1>3, <2>5, AddNickChangeStep
  <2>6. CASE InitFloodTables
    BY <1>3, <2>6, ClearStep
  <2>7. CASE Tick
    <3>1. UNCHANGED <<world, list, past>> /\ now' = now + 1
      BY <2>7 DEF Tick
    <3>2. now \in Nat
      BY <1>3 DEF IInv, Typed
    <3> QED
      BY <1>3, <3>1, <3>2, WaitStep
  <2> QED
    BY <2>1, <2>2, <2>3, <2>4, <2>5, <2>6, <2>7 DEF Next
<1> QED
  BY <1>2, <1>3

LEMMA Always == Spec => []IInv
BY InitIInv, Inductive, PTL DEF Spec

\* Every action, whatever list it comes from and whatever its limits, is against
\* a source that has sent the least number of notices without a pause that ends
\* the count.
THEOREM OnlyFloodersPunished == Spec => []PunishedAfterStreak
<1>1. IInv => PunishedAfterStreak
  BY DEF IInv, Book, Just, CauseAt, PunishedAfterStreak
<1> QED
  BY <1>1, Always, PTL

\* A source that is not exempt and floods as the help has it is acted on, whatever
\* the limits, whatever others send in between and whatever expires: its burst is
\* part of a streak.
THEOREM EveryFlooderPunished == Spec => []FloodersPunished
<1>1. IInv => FloodersPunished
  <2> SUFFICES ASSUME IInv, Clear, NEW n \in DOMAIN past,
                      \A t \in world.sources : SameKey(past[n].src, t) => ~t.exempt /\ t.local,
                      Cardinality(Burst(n, past[n].src)) >= Enough
               PROVE  \/ past[n].acted
                      \/ world.kind = "nick" /\ \E i \in Mine(n - 1, past[n].src) :
                           past[i].acted /\ past[n].at - past[i].at < Pause
    BY DEF FloodersPunished
  <2> DEFINE burst == Burst(n, past[n].src)
             streak == Streak(n, past[n].src, GapToTell)
  <2>1. Typed /\ PunishedAt(n)
    BY DEF IInv, Book, Just
  <2>2. IsFiniteSet(streak) /\ Cardinality(streak) = Run(n, past[n].src, GapToTell)
    <3>1. n \in 0 .. Len(past)
      BY <2>1, Elements
    <3> QED
      BY <2>1, <3>1, MineFacts DEF Run
  <2>3. burst \subseteq streak
    BY DEF Burst
  <2> HIDE DEF burst, streak
  <2>4. /\ Cardinality(burst) <= Cardinality(streak)
        /\ Cardinality(burst) \in Nat /\ Cardinality(streak) \in Nat
    BY <2>2, <2>3, FS_Subset, FS_CardinalityType
  <2>5. Run(n, past[n].src, GapToTell) >= Enough
    BY <2>1, <2>2, <2>4, LimitFacts DEF burst
  <2> QED
    BY <2>1, <2>5 DEF PunishedAt
<1> QED
  BY <1>1, Always, PTL

\* An exempt source is acted on only by the lists that tell sources apart by
\* less than the user@host, and then for one that is not exempt; an operator by
\* no FloodList.
THEOREM ExemptAreSpared == Spec => []ExemptSpared
<1>1. IInv => ExemptSpared
  BY DEF IInv, Book, Just, SparedAt, ExemptSpared
<1> QED
  BY <1>1, Always, PTL
=============================================================================
