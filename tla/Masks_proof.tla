---------------------------- MODULE Masks_proof ----------------------------
(***************************************************************************)
(* Proofs about masks, for any texts, users and hosts: the matcher finds a *)
(* match just when there is one, and a ban covers the client it is about.  *)
(***************************************************************************)
EXTENDS Masks, FiniteSetTheorems, NaturalsInduction, WellFoundedInduction, TLAPS

-----------------------------------------------------------------------------
(* Numbers                                                                 *)

\* A set of numbers that is not empty has a least one.
LEMMA LeastOf ==
  ASSUME NEW S \in SUBSET Nat, S # {}
  PROVE  \E m \in S : \A i \in S : m <= i
<1> DEFINE R == OpToRel(<, Nat)
<1>1. IsWellFoundedOn(R, Nat)
  BY NatLessThanWellFounded
<1>2. \A x, y \in Nat : <<x, y>> \in R <=> x < y
  BY DEF OpToRel
<1> HIDE DEF R
<1>3. PICK m \in S : \A i \in S : <<i, m>> \notin R
  BY <1>1, WFMin
<1>4. \A i \in S : i \in Nat /\ m \in Nat /\ ~(i < m)
  BY <1>2, <1>3
<1>5. \A i \in S : m <= i
  BY <1>4
<1> QED
  BY <1>5

\* What holds of 0, and of n + 1 if of n, holds of every number.
LEMMA Induct ==
  ASSUME NEW S, 0 \in S, \A n \in Nat : n \in S => n + 1 \in S
  PROVE  Nat \subseteq S
<1> SUFFICES ASSUME NEW n \in Nat, n \notin S PROVE FALSE
  OBVIOUS
<1>1. PICK m \in Nat \ S : \A i \in Nat \ S : m <= i
  BY LeastOf
<1>2. m # 0 /\ m - 1 \in Nat /\ m - 1 + 1 = m
  BY <1>1
<1>3. m - 1 \in S
  BY <1>1, <1>2
<1> QED
  BY <1>1, <1>2, <1>3

-----------------------------------------------------------------------------
(* Parts of texts                                                          *)

\* The end of a text, place by place
LEMMA FromIs ==
  ASSUME NEW s, NEW n \in Nat, DOMAIN s = 1 .. n, NEW i \in 1 .. n + 1
  PROVE  /\ DOMAIN From(s, i) = 1 .. n + 1 - i /\ Len(From(s, i)) = n + 1 - i
         /\ \A x \in 1 .. n + 1 - i : From(s, i)[x] = s[i + x - 1]
  BY DEF From

\* The beginning of a text, place by place
LEMMA UptoIs ==
  ASSUME NEW s, NEW n \in Nat, DOMAIN s = 1 .. n, NEW i \in Nat
  PROVE  \E k \in 0 .. n :
           /\ k = IF i < n THEN i ELSE n
           /\ DOMAIN Upto(s, i) = 1 .. k /\ Len(Upto(s, i)) = k
           /\ \A x \in 1 .. k : Upto(s, i)[x] = s[x]
<1>1. PICK k \in 0 .. n : k = IF i < n THEN i ELSE n
  OBVIOUS
<1>2. Upto(s, i) = SubSeq(s, 1, k)
  BY <1>1 DEF Upto
<1> QED
  BY <1>1, <1>2

\* The rest of a text, place by place
LEMMA TailIs ==
  ASSUME NEW s, NEW n \in Nat \ {0}, DOMAIN s = 1 .. n
  PROVE  /\ DOMAIN Tail(s) = 1 .. n - 1 /\ Len(Tail(s)) = n - 1
         /\ \A x \in 1 .. n - 1 : Tail(s)[x] = s[x + 1]
  OBVIOUS

\* Where the first "*" is
StarAt(s, n, star) ==
  \/ star = 0 /\ \A i \in 1 .. n : s[i] # "*"
  \/ star \in 1 .. n /\ s[star] = "*" /\ \A i \in 1 .. n : i < star => s[i] # "*"

\* Star finds the first "*", or 0 if there is none.
LEMMA StarIs ==
  ASSUME NEW s, NEW n \in Nat, DOMAIN s = 1 .. n
  PROVE  StarAt(s, n, Star(s))
<1>1. PICK S : S = Places(s, "*")
  OBVIOUS
<1>2. S = {i \in 1 .. n : s[i] = "*"}
  BY <1>1 DEF Places
<1>3. Star(s) = FirstOf(S)
  BY <1>1 DEF Star
<1>4. CASE S = {}
  BY <1>2, <1>3, <1>4 DEF FirstOf, StarAt
<1>5. CASE S # {}
  <2>1. S \in SUBSET Nat
    BY <1>2
  <2>2. PICK k \in S : \A i \in S : k <= i
    BY <1>5, <2>1, LeastOf
  <2>3. FirstOf(S) \in S /\ \A i \in S : FirstOf(S) <= i
    BY <1>5, <2>2 DEF FirstOf
  <2>4. PICK star : star = FirstOf(S)
    OBVIOUS
  <2>5. star \in 1 .. n /\ s[star] = "*"
    BY <1>2, <2>3, <2>4
  <2>6. \A i \in 1 .. n : i < star => s[i] # "*"
    BY <1>2, <2>3, <2>4, <2>5
  <2> QED
    BY <1>3, <2>4, <2>5, <2>6 DEF StarAt
<1> QED
  BY <1>4, <1>5

-----------------------------------------------------------------------------
(* What the recursive functions are                                        *)

\* Glob's places, from the end of the mask to its beginning
GlobRows(f, text, mask, n, m) ==
  /\ f[m + 1] = {n + 1}
  /\ \A j \in 1 .. m : f[j] = GlobStep(text, mask, j, f[j + 1])

\* Glob's places are what its recursion says of each.
LEMMA GlobByPlace ==
  ASSUME NEW text, NEW mask, NEW n \in Nat, NEW m \in Nat, Len(text) = n, Len(mask) = m
  PROVE  GlobRows(GlobPlaces(text, mask), text, mask, n, m)
<1> DEFINE step(g, j) == IF j = m + 1 THEN {n + 1} ELSE GlobStep(text, mask, j, g[j + 1])
           Below(k, g) == g = [j \in m + 1 - k .. m + 1 |-> step(g, j)]
           Good == {k \in Nat : k <= m => \E g : Below(k, g)}
<1>1. GlobPlaces(text, mask) = CHOOSE g : Below(m, g)
  <2>1. m + 1 - m = 1
    OBVIOUS
  <2> QED
    BY <2>1 DEF GlobPlaces
<1>2. \A g : step(g, m + 1) = {n + 1}
  OBVIOUS
<1>3. \A g : \A j \in 1 .. m : step(g, j) = GlobStep(text, mask, j, g[j + 1])
  OBVIOUS
<1>4. ASSUME NEW g, NEW h, NEW j, j # m + 1 => g[j + 1] = h[j + 1]
      PROVE  step(g, j) = step(h, j)
  BY <1>4
<1> HIDE DEF step
<1>5. 0 \in Good
  <2> DEFINE h == [j \in m + 1 - 0 .. m + 1 |-> step(<<>>, j)]
  <2>1. \A j \in m + 1 - 0 .. m + 1 : j = m + 1
    OBVIOUS
  <2>2. \A j \in m + 1 - 0 .. m + 1 : step(<<>>, j) = step(h, j)
    <3> HIDE DEF h
    <3> QED
      BY <1>4, <2>1
  <2>3. Below(0, h)
    BY <2>2
  <2> HIDE DEF h, Below
  <2> QED
    BY <2>3
<1>6. ASSUME NEW k \in Nat, k \in Good PROVE k + 1 \in Good
  <2>1. SUFFICES ASSUME k + 1 <= m PROVE \E g : Below(k + 1, g)
    OBVIOUS
  <2>2. PICK g : Below(k, g)
    BY <1>6, <2>1
  <2>3. PICK low : low = m - k
    OBVIOUS
  <2>4. low \in 1 .. m /\ m + 1 - (k + 1) = low /\ m + 1 - k = low + 1
    BY <2>1, <2>3
  <2> DEFINE h == [j \in low .. m + 1 |-> IF j = low THEN step(g, j) ELSE g[j]]
  <2>5. \A j \in low + 1 .. m + 1 : j # low /\ j \in low .. m + 1
    BY <2>4
  <2>6. \A j \in low + 1 .. m + 1 : h[j] = g[j] /\ g[j] = step(g, j)
    BY <2>2, <2>4, <2>5
  <2>7. \A j \in low .. m + 1 : j # m + 1 => j + 1 \in low + 1 .. m + 1
    BY <2>4
  <2>8. \A j \in low .. m + 1 : j = low \/ j \in low + 1 .. m + 1
    BY <2>4
  <2>9. low \in low .. m + 1 /\ h[low] = step(g, low)
    BY <2>4
  <2>10. ASSUME NEW j \in low .. m + 1 PROVE h[j] = step(h, j)
    <3> HIDE DEF h
    <3>1. j # m + 1 => g[j + 1] = h[j + 1]
      BY <2>6, <2>7
    <3>2. step(g, j) = step(h, j)
      BY <1>4, <3>1
    <3> QED
      BY <2>6, <2>8, <2>9, <3>2
  <2>11. h = [j \in low .. m + 1 |-> h[j]]
    OBVIOUS
  <2>12. h = [j \in low .. m + 1 |-> step(h, j)]
    <3> HIDE DEF h
    <3> QED
      BY <2>10, <2>11
  <2>13. Below(k + 1, h)
    <3> HIDE DEF h
    <3> QED
      BY <2>4, <2>12
  <2> HIDE DEF h, Below
  <2> QED
    BY <2>13
<1>7. m \in Good
  <2> HIDE DEF Good
  <2> QED
    BY <1>5, <1>6, Induct
<1>8. PICK f : f = CHOOSE g : Below(m, g)
  OBVIOUS
<1>9. Below(m, f)
  <2> HIDE DEF Below
  <2>1. \E g : Below(m, g)
    BY <1>7
  <2> QED
    BY <1>8, <2>1
<1>10. \A j \in 1 .. m + 1 : f[j] = step(f, j)
  <2>1. m + 1 - m = 1
    OBVIOUS
  <2> QED
    BY <1>9, <2>1
<1>11. f = GlobPlaces(text, mask)
  <2> HIDE DEF Below
  <2> QED
    BY <1>1, <1>8
<1>12. m + 1 \in 1 .. m + 1 /\ \A j \in 1 .. m : j \in 1 .. m + 1
  OBVIOUS
<1>13. GlobRows(f, text, mask, n, m)
  BY <1>2, <1>3, <1>10, <1>12 DEF GlobRows
<1> QED
  BY <1>11, <1>13

\* SMatch's, from the end of the mask to its beginning
SMatchRows(f, test, mask, n, m) ==
  \A j \in 1 .. m + 1 : f[j] = {i \in 1 .. n + 1 : SMatchCall(test, mask, f, i, j)}

\* A call looks at shorter ends of the mask only.
LEMMA CallsShorten ==
  ASSUME NEW test, NEW mask, NEW m \in Nat, DOMAIN mask = 1 .. m, NEW j \in 1 .. m + 1,
         NEW i, NEW g, NEW h, \A k \in j + 1 .. m + 1 : g[k] = h[k]
  PROVE  SMatchCall(test, mask, g, i, j) = SMatchCall(test, mask, h, i, j)
<1>1. PICK k : k = From(mask, j)
  OBVIOUS
<1>2. PICK l \in Nat : l = m + 1 - j /\ DOMAIN k = 1 .. l /\ Len(k) = l
  BY <1>1, FromIs
<1>3. PICK p : p = Star(k) - 1
  OBVIOUS
<1>4. PICK rest : rest = Tail(k)
  OBVIOUS
<1>5. PICK q : q = Star(rest) - 1
  OBVIOUS
<1>6. k # <<>> => l # 0
  BY <1>1, <1>2 DEF From
<1>7. p > 0 => g[j + p] = h[j + p]
  <2>1. p \in Int /\ StarAt(k, l, p + 1)
    <3>1. StarAt(k, l, Star(k))
      BY <1>2, StarIs
    <3>2. Star(k) \in Int
      BY <3>1 DEF StarAt
    <3> QED
      BY <1>3, <3>1, <3>2
  <2> QED
    BY <1>2, <2>1 DEF StarAt
<1>8. k # <<>> /\ q >= 0 => g[j + 1 + q] = h[j + 1 + q]
  <2>1. ASSUME k # <<>> PROVE q \in Int /\ (q >= 0 => q + 1 \in 1 .. l - 1)
    <3>1. l \in Nat \ {0} /\ l - 1 \in Nat
      BY <1>2, <1>6, <2>1
    <3>2. DOMAIN rest = 1 .. l - 1
      BY <1>2, <1>4, <3>1, TailIs
    <3>3. StarAt(rest, l - 1, Star(rest))
      BY <3>1, <3>2, StarIs
    <3> QED
      BY <1>5, <3>1, <3>3 DEF StarAt
  <2> QED
    BY <1>2, <2>1
<1>9. PICK t : t = From(test, i)
  OBVIOUS
<1> DEFINE call(f) ==
       \/ k = <<"*">> \/ t = k
       \/ /\ k # <<>> /\ t # <<>>
          /\ \/ /\ k[1] = "*" /\ q >= 0
                /\ \E x \in DOMAIN t : /\ FixedMatch(Upto(From(t, x), q), Upto(rest, q))
                                       /\ i + x - 1 + q \in f[j + 1 + q]
             \/ /\ k[1] = "*" /\ q = -1 /\ Len(rest) <= Len(t)
                /\ FixedMatch(From(t, Len(t) - Len(rest) + 1), rest)
             \/ p = -1 /\ FixedMatch(t, k)
             \/ /\ p > 0 /\ FixedMatch(Upto(t, p), Upto(k, p))
                /\ i + p \in f[j + p]
<1>10. \A f : SMatchCall(test, mask, f, i, j) = call(f)
  BY <1>1, <1>3, <1>4, <1>5, <1>9 DEF SMatchCall
<1>11. call(g) = call(h)
  BY <1>7, <1>8
<1> QED
  BY <1>10, <1>11

\* SMatch's places are what its calls say of each.
LEMMA SMatchByPlace ==
  ASSUME NEW test, NEW mask, NEW n \in Nat, NEW m \in Nat, Len(test) = n, Len(mask) = m,
         DOMAIN mask = 1 .. m
  PROVE  SMatchRows(SMatchPlaces(test, mask), test, mask, n, m)
<1> DEFINE step(g, j) == {i \in 1 .. n + 1 : SMatchCall(test, mask, g, i, j)}
           Below(k, g) == g = [j \in m + 1 - k .. m + 1 |-> step(g, j)]
           Good == {k \in Nat : k <= m => \E g : Below(k, g)}
<1>1. SMatchPlaces(test, mask) = CHOOSE g : Below(m, g)
  <2>1. m + 1 - m = 1
    OBVIOUS
  <2> QED
    BY <2>1 DEF SMatchPlaces
<1>2. \A g, j : step(g, j) = {i \in 1 .. n + 1 : SMatchCall(test, mask, g, i, j)}
  OBVIOUS
<1>4. ASSUME NEW g, NEW h, NEW j \in 1 .. m + 1, \A k \in j + 1 .. m + 1 : g[k] = h[k]
      PROVE  step(g, j) = step(h, j)
  <2>1. \A i : SMatchCall(test, mask, g, i, j) = SMatchCall(test, mask, h, i, j)
    BY <1>4, CallsShorten
  <2> QED
    BY <2>1
<1> HIDE DEF step
<1>5. 0 \in Good
  <2> DEFINE h == [j \in m + 1 - 0 .. m + 1 |-> step(<<>>, j)]
  <2>1. \A j \in m + 1 - 0 .. m + 1 : j \in 1 .. m + 1 /\ j + 1 .. m + 1 = {}
    OBVIOUS
  <2>2. \A j \in m + 1 - 0 .. m + 1 : step(<<>>, j) = step(h, j)
    <3> HIDE DEF h
    <3> QED
      BY <1>4, <2>1
  <2>3. Below(0, h)
    BY <2>2
  <2> HIDE DEF h, Below
  <2> QED
    BY <2>3
<1>6. ASSUME NEW k \in Nat, k \in Good PROVE k + 1 \in Good
  <2>1. SUFFICES ASSUME k + 1 <= m PROVE \E g : Below(k + 1, g)
    OBVIOUS
  <2>2. PICK g : Below(k, g)
    BY <1>6, <2>1
  <2>3. PICK low : low = m - k
    OBVIOUS
  <2>4. low \in 1 .. m /\ m + 1 - (k + 1) = low /\ m + 1 - k = low + 1
    BY <2>1, <2>3
  <2> DEFINE h == [j \in low .. m + 1 |-> IF j = low THEN step(g, j) ELSE g[j]]
  <2>5. \A j \in low + 1 .. m + 1 : j # low /\ j \in low .. m + 1
    BY <2>4
  <2>6. \A j \in low + 1 .. m + 1 : h[j] = g[j] /\ g[j] = step(g, j)
    BY <2>2, <2>4, <2>5
  <2>7. \A j \in low .. m + 1 : j \in 1 .. m + 1 /\ \A i \in j + 1 .. m + 1 : i \in low + 1 .. m + 1
    BY <2>4
  <2>8. \A j \in low .. m + 1 : j = low \/ j \in low + 1 .. m + 1
    BY <2>4
  <2>9. low \in low .. m + 1 /\ h[low] = step(g, low)
    BY <2>4
  <2>10. ASSUME NEW j \in low .. m + 1 PROVE h[j] = step(h, j)
    <3> HIDE DEF h
    <3>1. j \in 1 .. m + 1 /\ \A i \in j + 1 .. m + 1 : g[i] = h[i]
      BY <2>6, <2>7
    <3>2. step(g, j) = step(h, j)
      BY <1>4, <3>1
    <3> QED
      BY <2>6, <2>8, <2>9, <3>2
  <2>11. h = [j \in low .. m + 1 |-> h[j]]
    OBVIOUS
  <2>12. h = [j \in low .. m + 1 |-> step(h, j)]
    <3> HIDE DEF h
    <3> QED
      BY <2>10, <2>11
  <2>13. Below(k + 1, h)
    <3> HIDE DEF h
    <3> QED
      BY <2>4, <2>12
  <2> HIDE DEF h, Below
  <2> QED
    BY <2>13
<1>7. m \in Good
  <2> HIDE DEF Good
  <2> QED
    BY <1>5, <1>6, Induct
<1>8. PICK f : f = CHOOSE g : Below(m, g)
  OBVIOUS
<1>9. Below(m, f)
  <2> HIDE DEF Below
  <2>1. \E g : Below(m, g)
    BY <1>7
  <2> QED
    BY <1>8, <2>1
<1>10. \A j \in 1 .. m + 1 : f[j] = step(f, j)
  <2>1. m + 1 - m = 1
    OBVIOUS
  <2> QED
    BY <1>9, <2>1
<1>11. f = SMatchPlaces(test, mask)
  <2> HIDE DEF Below
  <2> QED
    BY <1>1, <1>8
<1>13. SMatchRows(f, test, mask, n, m)
  BY <1>2, <1>10 DEF SMatchRows
<1> QED
  BY <1>11, <1>13

-----------------------------------------------------------------------------
(* The matcher is right                                                    *)

\* The text from place y matches the mask from place a, over p places without "*".
RunMatches(text, mask, n, y, a, p) ==
  y + p <= n + 1 /\ \A x \in 0 .. p - 1 : MatchesChar(text[y + x], mask[a + x])

\* Glob's places are places of the text, or its end.
LEMMA GlobInside ==
  ASSUME NEW f, NEW text, NEW mask, NEW n \in Nat, NEW m \in Nat, Len(text) = n,
         GlobRows(f, text, mask, n, m), NEW j \in 1 .. m + 1
  PROVE  f[j] \subseteq 1 .. n + 1
<1>1. CASE j = m + 1
  BY <1>1 DEF GlobRows
<1>2. CASE j # m + 1
  <2>1. j \in 1 .. m
    BY <1>2
  <2>2. f[j] = GlobStep(text, mask, j, f[j + 1])
    BY <2>1 DEF GlobRows
  <2> QED
    BY <2>2 DEF GlobStep
<1> QED
  BY <1>1, <1>2

\* One place of the mask
LEMMA GlobStar ==
  ASSUME NEW f, NEW text, NEW mask, NEW n \in Nat, NEW m \in Nat, Len(text) = n,
         GlobRows(f, text, mask, n, m), NEW j \in 1 .. m, mask[j] = "*", NEW i \in 1 .. n + 1
  PROVE  i \in f[j] <=> \E k \in f[j + 1] : i <= k
<1>1. f[j] = GlobStep(text, mask, j, f[j + 1])
  BY DEF GlobRows
<1> QED
  BY <1>1 DEF GlobStep

\* One character of the mask stands for one of the text.
LEMMA GlobOne ==
  ASSUME NEW f, NEW text, NEW mask, NEW n \in Nat, NEW m \in Nat, Len(text) = n,
         GlobRows(f, text, mask, n, m), NEW j \in 1 .. m, mask[j] # "*", NEW i \in 1 .. n + 1
  PROVE  i \in f[j] <=> i <= n /\ MatchesChar(text[i], mask[j]) /\ i + 1 \in f[j + 1]
<1>1. f[j] = GlobStep(text, mask, j, f[j + 1])
  BY DEF GlobRows
<1>2. i \in 1 .. n <=> i <= n
  OBVIOUS
<1> QED
  BY <1>1, <1>2 DEF GlobStep

NoStars(mask, a, p) == \A x \in 0 .. p - 1 : mask[a + x] # "*"

\* A run of the mask without "*" stands for as many characters of the text.
LEMMA RunFits ==
  ASSUME NEW f, NEW text, NEW mask, NEW n \in Nat, NEW m \in Nat, Len(text) = n,
         GlobRows(f, text, mask, n, m), NEW a \in 1 .. m + 1, NEW p \in 0 .. m + 1 - a,
         NoStars(mask, a, p), NEW y \in 1 .. n + 1
  PROVE  y \in f[a] <=> RunMatches(text, mask, n, y, a, p) /\ y + p \in f[a + p]
<1> USE DEF NoStars
<1> DEFINE Good == {r \in Nat : r <= p =>
                      (y \in f[a] <=> RunMatches(text, mask, n, y, a, r) /\ y + r \in f[a + r])}
<1>1. 0 \in Good
  <2>1. RunMatches(text, mask, n, y, a, 0) /\ y + 0 = y /\ a + 0 = a
    BY DEF RunMatches
  <2> QED
    BY <2>1
<1>2. ASSUME NEW r \in Nat, r \in Good PROVE r + 1 \in Good
  <2>1. SUFFICES ASSUME r + 1 <= p
                 PROVE  y \in f[a] <=> RunMatches(text, mask, n, y, a, r + 1)
                                       /\ y + (r + 1) \in f[a + (r + 1)]
    OBVIOUS
  <2>2. y \in f[a] <=> RunMatches(text, mask, n, y, a, r) /\ y + r \in f[a + r]
    BY <1>2, <2>1
  <2>3. PICK j : j = a + r
    OBVIOUS
  <2>4. PICK i : i = y + r
    OBVIOUS
  <2>5. j \in 1 .. m /\ mask[j] # "*" /\ i \in Nat \ {0} /\ a + (r + 1) = j + 1
        /\ y + (r + 1) = i + 1
    BY <2>1, <2>3, <2>4
  <2>6. i <= n + 1 => (i \in f[j] <=> i <= n /\ MatchesChar(text[i], mask[j]) /\ i + 1 \in f[j + 1])
    <3>1. HAVE i <= n + 1
    <3>2. i \in 1 .. n + 1
      BY <2>5, <3>1
    <3> QED
      BY <2>5, <3>2, GlobOne
  <2>7. RunMatches(text, mask, n, y, a, r + 1)
        <=> RunMatches(text, mask, n, y, a, r) /\ i <= n /\ MatchesChar(text[i], mask[j])
    <3>1. 0 .. (r + 1) - 1 = 0 .. r - 1 \cup {r}
      OBVIOUS
    <3>2. (\A x \in 0 .. (r + 1) - 1 : MatchesChar(text[y + x], mask[a + x]))
          <=> (\A x \in 0 .. r - 1 : MatchesChar(text[y + x], mask[a + x]))
              /\ MatchesChar(text[i], mask[j])
      BY <2>3, <2>4, <3>1
    <3>3. y + (r + 1) <= n + 1 <=> i <= n
      BY <2>4
    <3>4. i <= n => y + r <= n + 1
      BY <2>4
    <3> QED
      BY <3>2, <3>3, <3>4 DEF RunMatches
  <2>8. RunMatches(text, mask, n, y, a, r) => i <= n + 1
    BY <2>4 DEF RunMatches
  <2> QED
    BY <2>2, <2>3, <2>4, <2>5, <2>6, <2>7, <2>8
<1>3. p \in Good
  <2> HIDE DEF Good
  <2> QED
    BY <1>1, <1>2, Induct
<1> QED
  BY <1>3

\* A text matches as the mask is laid out on it: the mask's place k on the text's place c[k].
Laid(c, text, mask, n, m, from) ==
  /\ c[m + 1] = n + 1
  /\ \A k \in from .. m + 1 : c[k] \in 1 .. n + 1
  /\ \A k \in from .. m : IF mask[k] = "*" THEN c[k] <= c[k + 1]
                          ELSE c[k + 1] = c[k] + 1 /\ MatchesChar(text[c[k]], mask[k])

\* A text on which the mask is laid out matches it.
LEMMA LaidFits ==
  ASSUME NEW f, NEW text, NEW mask, NEW n \in Nat, NEW m \in Nat, Len(text) = n,
         GlobRows(f, text, mask, n, m), NEW from \in 1 .. m + 1, NEW c,
         Laid(c, text, mask, n, m, from)
  PROVE  c[from] \in f[from]
<1> DEFINE Good == {d \in Nat : d <= m + 1 - from => c[m + 1 - d] \in f[m + 1 - d]}
<1>1. 0 \in Good
  <2>1. m + 1 - 0 = m + 1
    OBVIOUS
  <2> QED
    BY <2>1 DEF Laid, GlobRows
<1>2. ASSUME NEW d \in Nat, d \in Good PROVE d + 1 \in Good
  <2>1. SUFFICES ASSUME d + 1 <= m + 1 - from
                 PROVE  c[m + 1 - (d + 1)] \in f[m + 1 - (d + 1)]
    OBVIOUS
  <2>2. PICK j : j = m - d
    OBVIOUS
  <2>3. j \in from .. m /\ j \in 1 .. m /\ j \in from .. m + 1 /\ m + 1 - (d + 1) = j
        /\ m + 1 - d = j + 1 /\ j + 1 \in from .. m + 1
    BY <2>1, <2>2
  <2>4. c[j + 1] \in f[j + 1]
    BY <1>2, <2>1, <2>3
  <2>5. c[j] \in 1 .. n + 1 /\ c[j + 1] \in 1 .. n + 1
    BY <2>3 DEF Laid
  <2>6. CASE mask[j] = "*"
    <3>1. c[j] <= c[j + 1]
      BY <2>3, <2>6 DEF Laid
    <3> QED
      BY <2>3, <2>4, <2>5, <2>6, <3>1, GlobStar
  <2>7. CASE mask[j] # "*"
    <3>1. c[j + 1] = c[j] + 1 /\ MatchesChar(text[c[j]], mask[j])
      BY <2>3, <2>7 DEF Laid
    <3>2. c[j] <= n
      BY <2>5, <3>1
    <3>3. PICK i : i = c[j]
      OBVIOUS
    <3>4. i \in 1 .. n + 1 /\ i <= n /\ MatchesChar(text[i], mask[j]) /\ i + 1 \in f[j + 1]
      BY <2>4, <2>5, <3>1, <3>2, <3>3
    <3>5. i \in f[j]
      BY <2>3, <2>7, <3>4, GlobOne
    <3> QED
      BY <2>3, <3>3, <3>5
  <2> QED
    BY <2>6, <2>7
<1>3. m + 1 - from \in Good
  <2>1. m + 1 - from \in Nat
    OBVIOUS
  <2> HIDE DEF Good
  <2> QED
    BY <1>1, <1>2, <2>1, Induct
<1>4. m + 1 - (m + 1 - from) = from
  OBVIOUS
<1> QED
  BY <1>3, <1>4

\* The text from place i is the mask from place j.
EndsAlike(text, mask, n, m, i, j) ==
  n - i = m - j /\ \A x \in 0 .. m - j : text[i + x] = mask[j + x]

\* A text matches itself, whatever its characters.
LEMMA SameFits ==
  ASSUME NEW f, NEW text, NEW mask, NEW n \in Nat, NEW m \in Nat, Len(text) = n,
         GlobRows(f, text, mask, n, m), NEW j \in 1 .. m + 1, NEW i \in 1 .. n + 1,
         EndsAlike(text, mask, n, m, i, j)
  PROVE  i \in f[j]
<1> USE DEF EndsAlike
<1> DEFINE c == [k \in j .. m + 1 |-> i + (k - j)]
<1>1. c[j] = i /\ c[m + 1] = n + 1
  OBVIOUS
<1>2. \A k \in j .. m + 1 : c[k] \in 1 .. n + 1
  OBVIOUS
<1>3. \A k \in j .. m : c[k + 1] = c[k] + 1 /\ c[k] <= c[k + 1]
  OBVIOUS
<1>4. ASSUME NEW k \in j .. m PROVE MatchesChar(text[c[k]], mask[k])
  <2>1. PICK x \in 0 .. m - j : x = k - j
    OBVIOUS
  <2>2. c[k] = i + x /\ k = j + x
    BY <2>1
  <2>3. text[c[k]] = mask[k]
    BY <2>2
  <2> QED
    BY <2>3 DEF MatchesChar
<1> HIDE DEF c
<1>5. Laid(c, text, mask, n, m, j)
  BY <1>1, <1>2, <1>3, <1>4 DEF Laid
<1>6. c[j] \in f[j]
  BY <1>5, LaidFits
<1> QED
  BY <1>1, <1>6

\* FixedMatch compares texts of one length.
LEMMA FixedIs ==
  ASSUME NEW s, NEW k, NEW a \in Nat, NEW b \in Nat, DOMAIN s = 1 .. a, DOMAIN k = 1 .. b
  PROVE  FixedMatch(s, k) <=> a = b /\ \A x \in 1 .. b : MatchesChar(s[x], k[x])
<1>1. Len(s) = a /\ Len(k) = b
  OBVIOUS
<1>2. s = k => a = b /\ \A x \in 1 .. b : MatchesChar(s[x], k[x])
  <2>1. HAVE s = k
  <2>2. 1 .. a = 1 .. b
    BY <2>1
  <2>3. a = b
    BY <2>2
  <2> QED
    BY <2>1, <2>3 DEF MatchesChar
<1> QED
  BY <1>1, <1>2 DEF FixedMatch

\* A sequence of characters
IsText(s) == s \in Seq(STRING)

\* A mask that ends in "*" has that star as its last end.
LEMMA StarAlone ==
  ASSUME NEW mask, NEW m \in Nat \ {0}, DOMAIN mask = 1 .. m, mask[m] = "*",
         IsText(mask)
  PROVE  From(mask, m) = <<"*">>
<1>1. DOMAIN mask = 1 .. m
  OBVIOUS
<1>2. PICK k : k = From(mask, m)
  OBVIOUS
<1>3. Len(k) = 1 /\ k[1] = "*"
  <2>1. Len(mask) = m
    BY <1>1
  <2>2. k = SubSeq(mask, m, m)
    BY <1>2, <2>1 DEF From
  <2>3. Len(SubSeq(mask, m, m)) = 1
    BY <1>1
  <2>4. SubSeq(mask, m, m)[1] = mask[m]
    BY <1>1
  <2> QED
    BY <2>2, <2>3, <2>4
<1>4. k \in Seq(STRING)
  BY <1>1, <1>2 DEF From, IsText
<1> QED
  BY <1>2, <1>3, <1>4

\* What every case of a call rests on
Setting(f, text, mask, n, m) ==
  /\ DOMAIN text = 1 .. n /\ DOMAIN mask = 1 .. m
  /\ GlobRows(f, text, mask, n, m)
  /\ \A x \in 1 .. m - 1 : ~(mask[x] = "*" /\ mask[x + 1] = "*")

\* The end of the text is the end of the mask.
LEMMA SameEnds ==
  ASSUME NEW f, NEW text, NEW mask, NEW n \in Nat, NEW m \in Nat, NEW i \in 1 .. n + 1,
         NEW j \in 1 .. m + 1, Setting(f, text, mask, n, m), From(text, i) = From(mask, j)
  PROVE  i \in f[j]
<1>0. DOMAIN text = 1 .. n /\ DOMAIN mask = 1 .. m /\ GlobRows(f, text, mask, n, m)
  BY DEF Setting
<1>1. DOMAIN From(text, i) = 1 .. n + 1 - i /\ \A x \in 1 .. n + 1 - i : From(text, i)[x] = text[i + x - 1]
  BY <1>0, FromIs
<1>2. DOMAIN From(mask, j) = 1 .. m + 1 - j /\ \A x \in 1 .. m + 1 - j : From(mask, j)[x] = mask[j + x - 1]
  BY <1>0, FromIs
<1>3. 1 .. n + 1 - i = 1 .. m + 1 - j
  BY <1>1, <1>2
<1>4. n - i = m - j
  BY <1>3
<1>5. ASSUME NEW x \in 0 .. m - j PROVE text[i + x] = mask[j + x]
  <2>1. PICK z : z = x + 1
    OBVIOUS
  <2>2. z \in 1 .. n + 1 - i /\ z \in 1 .. m + 1 - j /\ i + z - 1 = i + x /\ j + z - 1 = j + x
    BY <1>4, <2>1
  <2>3. From(text, i)[z] = text[i + z - 1] /\ From(mask, j)[z] = mask[j + z - 1]
    BY <1>1, <1>2, <2>2
  <2> QED
    BY <2>2, <2>3
<1>6. Len(text) = n
  BY <1>0
<1>7. EndsAlike(text, mask, n, m, i, j)
  BY <1>4, <1>5 DEF EndsAlike
<1>8. GlobRows(f, text, mask, n, m)
  BY <1>0
<1> QED
  BY <1>6, <1>7, <1>8, SameFits

\* No text is left, or no mask.
LEMMA CallAtTheEnd ==
  ASSUME NEW f, NEW text, NEW mask, NEW n \in Nat, NEW m \in Nat, NEW i \in 1 .. n + 1,
         NEW j \in 1 .. m + 1, Setting(f, text, mask, n, m), IsText(mask),
         i = n + 1 \/ j = m + 1
  PROVE  SMatchCall(text, mask, f, i, j) <=> i \in f[j]
<1>0. DOMAIN text = 1 .. n /\ DOMAIN mask = 1 .. m
  BY DEF Setting
<1>G. Len(text) = n /\ GlobRows(f, text, mask, n, m)
  BY DEF Setting
<1>T. \A x \in 1 .. m - 1 : ~(mask[x] = "*" /\ mask[x + 1] = "*")
  BY DEF Setting
<1>1. PICK t : t = From(text, i)
  OBVIOUS
<1>2. PICK k : k = From(mask, j)
  OBVIOUS
<1>3. Len(t) = n + 1 - i /\ Len(k) = m + 1 - j
  <2>1. Len(From(text, i)) = n + 1 - i
    BY <1>0, FromIs
  <2>2. Len(From(mask, j)) = m + 1 - j
    BY <1>0, FromIs
  <2> QED
    BY <1>1, <1>2, <2>1, <2>2
<1>4. (i = n + 1 => t = <<>>) /\ (j = m + 1 => k = <<>>)
  <2>1. i = n + 1 => SubSeq(text, i, n) = <<>>
    BY <1>0
  <2>2. j = m + 1 => SubSeq(mask, j, m) = <<>>
    BY <1>0
  <2>3. Len(text) = n /\ Len(mask) = m
    BY <1>0
  <2> QED
    BY <1>1, <1>2, <2>1, <2>2, <2>3 DEF From
<1>L. Len(<<"*">>) = 1
  OBVIOUS
<1>K. \A x \in 1 .. m + 1 - j : From(mask, j)[x] = mask[j + x - 1]
  BY <1>0, FromIs
<1>5. SMatchCall(text, mask, f, i, j) <=> k = <<"*">> \/ t = k
  BY <1>1, <1>2, <1>4 DEF SMatchCall
<1>6. t = k => i \in f[j]
  BY <1>1, <1>2, SameEnds
<1>7. CASE j = m + 1
  <2>1. k # <<"*">>
    BY <1>3, <1>7, <1>L
  <2>2. i \in f[j] <=> i = n + 1
    BY <1>G, <1>7 DEF GlobRows
  <2>3. i = n + 1 => t = k
    BY <1>4, <1>7
  <2> QED
    BY <1>5, <1>6, <2>1, <2>2, <2>3
<1>8. CASE j # m + 1 /\ i = n + 1
  <2>1. j \in 1 .. m
    BY <1>8
  <2>2. t # k
    BY <1>3, <1>8, <2>1
  <2>3. CASE mask[j] # "*"
    <3>1. i \notin f[j]
      BY <1>G, <1>8, <2>1, <2>3, GlobOne
    <3>2. k # <<"*">>
      <4>1. k[1] = mask[j]
        <5>1. 1 \in 1 .. m + 1 - j /\ j + 1 - 1 = j
          BY <2>1
        <5> QED
          <6>1. From(mask, j)[1] = mask[j + 1 - 1]
            BY <1>K, <5>1
          <6> QED
            BY <1>2, <5>1, <6>1
      <4> QED
        BY <2>3, <4>1
    <3> QED
      BY <1>5, <2>2, <3>1, <3>2
  <2>4. CASE mask[j] = "*" /\ j = m
    <3>1. k = <<"*">>
      BY <1>0, <1>2, <2>1, <2>4, StarAlone
    <3>2. n + 1 \in f[j + 1]
      BY <1>G, <2>4 DEF GlobRows
    <3>3. i \in f[j]
      <4>1. \E y \in f[j + 1] : i <= y
        BY <1>8, <3>2
      <4> QED
        BY <1>G, <2>1, <2>4, <4>1, GlobStar
    <3> QED
      BY <1>5, <3>1, <3>3
  <2>5. CASE mask[j] = "*" /\ j # m
    <3>1. j + 1 \in 1 .. m /\ mask[j + 1] # "*" /\ j \in 1 .. m - 1 /\ j + 1 \in 1 .. m + 1
      BY <1>T, <2>1, <2>5
    <3>2. k # <<"*">>
      <4>1. m + 1 - j # 1
        BY <2>1, <2>5
      <4> QED
        BY <1>3, <1>L, <4>1
    <3>3. f[j + 1] \subseteq 1 .. n + 1
      BY <1>G, <3>1, GlobInside
    <3>4. \A y \in f[j + 1] : y <= n
      BY <1>G, <3>1, <3>3, GlobOne
    <3>5. i \notin f[j]
      <4>1. \A y \in f[j + 1] : ~(i <= y)
        BY <1>8, <3>3, <3>4
      <4> QED
        BY <1>G, <2>1, <2>5, <4>1, GlobStar
    <3> QED
      BY <1>5, <2>2, <3>2, <3>5
  <2> QED
    BY <2>3, <2>4, <2>5
<1> QED
  BY <1>7, <1>8

\* s is the text from place i on.
EndOf(s, text, n, i) ==
  DOMAIN s = 1 .. n + 1 - i /\ \A x \in 1 .. n + 1 - i : s[x] = text[i + x - 1]

\* From cuts off an end.
LEMMA FromEnd ==
  ASSUME NEW s, NEW n \in Nat, DOMAIN s = 1 .. n, NEW i \in 1 .. n + 1
  PROVE  EndOf(From(s, i), s, n, i) /\ Len(From(s, i)) = n + 1 - i
BY FromIs DEF EndOf

\* An end of an end is an end.
LEMMA EndEnd ==
  ASSUME NEW s, NEW text, NEW n \in Nat, NEW i \in 1 .. n + 1, EndOf(s, text, n, i),
         NEW x \in 1 .. n + 2 - i
  PROVE  EndOf(From(s, x), text, n, i + x - 1) /\ Len(From(s, x)) = n + 2 - i - x
<1>1. PICK l \in Nat : l = n + 1 - i
  OBVIOUS
<1>2. DOMAIN s = 1 .. l
  BY <1>1 DEF EndOf
<1>3. x \in 1 .. l + 1
  BY <1>1
<1>4. EndOf(From(s, x), s, l, x) /\ Len(From(s, x)) = l + 1 - x
  BY <1>1, <1>2, <1>3, FromEnd
<1>5. PICK e : e = From(s, x)
  OBVIOUS
<1>6. PICK w : w = i + x - 1
  OBVIOUS
<1>7. DOMAIN e = 1 .. l + 1 - x /\ l + 1 - x = n + 1 - w
  BY <1>1, <1>4, <1>5, <1>6 DEF EndOf
<1>8. ASSUME NEW z \in 1 .. n + 1 - w PROVE e[z] = text[w + z - 1]
  <2>1. z \in 1 .. l + 1 - x
    BY <1>7
  <2>2. e[z] = s[x + z - 1]
    BY <1>4, <1>5, <2>1 DEF EndOf
  <2>3. PICK v : v = x + z - 1
    OBVIOUS
  <2>4. v \in 1 .. n + 1 - i /\ i + v - 1 = w + z - 1
    BY <1>1, <1>3, <1>6, <2>1, <2>3
  <2>5. s[v] = text[i + v - 1]
    BY <2>4 DEF EndOf
  <2> QED
    BY <2>2, <2>3, <2>4, <2>5
<1>9. EndOf(e, text, n, w)
  BY <1>7, <1>8 DEF EndOf
<1>10. Len(e) = n + 2 - i - x
  BY <1>1, <1>4, <1>5
<1> QED
  BY <1>5, <1>6, <1>9, <1>10

\* u is the first p characters of s, which has n.
StartOf(u, s, n, p) ==
  \E b \in 0 .. n : /\ b = IF p < n THEN p ELSE n
                    /\ DOMAIN u = 1 .. b
                    /\ \A x \in 1 .. b : u[x] = s[x]

\* Upto cuts off a beginning.
LEMMA UptoStart ==
  ASSUME NEW s, NEW n \in Nat, DOMAIN s = 1 .. n, NEW i \in Nat
  PROVE  StartOf(Upto(s, i), s, n, i)
BY UptoIs DEF StartOf

\* Comparing p characters of a text and of a mask is matching a run.
LEMMA RunFixed ==
  ASSUME NEW text, NEW mask, NEW n \in Nat, NEW m \in Nat, NEW y \in 1 .. n + 1,
         NEW a \in 1 .. m + 1, NEW p \in 0 .. m + 1 - a, NEW s, NEW k,
         EndOf(s, text, n, y), EndOf(k, mask, m, a)
  PROVE  FixedMatch(Upto(s, p), Upto(k, p)) <=> RunMatches(text, mask, n, y, a, p)
<1>1. PICK l \in Nat : l = n + 1 - y
  OBVIOUS
<1>2. PICK r \in Nat : r = m + 1 - a
  OBVIOUS
<1>3. DOMAIN s = 1 .. l /\ DOMAIN k = 1 .. r
  BY <1>1, <1>2 DEF EndOf
<1>4. PICK b \in 0 .. l : /\ b = IF p < l THEN p ELSE l
                          /\ DOMAIN Upto(s, p) = 1 .. b
                          /\ \A x \in 1 .. b : Upto(s, p)[x] = s[x]
  <2>1. p \in Nat
    OBVIOUS
  <2>2. StartOf(Upto(s, p), s, l, p)
    BY <1>1, <1>3, <2>1, UptoStart
  <2> QED
    BY <2>2 DEF StartOf
<1>5. PICK d \in 0 .. r : /\ d = IF p < r THEN p ELSE r
                          /\ DOMAIN Upto(k, p) = 1 .. d
                          /\ \A x \in 1 .. d : Upto(k, p)[x] = k[x]
  <2>1. p \in Nat
    OBVIOUS
  <2>2. StartOf(Upto(k, p), k, r, p)
    BY <1>2, <1>3, <2>1, UptoStart
  <2> QED
    BY <2>2 DEF StartOf
<1>6. d = p /\ (b = p <=> y + p <= n + 1)
  BY <1>1, <1>2, <1>4, <1>5
<1>7. FixedMatch(Upto(s, p), Upto(k, p))
      <=> b = d /\ \A x \in 1 .. d : MatchesChar(Upto(s, p)[x], Upto(k, p)[x])
  BY <1>4, <1>5, FixedIs
<1>8. ASSUME y + p <= n + 1
      PROVE  (\A x \in 1 .. p : MatchesChar(Upto(s, p)[x], Upto(k, p)[x]))
             <=> \A x \in 0 .. p - 1 : MatchesChar(text[y + x], mask[a + x])
  <2>1. \A x \in 1 .. p : x \in 1 .. n + 1 - y /\ x \in 1 .. m + 1 - a
    BY <1>8
  <2>2. \A x \in 1 .. p : Upto(s, p)[x] = text[y + x - 1]
    BY <1>4, <1>6, <1>8, <2>1 DEF EndOf
  <2>3. \A x \in 1 .. p : Upto(k, p)[x] = mask[a + x - 1]
    BY <1>5, <1>6, <2>1 DEF EndOf
  <2>4. ASSUME \A x \in 1 .. p : MatchesChar(Upto(s, p)[x], Upto(k, p)[x]), NEW x \in 0 .. p - 1
        PROVE  MatchesChar(text[y + x], mask[a + x])
    <3>1. PICK z : z = x + 1
      OBVIOUS
    <3>2. z \in 1 .. p /\ y + z - 1 = y + x /\ a + z - 1 = a + x
      BY <3>1
    <3>3. MatchesChar(Upto(s, p)[z], Upto(k, p)[z]) /\ Upto(s, p)[z] = text[y + z - 1] /\ Upto(k, p)[z] = mask[a + z - 1]
      BY <2>2, <2>3, <2>4, <3>2
    <3> QED
      BY <3>2, <3>3
  <2>5. ASSUME \A x \in 0 .. p - 1 : MatchesChar(text[y + x], mask[a + x]), NEW x \in 1 .. p
        PROVE  MatchesChar(Upto(s, p)[x], Upto(k, p)[x])
    <3>1. PICK z : z = x - 1
      OBVIOUS
    <3>2. z \in 0 .. p - 1 /\ y + x - 1 = y + z /\ a + x - 1 = a + z
      BY <3>1
    <3>3. MatchesChar(text[y + z], mask[a + z])
      BY <2>5, <3>2
    <3> QED
      BY <2>2, <2>3, <3>2, <3>3
  <2> QED
    BY <2>4, <2>5
<1> QED
  BY <1>6, <1>7, <1>8 DEF RunMatches

\* Comparing the ends of a text and of a mask is matching a run up to both ends.
LEMMA EndFixed ==
  ASSUME NEW text, NEW mask, NEW n \in Nat, NEW m \in Nat, NEW y \in 1 .. n + 1,
         NEW a \in 1 .. m + 1, NEW s, NEW k, EndOf(s, text, n, y), EndOf(k, mask, m, a)
  PROVE  FixedMatch(s, k)
         <=> n + 1 - y = m + 1 - a /\ RunMatches(text, mask, n, y, a, m + 1 - a)
<1>1. PICK l \in Nat : l = n + 1 - y
  OBVIOUS
<1>2. PICK r \in Nat : r = m + 1 - a
  OBVIOUS
<1>3. DOMAIN s = 1 .. l /\ DOMAIN k = 1 .. r
  BY <1>1, <1>2 DEF EndOf
<1>4. FixedMatch(s, k) <=> l = r /\ \A x \in 1 .. r : MatchesChar(s[x], k[x])
  BY <1>3, FixedIs
<1>5. ASSUME l = r
      PROVE  (\A x \in 1 .. r : MatchesChar(s[x], k[x]))
             <=> \A x \in 0 .. r - 1 : MatchesChar(text[y + x], mask[a + x])
  <2>1. \A x \in 1 .. r : x \in 1 .. n + 1 - y /\ x \in 1 .. m + 1 - a
    BY <1>1, <1>2, <1>5
  <2>2. \A x \in 1 .. r : s[x] = text[y + x - 1]
    BY <2>1 DEF EndOf
  <2>3. \A x \in 1 .. r : k[x] = mask[a + x - 1]
    BY <2>1 DEF EndOf
  <2>4. ASSUME \A x \in 1 .. r : MatchesChar(s[x], k[x]), NEW x \in 0 .. r - 1
        PROVE  MatchesChar(text[y + x], mask[a + x])
    <3>1. PICK z : z = x + 1
      OBVIOUS
    <3>2. z \in 1 .. r /\ y + z - 1 = y + x /\ a + z - 1 = a + x
      BY <3>1
    <3>3. MatchesChar(s[z], k[z]) /\ s[z] = text[y + z - 1] /\ k[z] = mask[a + z - 1]
      BY <2>2, <2>3, <2>4, <3>2
    <3> QED
      BY <3>2, <3>3
  <2>5. ASSUME \A x \in 0 .. r - 1 : MatchesChar(text[y + x], mask[a + x]), NEW x \in 1 .. r
        PROVE  MatchesChar(s[x], k[x])
    <3>1. PICK z : z = x - 1
      OBVIOUS
    <3>2. z \in 0 .. r - 1 /\ y + x - 1 = y + z /\ a + x - 1 = a + z
      BY <3>1
    <3>3. MatchesChar(text[y + z], mask[a + z])
      BY <2>5, <3>2
    <3> QED
      BY <2>2, <2>3, <3>2, <3>3
  <2> QED
    BY <2>4, <2>5
<1>6. l = r => y + r <= n + 1
  BY <1>1
<1>7. RunMatches(text, mask, n, y, a, r)
      <=> y + r <= n + 1 /\ \A x \in 0 .. r - 1 : MatchesChar(text[y + x], mask[a + x])
  BY DEF RunMatches
<1> QED
  BY <1>1, <1>2, <1>4, <1>5, <1>6, <1>7

\* The mask goes on with another character than "*".
LEMMA CallLiteral ==
  ASSUME NEW f, NEW text, NEW mask, NEW n \in Nat, NEW m \in Nat, NEW i \in 1 .. n,
         NEW j \in 1 .. m, Setting(f, text, mask, n, m), mask[j] # "*"
  PROVE  SMatchCall(text, mask, f, i, j) <=> i \in f[j]
<1>0. DOMAIN text = 1 .. n /\ DOMAIN mask = 1 .. m
  BY DEF Setting
<1>G. Len(text) = n /\ GlobRows(f, text, mask, n, m)
  BY DEF Setting
<1>J. i \in 1 .. n + 1 /\ j \in 1 .. m + 1
  OBVIOUS
<1>1. PICK t : t = From(text, i)
  OBVIOUS
<1>2. PICK k : k = From(mask, j)
  OBVIOUS
<1>3. EndOf(t, text, n, i) /\ EndOf(k, mask, m, j)
  <2>1. EndOf(From(text, i), text, n, i)
    BY <1>0, <1>J, FromEnd
  <2>2. EndOf(From(mask, j), mask, m, j)
    BY <1>0, <1>J, FromEnd
  <2> QED
    BY <1>1, <1>2, <2>1, <2>2
<1>4. PICK l \in Nat : l = m + 1 - j /\ l > 0
  OBVIOUS
<1>5. DOMAIN k = 1 .. l /\ \A x \in 1 .. l : k[x] = mask[j + x - 1]
  BY <1>3, <1>4 DEF EndOf
<1>6. k[1] = mask[j]
  <2>1. 1 \in 1 .. l /\ j + 1 - 1 = j
    BY <1>4
  <2> QED
    BY <1>5, <2>1
<1>7. k[1] # "*" /\ k # <<"*">>
  BY <1>6
<1>8. k # <<>> /\ t # <<>>
  <2>1. 1 .. l # {} /\ 1 .. n + 1 - i # {}
    <3>1. 1 \in 1 .. l /\ 1 \in 1 .. n + 1 - i
      BY <1>4
    <3> QED
      BY <3>1
  <2>2. DOMAIN t = 1 .. n + 1 - i
    BY <1>3 DEF EndOf
  <2> QED
    BY <1>5, <2>1, <2>2
<1>9. PICK p : p = Star(k) - 1
  OBVIOUS
<1>10. p \in Int /\ StarAt(k, l, p + 1)
  <2>1. StarAt(k, l, Star(k))
    BY <1>4, <1>5, StarIs
  <2>2. Star(k) \in Int
    BY <2>1 DEF StarAt
  <2> QED
    BY <1>9, <2>1, <2>2
<1>11. SMatchCall(text, mask, f, i, j)
       <=> \/ t = k
           \/ p = -1 /\ FixedMatch(t, k)
           \/ p > 0 /\ FixedMatch(Upto(t, p), Upto(k, p)) /\ i + p \in f[j + p]
  BY <1>1, <1>2, <1>7, <1>8, <1>9 DEF SMatchCall
<1>12. t = k => i \in f[j]
  BY <1>1, <1>2, <1>J, SameEnds
<1>13. CASE p = -1
  <2>1. \A x \in 1 .. l : k[x] # "*"
    BY <1>10, <1>13 DEF StarAt
  <2>2. ASSUME NEW x \in 0 .. l - 1 PROVE mask[j + x] # "*"
    <3>1. PICK z : z = x + 1
      OBVIOUS
    <3>2. z \in 1 .. l /\ j + z - 1 = j + x
      BY <3>1
    <3> QED
      BY <1>5, <2>1, <3>2
  <2>3. l \in 0 .. m + 1 - j
    BY <1>4
  <2>4. i \in f[j] <=> RunMatches(text, mask, n, i, j, l) /\ i + l \in f[j + l]
    <3>1. NoStars(mask, j, l)
      BY <2>2 DEF NoStars
    <3> QED
      BY <1>G, <1>J, <2>3, <3>1, RunFits
  <2>5. j + l = m + 1 /\ f[m + 1] = {n + 1}
    BY <1>G, <1>4 DEF GlobRows
  <2>6. FixedMatch(t, k) <=> n + 1 - i = m + 1 - j /\ RunMatches(text, mask, n, i, j, m + 1 - j)
    BY <1>3, <1>J, EndFixed
  <2>7. i + l = n + 1 <=> n + 1 - i = m + 1 - j
    BY <1>4
  <2> QED
    BY <1>4, <1>11, <1>12, <1>13, <2>4, <2>5, <2>6, <2>7
<1>14. CASE p # -1
  <2>1. p + 1 \in 1 .. l /\ k[p + 1] = "*" /\ \A x \in 1 .. l : x < p + 1 => k[x] # "*"
    BY <1>10, <1>14 DEF StarAt
  <2>2. p # 0
    BY <1>7, <2>1
  <2>3. p > 0 /\ p \in 0 .. m + 1 - j
    BY <1>4, <1>10, <2>1, <2>2
  <2>4. ASSUME NEW x \in 0 .. p - 1 PROVE mask[j + x] # "*"
    <3>1. PICK z : z = x + 1
      OBVIOUS
    <3>2. z \in 1 .. l /\ j + z - 1 = j + x /\ z < p + 1
      BY <1>10, <2>1, <3>1
    <3> QED
      BY <1>5, <2>1, <3>2
  <2>5. i \in f[j] <=> RunMatches(text, mask, n, i, j, p) /\ i + p \in f[j + p]
    <3>1. NoStars(mask, j, p)
      BY <2>4 DEF NoStars
    <3> QED
      BY <1>G, <1>J, <2>3, <3>1, RunFits
  <2>6. FixedMatch(Upto(t, p), Upto(k, p)) <=> RunMatches(text, mask, n, i, j, p)
    BY <1>3, <1>J, <2>3, RunFixed
  <2> QED
    BY <1>11, <1>12, <1>14, <2>3, <2>5, <2>6
<1> QED
  BY <1>13, <1>14

\* The mask goes on with "*".
LEMMA CallStar ==
  ASSUME NEW f, NEW text, NEW mask, NEW n \in Nat, NEW m \in Nat, NEW i \in 1 .. n,
         NEW j \in 1 .. m, Setting(f, text, mask, n, m), IsText(mask), mask[j] = "*"
  PROVE  SMatchCall(text, mask, f, i, j) <=> i \in f[j]
<1>0. DOMAIN text = 1 .. n /\ DOMAIN mask = 1 .. m
  BY DEF Setting
<1>G. Len(text) = n /\ GlobRows(f, text, mask, n, m)
  BY DEF Setting
<1>T. j # m => mask[j + 1] # "*"
  BY DEF Setting
<1>J. i \in 1 .. n + 1 /\ j \in 1 .. m + 1 /\ j + 1 \in 1 .. m + 1
  OBVIOUS
<1>1. PICK t : t = From(text, i)
  OBVIOUS
<1>2. PICK k : k = From(mask, j)
  OBVIOUS
<1>3. EndOf(t, text, n, i) /\ EndOf(k, mask, m, j) /\ Len(t) = n + 1 - i
  <2>1. EndOf(From(text, i), text, n, i) /\ Len(From(text, i)) = n + 1 - i
    BY <1>0, <1>J, FromEnd
  <2>2. EndOf(From(mask, j), mask, m, j)
    BY <1>0, <1>J, FromEnd
  <2> QED
    BY <1>1, <1>2, <2>1, <2>2
<1>4. PICK l \in Nat : l = m + 1 - j /\ l > 0
  OBVIOUS
<1>5. DOMAIN k = 1 .. l /\ \A x \in 1 .. l : k[x] = mask[j + x - 1]
  BY <1>3, <1>4 DEF EndOf
<1>6. k[1] = "*"
  <2>1. 1 \in 1 .. l /\ j + 1 - 1 = j
    BY <1>4
  <2> QED
    BY <1>5, <2>1
<1>7. k # <<>> /\ t # <<>>
  <2>1. 1 .. l # {} /\ 1 .. n + 1 - i # {}
    <3>1. 1 \in 1 .. l /\ 1 \in 1 .. n + 1 - i
      BY <1>4
    <3> QED
      BY <3>1
  <2>2. DOMAIN t = 1 .. n + 1 - i
    BY <1>3 DEF EndOf
  <2> QED
    BY <1>5, <2>1, <2>2
<1>8. Star(k) = 1
  <2>1. StarAt(k, l, Star(k))
    BY <1>4, <1>5, StarIs
  <2>2. 1 \in 1 .. l
    BY <1>4
  <2> QED
    BY <1>6, <2>1, <2>2 DEF StarAt
<1>9. PICK rest : rest = Tail(k)
  OBVIOUS
<1>10. EndOf(rest, mask, m, j + 1) /\ Len(rest) = l - 1
  <2>1. l \in Nat \ {0}
    BY <1>4
  <2>2. DOMAIN rest = 1 .. l - 1 /\ Len(rest) = l - 1 /\ \A x \in 1 .. l - 1 : rest[x] = k[x + 1]
    BY <1>5, <1>9, <2>1, TailIs
  <2>3. ASSUME NEW x \in 1 .. l - 1 PROVE rest[x] = mask[j + 1 + x - 1]
    <3>1. x + 1 \in 1 .. l /\ j + (x + 1) - 1 = j + 1 + x - 1
      OBVIOUS
    <3> QED
      BY <1>5, <2>2, <3>1
  <2>4. l - 1 = m + 1 - (j + 1)
    BY <1>4
  <2> QED
    BY <2>2, <2>3, <2>4 DEF EndOf
<1>11. PICK q : q = Star(rest) - 1
  OBVIOUS
<1>12. q \in Int /\ StarAt(rest, l - 1, q + 1)
  <2>1. l - 1 \in Nat /\ l - 1 = m + 1 - (j + 1)
    BY <1>4
  <2>2. DOMAIN rest = 1 .. l - 1
    BY <1>10, <2>1 DEF EndOf
  <2>3. StarAt(rest, l - 1, Star(rest))
    BY <2>1, <2>2, StarIs
  <2>4. Star(rest) \in Int
    BY <2>3 DEF StarAt
  <2> QED
    BY <1>11, <2>3, <2>4
<1> DEFINE Found(x) == /\ FixedMatch(Upto(From(t, x), q), Upto(rest, q))
                       /\ i + x - 1 + q \in f[j + 1 + q]
           AtEnd == Len(rest) <= Len(t) /\ FixedMatch(From(t, Len(t) - Len(rest) + 1), rest)
<1>13. SMatchCall(text, mask, f, i, j)
       <=> \/ k = <<"*">> \/ t = k
           \/ q >= 0 /\ \E x \in DOMAIN t : Found(x)
           \/ q = -1 /\ AtEnd
  BY <1>1, <1>2, <1>6, <1>7, <1>8, <1>9, <1>11 DEF SMatchCall
<1>14. t = k => i \in f[j]
  BY <1>1, <1>2, <1>J, SameEnds
<1>15. i \in f[j] <=> \E y \in f[j + 1] : i <= y
  BY <1>G, <1>J, GlobStar
<1>16. f[j + 1] \subseteq 1 .. n + 1
  BY <1>G, <1>J, GlobInside
<1>17. \A x \in 1 .. l - 1 : rest[x] = mask[j + 1 + x - 1]
  <2>1. l - 1 = m + 1 - (j + 1)
    BY <1>4
  <2> QED
    BY <1>10, <2>1 DEF EndOf
<1>18. CASE q = -1
  <2>1. \A x \in 1 .. l - 1 : rest[x] # "*"
    BY <1>12, <1>18 DEF StarAt
  <2>2. ASSUME NEW x \in 0 .. l - 2 PROVE mask[j + 1 + x] # "*"
    <3>1. PICK z : z = x + 1
      OBVIOUS
    <3>2. z \in 1 .. l - 1 /\ j + 1 + z - 1 = j + 1 + x
      BY <3>1
    <3> QED
      BY <1>17, <2>1, <3>2
  <2>3. PICK a : a = j + 1
    OBVIOUS
  <2>4. PICK p : p = l - 1
    OBVIOUS
  <2>5. p \in 0 .. m + 1 - a /\ a \in 1 .. m + 1 /\ a + p = m + 1 /\ p = m + 1 - a /\ p \in Nat
    BY <1>4, <2>3, <2>4
  <2>6. \A x \in 0 .. p - 1 : mask[a + x] # "*"
    BY <2>2, <2>3, <2>4
  <2>7. f[m + 1] = {n + 1}
    BY <1>G DEF GlobRows
  <2>8. \A y \in 1 .. n + 1 : y \in f[a] <=> RunMatches(text, mask, n, y, a, p) /\ y + p = n + 1
    <3>0. a \in 1 .. m + 1 /\ p \in 0 .. m + 1 - a
      BY <2>5
    <3>1. NoStars(mask, a, p)
      BY <2>6 DEF NoStars
    <3>2. TAKE y \in 1 .. n + 1
    <3>3. y \in f[a] <=> RunMatches(text, mask, n, y, a, p) /\ y + p \in f[a + p]
      BY <1>G, <3>0, <3>1, RunFits
    <3> QED
      BY <2>5, <2>7, <3>3
  <2>9. AtEnd <=> \E y \in 1 .. n + 1 : i <= y /\ RunMatches(text, mask, n, y, a, p) /\ y + p = n + 1
    <3>1. Len(rest) = p /\ EndOf(rest, mask, m, a)
      BY <1>10, <2>3, <2>4
    <3>2. PICK y : y = n + 1 - p
      OBVIOUS
    <3>3. y \in Int /\ (p <= Len(t) <=> i <= y)
      BY <1>3, <2>5, <3>2
    <3>4. CASE i <= y
      <4>1. y \in 1 .. n + 1
        BY <2>5, <3>2, <3>4
      <4>2. PICK x : x = n + 2 - i - p
        OBVIOUS
      <4>3. x \in 1 .. n + 2 - i /\ i + x - 1 = y /\ Len(t) - Len(rest) + 1 = x
        BY <1>3, <2>5, <3>1, <3>2, <3>4, <4>2
      <4>4. EndOf(From(t, x), text, n, i + x - 1)
        BY <1>3, <1>J, <4>3, EndEnd
      <4>5. PICK e : e = From(t, x)
        OBVIOUS
      <4>6. EndOf(e, text, n, y)
        BY <4>3, <4>4, <4>5
      <4>7. FixedMatch(e, rest)
            <=> n + 1 - y = m + 1 - a /\ RunMatches(text, mask, n, y, a, m + 1 - a)
        BY <2>5, <3>1, <4>1, <4>6, EndFixed
      <4>8. n + 1 - y = p /\ y + p = n + 1
        BY <2>5, <3>2
      <4>9. AtEnd <=> RunMatches(text, mask, n, y, a, p)
        BY <2>5, <3>1, <3>3, <3>4, <4>3, <4>5, <4>7, <4>8
      <4>10. \A z \in 1 .. n + 1 : z + p = n + 1 => z = y
        BY <2>5, <3>2
      <4> HIDE DEF AtEnd
      <4> QED
        BY <3>4, <4>1, <4>8, <4>9, <4>10
    <3>5. CASE ~(i <= y)
      <4>1. ~AtEnd
        BY <3>1, <3>3, <3>5
      <4>2. \A z \in 1 .. n + 1 : z + p = n + 1 => z = y
        BY <2>5, <3>2
      <4> HIDE DEF AtEnd
      <4> QED
        BY <3>5, <4>1, <4>2
    <3> QED
      BY <3>4, <3>5
  <2>10. i \in f[j] <=> AtEnd
    <3> HIDE DEF AtEnd
    <3>1. i \in f[j] <=> \E y \in f[a] : i <= y
      BY <1>15, <2>3
    <3>2. f[a] \subseteq 1 .. n + 1
      BY <1>16, <2>3
    <3> QED
      BY <2>8, <2>9, <3>1, <3>2
  <2>11. k = <<"*">> => i \in f[j]
    <3>1. HAVE k = <<"*">>
    <3>2. 1 .. l = 1 .. 1
      BY <1>5, <3>1
    <3>3. l = 1
      BY <1>4, <3>2
    <3>4. n + 1 \in f[j + 1]
      BY <1>4, <2>7, <3>3
    <3>5. i <= n + 1
      OBVIOUS
    <3> QED
      BY <1>15, <3>4, <3>5
  <2> HIDE DEF AtEnd, Found
  <2> QED
    BY <1>13, <1>14, <1>18, <2>10, <2>11
<1>19. CASE q # -1
  <2>1. q + 1 \in 1 .. l - 1 /\ rest[q + 1] = "*" /\ \A x \in 1 .. l - 1 : x < q + 1 => rest[x] # "*"
    BY <1>12, <1>19 DEF StarAt
  <2>2. j # m
    BY <1>4, <1>12, <2>1
  <2>3. q # 0
    <3>1. SUFFICES ASSUME q = 0 PROVE FALSE
      OBVIOUS
    <3>2. rest[1] = "*" /\ 1 \in 1 .. l - 1
      BY <2>1, <3>1
    <3>3. j + 1 + 1 - 1 = j + 1
      OBVIOUS
    <3>4. mask[j + 1] = "*"
      BY <1>17, <3>2, <3>3
    <3> QED
      BY <1>T, <2>2, <3>4
  <2>4. q > 0 /\ q \in Nat
    BY <1>12, <2>1, <2>3
  <2>5. PICK a : a = j + 1
    OBVIOUS
  <2>6. a \in 1 .. m + 1 /\ q \in 0 .. m + 1 - a
    BY <1>4, <1>12, <2>1, <2>4, <2>5
  <2>7. ASSUME NEW x \in 0 .. q - 1 PROVE mask[a + x] # "*"
    <3>1. PICK z : z = x + 1
      OBVIOUS
    <3>2. z \in 1 .. l - 1 /\ j + 1 + z - 1 = a + x /\ z < q + 1
      BY <1>12, <2>1, <2>5, <3>1
    <3> QED
      BY <1>17, <2>1, <3>2
  <2>8. \A y \in 1 .. n + 1 : y \in f[a] <=> RunMatches(text, mask, n, y, a, q) /\ y + q \in f[a + q]
    <3>1. NoStars(mask, a, q)
      BY <2>7 DEF NoStars
    <3>2. TAKE y \in 1 .. n + 1
    <3> QED
      BY <1>G, <2>6, <3>1, RunFits
  <2>9. EndOf(rest, mask, m, a)
    BY <1>10, <2>5
  <2>10. ASSUME NEW x \in 1 .. n + 1 - i, NEW y, y = i + x - 1
         PROVE  Found(x) <=> y \in f[a]
    <3>1. y \in 1 .. n + 1 /\ x \in 1 .. n + 2 - i
      BY <2>10
    <3>2. EndOf(From(t, x), text, n, i + x - 1)
      BY <1>3, <1>J, <3>1, EndEnd
    <3>3. PICK e : e = From(t, x)
      OBVIOUS
    <3>4. EndOf(e, text, n, y)
      BY <2>10, <3>2, <3>3
    <3>5. FixedMatch(Upto(e, q), Upto(rest, q)) <=> RunMatches(text, mask, n, y, a, q)
      BY <2>6, <2>9, <3>1, <3>4, RunFixed
    <3>6. Found(x) <=> FixedMatch(Upto(e, q), Upto(rest, q)) /\ y + q \in f[a + q]
      BY <2>5, <2>10, <3>3
    <3> HIDE DEF Found
    <3> QED
      BY <2>8, <3>1, <3>5, <3>6
  <2>11. DOMAIN t = 1 .. n + 1 - i
    BY <1>3 DEF EndOf
  <2>12. n + 1 \notin f[a]
    <3>1. n + 1 \in 1 .. n + 1 /\ ~(n + 1 + q <= n + 1)
      BY <2>4
    <3>2. ~RunMatches(text, mask, n, n + 1, a, q)
      BY <3>1 DEF RunMatches
    <3> QED
      BY <2>8, <3>1, <3>2
  <2>13. (\E x \in DOMAIN t : Found(x)) <=> \E y \in f[a] : i <= y
    <3> HIDE DEF Found
    <3>1. ASSUME NEW x \in DOMAIN t, Found(x) PROVE \E y \in f[a] : i <= y
      <4>1. PICK y : y = i + x - 1
        OBVIOUS
      <4>2. y \in f[a] /\ i <= y
        BY <2>10, <2>11, <3>1, <4>1
      <4> QED
        BY <4>2
    <3>2. ASSUME NEW y \in f[a], i <= y PROVE \E x \in DOMAIN t : Found(x)
      <4>1. y \in 1 .. n
        <5>1. y \in 1 .. n + 1 /\ y # n + 1
          BY <1>16, <2>5, <2>12, <3>2
        <5> QED
          BY <5>1
      <4>2. PICK x : x = y - i + 1
        OBVIOUS
      <4>3. x \in 1 .. n + 1 - i /\ y = i + x - 1
        BY <3>2, <4>1, <4>2
      <4>4. Found(x)
        BY <2>10, <3>2, <4>3
      <4> QED
        BY <2>11, <4>3, <4>4
    <3> QED
      BY <3>1, <3>2
  <2>14. k # <<"*">>
    <3>1. l # 1
      BY <1>12, <2>1, <2>4
    <3>2. Len(k) = l /\ Len(<<"*">>) = 1
      BY <1>5
    <3> QED
      BY <3>1, <3>2
  <2> HIDE DEF AtEnd, Found
  <2> QED
    BY <1>13, <1>14, <1>15, <1>19, <2>4, <2>5, <2>13, <2>14
<1> QED
  BY <1>18, <1>19

\* A call is right when the calls for shorter ends of the mask are.
LEMMA CallRight ==
  ASSUME NEW f, NEW text, NEW mask, NEW n \in Nat, NEW m \in Nat, NEW i \in 1 .. n + 1,
         NEW j \in 1 .. m + 1, Setting(f, text, mask, n, m), IsText(mask)
  PROVE  SMatchCall(text, mask, f, i, j) <=> i \in f[j]
<1>1. CASE i = n + 1 \/ j = m + 1
  BY <1>1, CallAtTheEnd
<1>2. CASE ~(i = n + 1 \/ j = m + 1)
  <2>1. i \in 1 .. n /\ j \in 1 .. m
    BY <1>2
  <2> QED
    BY <2>1, CallLiteral, CallStar
<1> QED
  BY <1>1, <1>2

\* The matcher's places are where a match is, for a mask without two stars in a row.
LEMMA PlacesRight ==
  ASSUME NEW f, NEW g, NEW text, NEW mask, NEW n \in Nat, NEW m \in Nat,
         Setting(f, text, mask, n, m), IsText(mask), SMatchRows(g, text, mask, n, m)
  PROVE  g[1] = f[1]
<1> DEFINE Bad == {d \in 0 .. m : g[m + 1 - d] # f[m + 1 - d]}
<1>0. DOMAIN mask = 1 .. m /\ Len(text) = n /\ GlobRows(f, text, mask, n, m)
  BY DEF Setting
<1>1. ASSUME NEW d \in Bad, \A e \in Bad : d <= e PROVE FALSE
  <2>1. PICK j : j = m + 1 - d
    OBVIOUS
  <2>2. d \in 0 .. m /\ j \in 1 .. m + 1 /\ g[j] # f[j]
    BY <2>1
  <2>3. ASSUME NEW k \in j + 1 .. m + 1 PROVE g[k] = f[k]
    <3>1. PICK e : e = m + 1 - k
      OBVIOUS
    <3>2. e \in 0 .. m /\ m + 1 - e = k /\ ~(d <= e)
      BY <2>1, <2>2, <3>1
    <3> QED
      BY <1>1, <3>2
  <2> HIDE DEF Bad
  <2>4. g[j] = {i \in 1 .. n + 1 : SMatchCall(text, mask, g, i, j)}
    BY <2>2 DEF SMatchRows
  <2>5. \A i : SMatchCall(text, mask, g, i, j) = SMatchCall(text, mask, f, i, j)
    BY <1>0, <2>2, <2>3, CallsShorten
  <2>6. \A i \in 1 .. n + 1 : SMatchCall(text, mask, f, i, j) <=> i \in f[j]
    BY <2>2, CallRight
  <2>7. f[j] \subseteq 1 .. n + 1
    BY <1>0, <2>2, GlobInside
  <2>8. g[j] = f[j]
    BY <2>4, <2>5, <2>6, <2>7
  <2> QED
    BY <2>2, <2>8
<1>2. Bad = {}
  <2>1. Bad \in SUBSET Nat
    OBVIOUS
  <2> HIDE DEF Bad
  <2> QED
    BY <1>1, <2>1, LeastOf
<1>3. PICK d : d = m
  OBVIOUS
<1>4. d \in 0 .. m /\ m + 1 - d = 1
  BY <1>3
<1>5. g[m + 1 - d] = f[m + 1 - d]
  BY <1>2, <1>4
<1> QED
  BY <1>4, <1>5

\* The code's matcher finds a match just when there is one.
LEMMA SMatchIsGlob ==
  ASSUME NEW text \in Seq(STRING), NEW mask \in Seq(STRING), ~TwoStars(mask)
  PROVE  SMatch(text, mask) <=> Glob(text, mask)
<1>1. PICK n \in Nat : n = Len(text) /\ DOMAIN text = 1 .. n
  OBVIOUS
<1>2. PICK m \in Nat : m = Len(mask) /\ DOMAIN mask = 1 .. m
  OBVIOUS
<1>3. PICK f : f = GlobPlaces(text, mask)
  OBVIOUS
<1>4. PICK g : g = SMatchPlaces(text, mask)
  OBVIOUS
<1>5. GlobRows(f, text, mask, n, m)
  BY <1>1, <1>2, <1>3, GlobByPlace
<1>6. SMatchRows(g, text, mask, n, m)
  BY <1>1, <1>2, <1>4, SMatchByPlace
<1>7. \A x \in 1 .. m - 1 : ~(mask[x] = "*" /\ mask[x + 1] = "*")
  BY <1>2 DEF TwoStars
<1>8. Setting(f, text, mask, n, m)
  BY <1>1, <1>2, <1>5, <1>7 DEF Setting
<1>9. IsText(mask)
  BY DEF IsText
<1>10. g[1] = f[1]
  BY <1>6, <1>8, <1>9, PlacesRight
<1> QED
  BY <1>3, <1>4, <1>10 DEF SMatch, Glob

-----------------------------------------------------------------------------
(* Masks that are made from what they are to cover                         *)

\* The mask can be laid out on the text.
Fits(text, mask) ==
  \E n, m \in Nat : /\ DOMAIN text = 1 .. n /\ DOMAIN mask = 1 .. m
                    /\ \E c : Laid(c, text, mask, n, m, 1) /\ c[1] = 1

\* A sequence of whatever
Listed(s) == \E n \in Nat : DOMAIN s = 1 .. n

\* A mask that can be laid out on a text matches it.
LEMMA FitsGlob ==
  ASSUME NEW text, NEW mask, Fits(text, mask)
  PROVE  Glob(text, mask)
<1>1. PICK n \in Nat, m \in Nat :
        /\ DOMAIN text = 1 .. n /\ DOMAIN mask = 1 .. m
        /\ \E c : Laid(c, text, mask, n, m, 1) /\ c[1] = 1
  BY DEF Fits
<1>2. PICK c : Laid(c, text, mask, n, m, 1) /\ c[1] = 1
  BY <1>1
<1>3. Len(text) = n /\ Len(mask) = m
  BY <1>1
<1>4. PICK f : f = GlobPlaces(text, mask)
  OBVIOUS
<1>5. GlobRows(f, text, mask, n, m)
  BY <1>3, <1>4, GlobByPlace
<1>6. 1 \in 1 .. m + 1
  OBVIOUS
<1>7. c[1] \in f[1]
  BY <1>2, <1>3, <1>5, <1>6, LaidFits
<1> QED
  BY <1>2, <1>4, <1>7 DEF Glob

\* A text is a mask for itself.
LEMMA FitsSame ==
  ASSUME NEW s, Listed(s)
  PROVE  Fits(s, s)
<1>1. PICK n \in Nat : DOMAIN s = 1 .. n
  BY DEF Listed
<1> DEFINE c == [k \in 1 .. n + 1 |-> k]
<1>2. c[1] = 1 /\ c[n + 1] = n + 1 /\ \A k \in 1 .. n + 1 : c[k] \in 1 .. n + 1
  OBVIOUS
<1>3. \A k \in 1 .. n : c[k] <= c[k + 1] /\ c[k + 1] = c[k] + 1 /\ c[k] = k
  OBVIOUS
<1> HIDE DEF c
<1>4. \A k \in 1 .. n : MatchesChar(s[c[k]], s[k])
  BY <1>3 DEF MatchesChar
<1>5. Laid(c, s, s, n, n, 1)
  BY <1>2, <1>3, <1>4 DEF Laid
<1> QED
  BY <1>1, <1>2, <1>5 DEF Fits

\* The mask for everyone is a star.
LEMMA AnyoneIs ==
  DOMAIN Anyone = 1 .. 1 /\ Anyone[1] = "*"
BY DEF Anyone

\* It can be laid out on any text.
LEMMA FitsAny ==
  ASSUME NEW s, Listed(s)
  PROVE  Fits(s, Anyone)
<1>1. PICK n \in Nat : DOMAIN s = 1 .. n
  BY DEF Listed
<1> DEFINE c == [k \in 1 .. 2 |-> IF k = 1 THEN 1 ELSE n + 1]
<1>2. c[1] = 1 /\ c[1 + 1] = n + 1 /\ \A k \in 1 .. 1 + 1 : c[k] \in 1 .. n + 1
  OBVIOUS
<1> HIDE DEF c
<1>3. \A k \in 1 .. 1 : k = 1
  OBVIOUS
<1>4. c[1] <= c[1 + 1]
  BY <1>2
<1>5. Laid(c, s, Anyone, n, 1, 1)
  BY <1>2, <1>3, <1>4, AnyoneIs DEF Laid
<1> QED
  BY <1>1, <1>2, <1>5, AnyoneIs DEF Fits

\* "*" and an end of the text
LEMMA FitsEnd ==
  ASSUME NEW s, NEW n \in Nat, DOMAIN s = 1 .. n, NEW i \in 1 .. n + 1, NEW k, EndOf(k, s, n, i)
  PROVE  Fits(s, Anyone \o k)
<1>1. PICK l \in Nat : l = n + 1 - i /\ DOMAIN k = 1 .. l
  BY DEF EndOf
<1>2. PICK mask : mask = Anyone \o k
  OBVIOUS
<1>3. DOMAIN mask = 1 .. l + 1 /\ mask[1] = "*" /\ \A x \in 1 .. l : mask[x + 1] = k[x]
  BY <1>1, <1>2 DEF Anyone
<1> DEFINE c == [x \in 1 .. l + 2 |-> IF x = 1 THEN 1 ELSE i + x - 2]
<1>4. c[1] = 1 /\ c[l + 1 + 1] = n + 1 /\ \A x \in 1 .. l + 1 + 1 : c[x] \in 1 .. n + 1
  BY <1>1
<1>5. c[1] <= c[1 + 1] /\ \A x \in 2 .. l + 1 : c[x + 1] = c[x] + 1 /\ c[x] <= c[x + 1] /\ c[x] = i + x - 2
  BY <1>1
<1> HIDE DEF c
<1>6. ASSUME NEW x \in 2 .. l + 1 PROVE MatchesChar(s[c[x]], mask[x])
  <2>1. PICK z : z = x - 1
    OBVIOUS
  <2>2. z \in 1 .. l /\ z \in 1 .. n + 1 - i /\ x = z + 1 /\ i + z - 1 = i + x - 2
    BY <1>1, <2>1
  <2>3. mask[x] = k[z]
    BY <1>3, <2>2
  <2>4. k[z] = s[i + z - 1]
    BY <2>2 DEF EndOf
  <2>5. s[c[x]] = mask[x]
    BY <1>5, <2>2, <2>3, <2>4
  <2> QED
    BY <2>5 DEF MatchesChar
<1>7. \A x \in 1 .. l + 1 : x = 1 \/ x \in 2 .. l + 1
  OBVIOUS
<1>8. Laid(c, s, mask, n, l + 1, 1)
  <2>1. \A x \in 1 .. l + 1 : IF mask[x] = "*" THEN c[x] <= c[x + 1]
                              ELSE c[x + 1] = c[x] + 1 /\ MatchesChar(s[c[x]], mask[x])
    BY <1>3, <1>5, <1>6, <1>7
  <2> QED
    BY <1>4, <2>1 DEF Laid
<1>9. l + 1 \in Nat
  OBVIOUS
<1>10. Fits(s, mask)
  BY <1>3, <1>4, <1>8, <1>9 DEF Fits
<1> QED
  BY <1>2, <1>10

\* A beginning of the text and "*"
LEMMA FitsStart ==
  ASSUME NEW s, NEW n \in Nat, DOMAIN s = 1 .. n, NEW b \in 0 .. n, NEW k,
         DOMAIN k = 1 .. b, \A x \in 1 .. b : k[x] = s[x]
  PROVE  Fits(s, k \o Anyone)
<1>2. PICK mask : mask = k \o Anyone
  OBVIOUS
<1>3. DOMAIN mask = 1 .. b + 1 /\ mask[b + 1] = "*" /\ \A x \in 1 .. b : mask[x] = k[x]
  BY <1>2 DEF Anyone
<1> DEFINE c == [x \in 1 .. b + 2 |-> IF x = b + 2 THEN n + 1 ELSE x]
<1>4. c[1] = 1 /\ c[b + 1 + 1] = n + 1 /\ \A x \in 1 .. b + 1 + 1 : c[x] \in 1 .. n + 1
  OBVIOUS
<1>5. c[b + 1] <= c[b + 1 + 1] /\ \A x \in 1 .. b : c[x + 1] = c[x] + 1 /\ c[x] <= c[x + 1] /\ c[x] = x
  OBVIOUS
<1> HIDE DEF c
<1>6. \A x \in 1 .. b : MatchesChar(s[c[x]], mask[x])
  BY <1>3, <1>5 DEF MatchesChar
<1>7. \A x \in 1 .. b + 1 : x = b + 1 \/ x \in 1 .. b
  OBVIOUS
<1>8. Laid(c, s, mask, n, b + 1, 1)
  <2>1. \A x \in 1 .. b + 1 : IF mask[x] = "*" THEN c[x] <= c[x + 1]
                              ELSE c[x + 1] = c[x] + 1 /\ MatchesChar(s[c[x]], mask[x])
    BY <1>3, <1>5, <1>6, <1>7
  <2> QED
    BY <1>4, <2>1 DEF Laid
<1>9. b + 1 \in Nat
  OBVIOUS
<1>10. Fits(s, mask)
  BY <1>3, <1>4, <1>8, <1>9 DEF Fits
<1> QED
  BY <1>2, <1>10

\* Any user without identd
LEMMA FitsUnknown ==
  ASSUME NEW s, Listed(s), s # <<>>, s[1] = "~"
  PROVE  Fits(s, <<"~", "*">>)
<1>1. PICK n \in Nat : DOMAIN s = 1 .. n
  BY DEF Listed
<1>2. n # 0
  BY <1>1
<1> DEFINE c == [x \in 1 .. 3 |-> IF x = 3 THEN n + 1 ELSE x]
<1>3. c[1] = 1 /\ c[2] = 2 /\ c[3] = n + 1 /\ \A x \in 1 .. 3 : c[x] \in 1 .. n + 1
  BY <1>2
<1> HIDE DEF c
<1>4. PICK mask : mask = <<"~", "*">>
  OBVIOUS
<1>5. DOMAIN mask = 1 .. 2 /\ mask[1] = "~" /\ mask[2] = "*"
  BY <1>4
<1>6. \A x \in 1 .. 2 : x = 1 \/ x = 2
  OBVIOUS
<1>7. MatchesChar(s[1], mask[1])
  BY <1>5 DEF MatchesChar
<1>8. Laid(c, s, mask, n, 2, 1)
  <2>1. c[1 + 1] = c[1] + 1 /\ MatchesChar(s[c[1]], mask[1])
    BY <1>3, <1>7
  <2>2. c[2] <= c[2 + 1]
    BY <1>2, <1>3
  <2>3. 2 + 1 = 3
    OBVIOUS
  <2>4. mask[1] # "*"
    BY <1>5
  <2>5. \A x \in 1 .. 2 : IF mask[x] = "*" THEN c[x] <= c[x + 1]
                          ELSE c[x + 1] = c[x] + 1 /\ MatchesChar(s[c[x]], mask[x])
    BY <1>5, <1>6, <2>1, <2>2, <2>4
  <2> QED
    BY <1>3, <2>3, <2>5 DEF Laid
<1>9. Fits(s, mask)
  BY <1>1, <1>3, <1>5, <1>8 DEF Fits
<1> QED
  BY <1>4, <1>9

\* user@host, place by place
LEMMA UserHostIs ==
  ASSUME NEW u, NEW a \in Nat, DOMAIN u = 1 .. a, NEW h, NEW b \in Nat, DOMAIN h = 1 .. b
  PROVE  /\ DOMAIN UserHost(u, h) = 1 .. a + 1 + b
         /\ \A x \in 1 .. a : UserHost(u, h)[x] = u[x]
         /\ UserHost(u, h)[a + 1] = "@"
         /\ \A x \in 1 .. b : UserHost(u, h)[a + 1 + x] = h[x]
BY DEF UserHost

\* Masks for the user and for the host make one for both.
LEMMA FitsJoin ==
  ASSUME NEW u, NEW um, Fits(u, um), NEW h, NEW hm, Fits(h, hm)
  PROVE  Fits(UserHost(u, h), UserHost(um, hm))
<1>1. PICK n1 \in Nat, m1 \in Nat :
        /\ DOMAIN u = 1 .. n1 /\ DOMAIN um = 1 .. m1
        /\ \E c : Laid(c, u, um, n1, m1, 1) /\ c[1] = 1
  BY DEF Fits
<1>2. PICK c1 : Laid(c1, u, um, n1, m1, 1) /\ c1[1] = 1
  BY <1>1
<1>3. PICK n2 \in Nat, m2 \in Nat :
        /\ DOMAIN h = 1 .. n2 /\ DOMAIN hm = 1 .. m2
        /\ \E c : Laid(c, h, hm, n2, m2, 1) /\ c[1] = 1
  BY DEF Fits
<1>4. PICK c2 : Laid(c2, h, hm, n2, m2, 1) /\ c2[1] = 1
  BY <1>3
<1>5. PICK text : text = UserHost(u, h)
  OBVIOUS
<1>6. PICK mask : mask = UserHost(um, hm)
  OBVIOUS
<1>7. PICK n \in Nat : n = n1 + 1 + n2
  OBVIOUS
<1>8. PICK m \in Nat : m = m1 + 1 + m2
  OBVIOUS
<1>9. /\ DOMAIN text = 1 .. n /\ \A x \in 1 .. n1 : text[x] = u[x]
      /\ text[n1 + 1] = "@" /\ \A x \in 1 .. n2 : text[n1 + 1 + x] = h[x]
  BY <1>1, <1>3, <1>5, <1>7, UserHostIs
<1>10. /\ DOMAIN mask = 1 .. m /\ \A x \in 1 .. m1 : mask[x] = um[x]
       /\ mask[m1 + 1] = "@" /\ \A x \in 1 .. m2 : mask[m1 + 1 + x] = hm[x]
  BY <1>1, <1>3, <1>6, <1>8, UserHostIs
<1> DEFINE c == [k \in 1 .. m + 1 |-> IF k <= m1 + 1 THEN c1[k] ELSE n1 + 1 + c2[k - m1 - 1]]
<1>11. \A k \in 1 .. m1 + 1 : c[k] = c1[k] /\ c[k] \in 1 .. n1 + 1
  BY <1>2, <1>8 DEF Laid
<1>12. \A k \in m1 + 2 .. m + 1 : c[k] = n1 + 1 + c2[k - m1 - 1]
  BY <1>8
<1> HIDE DEF c
<1>13. ASSUME NEW z \in 1 .. m2 + 1
       PROVE  c[m1 + 1 + z] = n1 + 1 + c2[z] /\ c2[z] \in 1 .. n2 + 1
  <2>1. PICK k : k = m1 + 1 + z
    OBVIOUS
  <2>2. k \in m1 + 2 .. m + 1 /\ k - m1 - 1 = z
    BY <1>8, <2>1
  <2>3. c[k] = n1 + 1 + c2[z]
    BY <1>12, <2>2
  <2>4. c2[z] \in 1 .. n2 + 1
    BY <1>4 DEF Laid
  <2> QED
    BY <2>1, <2>3, <2>4
<1>14. c[1] = 1
  BY <1>2, <1>11
<1>15. c[m + 1] = n + 1
  <2>1. PICK z : z = m2 + 1
    OBVIOUS
  <2>2. z \in 1 .. m2 + 1 /\ m1 + 1 + z = m + 1
    BY <1>8, <2>1
  <2>3. c2[z] = n2 + 1
    BY <1>4, <2>1 DEF Laid
  <2>4. c[m1 + 1 + z] = n1 + 1 + c2[z]
    BY <1>13, <2>2
  <2>5. n1 + 1 + (n2 + 1) = n + 1
    BY <1>7
  <2> QED
    BY <2>2, <2>3, <2>4, <2>5
<1>16. \A k \in 1 .. m + 1 : k \in 1 .. m1 + 1 \/ \E z \in 1 .. m2 + 1 : k = m1 + 1 + z
  <2>1. TAKE k \in 1 .. m + 1
  <2>2. PICK z : z = k - m1 - 1
    OBVIOUS
  <2>3. k \in 1 .. m1 + 1 \/ (z \in 1 .. m2 + 1 /\ k = m1 + 1 + z)
    BY <1>8, <2>2
  <2> QED
    BY <2>3
<1>17. \A k \in 1 .. m + 1 : c[k] \in 1 .. n + 1
  <2>1. TAKE k \in 1 .. m + 1
  <2>2. CASE k \in 1 .. m1 + 1
    <3>1. c[k] \in 1 .. n1 + 1
      BY <1>11, <2>2
    <3> QED
      BY <1>7, <3>1
  <2>3. ASSUME NEW z \in 1 .. m2 + 1, k = m1 + 1 + z PROVE c[k] \in 1 .. n + 1
    <3>1. c[k] = n1 + 1 + c2[z] /\ c2[z] \in 1 .. n2 + 1
      BY <1>13, <2>3
    <3> QED
      BY <1>7, <3>1
  <2> QED
    BY <1>16, <2>2, <2>3
<1> DEFINE Next1(k) == IF mask[k] = "*" THEN c[k] <= c[k + 1]
                       ELSE c[k + 1] = c[k] + 1 /\ MatchesChar(text[c[k]], mask[k])
<1>18. ASSUME NEW k \in 1 .. m1 PROVE Next1(k)
  <2>1. k \in 1 .. m1 + 1 /\ k + 1 \in 1 .. m1 + 1
    OBVIOUS
  <2>2. c[k] = c1[k] /\ c[k + 1] = c1[k + 1] /\ mask[k] = um[k] /\ c[k] \in 1 .. n1 + 1
        /\ c[k + 1] \in 1 .. n1 + 1
    BY <1>10, <1>11, <2>1
  <2>3. IF um[k] = "*" THEN c1[k] <= c1[k + 1]
        ELSE c1[k + 1] = c1[k] + 1 /\ MatchesChar(u[c1[k]], um[k])
    BY <1>2 DEF Laid
  <2>4. CASE um[k] = "*"
    BY <2>2, <2>3, <2>4
  <2>5. CASE um[k] # "*"
    <3>1. c[k + 1] = c[k] + 1
      BY <2>2, <2>3, <2>5
    <3>2. c[k] \in 1 .. n1
      BY <2>2, <3>1
    <3>3. text[c[k]] = u[c[k]]
      BY <1>9, <3>2
    <3>4. MatchesChar(text[c[k]], mask[k])
      BY <2>2, <2>3, <2>5, <3>3
    <3> QED
      BY <2>2, <2>5, <3>1, <3>4
  <2> QED
    BY <2>4, <2>5
<1>19. Next1(m1 + 1)
  <2>1. m1 + 1 \in 1 .. m1 + 1 /\ 1 \in 1 .. m2 + 1
    OBVIOUS
  <2>2. c[m1 + 1] = n1 + 1
    <3>1. c1[m1 + 1] = n1 + 1
      BY <1>2 DEF Laid
    <3> QED
      BY <1>11, <2>1, <3>1
  <2>3. c[m1 + 1 + 1] = n1 + 1 + 1
    <3>1. c[m1 + 1 + 1] = n1 + 1 + c2[1]
      BY <1>13, <2>1
    <3> QED
      BY <1>4, <3>1
  <2>4. mask[m1 + 1] = "@" /\ text[n1 + 1] = "@"
    BY <1>9, <1>10
  <2>5. MatchesChar(text[c[m1 + 1]], mask[m1 + 1])
    BY <2>2, <2>4 DEF MatchesChar
  <2>6. mask[m1 + 1] # "*"
    BY <2>4
  <2> QED
    BY <2>2, <2>3, <2>5, <2>6
<1>20. ASSUME NEW z \in 1 .. m2 PROVE Next1(m1 + 1 + z)
  <2>1. z \in 1 .. m2 + 1 /\ z + 1 \in 1 .. m2 + 1 /\ m1 + 1 + (z + 1) = m1 + 1 + z + 1
    OBVIOUS
  <2>2. c[m1 + 1 + z] = n1 + 1 + c2[z] /\ c2[z] \in 1 .. n2 + 1
    BY <1>13, <2>1
  <2>3. c[m1 + 1 + z + 1] = n1 + 1 + c2[z + 1] /\ c2[z + 1] \in 1 .. n2 + 1
    BY <1>13, <2>1
  <2>4. mask[m1 + 1 + z] = hm[z]
    BY <1>10
  <2>5. IF hm[z] = "*" THEN c2[z] <= c2[z + 1]
        ELSE c2[z + 1] = c2[z] + 1 /\ MatchesChar(h[c2[z]], hm[z])
    BY <1>4 DEF Laid
  <2>6. CASE hm[z] = "*"
    <3>1. n1 + 1 + c2[z] <= n1 + 1 + c2[z + 1]
      BY <2>2, <2>3, <2>5, <2>6
    <3> QED
      BY <2>2, <2>3, <2>4, <2>6, <3>1
  <2>7. CASE hm[z] # "*"
    <3>1. c2[z + 1] = c2[z] + 1 /\ MatchesChar(h[c2[z]], hm[z])
      BY <2>5, <2>7
    <3>2. c2[z] \in 1 .. n2
      BY <2>2, <2>3, <3>1
    <3>3. text[n1 + 1 + c2[z]] = h[c2[z]]
      BY <1>9, <3>2
    <3>4. c[m1 + 1 + z + 1] = c[m1 + 1 + z] + 1
      BY <2>2, <2>3, <3>1
    <3>5. MatchesChar(text[c[m1 + 1 + z]], mask[m1 + 1 + z])
      BY <2>2, <2>4, <3>1, <3>3
    <3> QED
      BY <2>4, <2>7, <3>4, <3>5
  <2> QED
    BY <2>6, <2>7
<1>21. \A k \in 1 .. m : k \in 1 .. m1 \/ k = m1 + 1 \/ \E z \in 1 .. m2 : k = m1 + 1 + z
  <2>1. TAKE k \in 1 .. m
  <2>2. PICK z : z = k - m1 - 1
    OBVIOUS
  <2>3. k \in 1 .. m1 \/ k = m1 + 1 \/ (z \in 1 .. m2 /\ k = m1 + 1 + z)
    BY <1>8, <2>2
  <2> QED
    BY <2>3
<1>22. \A k \in 1 .. m : Next1(k)
  <2> HIDE DEF Next1
  <2> QED
    BY <1>18, <1>19, <1>20, <1>21
<1>23. Laid(c, text, mask, n, m, 1)
  BY <1>15, <1>17, <1>22 DEF Laid
<1>24. Fits(text, mask)
  BY <1>9, <1>10, <1>14, <1>23 DEF Fits
<1> QED
  BY <1>5, <1>6, <1>24

-----------------------------------------------------------------------------
(* What users, hosts and addresses are cut to                              *)

\* LastOf finds the greatest of some places.
LEMMA LastOfIs ==
  ASSUME NEW n \in Nat, NEW S, S \subseteq 1 .. n, S # {}
  PROVE  LastOf(S) \in 1 .. n /\ LastOf(S) \in S /\ \A j \in S : j <= LastOf(S)
<1> DEFINE T == {x \in 0 .. n : n - x \in S}
<1>1. T # {}
  <2>1. PICK i \in S : TRUE
    OBVIOUS
  <2>2. PICK x : x = n - i
    OBVIOUS
  <2>3. x \in 0 .. n /\ n - x = i
    BY <2>1, <2>2
  <2> QED
    BY <2>1, <2>3
<1>2. T \in SUBSET Nat
  OBVIOUS
<1>3. PICK x \in T : \A y \in T : x <= y
  <2> HIDE DEF T
  <2> QED
    BY <1>1, <1>2, LeastOf
<1>4. PICK i : i = n - x
  OBVIOUS
<1>5. i \in S /\ i \in 1 .. n
  BY <1>3, <1>4
<1>6. ASSUME NEW j \in S PROVE j <= i
  <2>1. PICK y : y = n - j
    OBVIOUS
  <2>2. y \in 0 .. n /\ n - y = j
    BY <1>6, <2>1
  <2>3. y \in T
    BY <1>6, <2>2
  <2>4. x <= y
    BY <1>3, <2>3
  <2> QED
    BY <1>3, <1>4, <1>5, <2>1, <2>2, <2>4
<1> HIDE DEF T
<1>7. LastOf(S) \in S /\ \A j \in S : j <= LastOf(S)
  BY <1>5, <1>6 DEF LastOf
<1> QED
  BY <1>7

\* The places of a character are places of the text.
LEMMA PlacesIn ==
  ASSUME NEW s, NEW n \in Nat, DOMAIN s = 1 .. n, NEW ch
  PROVE  Places(s, ch) \subseteq 1 .. n /\ \A i \in Places(s, ch) : s[i] = ch
BY DEF Places

\* k is an end of s, or a beginning of it that ends in ch.
IsEnd(k, s) == \E n \in Nat : DOMAIN s = 1 .. n /\ \E i \in 1 .. n + 1 : EndOf(k, s, n, i)
IsStart(k, s, ch) ==
  \E n \in Nat : /\ DOMAIN s = 1 .. n
                 /\ \E b \in 1 .. n : /\ DOMAIN k = 1 .. b /\ k[b] = ch
                                      /\ \A x \in 1 .. b : k[x] = s[x]

\* A star before an end of a text is a mask for the text.
LEMMA EndFits ==
  ASSUME NEW s, NEW k, IsEnd(k, s)
  PROVE  Fits(s, Anyone \o k)
BY FitsEnd DEF IsEnd

\* So is a beginning of it before a star.
LEMMA StartFits ==
  ASSUME NEW s, NEW k, NEW ch, IsStart(k, s, ch)
  PROVE  Fits(s, k \o Anyone) /\ k[Len(k)] = ch
<1>1. PICK n \in Nat : /\ DOMAIN s = 1 .. n
                       /\ \E b \in 1 .. n : /\ DOMAIN k = 1 .. b /\ k[b] = ch
                                            /\ \A x \in 1 .. b : k[x] = s[x]
  BY DEF IsStart
<1>2. PICK b \in 1 .. n : DOMAIN k = 1 .. b /\ k[b] = ch /\ \A x \in 1 .. b : k[x] = s[x]
  BY <1>1
<1>3. Fits(s, k \o Anyone)
  <2>1. b \in 0 .. n
    OBVIOUS
  <2> QED
    BY <1>1, <1>2, <2>1, FitsStart
<1>4. Len(k) = b
  BY <1>2
<1> QED
  BY <1>2, <1>3, <1>4

\* A text is an end of itself.
LEMMA WholeIsEnd ==
  ASSUME NEW s, Listed(s)
  PROVE  IsEnd(s, s)
<1>1. PICK n \in Nat : DOMAIN s = 1 .. n
  BY DEF Listed
<1>2. EndOf(s, s, n, 1)
  <2>1. n + 1 - 1 = n /\ \A x \in 1 .. n : 1 + x - 1 = x
    OBVIOUS
  <2> QED
    BY <1>1, <2>1 DEF EndOf
<1>3. 1 \in 1 .. n + 1
  OBVIOUS
<1> QED
  BY <1>1, <1>2, <1>3 DEF IsEnd

\* So is what is left without its first character,
LEMMA TailIsEnd ==
  ASSUME NEW s, Listed(s), s # <<>>
  PROVE  IsEnd(Tail(s), s)
<1>1. PICK n \in Nat : DOMAIN s = 1 .. n
  BY DEF Listed
<1>2. n \in Nat \ {0}
  BY <1>1
<1>3. PICK k : k = Tail(s)
  OBVIOUS
<1>4. DOMAIN k = 1 .. n - 1 /\ \A x \in 1 .. n - 1 : k[x] = s[x + 1]
  BY <1>1, <1>2, <1>3, TailIs
<1>5. EndOf(k, s, n, 2)
  <2>1. n + 1 - 2 = n - 1 /\ \A x \in 1 .. n - 1 : 2 + x - 1 = x + 1
    OBVIOUS
  <2> QED
    BY <1>4, <2>1 DEF EndOf
<1>6. 2 \in 1 .. n + 1
  BY <1>2
<1> QED
  BY <1>1, <1>3, <1>5, <1>6 DEF IsEnd

\* what a long user name is cut to,
LEMMA CutIsEnd ==
  ASSUME NEW s, Listed(s), MaxUser \in Nat
  PROVE  IsEnd(Cut(s), s)
<1>1. PICK n \in Nat : DOMAIN s = 1 .. n
  BY DEF Listed
<1>2. Len(s) = n
  BY <1>1
<1>3. CASE n > MaxUser
  <2>1. PICK i : i = n - MaxUser + 1
    OBVIOUS
  <2>2. i \in 1 .. n + 1
    BY <1>3, <2>1
  <2>3. Cut(s) = From(s, i)
    BY <1>2, <1>3, <2>1 DEF Cut
  <2>4. EndOf(From(s, i), s, n, i)
    BY <1>1, <2>2, FromEnd
  <2> QED
    BY <1>1, <2>2, <2>3, <2>4 DEF IsEnd
<1>4. CASE ~(n > MaxUser)
  <2>1. Cut(s) = s
    BY <1>2, <1>4 DEF Cut
  <2> QED
    BY <2>1, WholeIsEnd
<1> QED
  BY <1>3, <1>4

\* and the user that is banned.
LEMMA IdentIsEnd ==
  ASSUME NEW s, Listed(s), s # <<>>, MaxUser \in Nat
  PROVE  IsEnd(Ident(s), s) /\ IsEnd(Bare(s), s)
BY TailIsEnd, CutIsEnd, WholeIsEnd DEF Ident, Bare

\* An address has a dot, so that something is left before its last number.
LEMMA IPv4Dots ==
  ASSUME NEW s, IsIPv4(s)
  PROVE  Places(s, ".") # {}
<1>1. Cardinality(Places(s, ".")) = 3
  BY DEF IsIPv4
<1> QED
  BY <1>1, FS_EmptySet

\* An IPv6 address has a colon.
LEMMA IPv6Dots ==
  ASSUME NEW s, IsIPv6(s)
  PROVE  Places(s, ":") # {}
<1>1. Cardinality(Places(s, ":")) = 7
  BY DEF IsIPv6
<1> QED
  BY <1>1, FS_EmptySet

\* What is left up to the last "." or ":" is a beginning.
LEMMA UptoIsStart ==
  ASSUME NEW s, Listed(s), NEW ch, Places(s, ch) # {}
  PROVE  IsStart(Upto(s, LastOf(Places(s, ch))), s, ch)
<1>1. PICK n \in Nat : DOMAIN s = 1 .. n
  BY DEF Listed
<1>2. PICK last : last = LastOf(Places(s, ch))
  OBVIOUS
<1>3. last \in 1 .. n /\ s[last] = ch
  <2>1. Places(s, ch) \subseteq 1 .. n /\ \A i \in Places(s, ch) : s[i] = ch
    BY <1>1, PlacesIn
  <2>2. LastOf(Places(s, ch)) \in 1 .. n /\ LastOf(Places(s, ch)) \in Places(s, ch)
    BY <2>1, LastOfIs
  <2> QED
    BY <1>2, <2>1, <2>2
<1>4. PICK k : k = Upto(s, last)
  OBVIOUS
<1>5. StartOf(k, s, n, last)
  <2>1. last \in Nat
    BY <1>3
  <2> QED
    BY <1>1, <1>4, <2>1, UptoStart
<1>6. PICK b \in 0 .. n : b = (IF last < n THEN last ELSE n) /\ DOMAIN k = 1 .. b /\ \A x \in 1 .. b : k[x] = s[x]
  BY <1>5 DEF StartOf
<1>7. b = last
  BY <1>3, <1>6
<1>8. last \in 1 .. last
  BY <1>3
<1>9. k[last] = ch /\ DOMAIN k = 1 .. last /\ \A x \in 1 .. last : k[x] = s[x]
  BY <1>3, <1>6, <1>7, <1>8
<1>10. IsStart(k, s, ch)
  BY <1>1, <1>3, <1>9 DEF IsStart
<1> QED
  BY <1>2, <1>4, <1>10

\* The mask of a class C net is one for its addresses.
LEMMA ClassCFits ==
  ASSUME NEW ip, Listed(ip), IsIPv4(ip)
  PROVE  Fits(ip, ClassC(ip))
<1>1. PICK n \in Nat : DOMAIN ip = 1 .. n
  BY DEF Listed
<1>2. PICK last : last = LastOf(Places(ip, "."))
  OBVIOUS
<1>3. last \in 1 .. n /\ ip[last] = "."
  <2>1. Places(ip, ".") \subseteq 1 .. n /\ \A i \in Places(ip, ".") : ip[i] = "."
    BY <1>1, PlacesIn
  <2>2. LastOf(Places(ip, ".")) \in 1 .. n /\ LastOf(Places(ip, ".")) \in Places(ip, ".")
    BY <2>1, LastOfIs, IPv4Dots
  <2> QED
    BY <1>2, <2>1, <2>2
<1>4. PICK k : k = Upto(ip, last - 1)
  OBVIOUS
<1>5. StartOf(k, ip, n, last - 1)
  <2>1. PICK i \in Nat : i = last - 1
    BY <1>3
  <2>2. StartOf(Upto(ip, i), ip, n, i)
    BY <1>1, <2>1, UptoStart
  <2> QED
    BY <1>4, <2>1, <2>2
<1>6. DOMAIN k = 1 .. last - 1 /\ \A x \in 1 .. last - 1 : k[x] = ip[x]
  <2>1. PICK b \in 0 .. n : b = (IF last - 1 < n THEN last - 1 ELSE n) /\ DOMAIN k = 1 .. b /\ \A x \in 1 .. b : k[x] = ip[x]
    BY <1>5 DEF StartOf
  <2>2. b = last - 1
    BY <1>3, <2>1
  <2> QED
    BY <2>1, <2>2
<1>7. PICK net : net = Append(k, ".")
  OBVIOUS
<1>8. DOMAIN net = 1 .. last /\ net[last] = "." /\ \A x \in 1 .. last - 1 : net[x] = k[x]
  <2>1. PICK l \in Nat : l = last - 1
    BY <1>3
  <2>2. DOMAIN k = 1 .. l
    BY <1>6, <2>1
  <2>3. DOMAIN Append(k, ".") = 1 .. l + 1 /\ Append(k, ".")[l + 1] = "."
        /\ \A x \in 1 .. l : Append(k, ".")[x] = k[x]
    BY <2>2
  <2>4. l + 1 = last
    BY <1>3, <2>1
  <2> QED
    BY <1>7, <2>1, <2>3, <2>4
<1>9. \A x \in 1 .. last : net[x] = ip[x]
  <2>1. TAKE x \in 1 .. last
  <2>2. x = last \/ x \in 1 .. last - 1
    BY <1>3
  <2> QED
    BY <1>3, <1>6, <1>8, <2>2
<1>10. last \in 0 .. n
  BY <1>3
<1>11. Fits(ip, net \o Anyone)
  BY <1>1, <1>8, <1>9, <1>10, FitsStart
<1>12. ClassC(ip) = net \o Anyone
  BY <1>2, <1>4, <1>7 DEF ClassC, Anyone
<1> QED
  BY <1>11, <1>12

\* Before finds an earlier place, or none.
LEMMA BeforeIs ==
  ASSUME NEW n \in Nat, NEW S, S \subseteq 1 .. n, NEW i
  PROVE  Before(S, i) = 0 \/ Before(S, i) \in S
<1>1. PICK T : T = {j \in S : j < i}
  OBVIOUS
<1>2. Before(S, i) = LastOf(T) /\ T \subseteq S
  BY <1>1 DEF Before
<1>3. CASE T = {}
  BY <1>2, <1>3 DEF LastOf
<1>4. CASE T # {}
  <2>1. LastOf(T) \in T
    BY <1>2, <1>4, LastOfIs
  <2> QED
    BY <1>2, <2>1
<1> QED
  BY <1>3, <1>4

\* A name's domain is an end of it, and the whole of it unless it has dots.
LEMMA NameDomain ==
  ASSUME NEW host, Listed(host), ~IsIPv4(host), ~IsIPv6(host)
  PROVE  LET d == GetDomain(host, TRUE)
         IN  d = host \/ (Places(host, ".") # {} /\ IsEnd(d, host)
                          /\ d # <<>> /\ d[Len(d)] = host[Len(host)])
<1>1. PICK n \in Nat : DOMAIN host = 1 .. n
  BY DEF Listed
<1>2. PICK dots : dots = Places(host, ".")
  OBVIOUS
<1>3. dots \subseteq 1 .. n
  BY <1>1, <1>2, PlacesIn
<1>4. PICK prev : prev = Before(dots, LastOf(dots))
  OBVIOUS
<1>5. PICK third : third = Before(dots, prev)
  OBVIOUS
<1>6. (prev = 0 \/ prev \in dots) /\ (third = 0 \/ third \in dots)
  BY <1>3, <1>4, <1>5, BeforeIs
<1>7. PICK d : d = GetDomain(host, TRUE)
  OBVIOUS
<1>8. \/ d = host
      \/ prev # 0 /\ d = From(host, prev)
      \/ third # 0 /\ d = From(host, third)
  BY <1>2, <1>4, <1>5, <1>7 DEF GetDomain
<1>9. ASSUME NEW i \in dots PROVE IsEnd(From(host, i), host) /\ From(host, i) # <<>>
                                  /\ From(host, i)[Len(From(host, i))] = host[Len(host)]
  <2>1. i \in 1 .. n + 1 /\ i \in 1 .. n
    BY <1>3, <1>9
  <2>2. PICK e : e = From(host, i)
    OBVIOUS
  <2>3. EndOf(From(host, i), host, n, i) /\ Len(From(host, i)) = n + 1 - i
    BY <1>1, <2>1, FromEnd
  <2>4. EndOf(e, host, n, i) /\ Len(e) = n + 1 - i
    BY <2>2, <2>3
  <2>5. PICK l : l = n + 1 - i
    OBVIOUS
  <2>6. l \in 1 .. n + 1 - i /\ i + l - 1 = n
    BY <2>1, <2>5
  <2>7. e[l] = host[n]
    BY <2>4, <2>6 DEF EndOf
  <2>8. Len(host) = n
    BY <1>1
  <2>9. l # 0 /\ Len(e) = l
    BY <2>1, <2>4, <2>5
  <2>10. e # <<>>
    BY <2>9
  <2>11. e[Len(e)] = host[Len(host)]
    BY <2>7, <2>8, <2>9
  <2>12. IsEnd(e, host)
    BY <1>1, <2>1, <2>4 DEF IsEnd
  <2> QED
    BY <2>2, <2>10, <2>11, <2>12
<1>10. d = host \/ (dots # {} /\ IsEnd(d, host) /\ d # <<>> /\ d[Len(d)] = host[Len(host)])
  BY <1>6, <1>8, <1>9
<1> QED
  BY <1>2, <1>7, <1>10

\* The same of an address
LEMMA AddressDomain ==
  ASSUME NEW host, Listed(host), IsIPv4(host) \/ IsIPv6(host)
  PROVE  IsStart(GetDomain(host, TRUE), host, IF IsIPv4(host) THEN "." ELSE ":")
<1>1. CASE IsIPv4(host)
  <2>1. GetDomain(host, TRUE) = Upto(host, LastOf(Places(host, ".")))
    BY <1>1 DEF GetDomain
  <2> QED
    BY <1>1, <2>1, IPv4Dots, UptoIsStart
<1>2. CASE ~IsIPv4(host) /\ IsIPv6(host)
  <2>1. PICK n \in Nat : DOMAIN host = 1 .. n
    BY DEF Listed
  <2>2. PICK last : last = LastOf(Places(host, ":"))
    OBVIOUS
  <2>3. last \in 1 .. n
    <3>1. Places(host, ":") \subseteq 1 .. n
      BY <2>1, PlacesIn
    <3> QED
      BY <1>2, <2>2, <3>1, IPv6Dots, LastOfIs
  <2>4. GetDomain(host, TRUE) = Upto(host, last - 0)
    BY <1>2, <2>2 DEF GetDomain
  <2>5. last - 0 = last
    BY <2>3
  <2>6. GetDomain(host, TRUE) = Upto(host, LastOf(Places(host, ":")))
    BY <2>2, <2>4, <2>5
  <2> QED
    BY <1>2, <2>6, IPv6Dots, UptoIsStart
<1> QED
  BY <1>1, <1>2

\* The top level of a name is a label.
Labelled(host) ==
  ~IsIPv4(host) /\ Places(host, ".") # {} => host[Len(host)] \notin {".", ":"}

\* A domain with its star is a mask for the hosts that it is the domain of.
LEMMA DomainFits ==
  ASSUME NEW host, Listed(host), host # <<>>, Labelled(host)
  PROVE  /\ Fits(host, Starred(GetDomain(host, TRUE)))
         /\ IsIPv4(host) => Fits(host, GetDomain(host, TRUE) \o Anyone)
         /\ ~IsIPv4(host) /\ ~IsIPv6(host) => Fits(host, Anyone \o GetDomain(host, TRUE))
<1>1. PICK d : d = GetDomain(host, TRUE)
  OBVIOUS
<1>2. CASE IsIPv4(host) \/ IsIPv6(host)
  <2>1. PICK ch : ch = IF IsIPv4(host) THEN "." ELSE ":"
    OBVIOUS
  <2>2. IsStart(d, host, ch)
    BY <1>1, <1>2, <2>1, AddressDomain
  <2>3. Fits(host, d \o Anyone) /\ d[Len(d)] = ch
    BY <2>2, StartFits
  <2>4. ch \in {".", ":"}
    BY <2>1
  <2>5. Starred(d) = d \o Anyone
    BY <2>3, <2>4 DEF Starred
  <2> QED
    BY <1>1, <1>2, <2>3, <2>5
<1>3. CASE ~IsIPv4(host) /\ ~IsIPv6(host)
  <2>1. d = host \/ (Places(host, ".") # {} /\ IsEnd(d, host) /\ d # <<>> /\ d[Len(d)] = host[Len(host)])
    BY <1>1, <1>3, NameDomain
  <2>2. CASE d = host
    <3>1. Fits(host, Anyone \o d)
      BY <2>2, WholeIsEnd, EndFits
    <3>2. Fits(host, d \o Anyone)
      <4>1. PICK n \in Nat : DOMAIN host = 1 .. n
        BY DEF Listed
      <4>2. n \in 0 .. n /\ DOMAIN d = 1 .. n /\ \A x \in 1 .. n : d[x] = host[x]
        BY <2>2, <4>1
      <4> QED
        BY <4>1, <4>2, FitsStart
    <3>3. Fits(host, Starred(d))
      BY <3>1, <3>2 DEF Starred
    <3> QED
      BY <1>1, <1>3, <3>1, <3>3
  <2>3. CASE Places(host, ".") # {} /\ IsEnd(d, host) /\ d # <<>> /\ d[Len(d)] = host[Len(host)]
    <3>1. Fits(host, Anyone \o d)
      BY <2>3, EndFits
    <3>2. d[Len(d)] \notin {".", ":"}
      BY <1>3, <2>3 DEF Labelled
    <3>3. Starred(d) = Anyone \o d
      BY <3>2 DEF Starred
    <3> QED
      BY <1>1, <1>3, <3>1, <3>3
  <2> QED
    BY <2>1, <2>2, <2>3
<1> QED
  BY <1>2, <1>3

-----------------------------------------------------------------------------
(* Bans cover their clients                                                *)

\* What is known of a client: its host name is genuine.
Genuine(c) ==
  /\ Listed(c.user) /\ c.user # <<>>
  /\ Listed(c.host) /\ c.host # <<>> /\ Labelled(c.host)
  /\ Listed(c.real) /\ (c.real # None => IsIPv4(c.real))
  /\ c.ip # None => c.ip = c.real /\ IsIPv4(c.real)
  /\ IsIPv4(c.host) => c.host = c.real

\* A K-line of a mask for the user and one for the host name covers the client.
LEMMA CoversHost ==
  ASSUME NEW c, NEW um, NEW hm, Fits(c.user, um), Fits(c.host, hm)
  PROVE  Covers(Kline(UserHost(um, hm)), c)
<1>1. PICK mask : mask = UserHost(um, hm)
  OBVIOUS
<1>2. Glob(UserHost(c.user, c.host), mask)
  BY <1>1, FitsJoin, FitsGlob
<1>3. Kline(mask).ban # "DLINE" /\ Kline(mask).mask = mask
  BY DEF Kline
<1> QED
  BY <1>1, <1>2, <1>3 DEF Covers

\* So does one of a mask for the user and one for the address.
LEMMA CoversReal ==
  ASSUME NEW c, NEW um, NEW hm, Fits(c.user, um), Fits(c.real, hm)
  PROVE  Covers(Kline(UserHost(um, hm)), c)
<1>1. PICK mask : mask = UserHost(um, hm)
  OBVIOUS
<1>2. Glob(UserHost(c.user, c.real), mask)
  BY <1>1, FitsJoin, FitsGlob
<1>3. Kline(mask).ban # "DLINE" /\ Kline(mask).mask = mask
  BY DEF Kline
<1> QED
  BY <1>1, <1>2, <1>3 DEF Covers

\* A D-line of a mask for the address covers the client.
LEMMA CoversAddress ==
  ASSUME NEW c, NEW mask, Fits(c.real, mask)
  PROVE  Covers(Dline(mask), c)
<1>1. Glob(c.real, mask)
  BY FitsGlob
<1>2. Dline(mask).ban = "DLINE" /\ Dline(mask).mask = mask
  BY DEF Dline
<1> QED
  BY <1>1, <1>2 DEF Covers

\* The address that an action bans by is the client's, and its net the client's net.
LEMMA AddressFits ==
  ASSUME NEW c, Genuine(c), AddressOf(c.host, c.ip) # None
  PROVE  Fits(c.real, AddressOf(c.host, c.ip)) /\ Fits(c.real, ClassC(AddressOf(c.host, c.ip)))
<1>1. AddressOf(c.host, c.ip) = c.real /\ IsIPv4(c.real) /\ Listed(c.real)
  BY DEF AddressOf, Genuine
<1> QED
  BY <1>1, FitsSame, ClassCFits

\* The masks that doAction asks for
ByHost(c) == Kline(UserHost(Anyone, c.host))
ByDomain(c) == Kline(UserHost(Anyone \o Ident(c.user), Starred(GetDomain(c.host, TRUE))))
ByAnyDomain(c) == Kline(UserHost(Anyone, Starred(GetDomain(c.host, TRUE))))
ByAddress(c) == Kline(UserHost(Anyone, AddressOf(c.host, c.ip)))
ByNet(c) == Kline(UserHost(Anyone \o Ident(c.user), ClassC(AddressOf(c.host, c.ip))))
ByAnyNet(c) == Kline(UserHost(Anyone, ClassC(AddressOf(c.host, c.ip))))

\* doAction bans in eight ways, five of which need the address.
LEMMA DoActionIs ==
  ASSUME NEW c, NEW type \in Actions, NEW ban \in DoAction(type, c.user, c.host, c.ip)
  PROVE  \/ ban \in {ByHost(c), ByDomain(c), ByAnyDomain(c)}
         \/ /\ AddressOf(c.host, c.ip) # None
            /\ ban \in {ByAddress(c), ByNet(c), ByAnyNet(c), Dline(AddressOf(c.host, c.ip)),
                        Dline(ClassC(AddressOf(c.host, c.ip)))}
<1>1. PICK ip : ip = AddressOf(c.host, c.ip)
  OBVIOUS
<1>2. PICK d : d = Starred(GetDomain(c.host, TRUE))
  OBVIOUS
<1>3. PICK u : u = Anyone \o Ident(c.user)
  OBVIOUS
<1>4. PICK host, domain, any, address, net, anyNet :
        /\ host = ByHost(c) /\ domain = ByDomain(c) /\ any = ByAnyDomain(c)
        /\ address = ByAddress(c) /\ net = ByNet(c) /\ anyNet = ByAnyNet(c)
  OBVIOUS
<1>5. /\ host = Kline(UserHost(Anyone, c.host)) /\ domain = Kline(UserHost(u, d))
      /\ any = Kline(UserHost(Anyone, d)) /\ address = Kline(UserHost(Anyone, ip))
      /\ net = Kline(UserHost(u, ClassC(ip))) /\ anyNet = Kline(UserHost(Anyone, ClassC(ip)))
  BY <1>1, <1>2, <1>3, <1>4 DEF ByHost, ByDomain, ByAnyDomain, ByAddress, ByNet, ByAnyNet
<1> DEFINE Claim == \/ ban \in {host, domain, any}
                    \/ ip # None /\ ban \in {address, net, anyNet, Dline(ip), Dline(ClassC(ip))}
<1>6. type = "KLINE" => Claim
  BY <1>1, <1>2, <1>3, <1>5 DEF DoAction
<1>7. type = "KLINE_HOST" => Claim
  BY <1>1, <1>2, <1>3, <1>5 DEF DoAction
<1>8. type = "KLINE_DOMAIN" => Claim
  BY <1>1, <1>2, <1>3, <1>5 DEF DoAction
<1>9. type = "KLINE_IP" => Claim
  BY <1>1, <1>2, <1>3, <1>5 DEF DoAction
<1>10. type = "KLINE_USERNET" => Claim
  BY <1>1, <1>2, <1>3, <1>5 DEF DoAction
<1>11. type = "KLINE_NET" => Claim
  BY <1>1, <1>2, <1>3, <1>5 DEF DoAction
<1>12. type = "SMART_KLINE" => Claim
  BY <1>1, <1>2, <1>3, <1>5 DEF DoAction
<1>13. type = "SMART_KLINE_HOST" => Claim
  BY <1>1, <1>2, <1>3, <1>5 DEF DoAction
<1>14. type = "SMART_KLINE_IP" => Claim
  BY <1>1, <1>2, <1>3, <1>5 DEF DoAction
<1>15. type = "DLINE_IP" => Claim
  BY <1>1, <1>2, <1>3, <1>5 DEF DoAction
<1>16. type = "DLINE_NET" => Claim
  BY <1>1, <1>2, <1>3, <1>5 DEF DoAction
<1>17. Claim
  <2> HIDE DEF Claim
  <2> QED
    BY <1>6, <1>7, <1>8, <1>9, <1>10, <1>11, <1>12, <1>13, <1>14, <1>15, <1>16 DEF Actions
<1> QED
  BY <1>1, <1>4, <1>17

\* Each of them covers the client.
LEMMA DoActionCovers ==
  ASSUME NEW c, Genuine(c), MaxUser \in Nat, NEW type \in Actions,
         NEW ban \in DoAction(type, c.user, c.host, c.ip)
  PROVE  Covers(ban, c)
<1>1. Listed(c.user) /\ c.user # <<>> /\ Listed(c.host) /\ c.host # <<>> /\ Labelled(c.host)
  BY DEF Genuine
<1>2. Fits(c.user, Anyone) /\ Fits(c.user, Anyone \o Ident(c.user))
  BY <1>1, FitsAny, IdentIsEnd, EndFits
<1>3. Fits(c.host, c.host) /\ Fits(c.host, Starred(GetDomain(c.host, TRUE)))
  BY <1>1, FitsSame, DomainFits
<1>4. CASE ban \in {ByHost(c), ByDomain(c), ByAnyDomain(c)}
  BY <1>2, <1>3, <1>4, CoversHost DEF ByHost, ByDomain, ByAnyDomain
<1>5. CASE /\ AddressOf(c.host, c.ip) # None
           /\ ban \in {ByAddress(c), ByNet(c), ByAnyNet(c), Dline(AddressOf(c.host, c.ip)),
                       Dline(ClassC(AddressOf(c.host, c.ip)))}
  <2>1. Fits(c.real, AddressOf(c.host, c.ip)) /\ Fits(c.real, ClassC(AddressOf(c.host, c.ip)))
    BY <1>5, AddressFits
  <2> QED
    BY <1>2, <1>5, <2>1, CoversReal, CoversAddress DEF ByAddress, ByNet, ByAnyNet
<1> QED
  BY <1>4, <1>5, DoActionIs

\* The mask of a trap's K-line covers the client.
LEMMA KlineMaskCovers ==
  ASSUME NEW c, Genuine(c), MaxUser \in Nat, ~IsIPv6(c.host)
  PROVE  Covers(Kline(KlineMask(c.user, c.host)), c)
<1>1. Listed(c.user) /\ c.user # <<>> /\ Listed(c.host) /\ c.host # <<>> /\ Labelled(c.host)
  BY DEF Genuine
<1>2. PICK um : um = IF c.user # <<>> /\ c.user[1] = "~" THEN <<"~", "*">> ELSE Anyone \o Cut(c.user)
  OBVIOUS
<1>3. PICK d : d = GetDomain(c.host, TRUE)
  OBVIOUS
<1>4. PICK hm : hm = IF IsIPv4(c.host) THEN d \o Anyone ELSE Anyone \o d
  OBVIOUS
<1>5. KlineMask(c.user, c.host) = UserHost(um, hm)
  BY <1>2, <1>3, <1>4 DEF KlineMask
<1>6. Fits(c.user, um)
  <2>1. c.user[1] = "~" => Fits(c.user, <<"~", "*">>)
    BY <1>1, FitsUnknown
  <2>2. Fits(c.user, Anyone \o Cut(c.user))
    BY <1>1, CutIsEnd, EndFits
  <2> QED
    BY <1>2, <2>1, <2>2
<1>7. Fits(c.host, hm)
  <2>1. IsIPv4(c.host) => Fits(c.host, d \o Anyone)
    BY <1>1, <1>3, DomainFits
  <2>2. ~IsIPv4(c.host) => Fits(c.host, Anyone \o d)
    BY <1>1, <1>3, DomainFits
  <2> QED
    BY <1>4, <2>1, <2>2
<1> QED
  BY <1>5, <1>6, <1>7, CoversHost

\* What a trap bans covers the client.
LEMMA TrapActionCovers ==
  ASSUME NEW c, Genuine(c), MaxUser \in Nat, NEW type \in TrapActions \ {"KLINE_DOMAIN"},
         type = "KLINE" => ~IsIPv6(c.host),
         NEW ban \in TrapAction(type, c.user, c.host, c.ip)
  PROVE  Covers(ban, c)
<1>1. Listed(c.user) /\ c.user # <<>> /\ Listed(c.host)
  BY DEF Genuine
<1>2. PICK u : u = IF Len(c.user) > 1 /\ c.user[1] = "~" THEN Tail(c.user) ELSE c.user
  OBVIOUS
<1>3. Fits(c.user, Anyone) /\ Fits(c.user, Anyone \o u)
  <2>1. IsEnd(u, c.user)
    BY <1>1, <1>2, TailIsEnd, WholeIsEnd
  <2> QED
    BY <1>1, <2>1, FitsAny, EndFits
<1>4. c.ip # None => Fits(c.real, c.ip) /\ Fits(c.real, ClassC(c.ip))
  <2>1. c.ip # None => c.ip = c.real /\ IsIPv4(c.real) /\ Listed(c.real)
    BY DEF Genuine
  <2> QED
    BY <2>1, FitsSame, ClassCFits
<1>5. Fits(c.host, c.host)
  BY <1>1, FitsSame
<1>6. PICK hostBan, netBan, ipBan, anyBan :
        /\ hostBan = Kline(UserHost(Anyone, c.host)) /\ netBan = Kline(UserHost(Anyone \o u, ClassC(c.ip)))
        /\ ipBan = Kline(UserHost(Anyone, c.ip)) /\ anyBan = Kline(UserHost(Anyone, ClassC(c.ip)))
  OBVIOUS
<1>7. Covers(hostBan, c)
  BY <1>3, <1>5, <1>6, CoversHost
<1>8. c.ip # None => /\ Covers(netBan, c) /\ Covers(ipBan, c) /\ Covers(anyBan, c)
                     /\ Covers(Dline(c.ip), c) /\ Covers(Dline(ClassC(c.ip)), c)
  BY <1>3, <1>4, <1>6, CoversReal, CoversAddress
<1>9. type = "KLINE" => Covers(ban, c)
  BY KlineMaskCovers DEF TrapAction
<1>10. type = "KLINE_HOST" => Covers(ban, c)
  BY <1>6, <1>7 DEF TrapAction
<1>11. type = "KLINE_IP" => Covers(ban, c)
  BY <1>6, <1>8 DEF TrapAction
<1>12. type = "KLINE_USERNET" => Covers(ban, c)
  BY <1>2, <1>6, <1>8 DEF TrapAction
<1>13. type = "KLINE_NET" => Covers(ban, c)
  BY <1>6, <1>8 DEF TrapAction
<1>14. type = "DLINE_IP" => Covers(ban, c)
  BY <1>8 DEF TrapAction
<1>15. type = "DLINE_NET" => Covers(ban, c)
  BY <1>8 DEF TrapAction
<1> QED
  BY <1>9, <1>10, <1>11, <1>12, <1>13, <1>14, <1>15 DEF TrapActions

\* A K-line for clones covers a client of whom it says nothing that is not so: the user,
\* unless users differ, the net, and the host, unless addresses differ.
LEMMA KlineClonesCovers ==
  ASSUME NEW c, Genuine(c), NEW user, NEW host, ~IsIPv6(host), NEW ip,
         NEW differentUser \in BOOLEAN, NEW differentIp \in BOOLEAN, NEW identd \in BOOLEAN,
         ~differentUser => IsEnd(user, c.user),
         ~identd => c.user[1] = "~",
         ip # None => IsIPv4(c.real) /\ ClassC(ip) = ClassC(c.real),
         host = c.host \/ (differentIp /\ ip # None)
  PROVE  Covers(Kline(KlineClones(user, host, ip, differentUser, differentIp, identd)), c)
<1>1. Listed(c.user) /\ c.user # <<>> /\ Listed(c.host) /\ c.host # <<>> /\ Labelled(c.host) /\ Listed(c.real)
  BY DEF Genuine
<1>2. PICK unknown : unknown = <<"~", "*">>
  OBVIOUS
<1>3. PICK net : net = IF ip # None THEN ClassC(ip)
                       ELSE IF IsIPv4(host) THEN ClassC(host) ELSE Anyone \o GetDomain(host, TRUE)
  OBVIOUS
<1>4. PICK named : named = Anyone \o user
  OBVIOUS
<1>5. Fits(c.user, Anyone) /\ (~differentUser => Fits(c.user, named)) /\ (~identd => Fits(c.user, unknown))
  BY <1>1, <1>2, <1>4, FitsAny, EndFits, FitsUnknown
<1>6. ip # None => Fits(c.real, ClassC(ip))
  BY <1>1, ClassCFits
<1>7. CASE differentIp /\ ip # None
  <2>1. KlineClones(user, host, ip, differentUser, differentIp, identd)
        = UserHost(IF ~differentUser THEN named ELSE IF identd THEN Anyone ELSE unknown, ClassC(ip))
    BY <1>2, <1>4, <1>7 DEF KlineClones
  <2>2. Fits(c.user, IF ~differentUser THEN named ELSE IF identd THEN Anyone ELSE unknown)
    BY <1>5
  <2> QED
    BY <1>6, <1>7, <2>1, <2>2, CoversReal
<1>8. CASE ~(differentIp /\ ip # None)
  <2>1. host = c.host
    BY <1>8
  <2>2. Fits(c.host, host)
    BY <1>1, <2>1, FitsSame
  <2>3. Fits(c.host, net) \/ Fits(c.real, net)
    <3>1. IsIPv4(host) => Fits(c.host, ClassC(host))
      BY <1>1, <2>1, ClassCFits
    <3>2. ~IsIPv4(host) => Fits(c.host, Anyone \o GetDomain(host, TRUE))
      BY <1>1, <2>1, DomainFits
    <3> QED
      BY <1>3, <1>6, <3>1, <3>2
  <2>4. PICK mask : mask = KlineClones(user, host, ip, differentUser, differentIp, identd)
    OBVIOUS
  <2>5. \/ mask = UserHost(Anyone, host)
        \/ ~identd /\ mask = UserHost(unknown, net)
        \/ ~differentUser /\ mask = UserHost(named, net)
    BY <1>2, <1>3, <1>4, <1>8, <2>4 DEF KlineClones
  <2>6. Covers(Kline(UserHost(Anyone, host)), c)
    BY <1>5, <2>2, CoversHost
  <2>7. ~identd => Covers(Kline(UserHost(unknown, net)), c)
    BY <1>5, <2>3, CoversHost, CoversReal
  <2>8. ~differentUser => Covers(Kline(UserHost(named, net)), c)
    BY <1>5, <2>3, CoversHost, CoversReal
  <2>9. Covers(Kline(mask), c)
    BY <2>5, <2>6, <2>7, <2>8
  <2> QED
    BY <2>4, <2>9
<1> QED
  BY <1>7, <1>8

\* The K-line for a client that the server calls a clone covers it.
LEMMA CsClonesCovers ==
  ASSUME NEW c, Genuine(c), ~IsIPv6(c.host)
  PROVE  Covers(Kline(CsClonesBan(c)), c)
<1>1. PICK user : user = IF Identd(c.user) THEN Tail(c.user) ELSE c.user
  OBVIOUS
<1>2. IsEnd(user, c.user)
  <2>1. Listed(c.user) /\ c.user # <<>>
    BY DEF Genuine
  <2> QED
    BY <1>1, <2>1, TailIsEnd, WholeIsEnd
<1>3. PICK identd \in BOOLEAN : identd <=> Identd(c.user)
  BY DEF Identd
<1>4. ~identd => c.user[1] = "~"
  BY <1>3 DEF Identd
<1>5. c.ip # None => IsIPv4(c.real) /\ ClassC(c.ip) = ClassC(c.real)
  BY DEF Genuine
<1>6. Covers(Kline(KlineClones(user, c.host, c.ip, FALSE, FALSE, identd)), c)
  BY <1>2, <1>4, <1>5, KlineClonesCovers
<1>7. Identd(c.user) = identd
  BY <1>3 DEF Identd
<1> QED
  BY <1>1, <1>6, <1>7 DEF CsClonesBan

\* The K-line for two clones covers each of them whose host and net it names.
LEMMA ClonesCover ==
  ASSUME NEW a, NEW b, Genuine(a), Genuine(b), NEW c \in {a, b}, ~IsIPv6(b.host)
  PROVE  /\ a.host = b.host /\ (b.ip = None \/ OneNet(c.real, b.real))
              => Covers(Kline(HostClonesBan(a, b)), c)
         /\ SameNet(a, b) /\ (c.host = b.host \/ a.ip # b.ip)
              => Covers(Kline(IpClonesBan(a, b)), c)
<1>1. PICK user : user = Bare(b.user)
  OBVIOUS
<1>2. PICK du \in BOOLEAN : du <=> Bare(a.user) # Bare(b.user)
  OBVIOUS
<1>3. PICK di \in BOOLEAN : di <=> a.ip # b.ip
  OBVIOUS
<1>4. PICK id \in BOOLEAN : id <=> Identd(a.user) \/ Identd(b.user)
  BY DEF Identd
<1>5. (Bare(a.user) # Bare(b.user)) = du /\ (a.ip # b.ip) = di
      /\ (Identd(a.user) \/ Identd(b.user)) = id
  BY <1>2, <1>3, <1>4 DEF Identd
<1>6. HostClonesBan(a, b) = KlineClones(user, b.host, b.ip, du, FALSE, id)
  BY <1>1, <1>5 DEF HostClonesBan
<1>7. IpClonesBan(a, b) = KlineClones(user, b.host, b.ip, du, di, id)
  BY <1>1, <1>5 DEF IpClonesBan
<1>8. ~du => IsEnd(user, c.user)
  <2>1. IsEnd(Bare(a.user), a.user) /\ IsEnd(Bare(b.user), b.user)
    BY TailIsEnd, WholeIsEnd DEF Bare, Genuine
  <2> QED
    BY <1>1, <1>2, <2>1
<1>9. ~id => c.user[1] = "~"
  BY <1>4 DEF Identd
<1>10. ASSUME a.host = b.host, b.ip = None \/ OneNet(c.real, b.real)
       PROVE  Covers(Kline(HostClonesBan(a, b)), c)
  <2>1. c.host = b.host
    BY <1>10
  <2>2. b.ip # None => IsIPv4(c.real) /\ ClassC(b.ip) = ClassC(c.real)
    BY <1>10 DEF Genuine, OneNet
  <2>3. Genuine(c) /\ FALSE \in BOOLEAN
    OBVIOUS
  <2>4. Covers(Kline(KlineClones(user, b.host, b.ip, du, FALSE, id)), c)
    BY <1>8, <1>9, <2>1, <2>2, <2>3, KlineClonesCovers
  <2> QED
    BY <1>6, <2>4
<1>11. ASSUME SameNet(a, b), c.host = b.host \/ a.ip # b.ip
       PROVE  Covers(Kline(IpClonesBan(a, b)), c)
  <2>1. a.ip # None /\ b.ip # None /\ ClassC(a.ip) = ClassC(b.ip)
    BY <1>11 DEF SameNet, OneNet
  <2>2. IsIPv4(c.real) /\ ClassC(b.ip) = ClassC(c.real)
    BY <2>1 DEF Genuine
  <2>3. Genuine(c)
    OBVIOUS
  <2>4. b.host = c.host \/ (di /\ b.ip # None)
    BY <1>3, <1>11, <2>1
  <2>5. Covers(Kline(KlineClones(user, b.host, b.ip, du, di, id)), c)
    BY <1>8, <1>9, <2>2, <2>3, <2>4, KlineClonesCovers
  <2> QED
    BY <1>7, <2>5
<1> QED
  BY <1>10, <1>11

-----------------------------------------------------------------------------
(* The theorems                                                            *)

\* A sequence has its places in a row.
LEMMA SeqListed ==
  ASSUME NEW s \in Seq(STRING)
  PROVE  Listed(s)
BY DEF Listed

\* A client has a user, and the name and address of a host.
HasHost(c, h) ==
  /\ c.user \in Users /\ c.host = h.name /\ c.real = h.ip /\ (c.ip = None \/ c.ip = h.ip)

\* A client has one of the hosts.
LEMMA ClientHost ==
  ASSUME NEW c \in Client
  PROVE  \E h \in Hosts : HasHost(c, h)
BY DEF Client, HasHost

\* A client of such a host is genuine,
LEMMA HostsGenuine ==
  ASSUME NEW c, NEW h \in Hosts, HasHost(c, h)
  PROVE  Genuine(c)
<1>1. c.user \in Seq(STRING) /\ c.user # None
  BY UsersAssumption DEF HasHost
<1>2. h.name \in Seq(STRING) /\ h.name # None /\ h.ip \in Seq(STRING)
  BY HostsAssumption
<1>3. Listed(c.user) /\ Listed(h.name) /\ Listed(h.ip)
  BY <1>1, <1>2, SeqListed
<1>4. h.ip # None => IsIPv4(h.ip)
  BY HostsAssumption
<1>5. IsIPv4(h.name) => h.name = h.ip
  BY HostsAssumption
<1>6. ~IsIPv4(h.name) /\ Places(h.name, ".") # {} => h.name[Len(h.name)] \in Legal \cup TwoLetters
  BY HostsAssumption
<1>7. Labelled(h.name)
  BY <1>6, HostsAssumption DEF Labelled
<1>8. c.user # <<>> /\ h.name # <<>>
  BY <1>1, <1>2 DEF None
<1> QED
  BY <1>3, <1>4, <1>5, <1>7, <1>8 DEF Genuine, HasHost

\* and is not taken for a spoof.
LEMMA HostsUnspoofed ==
  ASSUME NEW c, NEW h \in Hosts, HasHost(c, h)
  PROVE  Spoof(c.host, c.real) = "none"
<1>1. PICK host : host = h.name
  OBVIOUS
<1>2. c.host = host /\ c.real = h.ip
  BY <1>1 DEF HasHost
<1>3. CASE IsIPv4(host)
  <2>1. host = h.ip
    BY <1>1, <1>3, HostsAssumption
  <2> QED
    BY <1>2, <1>3, <2>1 DEF Spoof
<1>4. CASE ~IsIPv4(host)
  <2>1. Places(host, ".") # {} => host[Len(host)] \in Legal \cup TwoLetters
    BY <1>1, <1>4, HostsAssumption
  <2>2. LastOf(Places(host, ".")) # 0 => Places(host, ".") # {}
    BY DEF LastOf
  <2>3. \A i \in DOMAIN host : host[i] \notin {"*", "?", "@"}
    BY <1>1, <1>4, HostsAssumption
  <2>4. Places(host, "*") \cup Places(host, "?") \cup Places(host, "@") = {}
    BY <2>3 DEF Places
  <2> QED
    BY <1>2, <1>4, <2>1, <2>2, <2>4 DEF Spoof
<1> QED
  BY <1>3, <1>4

\* The cases that are studied
Studied ==
  /\ matching = None \/ \E text \in Texts, glob \in Globs : matching = <<text, glob>>
  /\ offender = None \/ offender \in Client
  /\ clones = None \/ \E a, b \in Client : clones = <<a, b>>

\* The state is always such a case.
LEMMA AlwaysStudied ==
  Spec => []Studied
<1>1. Init => Studied
  BY DEF Init, Studied
<1>2. Studied /\ [Next]_vars => Studied'
  <2> SUFFICES ASSUME Studied, [Next]_vars PROVE Studied'
    OBVIOUS
  <2>1. ASSUME NEW text \in Texts, NEW glob \in Globs, Match(text, glob) PROVE Studied'
    BY <2>1 DEF Match, Studied
  <2>2. ASSUME NEW c \in Client, Offend(c) PROVE Studied'
    BY <2>2 DEF Offend, Studied
  <2>3. ASSUME NEW a \in Client, NEW b \in Client, Clone(a, b) PROVE Studied'
    BY <2>3 DEF Clone, Studied
  <2>4. CASE UNCHANGED vars
    BY <2>4 DEF vars, Studied
  <2> QED
    BY <2>1, <2>2, <2>3, <2>4 DEF Next
<1> QED
  BY <1>1, <1>2, PTL DEF Spec

\* Whatever the texts and the patterns, the code's matcher finds a match just when there
\* is one, unless a pattern has two stars in a row.
THEOREM MatcherRight ==
  Spec => []GlobMatches
<1>1. Studied => GlobMatches
  <2> SUFFICES ASSUME Studied, matching # None, ~TwoStars(matching[2])
               PROVE  SMatch(matching[1], matching[2]) <=> Glob(matching[1], matching[2])
    BY DEF GlobMatches
  <2>1. PICK text \in Texts, glob \in Globs : matching = <<text, glob>>
    BY DEF Studied
  <2>2. matching[1] = text /\ matching[2] = glob
    BY <2>1
  <2>3. text \in Seq(STRING) /\ glob \in Seq(STRING)
    BY <2>1, TextsAssumption
  <2> QED
    BY <2>2, <2>3, SMatchIsGlob
<1> QED
  BY <1>1, AlwaysStudied, PTL

\* Whatever the user, the host and its address, known or not, each action bans the client
\* that it is for; and the K-line for two clones bans the second, and the first if it
\* has what the K-line names.
THEOREM BansCoverClients ==
  Spec => []BansCover
<1>1. Studied => BansCover
  <2> SUFFICES ASSUME Studied PROVE BansCover
    OBVIOUS
  <2>1. MaxUser \in Nat
    BY UsersAssumption
  <2>2. ASSUME offender # None
        PROVE  /\ \A type \in Actions :
                    \A ban \in DoAction(type, offender.user, offender.host, offender.ip) :
                      Covers(ban, offender)
               /\ \A type \in TrapActions \ {"KLINE_DOMAIN"} :
                    \/ IsIPv6(offender.host) /\ type = "KLINE"
                    \/ \A ban \in TrapAction(type, offender.user, offender.host, offender.ip) :
                         Covers(ban, offender)
               /\ IsIPv6(offender.host) \/ Covers(Kline(CsClonesBan(offender)), offender)
               /\ Spoof(offender.host, offender.real) = "none"
    <3>1. PICK h \in Hosts : HasHost(offender, h)
      BY <2>2, ClientHost DEF Studied
    <3>2. Genuine(offender)
      BY <3>1, HostsGenuine
    <3>3. \A type \in Actions :
            \A ban \in DoAction(type, offender.user, offender.host, offender.ip) :
              Covers(ban, offender)
      BY <2>1, <3>2, DoActionCovers
    <3>4. \A type \in TrapActions \ {"KLINE_DOMAIN"} :
            \/ IsIPv6(offender.host) /\ type = "KLINE"
            \/ \A ban \in TrapAction(type, offender.user, offender.host, offender.ip) :
                 Covers(ban, offender)
      BY <2>1, <3>2, TrapActionCovers
    <3>5. IsIPv6(offender.host) \/ Covers(Kline(CsClonesBan(offender)), offender)
      BY <3>2, CsClonesCovers
    <3>6. Spoof(offender.host, offender.real) = "none"
      BY <3>1, HostsUnspoofed
    <3> QED
      BY <3>3, <3>4, <3>5, <3>6
  <2>3. ASSUME clones # None, ~IsIPv6(clones[2].host),
               NEW a, a = clones[1], NEW b, b = clones[2]
        PROVE  /\ a.host = b.host =>
                    /\ Covers(Kline(HostClonesBan(a, b)), b)
                    /\ b.ip = None \/ OneNet(a.real, b.real) =>
                         Covers(Kline(HostClonesBan(a, b)), a)
               /\ SameNet(a, b) =>
                    /\ Covers(Kline(IpClonesBan(a, b)), b)
                    /\ a.host = b.host \/ a.ip # b.ip => Covers(Kline(IpClonesBan(a, b)), a)
    <3>1. a \in Client /\ b \in Client
      BY <2>3 DEF Studied
    <3>2. Genuine(a) /\ Genuine(b) /\ ~IsIPv6(b.host)
      BY <2>3, <3>1, ClientHost, HostsGenuine
    <3>3. b.ip # None => OneNet(b.real, b.real)
      <4>1. b.ip # None => b.real # None
        BY <3>2 DEF Genuine
      <4> QED
        BY <4>1 DEF OneNet
    <3>4. /\ a.host = b.host => Covers(Kline(HostClonesBan(a, b)), b)
          /\ SameNet(a, b) => Covers(Kline(IpClonesBan(a, b)), b)
      BY <3>2, <3>3, ClonesCover
    <3>5. /\ a.host = b.host /\ (b.ip = None \/ OneNet(a.real, b.real))
               => Covers(Kline(HostClonesBan(a, b)), a)
          /\ SameNet(a, b) /\ (a.host = b.host \/ a.ip # b.ip)
               => Covers(Kline(IpClonesBan(a, b)), a)
      BY <3>2, ClonesCover
    <3> QED
      BY <3>4, <3>5
  <2> QED
    BY <2>2, <2>3 DEF BansCover
<1> QED
  BY <1>1, AlwaysStudied, PTL
=============================================================================
