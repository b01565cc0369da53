---------------------------- MODULE Dnsbl_proof ----------------------------
(***************************************************************************)
(* Proofs about the DNS blackhole lookups, for any clients, zones, lists   *)
(* of zones and failing lookups: one verdict for a check, and none that    *)
(* passes for clean a client some zone of its list would have named.       *)
(***************************************************************************)
EXTENDS Dnsbl, FiniteSetTheorems, SequenceTheorems, TLAPS

-----------------------------------------------------------------------------
(* The invariant                                                           *)

QueriesOf(u, qs) == {q \in qs : q.user = u}
NoQuery(u, qs) == QueriesOf(u, qs) = {}
OneQuery(u, qs) == \E q \in qs : QueriesOf(u, qs) = {q}

\* The clients but u have the same queries in ps and in qs.
OthersSame(u, ps, qs) ==
    \A v \in Users \ {u} : QueriesOf(v, ps) = QueriesOf(v, qs)

\* A check has not begun, has one query out, or has its one verdict.
OneAtATime ==
    \A u \in Users :
      \/ listed[u] = 0 /\ scanned[u] = 0 /\ NoQuery(u, queries)
      \/ listed[u] = 0 /\ scanned[u] = 0 /\ OneQuery(u, queries)
      \/ listed[u] = 1 /\ scanned[u] = 0 /\ NoQuery(u, queries)
      \/ listed[u] = 0 /\ scanned[u] = 1 /\ NoQuery(u, queries)

\* A sequence after its first n elements
Rest(s, n) == SubSeq(s, n + 1, Len(s))

\* A zone that may be passed over: it does not name the client, as the listing l
\* goes, or it cannot be relied upon.
Passed(u, z, l) == z \in Flaky \/ <<u, z>> \notin l

\* The zones zs that are left are the last ones of s, and the ones before have been
\* passed over.
Left(u, zs, s, l) ==
    \E n \in 0 .. Len(s) : zs = Rest(s, n) /\ \A k \in 1 .. n : Passed(u, s[k], l)

\* A query asks a zone of the list s its check began with, and keeps the zones after.
InTurn(q, s, l) ==
    \E n \in DOMAIN s :
      /\ q.zone = s[n]
      /\ q.rest = Rest(s, n)
      /\ \A k \in 1 .. n - 1 : Passed(q.user, s[k], l)

\* Every query is in turn, and who has passed for clean has passed every zone.
AskedInTurn ==
    /\ \A q \in queries : InTurn(q, asks[q.user], listing)
    /\ \A u \in Users :
         scanned[u] > 0 => \A k \in DOMAIN asks[u] : Passed(u, asks[u][k], listing)

IInv == TypeOK /\ OneAtATime /\ AskedInTurn

-----------------------------------------------------------------------------
(* Sequences                                                               *)

\* The rest of a sequence, after n of its elements, is a sequence of the others.
LEMMA RestIsSeq ==
  ASSUME NEW S, NEW s \in Seq(S), NEW n \in Nat, n <= Len(s)
  PROVE  /\ Rest(s, n) \in Seq(S) /\ Len(Rest(s, n)) = Len(s) - n
         /\ DOMAIN Rest(s, n) = 1 .. Len(s) - n
         /\ \A i \in 1 .. Len(s) - n : n + i \in DOMAIN s /\ Rest(s, n)[i] = s[n + i]
<1> DEFINE t == Rest(s, n)
<1>1. /\ Len(s) \in Nat /\ DOMAIN s = 1 .. Len(s)
      /\ \A i \in 1 .. Len(s) : s[i] \in S
  BY LenProperties, ElementOfSeq
<1>2. /\ n + 1 \in Int /\ Len(s) \in Int
      /\ \A i \in n + 1 .. Len(s) : s[i] \in S
  BY <1>1
<1>3. /\ t \in Seq(S)
      /\ Len(t) = IF n + 1 <= Len(s) THEN Len(s) - (n + 1) + 1 ELSE 0
      /\ \A i \in 1 .. Len(s) - (n + 1) + 1 : t[i] = s[n + 1 + i - 1]
  BY <1>2, SubSeqProperties DEF Rest
<1> HIDE DEF t
<1>4. Len(t) = Len(s) - n
  <2> DEFINE l == Len(s)
  <2>1. l \in Nat /\ n <= l
    BY <1>1
  <2>2. Len(t) = IF n + 1 <= l THEN l - (n + 1) + 1 ELSE 0
    BY <1>3
  <2> HIDE DEF l
  <2>3. Len(t) = l - n
    BY <2>1, <2>2
  <2> QED
    BY <2>3 DEF l
<1>5. ASSUME NEW i \in 1 .. Len(s) - n
      PROVE  n + i \in DOMAIN s /\ t[i] = s[n + i]
  <2>1. i \in 1 .. Len(s) - (n + 1) + 1 /\ n + 1 + i - 1 = n + i /\ n + i \in DOMAIN s
    BY <1>1
  <2> QED
    BY <1>3, <2>1
<1>6. DOMAIN t = 1 .. Len(s) - n
  BY <1>3, <1>4, LenProperties
<1> QED
  BY <1>3, <1>4, <1>5, <1>6 DEF t

\* A rest of a rest of a sequence is a rest of it.
LEMMA RestOfRest ==
  ASSUME NEW S, NEW s \in Seq(S), NEW n \in Nat, NEW k \in Nat, n + k <= Len(s)
  PROVE  Rest(Rest(s, n), k) = Rest(s, n + k)
<1>1. Len(s) \in Nat /\ n <= Len(s) /\ n + k \in Nat
  BY LenProperties
<1>2. /\ Rest(s, n) \in Seq(S) /\ Len(Rest(s, n)) = Len(s) - n
      /\ \A i \in 1 .. Len(s) - n : Rest(s, n)[i] = s[n + i]
  BY <1>1, RestIsSeq
<1>3. k <= Len(Rest(s, n)) /\ Len(s) - n - k = Len(s) - (n + k)
  <2> DEFINE l == Len(s)
             m == Len(Rest(s, n))
  <2>1. l \in Nat /\ n + k <= l /\ m = l - n
    BY <1>1, <1>2
  <2> HIDE DEF l, m
  <2>2. k <= m /\ l - n - k = l - (n + k)
    BY <2>1
  <2> QED
    BY <2>2 DEF l, m
<1>4. /\ Rest(Rest(s, n), k) \in Seq(S)
      /\ Len(Rest(Rest(s, n), k)) = Len(s) - (n + k)
      /\ \A i \in 1 .. Len(s) - (n + k) : Rest(Rest(s, n), k)[i] = Rest(s, n)[k + i]
  <2> DEFINE t == Rest(s, n)
             l == Len(s)
  <2>1. t \in Seq(S) /\ k <= Len(t) /\ Len(t) = l - n /\ l - n - k = l - (n + k)
    BY <1>2, <1>3
  <2> HIDE DEF t, l
  <2>2. /\ Rest(t, k) \in Seq(S) /\ Len(Rest(t, k)) = Len(t) - k
        /\ \A i \in 1 .. Len(t) - k : Rest(t, k)[i] = t[k + i]
    BY <2>1, RestIsSeq
  <2>3. Len(t) - k = l - (n + k)
    BY <2>1
  <2> QED
    BY <2>2, <2>3 DEF t, l
<1>5. /\ Rest(s, n + k) \in Seq(S) /\ Len(Rest(s, n + k)) = Len(s) - (n + k)
      /\ \A i \in 1 .. Len(s) - (n + k) : Rest(s, n + k)[i] = s[n + k + i]
  BY <1>1, RestIsSeq
<1>6. ASSUME NEW i \in 1 .. Len(s) - (n + k)
      PROVE  Rest(Rest(s, n), k)[i] = Rest(s, n + k)[i]
  <2>1. k + i \in 1 .. Len(s) - n /\ n + (k + i) = n + k + i
    BY <1>1
  <2> QED
    BY <1>2, <1>4, <1>5, <2>1
<1> QED
  BY <1>4, <1>5, <1>6, SeqEqual

-----------------------------------------------------------------------------
(* The steps                                                               *)

\* What checkZone does with the zones that are left to a client whose query, if it
\* had one, is done with.
LEMMA CheckZoneKeeps ==
  ASSUME TypeOK, NEW u \in Users, NEW zs \in Seq(Zones), NEW others,
         others \subseteq queries, \A q \in others : q.user # u,
         CheckZone(u, zs, others)
  PROVE  /\ queries' \in SUBSET Queries /\ scanned' \in [Users -> Nat]
         /\ OthersSame(u, queries', others)
         /\ \A v \in Users \ {u} : scanned'[v] = scanned[v]
         /\ \/ scanned'[u] = scanned[u] /\ OneQuery(u, queries')
            \/ scanned'[u] = scanned[u] + 1 /\ NoQuery(u, queries')
<1>1. ASSUME NEW k \in DOMAIN zs, queries' = others \union {Query(u, zs, k)},
             UNCHANGED scanned
      PROVE  /\ queries' \in SUBSET Queries /\ scanned' \in [Users -> Nat]
             /\ OthersSame(u, queries', others)
             /\ \A v \in Users \ {u} : scanned'[v] = scanned[v]
             /\ scanned'[u] = scanned[u] /\ OneQuery(u, queries')
  <2>1. /\ zs[k] \in Zones
        /\ SubSeq(zs, k + 1, Len(zs)) \in Seq(Zones)
    BY SMTT(30)
  <2>2. Query(u, zs, k) \in Queries /\ Query(u, zs, k).user = u
    BY <2>1 DEF Query, Queries
  <2> QED
    <3>1. queries' \in SUBSET Queries /\ OthersSame(u, queries', others)
      BY <1>1, <2>2 DEF TypeOK, QueriesOf, OthersSame
    <3>2. QueriesOf(u, queries') = {Query(u, zs, k)}
      BY <1>1, <2>2 DEF QueriesOf
    <3>3. OneQuery(u, queries')
      BY <1>1, <3>2 DEF OneQuery
    <3> QED
      BY <1>1, <3>1, <3>3 DEF TypeOK
<1>2. CASE queries' = others /\ scanned' = [scanned EXCEPT ![u] = @ + 1]
  BY <1>2 DEF TypeOK, QueriesOf, NoQuery, OthersSame
<1> QED
  BY <1>1, <1>2 DEF CheckZone

LEMMA TypeStep ==
  ASSUME TypeOK, [Next]_vars
  PROVE  TypeOK'
<1>1. ASSUME NEW u \in Users, Check(u)
      PROVE  TypeOK'
  <2>1. zones \in Seq(Zones) /\ \A q \in queries : q.user # u
    BY <1>1, ZonesAssumption DEF TypeOK, Check, Checked
  <2>2. queries' \in SUBSET Queries /\ scanned' \in [Users -> Nat]
    BY <1>1, <2>1, CheckZoneKeeps DEF Check
  <2> QED
    BY <1>1, <2>1, <2>2 DEF Check, TypeOK
<1>2. ASSUME NEW q \in queries, AnswerListed(q)
      PROVE  TypeOK'
  BY <1>2 DEF AnswerListed, TypeOK, Queries
<1>3. ASSUME NEW q \in queries, AnswerNotListed(q)
      PROVE  TypeOK'
  <2>1. q.user \in Users /\ q.rest \in Seq(Zones)
    BY DEF TypeOK, Queries
  <2>2. CASE \E p \in queries : p # q /\ p.user = q.user
    <3>1. ASSUME NEW k \in DOMAIN q.rest
          PROVE  Query(q.user, q.rest, k) \in Queries
      <4>1. q.rest[k] \in Zones /\ SubSeq(q.rest, k + 1, Len(q.rest)) \in Seq(Zones)
        BY <2>1, SMTT(30)
      <4> QED
        BY <2>1, <4>1 DEF Query, Queries
    <3> QED
      BY <1>3, <2>1, <3>1 DEF AnswerNotListed, CheckZone, TypeOK
  <2>3. CASE \A p \in queries \ {q} : p.user # q.user
    <3>1. queries' \in SUBSET Queries /\ scanned' \in [Users -> Nat]
      BY <1>3, <2>1, <2>3, CheckZoneKeeps DEF AnswerNotListed
    <3> QED
      BY <1>3, <3>1 DEF AnswerNotListed, TypeOK
  <2> QED
    BY <2>2, <2>3
<1>4. ASSUME NEW zs \in ZoneLists, SetZones(zs)
      PROVE  TypeOK'
  BY <1>4 DEF SetZones, TypeOK
<1>5. CASE UNCHANGED vars
  BY <1>5 DEF vars, TypeOK
<1> QED
  BY <1>1, <1>2, <1>3, <1>4, <1>5 DEF Next

\* The only query of its client is done with: no other of it is left.
LEMMA OnlyQuery ==
  ASSUME TypeOK, OneAtATime, NEW q \in queries
  PROVE  /\ q.user \in Users /\ listed[q.user] = 0 /\ scanned[q.user] = 0
         /\ \A p \in queries \ {q} : p.user # q.user
<1>1. q.user \in Users
  BY DEF TypeOK, Queries
<1>2. q \in QueriesOf(q.user, queries)
  BY DEF QueriesOf
<1> QED
  BY <1>1, <1>2 DEF OneAtATime, QueriesOf, NoQuery, OneQuery

LEMMA OneAtATimeStep ==
  ASSUME TypeOK, OneAtATime, [Next]_vars
  PROVE  OneAtATime'
<1>1. ASSUME NEW u \in Users, NEW zs \in Seq(Zones), NEW others,
             others \subseteq queries, \A q \in others : q.user # u,
             OthersSame(u, others, queries),
             listed[u] = 0, scanned[u] = 0,
             CheckZone(u, zs, others), UNCHANGED listed
      PROVE  OneAtATime'
  <2>1. /\ OthersSame(u, queries', others)
        /\ \A v \in Users \ {u} : scanned'[v] = scanned[v]
        /\ \/ scanned'[u] = scanned[u] /\ OneQuery(u, queries')
           \/ scanned'[u] = scanned[u] + 1 /\ NoQuery(u, queries')
    BY <1>1, CheckZoneKeeps
  <2>2. \A v \in Users \ {u} :
          /\ NoQuery(v, queries) => NoQuery(v, queries')
          /\ OneQuery(v, queries) => OneQuery(v, queries')
    BY <1>1, <2>1 DEF OthersSame, NoQuery, OneQuery, QueriesOf
  <2> QED
    BY <1>1, <2>1, <2>2 DEF OneAtATime
<1>2. ASSUME NEW u \in Users, Check(u)
      PROVE  OneAtATime'
  <2>1. zones \in Seq(Zones) /\ (\A q \in queries : q.user # u)
        /\ listed[u] = 0 /\ scanned[u] = 0
    BY <1>2, ZonesAssumption DEF TypeOK, OneAtATime, QueriesOf, NoQuery, Check, Checked
  <2>2. /\ CheckZone(u, zones, queries) /\ UNCHANGED listed
        /\ OthersSame(u, queries, queries)
    BY <1>2 DEF Check, OthersSame
  <2> QED
    BY <1>1, <2>1, <2>2
<1>3. ASSUME NEW q \in queries, AnswerListed(q)
      PROVE  OneAtATime'
  <2>1. /\ q.user \in Users /\ listed[q.user] = 0 /\ scanned[q.user] = 0
        /\ \A p \in queries \ {q} : p.user # q.user
    BY OnlyQuery
  <2>2. /\ NoQuery(q.user, queries')
        /\ \A v \in Users \ {q.user} :
             /\ NoQuery(v, queries) => NoQuery(v, queries')
             /\ OneQuery(v, queries) => OneQuery(v, queries')
    <3>1. queries' = queries \ {q}
      BY <1>3 DEF AnswerListed
    <3>2. NoQuery(q.user, queries')
      BY <2>1, <3>1 DEF NoQuery, QueriesOf
    <3>3. \A v \in Users \ {q.user} : QueriesOf(v, queries') = QueriesOf(v, queries)
      BY <3>1 DEF QueriesOf
    <3>4. ASSUME NEW v \in Users \ {q.user}, OneQuery(v, queries)
          PROVE  OneQuery(v, queries')
      <4>1. PICK p \in queries : QueriesOf(v, queries) = {p}
        BY <3>4 DEF OneQuery
      <4>2. p \in queries'
        BY <3>3, <4>1 DEF QueriesOf
      <4> QED
        BY <3>3, <4>1, <4>2 DEF OneQuery
    <3> QED
      BY <3>2, <3>3, <3>4 DEF NoQuery
  <2>3. /\ listed'[q.user] = 1 /\ scanned'[q.user] = 0
        /\ \A v \in Users \ {q.user} : listed'[v] = listed[v] /\ scanned'[v] = scanned[v]
    BY <1>3, <2>1 DEF AnswerListed, TypeOK
  <2> QED
    BY <2>1, <2>2, <2>3 DEF OneAtATime
<1>4. ASSUME NEW q \in queries, AnswerNotListed(q)
      PROVE  OneAtATime'
  <2>1. /\ q.user \in Users /\ listed[q.user] = 0 /\ scanned[q.user] = 0
        /\ \A p \in queries \ {q} : p.user # q.user
    BY OnlyQuery
  <2>2. /\ q.rest \in Seq(Zones) /\ CheckZone(q.user, q.rest, queries \ {q})
        /\ UNCHANGED listed
    BY <1>4 DEF AnswerNotListed, TypeOK, Queries
  <2>3. OthersSame(q.user, queries \ {q}, queries)
    BY DEF OthersSame, QueriesOf
  <2> QED
    BY <1>1, <2>1, <2>2, <2>3
<1>5. ASSUME NEW zs \in ZoneLists, SetZones(zs)
      PROVE  OneAtATime'
  BY <1>5 DEF SetZones, OneAtATime
<1>6. CASE UNCHANGED vars
  BY <1>6 DEF vars, OneAtATime
<1> QED
  BY <1>2, <1>3, <1>4, <1>5, <1>6 DEF Next

\* What checkZone asks next is in turn, and what it passes for clean has passed every
\* zone.
LEMMA NextInTurn ==
  ASSUME NEW u, NEW zs, NEW s \in Seq(Zones), NEW l, Left(u, zs, s, l)
  PROVE  /\ \A k \in DOMAIN zs :
              (\A j \in 1 .. k - 1 : zs[j] \in Flaky) => InTurn(Query(u, zs, k), s, l)
         /\ (\A j \in DOMAIN zs : zs[j] \in Flaky) =>
              \A i \in DOMAIN s : Passed(u, s[i], l)
<1>1. PICK n \in 0 .. Len(s) :
        zs = Rest(s, n) /\ \A k \in 1 .. n : Passed(u, s[k], l)
  BY DEF Left
<1>2. DOMAIN s = 1 .. Len(s) /\ Len(s) \in Nat /\ n \in Nat /\ n <= Len(s)
  BY <1>1, LenProperties
<1>3. /\ DOMAIN zs = 1 .. Len(s) - n
      /\ \A k \in 1 .. Len(s) - n : n + k \in DOMAIN s /\ zs[k] = s[n + k]
  BY <1>1, <1>2, RestIsSeq
<1>4. ASSUME NEW k \in DOMAIN zs, \A j \in 1 .. k - 1 : zs[j] \in Flaky
      PROVE  InTurn(Query(u, zs, k), s, l)
  <2>1. k \in Nat /\ n + k <= Len(s) /\ n + k \in DOMAIN s /\ zs[k] = s[n + k]
    BY <1>2, <1>3
  <2>2. ASSUME NEW i \in 1 .. (n + k) - 1
        PROVE  Passed(u, s[i], l)
    <3>1. CASE i \in 1 .. n
      BY <1>1, <3>1
    <3>2. CASE i \notin 1 .. n
      <4>1. i - n \in 1 .. k - 1 /\ i - n \in 1 .. Len(s) - n /\ n + (i - n) = i
        BY <1>2, <2>1, <3>2
      <4>2. s[i] = zs[i - n] /\ zs[i - n] \in Flaky
        BY <1>3, <1>4, <4>1
      <4> QED
        BY <4>2 DEF Passed
    <3> QED
      BY <3>1, <3>2
  <2>3. Rest(zs, k) = Rest(s, n + k)
    BY <1>1, <1>2, <2>1, RestOfRest
  <2>4. /\ Query(u, zs, k).user = u /\ Query(u, zs, k).zone = s[n + k]
        /\ Query(u, zs, k).rest = Rest(s, n + k)
    BY <2>1, <2>3 DEF Query, Rest
  <2> QED
    BY <2>1, <2>2, <2>4 DEF InTurn
<1>5. ASSUME \A j \in DOMAIN zs : zs[j] \in Flaky, NEW i \in DOMAIN s
      PROVE  Passed(u, s[i], l)
  <2>1. CASE i \in 1 .. n
    BY <1>1, <2>1
  <2>2. CASE i \notin 1 .. n
    <3>1. i - n \in 1 .. Len(s) - n /\ n + (i - n) = i
      BY <1>2, <2>2
    <3>2. s[i] = zs[i - n] /\ zs[i - n] \in Flaky
      BY <1>3, <1>5, <3>1
    <3> QED
      BY <3>2 DEF Passed
  <2> QED
    BY <2>1, <2>2
<1> QED
  BY <1>4, <1>5

LEMMA AskedInTurnStep ==
  ASSUME IInv, [Next]_vars
  PROVE  AskedInTurn'
<1> USE DEF IInv
<1>1. ASSUME NEW u \in Users, NEW zs, NEW others,
             asks'[u] \in Seq(Zones), Left(u, zs, asks'[u], listing'),
             CheckZone(u, zs, others),
             \A q \in others : InTurn(q, asks'[q.user], listing'),
             \A v \in Users : scanned[v] > 0 =>
               \A k \in DOMAIN asks'[v] : Passed(v, asks'[v][k], listing')
      PROVE  AskedInTurn'
  <2>1. /\ \A k \in DOMAIN zs : (\A j \in 1 .. k - 1 : zs[j] \in Flaky) =>
                                  InTurn(Query(u, zs, k), asks'[u], listing')
        /\ (\A j \in DOMAIN zs : zs[j] \in Flaky) =>
             \A i \in DOMAIN asks'[u] : Passed(u, asks'[u][i], listing')
    BY <1>1, NextInTurn
  <2>2. CASE \E k \in DOMAIN zs :
               /\ \A j \in 1 .. k - 1 : zs[j] \in Flaky
               /\ queries' = others \union {Query(u, zs, k)}
               /\ UNCHANGED scanned
    <3>1. PICK k \in DOMAIN zs : /\ \A j \in 1 .. k - 1 : zs[j] \in Flaky
                                 /\ queries' = others \union {Query(u, zs, k)}
                                 /\ UNCHANGED scanned
      BY <2>2
    <3>2. Query(u, zs, k).user = u
      BY DEF Query
    <3>3. InTurn(Query(u, zs, k), asks'[u], listing')
      BY <2>1, <3>1
    <3> QED
      BY <1>1, <3>1, <3>2, <3>3 DEF AskedInTurn
  <2>3. CASE /\ \A j \in DOMAIN zs : zs[j] \in Flaky
             /\ queries' = others
             /\ scanned' = [scanned EXCEPT ![u] = @ + 1]
    <3>1. \A v \in Users \ {u} : scanned'[v] = scanned[v]
      BY <2>3 DEF TypeOK
    <3> QED
      BY <1>1, <2>1, <2>3, <3>1 DEF AskedInTurn
  <2> QED
    BY <1>1, <2>2, <2>3 DEF CheckZone
<1>2. ASSUME NEW u \in Users, Check(u)
      PROVE  AskedInTurn'
  <2>1. /\ asks' = [asks EXCEPT ![u] = zones] /\ UNCHANGED listing
        /\ (\A q \in queries : q.user # u) /\ scanned[u] = 0 /\ zones \in Seq(Zones)
        /\ CheckZone(u, zones, queries)
    BY <1>2, ZonesAssumption DEF Check, Checked, TypeOK
  <2>2. asks'[u] = zones /\ \A v \in Users \ {u} : asks'[v] = asks[v]
    BY <2>1 DEF TypeOK
  <2>3. Left(u, zones, zones, listing)
    <3>1. 0 + 1 = 1 /\ SubSeq(zones, 1, Len(zones)) = zones /\ Len(zones) \in Nat
      BY <2>1, SubSeqFull, LenProperties
    <3>2. zones = Rest(zones, 0) /\ 0 \in 0 .. Len(zones)
      BY <3>1 DEF Rest
    <3> QED
      BY <3>2 DEF Left
  <2>4. \A q \in queries : q.user \in Users \ {u}
    BY <2>1 DEF TypeOK, Queries
  <2>5. \A q \in queries : InTurn(q, asks'[q.user], listing')
    BY <2>1, <2>2, <2>4 DEF AskedInTurn
  <2>6. \A v \in Users : scanned[v] > 0 =>
          \A k \in DOMAIN asks'[v] : Passed(v, asks'[v][k], listing')
    BY <2>1, <2>2 DEF AskedInTurn
  <2>7. asks'[u] \in Seq(Zones) /\ Left(u, zones, asks'[u], listing')
    BY <2>1, <2>2, <2>3
  <2> QED
    BY <1>1, <2>1, <2>5, <2>6, <2>7
<1>3. ASSUME NEW q \in queries, AnswerListed(q)
      PROVE  AskedInTurn'
  BY <1>3 DEF AnswerListed, AskedInTurn
<1>4. ASSUME NEW q \in queries, AnswerNotListed(q)
      PROVE  AskedInTurn'
  <2> DEFINE u == q.user
             s == asks[u]
  <2>1. /\ UNCHANGED <<asks, listing>> /\ CheckZone(u, q.rest, queries \ {q})
        /\ Passed(u, q.zone, listing)
    BY <1>4 DEF AnswerNotListed, Passed
  <2>2. u \in Users /\ s \in Seq(Zones)
    BY DEF TypeOK, Queries
  <2>3. PICK n \in DOMAIN s : /\ q.zone = s[n] /\ q.rest = Rest(s, n)
                              /\ \A k \in 1 .. n - 1 : Passed(u, s[k], listing)
    BY DEF AskedInTurn, InTurn
  <2>4. n \in 0 .. Len(s) /\ \A k \in 1 .. n : k = n \/ k \in 1 .. n - 1
    BY <2>2, <2>3, LenProperties
  <2>5. Left(u, q.rest, s, listing)
    BY <2>1, <2>3, <2>4 DEF Left
  <2>6. /\ \A p \in queries \ {q} : InTurn(p, asks'[p.user], listing')
        /\ \A v \in Users : scanned[v] > 0 =>
             \A k \in DOMAIN asks'[v] : Passed(v, asks'[v][k], listing')
    BY <2>1 DEF AskedInTurn
  <2>7. asks'[u] \in Seq(Zones) /\ Left(u, q.rest, asks'[u], listing')
    BY <2>1, <2>2, <2>5
  <2> HIDE DEF u, s
  <2> QED
    BY <1>1, <2>1, <2>2, <2>6, <2>7
<1>5. ASSUME NEW zs \in ZoneLists, SetZones(zs)
      PROVE  AskedInTurn'
  BY <1>5 DEF SetZones, AskedInTurn
<1>6. CASE UNCHANGED vars
  BY <1>6 DEF vars, AskedInTurn
<1> QED
  BY <1>2, <1>3, <1>4, <1>5, <1>6 DEF Next

-----------------------------------------------------------------------------
(* What follows                                                            *)

\* The inductive invariant: types, one query or verdict at a time, and every query
\* asks a zone of its client's list whose predecessors have been passed over.
THEOREM Invariance == Spec => []IInv
<1>1. Init => IInv
  <2>1. ASSUME Init PROVE TypeOK
    BY <2>1, EmptySeq DEF Init, TypeOK
  <2> QED
    BY <2>1 DEF Init, IInv, OneAtATime, AskedInTurn, QueriesOf, NoQuery
<1>2. IInv /\ [Next]_vars => IInv'
  BY TypeStep, OneAtATimeStep, AskedInTurnStep DEF IInv
<1> QED
  BY <1>1, <1>2, PTL DEF Spec

\* A check never has more than one query out or verdict given.
THEOREM Verdict == Spec => []OneVerdict
<1>1. ASSUME IInv, NEW u \in Users
      PROVE  listed[u] + scanned[u] + Cardinality({q \in queries : q.user = u}) <= 1
  <2>1. CASE NoQuery(u, queries)
    <3>1. Cardinality({q \in queries : q.user = u}) = 0
      BY <2>1, FS_EmptySet DEF QueriesOf, NoQuery
    <3> QED
      BY <1>1, <2>1, <3>1 DEF IInv, OneAtATime
  <2>2. CASE OneQuery(u, queries)
    <3>1. PICK q : QueriesOf(u, queries) = {q}
      BY <2>2 DEF OneQuery
    <3>2. Cardinality({p \in queries : p.user = u}) = 1
      BY <3>1, FS_Singleton DEF QueriesOf
    <3>3. ~NoQuery(u, queries)
      BY <3>1 DEF NoQuery
    <3>4. listed[u] = 0 /\ scanned[u] = 0
      BY <1>1, <3>3 DEF IInv, OneAtATime
    <3> QED
      BY <3>2, <3>4
  <2> QED
    BY <1>1, <2>1, <2>2 DEF IInv, OneAtATime
<1>2. IInv => OneVerdict
  BY <1>1 DEF OneVerdict
<1> QED
  BY <1>2, Invariance, PTL

\* Whatever fails and whatever is set meanwhile, who passes for clean is named by no
\* reliable zone of the list its check began with.
THEOREM NoneSlips == Spec => []ListedNotScanned
<1>1. IInv => ListedNotScanned
  BY DEF IInv, AskedInTurn, Passed, ListedNotScanned
<1> QED
  BY <1>1, Invariance, PTL
=============================================================================
