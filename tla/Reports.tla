------------------------------ MODULE Reports ------------------------------
(***************************************************************************)
(* The reports on the clients connected: .class, .domains, .nets, .multi    *)
(* and its relatives, .clones and .vclones, .seedrand.  Each is computed    *)
(* from one of the four hash tables of UserHash, bucket by bucket, so that  *)
(* it is right only if the clients it counts together are always in one     *)
(* bucket; .clones looks for the fastest run of connections of one host.    *)
(* What is in the tables is the subject of UserHash; here clients are       *)
(* added one after the other.                                               *)
(***************************************************************************)
EXTENDS Integers, Sequences, SequencesExt, FiniteSets, FiniteSetsExt

CONSTANTS
  Worlds,               \* sets of clients that may connect
  NoIp,                 \* INADDR_NONE
  Hash(_),              \* hashFunc of a name; of an address, that of its class C net
  Subnet(_),            \* the class C net of an address
  Domain(_),            \* getDomain of a host
  Before(_, _),         \* the order of keys in a map
  MultiMin, OperInMulti, ReportMin,
  Increment,            \* CLONE_DETECT_INC, 15 seconds a connection
  MaxUsers              \* bound

User == [user : STRING, host : STRING, ip : STRING, class : STRING, oper : BOOLEAN,
         time : Nat, score : Int]
ASSUME WorldsAreWorlds == \A w \in Worlds : \A u \in w : u \in User
ASSUME NumbersAreNumbers ==
  /\ MultiMin \in Nat \ {0} /\ OperInMulti \in BOOLEAN /\ ReportMin \in Nat \ {0}
  /\ Increment \in Nat \ {0} /\ MaxUsers \in Nat

VARIABLES world, users
vars == <<world, users>>

Init == world \in Worlds /\ users = <<>>
Connect(u) == /\ u \in world /\ Len(users) < MaxUsers
              /\ users' = Append(users, u) /\ UNCHANGED world
Next == \E u \in UNION Worlds : Connect(u)
Spec == Init /\ [][Next]_vars

-----------------------------------------------------------------------------
\* The keys of the tables.
Host(u) == u.host
UserName(u) == u.user
DomainOf(u) == Domain(u.host)
Net(u) == Subnet(u.ip)

\* The buckets of a table in their order, each with its clients in theirs.
Buckets(Key(_)) ==
  LET places == SetToSortSeq({Hash(Key(users[i])) : i \in DOMAIN users}, <)
  IN  [b \in DOMAIN places |-> SelectSeq(users, LAMBDA u : Hash(Key(u)) = places[b])]

\* A std::map of counts over the clients of a list, and its entries in order.
CountIn(list, Of(_), k) == Len(SelectSeq(list, LAMBDA u : Of(u) = k))
Counts(list, Of(_), Order(_, _)) ==
  LET keys == SetToSortSeq({Of(list[i]) : i \in DOMAIN list}, Order)
  IN  [j \in DOMAIN keys |-> [key |-> keys[j], count |-> CountIn(list, Of, keys[j])]]
AtLeast(lines, minimum) == SelectSeq(lines, LAMBDA l : l.count >= minimum)

\* The order of the lines: the highest count first; those of one count were inserted
\* in the order of their keys, and are read from the end.
Larger(a, b) == a.count > b.count \/ (a.count = b.count /\ Before(b.key, a.key))
Sorted(lines) == SetToSortSeq(ToSet(lines), Larger)

\* One map for all buckets.
Whole(buckets) == FlattenSeq(buckets)

\* reportClasses, without and with a class; reportDomains, reportNets.
Class(u) == u.class
ReportClasses == Sorted(Counts(Whole(Buckets(DomainOf)), Class, Before))
ReportClass(c) == SelectSeq(Counts(Whole(Buckets(DomainOf)), Class, Before), LAMBDA l : l.key = c)
ReportDomains(minimum) ==
  Sorted(AtLeast(Counts(Whole(Buckets(Host)), DomainOf, Before), minimum))
ReportNets(minimum) ==
  LET known == SelectSeq(Whole(Buckets(Host)), LAMBDA u : u.ip # NoIp)
  IN  Sorted(AtLeast(Counts(known, Net, Before), minimum))

\* reportSeedrand: the nicknames that score enough, the lowest score first.
ReportSeedrand(threshold) ==
  SortSeq(SelectSeq(Whole(Buckets(UserName)), LAMBDA u : u.score >= threshold),
          LAMBDA a, b : a.score < b.score)

-----------------------------------------------------------------------------
(* The reports of several clients: a map for each bucket *)

Minimum(minimum) == IF minimum > 0 THEN minimum ELSE MultiMin
PerBucket(Key(_), Of(_), Order(_, _), Eligible(_), minimum) ==
  LET buckets == Buckets(Key)
      lines(b) == AtLeast(Counts(SelectSeq(buckets[b], Eligible), Of, Order), Minimum(minimum))
  IN  FlattenSeq([b \in DOMAIN buckets |-> lines(b)])

\* An operator counts only with OPER_IN_MULTI.
Counted(u) == OperInMulti \/ ~u.oper
UserDomain(u) == <<u.user, DomainOf(u)>>
UserNet(u) == <<u.user, Net(u)>>
PairBefore(k, l) == Before(k[1], l[1]) \/ (k[1] = l[1] /\ Before(k[2], l[2]))

\* Slip: the table by user is read for what is counted by user and domain.
ReportMultiByHost(minimum) == PerBucket(Host, UserDomain, PairBefore, Counted, minimum)

\* reportMulti, reportHMulti, reportUMulti, reportVMulti
ReportMulti(minimum) == PerBucket(DomainOf, UserDomain, PairBefore, Counted, minimum)
ReportHMulti(minimum) == PerBucket(Host, Host, Before, Counted, minimum)
ReportUMulti(minimum) == PerBucket(UserName, UserName, Before, Counted, minimum)
ReportVMulti(minimum) ==
  PerBucket(Net, UserNet, PairBefore, LAMBDA u : OperInMulti \/ (u.ip # NoIp /\ ~u.oper), minimum)

-----------------------------------------------------------------------------
(* The reports of clones *)

\* Slip: the search stops at the shortest run.
WindowShort(times) ==
  LET n == Len(times)
      fits(k, j) == /\ times[j] > 0 /\ times[j + k] > 0
                    /\ times[j] - times[j + k] <= (k + 1) * Increment
      found == {k \in 2 .. n - 1 : \E j \in 1 .. n - k : fits(k, j)}
      k == Min(found)
  IN  IF found = {} THEN <<>>
      ELSE <<[count |-> k + 1, span |-> LET j == Min({i \in 1 .. n - k : fits(k, i)})
                                         IN  times[j] - times[j + k]]>>

\* The times of connection, latest first; a client known from TRACE has 0.  The
\* largest number of connections within so many times Increment seconds, three at
\* least, and of these runs the latest.
Window(times) ==
  LET n == Len(times)
      fits(k, j) == /\ times[j] > 0 /\ times[j + k] > 0
                    /\ times[j] - times[j + k] <= (k + 1) * Increment
      found == {k \in 2 .. n - 1 : \E j \in 1 .. n - k : fits(k, j)}
      k == Max(found)
  IN  IF found = {} THEN <<>>
      ELSE <<[count |-> k + 1, span |-> LET j == Min({i \in 1 .. n - k : fits(k, i)})
                                         IN  times[j] - times[j + k]]>>

Times(list) == SortSeq([i \in DOMAIN list |-> list[i].time], >)
\* For the first client of each group in a bucket: the group's window.
CloneLines(Key(_), Of(_)) ==
  LET buckets == Buckets(Key)
      firsts(b) == SelectSeq([i \in DOMAIN b |-> i],
                             LAMBDA i : \A j \in 1 .. i - 1 : Of(b[j]) # Of(b[i]))
      group(b, i) == SelectSeq(b, LAMBDA u : Of(u) = Of(b[i]))
      line(b, i) == LET w == Window(Times(group(b, i)))
                    IN  [j \in DOMAIN w |-> [key |-> Of(b[i]), count |-> w[j].count,
                                             span |-> w[j].span,
                                             total |-> Len(group(b, i))]]
      lines(b) == FlattenSeq([f \in DOMAIN firsts(b) |-> line(b, firsts(b)[f])])
  IN  FlattenSeq([b \in DOMAIN buckets |-> lines(buckets[b])])

\* reportClones, reportVClones
ReportClones == CloneLines(Host, Host)
ReportVClones == CloneLines(Net, UserNet)

-----------------------------------------------------------------------------
\* The lines are one for each key of an eligible client that has its minimum, with
\* the number of clients that have it.
Tells(lines, Of(_), Eligible(_), minimum) ==
  LET U == {i \in DOMAIN users : Eligible(users[i])}
      having(k) == Cardinality({i \in U : Of(users[i]) = k})
  IN  /\ IsInjective([i \in DOMAIN lines |-> lines[i].key])
      /\ ToSet(lines) = {[key |-> k, count |-> having(k)] :
                           k \in {k \in {Of(users[i]) : i \in U} : having(k) >= minimum}}
Descending(lines) == \A i, j \in DOMAIN lines : i < j => lines[i].count >= lines[j].count
Everyone(u) == TRUE

\* Every report counts every client once, with all those it belongs with, whichever
\* buckets they share and with whom, and puts the largest counts first.  (The clients
\* without an address, which OPER_IN_MULTI lets .vmulti count as one net, are left out.)
ReportsAgree ==
  /\ Tells(ReportClasses, Class, Everyone, 1) /\ Descending(ReportClasses)
  /\ \A c \in {Class(users[i]) : i \in DOMAIN users} :
       ReportClass(c) = SelectSeq(ReportClasses, LAMBDA l : l.key = c)
  /\ \A m \in 1 .. ReportMin :
       /\ Tells(ReportDomains(m), DomainOf, Everyone, m) /\ Descending(ReportDomains(m))
       /\ Tells(ReportNets(m), Net, LAMBDA u : u.ip # NoIp, m) /\ Descending(ReportNets(m))
       /\ Tells(ReportMulti(m), UserDomain, Counted, m)
       /\ Tells(ReportHMulti(m), Host, Counted, m)
       /\ Tells(ReportUMulti(m), UserName, Counted, m)
       /\ Tells(SelectSeq(ReportVMulti(m), LAMBDA l : l.key[2] # Subnet(NoIp)), UserNet,
                LAMBDA u : u.ip # NoIp /\ Counted(u), m)
       /\ Len(ReportSeedrand(m)) = Cardinality({i \in DOMAIN users : users[i].score >= m})

\* The clones reported are the most connections of one host, or of one user and net,
\* that came fast enough: any three or more of them that came within fifteen seconds
\* each are no more than the report says, and a report names connections that did.
FastSets(Of(_), k) ==
  {S \in SUBSET {i \in DOMAIN users : Of(users[i]) = k /\ users[i].time > 0} :
     Cardinality(S) > 2 /\ \A i, j \in S : users[i].time - users[j].time
                                           <= Cardinality(S) * Increment}
Fastest(lines, Of(_)) ==
  \A k \in {Of(users[i]) : i \in DOMAIN users} :
    LET reported == SelectSeq(lines, LAMBDA l : l.key = k)
        sizes == {Cardinality(S) : S \in FastSets(Of, k)}
    IN  IF sizes = {} THEN reported = <<>>
        ELSE Len(reported) = 1 /\ reported[1].count = Max(sizes)
ClonesFastest == Fastest(ReportClones, Host) /\ Fastest(ReportVClones, UserNet)
=============================================================================
