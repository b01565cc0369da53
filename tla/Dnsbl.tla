------------------------------- MODULE Dnsbl -------------------------------
(***************************************************************************)
(* The DNS blackhole lookups of OOMon (dnsbl.cc, with libadns), which come *)
(* before the proxy scans (engine.cc, checkProxy).                         *)
(*                                                                         *)
(* A check asks the zones of DNSBL_PROXY_ZONE one after the other, one     *)
(* query of a check being out at a time.  A query carries the zones still  *)
(* to be asked, so that the setting may change while it is out.  The       *)
(* answers arrive in any order (Dnsbl::process polls every query in every  *)
(* pass of the main loop).  The check ends with the report of an open      *)
(* proxy, or with the call of the clean function, which scans the client.  *)
(***************************************************************************)
EXTENDS Naturals, Sequences, FiniteSets

CONSTANTS
    Users,       \* the checks of connecting clients
    Zones,       \* DNS zones
    ZoneLists,   \* values of DNSBL_PROXY_ZONE
    Flaky        \* zones whose lookups may fail: adns refuses the query, or the
                 \* answer is an error

ASSUME ZonesAssumption == ZoneLists \subseteq Seq(Zones)
ASSUME FlakyAssumption == Flaky \subseteq Zones

VARIABLES
    listing,   \* the clients each zone lists
    zones,     \* DNSBL_PROXY_ZONE
    queries,   \* queries_
    asks,      \* the zones to be asked when the client was checked, or <<>>
    listed,    \* how often the client was reported
    scanned    \* how often the clean function was called for the client

vars == <<listing, zones, queries, asks, listed, scanned>>

Queries == [user : Users, zone : Zones, rest : Seq(Zones)]

Checked(u) == listed[u] + scanned[u] > 0 \/ \E q \in queries : q.user = u

Init ==
    /\ listing \in SUBSET (Users \X Zones)
    /\ zones \in ZoneLists
    /\ queries = {}
    /\ asks = [u \in Users |-> <<>>]
    /\ listed = [u \in Users |-> 0]
    /\ scanned = [u \in Users |-> 0]
-----------------------------------------------------------------------------
\* Slip: the zones after the one asked are forgotten.
QueryLast(u, zs, k) == [user |-> u, zone |-> zs[k], rest |-> <<>>]

\* The query for the k-th zone of zs, which keeps the zones after it.
Query(u, zs, k) ==
    [user |-> u, zone |-> zs[k], rest |-> SubSeq(zs, k + 1, Len(zs))]

\* Dnsbl::checkZone: the first zone whose query adns accepts is asked, and the
\* client is clean when there is none.  The queries but for u's are `others'.
CheckZone(u, zs, others) ==
    \/ \E k \in DOMAIN zs :
         /\ \A j \in 1 .. k - 1 : zs[j] \in Flaky
         /\ queries' = others \union {Query(u, zs, k)}
         /\ UNCHANGED scanned
    \/ /\ \A j \in DOMAIN zs : zs[j] \in Flaky
       /\ queries' = others
       /\ scanned' = [scanned EXCEPT ![u] = @ + 1]

\* checkProxy: a client is checked against the zones set at this time.
Check(u) ==
    /\ ~Checked(u)
    /\ asks' = [asks EXCEPT ![u] = zones]
    /\ CheckZone(u, zones, queries)
    /\ UNCHANGED <<listing, zones, listed>>

\* Slip: the other zones are asked although one has answered.
AnswerListedAndAsk(q) ==
    /\ <<q.user, q.zone>> \in listing
    /\ listed' = [listed EXCEPT ![q.user] = @ + 1]
    /\ CheckZone(q.user, q.rest, queries \ {q})
    /\ UNCHANGED <<listing, zones, asks>>

\* The zone of q lists its client: an open proxy is reported.
AnswerListed(q) ==
    /\ <<q.user, q.zone>> \in listing
    /\ listed' = [listed EXCEPT ![q.user] = @ + 1]
    /\ queries' = queries \ {q}
    /\ UNCHANGED <<listing, zones, asks, scanned>>

\* Slip: the query ends, and its check with it.
AnswerNotListedDropped(q) ==
    /\ <<q.user, q.zone>> \notin listing
    /\ queries' = queries \ {q}
    /\ UNCHANGED <<listing, zones, asks, listed, scanned>>

\* The zone of q does not list its client, or the lookup fails: the next zone is
\* asked, or the client is clean.  (That the resolver knows no such lookup, ESRCH, is
\* no case of its own: it does of one that was submitted and has not been answered.)
AnswerNotListed(q) ==
    /\ <<q.user, q.zone>> \notin listing \/ q.zone \in Flaky
    /\ CheckZone(q.user, q.rest, queries \ {q})
    /\ UNCHANGED <<listing, zones, asks, listed>>

\* A master sets DNSBL_PROXY_ZONE.
SetZones(zs) ==
    /\ zones' = zs
    /\ UNCHANGED <<listing, queries, asks, listed, scanned>>

Next ==
    \/ \E u \in Users : Check(u)
    \/ \E q \in queries : AnswerListed(q) \/ AnswerNotListed(q)
    \/ \E zs \in ZoneLists : SetZones(zs)

Spec == Init /\ [][Next]_vars

\* Every query is answered: adns gives a status for it in the end, a timeout
\* if nothing else, and the main loop polls for it.
FairSpec ==
    /\ Spec
    /\ \A u \in Users :
         WF_vars(\E q \in queries : q.user = u /\ (AnswerListed(q) \/ AnswerNotListed(q)))
-----------------------------------------------------------------------------
\* Types
TypeOK ==
    /\ listing \in SUBSET (Users \X Zones)
    /\ zones \in ZoneLists
    /\ queries \in SUBSET Queries
    /\ asks \in [Users -> Seq(Zones)]
    /\ listed \in [Users -> Nat]
    /\ scanned \in [Users -> Nat]

\* A check has one query out or one verdict, never more: a client that is
\* reported is not scanned besides ("If the IP is listed by the DNSBL, there's
\* no reason to do a scan of our own", engine.cc), nor acted upon twice.
OneVerdict ==
    \A u \in Users :
      listed[u] + scanned[u] + Cardinality({q \in queries : q.user = u}) <= 1

\* A client that is passed for clean is listed by none of the zones that were set
\* when its check began, but for those whose lookups fail: neither the failure of
\* another zone nor a change of the setting meanwhile makes a check skip one.
ListedNotScanned ==
    \A u \in Users :
      scanned[u] > 0 =>
        \A k \in DOMAIN asks[u] :
          asks[u][k] \notin Flaky => <<u, asks[u][k]>> \notin listing

\* Every check comes to a verdict.
EveryCheckAnswered == \A u \in Users : Checked(u) ~> listed[u] + scanned[u] > 0
=============================================================================
