----------------------------- MODULE MCUserHash -----------------------------
EXTENDS UserHash, TLC
CONSTANTS c1, c2, c3, n1, n2

\* The class C nets: addresses a1 and a2 share one, b1 is elsewhere.
MCSubnet(ip) == IF ip \in {"a1", "a2"} THEN "a" ELSE ip
uh == <<"u", "h">>
Addresses(u1, i1, u2, i2, u3, i3) ==
  [uh |-> (c1 :> u1 @@ c2 :> u2 @@ c3 :> u3), ip |-> (c1 :> i1 @@ c2 :> i2 @@ c3 :> i3)]
Alike(i) == Addresses(uh, "a1", uh, "a1", uh, i)
W(a, spoofs, friends, traceIp, ctcp, e, t) ==
  [uh |-> a.uh, ip |-> a.ip, spoofs |-> spoofs, friends |-> friends,
   traceIp |-> traceIp, ctcp |-> ctcp, maxEvents |-> e, maxTime |-> t]

MCWorlds ==
  {\* Clones of one net, and one elsewhere by name: the clone checks over time.
   W(Addresses(uh, "a1", uh, "a1", <<"v", "g">>, "a2"), {}, {}, TRUE, FALSE, 3, 2),
   \* Clones of one host, addresses never shown.
   W(Addresses(uh, "none", uh, "none", <<"v", "h">>, "none"), {}, {c3}, FALSE, FALSE, 3, 2),
   \* VERSION requests and their timeout.
   W(Addresses(uh, "a1", uh, "a1", <<"v", "g">>, "b1"), {}, {c3}, TRUE, TRUE, 3, 2),
   \* Two alike and one elsewhere, TRACE without addresses: races.
   W(Alike("b1"), {}, {c3}, FALSE, FALSE, 4, 0),
   \* The third has a false host name and is turned away.
   W(Alike("b1"), {c3}, {}, TRUE, FALSE, 4, 0)}
MCSymmetry == {f \in Permutations({c1, c2, n1, n2}) : f[c1] \in {c1, c2} /\ f[c2] \in {c1, c2}}
=============================================================================
