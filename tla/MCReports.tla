----------------------------- MODULE MCReports -----------------------------
EXTENDS Reports
\* h1 and h2 are of one domain, h3 of another; a1 and a2 of one net.
MCDomain(h) == IF h \in {"h1", "h2"} THEN "d1" ELSE "d3"
MCSubnet(ip) == IF ip \in {"a1", "a2"} THEN "a" ELSE ip
\* Names share buckets: h1 and d3, u1 and u2, the nets a and b.
MCHash(k) == CASE k \in {"h1", "d3", "u1", "u2", "a", "b"} -> 1
               [] k \in {"h2", "d1"} -> 2 [] OTHER -> 3
Names == <<"h1", "h2", "h3", "d1", "d3", "u1", "u2", "a", "b", "none", "x", "y">>
Place(k) == CHOOSE i \in DOMAIN Names : Names[i] = k
MCBefore(k, l) == Place(k) < Place(l)
U(user, host, ip, class, oper, time, score) ==
  [user |-> user, host |-> host, ip |-> ip, class |-> class, oper |-> oper, time |-> time,
   score |-> score]
MCWorlds ==
  {{U(u, h, ip, IF h = "h1" THEN "x" ELSE "y", o, 0, IF u = "u1" THEN 1 ELSE 3) :
      u \in {"u1", "u2"}, h \in {"h1", "h2", "h3"}, ip \in {"a1", "b", "none"}, o \in {FALSE}}
     \cup {U("u1", "h1", "a2", "x", TRUE, 0, 0)},
   {U("u1", "h1", "a1", "x", FALSE, t, 0) : t \in {0, 1, 3, 5, 6, 9}}
     \cup {U("u1", "h2", "a2", "x", FALSE, 4, 0), U("u2", "h1", "b", "x", FALSE, 5, 0)}}
=============================================================================
