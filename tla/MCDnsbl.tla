------------------------------ MODULE MCDnsbl ------------------------------
\* Instances of the DNS blackhole lookups for TLC.
EXTENDS Dnsbl

CONSTANTS z1, z2, z3

\* No zone, the flaky zone first, and the flaky zone between two others.
FlakyAmong == {<<>>, <<z1, z2>>, <<z3, z1, z2>>}
=============================================================================
