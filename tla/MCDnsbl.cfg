SPECIFICATION FairSpec
CONSTANTS
    z1 = z1
    z2 = z2
    z3 = z3
    Users = {u1, u2}
    Zones = {z1, z2, z3}
    ZoneLists <- FlakyAmong
    Flaky = {z1}
INVARIANTS OneVerdict ListedNotScanned
PROPERTY EveryCheckAnswered
