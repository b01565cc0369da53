SPECIFICATION FairSpec
CONSTANTS
    Bots = {"a", "b", "c", "d"}
    MaxDials = 3
    Worlds <- FourWorlds
INVARIANTS
    ViewsAgree
    NoPhantom
    Forest
PROPERTIES
    Settles
CHECK_DEADLOCK FALSE
