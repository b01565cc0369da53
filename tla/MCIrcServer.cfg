SPECIFICATION Spec
CONSTANTS
  Masks = {"m1", "m2"}
  NickLength = 1
  MaxLength = 3
  WaitCap = 4
  Worlds <- MCWorlds
INVARIANTS LinesAgree KnowsOwnNick
PROPERTIES Recovers
CHECK_DEADLOCK FALSE
