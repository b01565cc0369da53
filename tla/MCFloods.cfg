SPECIFICATION Spec
CONSTANTS
  Worlds <- MCWorlds
  NoIp = "none"
  T1Time = 2
  T2Time = 7
  Pause = 2
  MaxNotices = 5
  MaxClock = 7
INVARIANTS PunishedAfterStreak FloodersPunished ExemptSpared
CHECK_DEADLOCK FALSE
