SPECIFICATION Spec
CONSTANTS
  Worlds <- SpanWorlds
  NoIp = "none"
  T1Time = 2
  T2Time = 7
  Pause = 2
  MaxNotices = 5
  MaxClock = 7
INVARIANT PunishedWithinTime
CHECK_DEADLOCK FALSE
