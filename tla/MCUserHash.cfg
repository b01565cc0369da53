SPECIFICATION Spec
CONSTANTS
  c1 = c1
  c2 = c2
  c3 = c3
  n1 = n1
  n2 = n2
  Conns = {c1, c2, c3}
  Nicks = {n1, n2}
  NoIp = "none"
  Subnet <- MCSubnet
  Worlds <- MCWorlds
  CloneMinCount = 2
  CloneMaxTime = 2
  CloneReportInterval = 2
  VersionTimeout = 1
  DeltaMax = 1
SYMMETRY MCSymmetry
INVARIANTS TablesAgree EveryClientKnown NoStrangers ClonesTold
PROPERTIES NoFalseAlarm OnlySilentPunished
CHECK_DEADLOCK FALSE
