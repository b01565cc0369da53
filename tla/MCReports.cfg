SPECIFICATION Spec
CONSTANTS
  Worlds <- MCWorlds
  NoIp = "none"
  Hash <- MCHash
  Subnet <- MCSubnet
  Domain <- MCDomain
  Before <- MCBefore
  MultiMin = 2
  OperInMulti = FALSE
  ReportMin = 3
  Increment = 1
  MaxUsers = 4
INVARIANTS ReportsAgree ClonesFastest
CHECK_DEADLOCK FALSE
