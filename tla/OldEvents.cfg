SPECIFICATION MCSpec
CONSTANTS
  Logs <- MCLogs
  RuleFiles <- MCRuleFiles
  Contents <- MCContents
  BatchSize = 2
  MsgAge = 2
  Clock = 8
  PerSecond = 2
  Room = 4
  PickupFiles <- MCPickupFiles
  Command <- MCCommand
  Loose <- MCPickupFiles
  Long <- MCLong
  mrmachine = "host"
  OwnMachine = "host"
  Comma <- MCComma
  Fold <- MCFold
  ProcLines <- MCProcLines
  SvcLines <- MCSvcLines
  ProcessLists <- MCProcessLists
  ServiceLists <- MCServiceLists
  MaxProcesses = 3
  bootyellow = 2
  bootred = 1
  cpuyellow = 60
  cpured = 90
  PerMinute = 1
  Busy = {0, 75, 100}
  Idle0 = 50
  MaxUptime = 4
  WmiSections <- MCWmiSections
  MaxRows = 2
INVARIANT OldEventsIgnored
