SPECIFICATION HSpec
CONSTANTS
  Machines = {server}
  Tests = {cpu}
  Colors = {"green", "yellow", "red"}
  Sleeps = {2, 4}
  Graces = {0, 3}
  MaxTime = 7
  Nil = Nil
INVARIANTS HTypeOK BelievedIsSent NoFalseAlarm NoOverdueAlarm
PROPERTIES AlarmAfterGrace FilterSpec
