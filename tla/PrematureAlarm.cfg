SPECIFICATION HSpec
CONSTANTS
  Machines = {server}
  Tests = {cpu}
  Colors = {"green", "yellow", "red"}
  Sleeps = {4}
  Graces = {3}
  MaxTime = 7
  Nil = Nil

PROPERTIES AlarmAfterUnbrokenGrace
