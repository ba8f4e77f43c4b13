SPECIFICATION LSpec
CONSTANTS
  Machines = {m1}
  Tests = {1}
  Colors = {"green", "red"}
  Sleeps = {2, 3}
  Graces = {0}
  MaxTime = 16
  Nil = Nil
  NTests = 1
  Loops = {9}
  SLEEP_MIN = 1
  MaxWork = 1
  MaxFetch = 1
  MaxSetBacks = 0
INVARIANT ExecutesInTime
