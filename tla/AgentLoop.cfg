SPECIFICATION LSpec
CONSTANTS
  Machines = {m1}
  Tests = {1}
  Colors = {"green", "red"}
  Sleeps = {2, 3}
  Graces = {0}
  MaxTime = 13
  Nil = Nil
  NTests = 1
  Loops = {1, 9}
  SLEEP_MIN = 1
  MaxWork = 1
  MaxFetch = 1
  MaxSetBacks = 1
INVARIANTS LTypeOK KeepAlive LossRepaired
PROPERTIES SleepsSanely
