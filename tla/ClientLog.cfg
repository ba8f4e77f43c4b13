SPECIFICATION Spec
CONSTANTS
  Capacities = {0, 5, 24, 60}
  Sizes = {1, 2}
  Nil = Nil
INVARIANTS TypeOK HandlesMatch NothingLeftOpen CutOnlyBehindScratch
PROPERTIES OneMessage
CHECK_DEADLOCK FALSE
