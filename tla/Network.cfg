SPECIFICATION MCSpec
CONSTANTS
  N = 2
  Healthy = {2}
  Size = 3
  Timeout = 1
  Attempts = 2
  MaxTime = 4
  MaxVersion = 3
  MaxFaults = 4
  Nil = Nil
INVARIANTS TypeOK LoopBounded AllOrTimeout HealthyServed MessageIntact NoSocketLeft
INVARIANTS CfTypeOK CacheKept CacheWhole
PROPERTIES SendReturns NeverOlder FetchConverges
