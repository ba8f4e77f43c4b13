SPECIFICATION Spec
CONSTANTS
  N = 2
  Healthy = {2}
  Size = 2
  Timeout = 1
  Attempts = 2
  MaxTime = 4

PROPERTIES WaitsForData
