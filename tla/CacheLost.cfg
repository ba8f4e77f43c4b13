SPECIFICATION CfSpec
CONSTANTS
  MaxVersion = 3
  MaxFaults = 4
  Nil = Nil
INVARIANTS StaysConfigured

