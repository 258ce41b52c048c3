\* Both gates, with and without faults.
CONSTANTS
  Exp = 1
  MaxAttempts = 3
  Kept = 3
  Lenient = FALSE
  MaxTime = 2
  MaxTrouble = 1
  MaxReconnects = 2
  MaxNoise = 0
SPECIFICATION FairSpec
PROPERTIES
  GateDecides
  HonestDenialPasses
