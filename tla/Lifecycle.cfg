\* Both gates, with and without faults, under a server that may let a denied session back in.
CONSTANTS
  Exp = 1
  MaxAttempts = 3
  Kept = 3
  Lenient = TRUE
  MaxTime = 2
  MaxTrouble = 1
  MaxReconnects = 1
  MaxNoise = 1
SPECIFICATION Spec
INVARIANTS
  TypeOK
  PassIsDenial
