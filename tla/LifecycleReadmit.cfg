\* A server that lets the revoked session back in.
CONSTANTS
  Exp = 1
  MaxAttempts = 3
  Kept = 3
  Lenient = TRUE
  MaxTime = 2
  MaxTrouble = 1
  MaxReconnects = 1
  MaxNoise = 0
SPECIFICATION Spec
INVARIANTS
  ReadmissionFailsClosed
