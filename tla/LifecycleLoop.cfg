\* A reconnect loop that fails for want of a transport.
CONSTANTS
  Exp = 1
  MaxAttempts = 3
  Kept = 3
  Lenient = FALSE
  MaxTime = 2
  MaxTrouble = 1
  MaxReconnects = 1
  MaxNoise = 0
SPECIFICATION Spec
INVARIANTS
  LoopIsAuthentication
