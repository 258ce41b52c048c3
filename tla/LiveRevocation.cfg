\* Two seconds: the revocation may fall into the second of the issue, after it, or, the clock set back, before it.
CONSTANT MaxNow = 2
SPECIFICATION Spec
INVARIANTS
  TypeOK
  StartsComplete
  NothingUnverifiedRuns
PROPERTIES
  ImplementsRevocation
  EnforcedInTheEnd
  HonestSetupSucceeds
