\* Two runs one after the other, the first of which may leave a proof.
CONSTANT MaxRuns = 2
SPECIFICATION Spec
INVARIANTS
  TypeOK
  PassIsEarned
  TeardownTellsTruth
  RemovalTellsTruth
  ExitTellsTruth
