SPECIFICATION Spec
INVARIANTS
  TypeOK
  PassIsCommons
  DefectNeverPasses
PROPERTIES
  ClientEnds
  HonestPasses
