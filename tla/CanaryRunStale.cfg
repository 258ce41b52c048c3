\* A run that fails in its teardown after a run that passed.
CONSTANT MaxRuns = 2
SPECIFICATION Spec
INVARIANTS
  NoStalePass
