\* One run: a stranger holds the port during the negative control and leaves.
CONSTANT MaxRuns = 1
SPECIFICATION Spec
INVARIANTS
  ControlIsOwn
