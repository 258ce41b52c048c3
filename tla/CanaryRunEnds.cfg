\* One run: no run waits for another.
CONSTANT MaxRuns = 1
SPECIFICATION FairSpec
PROPERTIES
  RunsEnd
