SPECIFICATION Spec
CONSTANTS
  Servers = {s1}
  Pages = 2
  MaxDay = 4
  MaxRuns = 2
  MaxFaults = 1
INVARIANT
  ReadyMeansFresh
