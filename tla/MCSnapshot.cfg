SPECIFICATION FairSpec
CONSTANTS
  Servers = {s1}
  Pages = 3
  MaxDay = 2
  MaxRuns = 2
  MaxFaults = 2
INVARIANTS
  TypeOK
  QuietLoadIsExact
PROPERTIES
  ServersComeUp
