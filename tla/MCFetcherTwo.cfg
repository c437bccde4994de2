SPECIFICATION FairSpec
CONSTANTS
  Updaters = {u1, u2}
  NoMeta = NoMeta
  MaxVersion = 2
  MaxFaults = 0
PROPERTY
  CatchesUp
