SPECIFICATION FairSpec
CONSTANTS
  Updaters = {u1}
  NoMeta = NoMeta
  MaxVersion = 3
  MaxFaults = 3
INVARIANTS
  TypeOK
  RawCoversMeta
  FetchIsFresh
PROPERTIES
  CatchesUp
  ImplementsMirror
