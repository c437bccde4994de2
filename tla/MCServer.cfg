SPECIFICATION FairSpec
CONSTANTS
  Requests = {r1, r2}
  Clients = {c1, c2}
  Countries = {a}
  NoCC = NoCC
  Err = Err
  Burst = 1
  MaxBatch = 2
  Asked <- MCAsked
  Drain = 1
  MaxElapsed = 2
INVARIANTS
  TypeOK
  WithinBudget
  RefusedAfterBurst
  ExitZeroIsClean
  BatchIsComplete
PROPERTIES
  SignalEnds
