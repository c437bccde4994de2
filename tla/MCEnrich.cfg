SPECIFICATION FairSpec
CONSTANTS
  Processes = {p1, p2}
  Countries = {a, b}
  NoCC = NoCC
  NoDoc = NoDoc
  TTL = 1
  MaxLag = 1
  MaxFaults = 1
  MaxChanges = 1
INVARIANTS
  TypeOK
  CountriesWereSaid
PROPERTIES
  AnswersCatchUp
