SPECIFICATION FairSpec
CONSTANTS
  Requests = {r1, r2}
  Hosts = {h}
  Answers = {a}
  NoAnswer = NoAnswer
  Families <- MCFamilies
  TTL = 1
  MaxLag = 1
  NumServers = 2
  Outages = {{}, {0, 1}}
  Attempts = 2
  MaxEvents = 1
INVARIANTS
  TypeOK
  HitsAreRecent
  AloneDialsAll
PROPERTIES
  AnswersCatchUp
