SPECIFICATION Spec
CONSTANTS
  Countries = {ID, US, AU}
  ID = ID
  None = None
INVARIANTS
  DomainOverAddress
  StrongestFirst
  SignalTiersInTurn
  EvidenceMatches
  NoSignalLost
  DecideAgrees
