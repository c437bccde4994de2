SPECIFICATION Spec
CONSTANTS
  Countries = {ID, US, AU}
  ID = ID
  None = None
INVARIANT
  ConfidenceIsATier
