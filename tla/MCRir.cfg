SPECIFICATION Spec
CONSTANTS
  Bits = 2
  Countries = {a, b}
  NoCC = NoCC
  MaxRows = 3
SYMMETRY Symmetry
INVARIANTS
  AnswerIsCovered
  CoveredIsFound
  RowsSayWhatLinesSay
  BlocksAreTheRow
