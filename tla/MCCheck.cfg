SPECIFICATION CheckSpec
CONSTANTS
  Inputs = {a, b, c}
  Skipped = Skipped
  Header = Header
  Torn = Torn
  MaxArgs = 2
  MaxLines = 2
  BufferRows = 2
INVARIANTS
  RowsAnswerInputs
  ExitZeroWritesAll
