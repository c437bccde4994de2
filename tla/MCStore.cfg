SPECIFICATION Spec
CONSTANTS
  Writers = {w1, w2}
  Readers = {r1}
  Inodes = {i1, i2, i3, i4}
  Data = {a, b}
  NoData = NoData
  Torn = Torn
  NoFile = NoFile
  Pages = 2
  MaxCalls = 3
  MaxCrashes = 2
SYMMETRY Symmetry
INVARIANTS
  TypeOK
  WholeFiles
  AckedIsDurable
  OnlyCrashesLeakTmp
PROPERTIES
  OpenFilesAreFrozen
  ImplementsRegister
