CONSTANTS
  Handler = {h1, h2}
  Topic = {t1, t2}
  TMP_FILE = tmp
  MaxUsers = 2
  MaxLines = 2
  MaxCrashes = 1
SPECIFICATION Spec
SYMMETRY FullSymmetry
VIEW View
INVARIANTS
  FilesInv
  LinesListed
  AckedKept
PROPERTIES
  IdsGivenOnce
  DeletionsSucceed
  DbAtomic
