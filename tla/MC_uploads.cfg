CONSTANTS
  k1 = k1
  k2 = k2
  Thread = {t1, t2}
  Code = {k1, k2}
  FileData <- TwoFiles
  ControlData <- TwoControls
  MaxPeriods = 2
  MaxFiles = 2
SYMMETRY ThreadSymmetry
SPECIFICATION Spec
INVARIANTS
  TypeOK
  RowsBounded
  TransactionsMatchFile
PROPERTIES
  PeriodSealed
  ErrorsExact
  SplitByFile
CHECK_DEADLOCK FALSE
