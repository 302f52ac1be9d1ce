CONSTANTS
  k1 = k1
  k2 = k2
  Thread = {t1}
  Code = {k1, k2}
  FileData <- TwoFiles
  ControlData <- TwoControls
  MaxPeriods = 1
  MaxFiles = 1
SPECIFICATION Spec
PROPERTY NoLateFile
CHECK_DEADLOCK FALSE
