CONSTANTS
  Handler = {h1, h2}
  Topic = {t1, t2}
  TMP_FILE = t1
  MaxUsers = 2
  MaxLines = 1
  MaxCrashes = 0
SPECIFICATION FairSpec
PROPERTIES
  OperationCompletes
