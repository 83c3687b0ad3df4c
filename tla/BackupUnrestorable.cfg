INIT BackupInit
NEXT BackupNext
CONSTANTS
  Areas = {1, 2, 3}
  DataArea = 2
  MaxEdits = 2
  MaxBreaks = 1
CHECK_DEADLOCK FALSE
INVARIANT BundleRestores
