INIT UpdateInit
NEXT UpdateNext
CONSTANTS
  MaxRevision = 3
  Buildable = {2}
  MaxMeddles = 0
CHECK_DEADLOCK FALSE
INVARIANT MergedWasVerified
