INIT LiveInit
NEXT LiveNext
CONSTANTS
  MaxSeq = 2
  MaxCuts = 1
  MaxFails = 0
  MaxToggles = 0
CHECK_DEADLOCK FALSE
PROPERTY StateAfterCue
