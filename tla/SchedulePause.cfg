SPECIFICATION Spec
CONSTANTS
  report = report
  digest = digest
  review = review
  Never = Never
  Schedules <- Digests
  Once <- NoSchedules
  Every = 1
  Batch = 20
  Coincide = FALSE
  MaxTime = 3
  MaxCrashes = 0
CHECK_DEADLOCK FALSE
PROPERTIES PauseStands
