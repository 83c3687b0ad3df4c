SPECIFICATION FairSpec
CONSTANTS
  report = report
  digest = digest
  review = review
  Never = Never
  Schedules <- Both
  Once <- OneOff
  Every = 1
  Batch = 1
  Coincide = FALSE
  MaxTime = 1
  MaxCrashes = 1
CHECK_DEADLOCK FALSE
PROPERTIES NoneStuck
