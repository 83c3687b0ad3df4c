SPECIFICATION Spec
CONSTANTS
  report = report
  digest = digest
  review = review
  Never = Never
  Schedules <- Both
  Once <- OneOff
  Every = 1
  Batch = 20
  Coincide = FALSE
  MaxTime = 2
  MaxCrashes = 1
CHECK_DEADLOCK FALSE
INVARIANTS TypeOK OneAtATime RunningIsAlive NextIsFree
PROPERTIES OncePerSlot
