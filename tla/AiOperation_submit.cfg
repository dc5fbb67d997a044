SPECIFICATION LiveSpec
CONSTANTS
  NoWorker = NoWorker
  Workers = {w1, w2}
  Submitters = {w1, w2}
  Pollers = {w2}
  MaxAttempts = 1
  Runaways = TRUE
  MaxPolls = 1
  MaxCrashes = 1
CHECK_DEADLOCK FALSE
INVARIANTS
  TypeOK
  CreatedOnce
PROPERTIES
  TaskNeverReopens
  RunningEnds
