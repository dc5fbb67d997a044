SPECIFICATION LiveSpec
CONSTANTS
  NoJob = NoJob
  NoWorker = NoWorker
  Jobs = {j1}
  Created = {j1}
  VerifyJobs = {}
  Workers = {w1}
  Producers = {p1}
  Scanners = {s1}
  MaxAttempts = 1
  MaxFaults = 1
  MaxDefers = 0
  Lossy = FALSE
  Archives = TRUE
CHECK_DEADLOCK FALSE
PROPERTIES
  RecoveredIsRedelivered
