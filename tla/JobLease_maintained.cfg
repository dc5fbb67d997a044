SPECIFICATION MaintainedSpec
CONSTANTS
  NoJob = NoJob
  NoWorker = NoWorker
  Jobs = {j1}
  Created = {j1}
  VerifyJobs = {j1}
  Workers = {w1}
  Producers = {p1}
  Scanners = {s1}
  MaxAttempts = 2
  MaxFaults = 1
  MaxDefers = 1
  Lossy = FALSE
  Archives = TRUE
CHECK_DEADLOCK FALSE
INVARIANTS
  TypeOK
PROPERTIES
  ImplementsLifecycle
  RunningSettles
  QueuedIsServed
