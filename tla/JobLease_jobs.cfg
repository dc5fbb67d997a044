SPECIFICATION Spec
CONSTANTS
  NoJob = NoJob
  NoWorker = NoWorker
  Jobs = {j1, j2}
  Created = {j1}
  VerifyJobs = {}
  Workers = {w1, w2}
  Producers = {p1}
  Scanners = {s1, s2}
  MaxAttempts = 2
  MaxFaults = 1
  MaxDefers = 0
  Lossy = TRUE
  Archives = FALSE
SYMMETRY Interchangeable
CHECK_DEADLOCK FALSE
INVARIANTS
  SingleOwner
  RunsAreAccountedFor
  CancelShape
  StampedWasAdded
PROPERTIES
  ImplementsLifecycle
  TerminalIsFinal
  LiveLeaseIsKept
