SPECIFICATION LiveSpec
CONSTANTS
  NoWorker = NoWorker
  Workers = {w1}
  MaxAttempts = 1
  Items = {i1}
  Bodies = {"plain", "clip"}
  Requests = {r1}
  MaxGeneration = 1
  MaxPuts = 1
  MaxClaims = 1
  MaxFaults = 1
  Cap = 1
  Allowance = 1
  Grace = 0
  ImportDeadline = 1
  MaxTime = 2
CHECK_DEADLOCK FALSE
PROPERTIES
  VerificationSettles
  ImportSettles
