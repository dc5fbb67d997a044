SPECIFICATION Spec
CONSTANTS
  NoWorker = NoWorker
  Workers = {w1, w2, w3}
  Submitters = {w1}
  Pollers = {w2, w3}
  MaxAttempts = 1
  Runaways = TRUE
  MaxPolls = 1
  MaxCrashes = 0
SYMMETRY PollersToo
CHECK_DEADLOCK FALSE
INVARIANTS
  CommittedWithJob
  OutcomesCompatible
PROPERTIES
  LeaseStaysWithOwner
