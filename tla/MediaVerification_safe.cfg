SPECIFICATION Spec
CONSTANTS
  NoWorker = NoWorker
  Workers = {w1, w2}
  MaxAttempts = 1
  Items = {i1}
  Bodies = {"clip", "junk"}
  Requests = {r1}
  MaxGeneration = 1
  MaxPuts = 1
  MaxClaims = 2
  MaxFaults = 1
  Cap = 1
  Allowance = 1
  Grace = 0
  ImportDeadline = 1
  MaxTime = 2
SYMMETRY Symmetry
CHECK_DEADLOCK FALSE
INVARIANTS
  OutcomesAreTrue
  TypeOK
  PublishedIsProbed
PROPERTIES
  LastWordStays
  NothingPublishedAfterCancel
  ImportEndsOnce
