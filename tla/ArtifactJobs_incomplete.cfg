CONSTANTS
  w1 = w1
  w2 = w2
  nobody = nobody
  Workers = {w1, w2}
  NoWorker = nobody
  MaxAttempts = 1
  MaxFiles = 2
  Size <- SmallSizes
  Manifests <- SmallManifests
  ItemLimit = 2
  ByteLimit = 3
  BatchSize = 1
  MaxEdits = 1
  MaxClaims = 3
  MaxCrashes = 1
  MaxErrors = 1
  MaxStalls = 1
  MaxAges = 1
SPECIFICATION Spec
CHECK_DEADLOCK FALSE
SYMMETRY Symmetry
PROPERTY
  FinishedImportCompletes
