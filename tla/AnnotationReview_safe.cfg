SPECIFICATION Spec
CONSTANTS
  None = None
  Users = {u1}
  Shapes = {a}
  MaxEdits = 2
  MaxStarts = 1
  MaxOthers = 1
CHECK_DEADLOCK FALSE
INVARIANTS
  SaveStatesAreTrue
  TypeOK
  GovernedByTransition
  BarrierSaves
PROPERTIES
  ImplementsDocument
  DecisionIsOfItsRevision
  OverwritesWhatWasSeen
