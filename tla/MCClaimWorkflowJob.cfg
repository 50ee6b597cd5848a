CONSTANTS
  None = None
  File = {f1, f2}
  Job = {j1}
  Stage = {}
  RaiEnabled = TRUE
  MaxConcurrency = 2
  MaxPolls = 2
SPECIFICATION Spec
INVARIANTS
  ListExact
  ResultsFromListed
  FailureHasReason
PROPERTY VerdictStays
SYMMETRY FileSymmetry
CHECK_DEADLOCK FALSE
