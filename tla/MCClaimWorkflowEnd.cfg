CONSTANTS
  None = None
  File = {f1, f2}
  Job = {j1}
  Stage = {}
  RaiEnabled = FALSE
  MaxConcurrency = 1
  MaxPolls = 1
SPECIFICATION FairSpec
PROPERTY JobsEnd
CHECK_DEADLOCK FALSE
