CONSTANTS
  None = None
  File = {f1}
  Job = {j1}
  Stage = {}
  RaiEnabled = TRUE
  MaxConcurrency = 1
  MaxPolls = 1
SPECIFICATION Spec
INVARIANT UsedIsScreened
CHECK_DEADLOCK FALSE
