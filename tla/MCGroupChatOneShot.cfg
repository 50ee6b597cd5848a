CONSTANTS
  None = None
  reviewer = reviewer
  MaxRetries = 2
  BaseDelay = 1
  MaxDelay = 1
  RetryAfter = {}
  MaxTotal = 6
  MaxMessage = 4
  KeepLast = 3
  Ends = 2
  Marker = 1
  Parts = 2
  Reviewer = {reviewer}
  Request <- Short
  Size = {3, 5}
  Excerpts <- TwoThenOne
  Decisions <- FewDecisions
  Opinions <- Differ
  Failures <- FewFailures
  MaxRounds = 4
  MaxTurns = 5
  MaxFailures = 2
SPECIFICATION Spec
PROPERTY OneShotTrim
CHECK_DEADLOCK FALSE
