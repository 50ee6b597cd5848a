CONSTANTS
  None = None
  r1 = r1
  r2 = r2
  f1 = f1
  f2 = f2
  n1 = n1
  n2 = n2
  Call = {r1, r2}
  File = {f1, f2}
  Name = {n1, n2}
  NameOf <- OwnNames
  MaxFaults = 1
SPECIFICATION Spec
INVARIANTS
  ItemsHaveFiles
  WorkflowReadsClassified
  AcceptedIsFound
PROPERTIES
  AcceptedSettles
CHECK_DEADLOCK FALSE
