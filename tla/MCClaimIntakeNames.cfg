CONSTANTS
  None = None
  r1 = r1
  r2 = r2
  f1 = f1
  f2 = f2
  n1 = n1
  n2 = n2
  Call = {r1, r2}
  File = {f1, f2}
  Name = {n1, n2}
  NameOf <- SameName
  MaxFaults = 0
SPECIFICATION Spec
INVARIANTS
  ItemsHaveFiles
CHECK_DEADLOCK FALSE
