CONSTANTS
  None = None
  extract = extract
  t2 = t2
  c1 = c1
  c2 = c2
  c3 = c3
  Task = {extract, t2}
  Scoped = {extract}
  Service = {"settings", "service config", "session", "blob helper", "document session"}
  LifetimeOf <- OneOfEach
  Scope = {c1, c2, c3}
  MaxMade = 4
  MaxFaults = 1
SPECIFICATION Spec
SYMMETRY Symmetry
INVARIANTS
  SameWithinScope
  EndedLeavesNothing
CHECK_DEADLOCK FALSE
