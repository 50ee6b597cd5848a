CONSTANTS
  None = None
  t1 = t1
  t2 = t2
  c1 = c1
  Task = {t1, t2}
  Scoped = {}
  Service = {"AsyncStorageBlobHelper"}
  LifetimeOf <- AsyncHelper
  Scope = {c1}
  MaxMade = 3
  MaxFaults = 1
SPECIFICATION Spec
INVARIANTS
  AsyncSingletonMadeOnce
CHECK_DEADLOCK FALSE
