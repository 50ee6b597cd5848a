CONSTANTS
  None = None
  p1 = p1
  p2 = p2
  p3 = p3
  s1 = s1
  s2 = s2
  k1 = k1
  Process = {p1, p2, p3}
  SchemaId = {s1, s2}
  SetId = {k1}
  MaxFaults = 1
SPECIFICATION Spec
SYMMETRY Symmetry
INVARIANTS
  RegisteredHasFile
  OrphanNeedsFault
  ListedWasRegistered
  AnswerIsRecent
PROPERTIES
  DeletedStaysDeleted
CHECK_DEADLOCK FALSE
