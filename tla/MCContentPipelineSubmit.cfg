CONSTANTS
  h1 = h1
  h2 = h2
  None = None
  Doc = {d1}
  Handler = {h1, h2}
  NumSteps = 2
  MaxDequeue = 1
  Slot = {s1, s2}
  StepOf <- OneReplica
SPECIFICATION Spec
INVARIANTS
  SubmittedIsSent
