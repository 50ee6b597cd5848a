CONSTANTS
  m1 = m1
  m2 = m2
  c1 = c1
  c2 = c2
  Malformed = Malformed
  None = None
  Msg = {m1, m2}
  Worker = {w1, w2}
  Claim = {c1}
  ClaimOf <- OneMalformed
  Receipt = {r1, r2, r3, r4, r5, r6, r7, r8, r9, r10}
  MaxAttempts = 2
SPECIFICATION Spec
INVARIANTS
  ExclusiveLease
  DeadLetterJustified
  OneVerdictPerDelivery
  TrackingMatchesJob
PROPERTY
  PromiseKept
SYMMETRY WorkerSymmetry
VIEW ReceiptView
CONSTRAINT MalformedOnce
